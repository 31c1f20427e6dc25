-------------------------------- MODULE Adviser --------------------------------
(***************************************************************************)
(* The decision adviser of one chat (memory/advisor.py, decision_try of    *)
(* plugins/memory.py). A message about a decision starts a consultation;   *)
(* each later turn asks one question, and after some rounds gives advice.  *)
(* A message about something else ends it. Turns run in threads, over the  *)
(* LLM, and are not under the busy flag of the chat; decision_try runs in  *)
(* the event loop.                                                         *)
(*                                                                         *)
(* A message is                                                            *)
(*   unsent                                                                *)
(*   aborting   not about the consultation that is active                  *)
(*   ending     consult_abort has read the consultation                    *)
(*   turning    consult_turn is to read the consultation                   *)
(*   thinking   it is read; the LLM                                        *)
(*   noting     the advice is saved, its memory is to be added             *)
(*   done                                                                  *)
(* Answers are left out: they shape questions only.                        *)
(***************************************************************************)
EXTENDS Naturals, FiniteSets

CONSTANTS
    Messages,    \* messages of the chat, numbered as they come
    MaxRounds,   \* MAX_CONSULT_ROUNDS (4 in the code)
    UrgentRounds,\* rounds for a message that presses (2 in the code)
    MaxStops     \* bound: process restarts

VARIABLES
    session,  \* the row of consultations: status, topic and stage
    asker,    \* per message: phase, row read, stage it goes on from, urgency
    asked,    \* per topic: questions asked
    advised,  \* per topic: advice given
    aborted,  \* topics given up
    noted,    \* per topic: memories of the advice
    raced,    \* TRUE once the row was written over a change
    stops     \* restarts so far

vars == <<session, asker, asked, advised, aborted, noted, raced, stops>>

\* A message that presses gets no more rounds than any other.
AdviserAssumption ==
    /\ MaxRounds \in Nat /\ UrgentRounds \in 0..MaxRounds /\ MaxStops \in Nat

Topics == Messages \cup {0}
NoRow == [status |-> "none", topic |-> 0, stage |-> 0]
Unsent == [phase |-> "unsent", read |-> NoRow, topic |-> 0, stage |-> 0, rounds |-> MaxRounds]
Done == [Unsent EXCEPT !.phase = "done"]

Init ==
    /\ session = NoRow
    /\ asker = [m \in Messages |-> Unsent]
    /\ asked = [t \in Topics |-> 0]
    /\ advised = [t \in Topics |-> 0]
    /\ aborted = {}
    /\ noted = [t \in Topics |-> 0]
    /\ raced = FALSE
    /\ stops = 0

Step(m, to) == asker' = [asker EXCEPT ![m] = to]

\* Seeded fault: a consultation that is over is found too.
ConsultGetAny(row) == row

\* consult_get: only an active consultation is found.
ConsultGet(row) == IF row.status = "active" THEN row ELSE NoRow

\* consult_save: an upsert, whatever the row has become.
ConsultSave(m, row) ==
    /\ session' = row
    /\ raced' = (raced \/ session # asker[m].read)

-----------------------------------------------------------------------------
(* decision_try *)

EventLoopFree == \A m \in Messages : asker[m].phase \notin {"aborting", "ending"}

\* A word of _DECISION_RE makes a turn at any time. Without one, nothing
\* happens when no consultation is active; else it is a turn if the text is
\* related or short, and the end of the consultation if not.
Decide(m) ==
    /\ asker[m].phase = "unsent"
    /\ \A n \in Messages : n < m => asker[n].phase # "unsent"
    /\ EventLoopFree
    /\ \/ Step(m, [Unsent EXCEPT !.phase = "turning"])
       \/ /\ ConsultGet(session) # NoRow
          /\ Step(m, [Unsent EXCEPT !.phase = "aborting"])
       \/ /\ ConsultGet(session) = NoRow
          /\ Step(m, Done)
    /\ UNCHANGED <<session, asked, advised, aborted, noted, raced, stops>>

\* consult_abort: it may be over by now.
Abort(m) ==
    /\ asker[m].phase = "aborting"
    /\ Step(m, IF ConsultGet(session) = NoRow THEN Done
               ELSE [asker[m] EXCEPT !.phase = "ending", !.read = session])
    /\ UNCHANGED <<session, asked, advised, aborted, noted, raced, stops>>

End(m) ==
    /\ asker[m].phase = "ending"
    /\ ConsultSave(m, [asker[m].read EXCEPT !.status = "done"])
    /\ aborted' = aborted \cup {asker[m].read.topic}
    /\ Step(m, Done)
    /\ UNCHANGED <<asked, advised, noted, stops>>

-----------------------------------------------------------------------------
(* consult_turn *)

\* The consultation is read; without one, the message is a new topic. Words of
\* haste in the message shorten the rounds.
Turn(m) ==
    /\ asker[m].phase = "turning"
    /\ LET row == ConsultGet(session)
           topic == IF row = NoRow THEN m ELSE row.topic
       IN \E rounds \in {MaxRounds, UrgentRounds} :
            Step(m, [phase |-> "thinking", read |-> session, topic |-> topic,
                     stage |-> row.stage, rounds |-> rounds])
    /\ UNCHANGED <<session, asked, advised, aborted, noted, raced, stops>>

\* Rounds are left: a question. A call of the LLM that fails counts as one.
Question(m) ==
    /\ asker[m].phase = "thinking"
    /\ asker[m].stage < asker[m].rounds
    /\ ConsultSave(m, [status |-> "active", topic |-> asker[m].topic,
                       stage |-> asker[m].stage + 1])
    /\ asked' = [asked EXCEPT ![asker[m].topic] = @ + 1]
    /\ Step(m, Done)
    /\ UNCHANGED <<advised, aborted, noted, stops>>

\* No rounds are left: the advice, and the end.
Advise(m) ==
    /\ asker[m].phase = "thinking"
    /\ asker[m].stage >= asker[m].rounds
    /\ ConsultSave(m, [status |-> "done", topic |-> asker[m].topic,
                       stage |-> asker[m].stage + 1])
    /\ advised' = [advised EXCEPT ![asker[m].topic] = @ + 1]
    /\ Step(m, [asker[m] EXCEPT !.phase = "noting"])
    /\ UNCHANGED <<asked, aborted, noted, stops>>

\* memory_add of the advice, as a memory of her own.
Note(m) ==
    /\ asker[m].phase = "noting"
    /\ noted' = [noted EXCEPT ![asker[m].topic] = @ + 1]
    /\ Step(m, Done)
    /\ UNCHANGED <<session, asked, advised, aborted, raced, stops>>

Restart ==
    /\ stops < MaxStops
    /\ stops' = stops + 1
    /\ asker' = [m \in Messages |-> IF asker[m].phase = "unsent" THEN Unsent ELSE Done]
    /\ UNCHANGED <<session, asked, advised, aborted, noted, raced>>

Next ==
    \/ \E m \in Messages : \/ Decide(m) \/ Abort(m) \/ End(m)
                           \/ Turn(m) \/ Question(m) \/ Advise(m) \/ Note(m)
    \/ Restart

Spec == Init /\ [][Next]_vars

-----------------------------------------------------------------------------
Rows == [status : {"none", "active", "done"}, topic : Topics, stage : 0..(MaxRounds + 1)]

TypeOK ==
    /\ session \in Rows
    /\ asker \in [Messages -> [phase : {"unsent", "aborting", "ending", "turning", "thinking",
                                        "noting", "done"},
                               read : Rows, topic : Topics, stage : 0..MaxRounds,
                               rounds : {MaxRounds, UrgentRounds}]]
    /\ asked \in [Topics -> Nat] /\ advised \in [Topics -> Nat] /\ noted \in [Topics -> Nat]
    /\ aborted \subseteq Topics
    /\ raced \in BOOLEAN
    /\ stops \in 0..MaxStops

\* A consultation asks at most its rounds of questions, advises at most once and
\* not before the shorter rounds, and not after it was given up; its advice is
\* remembered once at most. So it is while no turn and no abort wrote over what
\* another wrote during its call of the LLM (consult_turn, consult_abort).
AdviceOnce ==
    ~raced =>
      \A t \in Topics :
        /\ asked[t] <= MaxRounds
        /\ advised[t] <= 1 /\ noted[t] <= advised[t]
        /\ advised[t] = 1 => asked[t] >= UrgentRounds /\ t \notin aborted
===============================================================================
