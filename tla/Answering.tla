------------------------------- MODULE Answering -------------------------------
(***************************************************************************)
(* agent.ask in its three ports (agent/ports.py), several calls at a time  *)
(* in threads: what is recalled becomes the evidence of the turn, a habit  *)
(* (memory/procedures.py) answers at once, else the model does, and the    *)
(* evidence gate (agent/evidence_gate.py) has the answer written again if  *)
(* it says what the evidence does not have. An answer is the set of        *)
(* details it asserts: details of a chat, something invented, a number.    *)
(***************************************************************************)
EXTENDS Naturals, FiniteSets

CONSTANTS
    Asks,      \* calls of agent.ask under way
    Chats,     \* chats
    Details,   \* facts and appointments
    Owner,     \* the chat each belongs to
    Promises,  \* those in the table of appointments
    Backends,  \* "sqlite", "postgres"
    MinTries,  \* system1_min_tries
    MaxClaims, \* bound: details in one answer
    MaxEdits,  \* bound: changes of the details
    MaxTurns   \* bound: turns

\* What is assumed of the constants.
AnsweringAssumption ==
    /\ Owner \in [Details -> Chats] /\ Promises \subseteq Details
    /\ MinTries \in Nat \ {0}

VARIABLES
    backend,  \* YUNO_DB_BACKEND
    held,     \* details that are in the memory or in the table
    port,     \* last_evidence of each memory port
    ask,      \* per call: phase, chat, message, evidence, answer
    habits,   \* procedures: message, answer, tries, success in thousandths
    match,    \* _match_cache: message, habit found, not yet expired
    edits, turns

vars == <<backend, held, port, ask, habits, match, edits, turns>>

\* What messages are: thanks are praise, a denial is a correction (after_chat);
\* a proposal to meet is evidence of itself (USER_PROPOSAL_RE).
Texts == {"thanks", "denial", "proposal"}
Sayings == Details \cup {"invented", "number"}
Answers == {a \in SUBSET Sayings : Cardinality(a) <= MaxClaims}

Resting == [phase |-> "idle", chat |-> "", text |-> "", said |-> {}, since |-> {},
            evidence |-> {}, reply |-> {}, by |-> "none"]
NoHabit == [text |-> "", reply |-> {}, tries |-> 0, success |-> 0]
NoMatch == [text |-> "", habit |-> NoHabit, fresh |-> FALSE]

Init ==
    /\ backend \in Backends
    /\ held \in SUBSET Details
    /\ port = [k \in Asks |-> {}]
    /\ ask = [k \in Asks |-> Resting]
    /\ habits = {} /\ match = NoMatch
    /\ edits = 0 /\ turns = 0

Of(chat) == {d \in Details : Owner[d] = chat}
Goes(k, to) == ask' = [ask EXCEPT ![k] = to]

\* Ingest, a correction, an appointment that is made or over; since is what was
\* held at some time while the call runs.
Change(d) ==
    /\ edits < MaxEdits /\ edits' = edits + 1
    /\ held' = IF d \in held THEN held \ {d} ELSE held \cup {d}
    /\ ask' = [k \in Asks |-> [ask[k] EXCEPT !.since = @ \cup (held' \cap Of(ask[k].chat))]]
    /\ UNCHANGED <<backend, port, habits, match, turns>>

-----------------------------------------------------------------------------
(* Recall. *)

\* Seeded fault: one port for all calls.
OnePort(k) == CHOOSE p \in Asks : TRUE
\* ask makes the ports of each call.
PortOf(k) == k

\* decide: a message comes, and may state details of its chat itself.
Decide(k, chat, text) ==
    /\ ask[k].phase = "idle" /\ turns < MaxTurns
    /\ turns' = turns + 1
    /\ \E said \in SUBSET Of(chat) :
           Goes(k, [Resting EXCEPT !.phase = "decided", !.chat = chat, !.text = text,
                                   !.said = said, !.since = held \cap Of(chat)])
    /\ port' = [port EXCEPT ![PortOf(k)] = {}]
    /\ UNCHANGED <<backend, held, habits, match, edits>>

\* search, assemble_context: what retrieve returns is the evidence of the port.
Search(k) ==
    /\ ask[k].phase = "decided"
    /\ \E hits \in SUBSET ((held \cap Of(ask[k].chat)) \ Promises) :
           port' = [port EXCEPT ![PortOf(k)] = hits]
    /\ Goes(k, [ask[k] EXCEPT !.phase = "searched"])
    /\ UNCHANGED <<backend, held, habits, match, edits, turns>>

\* execute copies the evidence of the port.
Execute(k) ==
    /\ ask[k].phase = "searched"
    /\ Goes(k, [ask[k] EXCEPT !.phase = "matching", !.evidence = port[PortOf(k)]])
    /\ UNCHANGED <<backend, held, port, habits, match, edits, turns>>

-----------------------------------------------------------------------------
(* Habits. They have no chat: what was learnt in one answers in all. *)

Proven == {h \in habits : h.tries >= MinTries /\ h.success >= 750}
Found(text) == {h \in Proven : h.text = text}
Answered(k, habit) ==
    Goes(k, IF habit = NoHabit THEN [ask[k] EXCEPT !.phase = "asking"]
            ELSE [Resting EXCEPT !.phase = "done", !.text = ask[k].text,
                                 !.reply = habit.reply, !.by = "habit"])

\* match: the message of the cache is compared, then its result is read; else
\* the table is, and the cache is replaced.
Compare(k) ==
    /\ ask[k].phase = "matching"
    /\ match.fresh /\ match.text = ask[k].text
    /\ Goes(k, [ask[k] EXCEPT !.phase = "cached"])
    /\ UNCHANGED <<backend, held, port, habits, match, edits, turns>>
ReadCached(k) ==
    /\ ask[k].phase = "cached"
    /\ Answered(k, match.habit)
    /\ UNCHANGED <<backend, held, port, habits, match, edits, turns>>
ReadRows(k) ==
    /\ ask[k].phase = "matching"
    /\ ~match.fresh \/ match.text # ask[k].text
    /\ \E habit \in IF Found(ask[k].text) = {} THEN {NoHabit} ELSE Found(ask[k].text) :
           /\ match' = [text |-> ask[k].text, habit |-> habit, fresh |-> TRUE]
           /\ Answered(k, habit)
    /\ UNCHANGED <<backend, held, port, habits, edits, turns>>
\* system1_cache_ttl passes.
Expire ==
    /\ match.fresh
    /\ match' = NoMatch
    /\ UNCHANGED <<backend, held, port, ask, habits, edits, turns>>

\* procedure_upsert: a moving average on SQLite, the last outcome on PostgreSQL.
SqliteSuccess(old, good) == (7 * old + (IF good THEN 3000 ELSE 0)) \div 10
PgSuccess(old, good) == IF good THEN 1000 ELSE 0
Upsert(text, reply, good) ==
    LET rows == {h \in habits : h.text = text /\ h.reply = reply}
        first == [text |-> text, reply |-> reply, tries |-> 1,
                  success |-> IF good THEN 1000 ELSE 0]
        Counted(h) == [h EXCEPT
            !.tries = IF @ < MinTries THEN @ + 1 ELSE @,
            !.success = IF backend = "sqlite" THEN SqliteSuccess(@, good)
                        ELSE PgSuccess(@, good)]
    IN  (habits \ rows) \cup (IF rows = {} THEN {first} ELSE {Counted(h) : h \in rows})

\* after_chat: praise and correction count for the message that carries them and
\* for the answer to it.
Learn(k) ==
    /\ ask[k].phase = "done"
    /\ habits' = CASE ask[k].text = "thanks" -> Upsert("thanks", ask[k].reply, TRUE)
                   [] ask[k].text = "denial" -> Upsert("denial", ask[k].reply, FALSE)
                   [] OTHER -> habits
    /\ Goes(k, Resting)
    /\ UNCHANGED <<backend, held, port, match, edits, turns>>

-----------------------------------------------------------------------------
(* The model, and the gate. *)

\* What the answer says is compared with: hits, appointments that wait, the message.
Evidence(k) == ask[k].evidence \cup (held \cap Promises \cap Of(ask[k].chat)) \cup ask[k].said

\* contains_unsupported_claim; a proposal lets all pass.
Unsupported(k, reply) ==
    ask[k].text # "proposal" /\ reply \ (ask[k].evidence \cup {"number"}) # {}
\* verify_reply_numbers, verify_reply_calendar.
Numbers(reply) == "number" \in reply

\* The model answers; the evidence is complete then.
Generate(k) ==
    /\ ask[k].phase = "asking"
    /\ \E reply \in Answers :
           Goes(k, [ask[k] EXCEPT !.phase = "generated", !.reply = reply,
                                  !.evidence = Evidence(k)])
    /\ UNCHANGED <<backend, held, port, habits, match, edits, turns>>
\* The call of the model fails, and agent.ask with it.
Fail(k) ==
    /\ ask[k].phase = "asking"
    /\ Goes(k, Resting)
    /\ UNCHANGED <<backend, held, port, habits, match, edits, turns>>

Passes(k, reply) ==
    Goes(k, [ask[k] EXCEPT !.phase = "done", !.reply = reply, !.by = "model",
                           !.evidence = {}])
Again(k) == Goes(k, [ask[k] EXCEPT !.phase = "rewriting", !.reply = {}])

\* semantic_annotate asks the model what the answer is based on: "inferred"
\* passes as it is, "invented" does not.
Gate(k) ==
    /\ ask[k].phase = "generated"
    /\ IF Unsupported(k, ask[k].reply) \/ Numbers(ask[k].reply)
       THEN Again(k)
       ELSE Passes(k, ask[k].reply) \/ Again(k)
    /\ UNCHANGED <<backend, held, port, habits, match, edits, turns>>

\* Seeded fault: what is written again is sent.
SecondPasses(k, reply) == TRUE
\* The second check: claims and the model's opinion, and no numbers.
SecondCheck(k, reply) == ~Unsupported(k, reply)

\* forgetful_reply asserts nothing; it also stands for a call that fails.
Forgetful == {}
Rewrite(k) ==
    /\ ask[k].phase = "rewriting"
    /\ \/ \E reply \in Answers : SecondCheck(k, reply) /\ Passes(k, reply)
       \/ Passes(k, Forgetful)
    /\ UNCHANGED <<backend, held, port, habits, match, edits, turns>>

Next ==
    \/ \E d \in Details : Change(d)
    \/ \E k \in Asks, chat \in Chats, text \in Texts : Decide(k, chat, text)
    \/ \E k \in Asks : \/ Search(k) \/ Execute(k)
                       \/ Compare(k) \/ ReadCached(k) \/ ReadRows(k) \/ Learn(k)
                       \/ Generate(k) \/ Fail(k) \/ Gate(k) \/ Rewrite(k)
    \/ Expire

Spec == Init /\ [][Next]_vars

-----------------------------------------------------------------------------
(* Properties *)

\* Calls, ports and habits have their types.
TypeOK ==
    /\ held \subseteq Details
    /\ port \in [Asks -> SUBSET Details]
    /\ \A k \in Asks : /\ ask[k].phase \in {"idle", "decided", "searched", "matching", "cached",
                                            "asking", "generated", "rewriting", "done"}
                       /\ ask[k].reply \in Answers /\ ask[k].evidence \subseteq Details
    /\ \A h \in habits : h.text \in Texts /\ h.tries \in 1..MinTries /\ h.success \in 0..1000

\* What the model's answer asserts of a user was in the memory of this chat, or
\* in its appointments, at some time while the call ran, or the user just said
\* it: whatever other calls recall meanwhile, and whatever is corrected
\* (ports.execute, evidence_gate; a proposal to meet is not checked, nor is a
\* habit; a number that was written again is not either).
ClaimsHeld ==
    \A k \in Asks :
        ask[k].phase = "done" /\ ask[k].by = "model" /\ ask[k].text # "proposal" =>
            ask[k].reply \ {"number"} \subseteq ask[k].since \cup ask[k].said
================================================================================
