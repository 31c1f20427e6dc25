------------------------------- MODULE Feelings -------------------------------
(***************************************************************************)
(* What a message does to her mood and to what she thinks of its author:   *)
(* the mood she has and who caused it, what she hears in the last messages *)
(* of a chat (memory/emotion.py), a return after long absence              *)
(* (memory/relationship.py), and the mistakes the user made                *)
(* (memory/mistake.py). All are values of the table kv that are read,      *)
(* changed and written back by the threads of several messages, and by the *)
(* loop that misses the user at an appointment.                            *)
(***************************************************************************)
EXTENDS Integers, Sequences, FiniteSets

CONSTANTS
    Turns,    \* messages being handled
    Scopes,   \* chats
    Private,  \* those of one user: their messages are answered in turn
    Window,   \* user_window
    Lasting,  \* how long a mood is somebody's fault (3 h)
    Away,     \* after which one returns (30 days)
    MaxTurns, \* bound: messages
    MaxWaits, \* bound: appointments missed
    MaxTime   \* bound: the time

\* What is assumed of the constants.
FeelingsAssumption == Private \subseteq Scopes /\ Window \in Nat \ {0}

VARIABLES
    now,
    mood,      \* ai_emotion: whose message made it, last_trigger_scope and its time
    rows,      \* user_emotion of each chat: valence in tenths
    heard,     \* all that was observed in a chat (not in the code)
    lastmsg,   \* of each chat
    announced, \* user_return of each chat: set, and how often it was told
    mistakes,  \* of each chat
    made,      \* mistakes really made (not in the code)
    turn, waiter, \* a message being handled; the loop of appointments
    turns, waits

vars == <<now, mood, rows, heard, lastmsg, announced, mistakes, made, turn, waiter, turns, waits>>

Never == -1
Texts == {"low", "late", "confession"}
Categories == {"late", "lie"}
\* What messages are: sad, or a mistake, or one that is confessed with an apology
\* (_category_of, APOLOGY_HINTS).
CategoryOf(text) == CASE text = "late" -> "late" [] text = "confession" -> "lie" [] OTHER -> "none"
Apology(text) == text = "confession"

Last(s, n) == SubSeq(s, IF Len(s) > n THEN Len(s) - n + 1 ELSE 1, Len(s))

Calm == [by |-> "none", trigger |-> "none", at |-> Never]
Idle == [phase |-> "idle", scope |-> "none", text |-> "none", mood |-> Calm, read |-> <<>>,
         recs |-> <<>>, tone |-> <<>>, due |-> <<>>, blamed |-> FALSE, met |-> FALSE]
NoWaiter == [phase |-> "idle", scope |-> "none", recs |-> <<>>]

\* The private chats were used before, and were sad.
Init ==
    /\ now = 0
    /\ mood = Calm
    /\ rows = [s \in Scopes |-> IF s \in Private THEN Last(<<-7, -7>>, Window) ELSE <<>>]
    /\ heard = rows
    /\ lastmsg = [s \in Scopes |-> IF s \in Private THEN 0 ELSE Never]
    /\ announced = [s \in Scopes |-> [flag |-> FALSE, times |-> 0]]
    /\ mistakes = [s \in Scopes |-> <<>>]
    /\ made = [s \in Scopes |-> [c \in Categories |-> 0]]
    /\ turn = [k \in Turns |-> Idle] /\ waiter = NoWaiter
    /\ turns = 0 /\ waits = 0

Goes(k, to) == turn' = [turn EXCEPT ![k] = to]
In(k, phase) == turn[k].phase = phase
Step(k, phase) == Goes(k, [turn[k] EXCEPT !.phase = phase])

Tick ==
    /\ now < MaxTime /\ now' = now + 1
    /\ UNCHANGED <<mood, rows, heard, lastmsg, announced, mistakes, made, turn, waiter, turns, waits>>

\* Answering: phases before the reply. _chat_busy allows one in a private chat.
Answering == {"feeling", "saved", "tagging", "listening", "hearing", "returning", "announcing",
              "replying"}

Begin(k, s, text) ==
    /\ In(k, "idle") /\ turns < MaxTurns /\ turns' = turns + 1
    /\ s \in Private => \A j \in Turns : turn[j].phase \in Answering => turn[j].scope # s
    /\ Goes(k, [Idle EXCEPT !.phase = "feeling", !.scope = s, !.text = text])
    /\ UNCHANGED <<now, mood, rows, heard, lastmsg, announced, mistakes, made, waiter, waits>>

-----------------------------------------------------------------------------
(* Her mood. ai_apply writes the mood, which has no trigger then, reads it   *)
(* again and writes it with the trigger.                                     *)

SaveMood(k) ==
    /\ In(k, "feeling")
    /\ mood' = [Calm EXCEPT !.by = turn[k].scope]
    /\ Step(k, "saved")
    /\ UNCHANGED <<now, rows, heard, lastmsg, announced, mistakes, made, waiter, turns, waits>>
ReadSaved(k) ==
    /\ In(k, "saved")
    /\ Goes(k, [turn[k] EXCEPT !.phase = "tagging", !.mood = mood])
    /\ UNCHANGED <<now, mood, rows, heard, lastmsg, announced, mistakes, made, waiter, turns, waits>>
\* met: another message did this while the call was on its way.
TagMood(k) ==
    /\ In(k, "tagging")
    /\ mood' = [by |-> turn[k].mood.by, trigger |-> turn[k].scope, at |-> now]
    /\ turn' = [j \in Turns |->
                   IF j = k THEN [turn[k] EXCEPT !.phase = "listening", !.mood = Calm]
                   ELSE [turn[j] EXCEPT !.met = @ \/ turn[j].phase \in Answering]]
    /\ UNCHANGED <<now, rows, heard, lastmsg, announced, mistakes, made, waiter, turns, waits>>

-----------------------------------------------------------------------------
(* What she hears. *)

Sum(s) == IF Len(s) = 1 THEN s[1] ELSE IF Len(s) = 2 THEN s[1] + s[2] ELSE s[1] + s[2] + s[3]
\* judge: a cheerful word after low ones is not believed.
Judge(text, before) ==
    LET recent == Last(before, 3)
    IN  IF text = "low" THEN -7
        ELSE IF Len(before) >= 2 /\ Sum(recent) < -4 * Len(recent) THEN -2 ELSE 8

\* Seeded fault: the oldest observations are kept.
Oldest(s) == SubSeq(s, 1, IF Len(s) > Window THEN Window ELSE Len(s))
\* As Kept, but nothing is cut.
KeptAll(s) == s

\* rows[-max_n:]
Kept(s) == Last(s, Window)

\* user_observe
ReadRows(k) ==
    /\ In(k, "listening")
    /\ Goes(k, [turn[k] EXCEPT !.phase = "hearing", !.read = rows[turn[k].scope]])
    /\ UNCHANGED <<now, mood, rows, heard, lastmsg, announced, mistakes, made, waiter, turns, waits>>
Observe(k) ==
    LET s == turn[k].scope
        v == Judge(turn[k].text, turn[k].read)
    IN  /\ In(k, "hearing")
        /\ rows' = [rows EXCEPT ![s] = Kept(Append(turn[k].read, v))]
        /\ heard' = [heard EXCEPT ![s] = Append(@, v)]
        /\ Goes(k, [turn[k] EXCEPT !.phase = "returning", !.read = <<>>])
        /\ UNCHANGED <<now, mood, lastmsg, announced, mistakes, made, waiter, turns, waits>>

-----------------------------------------------------------------------------
(* note_return, and the blocks of the prompt. *)

\* Seeded fault: the flag is not read.
ReturnsAgain(s) == lastmsg[s] # Never /\ now - lastmsg[s] > Away
Returns(s) == ~announced[s].flag /\ lastmsg[s] # Never /\ now - lastmsg[s] > Away
CheckReturn(k) ==
    /\ In(k, "returning")
    /\ Step(k, IF Returns(turn[k].scope) THEN "announcing" ELSE "replying")
    /\ UNCHANGED <<now, mood, rows, heard, lastmsg, announced, mistakes, made, waiter, turns, waits>>
Announce(k) ==
    /\ In(k, "announcing")
    /\ announced' = [announced EXCEPT ![turn[k].scope] = [flag |-> TRUE, times |-> @.times + 1]]
    /\ Step(k, "replying")
    /\ UNCHANGED <<now, mood, rows, heard, lastmsg, mistakes, made, waiter, turns, waits>>

\* Seeded fault: a mood of this chat is not excepted.
BlamedByAll(s) == mood.trigger # "none" /\ now - mood.at <= Lasting
\* attribution_block
Blamed(s) == mood.trigger \notin {"none", s} /\ now - mood.at <= Lasting
\* user_estimate: an average of the window.
Tone(s) == rows[s]
Reply(k) ==
    /\ In(k, "replying")
    /\ Goes(k, [turn[k] EXCEPT !.phase = "replied", !.tone = Tone(turn[k].scope),
                               !.due = Last(heard[turn[k].scope], Window),
                               !.blamed = Blamed(turn[k].scope)])
    /\ UNCHANGED <<now, mood, rows, heard, lastmsg, announced, mistakes, made, waiter, turns, waits>>

-----------------------------------------------------------------------------
(* After the reply: after_chat, and ingest in a thread. *)

AfterChat(k) ==
    /\ In(k, "replied")
    /\ lastmsg' = [lastmsg EXCEPT ![turn[k].scope] = now]
    /\ made' = IF CategoryOf(turn[k].text) = "none" THEN made
               ELSE [made EXCEPT ![turn[k].scope][CategoryOf(turn[k].text)] = @ + 1]
    /\ Goes(k, [Idle EXCEPT !.phase = IF CategoryOf(turn[k].text) # "none" THEN "recording"
                                      ELSE IF Apology(turn[k].text) THEN "apologizing" ELSE "idle",
                            !.scope = turn[k].scope, !.text = turn[k].text])
    /\ UNCHANGED <<now, mood, rows, heard, announced, mistakes, waiter, turns, waits>>

\* Seeded fault: a mistake made again after it was forgiven counts the old ones.
RecordedOnTop(recs, c) ==
    Append(recs, [cat |-> c, status |-> "active", apologies |-> 0,
                  count |-> 1 + Cardinality({i \in DOMAIN recs : recs[i].cat = c})])
\* record: the active mistake of the category counts one more, or a new one begins.
Recorded(recs, c) ==
    LET active == {i \in DOMAIN recs : recs[i].cat = c /\ recs[i].status = "active"}
    IN  IF active = {}
        THEN Append(recs, [cat |-> c, count |-> 1, apologies |-> 0, status |-> "active"])
        ELSE LET i == CHOOSE j \in active : \A l \in active : j <= l
             IN  [recs EXCEPT ![i].count = @ + 1]
\* _apologize: each active mistake is forgiven or not (_stable_draw).
Apologized(recs, forgiven) ==
    [i \in DOMAIN recs |->
        IF recs[i].status # "active" THEN recs[i]
        ELSE [recs[i] EXCEPT !.apologies = @ + 1,
                             !.status = IF i \in forgiven THEN "forgiven" ELSE @]]

\* process, in two steps each: the list is read, changed and saved.
ReadMistakes(k) ==
    /\ turn[k].phase \in {"recording", "apologizing"}
    /\ Goes(k, [turn[k] EXCEPT !.phase = IF @ = "recording" THEN "recorded" ELSE "apologized",
                               !.recs = mistakes[turn[k].scope]])
    /\ UNCHANGED <<now, mood, rows, heard, lastmsg, announced, mistakes, made, waiter, turns, waits>>
SaveRecord(k) ==
    /\ In(k, "recorded")
    /\ mistakes' = [mistakes EXCEPT ![turn[k].scope] =
                       Recorded(turn[k].recs, CategoryOf(turn[k].text))]
    /\ Goes(k, IF Apology(turn[k].text)
               THEN [turn[k] EXCEPT !.phase = "apologizing", !.recs = <<>>] ELSE Idle)
    /\ UNCHANGED <<now, mood, rows, heard, lastmsg, announced, made, waiter, turns, waits>>
SaveApology(k) ==
    /\ In(k, "apologized")
    /\ \E forgiven \in SUBSET DOMAIN turn[k].recs :
           mistakes' = [mistakes EXCEPT ![turn[k].scope] = Apologized(turn[k].recs, forgiven)]
    /\ Goes(k, Idle)
    /\ UNCHANGED <<now, mood, rows, heard, lastmsg, announced, made, waiter, turns, waits>>

\* record_no_show: the user did not come to an appointment.
Miss(s) ==
    /\ waiter.phase = "idle" /\ waits < MaxWaits /\ waits' = waits + 1
    /\ made' = [made EXCEPT ![s]["late"] = @ + 1]
    /\ waiter' = [phase |-> "recorded", scope |-> s, recs |-> mistakes[s]]
    /\ UNCHANGED <<now, mood, rows, heard, lastmsg, announced, mistakes, turn, turns>>
SaveNoShow ==
    /\ waiter.phase = "recorded"
    /\ mistakes' = [mistakes EXCEPT ![waiter.scope] = Recorded(waiter.recs, "late")]
    /\ waiter' = NoWaiter
    /\ UNCHANGED <<now, mood, rows, heard, lastmsg, announced, made, turn, turns, waits>>

Next ==
    \/ Tick
    \/ \E k \in Turns, s \in Scopes, text \in Texts : Begin(k, s, text)
    \/ \E k \in Turns : \/ SaveMood(k) \/ ReadSaved(k) \/ TagMood(k)
                        \/ ReadRows(k) \/ Observe(k) \/ CheckReturn(k) \/ Announce(k) \/ Reply(k)
                        \/ AfterChat(k) \/ ReadMistakes(k) \/ SaveRecord(k) \/ SaveApology(k)
    \/ \E s \in Scopes : Miss(s)
    \/ SaveNoShow

Spec == Init /\ [][Next]_vars

-----------------------------------------------------------------------------
(* Properties *)

Record == [cat : Categories, count : 1..(MaxTurns + MaxWaits), apologies : 0..MaxTurns,
           status : {"active", "forgiven"}]

\* The values of kv have their types, and the window its length.
TypeOK ==
    /\ mood.by \in Scopes \cup {"none"} /\ mood.trigger \in Scopes \cup {"none"}
    /\ \A s \in Scopes : /\ Len(rows[s]) <= Window
                         /\ \A i \in DOMAIN mistakes[s] : mistakes[s][i] \in Record
    /\ lastmsg \in [Scopes -> {Never} \cup 0..MaxTime]

\* A message tags the mood before the block for the prompt reads it: she is told
\* that her mood is another chat's doing only if a message of another chat was
\* handled meanwhile, never for a mood that an earlier one left (ai_apply, then
\* attribution_block, in decide).
BlamedOnlyInOverlap == \A k \in Turns : turn[k].blamed => turn[k].met

\* In a private chat the tone of the answer is that of its last messages, with
\* the one that is answered (user_observe before user_block).
ToneIsCurrent ==
    \A k \in Turns : turn[k].scope \in Private => turn[k].tone = turn[k].due

\* Whatever overlaps, a user is never blamed for more mistakes than he made
\* (record, _apologize, record_no_show).
BlamedForHisOwn ==
    \A s \in Scopes, c \in Categories :
        LET his == {i \in DOMAIN mistakes[s] : mistakes[s][i].cat = c}
            Count(i) == mistakes[s][i].count
        IN  /\ Cardinality(his) <= made[s][c]
            /\ \A i, j \in his : Count(i) + (IF i = j THEN 0 ELSE Count(j)) <= made[s][c]

\* In a private chat a return is told once (note_return).
ReturnToldOnce == \A s \in Private : announced[s].times <= 1
===============================================================================
