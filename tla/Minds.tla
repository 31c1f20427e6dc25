--------------------------------- MODULE Minds ---------------------------------
(***************************************************************************)
(* Goals of the users (memory/advisor.py) and the intention she has in     *)
(* each chat (memory/mind.py). All intentions are one dictionary: a change *)
(* of one reads it, and saves it whole, row by row, while other messages   *)
(* do the same in their threads.                                           *)
(***************************************************************************)
EXTENDS Naturals, FiniteSets

CONSTANTS
    Thinkers,  \* messages being handled
    Chats,     \* chats
    Goals,     \* titles of goals
    Strength,  \* goal_strength of each, in hundredths
    Backends,  \* "sqlite", "postgres"
    Ttl,       \* intention_ttl_hours
    MaxThoughts, \* bound: messages
    MaxChanges, \* bound: changes of goals
    MaxAge     \* bound: the time

\* What is assumed of the constants.
MindsAssumption == Strength \in [Goals -> Nat]

VARIABLES
    backend, now,
    goals,    \* status of each goal of each chat
    rows,     \* mind_intention_state: the intention of each chat
    mine,     \* what the last change for a chat itself made of it (not in the code)
    mixed,    \* chats whose intention changed while another was being saved (not in the code)
    thought,  \* a message being handled
    thoughts, changes

vars == <<backend, now, goals, rows, mine, mixed, thought, thoughts, changes>>

None == [title |-> "none", source |-> "none", strength |-> 0, at |-> 0]
Resting == [phase |-> "resting", chat |-> "none", data |-> [c \in Chats |-> None],
            new |-> None, left |-> {}, next |-> "resting"]

Init ==
    /\ backend \in Backends /\ now = 0
    /\ goals = [c \in Chats |-> [g \in Goals |-> "none"]]
    /\ rows = [c \in Chats |-> None] /\ mine = rows /\ mixed = {}
    /\ thought = [k \in Thinkers |-> Resting]
    /\ thoughts = 0 /\ changes = 0

Goes(k, to) == thought' = [thought EXCEPT ![k] = to]
In(k, phase) == thought[k].phase = phase
Active(c) == {g \in Goals : goals[c][g] = "active"}

-----------------------------------------------------------------------------
(* Goals. *)

\* An old title is active again on SQLite; on PostgreSQL it is an error.
SqliteGoalAdd(old) == "active"
PgGoalAdd(old) == IF old = "none" THEN "active" ELSE old
AddGoal(c, g) ==
    /\ changes < MaxChanges /\ changes' = changes + 1
    /\ goals' = [goals EXCEPT ![c][g] =
                    IF backend = "sqlite" THEN SqliteGoalAdd(@) ELSE PgGoalAdd(@)]
    /\ UNCHANGED <<backend, now, rows, mine, mixed, thought, thoughts>>
\* goal_update, of /goal done: the intention that came of it stays.
DoneGoal(c, g) ==
    /\ goals[c][g] = "active" /\ changes < MaxChanges /\ changes' = changes + 1
    /\ goals' = [goals EXCEPT ![c][g] = "done"]
    /\ UNCHANGED <<backend, now, rows, mine, mixed, thought, thoughts>>

-----------------------------------------------------------------------------
(* Saving. _save_intention reads the chats there are, deletes those it was *)
(* not given and writes all it was given.                                  *)

\* From having read data until all is written a chat of the dictionary is
\* being saved; a change in its turn is for the thought's own chat.
Saving == {"deciding", "saving", "writing"}
Save(k, new, next) ==
    [thought[k] EXCEPT !.phase = "saving", !.new = new, !.next = next]

\* Seeded fault: the chats that are there are all written.
OnlyOwn(k) == [c \in Chats |-> IF c = thought[k].chat THEN thought[k].new ELSE None]
\* data with the chat's own entry changed.
Given(k) == [thought[k].data EXCEPT ![thought[k].chat] = thought[k].new]

SaveBegins(k) ==
    /\ In(k, "saving")
    /\ Goes(k, [thought[k] EXCEPT
           !.phase = "writing", !.data = Given(k),
           !.left = {c \in Chats : rows[c] # None \/ Given(k)[c] # None}])
    /\ UNCHANGED <<backend, now, goals, rows, mine, mixed, thoughts, changes>>

IntentionDelete(c) == rows' = [rows EXCEPT ![c] = None]
IntentionSet(c, intention) == rows' = [rows EXCEPT ![c] = intention]
\* The deletions come first.
Gone(t) == {c \in t.left : t.data[c] = None}
Write(k, c) ==
    LET t == thought[k]
    IN  /\ In(k, "writing") /\ c \in t.left
        /\ \/ c \in Gone(t) /\ IntentionDelete(c)
           \/ Gone(t) = {} /\ IntentionSet(c, t.data[c])
        /\ mine' = IF c = t.chat THEN [mine EXCEPT ![c] = t.data[c]] ELSE mine
        /\ mixed' = IF \E j \in Thinkers \ {k} : thought[j].phase \in Saving
                    THEN mixed \cup {c} ELSE mixed
        /\ Goes(k, IF t.left # {c} THEN [t EXCEPT !.left = t.left \ {c}]
                   ELSE IF t.next = "resting" THEN Resting
                   ELSE [Resting EXCEPT !.phase = t.next, !.chat = t.chat])
        /\ UNCHANGED <<backend, now, goals, thoughts, changes>>
\* Nothing is there and nothing was given.
WriteNothing(k) ==
    /\ In(k, "writing") /\ thought[k].left = {}
    /\ Goes(k, IF thought[k].next = "resting" THEN Resting
               ELSE [Resting EXCEPT !.phase = thought[k].next, !.chat = thought[k].chat])
    /\ UNCHANGED <<backend, now, goals, rows, mine, mixed, thoughts, changes>>

-----------------------------------------------------------------------------
(* A message: snapshot, recompute_intention, and what the model intends. *)

\* Old, and not of a goal.
Expired(i) == i # None /\ i.source # "goal" /\ now - i.at > Ttl

\* intention_current: an intention that is expired is abandoned.
Begin(k, c) ==
    /\ In(k, "resting") /\ thoughts < MaxThoughts /\ thoughts' = thoughts + 1
    /\ Goes(k, [Resting EXCEPT !.chat = c,
                               !.phase = IF Expired(rows[c]) THEN "abandoning" ELSE "choosing"])
    /\ UNCHANGED <<backend, now, goals, rows, mine, mixed, changes>>
\* intention_abandon
Abandon(k) ==
    /\ In(k, "abandoning")
    /\ Goes(k, [Save(k, None, "choosing") EXCEPT !.data = rows])
    /\ UNCHANGED <<backend, now, goals, rows, mine, mixed, thoughts, changes>>

\* recompute_intention: the strongest of the active goals, if any.
Choose(k) ==
    /\ In(k, "choosing")
    /\ IF Active(thought[k].chat) = {}
       THEN Goes(k, [thought[k] EXCEPT !.phase = "answering"])
       ELSE \E g \in Active(thought[k].chat) :
                /\ \A h \in Active(thought[k].chat) : Strength[h] <= Strength[g]
                /\ Goes(k, [thought[k] EXCEPT
                       !.phase = "deciding", !.data = rows,
                       !.new = [title |-> g, source |-> "goal", strength |-> Strength[g],
                                at |-> now]])
    /\ UNCHANGED <<backend, now, goals, rows, mine, mixed, thoughts, changes>>
\* What she is committed to at least as strongly stays.
Decide(k) ==
    /\ In(k, "deciding")
    /\ LET t == thought[k] IN
       Goes(k, IF t.data[t.chat].strength >= t.new.strength
               THEN [Resting EXCEPT !.phase = "answering", !.chat = t.chat]
               ELSE Save(k, t.new, "answering"))
    /\ UNCHANGED <<backend, now, goals, rows, mine, mixed, thoughts, changes>>

\* apply_cognitive, if cognitive_turn is on and the model intends something.
Answer(k) ==
    /\ In(k, "answering")
    /\ \/ Goes(k, Resting)
       \/ Goes(k, [Save(k, [title |-> "own", source |-> "cognitive", strength |-> 70, at |-> now],
                        "resting") EXCEPT !.data = rows])
    /\ UNCHANGED <<backend, now, goals, rows, mine, mixed, thoughts, changes>>

-----------------------------------------------------------------------------
\* prune_expired, at night, raises an error before it saves anything: no action.
Tick ==
    /\ now < MaxAge /\ now' = now + 1
    /\ UNCHANGED <<backend, goals, rows, mine, mixed, thought, thoughts, changes>>

Next ==
    \/ \E c \in Chats, g \in Goals : AddGoal(c, g) \/ DoneGoal(c, g)
    \/ \E k \in Thinkers, c \in Chats : Begin(k, c) \/ Write(k, c)
    \/ \E k \in Thinkers : SaveBegins(k) \/ WriteNothing(k) \/ Abandon(k) \/ Choose(k)
                           \/ Decide(k) \/ Answer(k)
    \/ Tick

Spec == Init /\ [][Next]_vars

-----------------------------------------------------------------------------
(* Properties *)

Intentions == [title : Goals \cup {"none", "own"}, source : {"none", "goal", "cognitive"},
               strength : Nat, at : 0..MaxAge]

\* Goals and intentions have their types.
TypeOK ==
    /\ goals \in [Chats -> [Goals -> {"none", "active", "done"}]]
    /\ rows \in [Chats -> Intentions]
    /\ mixed \subseteq Chats

\* The intention of a chat is what its own messages made of it, unless it was
\* being saved while another message saved the dictionary: no message undoes
\* what another chat's did before it (_save_intention).
IntentionsKept == \A c \in Chats : rows[c] = mine[c] \/ c \in mixed
================================================================================
