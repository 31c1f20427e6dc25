------------------------------ MODULE ItemSearch ------------------------------
(***************************************************************************)
(* Looking for a thing at home (memory/living.py, inspection_loop of       *)
(* plugins/broadcast.py). A question where a thing is starts a search that *)
(* goes from container to container; each step is a visit. The visits of   *)
(* all chats are one kv value, one visit per chat; a question about a      *)
(* container out of sight makes a visit too. inspection_loop takes what is *)
(* due, looks, and reports.                                                *)
(*                                                                         *)
(* A chat answers one message at a time (home_block, in an agent thread):  *)
(*   idle, asking (wants: what is left to do for the message), starting a  *)
(*   search, scheduling (the visit is known), writing (the visits are read)*)
(* The loop is                                                             *)
(*   idle       between two passes                                         *)
(*   choosing   between two visits of a pass                               *)
(*   taking     a search visit: the visits are read, to be written back    *)
(*              without it                                                 *)
(*   looking    search_progress is to be called                            *)
(*   searching  search_progress has read the search                        *)
(*   scheduling, writing   the next visit of the search                    *)
(*   finishing  the last container was counted                             *)
(*   reporting  the LLM and the platform                                   *)
(*   visiting   a container visit: LLM and platform, before it is taken    *)
(*   clearing   a container visit: the visits are read, as in taking       *)
(***************************************************************************)
EXTENDS Naturals, FiniteSets

CONSTANTS
    Scopes,   \* chats
    Steps,    \* containers of a search (search_max_steps)
    MaxAsks,  \* bound: messages of users
    MaxStops  \* bound: process restarts

VARIABLES
    pending, \* inspect_pending: per chat its visit; ripe when it is due
    search,  \* item_search_state: per chat the step of its search
    asker,   \* per chat: phase, wants, visit, visits read
    loop,    \* inspection_loop: phase, visits of the pass left, chat, step, visits read
    stalled, \* chats whose search lost its visit in one of the ways below
    asks,    \* messages so far
    stops    \* restarts so far

vars == <<pending, search, asker, loop, stalled, asks, stops>>

StepsAssumption == Steps \in Nat

NoSearch == Steps + 1
Visits == [kind : {"none", "search", "container"}, at : 0..Steps, ripe : BOOLEAN]
NoVisit == [kind |-> "none", at |-> 0, ripe |-> FALSE]
Visit(kind, at) == [kind |-> kind, at |-> at, ripe |-> FALSE]
None == [s \in Scopes |-> NoVisit]
NoScope == "no chat"
Free == [phase |-> "idle", wants |-> {}, visit |-> NoVisit, read |-> None]
Rest == [phase |-> "idle", todo |-> None, scope |-> NoScope, at |-> 0, read |-> None]

Init ==
    /\ pending = None
    /\ search = [s \in Scopes |-> NoSearch]
    /\ asker = [s \in Scopes |-> Free]
    /\ loop = Rest
    /\ stalled = {}
    /\ asks = 0
    /\ stops = 0

-----------------------------------------------------------------------------
(* Time *)

\* deliver_at is reached.
Ripen(s) ==
    /\ pending[s].kind # "none" /\ ~pending[s].ripe
    /\ pending' = [pending EXCEPT ![s].ripe = TRUE]
    /\ UNCHANGED <<search, asker, loop, stalled, asks, stops>>

-----------------------------------------------------------------------------
(* Writing the visits: one visit changes, the others are put back as read.  *)

\* Chats whose search visit a write of v does away with, but for the chat the
\* write is about.
Undone(v, s) == {x \in Scopes \ {s} : pending[x].kind = "search" /\ v[x].kind # "search"}

\* A write of v for chat s. Its search is stalled when a container visit takes
\* the place of the visit, and goes on with a search visit.
Put(v, s) ==
    /\ pending' = v
    /\ stalled' = IF v[s].kind = "search" THEN (stalled \cup Undone(v, s)) \ {s}
                  ELSE stalled \cup Undone(v, s)
                         \cup (IF pending[s].kind = "search" THEN {s} ELSE {})

-----------------------------------------------------------------------------
(* Messages of users (home_block) *)

Become(s, to) == asker' = [asker EXCEPT ![s] = to]

\* home_block goes on to what is left, and is done when nothing is.
Did(s, part) ==
    IF asker[s].wants \ {part} = {} THEN Free
    ELSE [asker[s] EXCEPT !.phase = "asking", !.wants = @ \ {part},
                          !.visit = NoVisit, !.read = None]

\* A message may be about a container out of sight, ask for a thing that is not
\* remembered, and call a search off.
Message(s, wants) ==
    /\ asker[s].phase = "idle"
    /\ asks < MaxAsks
    /\ asks' = asks + 1
    /\ Become(s, [Free EXCEPT !.phase = "asking", !.wants = wants])
    /\ UNCHANGED <<pending, search, loop, stalled, stops>>

\* A container out of sight: a visit is made, unless one to it is pending.
AskContainer(s, c) ==
    /\ asker[s].phase = "asking" /\ "container" \in asker[s].wants
    /\ IF pending[s].kind # "none" /\ pending[s].at = c THEN Become(s, Did(s, "container"))
       ELSE Become(s, [Did(s, "container") EXCEPT !.phase = "scheduling",
                                                  !.visit = Visit("container", c)])
    /\ UNCHANGED <<pending, search, loop, stalled, asks, stops>>

\* where_is_block: for the thing a search is under way for, the search is not
\* started again; its visit is. Any other thing that is not remembered is
\* searched for.
AskWhere(s) ==
    /\ asker[s].phase = "asking"
    /\ "container" \notin asker[s].wants /\ "where" \in asker[s].wants
    /\ \/ Become(s, [Did(s, "where") EXCEPT !.phase = "starting"])
       \/ /\ search[s] < Steps
          /\ Become(s, [Did(s, "where") EXCEPT !.phase = "scheduling",
                                               !.visit = Visit("search", search[s])])
       \/ search[s] = Steps /\ Become(s, Did(s, "where"))
    /\ UNCHANGED <<pending, search, loop, stalled, asks, stops>>

\* _start_item_search; the first container is where the thing was last.
Start(s) ==
    /\ asker[s].phase = "starting"
    /\ search' = [search EXCEPT ![s] = 0]
    /\ Become(s, [asker[s] EXCEPT !.phase = "scheduling", !.visit = Visit("search", 0)])
    /\ UNCHANGED <<pending, loop, stalled, asks, stops>>

\* schedule_inspection: kv_get, then kv_set.
Schedule(s) ==
    /\ asker[s].phase = "scheduling"
    /\ Become(s, [asker[s] EXCEPT !.phase = "writing", !.read = pending])
    /\ UNCHANGED <<pending, search, loop, stalled, asks, stops>>

Scheduled(s) ==
    /\ asker[s].phase = "writing"
    /\ Put([asker[s].read EXCEPT ![s] = asker[s].visit], s)
    /\ Become(s, Did(s, "none"))
    /\ UNCHANGED <<search, loop, asks, stops>>

\* cancel_search: the visit stays, and will find nothing to do.
Cancel(s) ==
    /\ asker[s].phase = "asking" /\ asker[s].wants = {"cancel"}
    /\ search' = [search EXCEPT ![s] = NoSearch]
    /\ Become(s, Did(s, "cancel"))
    /\ UNCHANGED <<pending, loop, stalled, asks, stops>>

-----------------------------------------------------------------------------
(* inspection_loop *)

\* due_inspections.
Begin ==
    /\ loop.phase = "idle"
    /\ \E s \in Scopes : pending[s].ripe
    /\ loop' = [Rest EXCEPT !.phase = "choosing",
                  !.todo = [s \in Scopes |-> IF pending[s].ripe THEN pending[s] ELSE NoVisit]]
    /\ UNCHANGED <<pending, search, asker, stalled, asks, stops>>

\* After a visit comes the next of the pass, or the end of it.
Onward(l) == IF l.todo = None THEN Rest
             ELSE [l EXCEPT !.phase = "choosing", !.scope = NoScope, !.at = 0, !.read = None]
After == Onward(loop)

\* The next visit of the pass, as it was when the pass began. take_inspection
\* of a search visit reads the visits at once.
Choose(s) ==
    /\ loop.phase = "choosing"
    /\ loop.todo[s] # NoVisit
    /\ loop' = [loop EXCEPT !.phase = IF loop.todo[s].kind = "search" THEN "taking" ELSE "visiting",
                            !.todo[s] = NoVisit, !.scope = s,
                            !.read = IF loop.todo[s].kind = "search" THEN pending ELSE None]
    /\ UNCHANGED <<pending, search, asker, stalled, asks, stops>>

\* Nothing is looked at in deep sleep.
Skip(s) ==
    /\ loop.phase = "choosing"
    /\ loop.todo[s] # NoVisit
    /\ loop' = Onward([loop EXCEPT !.todo[s] = NoVisit])
    /\ UNCHANGED <<pending, search, asker, stalled, asks, stops>>

\* take_inspection writes the visits without that of the chat. What it takes
\* for search_progress to look at is not lost yet.
Take ==
    /\ loop.phase = "taking"
    /\ IF loop.read[loop.scope] = NoVisit THEN UNCHANGED <<pending, stalled>>
       ELSE LET v == [loop.read EXCEPT ![loop.scope] = NoVisit] IN
            pending' = v /\ stalled' = stalled \cup Undone(v, loop.scope)
    /\ loop' = [loop EXCEPT !.phase = "looking", !.read = None]
    /\ UNCHANGED <<search, asker, asks, stops>>

Stays == stalled' = stalled \cup (IF pending[loop.scope].kind = "search" THEN {} ELSE {loop.scope})

\* search_progress finds no search: nothing to say.
LookForNothing ==
    /\ loop.phase = "looking" /\ search[loop.scope] = NoSearch
    /\ loop' = After
    /\ UNCHANGED <<pending, search, asker, stalled, asks, stops>>

\* search_ttl_min is over: given up without a word. Time may have passed or not.
LookTooLate ==
    /\ loop.phase = "looking" /\ search[loop.scope] # NoSearch
    /\ search' = [search EXCEPT ![loop.scope] = NoSearch]
    /\ loop' = After
    /\ UNCHANGED <<pending, asker, stalled, asks, stops>>

\* last_user_msg, which after_chat writes some time after its answer, is about
\* something else: the search waits, without a visit, to be asked for again.
LookPaused ==
    /\ loop.phase = "looking" /\ search[loop.scope] # NoSearch
    /\ Stays
    /\ loop' = After
    /\ UNCHANGED <<pending, search, asker, asks, stops>>

Look ==
    /\ loop.phase = "looking" /\ search[loop.scope] # NoSearch
    /\ loop' = IF search[loop.scope] = Steps THEN [loop EXCEPT !.phase = "finishing"]
               ELSE [loop EXCEPT !.phase = "searching", !.at = search[loop.scope]]
    /\ UNCHANGED <<pending, search, asker, stalled, asks, stops>>

\* The thing is there.
Found ==
    /\ loop.phase = "searching"
    /\ search' = [search EXCEPT ![loop.scope] = NoSearch]
    /\ loop' = [loop EXCEPT !.phase = "reporting"]
    /\ UNCHANGED <<pending, asker, stalled, asks, stops>>

\* It is not there: the step is counted, also for a search that was cancelled
\* meanwhile, and the next visit is made.
Miss ==
    /\ loop.phase = "searching"
    /\ search' = [search EXCEPT ![loop.scope] = loop.at + 1]
    /\ loop' = [loop EXCEPT !.phase = IF loop.at + 1 < Steps THEN "scheduling" ELSE "finishing",
                            !.at = loop.at + 1]
    /\ UNCHANGED <<pending, asker, stalled, asks, stops>>

\* No container is left.
GiveUp ==
    /\ loop.phase = "finishing"
    /\ search' = [search EXCEPT ![loop.scope] = NoSearch]
    /\ loop' = [loop EXCEPT !.phase = "reporting"]
    /\ UNCHANGED <<pending, asker, stalled, asks, stops>>

LoopSchedule ==
    /\ loop.phase = "scheduling"
    /\ loop' = [loop EXCEPT !.phase = "writing", !.read = pending]
    /\ UNCHANGED <<pending, search, asker, stalled, asks, stops>>

\* Seeded fault: the visit is taken after search_progress, which wrote the next.
LoopScheduledThenTaken ==
    /\ loop.phase = "writing"
    /\ pending' = [loop.read EXCEPT ![loop.scope] = NoVisit]
    /\ stalled' = stalled \cup Undone(pending', loop.scope)
    /\ loop' = After
    /\ UNCHANGED <<search, asker, asks, stops>>

\* search_quiet: a step on the way is not reported.
LoopScheduled ==
    /\ loop.phase = "writing"
    /\ Put([loop.read EXCEPT ![loop.scope] = Visit("search", loop.at)], loop.scope)
    /\ loop' = After
    /\ UNCHANGED <<search, asker, asks, stops>>

\* The report is written and sent, or held back.
Report ==
    /\ loop.phase = "reporting"
    /\ loop' = After
    /\ UNCHANGED <<pending, search, asker, stalled, asks, stops>>

Visited ==
    /\ loop.phase = "visiting"
    /\ loop' = [loop EXCEPT !.phase = "clearing", !.read = pending]
    /\ UNCHANGED <<pending, search, asker, stalled, asks, stops>>

\* The visit of the chat is taken, be it a newer one.
Clear ==
    /\ loop.phase = "clearing"
    /\ IF loop.read[loop.scope] = NoVisit THEN UNCHANGED <<pending, stalled>>
       ELSE Put([loop.read EXCEPT ![loop.scope] = NoVisit], loop.scope)
    /\ loop' = After
    /\ UNCHANGED <<search, asker, asks, stops>>

\* No connection to the platform, or something raised while reporting: the rest
\* of the pass waits for the next.
Abort ==
    /\ loop.phase \in {"choosing", "reporting", "visiting"}
    /\ loop' = Rest
    /\ UNCHANGED <<pending, search, asker, stalled, asks, stops>>

\* A restart between taking or starting a search and its next visit stalls it.
Restart ==
    /\ stops < MaxStops
    /\ stops' = stops + 1
    /\ stalled' = stalled
         \cup {s \in Scopes : search[s] # NoSearch /\ pending[s].kind # "search"}
    /\ asker' = [s \in Scopes |-> Free]
    /\ loop' = Rest
    /\ UNCHANGED <<pending, search, asks>>

LoopStep ==
    \/ Begin \/ Take \/ LookForNothing \/ LookTooLate \/ LookPaused \/ Look
    \/ Found \/ Miss \/ GiveUp \/ LoopSchedule \/ LoopScheduled
    \/ Report \/ Visited \/ Clear
    \/ \E s \in Scopes : Choose(s) \/ Skip(s)

Next ==
    \/ \E s \in Scopes :
         \/ Ripen(s)
         \/ \E wants \in SUBSET {"container", "where", "cancel"} \ {{}} : Message(s, wants)
         \/ \E c \in 0..(Steps - 1) : AskContainer(s, c)
         \/ AskWhere(s) \/ Start(s) \/ Schedule(s) \/ Scheduled(s) \/ Cancel(s)
    \/ LoopStep \/ Abort
    \/ Restart

Spec == Init /\ [][Next]_vars

-----------------------------------------------------------------------------
TypeOK ==
    /\ pending \in [Scopes -> Visits]
    /\ search \in [Scopes -> 0..(Steps + 1)]
    /\ stalled \subseteq Scopes
    /\ asker \in [Scopes -> [phase : {"idle", "asking", "starting", "scheduling", "writing"},
                             wants : SUBSET {"container", "where", "cancel"},
                             visit : Visits, read : [Scopes -> Visits]]]
    /\ loop \in [phase : {"idle", "choosing", "taking", "looking", "searching", "scheduling",
                          "writing", "finishing", "reporting", "visiting", "clearing"},
                 todo : [Scopes -> Visits], scope : Scopes \cup {NoScope}, at : 0..Steps,
                 read : [Scopes -> Visits]]
    /\ asks \in 0..MaxAsks /\ stops \in 0..MaxStops

\* Somebody is about to write the next visit of the search.
Underway(s) ==
    \/ loop.scope = s /\ loop.phase \in {"looking", "searching", "scheduling", "writing", "finishing"}
    \/ asker[s].visit.kind = "search"

\* A search has its next visit, pending or being made, or it is stalled in one
\* of the ways the code has: a container visit took its place, the user spoke
\* of something else when it was due, a stale write or a restart lost it.
\* No other order of messages and passes makes it stop (broadcast.py:228).
SearchHasVisit ==
    \A s \in Scopes :
      search[s] # NoSearch /\ s \notin stalled => pending[s].kind = "search" \/ Underway(s)
===============================================================================
