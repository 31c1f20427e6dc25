-------------------------------- MODULE Outbox --------------------------------
(***************************************************************************)
(* The notification queue: table notifications (_db_sqlite_memory.py),     *)
(* filled by appointments, sharing and the App / MCP capability, and the   *)
(* outbox_loop of plugins/broadcast.py that sends what is due.             *)
(*                                                                         *)
(* on_ready (bot.py) starts an outbox_loop each time the gateway says      *)
(* READY, also when one is running already. A loop is                      *)
(*   off      not started in this run of the process                       *)
(*   polling  asleep between two passes                                    *)
(*   sending  awaiting send_message for the head of its batch              *)
(*   accepted the platform has taken the message; nothing is recorded yet  *)
(*   dead     ended by a database error raised outside any try             *)
(***************************************************************************)
EXTENDS Naturals, Sequences, FiniteSets

CONSTANTS
    Loops,       \* slots for outbox_loop tasks
    Limit,       \* notif_pending: rows per pass (20 in the code)
    MaxRetries,  \* notif_mark_failed: attempts (3 in the code)
    MaxItems,    \* bound: notifications added
    MaxStops,    \* bound: process restarts and dead loops together
    MaxCopies    \* bound: where the count of copies sent saturates

ASSUME OutboxAssumption ==
    /\ Limit \in Nat \ {0}
    /\ MaxRetries \in Nat \ {0}
    /\ MaxItems \in Nat
    /\ MaxStops \in Nat
    /\ MaxCopies \in Nat \ {0}

VARIABLES
    notifications,  \* the table, in order of id
    loop,           \* per slot: phase, and the rows of its pass not yet done
    copies,         \* per row: times the platform has taken the message
    stops,          \* process restarts and dead loops so far
    overlapped      \* TRUE once two loops have been alive together

vars == <<notifications, loop, copies, stops, overlapped>>

Ids == 1..Len(notifications)
Notification == [due : BOOLEAN, sent : BOOLEAN, retries : Nat, failed : BOOLEAN]
Phases == {"off", "polling", "sending", "accepted", "dead"}
Off == [phase |-> "off", batch |-> {}]
Polling == [phase |-> "polling", batch |-> {}]

Alive == {l \in Loops : loop[l].phase \in {"polling", "sending", "accepted"}}
\* Rows are taken in order of id.
Current(l, n) == n \in loop[l].batch /\ \A m \in loop[l].batch : n <= m
Settled(n) == notifications[n].sent \/ notifications[n].failed

Init ==
    /\ notifications = <<>>
    /\ loop = [l \in Loops |-> Off]
    /\ copies = <<>>
    /\ stops = 0
    /\ overlapped = FALSE

-----------------------------------------------------------------------------
(* The table *)

\* notif_add, for at once or for a later scheduled_at.
Add ==
    /\ Len(notifications) < MaxItems
    /\ \E due \in BOOLEAN :
         notifications' = Append(notifications,
           [due |-> due, sent |-> FALSE, retries |-> 0, failed |-> FALSE])
    /\ copies' = Append(copies, 0)
    /\ UNCHANGED <<loop, stops, overlapped>>

\* scheduled_at passes.
ComesDue(n) ==
    /\ n \in Ids /\ ~notifications[n].due
    /\ notifications' = [notifications EXCEPT ![n].due = TRUE]
    /\ UNCHANGED <<loop, copies, stops, overlapped>>

\* ORDER BY id LIMIT: the first rows of a set.
FirstRows(ids) == {n \in ids : Cardinality({m \in ids : m < n}) < Limit}

\* Seeded fault: rows that were given up are selected again.
PendingFailed ==
    FirstRows({n \in Ids : notifications[n].due /\ ~notifications[n].sent})

\* notif_pending: due, neither sent nor failed, the first Limit of them.
Pending == FirstRows({n \in Ids : notifications[n].due /\ ~Settled(n)})

\* Seeded faults: the attempt is not counted; the row is given up one attempt
\* too early.
FailUncounted(row) == [row EXCEPT !.failed = @ \/ row.retries >= MaxRetries]
FailEarly(row) ==
    [row EXCEPT !.retries = @ + 1, !.failed = @ \/ row.retries + 2 >= MaxRetries]

\* notif_mark_failed: both UPDATEs, one commit.
Fail(row) ==
    [row EXCEPT !.retries = @ + 1, !.failed = @ \/ row.retries + 1 >= MaxRetries]

-----------------------------------------------------------------------------
(* outbox_loop *)

\* One pass: the rows pending now are read, and the first is sent.
Poll(l) ==
    /\ loop[l].phase = "polling"
    /\ Pending # {}
    /\ loop' = [loop EXCEPT ![l] = [phase |-> "sending", batch |-> Pending]]
    /\ UNCHANGED <<notifications, copies, stops, overlapped>>

\* Seeded fault: the loop does not notice the end of its batch.
NextRowEndless(l, n) ==
    loop' = [loop EXCEPT ![l] = [phase |-> "sending", batch |-> @.batch \ {n}]]

\* The rest of the batch that was read, or sleep until the next pass.
NextRow(l, n) ==
    LET rest == loop[l].batch \ {n} IN
    loop' = [loop EXCEPT ![l] = [phase |-> IF rest = {} THEN "polling" ELSE "sending",
                                 batch |-> rest]]

\* The platform takes the message.
Accept(l, n) ==
    /\ loop[l].phase = "sending"
    /\ Current(l, n)
    /\ copies' = [copies EXCEPT ![n] = IF @ < MaxCopies THEN @ + 1 ELSE @]
    /\ loop' = [loop EXCEPT ![l].phase = "accepted"]
    /\ UNCHANGED <<notifications, stops, overlapped>>

\* Seeded fault: the row is marked before the message is sent.
MarkSentFirst(l, n) ==
    /\ loop[l].phase = "sending"
    /\ Current(l, n)
    /\ notifications' = [notifications EXCEPT ![n].sent = TRUE]
    /\ NextRow(l, n)
    /\ UNCHANGED <<copies, stops, overlapped>>

\* send_message returned: notif_mark_sent.
MarkSent(l, n) ==
    /\ loop[l].phase = "accepted"
    /\ Current(l, n)
    /\ notifications' = [notifications EXCEPT ![n].sent = TRUE]
    /\ NextRow(l, n)
    /\ UNCHANGED <<copies, stops, overlapped>>

\* send_message raised, with the message taken or not, or notif_mark_sent did:
\* notif_mark_failed, and on with the next row.
MarkFailed(l, n) ==
    /\ loop[l].phase \in {"sending", "accepted"}
    /\ Current(l, n)
    /\ notifications' = [notifications EXCEPT ![n] = Fail(@)]
    /\ NextRow(l, n)
    /\ UNCHANGED <<copies, stops, overlapped>>

\* notif_pending, or the calls in the except clause, raise: the task ends.
Die(l) ==
    /\ l \in Alive
    /\ stops < MaxStops
    /\ stops' = stops + 1
    /\ loop' = [loop EXCEPT ![l] = [phase |-> "dead", batch |-> {}]]
    /\ UNCHANGED <<notifications, copies, overlapped>>

-----------------------------------------------------------------------------
(* The process *)

\* on_ready: one more outbox_loop.
OnReady(l) ==
    /\ loop[l].phase = "off"
    /\ loop' = [loop EXCEPT ![l] = Polling]
    /\ overlapped' = (overlapped \/ Alive # {})
    /\ UNCHANGED <<notifications, copies, stops>>

\* The process stops and starts again; the table is on disk.
Restart ==
    /\ stops < MaxStops
    /\ stops' = stops + 1
    /\ loop' = [l \in Loops |-> Off]
    /\ UNCHANGED <<notifications, copies, overlapped>>

LoopStep(l) ==
    Poll(l) \/ \E n \in Ids : Accept(l, n) \/ MarkSent(l, n) \/ MarkFailed(l, n)

Next ==
    \/ Add
    \/ \E n \in 1..MaxItems : ComesDue(n)
    \/ \E l \in Loops : LoopStep(l) \/ Die(l) \/ OnReady(l)
    \/ Restart

\* A loop that is alive wakes up and its sends end (the client has a timeout);
\* a started process gets its first READY.
Fairness ==
    /\ \A l \in Loops : WF_vars(LoopStep(l))
    /\ WF_vars(\E l \in Loops : (\A k \in Loops : loop[k] = Off) /\ OnReady(l))

Spec == Init /\ [][Next]_vars /\ Fairness

-----------------------------------------------------------------------------
(* Properties *)

\* The rows and the loops keep their shape; a loop sends exactly while rows of
\* its pass are left.
TypeOK ==
    /\ notifications \in Seq(Notification)
    /\ loop \in [Loops -> [phase : Phases, batch : SUBSET Ids]]
    /\ \A l \in Loops :
         loop[l].phase \in {"sending", "accepted"} <=> loop[l].batch # {}
    /\ copies \in Seq(0..MaxCopies) /\ Len(copies) = Len(notifications)
    /\ stops \in 0..MaxStops
    /\ overlapped \in BOOLEAN

\* A row marked sent was taken by the platform, and a message taken was due:
\* whatever stops in between, nothing is dropped as sent or sent too early.
SentWasTaken ==
    \A n \in Ids : /\ notifications[n].sent => copies[n] > 0
                   /\ copies[n] > 0 => notifications[n].due

\* A row is given up exactly when its attempts are used up, also when several
\* loops count the attempts of one row (notif_mark_failed, max_retries).
GivenUpAfterRetries ==
    \A n \in Ids : notifications[n].failed <=> notifications[n].retries >= MaxRetries

\* Without overlapping loops a message is sent at most once for each counted
\* attempt, once for the mark, once for a send in progress and once for each
\* stop that hit between the send and the mark.
CopiesAccounted ==
    ~overlapped =>
      \A n \in Ids :
        copies[n] <= notifications[n].retries + stops
                     + (IF notifications[n].sent THEN 1 ELSE 0)
                     + Cardinality({l \in Loops : /\ loop[l].phase = "accepted"
                                                  /\ Current(l, n)})

\* Without overlapping loops, a row that was marked sent or given up is never
\* sent again, across passes, retries and restarts.
SettledIsFinal ==
    [][\A n \in Ids : copies'[n] > copies[n] /\ ~overlapped => ~Settled(n)]_vars

\* A row that is due is sent or given up, unless every loop has died: a row
\* that keeps failing does not keep the ones behind it from being sent.
EventuallySettled ==
    \A n \in 1..MaxItems :
      (n \in Ids /\ notifications[n].due)
        ~> \/ n \in Ids /\ Settled(n)
           \/ Alive = {} /\ \E l \in Loops : loop[l].phase = "dead"

-----------------------------------------------------------------------------
(* The abstract queue *)

StatusOf(row) ==
    IF row.sent THEN "sent" ELSE IF row.failed THEN "givenup"
    ELSE IF row.due THEN "waiting" ELSE "scheduled"

Queue == INSTANCE Delivery WITH
    status <- [n \in Ids |-> StatusOf(notifications[n])],
    attempts <- [n \in Ids |-> notifications[n].retries],
    copies <- copies

\* With one loop the table and its loop, whatever restarts and errors hit
\* them, are the queue of module Delivery: every step of outbox_loop is a step
\* of the promise or none.
KeepsPromise == Queue!Spec
=============================================================================
