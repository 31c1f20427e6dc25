----------------------------- MODULE OutboxProofs -----------------------------
(***************************************************************************)
(* Proofs about Outbox, for any number of loops, rows, attempts and stops: *)
(* the shape of the state, that nothing is marked sent before it is taken, *)
(* that a row is given up exactly when its attempts are used up, that the  *)
(* copies sent are accounted for by attempts, marks and stops, and that    *)
(* loops that do not overlap keep the promise of module Delivery.          *)
(***************************************************************************)
EXTENDS Outbox, SequenceTheorems, FiniteSetTheorems, TLAPS

Loop == [phase : Phases, batch : SUBSET Ids]

-----------------------------------------------------------------------------
(* Rows *)

LEMMA FailType ==
    ASSUME NEW row \in Notification
    PROVE  /\ Fail(row) \in Notification
           /\ Fail(row).due = row.due /\ Fail(row).sent = row.sent
           /\ Fail(row).retries = row.retries + 1
           /\ Fail(row).failed = (row.failed \/ row.retries + 1 >= MaxRetries)
<1>. DEFINE r == row.retries + 1
            g == row.failed \/ row.retries + 1 >= MaxRetries
<1>1. /\ row.due \in BOOLEAN /\ row.sent \in BOOLEAN
      /\ row.retries \in Nat /\ row.failed \in BOOLEAN
  BY DEF Notification
<1>2. r \in Nat
  BY <1>1
<1>3. g \in BOOLEAN
  BY <1>1, Zenon
<1>4. Fail(row) = [row EXCEPT !.retries = r, !.failed = g]
  BY Zenon DEF Fail
<1>. HIDE DEF r, g
<1>5. Fail(row) = [due |-> row.due, sent |-> row.sent, retries |-> r, failed |-> g]
  BY <1>4 DEF Notification
<1>6. Fail(row) \in Notification
  BY <1>1, <1>2, <1>3, <1>5 DEF Notification
<1>7. /\ Fail(row).due = row.due /\ Fail(row).sent = row.sent
      /\ Fail(row).retries = r /\ Fail(row).failed = g
  BY <1>5
<1>. QED
  BY <1>6, <1>7 DEF r, g

\* One row is rewritten: the table has the same ids and the other rows.
LEMMA RowWritten ==
    ASSUME notifications \in Seq(Notification), NEW n \in Ids,
           NEW row \in Notification,
           notifications' = [notifications EXCEPT ![n] = row]
    PROVE  /\ notifications' \in Seq(Notification)
           /\ Ids' = Ids
           /\ Len(notifications') = Len(notifications)
           /\ \A m \in Ids : notifications'[m] = IF m = n THEN row ELSE notifications[m]
BY ExceptSeq DEF Ids

\* A copy is counted: the counts stay natural numbers up to the bound, grow for
\* one row only, and that row has been taken.
LEMMA CopyCounted ==
    ASSUME copies \in Seq(0..MaxCopies), Len(copies) = Len(notifications),
           NEW n \in Ids,
           copies' = [copies EXCEPT ![n] = IF @ < MaxCopies THEN @ + 1 ELSE @]
    PROVE  /\ copies' \in Seq(0..MaxCopies)
           /\ Len(copies') = Len(copies)
           /\ copies'[n] > 0
           /\ \A m \in Ids : m # n => copies'[m] = copies[m]
<1>. DEFINE c == IF copies[n] < MaxCopies THEN copies[n] + 1 ELSE copies[n]
<1>0. n \in 1..Len(copies)
  BY DEF Ids
<1>1. copies[n] \in 0..MaxCopies /\ n \in 1..Len(copies)
  BY <1>0, ElementOfSeq
<1>2. c \in 0..MaxCopies /\ c > 0
  BY <1>1, OutboxAssumption
<1>3. copies' = [copies EXCEPT ![n] = c]
  OBVIOUS
<1>. HIDE DEF c
<1>4. copies' \in Seq(0..MaxCopies) /\ Len(copies') = Len(copies)
      /\ \A m \in 1..Len(copies) : copies'[m] = IF m = n THEN c ELSE copies[m]
  BY <1>1, <1>2, <1>3, ExceptSeq
<1>. QED
  BY <1>1, <1>2, <1>4 DEF Ids

\* The rows pending are rows that are due and not settled.
LEMMA PendingRows ==
    Pending \subseteq {n \in Ids : notifications[n].due /\ ~Settled(n)}
BY DEF Pending, FirstRows

-----------------------------------------------------------------------------
(* The invariant: besides what is claimed, the rows a loop still has to do   *)
(* are due, the one it waits to mark was taken, and loops that do not        *)
(* overlap are at most one and work on rows that are not settled.            *)

BatchDue == \A l \in Loops : \A n \in loop[l].batch : notifications[n].due
AcceptedTaken ==
    \A l \in Loops : \A n \in Ids :
      loop[l].phase = "accepted" /\ Current(l, n) => copies[n] > 0
OneLoop ==
    ~overlapped =>
      /\ \A l, k \in Alive : l = k
      /\ \A l \in Loops : \A n \in loop[l].batch : ~Settled(n)

IInv == TypeOK /\ SentWasTaken /\ GivenUpAfterRetries /\ BatchDue
        /\ AcceptedTaken /\ OneLoop

LEMMA InitIInv == Init => IInv
<1>. SUFFICES ASSUME Init PROVE IInv
  OBVIOUS
<1>1. Ids = {} /\ notifications \in Seq(Notification) /\ copies \in Seq(0..MaxCopies)
  BY DEF Init, Ids
<1>2. loop \in [Loops -> [phase : Phases, batch : SUBSET Ids]]
  BY DEF Init, Off, Phases
<1>4. \A l \in Loops :
        loop[l].phase \in {"sending", "accepted"} <=> loop[l].batch # {}
  BY DEF Init, Off
<1>5. Len(copies) = Len(notifications) /\ stops \in 0..MaxStops
  BY OutboxAssumption DEF Init
<1>7. overlapped \in BOOLEAN
  BY Zenon DEF Init
<1>6. TypeOK
  BY <1>1, <1>2, <1>4, <1>5, <1>7, Zenon DEF TypeOK
<1>3. SentWasTaken /\ GivenUpAfterRetries /\ BatchDue /\ AcceptedTaken /\ OneLoop
  BY <1>1 DEF Init, SentWasTaken, GivenUpAfterRetries, BatchDue, AcceptedTaken,
              OneLoop, Alive, Off
<1>. QED
  BY <1>3, <1>6 DEF IInv

\* notif_add: the row that is added is untouched, the others stay.
LEMMA AddIInv == IInv /\ Add => IInv'
<1>. SUFFICES ASSUME IInv, Add PROVE IInv'
  OBVIOUS
<1>. DEFINE k == Len(notifications) + 1
<1>1. PICK due \in BOOLEAN :
        notifications' = Append(notifications,
          [due |-> due, sent |-> FALSE, retries |-> 0, failed |-> FALSE])
  BY DEF Add
<1>. DEFINE row == [due |-> due, sent |-> FALSE, retries |-> 0, failed |-> FALSE]
<1>2. /\ copies' = Append(copies, 0)
      /\ loop' = loop /\ stops' = stops /\ overlapped' = overlapped
  BY DEF Add
<1>3. /\ notifications \in Seq(Notification) /\ copies \in Seq(0..MaxCopies)
      /\ Len(copies) = Len(notifications)
      /\ loop \in [Loops -> Loop]
  BY DEF IInv, TypeOK, Loop
<1>4. row \in Notification
  BY DEF Notification
<1>5. /\ notifications' \in Seq(Notification)
      /\ Len(notifications') = k
      /\ \A m \in Ids : notifications'[m] = notifications[m]
      /\ notifications'[k] = row
  BY <1>1, <1>3, <1>4, AppendProperties DEF Ids
<1>6. 0 \in 0..MaxCopies
  BY OutboxAssumption
<1>7. /\ copies' \in Seq(0..MaxCopies)
      /\ Len(copies') = k
      /\ \A m \in Ids : copies'[m] = copies[m]
      /\ copies'[k] = 0
  BY <1>2, <1>3, <1>6, AppendProperties DEF Ids
<1>8. Ids' = Ids \cup {k} /\ k \notin Ids
  BY <1>3, <1>5 DEF Ids
<1>9. row.sent = FALSE /\ row.failed = FALSE /\ row.retries = 0
  OBVIOUS
<1>. HIDE DEF k, row
<1>10. TypeOK'
  <2>1. loop' \in [Loops -> [phase : Phases, batch : SUBSET Ids']]
    BY <1>2, <1>3, <1>8 DEF Loop
  <2>2. \A l \in Loops :
          loop'[l].phase \in {"sending", "accepted"} <=> loop'[l].batch # {}
    BY <1>2 DEF IInv, TypeOK
  <2>3. stops' \in 0..MaxStops /\ overlapped' \in BOOLEAN
    BY <1>2, Zenon DEF IInv, TypeOK
  <2>. QED
    BY <1>5, <1>7, <2>1, <2>2, <2>3, Zenon DEF TypeOK
<1>11. SentWasTaken'
  BY <1>5, <1>7, <1>8, <1>9 DEF IInv, SentWasTaken
<1>12. GivenUpAfterRetries'
  BY <1>5, <1>8, <1>9, OutboxAssumption DEF IInv, GivenUpAfterRetries
<1>13. \A l \in Loops : loop[l].batch \subseteq Ids
  BY <1>3 DEF Loop
<1>14. BatchDue'
  BY <1>2, <1>5, <1>13 DEF IInv, BatchDue
<1>15. AcceptedTaken'
  BY <1>2, <1>7, <1>13 DEF IInv, AcceptedTaken, Current
<1>16. OneLoop'
  BY <1>2, <1>5, <1>13 DEF IInv, OneLoop, Alive, Settled
<1>. QED
  BY <1>10, <1>11, <1>12, <1>14, <1>15, <1>16 DEF IInv

\* A row is rewritten and the loops stand still.
LEMMA ComesDueIInv == \A n : IInv /\ ComesDue(n) => IInv'
<1>. SUFFICES ASSUME NEW n, IInv, ComesDue(n) PROVE IInv'
  OBVIOUS
<1>. DEFINE row == [notifications[n] EXCEPT !.due = TRUE]
<1>1. /\ n \in Ids /\ notifications' = [notifications EXCEPT ![n] = row]
      /\ copies' = copies /\ loop' = loop /\ stops' = stops
      /\ overlapped' = overlapped
  BY DEF ComesDue
<1>2. notifications \in Seq(Notification) /\ notifications[n] \in Notification
  BY <1>1, ElementOfSeq DEF IInv, TypeOK, Ids
<1>3. /\ row \in Notification /\ row.due
      /\ row.sent = notifications[n].sent /\ row.retries = notifications[n].retries
      /\ row.failed = notifications[n].failed
  BY <1>2 DEF Notification
<1>. HIDE DEF row
<1>4. /\ notifications' \in Seq(Notification) /\ Ids' = Ids
      /\ Len(notifications') = Len(notifications)
      /\ \A m \in Ids : notifications'[m] = IF m = n THEN row ELSE notifications[m]
  BY <1>1, <1>2, <1>3, RowWritten
<1>5. TypeOK'
  <2>1. TypeOK
    BY DEF IInv
  <2>. QED
    BY <1>1, <1>4, <2>1, Zenon DEF TypeOK
<1>6. SentWasTaken'
  BY <1>1, <1>3, <1>4 DEF IInv, SentWasTaken
<1>7. GivenUpAfterRetries'
  BY <1>3, <1>4 DEF IInv, GivenUpAfterRetries
<1>8. \A l \in Loops : loop[l].batch \subseteq Ids
  BY DEF IInv, TypeOK
<1>9. BatchDue'
  BY <1>1, <1>3, <1>4, <1>8 DEF IInv, BatchDue
<1>10. AcceptedTaken'
  BY <1>1, <1>4 DEF IInv, AcceptedTaken, Current
<1>11. OneLoop'
  BY <1>1, <1>3, <1>4, <1>8 DEF IInv, OneLoop, Alive, Settled
<1>. QED
  BY <1>5, <1>6, <1>7, <1>9, <1>10, <1>11 DEF IInv

-----------------------------------------------------------------------------
(* Steps of a loop *)

\* One loop moves to a well-formed state; the others stand still.
LEMMA LoopMoved ==
    ASSUME IInv, NEW l \in Loops, NEW v \in Loop,
           v.phase \in {"sending", "accepted"} <=> v.batch # {},
           loop' = [loop EXCEPT ![l] = v], Ids' = Ids
    PROVE  /\ loop' \in [Loops -> [phase : Phases, batch : SUBSET Ids']]
           /\ \A k \in Loops :
                loop'[k].phase \in {"sending", "accepted"} <=> loop'[k].batch # {}
           /\ \A k \in Loops : loop'[k] = IF k = l THEN v ELSE loop[k]
<1>1. loop \in [Loops -> Loop]
  BY DEF IInv, TypeOK, Loop
<1>2. \A k \in Loops :
        loop[k].phase \in {"sending", "accepted"} <=> loop[k].batch # {}
  BY DEF IInv, TypeOK
<1>. QED
  BY <1>1, <1>2 DEF Loop

\* A loop that has rows left is alive.
LEMMA BusyAlive ==
    ASSUME IInv, NEW l \in Loops, loop[l].batch # {} PROVE l \in Alive
BY DEF IInv, TypeOK, Alive

LEMMA PollIInv == ASSUME IInv, NEW l \in Loops, Poll(l) PROVE IInv'
<1>. DEFINE v == [phase |-> "sending", batch |-> Pending]
<1>1. /\ loop[l].phase = "polling" /\ Pending # {}
      /\ loop' = [loop EXCEPT ![l] = v]
      /\ notifications' = notifications /\ copies' = copies /\ stops' = stops
      /\ overlapped' = overlapped
  BY DEF Poll
<1>2. Ids' = Ids
  BY <1>1 DEF Ids
<1>3. Pending \subseteq {n \in Ids : notifications[n].due /\ ~Settled(n)}
  BY PendingRows
<1>4. v \in Loop /\ v.phase = "sending" /\ v.batch = Pending
  BY <1>3 DEF Loop, Phases
<1>. HIDE DEF v
<1>5. /\ loop' \in [Loops -> [phase : Phases, batch : SUBSET Ids']]
      /\ \A k \in Loops :
           loop'[k].phase \in {"sending", "accepted"} <=> loop'[k].batch # {}
      /\ \A k \in Loops : loop'[k] = IF k = l THEN v ELSE loop[k]
  BY <1>1, <1>2, <1>4, LoopMoved
<1>6. TypeOK'
  <2>1. TypeOK
    BY DEF IInv
  <2>. QED
    BY <1>1, <1>5, <2>1, Zenon DEF TypeOK
<1>7. SentWasTaken' /\ GivenUpAfterRetries'
  BY <1>1, <1>2 DEF IInv, SentWasTaken, GivenUpAfterRetries
<1>8. BatchDue'
  BY <1>1, <1>3, <1>4, <1>5 DEF IInv, BatchDue
<1>9. AcceptedTaken'
  BY <1>1, <1>2, <1>4, <1>5 DEF IInv, AcceptedTaken, Current
<1>10. Alive' = Alive
  BY <1>1, <1>4, <1>5 DEF Alive
<1>11. OneLoop'
  BY <1>1, <1>3, <1>4, <1>5, <1>10 DEF IInv, OneLoop, Settled
<1>. QED
  BY <1>6, <1>7, <1>8, <1>9, <1>11 DEF IInv

LEMMA AcceptIInv ==
    ASSUME IInv, NEW l \in Loops, NEW n \in Ids, Accept(l, n) PROVE IInv'
<1>. DEFINE v == [loop[l] EXCEPT !.phase = "accepted"]
<1>1. /\ loop[l].phase = "sending" /\ Current(l, n)
      /\ loop' = [loop EXCEPT ![l] = v]
      /\ copies' = [copies EXCEPT ![n] = IF @ < MaxCopies THEN @ + 1 ELSE @]
      /\ notifications' = notifications /\ stops' = stops
      /\ overlapped' = overlapped
  BY DEF Accept
<1>2. Ids' = Ids
  BY <1>1 DEF Ids
<1>3. loop[l] \in Loop /\ loop[l].batch # {}
  BY <1>1 DEF IInv, TypeOK, Loop
<1>4. v \in Loop /\ v.phase = "accepted" /\ v.batch = loop[l].batch
  BY <1>3 DEF Loop, Phases
<1>. HIDE DEF v
<1>5. /\ loop' \in [Loops -> [phase : Phases, batch : SUBSET Ids']]
      /\ \A k \in Loops :
           loop'[k].phase \in {"sending", "accepted"} <=> loop'[k].batch # {}
      /\ \A k \in Loops : loop'[k] = IF k = l THEN v ELSE loop[k]
  BY <1>1, <1>2, <1>3, <1>4, LoopMoved
<1>6. /\ copies' \in Seq(0..MaxCopies) /\ Len(copies') = Len(copies)
      /\ copies'[n] > 0
      /\ \A m \in Ids : m # n => copies'[m] = copies[m]
  BY <1>1, CopyCounted DEF IInv, TypeOK
<1>7. TypeOK'
  <2>1. TypeOK
    BY DEF IInv
  <2>. QED
    BY <1>1, <1>5, <1>6, <2>1, Zenon DEF TypeOK
<1>8. notifications[n].due
  BY <1>1 DEF IInv, BatchDue, Current
<1>9. SentWasTaken'
  BY <1>1, <1>2, <1>6, <1>8 DEF IInv, SentWasTaken
<1>10. GivenUpAfterRetries'
  BY <1>1, <1>2 DEF IInv, GivenUpAfterRetries
<1>11. BatchDue'
  BY <1>1, <1>4, <1>5 DEF IInv, BatchDue
<1>12. AcceptedTaken'
  <2>1. ASSUME NEW k \in Loops, NEW m \in Ids, loop'[k].phase = "accepted", Current(k, m)'
        PROVE  copies'[m] > 0
    <3>1. CASE m = n
      BY <1>6, <3>1
    <3>2. CASE m # n /\ k # l
      <4>1. loop[k].phase = "accepted" /\ Current(k, m)
        BY <1>5, <2>1, <3>2 DEF Current
      <4>. QED
        BY <1>6, <3>2, <4>1 DEF IInv, AcceptedTaken
    <3>3. CASE m # n /\ k = l
      <4>1. Current(l, m)
        BY <1>4, <1>5, <2>1, <3>3 DEF Current
      <4>2. m <= n /\ n <= m
        BY <1>1, <4>1 DEF Current
      <4>. QED
        BY <3>3, <4>2 DEF Ids
    <3>. QED
      BY <3>1, <3>2, <3>3
  <2>. QED
    BY <1>2, <2>1 DEF AcceptedTaken
<1>13. Alive' = Alive
  BY <1>1, <1>4, <1>5 DEF Alive
<1>14. OneLoop'
  BY <1>1, <1>4, <1>5, <1>13 DEF IInv, OneLoop, Settled
<1>. QED
  BY <1>7, <1>9, <1>10, <1>11, <1>12, <1>14 DEF IInv

\* Whatever is recorded about the row at hand, provided it stays due, is marked
\* sent only when it was taken, and is given up when its attempts are used up,
\* the loop moves on to its other rows.
LEMMA RecordedIInv ==
    ASSUME IInv, NEW l \in Loops, NEW n \in Ids, NEW row \in Notification,
           loop[l].phase \in {"sending", "accepted"}, Current(l, n), NextRow(l, n),
           notifications' = [notifications EXCEPT ![n] = row],
           row.due = notifications[n].due,
           row.sent => copies[n] > 0,
           row.failed <=> row.retries >= MaxRetries,
           UNCHANGED <<copies, stops, overlapped>>
    PROVE  IInv'
<1>. DEFINE rest == loop[l].batch \ {n}
            v == [phase |-> IF rest = {} THEN "polling" ELSE "sending", batch |-> rest]
<1>1. loop' = [loop EXCEPT ![l] = v]
  BY DEF NextRow
<1>2. notifications \in Seq(Notification)
  BY DEF IInv, TypeOK
<1>3. /\ notifications' \in Seq(Notification) /\ Ids' = Ids
      /\ Len(notifications') = Len(notifications)
      /\ \A m \in Ids : notifications'[m] = IF m = n THEN row ELSE notifications[m]
  BY <1>2, RowWritten
<1>4. loop[l] \in Loop
  BY DEF IInv, TypeOK, Loop
<1>5. /\ v \in Loop
      /\ v.phase \in {"sending", "accepted"} <=> v.batch # {}
      /\ v.phase \in {"polling", "sending"}
      /\ v.batch = loop[l].batch \ {n}
  BY <1>4 DEF Loop, Phases
<1>. HIDE DEF v, rest
<1>6. /\ loop' \in [Loops -> [phase : Phases, batch : SUBSET Ids']]
      /\ \A k \in Loops :
           loop'[k].phase \in {"sending", "accepted"} <=> loop'[k].batch # {}
      /\ \A k \in Loops : loop'[k] = IF k = l THEN v ELSE loop[k]
  BY <1>1, <1>3, <1>5, LoopMoved
<1>7. TypeOK'
  <2>1. TypeOK
    BY DEF IInv
  <2>. QED
    BY <1>3, <1>6, <2>1, Zenon DEF TypeOK
<1>8. SentWasTaken'
  BY <1>3 DEF IInv, SentWasTaken
<1>9. GivenUpAfterRetries'
  BY <1>3 DEF IInv, GivenUpAfterRetries
<1>10. \A k \in Loops : loop'[k].batch \subseteq loop[k].batch
                        /\ loop[k].batch \subseteq Ids
  BY <1>4, <1>5, <1>6 DEF IInv, TypeOK
<1>11. BatchDue'
  BY <1>3, <1>10 DEF IInv, BatchDue
<1>12. AcceptedTaken'
  BY <1>3, <1>5, <1>6 DEF IInv, AcceptedTaken, Current
<1>13. Alive' = Alive
  BY <1>5, <1>6 DEF Alive
<1>14. OneLoop'
  <2>1. ASSUME ~overlapped', NEW k \in Loops, NEW m \in loop'[k].batch
        PROVE  ~Settled(m)'
    <3>1. m \in loop[k].batch /\ ~overlapped /\ m \in Ids
      BY <1>10, <2>1
    <3>2. k \in Alive /\ l \in Alive
      BY <3>1, BusyAlive DEF Alive
    <3>3. k = l
      BY <3>1, <3>2 DEF IInv, OneLoop
    <3>4. m # n
      BY <1>5, <1>6, <2>1, <3>3
    <3>5. notifications'[m] = notifications[m]
      BY <1>3, <3>1, <3>4
    <3>. QED
      BY <3>1, <3>5 DEF IInv, OneLoop, Settled
  <2>2. ~overlapped' => \A j, k \in Alive' : j = k
    BY <1>13 DEF IInv, OneLoop
  <2>. QED
    BY <2>1, <2>2 DEF OneLoop
<1>. QED
  BY <1>7, <1>8, <1>9, <1>11, <1>12, <1>14 DEF IInv

\* A row at hand, marked sent or counted as failed.
LEMMA MarkSentIInv ==
    ASSUME IInv, NEW l \in Loops, NEW n \in Ids, MarkSent(l, n) PROVE IInv'
<1>. DEFINE row == [notifications[n] EXCEPT !.sent = TRUE]
<1>1. /\ loop[l].phase = "accepted" /\ Current(l, n) /\ NextRow(l, n)
      /\ notifications' = [notifications EXCEPT ![n] = row]
      /\ UNCHANGED <<copies, stops, overlapped>>
  BY DEF MarkSent
<1>2. notifications[n] \in Notification
  BY ElementOfSeq DEF IInv, TypeOK, Ids
<1>3. /\ row \in Notification /\ row.due = notifications[n].due
      /\ row.failed = notifications[n].failed
      /\ row.retries = notifications[n].retries
  BY <1>2 DEF Notification
<1>4. copies[n] > 0
  BY <1>1 DEF IInv, AcceptedTaken
<1>5. row.failed <=> row.retries >= MaxRetries
  BY <1>3 DEF IInv, GivenUpAfterRetries
<1>. HIDE DEF row
<1>. QED
  BY <1>1, <1>3, <1>4, <1>5, RecordedIInv

LEMMA MarkFailedIInv ==
    ASSUME IInv, NEW l \in Loops, NEW n \in Ids, MarkFailed(l, n) PROVE IInv'
<1>. DEFINE row == Fail(notifications[n])
<1>1. /\ loop[l].phase \in {"sending", "accepted"} /\ Current(l, n) /\ NextRow(l, n)
      /\ notifications' = [notifications EXCEPT ![n] = row]
      /\ UNCHANGED <<copies, stops, overlapped>>
  BY DEF MarkFailed
<1>2. notifications[n] \in Notification
  BY ElementOfSeq DEF IInv, TypeOK, Ids
<1>3. /\ row \in Notification
      /\ row.due = notifications[n].due /\ row.sent = notifications[n].sent
      /\ row.retries = notifications[n].retries + 1
      /\ row.failed = (notifications[n].failed \/ notifications[n].retries + 1 >= MaxRetries)
  BY <1>2, FailType
<1>4. notifications[n].retries \in Nat /\ MaxRetries \in Nat
  BY <1>2, OutboxAssumption DEF Notification
<1>5. notifications[n].failed <=> notifications[n].retries >= MaxRetries
  BY DEF IInv, GivenUpAfterRetries
<1>6. row.failed <=> row.retries >= MaxRetries
  <2>1. notifications[n].retries >= MaxRetries => notifications[n].retries + 1 >= MaxRetries
    BY <1>4
  <2>2. row.failed <=> notifications[n].retries + 1 >= MaxRetries
    BY <1>3, <1>5, <2>1, Zenon
  <2>. QED
    BY <1>3, <2>2, Zenon
<1>7. row.sent => copies[n] > 0
  BY <1>3 DEF IInv, SentWasTaken
<1>. HIDE DEF row
<1>. QED
  BY <1>1, <1>3, <1>6, <1>7, RecordedIInv

\* A loop starts or ends, or all of them do: no row is touched, and a loop with
\* nothing to do is no danger to the rows.
LEMMA QuietIInv ==
    ASSUME IInv, UNCHANGED <<notifications, copies>>,
           loop' \in [Loops -> Loop],
           \A k \in Loops :
             loop'[k] = loop[k] \/ loop'[k] \in {Off, Polling,
                                                [phase |-> "dead", batch |-> {}]},
           stops' \in 0..MaxStops, overlapped' \in BOOLEAN,
           ~overlapped' => ~overlapped /\ \A j, k \in Alive' : j = k
    PROVE  IInv'
<1>1. Ids' = Ids
  BY DEF Ids
<1>0. \A w \in {Off, Polling, [phase |-> "dead", batch |-> {}]} :
        w.batch = {} /\ w.phase \in {"off", "polling", "dead"}
  BY DEF Off, Polling
<1>2. \A k \in Loops :
        \/ loop'[k] = loop[k]
        \/ loop'[k].batch = {} /\ loop'[k].phase \in {"off", "polling", "dead"}
  BY <1>0
<1>3. TypeOK'
  <2>1. \A k \in Loops :
          loop'[k].phase \in {"sending", "accepted"} <=> loop'[k].batch # {}
    BY <1>2 DEF IInv, TypeOK
  <2>2. loop' \in [Loops -> [phase : Phases, batch : SUBSET Ids']]
    BY <1>1 DEF Loop
  <2>3. TypeOK
    BY DEF IInv
  <2>. QED
    BY <2>1, <2>2, <2>3, Zenon DEF TypeOK
<1>4. SentWasTaken' /\ GivenUpAfterRetries'
  BY <1>1 DEF IInv, SentWasTaken, GivenUpAfterRetries
<1>5. BatchDue'
  BY <1>2 DEF IInv, BatchDue
<1>6. AcceptedTaken'
  BY <1>1, <1>2 DEF IInv, AcceptedTaken, Current
<1>7. OneLoop'
  BY <1>2 DEF IInv, OneLoop, Settled
<1>. QED
  BY <1>3, <1>4, <1>5, <1>6, <1>7 DEF IInv

LEMMA DieIInv == ASSUME IInv, NEW l \in Loops, Die(l) PROVE IInv'
<1>. DEFINE v == [phase |-> "dead", batch |-> {}]
<1>1. loop \in [Loops -> Loop] /\ stops \in 0..MaxStops /\ MaxStops \in Nat
  BY OutboxAssumption DEF IInv, TypeOK, Loop
<1>2. v \in Loop
  BY DEF Loop, Phases
<1>3. /\ loop' \in [Loops -> Loop]
      /\ \A k \in Loops : loop'[k] = IF k = l THEN v ELSE loop[k]
  BY <1>1, <1>2 DEF Die
<1>4. stops' \in 0..MaxStops
  BY <1>1 DEF Die
<1>5. Alive' \subseteq Alive
  BY <1>3 DEF Alive
<1>6. overlapped' = overlapped
  BY DEF Die
<1>7. overlapped' \in BOOLEAN
  BY <1>6, Zenon DEF IInv, TypeOK
<1>8. ~overlapped' => ~overlapped /\ \A j, k \in Alive' : j = k
  BY <1>5, <1>6 DEF IInv, OneLoop
<1>9. UNCHANGED <<notifications, copies>>
  BY DEF Die
<1>. QED
  BY <1>3, <1>4, <1>7, <1>8, <1>9, QuietIInv

LEMMA OnReadyIInv == ASSUME IInv, NEW l \in Loops, OnReady(l) PROVE IInv'
<1>1. loop \in [Loops -> Loop] /\ stops \in 0..MaxStops
  BY DEF IInv, TypeOK, Loop
<1>2. Polling \in Loop
  BY DEF Loop, Polling, Phases
<1>3. /\ loop' \in [Loops -> Loop]
      /\ \A k \in Loops : loop'[k] = IF k = l THEN Polling ELSE loop[k]
  BY <1>1, <1>2 DEF OnReady
<1>4. stops' \in 0..MaxStops /\ UNCHANGED <<notifications, copies>>
  BY <1>1 DEF OnReady
<1>5. overlapped' = (overlapped \/ Alive # {})
  BY DEF OnReady
<1>6. overlapped' \in BOOLEAN
  BY <1>5, Zenon
<1>7. ~overlapped' => ~overlapped /\ Alive = {}
  BY <1>5, Zenon
<1>8. Alive = {} => \A j, k \in Alive' : j = k
  BY <1>3 DEF Alive
<1>9. ~overlapped' => ~overlapped /\ \A j, k \in Alive' : j = k
  BY <1>7, <1>8, Zenon
<1>. QED
  BY <1>3, <1>4, <1>6, <1>9, QuietIInv

LEMMA RestartIInv == ASSUME IInv, Restart PROVE IInv'
<1>1. stops \in 0..MaxStops /\ MaxStops \in Nat
  BY OutboxAssumption DEF IInv, TypeOK
<1>2. loop' = [k \in Loops |-> Off] /\ overlapped' = overlapped
      /\ UNCHANGED <<notifications, copies>>
  BY DEF Restart
<1>3. loop' \in [Loops -> Loop] /\ \A k \in Loops : loop'[k] = Off
  BY <1>2 DEF Loop, Off, Phases
<1>4. stops' \in 0..MaxStops
  BY <1>1 DEF Restart
<1>5. Alive' = {}
  BY <1>3 DEF Alive, Off
<1>6. overlapped' \in BOOLEAN
  BY <1>2, Zenon DEF IInv, TypeOK
<1>7. ~overlapped' => ~overlapped /\ \A j, k \in Alive' : j = k
  BY <1>2, <1>5
<1>. QED
  BY <1>2, <1>3, <1>4, <1>6, <1>7, QuietIInv

LEMMA StutterIInv == IInv /\ UNCHANGED vars => IInv'
BY DEF vars, IInv, TypeOK, SentWasTaken, GivenUpAfterRetries, BatchDue,
       AcceptedTaken, OneLoop, Ids, Alive, Current, Settled

\* Every step keeps the invariant.
LEMMA NextIInv == IInv /\ [Next]_vars => IInv'
<1>1. ASSUME IInv, Add PROVE IInv'
  BY <1>1, AddIInv
<1>2. ASSUME IInv, NEW n \in 1..MaxItems, ComesDue(n) PROVE IInv'
  BY <1>2, ComesDueIInv
<1>3. ASSUME IInv, NEW l \in Loops, LoopStep(l) PROVE IInv'
  BY <1>3, PollIInv, AcceptIInv, MarkSentIInv, MarkFailedIInv DEF LoopStep
<1>. QED
  BY <1>1, <1>2, <1>3, DieIInv, OnReadyIInv, RestartIInv, StutterIInv DEF Next

-----------------------------------------------------------------------------
(* The theorems *)

\* The rows and the loops keep their shape.
THEOREM QueueTyped == Spec => []TypeOK
<1>1. IInv => TypeOK
  BY DEF IInv
<1>. QED
  BY InitIInv, NextIInv, <1>1, PTL DEF Spec

\* However many loops run and whatever stops them, a row marked sent was taken
\* by the platform, and no row was taken before it was due.
THEOREM NothingMarkedUntaken == Spec => []SentWasTaken
<1>1. IInv => SentWasTaken
  BY DEF IInv
<1>. QED
  BY InitIInv, NextIInv, <1>1, PTL DEF Spec

\* However many loops count the attempts of a row, it is given up exactly when
\* they are used up.
THEOREM RetriesExact == Spec => []GivenUpAfterRetries
<1>1. IInv => GivenUpAfterRetries
  BY DEF IInv
<1>. QED
  BY InitIInv, NextIInv, <1>1, PTL DEF Spec

\* A row that a loop works on is not settled, unless loops overlapped.
LEMMA WorkedRow ==
    ASSUME IInv, ~overlapped, NEW l \in Loops, NEW n \in Ids, Current(l, n)
    PROVE  notifications[n].due /\ ~Settled(n)
BY DEF IInv, OneLoop, BatchDue, Current

\* Loops that do not overlap never send a settled row again.
THEOREM NoResend == Spec => SettledIsFinal
<1>1. ASSUME IInv, [Next]_vars
      PROVE  [\A n \in Ids : copies'[n] > copies[n] /\ ~overlapped => ~Settled(n)]_vars
  <2>. SUFFICES ASSUME NEW n \in Ids, copies'[n] > copies[n], ~overlapped
                PROVE  ~Settled(n)
    OBVIOUS
  <2>1. n \in 1..Len(copies) /\ copies \in Seq(0..MaxCopies)
    BY <1>1 DEF IInv, TypeOK, Ids
  <2>2. copies[n] \in Int
    <3>1. copies[n] \in 0..MaxCopies
      BY <2>1, ElementOfSeq
    <3>. QED
      BY <3>1, OutboxAssumption
  <2>3. copies' # copies
    BY <2>2
  <2>4. CASE Add
    <3>1. 0 \in 0..MaxCopies
      BY OutboxAssumption
    <3>2. copies'[n] = copies[n]
      BY <2>1, <2>4, <3>1, AppendProperties DEF Add
    <3>. QED
      BY <2>2, <3>2
  <2>5. ASSUME NEW l \in Loops, NEW m \in Ids, Accept(l, m)
        PROVE  ~Settled(n)
    <3>1. m # n => copies'[n] = copies[n]
      BY <1>1, <2>5, CopyCounted DEF IInv, TypeOK, Accept
    <3>2. m = n
      BY <2>2, <3>1
    <3>. QED
      BY <1>1, <2>5, <3>2, WorkedRow DEF Accept
  <2>. QED
    BY <1>1, <2>3, <2>4, <2>5
       DEF Next, vars, LoopStep, ComesDue, Poll, MarkSent, MarkFailed, Die, OnReady,
           Restart
<1>. QED
  BY InitIInv, NextIInv, <1>1, PTL DEF Spec, SettledIsFinal

-----------------------------------------------------------------------------
(* Refinement of Delivery *)

StatusBar == [n \in Ids |-> StatusOf(notifications[n])]
AttemptsBar == [n \in Ids |-> notifications[n].retries]
QueueStatuses == {"scheduled", "waiting", "sent", "givenup"}

LEMMA BarType ==
    ASSUME IInv
    PROVE  /\ StatusBar \in Seq(QueueStatuses) /\ Len(StatusBar) = Len(notifications)
           /\ AttemptsBar \in Seq(Nat) /\ Len(AttemptsBar) = Len(notifications)
           /\ Len(notifications) \in Nat
<1>0. notifications \in Seq(Notification) /\ Len(notifications) \in Nat
  BY DEF IInv, TypeOK
<1>1. \A n \in Ids : notifications[n].retries \in Nat
  <2>1. \A n \in Ids : notifications[n] \in Notification
    BY <1>0, ElementOfSeq DEF Ids
  <2>. QED
    BY <2>1 DEF Notification
<1>2. \A n \in Ids : StatusOf(notifications[n]) \in QueueStatuses
  BY DEF StatusOf, QueueStatuses
<1>. QED
  BY <1>0, <1>1, <1>2 DEF StatusBar, AttemptsBar, Ids

\* The step of one row, as the abstract queue sees it.
LEMMA RowBar ==
    ASSUME IInv, NEW n \in Ids, NEW row \in Notification,
           notifications' = [notifications EXCEPT ![n] = row]
    PROVE  /\ StatusBar' = [StatusBar EXCEPT ![n] = StatusOf(row)]
           /\ AttemptsBar' = [AttemptsBar EXCEPT ![n] = row.retries]
<1>1. /\ Ids' = Ids
      /\ \A m \in Ids : notifications'[m] = IF m = n THEN row ELSE notifications[m]
  BY RowWritten DEF IInv, TypeOK
<1>2. StatusBar' = [m \in Ids |-> StatusOf(notifications'[m])]
  BY <1>1 DEF StatusBar
<1>3. \A m \in Ids : StatusOf(notifications'[m]) =
                     IF m = n THEN StatusOf(row) ELSE StatusOf(notifications[m])
  BY <1>1
<1>4. StatusBar' = [StatusBar EXCEPT ![n] = StatusOf(row)]
  BY <1>2, <1>3 DEF StatusBar
<1>5. AttemptsBar' = [m \in Ids |-> notifications'[m].retries]
  BY <1>1 DEF AttemptsBar
<1>7. \A m \in Ids : notifications'[m].retries =
                     IF m = n THEN row.retries ELSE notifications[m].retries
  BY <1>1
<1>6. AttemptsBar' = [AttemptsBar EXCEPT ![n] = row.retries]
  BY <1>5, <1>7 DEF AttemptsBar
<1>. QED
  BY <1>4, <1>6

LEMMA AddBar == ASSUME IInv, Add PROVE Queue!Submit
<1>1. PICK due \in BOOLEAN :
        notifications' = Append(notifications,
          [due |-> due, sent |-> FALSE, retries |-> 0, failed |-> FALSE])
  BY DEF Add
<1>. DEFINE row == [due |-> due, sent |-> FALSE, retries |-> 0, failed |-> FALSE]
            k == Len(notifications) + 1
            s == StatusOf(row)
<1>2. row \in Notification /\ row.retries = 0
  BY DEF Notification
<1>3. s \in {"scheduled", "waiting"}
  BY DEF StatusOf
<1>4. notifications \in Seq(Notification)
  BY DEF IInv, TypeOK
<1>. HIDE DEF row
<1>5. /\ Len(notifications') = k
      /\ \A m \in 1..Len(notifications) : notifications'[m] = notifications[m]
      /\ notifications'[k] = row
  BY <1>1, <1>2, <1>4, AppendProperties DEF row
<1>. HIDE DEF s
<1>6. StatusBar' = Append(StatusBar, s)
  <2>1. s \in QueueStatuses
    BY <1>3 DEF QueueStatuses
  <2>2. StatusBar \in Seq(QueueStatuses) /\ Len(StatusBar) = Len(notifications)
        /\ Len(notifications) \in Nat
    BY BarType
  <2>3. /\ Append(StatusBar, s) \in Seq(QueueStatuses)
        /\ Len(Append(StatusBar, s)) = k
        /\ \A m \in 1..Len(notifications) : Append(StatusBar, s)[m] = StatusBar[m]
        /\ Append(StatusBar, s)[k] = s
    BY <2>1, <2>2, AppendProperties
  <2>4. StatusBar' = [n \in 1..k |-> StatusOf(notifications'[n])]
    BY <1>5 DEF StatusBar, Ids
  <2>5. \A n \in 1..k : StatusOf(notifications'[n]) = Append(StatusBar, s)[n]
    <3>. SUFFICES ASSUME NEW n \in 1..k
                  PROVE  StatusOf(notifications'[n]) = Append(StatusBar, s)[n]
      OBVIOUS
    <3>1. CASE n = k
      BY <1>5, <2>3, <3>1 DEF s
    <3>2. CASE n \in 1..Len(notifications)
      BY <1>5, <2>3, <3>2 DEF StatusBar, Ids
    <3>. QED
      BY <2>2, <3>1, <3>2
  <2>6. \A n \in 1..k : Append(StatusBar, s)[n] \in QueueStatuses
    BY <2>3, ElementOfSeq
  <2>7. /\ StatusBar' \in Seq(QueueStatuses) /\ Len(StatusBar') = k
        /\ \A n \in 1..k : StatusBar'[n] = Append(StatusBar, s)[n]
    BY <2>2, <2>4, <2>5, <2>6
  <2>. QED
    BY <2>3, <2>7, SeqEqual
<1>7. AttemptsBar' = Append(AttemptsBar, 0)
  <2>1. 0 \in Nat
    OBVIOUS
  <2>2. AttemptsBar \in Seq(Nat) /\ Len(AttemptsBar) = Len(notifications)
        /\ Len(notifications) \in Nat
    BY BarType
  <2>3. /\ Append(AttemptsBar, 0) \in Seq(Nat)
        /\ Len(Append(AttemptsBar, 0)) = k
        /\ \A m \in 1..Len(notifications) : Append(AttemptsBar, 0)[m] = AttemptsBar[m]
        /\ Append(AttemptsBar, 0)[k] = 0
    BY <2>1, <2>2, AppendProperties
  <2>4. AttemptsBar' = [n \in 1..k |-> notifications'[n].retries]
    BY <1>5 DEF AttemptsBar, Ids
  <2>5. \A n \in 1..k : notifications'[n].retries = Append(AttemptsBar, 0)[n]
    <3>. SUFFICES ASSUME NEW n \in 1..k
                  PROVE  notifications'[n].retries = Append(AttemptsBar, 0)[n]
      OBVIOUS
    <3>1. CASE n = k
      BY <1>2, <1>5, <2>3, <3>1
    <3>2. CASE n \in 1..Len(notifications)
      BY <1>5, <2>3, <3>2 DEF AttemptsBar, Ids
    <3>. QED
      BY <2>2, <3>1, <3>2
  <2>6. \A n \in 1..k : Append(AttemptsBar, 0)[n] \in Nat
    BY <2>3, ElementOfSeq
  <2>7. /\ AttemptsBar' \in Seq(Nat) /\ Len(AttemptsBar') = k
        /\ \A n \in 1..k : AttemptsBar'[n] = Append(AttemptsBar, 0)[n]
    BY <2>2, <2>4, <2>5, <2>6
  <2>. QED
    BY <2>3, <2>7, SeqEqual
<1>8. Len(StatusBar) < MaxItems /\ copies' = Append(copies, 0)
  BY BarType DEF Add
<1>. QED
  BY <1>3, <1>6, <1>7, <1>8 DEF Queue!Submit, StatusBar, AttemptsBar

\* Nothing the abstract queue sees has changed.
LEMMA SameBar ==
    ASSUME UNCHANGED notifications
    PROVE  StatusBar' = StatusBar /\ AttemptsBar' = AttemptsBar
BY DEF StatusBar, AttemptsBar, Ids

LEMMA ComesDueBar ==
    ASSUME IInv, NEW n, ComesDue(n)
    PROVE  \/ n \in Ids /\ Queue!ComesDue(n)
           \/ StatusBar' = StatusBar /\ AttemptsBar' = AttemptsBar /\ copies' = copies
<1>. DEFINE row == [notifications[n] EXCEPT !.due = TRUE]
<1>1. /\ n \in Ids /\ ~notifications[n].due
      /\ notifications' = [notifications EXCEPT ![n] = row]
      /\ copies' = copies
  BY DEF ComesDue
<1>2. notifications[n] \in Notification
  BY <1>1, ElementOfSeq DEF IInv, TypeOK, Ids
<1>3. /\ row \in Notification /\ row.due
      /\ row.sent = notifications[n].sent /\ row.retries = notifications[n].retries
      /\ row.failed = notifications[n].failed
  BY <1>2 DEF Notification
<1>. HIDE DEF row
<1>4. /\ StatusBar' = [StatusBar EXCEPT ![n] = StatusOf(row)]
      /\ AttemptsBar' = [AttemptsBar EXCEPT ![n] = row.retries]
  BY <1>1, <1>3, RowBar
<1>5. AttemptsBar' = AttemptsBar
  BY <1>1, <1>3, <1>4 DEF AttemptsBar
<1>6. StatusBar[n] = StatusOf(notifications[n])
  BY <1>1 DEF StatusBar
<1>7. CASE Settled(n)
  <2>1. StatusOf(row) = StatusOf(notifications[n])
    BY <1>3, <1>7 DEF StatusOf, Settled
  <2>2. StatusBar' = StatusBar
    BY <1>1, <1>4, <2>1 DEF StatusBar
  <2>. QED
    BY <1>1, <1>5, <2>2
<1>8. CASE ~Settled(n)
  <2>1. StatusBar[n] = "scheduled" /\ StatusOf(row) = "waiting"
    BY <1>1, <1>3, <1>6, <1>8 DEF StatusOf, Settled
  <2>. QED
    BY <1>1, <1>4, <1>5, <2>1 DEF Queue!ComesDue, StatusBar, AttemptsBar
<1>. QED
  BY <1>7, <1>8

LEMMA AcceptBar ==
    ASSUME IInv, ~overlapped, NEW l \in Loops, NEW n \in Ids, Accept(l, n)
    PROVE  \/ Queue!Take(n)
           \/ StatusBar' = StatusBar /\ AttemptsBar' = AttemptsBar /\ copies' = copies
<1>1. /\ notifications' = notifications /\ Current(l, n)
      /\ copies' = [copies EXCEPT ![n] = IF @ < MaxCopies THEN @ + 1 ELSE @]
  BY DEF Accept
<1>2. StatusBar' = StatusBar /\ AttemptsBar' = AttemptsBar
  BY <1>1, SameBar
<1>3. StatusBar[n] = "waiting"
  BY <1>1, WorkedRow DEF StatusBar, StatusOf, Settled
<1>4. copies \in Seq(0..MaxCopies) /\ n \in 1..Len(copies)
  BY DEF IInv, TypeOK, Ids
<1>5. CASE copies[n] < MaxCopies
  <2>1. copies' = [copies EXCEPT ![n] = @ + 1]
    BY <1>1, <1>5
  <2>. QED
    BY <1>2, <1>3, <1>5, <2>1 DEF Queue!Take, StatusBar, AttemptsBar
<1>6. CASE ~(copies[n] < MaxCopies)
  <2>1. copies' = copies
    BY <1>1, <1>4, <1>6
  <2>. QED
    BY <1>2, <2>1
<1>. QED
  BY <1>5, <1>6

LEMMA MarkSentBar ==
    ASSUME IInv, ~overlapped, NEW l \in Loops, NEW n \in Ids, MarkSent(l, n)
    PROVE  Queue!Confirm(n)
<1>. DEFINE row == [notifications[n] EXCEPT !.sent = TRUE]
<1>1. /\ loop[l].phase = "accepted" /\ Current(l, n)
      /\ notifications' = [notifications EXCEPT ![n] = row]
      /\ copies' = copies
  BY DEF MarkSent
<1>2. notifications[n] \in Notification
  BY ElementOfSeq DEF IInv, TypeOK, Ids
<1>3. /\ row \in Notification /\ row.sent /\ row.retries = notifications[n].retries
  BY <1>2 DEF Notification
<1>. HIDE DEF row
<1>4. /\ StatusBar' = [StatusBar EXCEPT ![n] = "sent"]
      /\ AttemptsBar' = [AttemptsBar EXCEPT ![n] = row.retries]
  BY <1>1, <1>3, RowBar DEF StatusOf
<1>5. AttemptsBar' = AttemptsBar
  BY <1>3, <1>4 DEF AttemptsBar
<1>6. StatusBar[n] = "waiting"
  BY <1>1, WorkedRow DEF StatusBar, StatusOf, Settled
<1>7. copies[n] > 0
  BY <1>1 DEF IInv, AcceptedTaken
<1>. QED
  BY <1>1, <1>4, <1>5, <1>6, <1>7 DEF Queue!Confirm, StatusBar, AttemptsBar

LEMMA MarkFailedBar ==
    ASSUME IInv, ~overlapped, NEW l \in Loops, NEW n \in Ids, MarkFailed(l, n)
    PROVE  Queue!Fail(n)
<1>. DEFINE row == Fail(notifications[n])
            r == notifications[n].retries + 1
<1>1. /\ Current(l, n) /\ copies' = copies
      /\ notifications' = [notifications EXCEPT ![n] = row]
  BY DEF MarkFailed
<1>2. notifications[n] \in Notification
  BY ElementOfSeq DEF IInv, TypeOK, Ids
<1>3. /\ row \in Notification
      /\ row.due = notifications[n].due /\ row.sent = notifications[n].sent
      /\ row.retries = r
      /\ row.failed = (notifications[n].failed \/ r >= MaxRetries)
  BY <1>2, FailType
<1>4. notifications[n].due /\ ~notifications[n].sent /\ ~notifications[n].failed
  BY <1>1, WorkedRow DEF Settled
<1>5. r \in Nat /\ MaxRetries \in Nat
  BY <1>2, OutboxAssumption DEF Notification
<1>. HIDE DEF row
<1>6. /\ StatusBar' = [StatusBar EXCEPT ![n] = StatusOf(row)]
      /\ AttemptsBar' = [AttemptsBar EXCEPT ![n] = r]
  BY <1>1, <1>3, RowBar
<1>7. StatusBar[n] = "waiting" /\ AttemptsBar[n] = notifications[n].retries
  BY <1>4 DEF StatusBar, AttemptsBar, StatusOf
<1>8. AttemptsBar' = [AttemptsBar EXCEPT ![n] = @ + 1] /\ AttemptsBar'[n] = r
  <2>1. n \in DOMAIN AttemptsBar
    BY DEF AttemptsBar
  <2>. QED
    BY <1>6, <1>7, <2>1
<1>. HIDE DEF r
<1>9. CASE r < MaxRetries
  <2>1. ~(r >= MaxRetries)
    BY <1>5, <1>9
  <2>2. ~row.failed /\ ~row.sent /\ row.due
    BY <1>3, <1>4, <2>1, Zenon
  <2>3. StatusOf(row) = "waiting"
    BY <2>2 DEF StatusOf
  <2>4. StatusBar' = StatusBar
    BY <1>6, <1>7, <2>3 DEF StatusBar
  <2>. QED
    BY <1>1, <1>7, <1>8, <1>9, <2>4 DEF Queue!Fail, StatusBar, AttemptsBar
<1>10. CASE ~(r < MaxRetries)
  <2>1. r >= MaxRetries
    BY <1>5, <1>10
  <2>2. row.failed /\ ~row.sent
    BY <1>3, <1>4, <2>1, Zenon
  <2>3. StatusOf(row) = "givenup"
    BY <2>2 DEF StatusOf
  <2>4. StatusBar' = [StatusBar EXCEPT ![n] = "givenup"]
    BY <1>6, <2>3
  <2>. QED
    BY <1>1, <1>7, <1>8, <1>10, <2>4 DEF Queue!Fail, StatusBar, AttemptsBar
<1>. QED
  BY <1>9, <1>10

\* Every step of loops that do not overlap is a step of the queue, or none.
LEMMA StepBar ==
    ASSUME IInv, ~overlapped, [Next]_vars PROVE [Queue!Next]_(Queue!vars)
<1>. DEFINE Stutter == StatusBar' = StatusBar /\ AttemptsBar' = AttemptsBar
                       /\ copies' = copies
<1>1. Len(StatusBar) = Len(notifications)
  BY BarType
<1>2. Stutter => UNCHANGED Queue!vars
  BY DEF Queue!vars, StatusBar, AttemptsBar
<1>3. (\E n \in Ids : Queue!ComesDue(n) \/ Queue!Take(n) \/ Queue!Confirm(n)
                     \/ Queue!Fail(n)) => Queue!Next
  BY <1>1 DEF Queue!Next, Ids, StatusBar
<1>4. CASE Add
  BY <1>4, AddBar DEF Queue!Next
<1>5. ASSUME NEW n, ComesDue(n) PROVE Stutter \/ Queue!Next
  BY <1>3, <1>5, ComesDueBar
<1>6. ASSUME NEW l \in Loops, NEW n \in Ids,
             Accept(l, n) \/ MarkSent(l, n) \/ MarkFailed(l, n)
      PROVE  Stutter \/ Queue!Next
  BY <1>3, <1>6, AcceptBar, MarkSentBar, MarkFailedBar
<1>7. ASSUME NEW l \in Loops, Poll(l) \/ Die(l) \/ OnReady(l)
      PROVE  Stutter
  BY <1>7, SameBar DEF Poll, Die, OnReady
<1>8. CASE Restart \/ UNCHANGED vars
  BY <1>8, <1>2, SameBar DEF Restart, vars
<1>. QED
  BY <1>2, <1>4, <1>5, <1>6, <1>7, <1>8 DEF Next, LoopStep

LEMMA InitBar == Init => Queue!Init
<1>. SUFFICES ASSUME Init PROVE Queue!Init
  OBVIOUS
<1>1. Ids = {} /\ copies = <<>>
  BY DEF Init, Ids
<1>2. /\ [n \in Ids |-> StatusOf(notifications[n])] = <<>>
      /\ [n \in Ids |-> notifications[n].retries] = <<>>
  BY <1>1
<1>. QED
  BY <1>1, <1>2 DEF Queue!Init

\* As long as no two loops are alive together, the table and its loop are the
\* queue of module Delivery, for any limits and any number of restarts.
THEOREM OneLoopKeepsPromise == Spec /\ []~overlapped => KeepsPromise
BY InitIInv, NextIInv, InitBar, StepBar, PTL DEF Spec, KeepsPromise, Queue!Spec
-----------------------------------------------------------------------------
(* The copies *)

\* The rows some loop has sent and has not recorded yet.
InFlight == {n \in Ids : \E l \in Loops : loop[l].phase = "accepted" /\ Current(l, n)}

\* The account of the copies as the steps keep it: one loop at most is alive,
\* so the loops that wait to record a row are none or one.
Accounted ==
    ~overlapped =>
      \A n \in Ids :
        copies[n] <= notifications[n].retries + stops
                     + (IF notifications[n].sent THEN 1 ELSE 0)
                     + (IF n \in InFlight THEN 1 ELSE 0)

\* While loops do not overlap, counting the loops in flight is asking for one.
LEMMA InFlightCount ==
    ASSUME IInv, ~overlapped, NEW n \in Ids
    PROVE  Cardinality({l \in Loops : loop[l].phase = "accepted" /\ Current(l, n)})
             = IF n \in InFlight THEN 1 ELSE 0
<1>. DEFINE S == {l \in Loops : loop[l].phase = "accepted" /\ Current(l, n)}
<1>1. CASE n \in InFlight
  <2>1. PICK l \in Loops : loop[l].phase = "accepted" /\ Current(l, n)
    BY <1>1 DEF InFlight
  <2>2. \A k \in S : k \in Alive
    BY DEF Alive
  <2>3. S = {l}
    BY <2>1, <2>2 DEF IInv, OneLoop
  <2>. QED
    BY <1>1, <2>3, FS_Singleton
<1>2. CASE n \notin InFlight
  <2>1. S = {}
    BY <1>2 DEF InFlight
  <2>. QED
    BY <1>2, <2>1, FS_EmptySet
<1>. QED
  BY <1>1, <1>2

LEMMA AccountedMeans == IInv /\ Accounted => CopiesAccounted
BY InFlightCount DEF Accounted, CopiesAccounted

\* The numbers in the account are integers.
LEMMA AccountType ==
    ASSUME IInv, NEW n \in Ids
    PROVE  copies[n] \in Nat /\ notifications[n].retries \in Nat /\ stops \in Nat
<1>1. n \in 1..Len(copies) /\ n \in 1..Len(notifications)
  BY DEF IInv, TypeOK, Ids
<1>2. copies[n] \in 0..MaxCopies
  BY <1>1, ElementOfSeq DEF IInv, TypeOK
<1>3. notifications[n] \in Notification
  BY <1>1, ElementOfSeq DEF IInv, TypeOK
<1>. QED
  BY <1>2, <1>3, OutboxAssumption DEF IInv, TypeOK, Notification

LEMMA InitAccounted == Init => Accounted
BY DEF Init, Accounted, Ids

\* notif_add: the row that is added has no copy.
LEMMA AddAccounted == ASSUME IInv, Accounted, Add PROVE Accounted'
<1>1. PICK due \in BOOLEAN :
        notifications' = Append(notifications,
          [due |-> due, sent |-> FALSE, retries |-> 0, failed |-> FALSE])
  BY DEF Add
<1>. DEFINE row == [due |-> due, sent |-> FALSE, retries |-> 0, failed |-> FALSE]
            k == Len(notifications) + 1
<1>2. /\ copies' = Append(copies, 0)
      /\ loop' = loop /\ stops' = stops /\ overlapped' = overlapped
  BY DEF Add
<1>3. /\ notifications \in Seq(Notification) /\ copies \in Seq(0..MaxCopies)
      /\ Len(copies) = Len(notifications) /\ 0 \in 0..MaxCopies
  BY OutboxAssumption DEF IInv, TypeOK
<1>4. row \in Notification /\ row.retries = 0
  BY DEF Notification
<1>. HIDE DEF row
<1>5. /\ Len(notifications') = k
      /\ \A m \in Ids : notifications'[m] = notifications[m]
      /\ notifications'[k] = row
  BY <1>1, <1>3, <1>4, AppendProperties DEF Ids, row
<1>6. /\ \A m \in Ids : copies'[m] = copies[m]
      /\ copies'[k] = 0
  BY <1>2, <1>3, AppendProperties DEF Ids
<1>7. Ids' = Ids \cup {k}
  BY <1>3, <1>5 DEF Ids
<1>8. \A m \in Ids : m \in InFlight' <=> m \in InFlight
  BY <1>2, <1>7 DEF InFlight, Current
<1>9. stops \in Nat
  BY OutboxAssumption DEF IInv, TypeOK
<1>. HIDE DEF k
<1>10. copies'[k] <= notifications'[k].retries + stops'
                     + (IF notifications'[k].sent THEN 1 ELSE 0)
                     + (IF k \in InFlight' THEN 1 ELSE 0)
  <2>1. copies'[k] = 0 /\ notifications'[k].retries = 0 /\ stops' \in Nat
    BY <1>2, <1>4, <1>5, <1>6, <1>9
  <2>. DEFINE s == IF notifications'[k].sent THEN 1 ELSE 0
              i == IF k \in InFlight' THEN 1 ELSE 0
  <2>2. s \in Nat /\ i \in Nat
    OBVIOUS
  <2>. HIDE DEF s, i
  <2>3. copies'[k] <= notifications'[k].retries + stops' + s + i
    BY <2>1, <2>2
  <2>. QED
    BY <2>3 DEF s, i
<1>11. ASSUME NEW m \in Ids, ~overlapped
       PROVE  copies'[m] <= notifications'[m].retries + stops'
                     + (IF notifications'[m].sent THEN 1 ELSE 0)
                     + (IF m \in InFlight' THEN 1 ELSE 0)
  BY <1>2, <1>5, <1>6, <1>8, <1>11, Zenon DEF Accounted
<1>. QED
  BY <1>2, <1>7, <1>10, <1>11 DEF Accounted

\* A row comes due, or a loop reads its next batch: no number of the account
\* changes, and no loop comes to wait for a record.
LEMMA ComesDueAccounted ==
    ASSUME IInv, Accounted, NEW n, ComesDue(n) PROVE Accounted'
<1>. DEFINE row == [notifications[n] EXCEPT !.due = TRUE]
<1>1. /\ n \in Ids /\ notifications' = [notifications EXCEPT ![n] = row]
      /\ copies' = copies /\ loop' = loop /\ stops' = stops
      /\ overlapped' = overlapped
  BY DEF ComesDue
<1>2. notifications \in Seq(Notification) /\ notifications[n] \in Notification
  BY <1>1, ElementOfSeq DEF IInv, TypeOK, Ids
<1>3. /\ row \in Notification
      /\ row.sent = notifications[n].sent /\ row.retries = notifications[n].retries
  BY <1>2 DEF Notification
<1>. HIDE DEF row
<1>4. /\ Ids' = Ids
      /\ \A m \in Ids : notifications'[m] = IF m = n THEN row ELSE notifications[m]
  BY <1>1, <1>2, <1>3, RowWritten
<1>5. \A m \in Ids : /\ notifications'[m].sent = notifications[m].sent
                     /\ notifications'[m].retries = notifications[m].retries
  BY <1>3, <1>4
<1>6. \A m \in Ids : m \in InFlight' <=> m \in InFlight
  BY <1>1, <1>4 DEF InFlight, Current
<1>. QED
  BY <1>1, <1>4, <1>5, <1>6 DEF Accounted

LEMMA PollAccounted == ASSUME IInv, Accounted, NEW l \in Loops, Poll(l) PROVE Accounted'
<1>1. /\ loop[l].phase = "polling"
      /\ loop' = [loop EXCEPT ![l] = [phase |-> "sending", batch |-> Pending]]
      /\ notifications' = notifications /\ copies' = copies /\ stops' = stops
      /\ overlapped' = overlapped
  BY DEF Poll
<1>2. loop \in [Loops -> Loop] /\ Ids' = Ids
  BY <1>1 DEF IInv, TypeOK, Loop, Ids
<1>3. /\ loop'[l].phase = "sending"
      /\ \A k \in Loops : k # l => loop'[k] = loop[k]
  BY <1>1, <1>2
<1>4. \A m \in Ids : m \in InFlight' <=> m \in InFlight
  BY <1>1, <1>2, <1>3 DEF InFlight, Current
<1>. QED
  BY <1>1, <1>2, <1>4 DEF Accounted

\* The platform takes the message: the copy is counted, and the loop waits to
\* record it; it was not waiting before.
LEMMA AcceptAccounted ==
    ASSUME IInv, Accounted, NEW l \in Loops, NEW n \in Ids, Accept(l, n)
    PROVE  Accounted'
<1>. DEFINE c == IF copies[n] < MaxCopies THEN copies[n] + 1 ELSE copies[n]
<1>1. /\ loop[l].phase = "sending" /\ Current(l, n)
      /\ loop' = [loop EXCEPT ![l] = [loop[l] EXCEPT !.phase = "accepted"]]
      /\ copies' = [copies EXCEPT ![n] = c]
      /\ notifications' = notifications /\ stops' = stops
      /\ overlapped' = overlapped
  BY DEF Accept
<1>2. loop \in [Loops -> Loop] /\ Ids' = Ids
  BY <1>1 DEF IInv, TypeOK, Loop, Ids
<1>3. /\ loop'[l].phase = "accepted" /\ loop'[l].batch = loop[l].batch
      /\ \A k \in Loops : k # l => loop'[k] = loop[k]
  <2>1. loop[l] \in Loop
    BY <1>2
  <2>. QED
    BY <1>1, <1>2, <2>1 DEF Loop
<1>4. n \in InFlight'
  BY <1>1, <1>2, <1>3 DEF InFlight, Current
<1>5. \A m \in Ids : m \in InFlight => m \in InFlight'
  BY <1>1, <1>2, <1>3 DEF InFlight, Current
<1>6. ~overlapped => n \notin InFlight
  <2>1. ASSUME ~overlapped, NEW k \in Loops, loop[k].phase = "accepted"
        PROVE  FALSE
    BY <1>1, <2>1 DEF IInv, OneLoop, Alive
  <2>. QED
    BY <2>1 DEF InFlight
<1>7. copies[n] \in Nat /\ c <= copies[n] + 1 /\ c \in Nat
  BY AccountType, OutboxAssumption
<1>. HIDE DEF c
<1>8. \A m \in Ids : copies'[m] = IF m = n THEN c ELSE copies[m]
  BY <1>1 DEF IInv, TypeOK, Ids
<1>9. ASSUME NEW m \in Ids, ~overlapped
      PROVE  copies'[m] <= notifications[m].retries + stops
                           + (IF notifications[m].sent THEN 1 ELSE 0)
                           + (IF m \in InFlight' THEN 1 ELSE 0)
  <2>. DEFINE a == notifications[m].retries + stops
                   + (IF notifications[m].sent THEN 1 ELSE 0)
  <2>1. copies[m] <= a + (IF m \in InFlight THEN 1 ELSE 0)
    BY <1>9 DEF Accounted
  <2>2. copies[m] \in Nat /\ a \in Nat
    BY AccountType
  <2>. HIDE DEF a
  <2>3. copies'[m] <= a + (IF m \in InFlight' THEN 1 ELSE 0)
    <3>1. CASE m = n
      <4>1. copies[n] <= a
        BY <1>6, <1>9, <2>1, <2>2, <3>1
      <4>2. copies'[m] <= a + 1
        BY <1>7, <1>8, <2>2, <3>1, <4>1
      <4>. QED
        BY <1>4, <3>1, <4>2
    <3>2. CASE m # n
      <4>1. copies'[m] = copies[m]
        BY <1>8, <3>2
      <4>. QED
        BY <1>5, <2>1, <2>2, <4>1
    <3>. QED
      BY <3>1, <3>2
  <2>. QED
    BY <2>3 DEF a
<1>. QED
  BY <1>1, <1>2, <1>9 DEF Accounted

\* The row at hand is recorded: the loop waits no more, and the account has the
\* mark, or one more attempt, instead.
LEMMA RecordedAccounted ==
    ASSUME IInv, Accounted, NEW l \in Loops, NEW n \in Ids, NEW row \in Notification,
           Current(l, n), NextRow(l, n),
           notifications' = [notifications EXCEPT ![n] = row],
           \/ row.sent /\ ~notifications[n].sent
                       /\ row.retries = notifications[n].retries
           \/ row.sent = notifications[n].sent
                       /\ row.retries = notifications[n].retries + 1,
           UNCHANGED <<copies, stops, overlapped>>
    PROVE  Accounted'
<1>1. loop \in [Loops -> Loop] /\ notifications \in Seq(Notification)
  BY DEF IInv, TypeOK, Loop
<1>2. /\ Ids' = Ids
      /\ \A m \in Ids : notifications'[m] = IF m = n THEN row ELSE notifications[m]
  BY <1>1, RowWritten
<1>3. \A k \in Loops : k # l => loop'[k] = loop[k]
  BY <1>1 DEF NextRow
<1>4. ASSUME NEW m \in Ids, ~overlapped, m # n
      PROVE  m \notin InFlight
  <2>1. ASSUME NEW k \in Loops, loop[k].phase = "accepted", Current(k, m)
        PROVE  FALSE
    <3>1. k \in Alive /\ l \in Alive
      BY <2>1, BusyAlive DEF Alive, Current
    <3>2. k = l
      BY <1>4, <3>1 DEF IInv, OneLoop
    <3>3. m <= n /\ n <= m /\ m \in Nat /\ n \in Nat
      BY <2>1, <3>2 DEF Current, Ids
    <3>. QED
      BY <1>4, <3>3
  <2>. QED
    BY <2>1 DEF InFlight
<1>5. ASSUME NEW m \in Ids, ~overlapped
      PROVE  copies'[m] <= notifications'[m].retries + stops'
                           + (IF notifications'[m].sent THEN 1 ELSE 0)
                           + (IF m \in InFlight' THEN 1 ELSE 0)
  <2>1. copies[m] <= notifications[m].retries + stops
                     + (IF notifications[m].sent THEN 1 ELSE 0)
                     + (IF m \in InFlight THEN 1 ELSE 0)
    BY <1>5 DEF Accounted
  <2>2. /\ copies[m] \in Nat /\ notifications[m].retries \in Nat /\ stops \in Nat
        /\ copies' = copies /\ stops' = stops
    BY AccountType
  <2>3. CASE m = n
    <3>1. notifications'[m] = row
      BY <1>2, <2>3
    <3>2. CASE row.sent /\ ~notifications[n].sent
                        /\ row.retries = notifications[n].retries
      BY <2>1, <2>2, <2>3, <3>1, <3>2
    <3>3. CASE row.sent = notifications[n].sent
                        /\ row.retries = notifications[n].retries + 1
      BY <2>1, <2>2, <2>3, <3>1, <3>3
    <3>. QED
      BY <3>2, <3>3
  <2>4. CASE m # n
    <3>1. notifications'[m] = notifications[m] /\ m \notin InFlight
      BY <1>2, <1>4, <1>5, <2>4
    <3>. QED
      BY <2>1, <2>2, <3>1
  <2>. QED
    BY <2>3, <2>4
<1>. QED
  BY <1>2, <1>5 DEF Accounted

LEMMA MarkSentAccounted ==
    ASSUME IInv, Accounted, NEW l \in Loops, NEW n \in Ids, MarkSent(l, n)
    PROVE  Accounted'
<1>. DEFINE row == [notifications[n] EXCEPT !.sent = TRUE]
<1>1. /\ Current(l, n) /\ NextRow(l, n)
      /\ notifications' = [notifications EXCEPT ![n] = row]
      /\ UNCHANGED <<copies, stops, overlapped>>
  BY DEF MarkSent
<1>2. notifications[n] \in Notification
  BY ElementOfSeq DEF IInv, TypeOK, Ids
<1>3. row \in Notification /\ row.sent /\ row.retries = notifications[n].retries
  BY <1>2 DEF Notification
<1>. HIDE DEF row
<1>4. CASE overlapped
  BY <1>1, <1>4 DEF Accounted
<1>5. CASE ~overlapped
  <2>1. ~notifications[n].sent
    BY <1>1, <1>5, WorkedRow DEF Settled
  <2>. QED
    BY <1>1, <1>3, <2>1, RecordedAccounted
<1>. QED
  BY <1>4, <1>5

LEMMA MarkFailedAccounted ==
    ASSUME IInv, Accounted, NEW l \in Loops, NEW n \in Ids, MarkFailed(l, n)
    PROVE  Accounted'
<1>. DEFINE row == Fail(notifications[n])
<1>1. /\ Current(l, n) /\ NextRow(l, n)
      /\ notifications' = [notifications EXCEPT ![n] = row]
      /\ UNCHANGED <<copies, stops, overlapped>>
  BY DEF MarkFailed
<1>2. notifications[n] \in Notification
  BY ElementOfSeq DEF IInv, TypeOK, Ids
<1>3. /\ row \in Notification /\ row.sent = notifications[n].sent
      /\ row.retries = notifications[n].retries + 1
  BY <1>2, FailType
<1>. HIDE DEF row
<1>. QED
  BY <1>1, <1>3, RecordedAccounted

\* The process or a loop stops: what was in flight is one stop more.
LEMMA StopAccounted ==
    ASSUME IInv, Accounted, UNCHANGED <<notifications, copies, overlapped>>,
           stops' = stops + 1
    PROVE  Accounted'
<1>1. Ids' = Ids
  BY DEF Ids
<1>2. ASSUME NEW m \in Ids, ~overlapped
      PROVE  copies[m] <= notifications[m].retries + stops'
                          + (IF notifications[m].sent THEN 1 ELSE 0)
                          + (IF m \in InFlight' THEN 1 ELSE 0)
  <2>1. copies[m] <= notifications[m].retries + stops
                     + (IF notifications[m].sent THEN 1 ELSE 0)
                     + (IF m \in InFlight THEN 1 ELSE 0)
    BY <1>2 DEF Accounted
  <2>2. copies[m] \in Nat /\ notifications[m].retries \in Nat /\ stops \in Nat
    BY AccountType
  <2>. QED
    BY <2>1, <2>2
<1>. QED
  BY <1>1, <1>2 DEF Accounted

\* A loop starts where none is alive, so nothing is in flight.
LEMMA OnReadyAccounted ==
    ASSUME IInv, Accounted, NEW l \in Loops, OnReady(l) PROVE Accounted'
<1>1. /\ loop[l].phase = "off" /\ loop' = [loop EXCEPT ![l] = Polling]
      /\ notifications' = notifications /\ copies' = copies /\ stops' = stops
      /\ overlapped' = (overlapped \/ Alive # {})
  BY DEF OnReady
<1>2. loop \in [Loops -> Loop] /\ Ids' = Ids
  BY <1>1 DEF IInv, TypeOK, Loop, Ids
<1>3. \A k \in Loops : k # l => loop'[k] = loop[k]
  BY <1>1, <1>2
<1>4. \A m \in Ids : m \in InFlight => m \in InFlight'
  BY <1>1, <1>2, <1>3 DEF InFlight, Current
<1>5. ~overlapped' => ~overlapped
  BY <1>1, Zenon
<1>6. ASSUME NEW m \in Ids, ~overlapped
      PROVE  copies[m] <= notifications[m].retries + stops
                          + (IF notifications[m].sent THEN 1 ELSE 0)
                          + (IF m \in InFlight' THEN 1 ELSE 0)
  <2>1. copies[m] <= notifications[m].retries + stops
                     + (IF notifications[m].sent THEN 1 ELSE 0)
                     + (IF m \in InFlight THEN 1 ELSE 0)
    BY <1>6 DEF Accounted
  <2>2. copies[m] \in Nat /\ notifications[m].retries \in Nat /\ stops \in Nat
    BY AccountType
  <2>. QED
    BY <1>4, <2>1, <2>2
<1>. QED
  BY <1>1, <1>2, <1>5, <1>6 DEF Accounted

\* Every step keeps the account.
LEMMA NextAccounted == IInv /\ Accounted /\ [Next]_vars => Accounted'
<1>. SUFFICES ASSUME IInv, Accounted, [Next]_vars PROVE Accounted'
  OBVIOUS
<1>1. CASE UNCHANGED vars
  BY <1>1 DEF vars, Accounted, Ids, InFlight, Current
<1>2. ASSUME NEW l \in Loops, LoopStep(l) PROVE Accounted'
  BY <1>2, PollAccounted, AcceptAccounted, MarkSentAccounted, MarkFailedAccounted
     DEF LoopStep
<1>3. ASSUME NEW l \in Loops, Die(l) PROVE Accounted'
  BY <1>3, StopAccounted DEF Die
<1>4. CASE Restart
  BY <1>4, StopAccounted DEF Restart
<1>. QED
  BY <1>1, <1>2, <1>3, <1>4, AddAccounted, ComesDueAccounted, OnReadyAccounted DEF Next

\* Whatever stops the loop and however often, loops that do not overlap send a
\* message no oftener than its attempts, its mark and the stops account for.
THEOREM CopiesAreAccounted == Spec => []CopiesAccounted
<1>1. IInv /\ IInv' /\ Accounted /\ [Next]_vars => Accounted'
  BY NextAccounted
<1>. QED
  BY InitIInv, NextIInv, InitAccounted, <1>1, AccountedMeans, PTL DEF Spec
=============================================================================
