--------------------------- MODULE BackgroundProofs ----------------------------
(***************************************************************************)
(* Proofs about what goes on beside the chat (MCBackground): the           *)
(* connections of the PostgreSQL layer (module PgPool) and deep sleep      *)
(* (module Sleep), for any number of threads, connections, operations,     *)
(* messages and nights; and, with the invariants of PromiseProofs, that    *)
(* the states of every component have their types.                         *)
(***************************************************************************)
EXTENDS PromiseProofs

-----------------------------------------------------------------------------
(* Connections and transactions *)

Operation == [kind : {"write", "transaction"}, row : Rows,
              result : {"running", "returned", "failed"}]
Connection == [held : BOOLEAN, broken : BOOLEAN, open : SUBSET (Nat \X {1, 2})]
Worker == [phase : {"idle", "working"}, op : Nat, part : 1..3, nested : BOOLEAN]

\* The operation of a thread that works on one: a write, a transaction that
\* will commit, or one inside a counter that another transaction left behind.
Writes(t) == Pool!Working(t) /\ Pool!Op(t).kind = "write"
Outer(t) == Pool!Working(t) /\ Pool!Op(t).kind = "transaction" /\ ~thread[t].nested
Inner(t) == Pool!Working(t) /\ Pool!Op(t).kind = "transaction" /\ thread[t].nested

\* The statements of an operation before a part of it.
Before(op, part) == {<<op, p>> : p \in {q \in {1, 2} : q < part}}

-----------------------------------------------------------------------------
(* The invariant *)

PoolTyped ==
    /\ depth \in Nat
    /\ conn \in [Threads -> Connection]
    /\ thread \in [Threads -> Worker]
    /\ ops \in Seq(Operation)
    /\ jammed \in BOOLEAN

\* Only the owner of the lock works, and its operation is running.
LockHeld ==
    \A t \in Threads : Pool!Working(t) =>
      /\ owner = t
      /\ thread[t].op \in 1..Len(ops)
      /\ Pool!Op(t).result = "running"

\* The counter counts the transaction that is running, and one that was refused
\* a connection and left it behind.
DepthCounts ==
    /\ \A t \in Threads :
         /\ Outer(t) => depth = 1
         /\ Inner(t) => depth = 2 /\ jammed
         /\ Writes(t) => depth = 0 \/ (depth = 1 /\ jammed)
    /\ (\A t \in Threads : ~Pool!Working(t)) => depth = 0 \/ (depth = 1 /\ jammed)

\* Statements, open or committed, are of operations that were started.
Known ==
    /\ \A t \in Threads : \A i \in Nat, p \in {1, 2} :
         <<i, p>> \in conn[t].open => i \in 1..Len(ops)
    /\ \A i \in Nat, p \in {1, 2} : <<i, p>> \in db => i \in 1..Len(ops)

\* An outer transaction has its own statements open and no others. Those of
\* other transactions are open only while the counter that was left behind
\* keeps everything from being committed.
OpenTransactions ==
    /\ \A t \in Threads : Outer(t) => conn[t].open = Before(thread[t].op, thread[t].part)
    /\ (depth = 0 \/ \E u \in Threads : Outer(u)) =>
         \A t \in Threads : ~Outer(t) =>
           \A i \in 1..Len(ops), p \in {1, 2} :
             <<i, p>> \in conn[t].open => ops[i].kind = "write"

\* A transaction is committed whole, and not before it returns.
Whole ==
    \A i \in 1..Len(ops) : ops[i].kind = "transaction" =>
      /\ <<i, 1>> \in db <=> <<i, 2>> \in db
      /\ <<i, 1>> \in db => ops[i].result = "returned"

\* Unless a transaction was refused a connection, a write has its own statements
\* open until it commits them, and an idle thread has none.
OpenWrites ==
    ~jammed =>
      \A t \in Threads :
        /\ Writes(t) /\ thread[t].part < 3 =>
             conn[t].open = Before(thread[t].op, thread[t].part)
        /\ Writes(t) /\ thread[t].part = 3 =>
             /\ conn[t].open = {}
             /\ <<thread[t].op, 1>> \in db /\ <<thread[t].op, 2>> \in db
        /\ ~Pool!Working(t) => conn[t].open = {}

Returned ==
    ~jammed =>
      \A i \in 1..Len(ops) : ops[i].result = "returned" => <<i, 1>> \in db /\ <<i, 2>> \in db

PoolInv == /\ PoolTyped /\ LockHeld /\ DepthCounts /\ Known
           /\ OpenTransactions /\ Whole /\ OpenWrites /\ Returned

-----------------------------------------------------------------------------
(* Lemmas about the parts of a step *)

LEMMA ThreadsAreSomeone == Pool!NoOne \notin Threads
BY ConstantsAssumption DEF Pool!OwnerAssumption

LEMMA BeforeSteps ==
    ASSUME NEW op
    PROVE  /\ Before(op, 1) = {}
           /\ Before(op, 2) = {<<op, 1>>}
           /\ Before(op, 3) = {<<op, 1>>, <<op, 2>>}
<1>1. /\ {q \in {1, 2} : q < 1} = {}
      /\ {q \in {1, 2} : q < 2} = {1}
      /\ {q \in {1, 2} : q < 3} = {1, 2}
  OBVIOUS
<1>. QED
  BY <1>1 DEF Before

\* While t has the lock, or nobody has, the other threads are idle.
LEMMA OthersIdle ==
    ASSUME LockHeld, NEW t \in Threads, owner = t \/ owner = Pool!NoOne
    PROVE  \A u \in Threads \ {t} : ~Pool!Working(u)
BY ThreadsAreSomeone DEF LockHeld

\* A new operation is the last.
LEMMA OpAdded ==
    ASSUME ops \in Seq(Operation), NEW kind \in {"write", "transaction"}, NEW row \in Rows,
           NEW result \in {"running", "failed"}, Pool!NewOp(kind, row, result)
    PROVE  /\ ops' \in Seq(Operation)
           /\ Len(ops) \in Nat /\ Len(ops') = Len(ops) + 1
           /\ \A i \in 1..Len(ops) : ops'[i] = ops[i]
           /\ ops'[Len(ops) + 1].kind = kind /\ ops'[Len(ops) + 1].result = result
<1>. DEFINE o == [kind |-> kind, row |-> row, result |-> result]
<1>1. o \in Operation
  BY DEF Operation
<1>2. ops' = Append(ops, o)
  BY DEF Pool!NewOp
<1>3. o.kind = kind /\ o.result = result
  OBVIOUS
<1>. HIDE DEF o
<1>. QED
  BY <1>1, <1>2, <1>3, AppendProperties

\* An operation ends: it has its result, the others stay.
LEMMA OpEnded ==
    ASSUME ops \in Seq(Operation), NEW i \in 1..Len(ops), NEW result \in {"returned", "failed"},
           ops' = [ops EXCEPT ![i].result = result]
    PROVE  /\ ops' \in Seq(Operation)
           /\ Len(ops) \in Nat /\ Len(ops') = Len(ops)
           /\ \A j \in 1..Len(ops) : /\ ops'[j].kind = ops[j].kind
                                     /\ ops'[j].result = IF j = i THEN result ELSE ops[j].result
<1>. DEFINE o == [ops[i] EXCEPT !.result = result]
<1>1. ops[i] \in Operation
  BY ElementOfSeq
<1>2. o \in Operation /\ o.kind = ops[i].kind /\ o.result = result
  BY <1>1 DEF Operation
<1>3. ops' = [ops EXCEPT ![i] = o]
  OBVIOUS
<1>. HIDE DEF o
<1>4. /\ ops' \in Seq(Operation) /\ Len(ops') = Len(ops)
      /\ \A j \in 1..Len(ops) : ops'[j] = IF j = i THEN o ELSE ops[j]
  BY <1>1, <1>2, <1>3, ExceptSeq
<1>. QED
  BY <1>2, <1>4

-----------------------------------------------------------------------------
(* The steps *)

LEMMA InitPool == Pool!Init => PoolInv
<1>. SUFFICES ASSUME Pool!Init PROVE PoolInv
  OBVIOUS
<1>1. /\ depth = 0 /\ ops = <<>> /\ db = {} /\ jammed = FALSE
      /\ \A t \in Threads : conn[t].open = {} /\ thread[t].phase = "idle"
  BY DEF Pool!Init, Pool!NoConn, Pool!Idle
<1>2. conn \in [Threads -> Connection] /\ thread \in [Threads -> Worker]
  BY DEF Pool!Init, Pool!NoConn, Pool!Idle, Connection, Worker
<1>3. ops \in Seq(Operation) /\ 1..Len(ops) = {}
  BY <1>1
<1>4. PoolTyped
  BY <1>1, <1>2, <1>3 DEF PoolTyped
<1>. QED
  BY <1>1, <1>3, <1>4
     DEF PoolInv, LockHeld, DepthCounts, Known, OpenTransactions, Whole, OpenWrites, Returned,
         Outer, Inner, Writes, Pool!Working

\* A read takes a connection; one that fails rolls back what was open on it.
LEMMA ReadPool == ASSUME PoolInv, NEW t \in Threads, Pool!Read(t) PROVE PoolInv'
<1>1. /\ owner = Pool!NoOne /\ UNCHANGED <<owner, depth, thread, ops, db, jammed>>
  BY DEF Pool!Read
<1>2. \A u \in Threads : ~Pool!Working(u)
  BY <1>1, OthersIdle DEF PoolInv, Pool!Read, Pool!Working
<1>3. PICK fails \in {conn[t].broken, TRUE} :
         conn' = [conn EXCEPT ![t].held = TRUE, ![t].broken = fails,
                              ![t].open = IF fails THEN {} ELSE @]
  BY DEF Pool!Read
<1>. DEFINE c == [conn[t] EXCEPT !.held = TRUE, !.broken = fails,
                                 !.open = IF fails THEN {} ELSE @]
<1>4. conn[t] \in Connection /\ conn \in [Threads -> Connection]
  BY DEF PoolInv, PoolTyped
<1>5. c \in Connection /\ c.open \subseteq conn[t].open
  BY <1>4 DEF Connection
<1>6. conn' = [conn EXCEPT ![t] = c]
  BY <1>3, <1>4 DEF Connection
<1>. HIDE DEF c
<1>7. conn' \in [Threads -> Connection] /\ \A u \in Threads : conn'[u].open \subseteq conn[u].open
  BY <1>4, <1>5, <1>6
<1>8. PoolTyped'
  BY <1>1, <1>7 DEF PoolInv, PoolTyped
<1>9. \A u \in Threads : ~Outer(u) /\ ~Inner(u) /\ ~Writes(u)
  BY <1>2 DEF Outer, Inner, Writes
<1>10. LockHeld' /\ DepthCounts' /\ Whole' /\ Returned'
  BY <1>1, <1>2 DEF PoolInv, LockHeld, DepthCounts, Whole, Returned, Pool!Working, Outer, Inner,
                    Writes
<1>11. Known'
  BY <1>1, <1>7 DEF PoolInv, Known
<1>12. OpenTransactions'
  BY <1>1, <1>2, <1>7 DEF PoolInv, OpenTransactions, Outer, Pool!Working
<1>13. OpenWrites'
  BY <1>1, <1>2, <1>7 DEF PoolInv, OpenWrites, Writes, Pool!Working
<1>. QED
  BY <1>8, <1>10, <1>11, <1>12, <1>13 DEF PoolInv

\* No statement of an operation that has not begun is open or committed.
LEMMA NotBegun ==
    ASSUME Known, Len(ops) \in Nat
    PROVE  \A p \in {1, 2} : /\ <<Len(ops) + 1, p>> \notin db
                            /\ \A u \in Threads : <<Len(ops) + 1, p>> \notin conn[u].open
<1>. DEFINE k == Len(ops) + 1
<1>1. k \in Nat /\ k \notin 1..Len(ops)
  OBVIOUS
<1>. HIDE DEF k
<1>2. \A p \in {1, 2} : <<k, p>> \notin db /\ \A u \in Threads : <<k, p>> \notin conn[u].open
  BY <1>1 DEF Known
<1>. QED
  BY <1>2 DEF k

\* A thread begins to work on a new operation.
LEMMA WorkPool ==
    ASSUME PoolInv, NEW t \in Threads, NEW nested \in BOOLEAN,
           Pool!MayStart(t), Pool!Work(t, nested)
    PROVE  /\ thread' \in [Threads -> Worker]
           /\ thread'[t].phase = "working" /\ thread'[t].op = Len(ops) + 1
           /\ thread'[t].part = 1 /\ thread'[t].nested = nested
           /\ \A u \in Threads \ {t} : thread'[u] = thread[u]
           /\ \A u \in Threads : thread[u].phase # "working"
           /\ owner' = t
<1>1. ops \in Seq(Operation) /\ thread \in [Threads -> Worker]
  BY DEF PoolInv, PoolTyped
<1>2. Len(ops) \in Nat
  BY <1>1, LenProperties
<1>3. \A u \in Threads : thread[u].phase # "working"
  BY OthersIdle DEF Pool!MayStart, PoolInv, Pool!Working
<1>. DEFINE w == [phase |-> "working", op |-> Len(ops) + 1, part |-> 1, nested |-> nested]
<1>4. w \in Worker /\ w.phase = "working" /\ w.op = Len(ops) + 1 /\ w.part = 1 /\ w.nested = nested
  BY <1>2 DEF Worker
<1>5. thread' = [thread EXCEPT ![t] = w] /\ owner' = t
  BY DEF Pool!Work
<1>. HIDE DEF w
<1>. QED
  BY <1>1, <1>3, <1>4, <1>5

\* A thread that cannot get a connection raises; its operation has failed.
LEMMA RefusedPool ==
    ASSUME PoolInv, NEW t \in Threads, NEW kind \in {"write", "transaction"}, NEW row \in Rows,
           Pool!MayStart(t), Pool!NewOp(kind, row, "failed"),
           UNCHANGED <<owner, thread, conn, db>>,
           \/ depth' = depth /\ jammed' = jammed
           \/ depth' = 1 /\ jammed' = TRUE /\ depth = 0
    PROVE  PoolInv'
<1>1. /\ ops' \in Seq(Operation)
      /\ Len(ops) \in Nat /\ Len(ops') = Len(ops) + 1
      /\ \A i \in 1..Len(ops) : ops'[i] = ops[i]
      /\ ops'[Len(ops) + 1].kind = kind /\ ops'[Len(ops) + 1].result = "failed"
  BY OpAdded DEF PoolInv, PoolTyped
<1>2. \A i \in 1..Len(ops') : i \in 1..Len(ops) \/ i = Len(ops) + 1
  BY <1>1
<1>3. \A u \in Threads : ~Pool!Working(u)
  BY OthersIdle DEF Pool!MayStart, PoolInv, Pool!Working
<1>4. \A p \in {1, 2} : <<Len(ops) + 1, p>> \notin db
  BY <1>1, NotBegun DEF PoolInv
<1>5. \A u \in Threads, p \in {1, 2} : <<Len(ops) + 1, p>> \notin conn[u].open
  BY <1>1, NotBegun DEF PoolInv
<1>6. PoolTyped'
  <2>1. depth' \in Nat
    BY DEF PoolInv, PoolTyped
  <2>2. jammed' \in BOOLEAN
    BY Zenon DEF PoolInv, PoolTyped
  <2>. QED
    BY <1>1, <2>1, <2>2, Zenon DEF PoolInv, PoolTyped
<1>7. LockHeld' /\ DepthCounts'
  BY <1>3 DEF PoolInv, LockHeld, DepthCounts, Pool!Working, Outer, Inner, Writes
<1>8. Known'
  BY <1>1 DEF PoolInv, Known
<1>9. OpenTransactions'
  <2>1. \A u \in Threads : ~Outer(u)'
    BY <1>3 DEF Outer, Pool!Working
  <2>2. ASSUME depth' = 0, NEW u \in Threads, NEW i \in 1..Len(ops'), NEW p \in {1, 2},
               <<i, p>> \in conn[u].open
        PROVE  ops'[i].kind = "write"
    <3>1. i \in 1..Len(ops)
      BY <1>2, <1>5, <2>2
    <3>2. depth = 0 /\ ~Outer(u)
      BY <1>3, <2>2 DEF Outer
    <3>. QED
      BY <1>1, <2>2, <3>1, <3>2 DEF PoolInv, OpenTransactions
  <2>. QED
    BY <2>1, <2>2 DEF OpenTransactions
<1>10. Whole'
  BY <1>1, <1>2, <1>4 DEF PoolInv, Whole
<1>11. OpenWrites' /\ Returned'
  BY <1>1, <1>2, <1>3 DEF PoolInv, OpenWrites, Returned, Writes, Pool!Working
<1>. QED
  BY <1>6, <1>7, <1>8, <1>9, <1>10, <1>11 DEF PoolInv

\* A thread starts an operation; nothing is committed.
LEMMA StartedPool ==
    ASSUME PoolInv, NEW t \in Threads, NEW kind \in {"write", "transaction"}, NEW row \in Rows,
           NEW nested \in BOOLEAN,
           Pool!MayStart(t), Pool!NewOp(kind, row, "running"), Pool!Work(t, nested),
           UNCHANGED <<db, jammed>>,
           conn' \in [Threads -> Connection],
           \A u \in Threads \ {t} : conn'[u] = conn[u],
           \/ kind = "write" /\ depth' = depth /\ conn'[t].open = conn[t].open
           \/ kind = "transaction" /\ ~nested /\ depth = 0 /\ depth' = 1 /\ conn'[t].open = {}
           \/ /\ kind = "transaction" /\ nested /\ depth > 0 /\ depth' = depth + 1
              /\ conn'[t].open = conn[t].open
    PROVE  PoolInv'
<1>1. /\ ops' \in Seq(Operation)
      /\ Len(ops) \in Nat /\ Len(ops') = Len(ops) + 1
      /\ \A i \in 1..Len(ops) : ops'[i] = ops[i]
      /\ ops'[Len(ops) + 1].kind = kind /\ ops'[Len(ops) + 1].result = "running"
  BY OpAdded DEF PoolInv, PoolTyped
<1>2. \A i \in 1..Len(ops') : i \in 1..Len(ops) \/ i = Len(ops) + 1
  BY <1>1
<1>3. /\ thread' \in [Threads -> Worker]
      /\ thread'[t].phase = "working" /\ thread'[t].op = Len(ops) + 1
      /\ thread'[t].part = 1 /\ thread'[t].nested = nested
      /\ \A u \in Threads \ {t} : thread'[u] = thread[u]
      /\ \A u \in Threads : thread[u].phase # "working"
      /\ owner' = t
  BY WorkPool
<1>4. \A p \in {1, 2} : <<Len(ops) + 1, p>> \notin db
  BY <1>1, NotBegun DEF PoolInv
<1>5. \A u \in Threads, p \in {1, 2} : <<Len(ops) + 1, p>> \notin conn[u].open
  BY <1>1, NotBegun DEF PoolInv
<1>6. \A u \in Threads : conn'[u].open \subseteq conn[u].open
  OBVIOUS
<1>7. depth = 0 \/ (depth = 1 /\ jammed)
  BY <1>3 DEF PoolInv, DepthCounts, Pool!Working
<1>8. PoolTyped'
  <2>1. depth' \in Nat
    BY DEF PoolInv, PoolTyped
  <2>. QED
    BY <1>1, <1>3, <2>1 DEF PoolInv, PoolTyped
<1>9. LockHeld'
  BY <1>1, <1>3 DEF LockHeld, Pool!Working, Pool!Op
<1>10. DepthCounts'
  BY <1>1, <1>3, <1>7 DEF DepthCounts, Outer, Inner, Writes, Pool!Working, Pool!Op
<1>11. Known'
  BY <1>1, <1>6 DEF PoolInv, Known
<1>12. OpenTransactions'
  <2>1. \A u \in Threads : Outer(u)' => u = t /\ kind = "transaction" /\ ~nested
    BY <1>1, <1>3 DEF Outer, Pool!Working, Pool!Op
  <2>2. ASSUME NEW u \in Threads, Outer(u)'
        PROVE  conn'[u].open = Before(thread'[u].op, thread'[u].part)
    BY <1>3, <2>1, <2>2, BeforeSteps
  <2>3. ASSUME depth' = 0 \/ \E v \in Threads : Outer(v)',
               NEW u \in Threads, NEW i \in 1..Len(ops'), NEW p \in {1, 2},
               <<i, p>> \in conn'[u].open
        PROVE  ops'[i].kind = "write"
    <3>1. i \in 1..Len(ops) /\ <<i, p>> \in conn[u].open
      BY <1>2, <1>5, <1>6, <2>3
    <3>2. depth = 0
      BY <1>7, <2>1, <2>3
    <3>3. ~Outer(u)
      BY <1>3 DEF Outer, Pool!Working
    <3>. QED
      BY <1>1, <3>1, <3>2, <3>3 DEF PoolInv, OpenTransactions
  <2>. QED
    BY <2>2, <2>3 DEF OpenTransactions
<1>13. Whole'
  BY <1>1, <1>2, <1>4 DEF PoolInv, Whole
<1>14. OpenWrites'
  <2>1. ASSUME ~jammed PROVE \A u \in Threads : conn[u].open = {}
    BY <1>3, <2>1 DEF PoolInv, OpenWrites, Pool!Working
  <2>2. ASSUME ~jammed PROVE \A u \in Threads : conn'[u].open = {}
    BY <1>6, <2>1, <2>2
  <2>. QED
    BY <1>3, <2>2, BeforeSteps DEF OpenWrites, Writes, Pool!Working
<1>15. Returned'
  BY <1>1, <1>2 DEF PoolInv, Returned
<1>. QED
  BY <1>8, <1>9, <1>10, <1>11, <1>12, <1>13, <1>14, <1>15 DEF PoolInv

\* What a thread works on is one of the three kinds of operation.
LEMMA WorkKinds ==
    ASSUME PoolInv, NEW t \in Threads, Pool!Working(t)
    PROVE  /\ thread[t].op \in 1..Len(ops) /\ thread[t].part \in 1..3
           /\ ops[thread[t].op].result = "running"
           /\ owner = t /\ \A u \in Threads \ {t} : thread[u].phase # "working"
           /\ \/ Writes(t) /\ ops[thread[t].op].kind = "write"
              \/ Outer(t) /\ ops[thread[t].op].kind = "transaction" /\ depth = 1
              \/ Inner(t) /\ ops[thread[t].op].kind = "transaction" /\ depth = 2 /\ jammed
<1>1. /\ owner = t /\ thread[t].op \in 1..Len(ops)
      /\ ops[thread[t].op].result = "running"
  BY DEF PoolInv, LockHeld, Pool!Op
<1>2. thread[t] \in Worker
  BY DEF PoolInv, PoolTyped
<1>3. ops[thread[t].op] \in Operation
  BY <1>1, ElementOfSeq DEF PoolInv, PoolTyped
<1>4. \A u \in Threads \ {t} : thread[u].phase # "working"
  BY <1>1, OthersIdle DEF PoolInv, Pool!Working
<1>5. ops[thread[t].op].kind \in {"write", "transaction"} /\ thread[t].part \in 1..3
  BY <1>2, <1>3 DEF Operation, Worker
<1>. QED
  BY <1>1, <1>4, <1>5 DEF PoolInv, DepthCounts, Writes, Outer, Inner, Pool!Op

\* A statement is executed and not committed yet.
LEMMA StatementOpens ==
    ASSUME PoolInv, NEW t \in Threads, Pool!Working(t), thread[t].part \in {1, 2},
           UNCHANGED <<owner, depth, ops, db, jammed>>,
           thread' \in [Threads -> Worker],
           thread'[t].phase = "working", thread'[t].op = thread[t].op,
           thread'[t].nested = thread[t].nested, thread'[t].part = thread[t].part + 1,
           conn' \in [Threads -> Connection],
           conn'[t].open = conn[t].open \cup {<<thread[t].op, thread[t].part>>},
           \A u \in Threads \ {t} : thread'[u] = thread[u] /\ conn'[u] = conn[u],
           Writes(t) => thread[t].part = 1 \/ depth > 0
    PROVE  PoolInv'
<1>. DEFINE op == thread[t].op
            part == thread[t].part
<1>1. /\ op \in 1..Len(ops) /\ ops[op].result = "running" /\ owner = t
      /\ \A u \in Threads \ {t} : thread[u].phase # "working"
      /\ \/ Writes(t) /\ ops[op].kind = "write"
         \/ Outer(t) /\ ops[op].kind = "transaction" /\ depth = 1
         \/ Inner(t) /\ ops[op].kind = "transaction" /\ depth = 2 /\ jammed
  BY WorkKinds
<1>2. PoolTyped'
  BY DEF PoolInv, PoolTyped
<1>3. \A u \in Threads : /\ Writes(u)' <=> Writes(u)
                         /\ Outer(u)' <=> Outer(u)
                         /\ Inner(u)' <=> Inner(u)
                         /\ Pool!Working(u)' <=> Pool!Working(u)
  BY DEF Writes, Outer, Inner, Pool!Working, Pool!Op
<1>4. LockHeld'
  BY <1>1 DEF LockHeld, Pool!Working, Pool!Op
<1>5. DepthCounts'
  BY <1>3 DEF PoolInv, DepthCounts
<1>6. Known'
  BY <1>1 DEF PoolInv, Known
<1>7. Before(op, part + 1) = Before(op, part) \cup {<<op, part>>}
  BY BeforeSteps
<1>8. OpenTransactions'
  <2>1. ASSUME NEW u \in Threads, Outer(u)
        PROVE  conn'[u].open = Before(thread'[u].op, thread'[u].part)
    BY <1>1, <1>7, <2>1 DEF PoolInv, OpenTransactions, Outer, Pool!Working
  <2>2. ASSUME depth = 0 \/ \E v \in Threads : Outer(v),
               NEW u \in Threads, ~Outer(u), NEW i \in 1..Len(ops), NEW p \in {1, 2},
               <<i, p>> \in conn'[u].open
        PROVE  ops[i].kind = "write"
    <3>1. CASE <<i, p>> \in conn[u].open
      BY <2>2, <3>1 DEF PoolInv, OpenTransactions
    <3>2. CASE <<i, p>> \notin conn[u].open
      <4>1. u = t
        BY <2>2, <3>2
      <4>0. <<i, p>> = <<op, part>>
        BY <2>2, <3>2, <4>1
      <4>3. i = op
        BY <4>0
      <4>2. ~Inner(t)
        BY <1>1, <2>2 DEF Inner, Outer, Writes, Pool!Working, Pool!Op
      <4>. QED
        BY <1>1, <2>2, <4>1, <4>2, <4>3
    <3>. QED
      BY <3>1, <3>2
  <2>. QED
    BY <1>3, <2>1, <2>2 DEF OpenTransactions
<1>9. Whole' /\ Returned'
  BY DEF PoolInv, Whole, Returned
<1>10. OpenWrites'
  <2>. SUFFICES ASSUME ~jammed, NEW u \in Threads
                PROVE  /\ Writes(u) /\ thread'[u].part < 3 =>
                            conn'[u].open = Before(thread'[u].op, thread'[u].part)
                       /\ Writes(u) /\ thread'[u].part = 3 =>
                            /\ conn'[u].open = {}
                            /\ <<thread'[u].op, 1>> \in db /\ <<thread'[u].op, 2>> \in db
                       /\ ~Pool!Working(u) => conn'[u].open = {}
    BY <1>3 DEF OpenWrites
  <2>1. CASE u = t /\ Writes(t)
    <3>1. part = 1
      BY <2>1 DEF PoolInv, DepthCounts
    <3>2. conn[t].open = Before(op, 1)
      <4>0. thread[t].part < 3 /\ OpenWrites
        BY <3>1 DEF PoolInv
      <4>1. conn[t].open = Before(thread[t].op, thread[t].part)
        BY <2>1, <4>0, Zenon DEF OpenWrites
      <4>. QED
        BY <3>1, <4>1
    <3>3. conn'[t].open = Before(op, 2)
      BY <1>7, <3>1, <3>2
    <3>. QED
      BY <2>1, <3>1, <3>3
  <2>2. CASE u = t /\ ~Writes(t)
    BY <2>2
  <2>3. CASE u # t
    BY <1>1, <2>3 DEF PoolInv, OpenWrites, Writes, Pool!Working
  <2>. QED
    BY <2>1, <2>2, <2>3
<1>. QED
  BY <1>2, <1>4, <1>5, <1>6, <1>8, <1>9, <1>10 DEF PoolInv

\* The last statement of a write is executed and the connection commits.
LEMMA StatementCommits ==
    ASSUME PoolInv, NEW t \in Threads, Writes(t), thread[t].part = 2, depth = 0,
           UNCHANGED <<owner, depth, ops, jammed>>,
           thread' \in [Threads -> Worker],
           thread'[t].phase = "working", thread'[t].op = thread[t].op,
           thread'[t].nested = thread[t].nested, thread'[t].part = 3,
           conn' \in [Threads -> Connection], conn'[t].open = {},
           db' = db \cup conn[t].open \cup {<<thread[t].op, 2>>},
           \A u \in Threads \ {t} : thread'[u] = thread[u] /\ conn'[u] = conn[u]
    PROVE  PoolInv'
<1>. DEFINE op == thread[t].op
<1>1. /\ op \in 1..Len(ops) /\ ops[op].result = "running" /\ owner = t
      /\ \A u \in Threads \ {t} : thread[u].phase # "working"
      /\ ops[op].kind = "write"
  BY WorkKinds DEF Writes, Pool!Op
<1>2. PoolTyped'
  BY DEF PoolInv, PoolTyped
<1>3. \A u \in Threads : /\ Writes(u)' <=> Writes(u)
                         /\ Outer(u)' <=> Outer(u)
                         /\ Inner(u)' <=> Inner(u)
                         /\ Pool!Working(u)' <=> Pool!Working(u)
  BY DEF Writes, Outer, Inner, Pool!Working, Pool!Op
<1>4. LockHeld'
  BY <1>1 DEF LockHeld, Pool!Working, Pool!Op
<1>5. DepthCounts'
  BY <1>3 DEF PoolInv, DepthCounts
<1>6. Known'
  BY <1>1 DEF PoolInv, Known
<1>7. \A i \in 1..Len(ops), p \in {1, 2} : <<i, p>> \in conn[t].open => ops[i].kind = "write"
  BY DEF PoolInv, OpenTransactions, Writes, Outer
<1>8. \A i \in 1..Len(ops), p \in {1, 2} :
        ops[i].kind = "transaction" => (<<i, p>> \in db' <=> <<i, p>> \in db)
  BY <1>1, <1>7
<1>9. ~Outer(t)
  BY DEF Writes, Outer
<1>10. OpenTransactions'
  BY <1>3, <1>9 DEF PoolInv, OpenTransactions
<1>11. Whole' /\ Returned'
  BY <1>8 DEF PoolInv, Whole, Returned
<1>12. OpenWrites'
  <2>1. ASSUME ~jammed
        PROVE  <<op, 1>> \in db' /\ <<op, 2>> \in db'
    <3>0. thread[t].part < 3 /\ OpenWrites
      BY DEF PoolInv
    <3>1. conn[t].open = Before(thread[t].op, thread[t].part)
      BY <2>1, <3>0, Zenon DEF OpenWrites
    <3>. QED
      BY <3>1, BeforeSteps
  <2>2. ASSUME ~jammed, NEW u \in Threads \ {t}
        PROVE  conn'[u].open = {} /\ ~Writes(u)
    BY <1>1, <2>2 DEF PoolInv, OpenWrites, Writes, Pool!Working
  <2>. QED
    BY <1>3, <2>1, <2>2 DEF OpenWrites
<1>. QED
  BY <1>2, <1>4, <1>5, <1>6, <1>10, <1>11, <1>12 DEF PoolInv

\* A statement of a thread: _maybe_commit commits only the end of a write, and
\* only while the counter is zero.
LEMMA StatementPool == ASSUME PoolInv, NEW t \in Threads, Pool!Statement(t) PROVE PoolInv'
<1>. DEFINE op == thread[t].op
            part == thread[t].part
            c == [conn[t] EXCEPT !.held = TRUE, !.open = @ \cup {<<op, part>>}]
<1>1. /\ Pool!Working(t) /\ part \in {1, 2}
      /\ thread' = [thread EXCEPT ![t].part = @ + 1]
      /\ UNCHANGED <<owner, depth, ops, jammed>>
  BY DEF Pool!Statement, Pool!Parts
<1>2. /\ conn \in [Threads -> Connection] /\ thread \in [Threads -> Worker] /\ depth \in Nat
      /\ conn[t] \in Connection /\ thread[t] \in Worker
  BY DEF PoolInv, PoolTyped
<1>3. op \in Nat
  BY <1>2 DEF Worker
<1>4. c \in Connection /\ c.open = conn[t].open \cup {<<op, part>>}
  <2>. DEFINE o == conn[t].open \cup {<<op, part>>}
  <2>1. conn[t].open \in SUBSET (Nat \X {1, 2})
    BY <1>2 DEF Connection
  <2>2. <<op, part>> \in Nat \X {1, 2}
    BY <1>1, <1>3
  <2>3. o \in SUBSET (Nat \X {1, 2})
    BY <2>1, <2>2
  <2>4. c = [conn[t] EXCEPT !.held = TRUE, !.open = o]
    OBVIOUS
  <2>. HIDE DEF o, c
  <2>5. c \in Connection /\ c.open = o
    BY <1>2, <2>3, <2>4 DEF Connection
  <2>. QED
    BY <2>5 DEF o
<1>5. /\ thread' \in [Threads -> Worker]
      /\ thread'[t].phase = "working" /\ thread'[t].op = op
      /\ thread'[t].nested = thread[t].nested /\ thread'[t].part = part + 1
      /\ \A u \in Threads \ {t} : thread'[u] = thread[u]
  <2>. DEFINE w == [thread[t] EXCEPT !.part = @ + 1]
  <2>1. /\ w \in Worker /\ w.phase = "working" /\ w.op = op
        /\ w.nested = thread[t].nested /\ w.part = part + 1
    BY <1>1, <1>2 DEF Worker, Pool!Working
  <2>2. thread' = [thread EXCEPT ![t] = w]
    BY <1>1, <1>2
  <2>. HIDE DEF w
  <2>. QED
    BY <1>2, <2>1, <2>2
<1>6. IF ops[op].kind = "transaction" \/ part = 2 THEN Pool!MaybeCommit(t, c)
      ELSE conn' = [conn EXCEPT ![t] = c] /\ UNCHANGED db
  BY DEF Pool!Statement, Pool!Op
<1>. HIDE DEF c
<1>7. CASE conn' = [conn EXCEPT ![t] = c] /\ UNCHANGED db /\ (Writes(t) => part = 1 \/ depth > 0)
  <2>1. /\ conn' \in [Threads -> Connection] /\ conn'[t] = c
        /\ \A u \in Threads \ {t} : conn'[u] = conn[u]
    BY <1>2, <1>4, <1>7
  <2>. QED
    BY <1>1, <1>4, <1>5, <1>7, <2>1, StatementOpens
<1>8. CASE Writes(t) /\ part = 2 /\ depth = 0
  <2>1. db' = db \cup c.open /\ conn' = [conn EXCEPT ![t] = Pool!NoConn]
    BY <1>6, <1>8 DEF Pool!MaybeCommit
  <2>2. Pool!NoConn \in Connection /\ Pool!NoConn.open = {}
    BY DEF Pool!NoConn, Connection
  <2>3. /\ conn' \in [Threads -> Connection] /\ conn'[t].open = {}
        /\ \A u \in Threads \ {t} : conn'[u] = conn[u]
    BY <1>2, <2>1, <2>2
  <2>. QED
    BY <1>1, <1>4, <1>5, <1>8, <2>1, <2>3, StatementCommits
<1>9. CASE ~Writes(t)
  <2>1. ops[op].kind = "transaction" /\ depth > 0
    BY <1>1, <1>9, WorkKinds
  <2>. QED
    BY <1>6, <1>7, <1>9, <2>1 DEF Pool!MaybeCommit
<1>10. CASE Writes(t) /\ (part = 1 \/ depth > 0)
  <2>1. ops[op].kind = "write"
    BY <1>10 DEF Writes, Pool!Op
  <2>. QED
    BY <1>6, <1>7, <1>10, <2>1 DEF Pool!MaybeCommit
<1>. QED
  BY <1>1, <1>2, <1>8, <1>9, <1>10

\* An operation ends, and the thread with it. A write has committed, or rolls
\* back; an outer transaction commits what it wrote, or rolls back; an inner one
\* leaves what it wrote open, under the counter that was left behind.
LEMMA EndedPool ==
    ASSUME PoolInv, NEW t \in Threads, Pool!Working(t),
           NEW result \in {"returned", "failed"}, Pool!Leave(t, result), UNCHANGED jammed,
           conn' \in [Threads -> Connection],
           \A u \in Threads \ {t} : conn'[u] = conn[u],
           \/ /\ Writes(t) /\ depth' = depth /\ db' = db
              /\ \/ result = "failed" /\ conn'[t].open = {}
                 \/ result = "returned" /\ thread[t].part = 3 /\ conn'[t] = conn[t]
           \/ /\ Outer(t) /\ depth' = 0 /\ conn'[t].open = {}
              /\ \/ result = "failed" /\ db' = db
                 \/ result = "returned" /\ thread[t].part = 3 /\ db' = db \cup conn[t].open
           \/ Inner(t) /\ depth' = 1 /\ db' = db /\ conn'[t].open \subseteq conn[t].open
    PROVE  PoolInv'
<1>. DEFINE op == thread[t].op
<1>1. /\ op \in 1..Len(ops) /\ ops[op].result = "running" /\ owner = t
      /\ \A u \in Threads \ {t} : thread[u].phase # "working"
      /\ \/ Writes(t) /\ ops[op].kind = "write"
         \/ Outer(t) /\ ops[op].kind = "transaction" /\ depth = 1
         \/ Inner(t) /\ ops[op].kind = "transaction" /\ depth = 2 /\ jammed
  BY WorkKinds
<1>2. /\ ops' = [ops EXCEPT ![op].result = result]
      /\ thread' = [thread EXCEPT ![t] = Pool!Idle]
  BY DEF Pool!Leave
<1>3. ops \in Seq(Operation) /\ thread \in [Threads -> Worker] /\ depth \in Nat
  BY DEF PoolInv, PoolTyped
<1>4. /\ ops' \in Seq(Operation)
      /\ Len(ops) \in Nat /\ Len(ops') = Len(ops)
      /\ \A j \in 1..Len(ops) : /\ ops'[j].kind = ops[j].kind
                                /\ ops'[j].result = IF j = op THEN result ELSE ops[j].result
  BY <1>1, <1>2, <1>3, OpEnded
<1>5. /\ thread' \in [Threads -> Worker]
      /\ \A u \in Threads : thread'[u].phase # "working"
  BY <1>1, <1>2, <1>3 DEF Pool!Idle, Worker
<1>6. ~(Writes(t) /\ Outer(t)) /\ ~(Writes(t) /\ Inner(t)) /\ ~(Outer(t) /\ Inner(t))
  BY DEF Writes, Outer, Inner
<1>7. \A u \in Threads : ~Writes(u)' /\ ~Outer(u)' /\ ~Inner(u)' /\ ~Pool!Working(u)'
  BY <1>5 DEF Writes, Outer, Inner, Pool!Working
<1>8. PoolTyped'
  <2>1. depth' \in Nat
    BY <1>3
  <2>. QED
    BY <1>4, <1>5, <2>1 DEF PoolInv, PoolTyped
<1>9. LockHeld'
  BY <1>7 DEF LockHeld
<1>10. DepthCounts'
  <2>1. depth' = 0 \/ (depth' = 1 /\ jammed)
    BY <1>1, <1>6 DEF PoolInv, DepthCounts
  <2>. QED
    BY <1>7, <2>1 DEF DepthCounts
<1>11. conn'[t].open \subseteq conn[t].open
  BY <1>1, <1>6
<1>12. Outer(t) => /\ conn[t].open = Before(op, thread[t].part)
                   /\ thread[t].part = 3 => conn[t].open = {<<op, 1>>, <<op, 2>>}
  BY BeforeSteps DEF PoolInv, OpenTransactions
<1>13. \/ db' = db
       \/ Outer(t) /\ result = "returned" /\ db' = db \cup {<<op, 1>>, <<op, 2>>}
  BY <1>12
<1>14. Known'
  <2>1. ASSUME NEW i \in Nat, NEW p \in {1, 2}, <<i, p>> \in db'
        PROVE  i \in 1..Len(ops)
    BY <1>1, <1>13, <2>1 DEF PoolInv, Known
  <2>. QED
    BY <1>4, <1>11, <2>1 DEF PoolInv, Known
<1>15. OpenTransactions'
  <2>1. ASSUME depth' = 0, NEW u \in Threads, NEW i \in 1..Len(ops), NEW p \in {1, 2},
               <<i, p>> \in conn'[u].open
        PROVE  ops[i].kind = "write"
    <3>1. <<i, p>> \in conn[u].open
      BY <1>11, <2>1
    <3>2. depth = 0 \/ Outer(t)
      BY <2>1
    <3>3. ~Outer(u)
      <4>1. u # t => ~Outer(u)
        BY <1>1 DEF Outer, Pool!Working
      <4>2. u = t => ~Outer(t)
        BY <1>6, <2>1
      <4>. QED
        BY <4>1, <4>2
    <3>. QED
      BY <3>1, <3>2, <3>3 DEF PoolInv, OpenTransactions
  <2>. QED
    BY <1>4, <1>7, <2>1 DEF OpenTransactions
<1>16. Whole'
  <2>. SUFFICES ASSUME NEW i \in 1..Len(ops), ops[i].kind = "transaction"
                PROVE  /\ <<i, 1>> \in db' <=> <<i, 2>> \in db'
                       /\ <<i, 1>> \in db' => ops'[i].result = "returned"
    BY <1>4 DEF Whole
  <2>1. /\ <<i, 1>> \in db <=> <<i, 2>> \in db
        /\ <<i, 1>> \in db => ops[i].result = "returned"
    BY DEF PoolInv, Whole
  <2>2. CASE i = op
    <3>1. <<i, 1>> \notin db /\ <<i, 2>> \notin db
      BY <1>1, <2>1, <2>2
    <3>. QED
      BY <1>4, <1>13, <2>2, <3>1
  <2>3. CASE i # op
    <3>1. \A p \in {1, 2} : <<i, p>> \in db' <=> <<i, p>> \in db
      BY <1>13, <2>3
    <3>. QED
      BY <1>4, <2>1, <2>3, <3>1
  <2>. QED
    BY <2>2, <2>3
<1>17. OpenWrites'
  <2>1. ASSUME ~jammed, NEW u \in Threads
        PROVE  conn'[u].open = {}
    <3>1. u # t => conn[u].open = {}
      BY <1>1, <2>1 DEF PoolInv, OpenWrites, Pool!Working
    <3>2. Writes(t) /\ thread[t].part = 3 => conn[t].open = {}
      BY <2>1 DEF PoolInv, OpenWrites
    <3>3. ~Inner(t)
      BY <2>1 DEF PoolInv, DepthCounts
    <3>. QED
      BY <3>1, <3>2, <3>3
  <2>. QED
    BY <1>7, <2>1 DEF OpenWrites
<1>18. Returned'
  <2>. SUFFICES ASSUME ~jammed, NEW i \in 1..Len(ops), ops'[i].result = "returned"
                PROVE  <<i, 1>> \in db' /\ <<i, 2>> \in db'
    BY <1>4 DEF Returned
  <2>1. CASE i # op
    <3>1. <<i, 1>> \in db /\ <<i, 2>> \in db
      BY <1>4, <2>1 DEF PoolInv, Returned
    <3>. QED
      BY <1>13, <3>1
  <2>2. CASE i = op
    <3>1. result = "returned"
      BY <1>4, <2>2
    <3>2. ~Inner(t)
      BY DEF PoolInv, DepthCounts
    <3>3. CASE Writes(t)
      <4>1. thread[t].part = 3 /\ db' = db
        BY <1>6, <3>1, <3>2, <3>3
      <4>. QED
        BY <2>2, <3>3, <4>1 DEF PoolInv, OpenWrites
    <3>4. CASE Outer(t)
      <4>1. db' = db \cup conn[t].open /\ conn[t].open = {<<op, 1>>, <<op, 2>>}
        BY <1>6, <1>12, <3>1, <3>2, <3>4
      <4>. QED
        BY <2>2, <4>1
    <3>. QED
      BY <1>1, <3>2, <3>3, <3>4
  <2>. QED
    BY <2>1, <2>2
<1>. QED
  BY <1>8, <1>9, <1>10, <1>14, <1>15, <1>16, <1>17, <1>18 DEF PoolInv

\* What a thread is given instead of its connection.
LEMMA Replaced ==
    ASSUME conn \in [Threads -> Connection], NEW t \in Threads, NEW c \in Connection,
           conn' = [conn EXCEPT ![t] = c]
    PROVE  /\ conn' \in [Threads -> Connection] /\ conn'[t] = c
           /\ \A u \in Threads \ {t} : conn'[u] = conn[u]
OBVIOUS

LEMMA FreshConnections ==
    /\ Pool!NoConn \in Connection /\ Pool!NoConn.open = {}
    /\ Pool!Held \in Connection /\ Pool!Held.open = {}
    /\ [Pool!Held EXCEPT !.broken = TRUE] \in Connection
    /\ [Pool!Held EXCEPT !.broken = TRUE].open = {}
BY DEF Pool!NoConn, Pool!Held, Connection

LEMMA StartPool ==
    ASSUME PoolInv, NEW t \in Threads, NEW row \in Rows,
           Pool!StartWrite(t, row) \/ Pool!Enter(t, row) \/ Pool!EnterNested(t, row)
    PROVE  PoolInv'
<1>1. conn \in [Threads -> Connection] /\ conn[t] \in Connection
  BY DEF PoolInv, PoolTyped
<1>2. CASE Pool!StartWrite(t, row) /\ ~Pool!Connect(t)
  BY <1>2, RefusedPool DEF Pool!StartWrite
<1>3. CASE Pool!StartWrite(t, row) /\ Pool!Connect(t)
  <2>. DEFINE c == [conn[t] EXCEPT !.held = TRUE]
  <2>1. c \in Connection /\ c.open = conn[t].open
    BY <1>1 DEF Connection
  <2>2. conn' = [conn EXCEPT ![t] = c]
    BY <1>3 DEF Pool!StartWrite
  <2>. HIDE DEF c
  <2>3. /\ conn' \in [Threads -> Connection] /\ conn'[t].open = conn[t].open
        /\ \A u \in Threads \ {t} : conn'[u] = conn[u]
    BY <1>1, <2>1, <2>2, Replaced
  <2>. QED
    BY <1>3, <2>3, StartedPool DEF Pool!StartWrite
<1>4. CASE Pool!Enter(t, row) /\ ~Pool!Connect(t)
  BY <1>4, RefusedPool DEF Pool!Enter
<1>5. CASE Pool!Enter(t, row) /\ Pool!Connect(t)
  <2>1. conn' = [conn EXCEPT ![t] = Pool!Held]
    BY <1>5 DEF Pool!Enter
  <2>2. /\ conn' \in [Threads -> Connection] /\ conn'[t].open = {}
        /\ \A u \in Threads \ {t} : conn'[u] = conn[u]
    BY <1>1, <2>1, FreshConnections, Replaced
  <2>. QED
    BY <1>5, <2>2, StartedPool DEF Pool!Enter
<1>6. CASE Pool!EnterNested(t, row)
  BY <1>1, <1>6, StartedPool DEF Pool!EnterNested
<1>. QED
  BY <1>2, <1>3, <1>4, <1>5, <1>6

LEMMA FinishPool == ASSUME PoolInv, NEW t \in Threads, Pool!Finish(t) PROVE PoolInv'
<1>1. /\ Pool!Working(t) /\ thread[t].part \notin {1, 2}
      /\ Pool!Leave(t, "returned") /\ UNCHANGED jammed
  BY DEF Pool!Finish, Pool!Parts
<1>2. /\ thread[t].part = 3
      /\ \/ Writes(t) /\ ops[thread[t].op].kind = "write"
         \/ Outer(t) /\ ops[thread[t].op].kind = "transaction" /\ depth = 1
         \/ Inner(t) /\ ops[thread[t].op].kind = "transaction" /\ depth = 2 /\ jammed
  BY <1>1, WorkKinds
<1>3. conn \in [Threads -> Connection]
  BY DEF PoolInv, PoolTyped
<1>4. CASE Writes(t)
  <2>1. depth' = depth /\ db' = db /\ conn' = conn
    BY <1>4 DEF Pool!Finish, Writes, Pool!Op
  <2>. QED
    BY <1>1, <1>2, <1>3, <1>4, <2>1, EndedPool
<1>5. CASE Outer(t) /\ depth = 1
  <2>1. depth' = 0 /\ db' = db \cup conn[t].open /\ conn' = [conn EXCEPT ![t] = Pool!NoConn]
    BY <1>5 DEF Pool!Finish, Outer, Pool!Op
  <2>2. /\ conn' \in [Threads -> Connection] /\ conn'[t].open = {}
        /\ \A u \in Threads \ {t} : conn'[u] = conn[u]
    BY <1>3, <2>1, FreshConnections, Replaced
  <2>. QED
    BY <1>1, <1>2, <1>5, <2>1, <2>2, EndedPool
<1>6. CASE Inner(t) /\ depth = 2
  <2>1. depth' = 1 /\ db' = db /\ conn' = conn
    BY <1>6 DEF Pool!Finish, Inner, Pool!Op
  <2>. QED
    BY <1>1, <1>3, <1>6, <2>1, EndedPool
<1>. QED
  BY <1>2, <1>4, <1>5, <1>6

LEMMA FailPool == ASSUME PoolInv, NEW t \in Threads, Pool!Fail(t) PROVE PoolInv'
<1>1. /\ Pool!Working(t) /\ Pool!Leave(t, "failed") /\ UNCHANGED <<db, jammed>>
  BY DEF Pool!Fail
<1>2. \/ Writes(t) /\ ops[thread[t].op].kind = "write"
      \/ Outer(t) /\ ops[thread[t].op].kind = "transaction" /\ depth = 1
      \/ Inner(t) /\ ops[thread[t].op].kind = "transaction" /\ depth = 2 /\ jammed
  BY <1>1, WorkKinds
<1>3. conn \in [Threads -> Connection] /\ conn[t] \in Connection
  BY DEF PoolInv, PoolTyped
<1>4. CASE Writes(t)
  <2>1. depth' = depth /\ conn' = [conn EXCEPT ![t] = [Pool!Held EXCEPT !.broken = TRUE]]
    BY <1>4 DEF Pool!Fail, Writes, Pool!Op
  <2>2. /\ conn' \in [Threads -> Connection] /\ conn'[t].open = {}
        /\ \A u \in Threads \ {t} : conn'[u] = conn[u]
    BY <1>3, <2>1, FreshConnections, Replaced
  <2>. QED
    BY <1>1, <1>4, <2>1, <2>2, EndedPool
<1>5. CASE Outer(t) /\ depth = 1
  <2>1. depth' = 0 /\ conn' = [conn EXCEPT ![t] = Pool!NoConn]
    BY <1>5 DEF Pool!Fail, Outer, Pool!Op
  <2>2. /\ conn' \in [Threads -> Connection] /\ conn'[t].open = {}
        /\ \A u \in Threads \ {t} : conn'[u] = conn[u]
    BY <1>3, <2>1, FreshConnections, Replaced
  <2>. QED
    BY <1>1, <1>5, <2>1, <2>2, EndedPool
<1>6. CASE Inner(t) /\ depth = 2
  <2>1. /\ depth' = 1
        /\ conn' = [conn EXCEPT ![t] = IF Pool!Connect(t)
                                         THEN [Pool!Held EXCEPT !.broken = TRUE] ELSE @]
    BY <1>6 DEF Pool!Fail, Inner, Pool!Op
  <2>2. \E c \in Connection : /\ conn' = [conn EXCEPT ![t] = c]
                              /\ c.open \subseteq conn[t].open
    BY <1>3, <2>1, FreshConnections
  <2>3. /\ conn' \in [Threads -> Connection] /\ conn'[t].open \subseteq conn[t].open
        /\ \A u \in Threads \ {t} : conn'[u] = conn[u]
    BY <1>3, <2>2, Replaced
  <2>. QED
    BY <1>1, <1>6, <2>1, <2>3, EndedPool
<1>. QED
  BY <1>2, <1>4, <1>5, <1>6

\* The process stops: what was open is rolled back, what was running has failed.
LEMMA RestartPool == ASSUME PoolInv, Pool!Restart PROVE PoolInv'
<1>1. /\ depth' = 0 /\ db' = db /\ jammed' = jammed
      /\ conn' = [t \in Threads |-> Pool!NoConn]
      /\ thread' = [t \in Threads |-> Pool!Idle]
      /\ ops' = [i \in 1..Len(ops) |->
                   IF ops[i].result = "running" THEN [ops[i] EXCEPT !.result = "failed"]
                   ELSE ops[i]]
  BY DEF Pool!Restart
<1>2. /\ conn' \in [Threads -> Connection] /\ \A t \in Threads : conn'[t].open = {}
      /\ thread' \in [Threads -> Worker] /\ \A t \in Threads : thread'[t].phase # "working"
  BY <1>1, FreshConnections DEF Pool!Idle, Worker
<1>3. ops \in Seq(Operation) /\ Len(ops) \in Nat
  BY LenProperties DEF PoolInv, PoolTyped
<1>4. \A i \in 1..Len(ops) : /\ ops'[i] \in Operation
                             /\ ops'[i].kind = ops[i].kind
                             /\ ops'[i].result = "returned" <=> ops[i].result = "returned"
  <2>. SUFFICES ASSUME NEW i \in 1..Len(ops)
                PROVE  /\ ops'[i] \in Operation
                       /\ ops'[i].kind = ops[i].kind
                       /\ ops'[i].result = "returned" <=> ops[i].result = "returned"
    OBVIOUS
  <2>1. ops[i] \in Operation
    BY <1>3, ElementOfSeq
  <2>. QED
    BY <1>1, <2>1 DEF Operation
<1>5. ops' \in Seq(Operation) /\ Len(ops') = Len(ops)
  <2>1. ops' \in [1..Len(ops) -> Operation]
    BY <1>1, <1>4
  <2>. QED
    BY <1>3, <2>1
<1>6. \A t \in Threads : ~Writes(t)' /\ ~Outer(t)' /\ ~Inner(t)' /\ ~Pool!Working(t)'
  BY <1>2 DEF Writes, Outer, Inner, Pool!Working
<1>7. PoolTyped'
  BY <1>1, <1>2, <1>5 DEF PoolInv, PoolTyped
<1>8. LockHeld' /\ DepthCounts'
  BY <1>1, <1>6 DEF LockHeld, DepthCounts
<1>9. Known'
  BY <1>1, <1>2, <1>5 DEF PoolInv, Known
<1>10. OpenTransactions' /\ OpenWrites'
  BY <1>2, <1>6 DEF OpenTransactions, OpenWrites
<1>11. Whole' /\ Returned'
  BY <1>1, <1>4, <1>5 DEF PoolInv, Whole, Returned
<1>. QED
  BY <1>7, <1>8, <1>9, <1>10, <1>11 DEF PoolInv

\* Nothing in the invariant is of another component.
LEMMA StutterPool == PoolInv /\ UNCHANGED <<owner, depth, conn, thread, ops, db, jammed>> => PoolInv'
BY DEF PoolInv, PoolTyped, LockHeld, DepthCounts, Known, OpenTransactions, Whole, OpenWrites,
       Returned, Outer, Inner, Writes, Pool!Working, Pool!Op

LEMMA NextPoolInv == PoolInv /\ [Next]_vars => PoolInv'
<1>. SUFFICES ASSUME PoolInv, [Next]_vars PROVE PoolInv'
  OBVIOUS
<1>1. CASE NextPool
  BY <1>1, ReadPool, StatementPool, FailPool, FinishPool, StartPool, RestartPool
     DEF NextPool, Pool!Next
<1>2. CASE ~NextPool
  <2>1. UNCHANGED <<owner, depth, conn, thread, ops, db, jammed>>
    BY <1>2 DEF Next, NextAppointments, NextSharing, NextSleep, NextSearch, vars, poolVars
  <2>. QED
    BY <2>1, StutterPool
<1>. QED
  BY <1>1, <1>2

-----------------------------------------------------------------------------
(* The theorem *)

LEMMA PoolMeans == PoolInv => Pool!TransactionAtomic /\ Pool!NothingLeftOpen
<1>. SUFFICES ASSUME PoolInv PROVE Pool!TransactionAtomic /\ Pool!NothingLeftOpen
  OBVIOUS
<1>1. ASSUME NEW i \in 1..Len(ops), ops[i].kind = "transaction"
      PROVE  /\ Pool!Committed(i) \in {{}, Pool!Parts}
             /\ ops[i].result = "failed" => Pool!Committed(i) = {}
  <2>1. /\ <<i, 1>> \in db <=> <<i, 2>> \in db
        /\ <<i, 1>> \in db => ops[i].result = "returned"
    BY <1>1 DEF PoolInv, Whole
  <2>. QED
    BY <2>1 DEF Pool!Committed, Pool!Parts
<1>2. ASSUME ~jammed, NEW i \in 1..Len(ops), ops[i].result = "returned"
      PROVE  Pool!Committed(i) = Pool!Parts
  <2>1. <<i, 1>> \in db /\ <<i, 2>> \in db
    BY <1>2 DEF PoolInv, Returned
  <2>. QED
    BY <2>1 DEF Pool!Committed, Pool!Parts
<1>3. ASSUME ~jammed, NEW t \in Threads \ {owner}
      PROVE  conn[t].open = {}
  BY <1>3 DEF PoolInv, OpenWrites, LockHeld
<1>. QED
  BY <1>1, <1>2, <1>3 DEF Pool!TransactionAtomic, Pool!NothingLeftOpen

\* For any number of threads and connections, whatever connections leak, break
\* or run out and whenever the process stops: the writes of a transaction are
\* committed together or not at all, and unless one was refused a connection,
\* what returned is committed and no idle thread holds up another.
THEOREM TransactionsAreAtomic == Spec => []TransactionAtomic
<1>1. Init => PoolInv
  BY InitPool DEF Init
<1>2. PoolInv => TransactionAtomic
  BY PoolMeans DEF TransactionAtomic
<1>. QED
  BY <1>1, <1>2, NextPoolInv, PTL DEF Spec

-----------------------------------------------------------------------------
(* Deep sleep *)

Sleepless == [phase : Sleeping!Phases, read : Seq(Messages), dream : [day : Int, told : BOOLEAN],
              tells : Seq(Messages), dreamt : Int]

\* The messages whose reply is to tell of m, and of the dream of the day d; f is
\* what the messages are doing.
Tellers(f, m) == {n \in Messages : m \in Sleeping!ToSet(f[n].tells)}
Dreamers(f, d) == {n \in Messages : f[n].dreamt = d}

\* None, one or several.
Few(S) == IF S = {} THEN 0 ELSE IF \E x : S = {x} THEN 1 ELSE 2

\* What was unheard can be in five places: the queue q, the replies t that told
\* of it, what was pushed out (c), what was dropped (r), and replies being written.
Nowhere(q, t, c, r, f, m) ==
    /\ m \notin Sleeping!ToSet(q) /\ t[m] = 0 /\ m \notin c /\ m \notin r
    /\ Tellers(f, m) = {}

Places(q, t, c, r, f, m) ==
    Sleeping!Count(m \in Sleeping!ToSet(q)) + t[m] + Sleeping!Count(m \in c)
      + Sleeping!Count(m \in r) + Few(Tellers(f, m))

\* The dream of the day d has been mentioned in no reply, and is in none.
Untold(s, f, d) == s[d] = 0 /\ Dreamers(f, d) = {}

-----------------------------------------------------------------------------
(* The invariant *)

SleepTyped ==
    /\ hour \in Nat /\ slept \in Int /\ slept <= Sleeping!Today
    /\ queue \in Seq(Messages)
    /\ asker \in [Messages -> Sleepless]
    /\ told \in [Messages -> Nat]
    /\ overlap \in BOOLEAN /\ blurred \in BOOLEAN
    /\ runner \in [phase : {"idle", "asleep"}, day : Int]
    /\ dreams \in [day : Int, told : BOOLEAN]
    /\ mentions \in [Sleeping!Days -> Nat]

\* Only a reply that is being written holds what it tells; the dream it asks for
\* is one that was not told.
AskerSettled(k) ==
    /\ k.phase \notin {"recalling", "mentioning", "answering"} => k.tells = <<>>
    /\ k.phase # "answering" => k.dreamt = Sleeping!NoDay
    /\ k.phase = "mentioning" => ~k.dream.told

\* Nothing is known of a message before it is queued; a message that was queued
\* and not heard is in one place.
HeardOnce ==
    ~overlap =>
      \A m \in Messages :
        /\ asker[m].phase \in {"unsent", "queueing"} => Nowhere(queue, told, cut, dropped, asker, m)
        /\ asker[m].phase \in {"counting", "silent"} => Places(queue, told, cut, dropped, asker, m) = 1

\* The dreams are of the last day slept or an earlier one.
InOrder ==
    ~blurred =>
      /\ dreams.day <= slept
      /\ runner.phase = "asleep" => runner.day = slept /\ dreams.day < slept

\* A dream is mentioned once at most, one that was not told and those to come not yet.
Mentioned ==
    ~blurred =>
      \A d \in Sleeping!Days :
        /\ mentions[d] + Few(Dreamers(asker, d)) <= 1
        /\ d > dreams.day \/ (d = dreams.day /\ ~dreams.told) => Untold(mentions, asker, d)

SleepInv == /\ SleepTyped /\ \A m \in Messages : AskerSettled(asker[m])
            /\ HeardOnce /\ InOrder /\ Mentioned

-----------------------------------------------------------------------------
(* Lemmas *)

LEMMA KeptIsNat == Kept \in Nat /\ Kept > 0 /\ MaxHours \in Nat
BY ConstantsAssumption DEF Sleeping!SleepAssumption

LEMMA DaysAreNat == \A d \in Sleeping!Days : d \in Nat
BY DEF Sleeping!Days

LEMMA FewTypes ==
    /\ \A S : Few(S) \in {0, 1, 2} /\ (Few(S) = 0 <=> S = {})
    /\ \A S, x : Few(S) <= 1 /\ x \in S => S = {x}
    /\ \A x : Few({x}) = 1
    /\ \A S, T : S \subseteq T => Few(S) <= Few(T)
<1>1. \A S : Few(S) \in {0, 1, 2} /\ (Few(S) = 0 <=> S = {})
  BY DEF Few
<1>2. \A S, x : Few(S) <= 1 /\ x \in S => S = {x}
  BY DEF Few
<1>3. \A x : Few({x}) = 1
  BY DEF Few
<1>4. ASSUME NEW S, NEW T, S \subseteq T PROVE Few(S) <= Few(T)
  <2>1. CASE T = {}
    BY <1>4, <2>1, <1>1
  <2>2. CASE \E x : T = {x}
    <3>1. S = {} \/ S = T
      BY <1>4, <2>2
    <3>. QED
      BY <3>1, <1>1
  <2>3. CASE T # {} /\ ~\E x : T = {x}
    <3>1. Few(T) = 2
      BY <2>3 DEF Few
    <3>. QED
      BY <3>1, <1>1
  <2>. QED
    BY <2>1, <2>2, <2>3
<1>. QED
  BY <1>1, <1>2, <1>3, <1>4

LEMMA FewIsCardinality ==
    ASSUME NEW S, Few(S) <= 1
    PROVE  Sleeping!Cardinality(S) = Few(S)
<1>1. Sleeping!Cardinality(S) = Cardinality(S)
  BY DEF Sleeping!Cardinality, Cardinality
<1>2. S = {} \/ \E x : S = {x}
  BY DEF Few
<1>3. CASE S = {}
  BY <1>1, <1>3, FS_EmptySet DEF Few
<1>4. CASE \E x : S = {x}
  <2>1. PICK x : S = {x}
    BY <1>4
  <2>2. Cardinality({x}) = 1
    BY FS_Singleton
  <2>. QED
    BY <1>1, <2>1, <2>2, FewTypes
<1>. QED
  BY <1>2, <1>3, <1>4

LEMMA NoneInEmpty == Sleeping!ToSet(<<>>) = {}
BY DEF Sleeping!ToSet

\* The newest of a queue are of the queue.
LEMMA NewestOfQueue ==
    ASSUME NEW q \in Seq(Messages), NEW m \in Messages
    PROVE  /\ Append(q, m) \in Seq(Messages)
           /\ Sleeping!ToSet(Append(q, m)) = Sleeping!ToSet(q) \cup {m}
           /\ Sleeping!Newest(Append(q, m)) \in Seq(Messages)
           /\ Sleeping!ToSet(Sleeping!Newest(Append(q, m))) \subseteq Sleeping!ToSet(q) \cup {m}
<1>. DEFINE all == Append(q, m)
            k == IF Len(all) > Kept THEN Len(all) - Kept + 1 ELSE 1
            new == SubSeq(all, k, Len(all))
<1>1. /\ all \in Seq(Messages) /\ Len(all) = Len(q) + 1 /\ Len(q) \in Nat
      /\ \A i \in 1..Len(q) : all[i] = q[i]
      /\ all[Len(q) + 1] = m
  BY AppendProperties, LenProperties
<1>2. Sleeping!ToSet(all) = Sleeping!ToSet(q) \cup {m}
  <2>1. DOMAIN all = 1..(Len(q) + 1) /\ DOMAIN q = 1..Len(q)
    BY <1>1, LenProperties
  <2>2. 1..(Len(q) + 1) = (1..Len(q)) \cup {Len(q) + 1}
    BY <1>1
  <2>. QED
    BY <1>1, <2>1, <2>2 DEF Sleeping!ToSet
<1>. HIDE DEF all
<1>3. k \in Int /\ k >= 1
  BY <1>1, KeptIsNat
<1>4. Sleeping!Newest(all) = new
  BY DEF Sleeping!Newest
<1>. HIDE DEF k
<1>5. \A i \in k..Len(all) : i \in 1..Len(all) /\ all[i] \in Messages /\ i \in DOMAIN all
  BY <1>1, <1>3, ElementOfSeq, LenProperties
<1>6. /\ new \in Seq(Messages)
      /\ \A i \in 1..Len(new) : new[i] = all[k + i - 1] /\ k + i - 1 \in k..Len(all)
  <2>1. /\ new \in Seq(Messages)
        /\ Len(new) = IF k <= Len(all) THEN Len(all) - k + 1 ELSE 0
        /\ \A i \in 1..Len(new) : new[i] = all[k + i - 1]
    BY <1>1, <1>3, <1>5, SubSeqProperties
  <2>2. \A i \in 1..Len(new) : k + i - 1 \in k..Len(all)
    BY <1>1, <1>3, <2>1
  <2>. QED
    BY <2>1, <2>2
<1>. HIDE DEF new
<1>7. Sleeping!ToSet(new) \subseteq Sleeping!ToSet(all)
  <2>1. DOMAIN new = 1..Len(new)
    BY <1>6, LenProperties
  <2>. QED
    BY <1>5, <1>6, <2>1 DEF Sleeping!ToSet
<1>. QED
  BY <1>1, <1>2, <1>4, <1>6, <1>7 DEF all

LEMMA UnsentIsTyped ==
    /\ Sleeping!Unsent \in Sleepless
    /\ Sleeping!Unsent.tells = <<>> /\ Sleeping!Unsent.dreamt = Sleeping!NoDay
    /\ Sleeping!NoDream \in [day : Int, told : BOOLEAN] /\ Sleeping!NoDay \in Int
<1>1. <<>> \in Seq(Messages)
  OBVIOUS
<1>2. Sleeping!NoDay \in Int /\ Sleeping!NoDream \in [day : Int, told : BOOLEAN]
  BY DEF Sleeping!NoDay, Sleeping!NoDream
<1>3. "unsent" \in Sleeping!Phases
  BY DEF Sleeping!Phases
<1>4. /\ Sleeping!Unsent \in Sleepless
      /\ Sleeping!Unsent.tells = <<>> /\ Sleeping!Unsent.dreamt = Sleeping!NoDay
  BY <1>1, <1>2, <1>3 DEF Sleeping!Unsent, Sleepless
<1>. QED
  BY <1>2, <1>4

LEMMA Fallen ==
    ASSUME NEW p \in Sleeping!Phases, p # "mentioning"
    PROVE  /\ [Sleeping!Unsent EXCEPT !.phase = p] \in Sleepless
           /\ AskerSettled([Sleeping!Unsent EXCEPT !.phase = p])
           /\ [Sleeping!Unsent EXCEPT !.phase = p].phase = p
           /\ [Sleeping!Unsent EXCEPT !.phase = p].tells = <<>>
           /\ [Sleeping!Unsent EXCEPT !.phase = p].dreamt = Sleeping!NoDay
<1>. DEFINE k == [Sleeping!Unsent EXCEPT !.phase = p]
<1>1. /\ k \in Sleepless /\ k.phase = p /\ k.tells = Sleeping!Unsent.tells
      /\ k.dreamt = Sleeping!Unsent.dreamt
  BY UnsentIsTyped DEF Sleepless
<1>. HIDE DEF k
<1>2. AskerSettled(k)
  BY <1>1, UnsentIsTyped DEF AskerSettled
<1>. QED
  BY <1>1, <1>2, UnsentIsTyped DEF k

\* One message goes on.
LEMMA AskerGoes ==
    ASSUME SleepInv, NEW m \in Messages, NEW to \in Sleepless, AskerSettled(to),
           asker' = [asker EXCEPT ![m] = to]
    PROVE  /\ asker' \in [Messages -> Sleepless] /\ asker'[m] = to
           /\ \A n \in Messages : n # m => asker'[n] = asker[n]
           /\ \A n \in Messages : AskerSettled(asker'[n])
           /\ \A x : Tellers(asker', x) = IF x \in Sleeping!ToSet(to.tells) THEN Tellers(asker, x) \cup {m}
                                         ELSE Tellers(asker, x) \ {m}
           /\ \A d : Dreamers(asker', d) = IF to.dreamt = d THEN Dreamers(asker, d) \cup {m}
                                           ELSE Dreamers(asker, d) \ {m}
           /\ \A x : m \in Tellers(asker, x) <=> x \in Sleeping!ToSet(asker[m].tells)
           /\ \A d : m \in Dreamers(asker, d) <=> asker[m].dreamt = d
<1>1. asker \in [Messages -> Sleepless]
  BY DEF SleepInv, SleepTyped
<1>2. /\ asker' \in [Messages -> Sleepless] /\ asker'[m] = to
      /\ \A n \in Messages : n # m => asker'[n] = asker[n]
  BY <1>1
<1>3. \A n \in Messages : AskerSettled(asker'[n])
  BY <1>2 DEF SleepInv
<1>4. /\ \A x : Tellers(asker', x) = IF x \in Sleeping!ToSet(to.tells) THEN Tellers(asker, x) \cup {m}
                                    ELSE Tellers(asker, x) \ {m}
      /\ \A x : m \in Tellers(asker, x) <=> x \in Sleeping!ToSet(asker[m].tells)
  BY <1>2 DEF Tellers
<1>5. /\ \A d : Dreamers(asker', d) = IF to.dreamt = d THEN Dreamers(asker, d) \cup {m}
                                      ELSE Dreamers(asker, d) \ {m}
      /\ \A d : m \in Dreamers(asker, d) <=> asker[m].dreamt = d
  BY <1>2 DEF Dreamers
<1>. QED
  BY <1>2, <1>3, <1>4, <1>5

\* One message goes on, and the replies hold what they held.
LEMMA AskerMoves ==
    ASSUME SleepInv, NEW m \in Messages, NEW to \in Sleepless, AskerSettled(to),
           asker' = [asker EXCEPT ![m] = to],
           to.tells = asker[m].tells, to.dreamt = asker[m].dreamt
    PROVE  /\ asker' \in [Messages -> Sleepless] /\ asker'[m] = to
           /\ \A n \in Messages : n # m => asker'[n] = asker[n]
           /\ \A n \in Messages : AskerSettled(asker'[n])
           /\ \A x : Tellers(asker', x) = Tellers(asker, x)
           /\ \A d : Dreamers(asker', d) = Dreamers(asker, d)
<1>1. /\ asker' \in [Messages -> Sleepless] /\ asker'[m] = to
      /\ \A n \in Messages : n # m => asker'[n] = asker[n]
      /\ \A n \in Messages : AskerSettled(asker'[n])
  BY AskerGoes
<1>2. \A n \in Messages : asker'[n].tells = asker[n].tells /\ asker'[n].dreamt = asker[n].dreamt
  BY <1>1
<1>3. \A x : Tellers(asker', x) = Tellers(asker, x)
  BY <1>2 DEF Tellers
<1>4. \A d : Dreamers(asker', d) = Dreamers(asker, d)
  BY <1>2 DEF Dreamers
<1>. QED
  BY <1>1, <1>3, <1>4

\* What stays in its place stays accounted for.
LEMMA StillAccounted ==
    ASSUME SleepInv, UNCHANGED <<queue, told, cut, dropped, overlap>>,
           \A x : Tellers(asker', x) = Tellers(asker, x),
           \A n \in Messages :
             /\ asker'[n].phase \in {"unsent", "queueing"} => asker[n].phase \in {"unsent", "queueing"}
             /\ asker'[n].phase \in {"counting", "silent"} => asker[n].phase \in {"counting", "silent"}
    PROVE  HeardOnce'
<1>1. \A n \in Messages :
        /\ Nowhere(queue, told, cut, dropped, asker, n) => Nowhere(queue', told', cut', dropped', asker', n)
        /\ Places(queue', told', cut', dropped', asker', n) = Places(queue, told, cut, dropped, asker, n)
  BY DEF Nowhere, Places
<1>. QED
  BY <1>1 DEF SleepInv, HeardOnce

LEMMA StillMentioned ==
    ASSUME SleepInv, UNCHANGED <<dreams, mentions, blurred>>,
           \A d \in Sleeping!Days : Dreamers(asker', d) \subseteq Dreamers(asker, d)
    PROVE  Mentioned'
<1>1. \A d \in Sleeping!Days : Few(Dreamers(asker', d)) <= Few(Dreamers(asker, d))
             /\ Few(Dreamers(asker', d)) \in Nat /\ Few(Dreamers(asker, d)) \in Nat
  <2>1. \A S : Few(S) \in Nat
    BY FewTypes
  <2>. QED
    BY <2>1, FewTypes
<1>2. \A d \in Sleeping!Days : mentions[d] \in Nat
  BY DEF SleepInv, SleepTyped
<1>3. \A d \in Sleeping!Days : mentions[d] + Few(Dreamers(asker, d)) <= 1
                                 => mentions[d] + Few(Dreamers(asker', d)) <= 1
  BY <1>1, <1>2
<1>4. \A d \in Sleeping!Days : Untold(mentions, asker, d) => Untold(mentions, asker', d)
  BY DEF Untold
<1>. QED
  BY <1>3, <1>4 DEF SleepInv, Mentioned

\* The queue and the replies: the types the steps rely on.
LEMMA SleepTypes ==
    ASSUME SleepInv
    PROVE  /\ hour \in Nat /\ slept \in Int /\ Sleeping!Today \in Nat /\ slept <= Sleeping!Today
           /\ queue \in Seq(Messages)
           /\ \A m \in Messages :
                /\ asker[m] \in Sleepless /\ AskerSettled(asker[m])
                /\ asker[m].read \in Seq(Messages) /\ asker[m].tells \in Seq(Messages)
                /\ asker[m].dream \in [day : Int, told : BOOLEAN] /\ asker[m].dreamt \in Int
                /\ told[m] \in Nat
           /\ runner.day \in Int
           /\ dreams \in [day : Int, told : BOOLEAN] /\ dreams.day \in Int
           /\ \A d \in Sleeping!Days : mentions[d] \in Nat
<1>1. /\ hour \in Nat /\ slept \in Int /\ slept <= Sleeping!Today
      /\ queue \in Seq(Messages)
      /\ asker \in [Messages -> Sleepless]
      /\ told \in [Messages -> Nat]
      /\ runner.day \in Int
      /\ dreams \in [day : Int, told : BOOLEAN]
      /\ mentions \in [Sleeping!Days -> Nat]
      /\ \A m \in Messages : AskerSettled(asker[m])
  BY DEF SleepInv, SleepTyped
<1>2. Sleeping!Today \in Nat
  BY <1>1 DEF Sleeping!Today
<1>. QED
  BY <1>1, <1>2 DEF Sleepless

-----------------------------------------------------------------------------
(* The steps *)

LEMMA InitSleep == Sleeping!Init => SleepInv
<1>. SUFFICES ASSUME Sleeping!Init PROVE SleepInv
  OBVIOUS
<1>1. /\ hour = 0 /\ queue = <<>> /\ asker = [m \in Messages |-> Sleeping!Unsent]
      /\ told = [m \in Messages |-> 0] /\ cut = {} /\ dropped = {} /\ overlap = FALSE
      /\ slept = Sleeping!NoDay /\ runner = [phase |-> "idle", day |-> Sleeping!NoDay]
      /\ dreams = Sleeping!NoDream /\ mentions = [d \in Sleeping!Days |-> 0] /\ blurred = FALSE
  BY DEF Sleeping!Init
<1>2. AskerSettled(Sleeping!Unsent) /\ Sleeping!Unsent.phase = "unsent"
  BY UnsentIsTyped DEF AskerSettled, Sleeping!Unsent
<1>3. \A m : Tellers(asker, m) = {}
  BY <1>1, UnsentIsTyped, NoneInEmpty DEF Tellers
<1>4. \A d \in Sleeping!Days : Dreamers(asker, d) = {}
  <2>1. \A d \in Sleeping!Days : d # Sleeping!NoDay
    BY DaysAreNat DEF Sleeping!NoDay
  <2>. QED
    BY <1>1, <2>1, UnsentIsTyped DEF Dreamers
<1>5. SleepTyped
  <2>1. slept \in Int /\ slept <= Sleeping!Today /\ hour \in Nat
    BY <1>1 DEF Sleeping!Today, Sleeping!NoDay
  <2>2. /\ queue \in Seq(Messages) /\ asker \in [Messages -> Sleepless] /\ told \in [Messages -> Nat]
        /\ runner \in [phase : {"idle", "asleep"}, day : Int]
        /\ dreams \in [day : Int, told : BOOLEAN] /\ mentions \in [Sleeping!Days -> Nat]
    BY <1>1, UnsentIsTyped
  <2>3. overlap \in BOOLEAN /\ blurred \in BOOLEAN
    BY <1>1
  <2>. QED
    BY <2>1, <2>2, <2>3 DEF SleepTyped
<1>6. HeardOnce
  <2>1. \A m \in Messages : Nowhere(queue, told, cut, dropped, asker, m)
    BY <1>1, <1>3, NoneInEmpty DEF Nowhere
  <2>. QED
    BY <1>1, <1>2, <2>1 DEF HeardOnce
<1>7. InOrder
  BY <1>1 DEF InOrder, Sleeping!NoDream, Sleeping!NoDay
<1>8. Mentioned
  <2>1. \A d \in Sleeping!Days : Few(Dreamers(asker, d)) = 0 /\ mentions[d] = 0
    BY <1>1, <1>4, FewTypes
  <2>. QED
    BY <1>4, <2>1 DEF Mentioned, Untold
<1>. QED
  BY <1>1, <1>2, <1>5, <1>6, <1>7, <1>8 DEF SleepInv

LEMMA HourStep == ASSUME SleepInv, Sleeping!Tick PROVE SleepInv'
<1>1. /\ hour' = hour + 1
      /\ UNCHANGED <<queue, asker, told, cut, dropped, overlap, slept, runner, dreams, mentions,
                     blurred>>
  BY DEF Sleeping!Tick
<1>2. hour' \in Nat /\ slept <= (hour' + 1) \div 2
  <2>1. hour \in Nat /\ slept \in Int /\ slept <= (hour + 1) \div 2
    BY SleepTypes DEF Sleeping!Today
  <2>2. \A k \in Nat : (k + 1) \div 2 \in Nat /\ (k + 1) \div 2 <= (k + 2) \div 2
                        /\ (k + 2) \div 2 \in Nat
    OBVIOUS
  <2>3. (hour + 1) \div 2 \in Nat /\ (hour + 2) \div 2 \in Nat
        /\ (hour + 1) \div 2 <= (hour + 2) \div 2
    BY <2>1, <2>2
  <2>4. hour' \in Nat /\ hour' + 1 = hour + 2
    BY <1>1, <2>1
  <2>5. slept <= (hour + 2) \div 2
    BY <2>1, <2>3
  <2>. QED
    BY <2>4, <2>5
<1>3. SleepTyped'
  BY <1>1, <1>2 DEF SleepInv, SleepTyped, Sleeping!Today
<1>. QED
  BY <1>1, <1>3 DEF SleepInv, HeardOnce, InOrder, Mentioned

LEMMA ArriveStep == ASSUME SleepInv, NEW m \in Messages, Sleeping!Arrive(m) PROVE SleepInv'
<1>. DEFINE p == IF Sleeping!SleepMode = "deep" THEN "queueing"
                 ELSE IF queue = <<>> THEN "recalling" ELSE "taking"
            to == [Sleeping!Unsent EXCEPT !.phase = p, !.read = queue]
<1>1. /\ asker[m].phase = "unsent"
      /\ asker' = [asker EXCEPT ![m] = to]
      /\ UNCHANGED <<hour, queue, told, cut, dropped, overlap, slept, runner, dreams, mentions,
                     blurred>>
  BY DEF Sleeping!Arrive, Sleeping!At, Sleeping!Step
<1>2. p \in {"queueing", "recalling", "taking"} /\ p \in Sleeping!Phases
  BY DEF Sleeping!Phases
<1>. HIDE DEF p
<1>3. /\ to \in Sleepless /\ to.phase = p /\ to.tells = Sleeping!Unsent.tells
      /\ to.dreamt = Sleeping!Unsent.dreamt
  BY <1>2, UnsentIsTyped, SleepTypes DEF Sleepless
<1>. HIDE DEF to
<1>4. to.tells = <<>> /\ to.dreamt = Sleeping!NoDay /\ AskerSettled(to)
  BY <1>2, <1>3, UnsentIsTyped DEF AskerSettled
<1>5. asker[m].tells = <<>> /\ asker[m].dreamt = Sleeping!NoDay
  BY <1>1, SleepTypes DEF AskerSettled
<1>6. /\ asker' \in [Messages -> Sleepless] /\ asker'[m] = to
      /\ \A n \in Messages : n # m => asker'[n] = asker[n]
      /\ \A n \in Messages : AskerSettled(asker'[n])
      /\ \A x : Tellers(asker', x) = Tellers(asker, x)
      /\ \A d : Dreamers(asker', d) = Dreamers(asker, d)
  BY <1>1, <1>3, <1>4, <1>5, AskerMoves
<1>7. SleepTyped'
  BY <1>1, <1>6 DEF SleepInv, SleepTyped, Sleeping!Today
<1>8. HeardOnce'
  BY <1>1, <1>2, <1>3, <1>6, StillAccounted
<1>9. InOrder' /\ Mentioned'
  BY <1>1, <1>6, StillMentioned DEF SleepInv, InOrder
<1>. QED
  BY <1>6, <1>7, <1>8, <1>9 DEF SleepInv

\* Queueing puts a message in its place, and pushes others from the queue to those cut.
LEMMA QueueAddStep == ASSUME SleepInv, NEW m \in Messages, Sleeping!QueueAdd(m) PROVE SleepInv'
<1>. DEFINE all == Append(asker[m].read, m)
            to == [Sleeping!Unsent EXCEPT !.phase = "counting"]
<1>1. /\ asker[m].phase = "queueing"
      /\ queue' = Sleeping!Newest(all)
      /\ cut' = cut \cup (Sleeping!ToSet(all) \ Sleeping!ToSet(Sleeping!Newest(all)))
      /\ overlap' = (overlap \/ queue # asker[m].read)
      /\ asker' = [asker EXCEPT ![m] = to]
      /\ UNCHANGED <<hour, told, dropped, slept, runner, dreams, mentions, blurred>>
  BY DEF Sleeping!QueueAdd, Sleeping!At, Sleeping!Step
<1>2. asker[m].read \in Seq(Messages)
  BY SleepTypes
<1>3. /\ Sleeping!ToSet(all) = Sleeping!ToSet(asker[m].read) \cup {m}
      /\ queue' \in Seq(Messages) /\ Sleeping!ToSet(queue') \subseteq Sleeping!ToSet(all)
      /\ cut' = cut \cup (Sleeping!ToSet(all) \ Sleeping!ToSet(queue'))
  <2>1. /\ Sleeping!ToSet(all) = Sleeping!ToSet(asker[m].read) \cup {m}
        /\ Sleeping!Newest(all) \in Seq(Messages)
        /\ Sleeping!ToSet(Sleeping!Newest(all)) \subseteq Sleeping!ToSet(asker[m].read) \cup {m}
    BY <1>2, NewestOfQueue
  <2>. HIDE DEF all
  <2>. QED
    BY <1>1, <2>1
<1>. HIDE DEF all
<1>4. /\ to \in Sleepless /\ to.phase = "counting" /\ to.tells = <<>>
      /\ to.dreamt = Sleeping!NoDay /\ AskerSettled(to)
  BY Fallen DEF Sleeping!Phases
<1>. HIDE DEF to
<1>5. asker[m].tells = <<>> /\ asker[m].dreamt = Sleeping!NoDay
  BY <1>1, SleepTypes DEF AskerSettled
<1>6. /\ asker' \in [Messages -> Sleepless] /\ asker'[m] = to
      /\ \A n \in Messages : n # m => asker'[n] = asker[n]
      /\ \A n \in Messages : AskerSettled(asker'[n])
      /\ \A x : Tellers(asker', x) = Tellers(asker, x)
      /\ \A d : Dreamers(asker', d) = Dreamers(asker, d)
  BY <1>1, <1>4, <1>5, AskerMoves
<1>7. overlap' \in BOOLEAN /\ (~overlap' => ~overlap /\ asker[m].read = queue)
  BY <1>1, Zenon DEF SleepInv, SleepTyped
<1>8. SleepTyped'
  <2>1. /\ hour' \in Nat /\ slept' \in Int /\ slept' <= Sleeping!Today'
    BY <1>1 DEF SleepInv, SleepTyped, Sleeping!Today
  <2>. QED
    BY <1>1, <1>3, <1>6, <1>7, <2>1, Zenon DEF SleepInv, SleepTyped
<1>9. HeardOnce'
  <2>. SUFFICES ASSUME ~overlap', NEW n \in Messages
                PROVE  /\ asker'[n].phase \in {"unsent", "queueing"} =>
                            Nowhere(queue', told', cut', dropped', asker', n)
                       /\ asker'[n].phase \in {"counting", "silent"} =>
                            Places(queue', told', cut', dropped', asker', n) = 1
    BY DEF HeardOnce
  <2>1. /\ asker[n].phase \in {"unsent", "queueing"} => Nowhere(queue, told, cut, dropped, asker, n)
        /\ asker[n].phase \in {"counting", "silent"} =>
             Places(queue, told, cut, dropped, asker, n) = 1
    BY <1>7 DEF SleepInv, HeardOnce
  <2>2. told[n] \in Nat /\ Few(Tellers(asker, n)) \in {0, 1, 2} /\ Tellers(asker', n) = Tellers(asker, n)
    BY <1>6, SleepTypes, FewTypes
  <2>3. Sleeping!ToSet(all) = Sleeping!ToSet(queue) \cup {m}
    BY <1>3, <1>7
  <2>4. CASE n # m
    <3>1. n \in Sleeping!ToSet(all) <=> n \in Sleeping!ToSet(queue)
      BY <2>3, <2>4
    <3>2. Nowhere(queue, told, cut, dropped, asker, n) =>
            Nowhere(queue', told', cut', dropped', asker', n)
      BY <1>1, <1>3, <2>2, <3>1 DEF Nowhere
    <3>3. ASSUME Places(queue, told, cut, dropped, asker, n) = 1
          PROVE  Places(queue', told', cut', dropped', asker', n) = 1
      <4>1. CASE n \in Sleeping!ToSet(queue)
        <5>1. n \notin cut
          BY <2>2, <3>3, <4>1 DEF Places, Sleeping!Count
        <5>2. n \in cut' <=> n \notin Sleeping!ToSet(queue')
          BY <1>3, <3>1, <4>1, <5>1
        <5>. QED
          BY <1>1, <2>2, <3>3, <4>1, <5>1, <5>2 DEF Places, Sleeping!Count
      <4>2. CASE n \notin Sleeping!ToSet(queue)
        <5>1. n \notin Sleeping!ToSet(queue') /\ (n \in cut' <=> n \in cut)
          BY <1>3, <3>1, <4>2
        <5>. QED
          BY <1>1, <2>2, <3>3, <4>2, <5>1 DEF Places, Sleeping!Count
      <4>. QED
        BY <4>1, <4>2
    <3>. QED
      BY <1>6, <2>1, <2>4, <3>2, <3>3
  <2>5. CASE n = m
    <3>1. Nowhere(queue, told, cut, dropped, asker, n)
      BY <1>1, <2>1, <2>5
    <3>2. n \in cut' <=> n \notin Sleeping!ToSet(queue')
      BY <1>3, <2>3, <2>5, <3>1 DEF Nowhere
    <3>3. told'[n] = 0 /\ n \notin dropped' /\ Few(Tellers(asker', n)) = 0
      BY <1>1, <2>2, <3>1, FewTypes DEF Nowhere
    <3>4. Places(queue', told', cut', dropped', asker', n) = 1
      BY <3>2, <3>3 DEF Places, Sleeping!Count
    <3>. QED
      BY <1>4, <1>6, <2>5, <3>4
  <2>. QED
    BY <2>4, <2>5
<1>10. InOrder' /\ Mentioned'
  BY <1>1, <1>6, StillMentioned DEF SleepInv, InOrder
<1>. QED
  BY <1>6, <1>8, <1>9, <1>10 DEF SleepInv

LEMMA EmergencyWakeStep ==
    ASSUME SleepInv, NEW m \in Messages, Sleeping!EmergencyWake(m) PROVE SleepInv'
<1>1. /\ asker[m].phase = "counting"
      /\ \E p \in {"recalling", "silent"} :
           asker' = [asker EXCEPT ![m] = [Sleeping!Unsent EXCEPT !.phase = p]]
      /\ UNCHANGED <<hour, queue, told, cut, dropped, overlap, slept, runner, dreams, mentions,
                     blurred>>
  BY DEF Sleeping!EmergencyWake, Sleeping!At, Sleeping!Step
<1>2. PICK p \in {"recalling", "silent"} :
        asker' = [asker EXCEPT ![m] = [Sleeping!Unsent EXCEPT !.phase = p]]
  BY <1>1
<1>. DEFINE to == [Sleeping!Unsent EXCEPT !.phase = p]
<1>3. /\ to \in Sleepless /\ to.phase = p /\ to.tells = <<>> /\ to.dreamt = Sleeping!NoDay
      /\ AskerSettled(to)
  BY Fallen DEF Sleeping!Phases
<1>4. asker' = [asker EXCEPT ![m] = to]
  BY <1>2
<1>. HIDE DEF to
<1>5. asker[m].tells = <<>> /\ asker[m].dreamt = Sleeping!NoDay
  BY <1>1, SleepTypes DEF AskerSettled
<1>6. /\ asker' \in [Messages -> Sleepless] /\ asker'[m] = to
      /\ \A n \in Messages : n # m => asker'[n] = asker[n]
      /\ \A n \in Messages : AskerSettled(asker'[n])
      /\ \A x : Tellers(asker', x) = Tellers(asker, x)
      /\ \A d : Dreamers(asker', d) = Dreamers(asker, d)
  BY <1>3, <1>4, <1>5, AskerMoves
<1>7. SleepTyped'
  BY <1>1, <1>6 DEF SleepInv, SleepTyped, Sleeping!Today
<1>8. HeardOnce'
  BY <1>1, <1>3, <1>6, StillAccounted
<1>9. InOrder' /\ Mentioned'
  BY <1>1, <1>6, StillMentioned DEF SleepInv, InOrder
<1>. QED
  BY <1>6, <1>7, <1>8, <1>9 DEF SleepInv

\* What is taken from the queue is in the reply.
LEMMA QueueTakeStep == ASSUME SleepInv, NEW m \in Messages, Sleeping!QueueTake(m) PROVE SleepInv'
<1>. DEFINE to == [Sleeping!Unsent EXCEPT !.phase = "recalling", !.tells = asker[m].read]
<1>1. /\ asker[m].phase = "taking"
      /\ queue' = <<>>
      /\ overlap' = (overlap \/ queue # asker[m].read)
      /\ asker' = [asker EXCEPT ![m] = to]
      /\ UNCHANGED <<hour, told, cut, dropped, slept, runner, dreams, mentions, blurred>>
  BY DEF Sleeping!QueueTake, Sleeping!At, Sleeping!Step
<1>2. /\ to \in Sleepless /\ to.phase = "recalling" /\ to.tells = asker[m].read
      /\ to.dreamt = Sleeping!Unsent.dreamt
  <2>1. "recalling" \in Sleeping!Phases
    BY DEF Sleeping!Phases
  <2>. QED
    BY <2>1, UnsentIsTyped, SleepTypes DEF Sleepless
<1>. HIDE DEF to
<1>3. to.dreamt = Sleeping!NoDay /\ AskerSettled(to)
  BY <1>2, UnsentIsTyped DEF AskerSettled
<1>4. asker[m].tells = <<>> /\ asker[m].dreamt = Sleeping!NoDay
  BY <1>1, SleepTypes DEF AskerSettled
<1>5. /\ asker' \in [Messages -> Sleepless] /\ asker'[m] = to
      /\ \A n \in Messages : n # m => asker'[n] = asker[n]
      /\ \A n \in Messages : AskerSettled(asker'[n])
      /\ \A x : Tellers(asker', x) = IF x \in Sleeping!ToSet(asker[m].read)
                                     THEN Tellers(asker, x) \cup {m} ELSE Tellers(asker, x)
      /\ \A d : Dreamers(asker', d) = Dreamers(asker, d)
  <2>1. \A x : m \notin Tellers(asker, x)
    BY <1>4, NoneInEmpty DEF Tellers
  <2>2. /\ asker' \in [Messages -> Sleepless] /\ asker'[m] = to
        /\ \A n \in Messages : n # m => asker'[n] = asker[n]
        /\ \A n \in Messages : AskerSettled(asker'[n])
        /\ \A x : Tellers(asker', x) = IF x \in Sleeping!ToSet(to.tells)
                                       THEN Tellers(asker, x) \cup {m} ELSE Tellers(asker, x) \ {m}
    BY <1>1, <1>2, <1>3, AskerGoes
  <2>3. \A n \in Messages : asker'[n].dreamt = asker[n].dreamt
    BY <1>3, <1>4, <2>2
  <2>4. \A d : Dreamers(asker', d) = Dreamers(asker, d)
    BY <2>3 DEF Dreamers
  <2>5. \A x : Tellers(asker, x) \ {m} = Tellers(asker, x)
    BY <2>1
  <2>. QED
    BY <1>2, <2>2, <2>4, <2>5
<1>6. overlap' \in BOOLEAN /\ (~overlap' => ~overlap /\ asker[m].read = queue)
  BY <1>1, Zenon DEF SleepInv, SleepTyped
<1>7. SleepTyped'
  <2>1. /\ hour' \in Nat /\ slept' \in Int /\ slept' <= Sleeping!Today' /\ queue' \in Seq(Messages)
    BY <1>1 DEF SleepInv, SleepTyped, Sleeping!Today
  <2>. QED
    BY <1>1, <1>5, <1>6, <2>1, Zenon DEF SleepInv, SleepTyped
<1>8. HeardOnce'
  <2>. SUFFICES ASSUME ~overlap', NEW n \in Messages
                PROVE  /\ asker'[n].phase \in {"unsent", "queueing"} =>
                            Nowhere(queue', told', cut', dropped', asker', n)
                       /\ asker'[n].phase \in {"counting", "silent"} =>
                            Places(queue', told', cut', dropped', asker', n) = 1
    BY DEF HeardOnce
  <2>1. /\ asker[n].phase \in {"unsent", "queueing"} => Nowhere(queue, told, cut, dropped, asker, n)
        /\ asker[n].phase \in {"counting", "silent"} =>
             Places(queue, told, cut, dropped, asker, n) = 1
        /\ Sleeping!ToSet(queue') = {}
    BY <1>1, <1>6, NoneInEmpty DEF SleepInv, HeardOnce
  <2>2. told[n] \in Nat /\ Few(Tellers(asker, n)) \in {0, 1, 2}
        /\ (Few(Tellers(asker, n)) = 0 => Tellers(asker, n) = {}) /\ Few({m}) = 1
    BY SleepTypes, FewTypes
  <2>3. asker'[n].phase = asker[n].phase \/ asker'[n].phase = "recalling"
    BY <1>2, <1>5
  <2>4. Tellers(asker', n) = IF n \in Sleeping!ToSet(queue)
                             THEN Tellers(asker, n) \cup {m} ELSE Tellers(asker, n)
    BY <1>5, <1>6
  <2>5. Nowhere(queue, told, cut, dropped, asker, n) =>
          Nowhere(queue', told', cut', dropped', asker', n)
    BY <1>1, <2>1, <2>4 DEF Nowhere
  <2>6. ASSUME Places(queue, told, cut, dropped, asker, n) = 1
        PROVE  Places(queue', told', cut', dropped', asker', n) = 1
    <3>1. CASE n \in Sleeping!ToSet(queue)
      <4>1. Few(Tellers(asker, n)) = 0
        BY <2>2, <2>6, <3>1 DEF Places, Sleeping!Count
      <4>2. Tellers(asker', n) = {m}
        BY <2>2, <2>4, <3>1, <4>1
      <4>3. Few(Tellers(asker', n)) = 1 /\ n \notin Sleeping!ToSet(queue')
        BY <2>1, <2>2, <4>2
      <4>4. told[n] = 0 /\ n \notin cut /\ n \notin dropped
        BY <2>2, <2>6, <3>1, <4>1 DEF Places, Sleeping!Count
      <4>. QED
        BY <1>1, <4>3, <4>4 DEF Places, Sleeping!Count
    <3>2. CASE n \notin Sleeping!ToSet(queue)
      BY <1>1, <2>1, <2>4, <2>6, <3>2 DEF Places, Sleeping!Count
    <3>. QED
      BY <3>1, <3>2
  <2>. QED
    BY <2>1, <2>3, <2>5, <2>6
<1>9. InOrder' /\ Mentioned'
  BY <1>1, <1>5, StillMentioned DEF SleepInv, InOrder
<1>. QED
  BY <1>5, <1>7, <1>8, <1>9 DEF SleepInv

LEMMA RecallStep == ASSUME SleepInv, NEW m \in Messages, Sleeping!Recall(m) PROVE SleepInv'
<1>. DEFINE pass == [asker[m] EXCEPT !.phase = "answering"]
            mention == [asker[m] EXCEPT !.phase = "mentioning", !.dream = dreams]
<1>1. /\ asker[m].phase = "recalling"
      /\ \/ asker' = [asker EXCEPT ![m] = pass]
         \/ ~dreams.told /\ asker' = [asker EXCEPT ![m] = mention]
      /\ UNCHANGED <<hour, queue, told, cut, dropped, overlap, slept, runner, dreams, mentions,
                     blurred>>
  BY DEF Sleeping!Recall, Sleeping!At, Sleeping!Step
<1>2. /\ asker[m] \in Sleepless /\ asker[m].dreamt = Sleeping!NoDay
      /\ dreams \in [day : Int, told : BOOLEAN]
      /\ "answering" \in Sleeping!Phases /\ "mentioning" \in Sleeping!Phases
  BY <1>1, SleepTypes DEF AskerSettled, Sleeping!Phases
<1>3. /\ pass \in Sleepless /\ pass.phase = "answering" /\ pass.tells = asker[m].tells
      /\ pass.dreamt = asker[m].dreamt
  BY <1>2 DEF Sleepless
<1>4. /\ mention \in Sleepless /\ mention.phase = "mentioning" /\ mention.tells = asker[m].tells
      /\ mention.dreamt = asker[m].dreamt /\ mention.dream = dreams
  BY <1>2 DEF Sleepless
<1>. HIDE DEF pass, mention
<1>5. AskerSettled(pass) /\ (~dreams.told => AskerSettled(mention))
  BY <1>2, <1>3, <1>4 DEF AskerSettled
<1>6. PICK to \in Sleepless :
        /\ asker' = [asker EXCEPT ![m] = to] /\ AskerSettled(to)
        /\ to.tells = asker[m].tells /\ to.dreamt = asker[m].dreamt
        /\ to.phase \in {"answering", "mentioning"}
  BY <1>1, <1>3, <1>4, <1>5
<1>7. /\ asker' \in [Messages -> Sleepless] /\ asker'[m] = to
      /\ \A n \in Messages : n # m => asker'[n] = asker[n]
      /\ \A n \in Messages : AskerSettled(asker'[n])
      /\ \A x : Tellers(asker', x) = Tellers(asker, x)
      /\ \A d : Dreamers(asker', d) = Dreamers(asker, d)
  BY <1>6, AskerMoves
<1>8. SleepTyped'
  BY <1>1, <1>7 DEF SleepInv, SleepTyped, Sleeping!Today
<1>9. HeardOnce'
  BY <1>1, <1>6, <1>7, StillAccounted
<1>10. InOrder' /\ Mentioned'
  BY <1>1, <1>7, StillMentioned DEF SleepInv, InOrder
<1>. QED
  BY <1>7, <1>8, <1>9, <1>10 DEF SleepInv

\* The dream that is mentioned was not told, unless the dreams were written meanwhile.
LEMMA MentionStep == ASSUME SleepInv, NEW m \in Messages, Sleeping!Mention(m) PROVE SleepInv'
<1>. DEFINE day == asker[m].dream.day
            to == [asker[m] EXCEPT !.phase = "answering", !.dream = Sleeping!NoDream,
                                   !.dreamt = asker[m].dream.day]
<1>1. /\ asker[m].phase = "mentioning"
      /\ dreams' = [asker[m].dream EXCEPT !.told = TRUE]
      /\ blurred' = (blurred \/ dreams # asker[m].dream)
      /\ asker' = [asker EXCEPT ![m] = to]
      /\ UNCHANGED <<hour, queue, told, cut, dropped, overlap, slept, runner, mentions>>
  BY DEF Sleeping!Mention, Sleeping!At, Sleeping!Step
<1>2. /\ asker[m] \in Sleepless /\ asker[m].dreamt = Sleeping!NoDay /\ ~asker[m].dream.told
      /\ asker[m].dream \in [day : Int, told : BOOLEAN] /\ day \in Int
      /\ "answering" \in Sleeping!Phases
  BY <1>1, SleepTypes DEF AskerSettled, Sleeping!Phases
<1>3. /\ to \in Sleepless /\ to.phase = "answering" /\ to.tells = asker[m].tells
      /\ to.dreamt = day
  BY <1>2, UnsentIsTyped DEF Sleepless
<1>4. /\ dreams' \in [day : Int, told : BOOLEAN] /\ dreams'.day = day /\ dreams'.told
  BY <1>1, <1>2
<1>. HIDE DEF to, day
<1>5. AskerSettled(to)
  BY <1>3 DEF AskerSettled
<1>6. /\ asker' \in [Messages -> Sleepless] /\ asker'[m] = to
      /\ \A n \in Messages : n # m => asker'[n] = asker[n]
      /\ \A n \in Messages : AskerSettled(asker'[n])
      /\ \A d : Dreamers(asker', d) = IF d = day THEN Dreamers(asker, d) \cup {m}
                                      ELSE Dreamers(asker, d) \ {m}
  <2>1. /\ asker' \in [Messages -> Sleepless] /\ asker'[m] = to
        /\ \A n \in Messages : n # m => asker'[n] = asker[n]
        /\ \A n \in Messages : AskerSettled(asker'[n])
    BY <1>1, <1>3, <1>5, AskerGoes
  <2>2. \A d : Dreamers(asker', d) = IF d = day THEN Dreamers(asker, d) \cup {m}
                                    ELSE Dreamers(asker, d) \ {m}
    BY <1>3, <2>1 DEF Dreamers
  <2>. QED
    BY <2>1, <2>2
<1>7. \A x : Tellers(asker', x) = Tellers(asker, x)
  <2>1. \A n \in Messages : asker'[n].tells = asker[n].tells
    BY <1>3, <1>6
  <2>. QED
    BY <2>1 DEF Tellers
<1>8. blurred' \in BOOLEAN /\ (~blurred' => ~blurred /\ dreams = asker[m].dream)
  BY <1>1, Zenon DEF SleepInv, SleepTyped
<1>9. SleepTyped'
  <2>1. hour' \in Nat /\ slept' \in Int /\ slept' <= Sleeping!Today'
    BY <1>1 DEF SleepInv, SleepTyped, Sleeping!Today
  <2>. QED
    BY <1>1, <1>4, <1>6, <1>8, <2>1, Zenon DEF SleepInv, SleepTyped
<1>10. HeardOnce'
  BY <1>1, <1>3, <1>6, <1>7, StillAccounted
<1>11. InOrder'
  <2>1. ~blurred' => dreams'.day = dreams.day /\ ~blurred
    BY <1>4, <1>8, Zenon DEF day
  <2>. QED
    BY <1>1, <2>1 DEF SleepInv, InOrder
<1>12. Mentioned'
  <2>. SUFFICES ASSUME ~blurred', NEW d \in Sleeping!Days
                PROVE  /\ mentions'[d] + Few(Dreamers(asker', d)) <= 1
                       /\ d > dreams'.day \/ (d = dreams'.day /\ ~dreams'.told)
                            => Untold(mentions', asker', d)
    BY DEF Mentioned
  <2>1. /\ mentions[d] + Few(Dreamers(asker, d)) <= 1
        /\ d > dreams.day \/ (d = dreams.day /\ ~dreams.told) => Untold(mentions, asker, d)
        /\ dreams.day = day /\ ~dreams.told /\ dreams = asker[m].dream
    BY <1>2, <1>8 DEF SleepInv, Mentioned, day
  <2>2. d # Sleeping!NoDay /\ m \notin Dreamers(asker, d)
    BY <1>2, DaysAreNat DEF Dreamers, Sleeping!NoDay
  <2>3. Dreamers(asker', d) = IF d = day THEN Dreamers(asker, d) \cup {m} ELSE Dreamers(asker, d)
    BY <1>6, <2>2
  <2>4. CASE d = day
    <3>1. mentions[d] = 0 /\ Dreamers(asker, d) = {}
      BY <2>1, <2>4 DEF Untold
    <3>2. Few(Dreamers(asker', d)) = 1
      BY <2>3, <2>4, <3>1, FewTypes
    <3>3. ~(d > day)
      BY <1>2, <2>4
    <3>. QED
      BY <1>1, <1>4, <2>4, <3>1, <3>2, <3>3
  <2>5. CASE d # day
    <3>1. Untold(mentions, asker, d) => Untold(mentions', asker', d)
      BY <1>1, <2>3, <2>5 DEF Untold
    <3>. QED
      BY <1>1, <1>4, <2>1, <2>3, <2>5, <3>1
  <2>. QED
    BY <2>4, <2>5
<1>. QED
  BY <1>6, <1>9, <1>10, <1>11, <1>12 DEF SleepInv

\* What a reply told of, told it once.
LEMMA AnswerStep == ASSUME SleepInv, NEW m \in Messages, Sleeping!Answer(m) PROVE SleepInv'
<1>. DEFINE to == [Sleeping!Unsent EXCEPT !.phase = "answered"]
            day == asker[m].dreamt
<1>1. /\ asker[m].phase = "answering"
      /\ told' = [n \in Messages |-> told[n] + (IF n \in Sleeping!ToSet(asker[m].tells) THEN 1 ELSE 0)]
      /\ mentions' = [d \in Sleeping!Days |-> mentions[d] + (IF d = day THEN 1 ELSE 0)]
      /\ asker' = [asker EXCEPT ![m] = to]
      /\ UNCHANGED <<hour, queue, cut, dropped, overlap, slept, runner, dreams, blurred>>
  BY DEF Sleeping!Answer, Sleeping!At, Sleeping!Step
<1>2. /\ to \in Sleepless /\ to.phase = "answered" /\ to.tells = <<>>
      /\ to.dreamt = Sleeping!NoDay /\ AskerSettled(to)
  BY Fallen DEF Sleeping!Phases
<1>. HIDE DEF to
<1>3. /\ asker' \in [Messages -> Sleepless] /\ asker'[m] = to
      /\ \A n \in Messages : n # m => asker'[n] = asker[n]
      /\ \A n \in Messages : AskerSettled(asker'[n])
      /\ \A x : m \in Tellers(asker, x) <=> x \in Sleeping!ToSet(asker[m].tells)
      /\ \A d : m \in Dreamers(asker, d) <=> d = day
  BY <1>1, <1>2, AskerGoes
<1>4. \A x : Tellers(asker', x) = Tellers(asker, x) \ {m}
  BY <1>2, <1>3, NoneInEmpty DEF Tellers
<1>5. \A d \in Sleeping!Days : Dreamers(asker', d) = Dreamers(asker, d) \ {m}
  <2>1. \A d \in Sleeping!Days : d # Sleeping!NoDay
    BY DaysAreNat DEF Sleeping!NoDay
  <2>. QED
    BY <1>2, <1>3, <2>1 DEF Dreamers
<1>. HIDE DEF day
<1>6. told' \in [Messages -> Nat] /\ mentions' \in [Sleeping!Days -> Nat]
  BY <1>1, SleepTypes
<1>7. SleepTyped'
  BY <1>1, <1>3, <1>6 DEF SleepInv, SleepTyped, Sleeping!Today
<1>8. HeardOnce'
  <2>. SUFFICES ASSUME ~overlap, NEW n \in Messages
                PROVE  /\ asker'[n].phase \in {"unsent", "queueing"} =>
                            Nowhere(queue', told', cut', dropped', asker', n)
                       /\ asker'[n].phase \in {"counting", "silent"} =>
                            Places(queue', told', cut', dropped', asker', n) = 1
    BY <1>1 DEF HeardOnce
  <2>1. /\ asker[n].phase \in {"unsent", "queueing"} => Nowhere(queue, told, cut, dropped, asker, n)
        /\ asker[n].phase \in {"counting", "silent"} =>
             Places(queue, told, cut, dropped, asker, n) = 1
    BY DEF SleepInv, HeardOnce
  <2>2. /\ told[n] \in Nat /\ Few(Tellers(asker, n)) \in {0, 1, 2}
        /\ told'[n] = told[n] + (IF m \in Tellers(asker, n) THEN 1 ELSE 0)
        /\ Tellers(asker', n) = Tellers(asker, n) \ {m}
    <3>1. told[n] \in Nat /\ Few(Tellers(asker, n)) \in {0, 1, 2}
      BY SleepTypes, FewTypes
    <3>2. told'[n] = told[n] + (IF n \in Sleeping!ToSet(asker[m].tells) THEN 1 ELSE 0)
      BY <1>1
    <3>3. m \in Tellers(asker, n) <=> n \in Sleeping!ToSet(asker[m].tells)
      BY <1>3
    <3>4. told'[n] = told[n] + (IF m \in Tellers(asker, n) THEN 1 ELSE 0)
      BY <3>2, <3>3, Zenon
    <3>. QED
      BY <1>4, <3>1, <3>4
  <2>3. asker'[n].phase = asker[n].phase \/ asker'[n].phase = "answered"
    BY <1>2, <1>3
  <2>4. Nowhere(queue, told, cut, dropped, asker, n) =>
          Nowhere(queue', told', cut', dropped', asker', n)
    <3>. SUFFICES ASSUME Nowhere(queue, told, cut, dropped, asker, n)
                  PROVE  Nowhere(queue', told', cut', dropped', asker', n)
      OBVIOUS
    <3>1. told[n] = 0 /\ Tellers(asker, n) = {}
      BY DEF Nowhere
    <3>2. told'[n] = 0 /\ Tellers(asker', n) = {}
      BY <2>2, <3>1
    <3>. QED
      BY <1>1, <3>2 DEF Nowhere
  <2>5. ASSUME Places(queue, told, cut, dropped, asker, n) = 1
        PROVE  Places(queue', told', cut', dropped', asker', n) = 1
    <3>1. CASE m \in Tellers(asker, n)
      <4>1. Few(Tellers(asker, n)) <= 1
        BY <2>2, <2>5 DEF Places, Sleeping!Count
      <4>2. Tellers(asker, n) = {m} /\ Tellers(asker', n) = {}
        BY <2>2, <3>1, <4>1, FewTypes
      <4>3. Few(Tellers(asker, n)) = 1 /\ Few(Tellers(asker', n)) = 0
        BY <4>2, FewTypes
      <4>4. told'[n] = told[n] + 1 /\ told[n] \in Nat
        BY <2>2, <3>1
      <4>5. told[n] = 0 /\ n \notin Sleeping!ToSet(queue) /\ n \notin cut /\ n \notin dropped
        BY <2>5, <4>3, <4>4 DEF Places, Sleeping!Count
      <4>. QED
        BY <1>1, <4>3, <4>4, <4>5 DEF Places, Sleeping!Count
    <3>2. CASE m \notin Tellers(asker, n)
      <4>1. Tellers(asker', n) = Tellers(asker, n) /\ told'[n] = told[n]
        BY <2>2, <3>2
      <4>. QED
        BY <1>1, <2>5, <4>1 DEF Places
    <3>. QED
      BY <3>1, <3>2
  <2>. QED
    BY <2>1, <2>3, <2>4, <2>5
<1>9. InOrder'
  BY <1>1 DEF SleepInv, InOrder
<1>10. Mentioned'
  <2>. SUFFICES ASSUME ~blurred, NEW d \in Sleeping!Days
                PROVE  /\ mentions'[d] + Few(Dreamers(asker', d)) <= 1
                       /\ d > dreams.day \/ (d = dreams.day /\ ~dreams.told)
                            => Untold(mentions', asker', d)
    BY <1>1 DEF Mentioned
  <2>1. /\ mentions[d] + Few(Dreamers(asker, d)) <= 1
        /\ d > dreams.day \/ (d = dreams.day /\ ~dreams.told) => Untold(mentions, asker, d)
    BY DEF SleepInv, Mentioned
  <2>2. /\ mentions[d] \in Nat /\ Few(Dreamers(asker, d)) \in {0, 1, 2}
        /\ mentions'[d] = mentions[d] + (IF m \in Dreamers(asker, d) THEN 1 ELSE 0)
        /\ Dreamers(asker', d) = Dreamers(asker, d) \ {m}
    BY <1>1, <1>3, <1>5, SleepTypes, FewTypes
  <2>3. CASE m \in Dreamers(asker, d)
    <3>1. Few(Dreamers(asker, d)) <= 1
      BY <2>1, <2>2
    <3>2. Dreamers(asker, d) = {m} /\ Dreamers(asker', d) = {}
      BY <2>2, <2>3, <3>1, FewTypes
    <3>3. Few(Dreamers(asker, d)) = 1 /\ Few(Dreamers(asker', d)) = 0
      BY <3>2, FewTypes
    <3>4. ~Untold(mentions, asker, d)
      BY <3>2 DEF Untold
    <3>. QED
      BY <2>1, <2>2, <2>3, <3>3, <3>4
  <2>4. CASE m \notin Dreamers(asker, d)
    <3>1. Dreamers(asker', d) = Dreamers(asker, d) /\ mentions'[d] = mentions[d]
      BY <2>2, <2>4
    <3>. QED
      BY <2>1, <3>1 DEF Untold
  <2>. QED
    BY <2>3, <2>4
<1>. QED
  BY <1>3, <1>7, <1>8, <1>9, <1>10 DEF SleepInv

\* The places of a message when replies end and what they held is dropped: r is
\* what is dropped then, f what the messages are doing then.
LEMMA DroppedReplies ==
    ASSUME SleepInv, NEW n \in Messages, NEW f, NEW r,
           \/ Tellers(f, n) = Tellers(asker, n) /\ (n \in r <=> n \in dropped)
           \/ /\ Tellers(asker, n) # {} /\ n \in r
              /\ Few(Tellers(asker, n)) <= 1 => Tellers(f, n) = {}
    PROVE  /\ Nowhere(queue, told, cut, dropped, asker, n) => Nowhere(queue, told, cut, r, f, n)
           /\ Places(queue, told, cut, dropped, asker, n) = 1
                => Places(queue, told, cut, r, f, n) = 1
<1>1. told[n] \in Nat /\ Few(Tellers(asker, n)) \in {0, 1, 2}
      /\ (Few(Tellers(asker, n)) = 0 <=> Tellers(asker, n) = {})
  BY SleepTypes, FewTypes
<1>2. CASE Tellers(f, n) = Tellers(asker, n) /\ (n \in r <=> n \in dropped)
  BY <1>2 DEF Nowhere, Places, Sleeping!Count
<1>3. CASE /\ Tellers(asker, n) # {} /\ n \in r
           /\ Few(Tellers(asker, n)) <= 1 => Tellers(f, n) = {}
  <2>1. ~Nowhere(queue, told, cut, dropped, asker, n)
    BY <1>3 DEF Nowhere
  <2>2. ASSUME Places(queue, told, cut, dropped, asker, n) = 1
        PROVE  Places(queue, told, cut, r, f, n) = 1
    <3>1. told[n] = 0 /\ n \notin Sleeping!ToSet(queue) /\ n \notin cut
          /\ Few(Tellers(asker, n)) <= 1
      BY <1>1, <1>3, <2>2 DEF Places, Sleeping!Count
    <3>2. Tellers(f, n) = {} /\ Few({}) = 0
      BY <1>3, <3>1, FewTypes
    <3>. QED
      BY <1>3, <3>1, <3>2 DEF Places, Sleeping!Count
  <2>. QED
    BY <2>1, <2>2
<1>. QED
  BY <1>2, <1>3

\* What a failed reply would have told is dropped.
LEMMA FailStep == ASSUME SleepInv, NEW m \in Messages, Sleeping!Fail(m) PROVE SleepInv'
<1>. DEFINE to == [Sleeping!Unsent EXCEPT !.phase = "failed"]
<1>1. /\ asker[m].phase = "answering"
      /\ dropped' = dropped \cup Sleeping!ToSet(asker[m].tells)
      /\ asker' = [asker EXCEPT ![m] = to]
      /\ UNCHANGED <<hour, queue, told, cut, overlap, slept, runner, dreams, mentions, blurred>>
  BY DEF Sleeping!Fail, Sleeping!At, Sleeping!Step
<1>2. /\ to \in Sleepless /\ to.phase = "failed" /\ to.tells = <<>>
      /\ to.dreamt = Sleeping!NoDay /\ AskerSettled(to)
  BY Fallen DEF Sleeping!Phases
<1>. HIDE DEF to
<1>3. /\ asker' \in [Messages -> Sleepless] /\ asker'[m] = to
      /\ \A n \in Messages : n # m => asker'[n] = asker[n]
      /\ \A n \in Messages : AskerSettled(asker'[n])
      /\ \A x : m \in Tellers(asker, x) <=> x \in Sleeping!ToSet(asker[m].tells)
  BY <1>1, <1>2, AskerGoes
<1>4. \A x : Tellers(asker', x) = Tellers(asker, x) \ {m}
  BY <1>2, <1>3, NoneInEmpty DEF Tellers
<1>5. \A d \in Sleeping!Days : Dreamers(asker', d) \subseteq Dreamers(asker, d)
  <2>1. \A d \in Sleeping!Days : d # Sleeping!NoDay
    BY DaysAreNat DEF Sleeping!NoDay
  <2>. QED
    BY <1>2, <1>3, <2>1 DEF Dreamers
<1>6. SleepTyped'
  BY <1>1, <1>3 DEF SleepInv, SleepTyped, Sleeping!Today
<1>7. HeardOnce'
  <2>. SUFFICES ASSUME ~overlap, NEW n \in Messages
                PROVE  /\ asker'[n].phase \in {"unsent", "queueing"} =>
                            Nowhere(queue, told, cut, dropped', asker', n)
                       /\ asker'[n].phase \in {"counting", "silent"} =>
                            Places(queue, told, cut, dropped', asker', n) = 1
    BY <1>1 DEF HeardOnce
  <2>1. /\ asker[n].phase \in {"unsent", "queueing"} => Nowhere(queue, told, cut, dropped, asker, n)
        /\ asker[n].phase \in {"counting", "silent"} =>
             Places(queue, told, cut, dropped, asker, n) = 1
    BY DEF SleepInv, HeardOnce
  <2>2. asker'[n].phase = asker[n].phase \/ asker'[n].phase = "failed"
    BY <1>2, <1>3
  <2>3. CASE m \notin Tellers(asker, n)
    <3>1. Tellers(asker', n) = Tellers(asker, n)
      BY <1>4, <2>3
    <3>2. n \in dropped' <=> n \in dropped
      BY <1>1, <1>3, <2>3
    <3>. QED
      BY <2>1, <2>2, <3>1, <3>2, DroppedReplies
  <2>4. CASE m \in Tellers(asker, n)
    <3>1. Tellers(asker, n) # {} /\ n \in dropped'
      BY <1>1, <1>3, <2>4
    <3>2. Few(Tellers(asker, n)) <= 1 => Tellers(asker', n) = {}
      BY <1>4, <2>4, FewTypes
    <3>. QED
      BY <2>1, <2>2, <3>1, <3>2, DroppedReplies
  <2>. QED
    BY <2>3, <2>4
<1>8. InOrder' /\ Mentioned'
  BY <1>1, <1>5, StillMentioned DEF SleepInv, InOrder
<1>. QED
  BY <1>3, <1>6, <1>7, <1>8 DEF SleepInv

LEMMA FallStep == ASSUME SleepInv, Sleeping!Fall PROVE SleepInv'
<1>1. /\ slept # Sleeping!Today /\ slept' = Sleeping!Today
      /\ runner' = [phase |-> "asleep", day |-> Sleeping!Today]
      /\ UNCHANGED <<hour, queue, asker, told, cut, dropped, overlap, dreams, mentions, blurred>>
  BY DEF Sleeping!Fall
<1>2. /\ Sleeping!Today \in Nat /\ slept \in Int /\ slept < Sleeping!Today
  BY <1>1, SleepTypes
<1>3. /\ runner' \in [phase : {"idle", "asleep"}, day : Int] /\ runner'.day = Sleeping!Today
  BY <1>1, <1>2
<1>4. SleepTyped'
  <2>1. slept' \in Int /\ slept' <= Sleeping!Today'
    BY <1>1, <1>2 DEF Sleeping!Today
  <2>. QED
    BY <1>1, <1>3, <2>1 DEF SleepInv, SleepTyped
<1>5. InOrder'
  <2>1. ~blurred => dreams.day < slept'
    BY <1>1, <1>2, SleepTypes DEF SleepInv, InOrder
  <2>2. dreams.day \in Int /\ slept' \in Int
    BY <1>1, <1>2, SleepTypes
  <2>. QED
    BY <1>1, <1>3, <2>1, <2>2 DEF InOrder
<1>6. HeardOnce' /\ Mentioned' /\ \A m \in Messages : AskerSettled(asker'[m])
  BY <1>1 DEF SleepInv, HeardOnce, Mentioned
<1>. QED
  BY <1>4, <1>5, <1>6 DEF SleepInv

\* The dreams of a night are of a later day than those before.
LEMMA DreamStep == ASSUME SleepInv, Sleeping!Dream PROVE SleepInv'
<1>1. /\ runner.phase = "asleep"
      /\ dreams' = [day |-> runner.day, told |-> FALSE]
      /\ runner' = [phase |-> "idle", day |-> Sleeping!NoDay]
      /\ UNCHANGED <<hour, queue, asker, told, cut, dropped, overlap, slept, mentions, blurred>>
  BY DEF Sleeping!Dream
<1>2. /\ dreams' \in [day : Int, told : BOOLEAN] /\ dreams'.day = runner.day
      /\ runner' \in [phase : {"idle", "asleep"}, day : Int] /\ runner'.phase = "idle"
      /\ runner.day \in Int /\ dreams.day \in Int /\ slept \in Int
  BY <1>1, UnsentIsTyped, SleepTypes
<1>3. SleepTyped'
  BY <1>1, <1>2 DEF SleepInv, SleepTyped, Sleeping!Today
<1>4. InOrder'
  BY <1>1, <1>2 DEF SleepInv, InOrder
<1>5. Mentioned'
  <2>. SUFFICES ASSUME ~blurred, NEW d \in Sleeping!Days
                PROVE  /\ mentions[d] + Few(Dreamers(asker, d)) <= 1
                       /\ d >= runner.day => Untold(mentions, asker, d)
    BY <1>1, <1>2, DaysAreNat DEF Mentioned
  <2>1. dreams.day < runner.day
    BY <1>1 DEF SleepInv, InOrder
  <2>2. d >= runner.day => d > dreams.day
    BY <1>2, <2>1, DaysAreNat
  <2>. QED
    BY <2>2 DEF SleepInv, Mentioned
<1>6. HeardOnce' /\ \A m \in Messages : AskerSettled(asker'[m])
  BY <1>1 DEF SleepInv, HeardOnce
<1>. QED
  BY <1>3, <1>4, <1>5, <1>6 DEF SleepInv

LEMMA SleepRestartStep == ASSUME SleepInv, Sleeping!Restart PROVE SleepInv'
<1>. DEFINE ended == {"unsent", "silent", "answered", "failed"}
            to == [Sleeping!Unsent EXCEPT !.phase = "failed"]
<1>1. /\ dropped' = dropped \cup UNION {Sleeping!ToSet(asker[m].tells) : m \in Messages}
      /\ asker' = [m \in Messages |-> IF asker[m].phase \in ended THEN asker[m] ELSE to]
      /\ runner' = [phase |-> "idle", day |-> Sleeping!NoDay]
      /\ UNCHANGED <<hour, queue, told, cut, overlap, slept, dreams, mentions, blurred>>
  BY DEF Sleeping!Restart
<1>2. /\ to \in Sleepless /\ to.phase = "failed" /\ to.tells = <<>>
      /\ to.dreamt = Sleeping!NoDay /\ AskerSettled(to)
  BY Fallen DEF Sleeping!Phases
<1>. HIDE DEF to
<1>3. /\ asker' \in [Messages -> Sleepless]
      /\ \A m \in Messages : AskerSettled(asker'[m]) /\ asker'[m].tells = <<>>
      /\ \A m \in Messages : asker'[m].dreamt = asker[m].dreamt \/ asker'[m].dreamt = Sleeping!NoDay
      /\ \A m \in Messages : asker'[m].phase = asker[m].phase \/ asker'[m].phase = "failed"
  <2>1. \A m \in Messages : (asker'[m] = asker[m] /\ asker[m].phase \in ended) \/ asker'[m] = to
    BY <1>1
  <2>2. \A m \in Messages : asker[m].phase \in ended => asker[m].tells = <<>>
    BY SleepTypes DEF AskerSettled
  <2>3. asker' \in [Messages -> Sleepless]
    BY <1>1, <1>2, SleepTypes
  <2>. QED
    BY <1>2, <2>1, <2>2, <2>3, SleepTypes
<1>4. \A x : Tellers(asker', x) = {}
  BY <1>3, NoneInEmpty DEF Tellers
<1>5. \A d \in Sleeping!Days : Dreamers(asker', d) \subseteq Dreamers(asker, d)
  <2>1. \A d \in Sleeping!Days : d # Sleeping!NoDay
    BY DaysAreNat DEF Sleeping!NoDay
  <2>. QED
    BY <1>3, <2>1 DEF Dreamers
<1>6. SleepTyped'
  <2>1. runner' \in [phase : {"idle", "asleep"}, day : Int]
    BY <1>1, UnsentIsTyped
  <2>. QED
    BY <1>1, <1>3, <2>1 DEF SleepInv, SleepTyped, Sleeping!Today
<1>7. HeardOnce'
  <2>. SUFFICES ASSUME ~overlap, NEW n \in Messages
                PROVE  /\ asker'[n].phase \in {"unsent", "queueing"} =>
                            Nowhere(queue, told, cut, dropped', asker', n)
                       /\ asker'[n].phase \in {"counting", "silent"} =>
                            Places(queue, told, cut, dropped', asker', n) = 1
    BY <1>1 DEF HeardOnce
  <2>1. /\ asker[n].phase \in {"unsent", "queueing"} => Nowhere(queue, told, cut, dropped, asker, n)
        /\ asker[n].phase \in {"counting", "silent"} =>
             Places(queue, told, cut, dropped, asker, n) = 1
    BY DEF SleepInv, HeardOnce
  <2>2. n \in dropped' <=> n \in dropped \/ Tellers(asker, n) # {}
    BY <1>1 DEF Tellers
  <2>3. \/ Tellers(asker', n) = Tellers(asker, n) /\ (n \in dropped' <=> n \in dropped)
        \/ /\ Tellers(asker, n) # {} /\ n \in dropped'
           /\ Few(Tellers(asker, n)) <= 1 => Tellers(asker', n) = {}
    BY <1>4, <2>2
  <2>. QED
    BY <1>3, <2>1, <2>3, DroppedReplies
<1>8. InOrder'
  BY <1>1 DEF SleepInv, InOrder
<1>9. Mentioned'
  BY <1>1, <1>5, StillMentioned
<1>. QED
  BY <1>3, <1>6, <1>7, <1>8, <1>9 DEF SleepInv

LEMMA StutterSleep == ASSUME SleepInv, UNCHANGED sleepVars PROVE SleepInv'
BY DEF SleepInv, SleepTyped, HeardOnce, InOrder, Mentioned, Sleeping!Today, sleepVars

LEMMA NextAsleep == ASSUME SleepInv, [Next]_vars PROVE SleepInv'
<1>1. CASE NextSleep
  BY <1>1, HourStep, ArriveStep, QueueAddStep, EmergencyWakeStep, QueueTakeStep, RecallStep,
     MentionStep, AnswerStep, FailStep, FallStep, DreamStep, SleepRestartStep
     DEF NextSleep, Sleeping!Next
<1>2. CASE ~NextSleep
  <2>1. UNCHANGED sleepVars
    BY <1>2 DEF Next, NextAppointments, NextSharing, NextPool, NextSearch, vars
  <2>. QED
    BY <2>1, StutterSleep
<1>. QED
  BY <1>1, <1>2

-----------------------------------------------------------------------------
(* The theorem *)

LEMMA SleepMeans == SleepInv => Sleeping!UnreadAccounted /\ Sleeping!DreamMentionedOnce
<1>. SUFFICES ASSUME SleepInv PROVE Sleeping!UnreadAccounted /\ Sleeping!DreamMentionedOnce
  OBVIOUS
<1>1. ASSUME ~overlap, NEW m \in Messages, asker[m].phase = "silent"
      PROVE  Sleeping!Count(m \in Sleeping!ToSet(queue)) + told[m] + Sleeping!Count(m \in cut)
               + Sleeping!Count(m \in dropped)
               + Sleeping!Cardinality({n \in Messages : m \in Sleeping!ToSet(asker[n].tells)}) = 1
  <2>1. Places(queue, told, cut, dropped, asker, m) = 1
    BY <1>1 DEF SleepInv, HeardOnce
  <2>2. told[m] \in Nat /\ Few(Tellers(asker, m)) \in {0, 1, 2}
    BY SleepTypes, FewTypes
  <2>3. Few(Tellers(asker, m)) <= 1
    BY <2>1, <2>2 DEF Places, Sleeping!Count
  <2>4. Sleeping!Cardinality(Tellers(asker, m)) = Few(Tellers(asker, m))
    BY <2>3, FewIsCardinality
  <2>. QED
    BY <2>1, <2>4 DEF Places, Tellers
<1>2. Sleeping!UnreadAccounted
  BY <1>1 DEF Sleeping!UnreadAccounted, Sleeping!At
<1>3. Sleeping!DreamMentionedOnce
  <2>1. \A d \in Sleeping!Days : mentions[d] \in Nat /\ Few(Dreamers(asker, d)) \in {0, 1, 2}
    BY SleepTypes, FewTypes
  <2>. QED
    BY <2>1 DEF SleepInv, Mentioned, Sleeping!DreamMentionedOnce
<1>. QED
  BY <1>2, <1>3

\* For any number of messages, any length of the queue, any nights and restarts:
\* while no two threads interleave on the queue, a message she did not hear is
\* in the queue, told once, or in one of the ways the code loses it; and while
\* the dreams are not written over, a dream is mentioned in one reply at most.
THEOREM NothingUnheardIsLost == Spec => []SleepAccounted
<1>1. Init => SleepInv
  BY InitSleep DEF Init
<1>2. SleepInv /\ [Next]_vars => SleepInv'
  BY NextAsleep
<1>3. SleepInv => SleepAccounted
  BY SleepMeans DEF SleepAccounted
<1>. QED
  BY <1>1, <1>2, <1>3, PTL DEF Spec
-----------------------------------------------------------------------------
(* Types and bounds *)

CountersBounded ==
    /\ clock \in 0..MaxClock /\ talks \in 0..MaxTalks
    /\ hour \in 0..MaxHours /\ asks \in 0..MaxAsks
    /\ stops \in 0..MaxStops

LEMMA BoundsAreNat ==
    /\ MaxClock \in Nat /\ MaxTalks \in Nat /\ MaxOps \in Nat /\ MaxAsks \in Nat
    /\ MaxStops \in Nat /\ MaxHours \in Nat
BY ConstantsAssumption, KeptIsNat DEF BoundsAssumption

\* One more, if the bound is not reached.
LEMMA OneMore == \A k, n \in Nat : k < n => k + 1 \in 0..n
OBVIOUS

LEMMA CountersStart == Init => CountersBounded
BY BoundsAreNat DEF Init, CountersBounded, Shares!Init, Sleeping!Init, Searching!Init

LEMMA CountersGoOn == ASSUME CountersBounded, [Next]_vars PROVE CountersBounded'
<1>1. /\ clock \in Nat /\ talks \in Nat /\ hour \in Nat /\ asks \in Nat /\ stops \in Nat
  BY DEF CountersBounded
<1>2. /\ clock' = clock \/ (clock < MaxClock /\ clock' = clock + 1)
      /\ talks' = talks \/ (talks < MaxTalks /\ talks' = talks + 1)
  <2>1. CASE NextSharing
    BY <2>1 DEF NextSharing, Shares!Next, Shares!Tick, Shares!Hear, Shares!Say, Shares!Drive,
       Shares!Drop, Shares!Push, Shares!Mark, Shares!Record, Shares!Restart
  <2>2. CASE ~NextSharing
    BY <2>2 DEF Next, NextAppointments, NextSleep, NextPool, NextSearch, vars, sharingVars
  <2>. QED
    BY <2>1, <2>2
<1>3. hour' = hour \/ (hour < MaxHours /\ hour' = hour + 1)
  <2>1. CASE NextSleep
    BY <2>1 DEF NextSleep, Sleeping!Next, Sleeping!Tick, Sleeping!Arrive, Sleeping!QueueAdd,
       Sleeping!EmergencyWake, Sleeping!QueueTake, Sleeping!Recall, Sleeping!Mention,
       Sleeping!Answer, Sleeping!Fail, Sleeping!Fall, Sleeping!Dream, Sleeping!Restart
  <2>2. CASE ~NextSleep
    BY <2>2 DEF Next, NextAppointments, NextSharing, NextPool, NextSearch, vars, sleepVars
  <2>. QED
    BY <2>1, <2>2
<1>4. asks' = asks \/ (asks < MaxAsks /\ asks' = asks + 1)
  <2>1. CASE NextSearch
    BY <2>1 DEF NextSearch, Searching!Next, Searching!Ripen, Searching!Message,
       Searching!AskContainer, Searching!AskWhere, Searching!Start, Searching!Schedule,
       Searching!Scheduled, Searching!Cancel, Searching!LoopStep, Searching!Abort,
       Searching!Restart, Searching!Begin, Searching!Take, Searching!LookForNothing,
       Searching!LookTooLate, Searching!LookPaused, Searching!Look, Searching!Found,
       Searching!Miss, Searching!GiveUp, Searching!LoopSchedule, Searching!LoopScheduled,
       Searching!Report, Searching!Visited, Searching!Clear, Searching!Choose, Searching!Skip
  <2>2. CASE ~NextSearch
    BY <2>2 DEF Next, NextAppointments, NextSharing, NextSleep, NextPool, vars, searchVars
  <2>. QED
    BY <2>1, <2>2
<1>5. stops' = stops \/ (stops < MaxStops /\ stops' = stops + 1)
  <2>1. CASE NextSharing
    BY <2>1 DEF NextSharing, Shares!Next, Shares!Tick, Shares!Hear, Shares!Say, Shares!Drive,
       Shares!Drop, Shares!Push, Shares!Mark, Shares!Record, Shares!Restart
  <2>2. CASE NextSleep
    BY <2>2 DEF NextSleep, Sleeping!Next, Sleeping!Tick, Sleeping!Arrive, Sleeping!QueueAdd,
       Sleeping!EmergencyWake, Sleeping!QueueTake, Sleeping!Recall, Sleeping!Mention,
       Sleeping!Answer, Sleeping!Fail, Sleeping!Fall, Sleeping!Dream, Sleeping!Restart
  <2>3. CASE NextSearch
    BY <2>3 DEF NextSearch, Searching!Next, Searching!Ripen, Searching!Message,
       Searching!AskContainer, Searching!AskWhere, Searching!Start, Searching!Schedule,
       Searching!Scheduled, Searching!Cancel, Searching!LoopStep, Searching!Abort,
       Searching!Restart, Searching!Begin, Searching!Take, Searching!LookForNothing,
       Searching!LookTooLate, Searching!LookPaused, Searching!Look, Searching!Found,
       Searching!Miss, Searching!GiveUp, Searching!LoopSchedule, Searching!LoopScheduled,
       Searching!Report, Searching!Visited, Searching!Clear, Searching!Choose, Searching!Skip
  <2>4. CASE NextPool
    BY <2>4 DEF NextPool, Pool!Next, Pool!Read, Pool!StartWrite, Pool!Enter, Pool!EnterNested,
       Pool!Statement, Pool!Fail, Pool!Finish, Pool!Restart
  <2>5. CASE NextAppointments \/ UNCHANGED vars
    BY <2>5 DEF NextAppointments, vars
  <2>. QED
    BY <2>1, <2>2, <2>3, <2>4, <2>5 DEF Next
<1>6. clock' \in 0..MaxClock /\ talks' \in 0..MaxTalks
  BY <1>1, <1>2, OneMore, BoundsAreNat DEF CountersBounded
<1>7. hour' \in 0..MaxHours /\ asks' \in 0..MaxAsks /\ stops' \in 0..MaxStops
  BY <1>1, <1>3, <1>4, <1>5, OneMore, BoundsAreNat DEF CountersBounded
<1>. QED
  BY <1>6, <1>7 DEF CountersBounded

-----------------------------------------------------------------------------
\* The lock has an owner there is, and threads and statements are of the operations so far.
PoolBounded ==
    /\ owner \in Threads \cup {Pool!NoOne}
    /\ Len(ops) <= MaxOps
    /\ \A t \in Threads : thread[t].op \in 0..Len(ops)
    /\ db \subseteq Nat \X {1, 2}

LEMMA PoolStarts == Pool!Init => PoolBounded
BY BoundsAreNat DEF Pool!Init, PoolBounded, Pool!Idle

LEMMA OperationBegins ==
    ASSUME PoolInv, PoolBounded, NEW t \in Threads, NEW r \in Rows,
           Pool!StartWrite(t, r) \/ Pool!Enter(t, r) \/ Pool!EnterNested(t, r)
    PROVE  PoolBounded'
<1>1. /\ Len(ops) < MaxOps /\ db' = db
      /\ \E kind \in {"write", "transaction"}, result \in {"running", "failed"} :
           Pool!NewOp(kind, r, result)
      /\ \/ \E nested \in BOOLEAN : Pool!Work(t, nested)
         \/ UNCHANGED <<owner, thread>>
  BY DEF Pool!StartWrite, Pool!Enter, Pool!EnterNested, Pool!MayStart
<1>2. Len(ops) \in Nat /\ Len(ops') = Len(ops) + 1
  BY <1>1, OpAdded DEF PoolInv, PoolTyped
<1>3. thread \in [Threads -> Worker] /\ \A u \in Threads : thread[u].op \in 0..Len(ops)
  BY DEF PoolInv, PoolTyped, PoolBounded
<1>4. owner' \in Threads \cup {Pool!NoOne} /\ \A u \in Threads : thread'[u].op \in 0..Len(ops')
  <2>1. CASE UNCHANGED <<owner, thread>>
    BY <1>2, <1>3, <2>1 DEF PoolBounded
  <2>2. ASSUME NEW nested \in BOOLEAN, Pool!Work(t, nested)
        PROVE  owner' \in Threads \cup {Pool!NoOne}
               /\ \A u \in Threads : thread'[u].op \in 0..Len(ops')
    <3>1. /\ owner' = t
          /\ \A u \in Threads : thread'[u].op = IF u = t THEN Len(ops) + 1 ELSE thread[u].op
      BY <1>3, <2>2 DEF Pool!Work
    <3>. QED
      BY <1>2, <1>3, <3>1
  <2>. QED
    BY <1>1, <2>1, <2>2
<1>5. Len(ops') <= MaxOps
  BY <1>1, <1>2, BoundsAreNat
<1>. QED
  BY <1>1, <1>4, <1>5 DEF PoolBounded

LEMMA OperationEnds ==
    ASSUME PoolInv, PoolBounded, NEW t \in Threads, Pool!Fail(t) \/ Pool!Finish(t)
    PROVE  PoolBounded'
<1>1. /\ Pool!Leave(t, "failed") \/ Pool!Leave(t, "returned")
      /\ Pool!Working(t)
      /\ db' = db \/ db' = db \cup conn[t].open
  BY DEF Pool!Fail, Pool!Finish
<1>2. thread[t].op \in 1..Len(ops) /\ ops \in Seq(Operation) /\ Len(ops) \in Nat
      /\ thread \in [Threads -> Worker] /\ conn[t] \in Connection
  BY <1>1 DEF PoolInv, LockHeld, PoolTyped
<1>3. /\ owner' = Pool!NoOne /\ thread' = [thread EXCEPT ![t] = Pool!Idle]
      /\ \E result \in {"returned", "failed"} : ops' = [ops EXCEPT ![thread[t].op].result = result]
  BY <1>1 DEF Pool!Leave
<1>4. Len(ops') = Len(ops)
  BY <1>2, <1>3, OpEnded
<1>5. Pool!Idle.op = 0
  BY DEF Pool!Idle
<1>6. \A u \in Threads : thread'[u].op \in 0..Len(ops')
  BY <1>2, <1>3, <1>4, <1>5 DEF PoolBounded
<1>7. db' \subseteq Nat \X {1, 2}
  BY <1>1, <1>2 DEF PoolBounded, Connection
<1>. QED
  BY <1>3, <1>4, <1>6, <1>7 DEF PoolBounded

LEMMA StatementBounded ==
    ASSUME PoolInv, PoolBounded, NEW t \in Threads, Pool!Statement(t) PROVE PoolBounded'
<1>. DEFINE c == [conn[t] EXCEPT !.held = TRUE,
                                 !.open = @ \cup {<<thread[t].op, thread[t].part>>}]
<1>1. /\ UNCHANGED <<owner, ops>>
      /\ thread' = [thread EXCEPT ![t].part = @ + 1]
      /\ thread[t].part \in {1, 2}
      /\ db' = db \/ db' = db \cup c.open
  BY DEF Pool!Statement, Pool!MaybeCommit, Pool!Parts
<1>2. /\ thread \in [Threads -> Worker] /\ conn[t] \in Connection /\ thread[t].op \in Nat
      /\ conn[t].open \subseteq Nat \X {1, 2}
  BY DEF PoolInv, PoolTyped, Worker, Connection
<1>3. c.open = conn[t].open \cup {<<thread[t].op, thread[t].part>>}
  BY <1>2 DEF Connection
<1>. HIDE DEF c
<1>4. c.open \subseteq Nat \X {1, 2}
  BY <1>1, <1>2, <1>3
<1>5. \A u \in Threads : thread'[u].op = thread[u].op
  BY <1>1, <1>2 DEF Worker
<1>. QED
  BY <1>1, <1>4, <1>5 DEF PoolBounded

LEMMA PoolGoesOn == ASSUME PoolInv, PoolBounded, [Next]_vars PROVE PoolBounded'
<1>1. ASSUME NEW t \in Threads, Pool!Read(t) PROVE PoolBounded'
  BY <1>1 DEF Pool!Read, PoolBounded
<1>2. CASE Pool!Restart
  <2>1. /\ owner' = Pool!NoOne /\ db' = db /\ thread' = [t \in Threads |-> Pool!Idle]
        /\ ops' = [i \in 1..Len(ops) |->
                     IF ops[i].result = "running" THEN [ops[i] EXCEPT !.result = "failed"]
                     ELSE ops[i]]
    BY <1>2 DEF Pool!Restart
  <2>2. ops \in Seq(Operation) /\ Len(ops) \in Nat
    BY DEF PoolInv, PoolTyped
  <2>3. ops' \in Seq(Operation)
    BY RestartPool, <1>2 DEF PoolInv, PoolTyped
  <2>4. DOMAIN ops' = 1..Len(ops)
    BY <2>1
  <2>5. Len(ops') = Len(ops)
    BY <2>2, <2>3, <2>4, LenProperties
  <2>. QED
    BY <2>1, <2>2, <2>5 DEF PoolBounded, Pool!Idle
<1>3. CASE NextPool
  BY <1>1, <1>2, <1>3, OperationBegins, OperationEnds, StatementBounded DEF NextPool, Pool!Next
<1>4. CASE ~NextPool
  BY <1>4 DEF Next, NextAppointments, NextSharing, NextSleep, NextSearch, vars, poolVars,
              PoolBounded
<1>. QED
  BY <1>3, <1>4

LEMMA WithinStatements ==
    ASSUME NEW S \in SUBSET (Nat \X {1, 2}),
           \A i \in Nat, p \in {1, 2} : <<i, p>> \in S => i \in 1..MaxOps
    PROVE  S \subseteq Pool!Statements
<1>. SUFFICES ASSUME NEW x \in S PROVE x \in Pool!Statements
  OBVIOUS
<1>1. PICK i \in Nat, p \in {1, 2} : x = <<i, p>>
  OBVIOUS
<1>2. i \in 1..MaxOps
  BY <1>1
<1>. QED
  BY <1>1, <1>2 DEF Pool!Statements, Pool!Parts

LEMMA PoolTypes == PoolInv /\ PoolBounded /\ CountersBounded => Pool!TypeOK
<1>. SUFFICES ASSUME PoolInv, PoolBounded, CountersBounded PROVE Pool!TypeOK
  OBVIOUS
<1>1. /\ ops \in Seq(Operation) /\ Len(ops) \in Nat /\ Len(ops) <= MaxOps
      /\ thread \in [Threads -> Worker] /\ conn \in [Threads -> Connection]
  BY DEF PoolInv, PoolTyped, PoolBounded
<1>2. \A i \in 1..Len(ops) : i \in 1..MaxOps
  BY <1>1, BoundsAreNat
<1>3. \A t \in Threads : conn[t].open \subseteq Pool!Statements
  <2>. SUFFICES ASSUME NEW t \in Threads PROVE conn[t].open \subseteq Pool!Statements
    OBVIOUS
  <2>1. conn[t].open \subseteq Nat \X {1, 2}
    BY <1>1 DEF Connection
  <2>2. \A i \in Nat, p \in {1, 2} : <<i, p>> \in conn[t].open => i \in 1..MaxOps
    BY <1>2 DEF PoolInv, Known
  <2>. QED
    BY <2>1, <2>2, WithinStatements
<1>4. db \subseteq Pool!Statements
  <2>1. \A i \in Nat, p \in {1, 2} : <<i, p>> \in db => i \in 1..MaxOps
    BY <1>2 DEF PoolInv, Known
  <2>. QED
    BY <2>1, WithinStatements DEF PoolBounded
<1>5. conn \in [Threads -> [held : BOOLEAN, broken : BOOLEAN, open : SUBSET Pool!Statements]]
  BY <1>1, <1>3 DEF Connection
<1>6. \A t \in Threads : thread[t].op \in 0..MaxOps
  BY <1>1, BoundsAreNat DEF PoolBounded
<1>7. thread \in [Threads -> [phase : {"idle", "working"}, op : 0..MaxOps, part : 1..3,
                              nested : BOOLEAN]]
  BY <1>1, <1>6 DEF Worker
<1>8. depth \in 0..2
  <2>1. CASE \A t \in Threads : ~Pool!Working(t)
    BY <2>1 DEF PoolInv, DepthCounts
  <2>2. ASSUME NEW t \in Threads, Pool!Working(t) PROVE depth \in 0..2
    <3>1. thread[t].op \in 1..Len(ops)
      BY <2>2 DEF PoolInv, LockHeld
    <3>2. ops[thread[t].op] \in Operation
      BY <1>1, <3>1, ElementOfSeq
    <3>3. Writes(t) \/ Outer(t) \/ Inner(t)
      BY <2>2, <3>2 DEF Writes, Outer, Inner, Pool!Op, Operation
    <3>. QED
      BY <3>3 DEF PoolInv, DepthCounts
  <2>. QED
    BY <2>1, <2>2
<1>. QED
  BY <1>1, <1>4, <1>5, <1>7, <1>8
     DEF PoolInv, PoolTyped, PoolBounded, CountersBounded, Pool!TypeOK, Operation

-----------------------------------------------------------------------------
(* Types and bounds of sleep *)

SomeDays == Sleeping!Days \cup {Sleeping!NoDay}
DaysKnown(k) == k.dream.day \in SomeDays /\ k.dreamt \in SomeDays

SleepBounded ==
    /\ Len(queue) <= Kept /\ cut \subseteq Messages /\ dropped \subseteq Messages
    /\ slept \in SomeDays /\ runner.day \in SomeDays /\ dreams.day \in SomeDays
    /\ \A m \in Messages : DaysKnown(asker[m])

LEMMA NoDayIsSome ==
    Sleeping!NoDay \in SomeDays /\ Sleeping!NoDream.day \in SomeDays /\ DaysKnown(Sleeping!Unsent)
BY DEF SomeDays, DaysKnown, Sleeping!Unsent, Sleeping!NoDream

\* Today is a day, for the hours are bounded.
LEMMA TodayIsSome == SleepInv /\ CountersBounded => Sleeping!Today \in SomeDays
<1>. SUFFICES ASSUME SleepInv, CountersBounded PROVE Sleeping!Today \in SomeDays
  OBVIOUS
<1>1. hour \in Nat /\ hour <= MaxHours /\ MaxHours \in Nat
  BY BoundsAreNat DEF CountersBounded
<1>2. hour + 1 \in Nat /\ MaxHours + 1 \in Nat /\ hour + 1 <= MaxHours + 1 /\ 2 \in Nat \ {0}
  BY <1>1
<1>3. (hour + 1) \div 2 <= (MaxHours + 1) \div 2
  BY <1>2, Division
<1>4. (hour + 1) \div 2 \in Nat /\ (MaxHours + 1) \div 2 \in Nat
  BY <1>1
<1>. QED
  BY <1>3, <1>4 DEF SomeDays, Sleeping!Days, Sleeping!Today

\* The limit keeps no more than it should.
LEMMA NewestFit ==
    ASSUME NEW q \in Seq(Messages), NEW m \in Messages
    PROVE  Len(Sleeping!Newest(Append(q, m))) <= Kept
<1>. DEFINE all == Append(q, m)
            k == IF Len(all) > Kept THEN Len(all) - Kept + 1 ELSE 1
<1>1. all \in Seq(Messages) /\ Len(all) = Len(q) + 1 /\ Len(q) \in Nat
  BY AppendProperties, LenProperties
<1>2. Kept \in Nat /\ Kept > 0
  BY KeptIsNat
<1>3. Sleeping!Newest(all) = SubSeq(all, k, Len(all))
  BY DEF Sleeping!Newest
<1>. HIDE DEF all
<1>4. k \in Int /\ k >= 1
  BY <1>1, <1>2
<1>5. Len(all) > Kept => Len(all) - k + 1 = Kept
  BY <1>1, <1>2
<1>6. Len(all) <= Kept => k = 1
  BY <1>1, <1>2
<1>. HIDE DEF k
<1>7. \A i \in k..Len(all) : all[i] \in Messages
  BY <1>1, <1>4, ElementOfSeq
<1>8. Len(SubSeq(all, k, Len(all))) = IF k <= Len(all) THEN Len(all) - k + 1 ELSE 0
  BY <1>1, <1>4, <1>7, SubSeqProperties
<1>9. Len(SubSeq(all, k, Len(all))) <= Kept
  BY <1>1, <1>2, <1>4, <1>5, <1>6, <1>8
<1>. QED
  BY <1>3, <1>9 DEF all

LEMMA OfMessages == \A q \in Seq(Messages) : Sleeping!ToSet(q) \subseteq Messages
<1>. SUFFICES ASSUME NEW q \in Seq(Messages) PROVE Sleeping!ToSet(q) \subseteq Messages
  OBVIOUS
<1>1. DOMAIN q = 1..Len(q) /\ \A i \in 1..Len(q) : q[i] \in Messages
  BY LenProperties, ElementOfSeq
<1>. QED
  BY <1>1 DEF Sleeping!ToSet

\* One message goes on to a state whose days are days.
LEMMA DaysStay ==
    ASSUME SleepInv, SleepBounded, NEW m \in Messages, NEW to, DaysKnown(to),
           asker' = [asker EXCEPT ![m] = to]
    PROVE  \A n \in Messages : DaysKnown(asker'[n])
<1>1. asker \in [Messages -> Sleepless]
  BY DEF SleepInv, SleepTyped
<1>2. \A n \in Messages : asker'[n] = IF n = m THEN to ELSE asker[n]
  BY <1>1
<1>. QED
  BY <1>2 DEF SleepBounded

\* A message in the state of one that is not sent but for what it has read and
\* what its reply is to tell.
LEMMA UnsentDays ==
    \A p, q : /\ DaysKnown([Sleeping!Unsent EXCEPT !.phase = p])
              /\ DaysKnown([Sleeping!Unsent EXCEPT !.phase = p, !.read = q])
              /\ DaysKnown([Sleeping!Unsent EXCEPT !.phase = p, !.tells = q])
BY NoDayIsSome DEF DaysKnown, Sleeping!Unsent

LEMMA AskersBounded ==
    ASSUME SleepInv, SleepBounded, NEW m \in Messages,
           Sleeping!Arrive(m) \/ Sleeping!EmergencyWake(m) \/ Sleeping!QueueTake(m)
             \/ Sleeping!Recall(m)
    PROVE  SleepBounded'
<1>1. CASE Sleeping!Arrive(m)
  <2>1. \E p, q : asker' = [asker EXCEPT ![m] = [Sleeping!Unsent EXCEPT !.phase = p, !.read = q]]
    BY <1>1 DEF Sleeping!Arrive, Sleeping!Step
  <2>2. \A n \in Messages : DaysKnown(asker'[n])
    BY <2>1, UnsentDays, DaysStay
  <2>3. UNCHANGED <<queue, cut, dropped, slept, runner, dreams>>
    BY <1>1 DEF Sleeping!Arrive
  <2>. QED
    BY <2>2, <2>3 DEF SleepBounded
<1>2. CASE Sleeping!EmergencyWake(m)
  <2>1. \E p : asker' = [asker EXCEPT ![m] = [Sleeping!Unsent EXCEPT !.phase = p]]
    BY <1>2 DEF Sleeping!EmergencyWake, Sleeping!Step
  <2>2. \A n \in Messages : DaysKnown(asker'[n])
    BY <2>1, UnsentDays, DaysStay
  <2>3. UNCHANGED <<queue, cut, dropped, slept, runner, dreams>>
    BY <1>2 DEF Sleeping!EmergencyWake
  <2>. QED
    BY <2>2, <2>3 DEF SleepBounded
<1>3. CASE Sleeping!QueueTake(m)
  <2>1. \E p, q : asker' = [asker EXCEPT ![m] = [Sleeping!Unsent EXCEPT !.phase = p, !.tells = q]]
    BY <1>3 DEF Sleeping!QueueTake, Sleeping!Step
  <2>2. \A n \in Messages : DaysKnown(asker'[n])
    BY <2>1, UnsentDays, DaysStay
  <2>3. queue' = <<>> /\ UNCHANGED <<cut, dropped, slept, runner, dreams>>
    BY <1>3 DEF Sleeping!QueueTake
  <2>4. Len(queue') <= Kept
    BY <2>3, KeptIsNat
  <2>. QED
    BY <2>2, <2>3, <2>4 DEF SleepBounded
<1>4. CASE Sleeping!Recall(m)
  <2>1. asker[m] \in Sleepless /\ DaysKnown(asker[m])
    BY SleepTypes DEF SleepBounded
  <2>2. \E p : \/ asker' = [asker EXCEPT ![m] = [asker[m] EXCEPT !.phase = p]]
               \/ asker' = [asker EXCEPT ![m] = [asker[m] EXCEPT !.phase = p, !.dream = dreams]]
    BY <1>4 DEF Sleeping!Recall, Sleeping!Step
  <2>3. \A p : /\ DaysKnown([asker[m] EXCEPT !.phase = p])
               /\ DaysKnown([asker[m] EXCEPT !.phase = p, !.dream = dreams])
    BY <2>1 DEF DaysKnown, SleepBounded, Sleepless
  <2>4. \A n \in Messages : DaysKnown(asker'[n])
    BY <2>2, <2>3, DaysStay
  <2>5. UNCHANGED <<queue, cut, dropped, slept, runner, dreams>>
    BY <1>4 DEF Sleeping!Recall
  <2>. QED
    BY <2>4, <2>5 DEF SleepBounded
<1>. QED
  BY <1>1, <1>2, <1>3, <1>4

LEMMA RepliesBounded ==
    ASSUME SleepInv, SleepBounded, NEW m \in Messages,
           Sleeping!QueueAdd(m) \/ Sleeping!Mention(m) \/ Sleeping!Answer(m) \/ Sleeping!Fail(m)
    PROVE  SleepBounded'
<1>1. CASE Sleeping!QueueAdd(m)
  <2>. DEFINE all == Append(asker[m].read, m)
              new == Sleeping!Newest(all)
  <2>1. /\ asker' = [asker EXCEPT ![m] = [Sleeping!Unsent EXCEPT !.phase = "counting"]]
        /\ queue' = new /\ cut' = cut \cup (Sleeping!ToSet(all) \ Sleeping!ToSet(new))
        /\ UNCHANGED <<dropped, slept, runner, dreams>>
    BY <1>1 DEF Sleeping!QueueAdd, Sleeping!Step
  <2>2. asker[m].read \in Seq(Messages)
    BY SleepTypes
  <2>3. all \in Seq(Messages) /\ Len(new) <= Kept
    BY <2>2, NewestOfQueue, NewestFit
  <2>4. Sleeping!ToSet(all) \subseteq Messages
    BY <2>3, OfMessages
  <2>5. \A n \in Messages : DaysKnown(asker'[n])
    BY <2>1, UnsentDays, DaysStay
  <2>. HIDE DEF all, new
  <2>6. Len(queue') <= Kept
    BY <2>1, <2>3
  <2>7. cut' \subseteq Messages
    BY <2>1, <2>4 DEF SleepBounded
  <2>. QED
    BY <2>1, <2>5, <2>6, <2>7 DEF SleepBounded
<1>2. CASE Sleeping!Mention(m)
  <2>. DEFINE to == [asker[m] EXCEPT !.phase = "answering", !.dream = Sleeping!NoDream,
                                     !.dreamt = asker[m].dream.day]
  <2>1. /\ asker[m].phase = "mentioning" /\ dreams' = [asker[m].dream EXCEPT !.told = TRUE]
        /\ asker' = [asker EXCEPT ![m] = to]
        /\ UNCHANGED <<queue, cut, dropped, slept, runner>>
    BY <1>2 DEF Sleeping!Mention, Sleeping!Step, Sleeping!At
  <2>2. asker[m] \in Sleepless /\ DaysKnown(asker[m])
    BY SleepTypes DEF SleepBounded
  <2>3. to.dream = Sleeping!NoDream /\ to.dreamt = asker[m].dream.day
    BY <2>2 DEF Sleepless
  <2>4. asker[m].dream \in [day : Int, told : BOOLEAN]
    BY <2>2 DEF Sleepless
  <2>5. dreams'.day = asker[m].dream.day
    BY <2>1, <2>4
  <2>. HIDE DEF to
  <2>6. DaysKnown(to)
    BY <2>2, <2>3, NoDayIsSome DEF DaysKnown
  <2>7. \A n \in Messages : DaysKnown(asker'[n])
    BY <2>1, <2>6, DaysStay
  <2>. QED
    BY <2>1, <2>2, <2>5, <2>7 DEF SleepBounded, DaysKnown
<1>3. CASE Sleeping!Answer(m)
  <2>1. /\ asker' = [asker EXCEPT ![m] = [Sleeping!Unsent EXCEPT !.phase = "answered"]]
        /\ UNCHANGED <<queue, cut, dropped, slept, runner, dreams>>
    BY <1>3 DEF Sleeping!Answer, Sleeping!Step
  <2>2. \A n \in Messages : DaysKnown(asker'[n])
    BY <2>1, UnsentDays, DaysStay
  <2>. QED
    BY <2>1, <2>2 DEF SleepBounded
<1>4. CASE Sleeping!Fail(m)
  <2>1. /\ asker' = [asker EXCEPT ![m] = [Sleeping!Unsent EXCEPT !.phase = "failed"]]
        /\ dropped' = dropped \cup Sleeping!ToSet(asker[m].tells)
        /\ UNCHANGED <<queue, cut, slept, runner, dreams>>
    BY <1>4 DEF Sleeping!Fail, Sleeping!Step
  <2>2. \A n \in Messages : DaysKnown(asker'[n])
    BY <2>1, UnsentDays, DaysStay
  <2>3. Sleeping!ToSet(asker[m].tells) \subseteq Messages
    BY SleepTypes, OfMessages
  <2>. QED
    BY <2>1, <2>2, <2>3 DEF SleepBounded
<1>. QED
  BY <1>1, <1>2, <1>3, <1>4

LEMMA NightBounded ==
    ASSUME SleepInv, CountersBounded, SleepBounded,
           Sleeping!Tick \/ Sleeping!Fall \/ Sleeping!Dream \/ Sleeping!Restart
    PROVE  SleepBounded'
<1>1. CASE Sleeping!Tick
  BY <1>1 DEF Sleeping!Tick, SleepBounded
<1>2. CASE Sleeping!Fall
  BY <1>2, TodayIsSome DEF Sleeping!Fall, SleepBounded
<1>3. CASE Sleeping!Dream
  BY <1>3, NoDayIsSome DEF Sleeping!Dream, SleepBounded
<1>4. CASE Sleeping!Restart
  <2>1. /\ dropped' = dropped \cup UNION {Sleeping!ToSet(asker[m].tells) : m \in Messages}
        /\ \A m \in Messages : \/ asker'[m] = asker[m]
                               \/ asker'[m] = [Sleeping!Unsent EXCEPT !.phase = "failed"]
        /\ runner' = [phase |-> "idle", day |-> Sleeping!NoDay]
        /\ UNCHANGED <<queue, cut, slept, dreams>>
    BY <1>4 DEF Sleeping!Restart
  <2>2. \A m \in Messages : DaysKnown(asker'[m])
    <3>1. DaysKnown([Sleeping!Unsent EXCEPT !.phase = "failed"])
      BY UnsentDays
    <3>2. \A m \in Messages : DaysKnown(asker[m])
      BY DEF SleepBounded
    <3>. QED
      BY <2>1, <3>1, <3>2
  <2>3. \A m \in Messages : Sleeping!ToSet(asker[m].tells) \subseteq Messages
    BY SleepTypes, OfMessages
  <2>4. dropped' \subseteq Messages
    BY <2>1, <2>3 DEF SleepBounded
  <2>. QED
    BY <2>1, <2>2, <2>4, NoDayIsSome DEF SleepBounded
<1>. QED
  BY <1>1, <1>2, <1>3, <1>4

LEMMA SleepStarts == Sleeping!Init => SleepBounded
<1>. SUFFICES ASSUME Sleeping!Init PROVE SleepBounded
  OBVIOUS
<1>1. /\ queue = <<>> /\ asker = [m \in Messages |-> Sleeping!Unsent]
      /\ cut = {} /\ dropped = {} /\ slept = Sleeping!NoDay
      /\ runner = [phase |-> "idle", day |-> Sleeping!NoDay] /\ dreams = Sleeping!NoDream
  BY DEF Sleeping!Init
<1>2. Len(queue) <= Kept
  BY <1>1, KeptIsNat
<1>. QED
  BY <1>1, <1>2, NoDayIsSome DEF SleepBounded

LEMMA SleepGoesOn ==
    ASSUME SleepInv, CountersBounded, SleepBounded, [Next]_vars PROVE SleepBounded'
<1>1. CASE NextSleep
  BY <1>1, AskersBounded, RepliesBounded, NightBounded DEF NextSleep, Sleeping!Next
<1>2. CASE ~NextSleep
  <2>1. UNCHANGED sleepVars
    BY <1>2 DEF Next, NextAppointments, NextSharing, NextPool, NextSearch, vars
  <2>. QED
    BY <2>1 DEF sleepVars, SleepBounded
<1>. QED
  BY <1>1, <1>2

LEMMA SleepIsTyped == SleepInv /\ SleepBounded /\ CountersBounded => Sleeping!TypeOK
<1>. SUFFICES ASSUME SleepInv, SleepBounded, CountersBounded PROVE Sleeping!TypeOK
  OBVIOUS
<1>. DEFINE Some == SomeDays
<1>1. /\ queue \in Seq(Messages) /\ asker \in [Messages -> Sleepless]
      /\ told \in [Messages -> Nat] /\ {overlap, blurred} \subseteq BOOLEAN
      /\ runner \in [phase : {"idle", "asleep"}, day : Int]
      /\ dreams \in [day : Int, told : BOOLEAN] /\ mentions \in [Sleeping!Days -> Nat]
  BY DEF SleepInv, SleepTyped
<1>2. dreams \in [day : SomeDays, told : BOOLEAN] /\ runner \in [phase : {"idle", "asleep"}, day : SomeDays]
  BY <1>1 DEF SleepBounded
<1>3. \A m \in Messages : asker[m] \in [phase : Sleeping!Phases, read : Seq(Messages),
                                        dream : [day : SomeDays, told : BOOLEAN],
                                        tells : Seq(Messages), dreamt : SomeDays]
  <2>. SUFFICES ASSUME NEW m \in Messages
                PROVE  asker[m] \in [phase : Sleeping!Phases, read : Seq(Messages),
                                     dream : [day : SomeDays, told : BOOLEAN],
                                     tells : Seq(Messages), dreamt : SomeDays]
    OBVIOUS
  <2>1. /\ asker[m] \in Sleepless /\ asker[m].dream.day \in SomeDays /\ asker[m].dreamt \in SomeDays
        /\ asker[m].dream \in [day : Int, told : BOOLEAN]
    BY SleepTypes DEF SleepBounded, DaysKnown
  <2>2. asker[m].dream \in [day : SomeDays, told : BOOLEAN]
    BY <2>1
  <2>. QED
    BY <2>1, <2>2 DEF Sleepless
<1>4. asker \in [Messages -> [phase : Sleeping!Phases, read : Seq(Messages),
                              dream : [day : SomeDays, told : BOOLEAN],
                              tells : Seq(Messages), dreamt : SomeDays]]
  BY <1>1, <1>3
<1>5. hour \in 0..MaxHours /\ stops \in 0..MaxStops
  BY DEF CountersBounded
<1>6. {cut, dropped} \subseteq SUBSET Messages /\ Len(queue) <= Kept /\ slept \in SomeDays
  BY DEF SleepBounded
<1>. QED
  BY <1>1, <1>2, <1>4, <1>5, <1>6 DEF Sleeping!TypeOK, Sleeping!Dreams, SomeDays

-----------------------------------------------------------------------------
(* The types of the composition *)

LEMMA SharesAreTyped == ShareInv /\ CountersBounded => Shares!TypeOK
BY DEF ShareInv, ShareTyped, CountersBounded, Shares!TypeOK, Sharer, Talker, Message, ReasonsSent

LEMMA SearchesAreTyped == SearchInv /\ CountersBounded => Searching!TypeOK
BY DEF SearchInv, SearchTyped, CountersBounded, Searching!TypeOK, Searchers, Loops, Visits

\* For any messages, chats, threads, processes and bounds, each component keeps
\* its types: the queue of the night keeps its length, the days it speaks of are
\* days that were, a statement is of the operation its thread is in, and what a
\* visit, a message or an appointment records is what the code writes there.
THEOREM BackgroundIsTyped == Spec => []TypeOK
<1>1. Init => PoolInv /\ PoolBounded /\ SleepInv /\ SleepBounded /\ CountersBounded
  BY InitPool, PoolStarts, InitSleep, SleepStarts, CountersStart DEF Init
<1>2. ASSUME PoolInv, PoolBounded, SleepInv, SleepBounded, CountersBounded, [Next]_vars
      PROVE  PoolInv' /\ PoolBounded' /\ SleepInv' /\ SleepBounded' /\ CountersBounded'
  BY <1>2, NextPoolInv, PoolGoesOn, NextAsleep, SleepGoesOn, CountersGoOn
<1>3. PoolInv /\ PoolBounded /\ SleepInv /\ SleepBounded /\ CountersBounded
        /\ ApptInv /\ SearchInv /\ ShareInv => TypeOK
  BY PoolTypes, SleepIsTyped, SharesAreTyped, SearchesAreTyped, ApptMeans DEF TypeOK
<1>. QED
  BY <1>1, <1>2, <1>3, ApptAlways, SearchAlways, ShareAlways, PTL DEF Spec
===============================================================================
