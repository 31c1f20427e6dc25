-------------------------------- MODULE PgPool --------------------------------
(***************************************************************************)
(* Connections and transactions of the PostgreSQL layer, the default one   *)
(* (plugins/_db_pg_core.py). Every operation holds the lock of the process *)
(* from its first statement to its last. A connection belongs to a thread  *)
(* until the thread commits: after a read it keeps it. _txn_depth is one   *)
(* counter for all threads; while it is not zero no helper commits.        *)
(*                                                                         *)
(* psycopg2 and the server are as the code uses them: getconn raises when  *)
(* the pool is empty; after a statement that fails, a connection refuses   *)
(* others until it is rolled back; a row that was written is locked until  *)
(* the commit.                                                             *)
(*                                                                         *)
(* A write has two statements and one commit; a transaction has two writes *)
(* of one statement. A thread is idle, or working on a part of its         *)
(* operation.                                                              *)
(***************************************************************************)
EXTENDS Naturals, FiniteSets, Sequences

CONSTANTS
    Threads,  \* workers of to_thread, loops, the event loop
    MaxConn,  \* YUNO_PG_MAXCONN (8)
    Rows,     \* rows of tables
    MaxOps,   \* bound: writes and transactions
    MaxStops  \* bound: process restarts

VARIABLES
    owner,    \* the thread that holds _lock
    depth,    \* _txn_depth
    conn,     \* per thread: its connection, and the statements open on it
    thread,   \* per thread: phase, operation, statement to execute, nested or not
    ops,      \* operations so far: kind, row, result
    db,       \* statements committed
    jammed,   \* TRUE once a transaction could not get a connection
    stops     \* restarts so far

vars == <<owner, depth, conn, thread, ops, db, jammed, stops>>

NoOne == "no one"

\* "no one" is not the name of a thread.
OwnerAssumption == NoOne \notin Threads

Parts == {1, 2}
NoConn == [held |-> FALSE, broken |-> FALSE, open |-> {}]
Held == [NoConn EXCEPT !.held = TRUE]
Idle == [phase |-> "idle", op |-> 0, part |-> 1, nested |-> FALSE]
Statements == (1..MaxOps) \X Parts

Init ==
    /\ owner = NoOne
    /\ depth = 0
    /\ conn = [t \in Threads |-> NoConn]
    /\ thread = [t \in Threads |-> Idle]
    /\ ops = <<>>
    /\ db = {}
    /\ jammed = FALSE
    /\ stops = 0

-----------------------------------------------------------------------------
(* _connect and _maybe_commit *)

\* The thread has a connection, or the pool has.
Connect(t) == conn[t].held \/ Cardinality({u \in Threads : conn[u].held}) < MaxConn

\* Seeded faults: helpers commit inside transactions; the connection goes back
\* to the pool without a commit, which rolls it back.
MaybeCommitAlways(t, c) ==
    db' = db \cup c.open /\ conn' = [conn EXCEPT ![t] = [c EXCEPT !.open = {}]]
MaybeRelease(t, c) ==
    /\ UNCHANGED db
    /\ conn' = [conn EXCEPT ![t] = IF depth > 0 THEN c ELSE NoConn]

\* _maybe_commit, with c the connection of t: nothing inside a transaction;
\* otherwise the commit, and the connection goes back to the pool.
MaybeCommit(t, c) ==
    IF depth > 0 THEN UNCHANGED db /\ conn' = [conn EXCEPT ![t] = c]
    ELSE db' = db \cup c.open /\ conn' = [conn EXCEPT ![t] = NoConn]

-----------------------------------------------------------------------------
\* A read keeps the connection, in order or not.
Read(t) ==
    /\ owner = NoOne /\ thread[t].phase = "idle"
    /\ Connect(t)
    /\ \E fails \in {conn[t].broken, TRUE} :
         conn' = [conn EXCEPT ![t].held = TRUE, ![t].broken = fails,
                              ![t].open = IF fails THEN {} ELSE @]
    /\ UNCHANGED <<owner, depth, thread, ops, db, jammed, stops>>

NewOp(kind, row, result) == ops' = Append(ops, [kind |-> kind, row |-> row, result |-> result])
Work(t, nested) ==
    /\ owner' = t
    /\ thread' = [thread EXCEPT ![t] = [phase |-> "working", op |-> Len(ops) + 1, part |-> 1,
                                        nested |-> nested]]
MayStart(t) == owner = NoOne /\ thread[t].phase = "idle" /\ Len(ops) < MaxOps

\* A helper that writes begins; without a connection it raises.
StartWrite(t, row) ==
    /\ MayStart(t)
    /\ IF Connect(t)
       THEN /\ NewOp("write", row, "running")
            /\ Work(t, FALSE)
            /\ conn' = [conn EXCEPT ![t].held = TRUE]
       ELSE NewOp("write", row, "failed") /\ UNCHANGED <<owner, thread, conn>>
    /\ UNCHANGED <<depth, db, jammed, stops>>

\* transaction, of a thread that holds no other: the counter is set before the
\* connection is asked for, and if there is none, the counter stays. What the
\* connection had open is rolled back.
Enter(t, row) ==
    /\ MayStart(t) /\ depth = 0
    /\ depth' = 1
    /\ IF Connect(t)
       THEN /\ NewOp("transaction", row, "running")
            /\ Work(t, FALSE)
            /\ conn' = [conn EXCEPT ![t] = Held]
            /\ UNCHANGED jammed
       ELSE /\ NewOp("transaction", row, "failed")
            /\ jammed' = TRUE
            /\ UNCHANGED <<owner, thread, conn>>
    /\ UNCHANGED <<db, stops>>

\* transaction while the counter is not zero: an inner one, that leaves the
\* commit to the outer one.
EnterNested(t, row) ==
    /\ MayStart(t) /\ depth > 0
    /\ depth' = depth + 1
    /\ NewOp("transaction", row, "running")
    /\ Work(t, TRUE)
    /\ UNCHANGED <<conn, db, jammed, stops>>

-----------------------------------------------------------------------------
Op(t) == ops[thread[t].op]
Working(t) == thread[t].phase = "working"

\* Another connection has written the row and not committed: the statement waits
\* in the server, and the thread keeps the lock.
Locked(t) ==
    \E u \in Threads \ {t} : \E s \in conn[u].open : ops[s[1]].row = Op(t).row

\* A write has its commit point after its last statement, a transaction one
\* after each of its writes.
Statement(t) ==
    /\ Working(t) /\ thread[t].part \in Parts
    /\ Connect(t) /\ ~conn[t].broken /\ ~Locked(t)
    /\ LET c == [conn[t] EXCEPT !.held = TRUE,
                                !.open = @ \cup {<<thread[t].op, thread[t].part>>}]
       IN IF Op(t).kind = "transaction" \/ thread[t].part = 2 THEN MaybeCommit(t, c)
          ELSE conn' = [conn EXCEPT ![t] = c] /\ UNCHANGED db
    /\ thread' = [thread EXCEPT ![t].part = @ + 1]
    /\ UNCHANGED <<owner, depth, ops, jammed, stops>>

Leave(t, result) ==
    /\ owner' = NoOne
    /\ thread' = [thread EXCEPT ![t] = Idle]
    /\ ops' = [ops EXCEPT ![thread[t].op].result = result]

\* A statement fails, or is refused by a connection that is broken or missing.
\* A helper raises and leaves its connection as it is; a transaction rolls back
\* and gives it back; an inner one only counts down.
Fail(t) ==
    /\ Working(t) /\ thread[t].part \in Parts
    /\ Connect(t) /\ ~conn[t].broken => ~Locked(t)
    /\ Leave(t, "failed")
    /\ CASE Op(t).kind = "write" -> conn' = [conn EXCEPT ![t] = [Held EXCEPT !.broken = TRUE]]
                                    /\ UNCHANGED depth
         [] Op(t).kind = "transaction" /\ ~thread[t].nested ->
              conn' = [conn EXCEPT ![t] = NoConn] /\ depth' = 0
         [] Op(t).kind = "transaction" /\ thread[t].nested ->
              conn' = [conn EXCEPT ![t] = IF Connect(t) THEN [Held EXCEPT !.broken = TRUE] ELSE @]
              /\ depth' = depth - 1
    /\ UNCHANGED <<db, jammed, stops>>

\* The helper returns, or the transaction ends: the outer one commits.
Finish(t) ==
    /\ Working(t) /\ thread[t].part \notin Parts
    /\ Leave(t, "returned")
    /\ IF Op(t).kind = "transaction" /\ ~thread[t].nested
       THEN /\ db' = db \cup conn[t].open
            /\ conn' = [conn EXCEPT ![t] = NoConn]
       ELSE UNCHANGED <<db, conn>>
    /\ depth' = IF Op(t).kind = "write" THEN depth ELSE depth - 1
    /\ UNCHANGED <<jammed, stops>>

\* The process stops at any point; the server rolls back what was open.
Restart ==
    /\ stops < MaxStops
    /\ stops' = stops + 1
    /\ owner' = NoOne
    /\ depth' = 0
    /\ conn' = [t \in Threads |-> NoConn]
    /\ thread' = [t \in Threads |-> Idle]
    /\ ops' = [i \in 1..Len(ops) |->
                 IF ops[i].result = "running" THEN [ops[i] EXCEPT !.result = "failed"] ELSE ops[i]]
    /\ UNCHANGED <<db, jammed>>

Next ==
    \/ \E t \in Threads : \/ Read(t) \/ Statement(t) \/ Fail(t) \/ Finish(t)
                          \/ \E r \in Rows : StartWrite(t, r) \/ Enter(t, r) \/ EnterNested(t, r)
    \/ Restart

Spec == Init /\ [][Next]_vars

-----------------------------------------------------------------------------
TypeOK ==
    /\ owner \in Threads \cup {NoOne}
    /\ depth \in 0..2
    /\ conn \in [Threads -> [held : BOOLEAN, broken : BOOLEAN, open : SUBSET Statements]]
    /\ thread \in [Threads -> [phase : {"idle", "working"}, op : 0..MaxOps, part : 1..3,
                               nested : BOOLEAN]]
    /\ ops \in Seq([kind : {"write", "transaction"}, row : Rows,
                    result : {"running", "returned", "failed"}])
    /\ db \subseteq Statements
    /\ jammed \in BOOLEAN
    /\ stops \in 0..MaxStops

Committed(i) == {p \in Parts : <<i, p>> \in db}

\* Of a transaction all writes are committed or none, and none of one that
\* raised: whatever its helpers, other threads, leaked connections and restarts
\* do (transaction, used by ingest).
TransactionAtomic ==
    \A i \in 1..Len(ops) : ops[i].kind = "transaction" =>
      Committed(i) \in {{}, Parts} /\ (ops[i].result = "failed" => Committed(i) = {})

\* Unless a transaction was refused a connection: what returned is committed,
\* and a thread outside the lock has nothing open. So nobody waits in the
\* server, with the lock, for a row that its owner can free only with the lock.
NothingLeftOpen ==
    ~jammed =>
      /\ \A i \in 1..Len(ops) : ops[i].result = "returned" => Committed(i) = Parts
      /\ \A t \in Threads \ {owner} : conn[t].open = {}
===============================================================================
