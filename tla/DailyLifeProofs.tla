---------------------------- MODULE DailyLifeProofs ----------------------------
(***************************************************************************)
(* Proofs about daily life (MCDailyLife): the things at home, where she    *)
(* is, what follows the answer, consultations and games. Each component    *)
(* has its invariant, which holds while it is in focus.                    *)
(***************************************************************************)
EXTENDS MCDailyLife, FiniteSetTheorems, TLAPS
-----------------------------------------------------------------------------
(* The things at home *)

ItemRow == [qty : 0..MaxQty, place : AtHome!Spots, status : AtHome!Statuses]
Hand == [phase : {"idle", "loaded", "noted", "reloaded", "saved"},
         op : AtHome!Kinds, read : AtHome!Inventories]

\* What is used up is empty.
Counted(b) == \A t \in Things : b[t].status = "gone" => b[t].qty = 0

\* A value that was read is a right one, and the operation does something to it.
HandRight(k) ==
    /\ k \in Hand /\ Counted(k.read)
    /\ k.phase = "loaded" => AtHome!Allowed(k.read, k.op)

\* The operations that put a thing somewhere else.
Placing == {"give", "move", "lose"}

\* The threads are about different things. Each has the row of its thing as it
\* is, or has logged the place that it is about to write; and where the log has
\* a thing is where it is, or an operation on it is to be logged.
ThreadsApart ==
    \A p, q \in Threads :
      p # q /\ thread[p].phase # "idle" /\ thread[q].phase # "idle" =>
        thread[p].op.thing # thread[q].op.thing /\ thread[p].op.type # "repair"
RowsAreFresh ==
    \A p \in Threads :
      thread[p].phase \in {"loaded", "noted", "saved"} =>
        thread[p].read[thread[p].op.thing] = inv[thread[p].op.thing]
FindsAreLogged ==
    \A p \in Threads :
      thread[p].phase \in {"noted", "reloaded"} =>
        at[thread[p].op.thing] = thread[p].read[thread[p].op.thing].place
LogIsFollowed ==
    \A t \in Things :
      at[t] \in AtHome!Spots =>
        \/ inv[t].place = at[t]
        \/ \E p \in Threads : /\ thread[p].phase = "saved" /\ thread[p].op.thing = t
                              /\ thread[p].op.type \in Placing
ThingsKept == ThreadsApart /\ RowsAreFresh /\ FindsAreLogged /\ LogIsFollowed

ItemsTyped ==
    /\ inv \in AtHome!Inventories
    /\ at \in [Things -> AtHome!Spots \cup {AtHome!Nowhere, AtHome!Lost}]
    /\ thread \in [Threads -> Hand]
    /\ raced \in BOOLEAN /\ unlogged \in BOOLEAN
    /\ ops \in 0..MaxOps /\ stops \in 0..MaxStops

ItemsInv ==
    /\ ItemsTyped
    /\ Counted(inv) /\ \A p \in Threads : HandRight(thread[p])
    /\ ~raced /\ ~unlogged => ThingsKept

LEMMA ItemsConstants ==
    /\ Things # {} /\ Table \in Furniture /\ Box \in Furniture
    /\ Table \in AtHome!Spots /\ Box \in AtHome!Spots
    /\ AtHome!Nowhere \notin AtHome!Spots /\ AtHome!Lost \notin AtHome!Spots
    /\ MaxQty \in Nat /\ MaxQty > 0 /\ MaxOps \in Nat /\ MaxStops \in Nat
<1>1. AtHome!ItemsAssumption
  BY ConstantsAssumption
<1>2. /\ Things # {} /\ {Table, Box} \subseteq Furniture
      /\ {AtHome!Nowhere, AtHome!Lost} \cap AtHome!Spots = {}
  BY <1>1 DEF AtHome!ItemsAssumption
<1>3. MaxQty \in Nat /\ MaxQty > 0 /\ MaxOps \in Nat /\ MaxStops \in Nat
  BY <1>1 DEF AtHome!ItemsAssumption
<1>. QED
  BY <1>2, <1>3 DEF AtHome!Spots

LEMMA ItemsAreRight ==
    ItemsInv => AtHome!TypeOK /\ AtHome!PlacesAgree /\ AtHome!GoneIsEmpty
<1>. SUFFICES ASSUME ItemsInv
              PROVE  AtHome!TypeOK /\ AtHome!PlacesAgree /\ AtHome!GoneIsEmpty
  OBVIOUS
<1>1. AtHome!TypeOK
  <2>1. {raced, unlogged} \subseteq BOOLEAN
    BY DEF ItemsInv, ItemsTyped
  <2>. QED
    BY <2>1 DEF ItemsInv, ItemsTyped, Hand, AtHome!TypeOK
<1>2. AtHome!PlacesAgree
  <2>1. ASSUME ~raced, ~unlogged, NEW t \in Things, at[t] \in AtHome!Spots, ~AtHome!Touched(t)
        PROVE  inv[t].place = at[t]
    BY <2>1 DEF ItemsInv, ThingsKept, LogIsFollowed, AtHome!Touched
  <2>. QED
    BY <2>1 DEF AtHome!PlacesAgree
<1>3. AtHome!GoneIsEmpty
  BY DEF ItemsInv, Counted, AtHome!GoneIsEmpty
<1>. QED
  BY <1>1, <1>2, <1>3

LEMMA ItemRows ==
    /\ AtHome!Inventories = [Things -> ItemRow]
    /\ AtHome!NoRow \in ItemRow /\ AtHome!NoRow.status = "none"
    /\ AtHome!AtHome \in ItemRow /\ AtHome!AtHome.status = "has"
    /\ AtHome!NoRows \in AtHome!Inventories /\ Counted(AtHome!NoRows)
<1>1. AtHome!Inventories = [Things -> ItemRow]
  BY DEF AtHome!Inventories, ItemRow
<1>2. 0 \in 0..MaxQty /\ 1 \in 0..MaxQty
  BY ItemsConstants
<1>3. /\ AtHome!NoRow \in ItemRow /\ AtHome!NoRow.status = "none"
      /\ AtHome!AtHome \in ItemRow /\ AtHome!AtHome.status = "has"
  BY <1>2, ItemsConstants DEF AtHome!NoRow, AtHome!AtHome, ItemRow, AtHome!Statuses
<1>4. AtHome!NoRows \in AtHome!Inventories /\ Counted(AtHome!NoRows)
  BY <1>1, <1>3 DEF AtHome!NoRows, Counted
<1>. QED
  BY <1>1, <1>3, <1>4

LEMMA HandIsIdle == AtHome!Idle \in Hand /\ AtHome!Idle.phase = "idle" /\ HandRight(AtHome!Idle)
<1>. DEFINE k == [type |-> "repair", thing |-> CHOOSE t \in Things : TRUE, to |-> Table]
<1>1. k \in AtHome!Kinds /\ k.type = "repair"
  <2>1. (CHOOSE t \in Things : TRUE) \in Things
    BY ItemsConstants
  <2>. QED
    BY <2>1, ItemsConstants DEF AtHome!Kinds, AtHome!OpTypes
<1>. HIDE DEF k
<1>2. (CHOOSE x \in AtHome!Kinds : x.type = "repair") \in AtHome!Kinds
  BY <1>1
<1>3. /\ AtHome!Idle \in Hand /\ AtHome!Idle.phase = "idle" /\ AtHome!Idle.read = AtHome!NoRows
  BY <1>2, ItemRows DEF AtHome!Idle, Hand
<1>. QED
  BY <1>3, ItemRows DEF HandRight

LEMMA ItemsStart == AtHome!Init => ItemsInv
<1>. SUFFICES ASSUME AtHome!Init PROVE ItemsInv
  OBVIOUS
<1>1. inv \in [Things -> {AtHome!AtHome, AtHome!NoRow}]
  BY DEF AtHome!Init
<1>2. inv \in AtHome!Inventories /\ Counted(inv)
  BY <1>1, ItemRows DEF Counted
<1>3. thread \in [Threads -> Hand] /\ \A p \in Threads : thread[p].phase = "idle" /\ HandRight(thread[p])
  BY HandIsIdle DEF AtHome!Init
<1>4. raced \in BOOLEAN /\ unlogged \in BOOLEAN
  BY DEF AtHome!Init
<1>5. /\ at \in [Things -> AtHome!Spots \cup {AtHome!Nowhere, AtHome!Lost}]
      /\ \A t \in Things : at[t] \notin AtHome!Spots
  BY ItemsConstants DEF AtHome!Init
<1>6. ops \in 0..MaxOps /\ stops \in 0..MaxStops
  BY ItemsConstants DEF AtHome!Init
<1>7. ThingsKept
  BY <1>3, <1>5 DEF ThingsKept, ThreadsApart, RowsAreFresh, FindsAreLogged, LogIsFollowed
<1>. QED
  BY <1>2, <1>3, <1>4, <1>5, <1>6, <1>7 DEF ItemsInv, ItemsTyped

-----------------------------------------------------------------------------
(* What an operation makes of a value *)

\* Every operation but a repair changes the row of its thing.
LEMMA AppliedToItsThing ==
    ASSUME NEW b \in AtHome!Inventories, Counted(b), NEW k \in AtHome!Kinds,
           k.type \notin {"see", "find", "repair"}, AtHome!Allowed(b, k)
    PROVE  \E row \in ItemRow :
             /\ AtHome!Applied(b, k) = [b EXCEPT ![k.thing] = row]
             /\ row.status = "gone" => row.qty = 0
             /\ k.type \notin Placing => row.place = b[k.thing].place
<1>. DEFINE old == b[k.thing]
<1>1. /\ k.thing \in Things /\ k.to \in AtHome!Spots
      /\ old \in ItemRow /\ (old.status = "gone" => old.qty = 0)
      /\ k.type \in {"take", "empty", "consume", "give", "move", "expire", "lose", "fail"}
  BY ItemRows DEF AtHome!Kinds, AtHome!OpTypes, Counted
<1>2. /\ old.qty \in 0..MaxQty /\ old.place \in AtHome!Spots /\ old.status \in AtHome!Statuses
  BY <1>1 DEF ItemRow
<1>3. ASSUME NEW n \in {1, MaxQty}
      PROVE  /\ AtHome!Left(old, n) \in ItemRow /\ AtHome!Left(old, n).place = old.place
             /\ AtHome!Left(old, n).status = "gone" => AtHome!Left(old, n).qty = 0
  <2>. DEFINE q == IF old.qty > n THEN old.qty - n ELSE 0
              s == IF q = 0 THEN "gone" ELSE "has"
  <2>1. q \in 0..MaxQty
    BY <1>2, ItemsConstants
  <2>2. s \in AtHome!Statuses /\ (s = "gone" => q = 0)
    BY DEF AtHome!Statuses
  <2>3. AtHome!Left(old, n) = [old EXCEPT !.qty = q, !.status = s]
    BY DEF AtHome!Left
  <2>. HIDE DEF q, s, old
  <2>. QED
    BY <1>1, <2>1, <2>2, <2>3 DEF ItemRow
<1>. HIDE DEF old
<1>4. CASE k.type \in {"take", "consume", "expire"}
  <2>1. AtHome!Applied(b, k) = [b EXCEPT ![k.thing] = AtHome!Left(old, 1)]
    BY <1>4 DEF AtHome!Applied, old
  <2>. QED
    BY <1>3, <2>1 DEF old
<1>5. CASE k.type = "empty"
  <2>1. AtHome!Applied(b, k) = [b EXCEPT ![k.thing] = AtHome!Left(old, MaxQty)]
    BY <1>5 DEF AtHome!Applied, old
  <2>. QED
    BY <1>3, <2>1 DEF old
<1>6. CASE k.type = "give"
  <2>1. AtHome!Applied(b, k) = [b EXCEPT ![k.thing] = AtHome!Given(b, k.thing)]
    BY <1>6 DEF AtHome!Applied
  <2>2. old.qty + 1 \in 0..MaxQty
    <3>1. old.qty + 1 <= MaxQty
      BY <1>6 DEF AtHome!Allowed, old
    <3>. QED
      BY <1>2, <3>1, ItemsConstants
  <2>3. AtHome!Given(b, k.thing) \in ItemRow /\ AtHome!Given(b, k.thing).status = "has"
    <3>1. CASE AtHome!Present(b, k.thing)
      <4>1. AtHome!Given(b, k.thing) = [old EXCEPT !.qty = old.qty + 1, !.status = "has"]
        BY <3>1 DEF AtHome!Given, old
      <4>. QED
        BY <1>1, <2>2, <4>1 DEF ItemRow, AtHome!Statuses
    <3>2. CASE ~AtHome!Present(b, k.thing)
      <4>1. PICK c \in {Table, Box} :
              AtHome!Given(b, k.thing) = [qty |-> 1, status |-> "has", place |-> c]
        BY <3>2 DEF AtHome!Given
      <4>2. 1 \in 0..MaxQty
        BY ItemsConstants
      <4>. QED
        BY <4>1, <4>2, ItemsConstants DEF ItemRow, AtHome!Statuses
    <3>. QED
      BY <3>1, <3>2
  <2>. QED
    BY <1>6, <2>1, <2>3 DEF Placing
<1>7. CASE k.type = "move"
  <2>. DEFINE row == [old EXCEPT !.place = k.to]
  <2>1. AtHome!Applied(b, k) = [b EXCEPT ![k.thing] = row]
    BY <1>7 DEF AtHome!Applied, old
  <2>2. row \in ItemRow /\ row.status = old.status /\ row.qty = old.qty
    BY <1>1 DEF ItemRow
  <2>. HIDE DEF row
  <2>. QED
    BY <1>1, <1>7, <2>1, <2>2 DEF Placing
<1>8. CASE k.type = "lose"
  <2>1. AtHome!Applied(b, k) = [b EXCEPT ![k.thing] = AtHome!Mislaid(old, k.to)]
    BY <1>8 DEF AtHome!Applied, old
  <2>2. AtHome!Mislaid(old, k.to) \in ItemRow /\ AtHome!Mislaid(old, k.to).status = "lost"
    BY <1>1 DEF AtHome!Mislaid, ItemRow, AtHome!Statuses
  <2>. QED
    BY <1>8, <2>1, <2>2 DEF Placing
<1>9. CASE k.type = "fail"
  <2>. DEFINE row == [old EXCEPT !.status = "lost"]
  <2>1. AtHome!Applied(b, k) = [b EXCEPT ![k.thing] = row]
    BY <1>9 DEF AtHome!Applied, old
  <2>2. row \in ItemRow /\ row.status = "lost" /\ row.place = old.place
    BY <1>1 DEF ItemRow, AtHome!Statuses
  <2>. HIDE DEF row
  <2>. QED
    BY <2>1, <2>2 DEF old
<1>. QED
  BY <1>1, <1>4, <1>5, <1>6, <1>7, <1>8, <1>9

\* A repair moves nothing.
LEMMA RepairedRow ==
    ASSUME NEW row \in ItemRow, row.status = "gone" => row.qty = 0
    PROVE  /\ AtHome!Repaired(row) \in ItemRow /\ AtHome!Repaired(row).place = row.place
           /\ AtHome!Repaired(row).status = "gone" => AtHome!Repaired(row).qty = 0
<1>. DEFINE counted == IF row.status = "none" THEN row
                       ELSE IF row.qty = 0 THEN [row EXCEPT !.status = "gone"]
                       ELSE IF row.status = "gone" THEN [row EXCEPT !.status = "has"] ELSE row
<1>1. /\ counted \in ItemRow /\ counted.place = row.place
      /\ counted.status = "gone" => counted.qty = 0
  <2>1. /\ [row EXCEPT !.status = "gone"] \in ItemRow
        /\ [row EXCEPT !.status = "gone"].place = row.place
        /\ [row EXCEPT !.status = "gone"].qty = row.qty
    BY DEF ItemRow, AtHome!Statuses
  <2>2. /\ [row EXCEPT !.status = "has"] \in ItemRow
        /\ [row EXCEPT !.status = "has"].place = row.place
        /\ [row EXCEPT !.status = "has"].status = "has"
    BY DEF ItemRow, AtHome!Statuses
  <2>3. \/ counted = row /\ row.status = "none"
        \/ counted = [row EXCEPT !.status = "gone"] /\ row.qty = 0
        \/ counted = [row EXCEPT !.status = "has"]
        \/ counted = row
    OBVIOUS
  <2>. HIDE DEF counted
  <2>. QED
    BY <2>1, <2>2, <2>3
<1>2. \/ AtHome!Repaired(row) = counted
      \/ AtHome!Repaired(row) = [counted EXCEPT !.status = "lost"]
  BY DEF AtHome!Repaired
<1>. HIDE DEF counted
<1>3. /\ [counted EXCEPT !.status = "lost"] \in ItemRow
      /\ [counted EXCEPT !.status = "lost"].place = row.place
      /\ [counted EXCEPT !.status = "lost"].status = "lost"
  BY <1>1 DEF ItemRow, AtHome!Statuses
<1>. QED
  BY <1>1, <1>2, <1>3

LEMMA AppliedIsRight ==
    ASSUME NEW b \in AtHome!Inventories, Counted(b), NEW k \in AtHome!Kinds,
           k.type \notin {"see", "find"}, AtHome!Allowed(b, k)
    PROVE  /\ AtHome!Applied(b, k) \in AtHome!Inventories /\ Counted(AtHome!Applied(b, k))
           /\ \A x \in Things : x # k.thing =>
                /\ AtHome!Applied(b, k)[x].place = b[x].place
                /\ k.type # "repair" => AtHome!Applied(b, k)[x] = b[x]
           /\ k.type \notin Placing => AtHome!Applied(b, k)[k.thing].place = b[k.thing].place
<1>1. k.thing \in Things /\ b \in [Things -> ItemRow]
  BY ItemRows DEF AtHome!Kinds
<1>2. CASE k.type = "repair"
  <2>1. AtHome!Applied(b, k) = [t \in Things |-> AtHome!Repaired(b[t])]
    BY <1>2 DEF AtHome!Applied
  <2>2. \A t \in Things : /\ AtHome!Repaired(b[t]) \in ItemRow
                          /\ AtHome!Repaired(b[t]).place = b[t].place
                          /\ AtHome!Repaired(b[t]).status = "gone" => AtHome!Repaired(b[t]).qty = 0
    BY <1>1, RepairedRow DEF Counted
  <2>. QED
    BY <1>1, <1>2, <2>1, <2>2, ItemRows DEF Counted
<1>3. CASE k.type # "repair"
  <2>1. PICK row \in ItemRow :
             /\ AtHome!Applied(b, k) = [b EXCEPT ![k.thing] = row]
             /\ row.status = "gone" => row.qty = 0
             /\ k.type \notin Placing => row.place = b[k.thing].place
    BY <1>3, AppliedToItsThing
  <2>. QED
    BY <1>1, <1>3, <2>1, ItemRows DEF Counted
<1>. QED
  BY <1>2, <1>3

-----------------------------------------------------------------------------
(* The steps *)

\* One thread goes on.
LEMMA ThreadGoes ==
    ASSUME ItemsInv, NEW p \in Threads, NEW to, HandRight(to), AtHome!Step(p, to)
    PROVE  /\ thread' \in [Threads -> Hand] /\ thread'[p] = to
           /\ \A q \in Threads : q # p => thread'[q] = thread[q]
           /\ \A q \in Threads : HandRight(thread'[q])
<1>1. /\ thread' \in [Threads -> Hand] /\ thread'[p] = to
      /\ \A q \in Threads : q # p => thread'[q] = thread[q]
  BY DEF ItemsInv, ItemsTyped, HandRight, AtHome!Step
<1>. QED
  BY <1>1 DEF ItemsInv

\* A thread that is at work goes on, and changes what it is about.
LEMMA StillApart ==
    ASSUME ThingsKept, NEW p \in Threads, NEW t \in Things,
           thread[p].phase # "idle", thread[p].op.thing = t,
           \A q \in Threads : q # p => thread'[q] = thread[q],
           \A q \in Threads : thread[q].op.thing \in Things,
           thread'[p].phase # "idle" => thread'[p].op = thread[p].op,
           \A x \in Things : x # t => /\ inv'[x].place = inv[x].place
                                      /\ thread[p].op.type # "repair" => inv'[x] = inv[x]
                                      /\ at'[x] = at[x],
           thread'[p].phase \in {"loaded", "noted", "saved"} => thread'[p].read[t] = inv'[t],
           thread'[p].phase \in {"noted", "reloaded"} => at'[t] = thread'[p].read[t].place,
           at'[t] \in AtHome!Spots =>
             \/ inv'[t].place = at'[t]
             \/ thread'[p].phase = "saved" /\ thread[p].op.type \in Placing
    PROVE  ThingsKept'
<1>1. \A q \in Threads : q # p /\ thread[q].phase # "idle" =>
        /\ thread[q].op.thing # t /\ thread[q].op.thing \in Things
        /\ thread[p].op.type # "repair"
  BY DEF ThingsKept, ThreadsApart
<1>2. ThreadsApart'
  BY DEF ThingsKept, ThreadsApart
<1>3. RowsAreFresh'
  <2>. SUFFICES ASSUME NEW q \in Threads, thread'[q].phase \in {"loaded", "noted", "saved"}
                PROVE  thread'[q].read[thread'[q].op.thing] = inv'[thread'[q].op.thing]
    BY DEF RowsAreFresh
  <2>1. CASE q = p
    BY <2>1
  <2>2. CASE q # p
    <3>1. thread'[q] = thread[q] /\ thread[q].phase # "idle"
      BY <2>2
    <3>. QED
      BY <1>1, <2>2, <3>1 DEF ThingsKept, RowsAreFresh
  <2>. QED
    BY <2>1, <2>2
<1>4. FindsAreLogged'
  <2>. SUFFICES ASSUME NEW q \in Threads, thread'[q].phase \in {"noted", "reloaded"}
                PROVE  at'[thread'[q].op.thing] = thread'[q].read[thread'[q].op.thing].place
    BY DEF FindsAreLogged
  <2>1. CASE q = p
    BY <2>1
  <2>2. CASE q # p
    <3>1. thread'[q] = thread[q] /\ thread[q].phase # "idle"
      BY <2>2
    <3>. QED
      BY <1>1, <2>2, <3>1 DEF ThingsKept, FindsAreLogged
  <2>. QED
    BY <2>1, <2>2
<1>5. LogIsFollowed'
  <2>. SUFFICES ASSUME NEW x \in Things, at'[x] \in AtHome!Spots
                PROVE  \/ inv'[x].place = at'[x]
                       \/ \E q \in Threads : /\ thread'[q].phase = "saved" /\ thread'[q].op.thing = x
                                             /\ thread'[q].op.type \in Placing
    BY DEF LogIsFollowed
  <2>1. CASE x = t
    BY <2>1
  <2>2. CASE x # t
    <3>1. \/ inv[x].place = at[x]
          \/ \E q \in Threads : /\ thread[q].phase = "saved" /\ thread[q].op.thing = x
                                /\ thread[q].op.type \in Placing
      BY <2>2 DEF ThingsKept, LogIsFollowed
    <3>. QED
      BY <2>2, <3>1
  <2>. QED
    BY <2>1, <2>2
<1>. QED
  BY <1>2, <1>3, <1>4, <1>5 DEF ThingsKept

LEMMA HandTypes ==
    ASSUME ItemsInv, NEW p \in Threads
    PROVE  /\ thread[p] \in Hand /\ HandRight(thread[p])
           /\ thread[p].op \in AtHome!Kinds /\ thread[p].op.thing \in Things
           /\ thread[p].read \in AtHome!Inventories /\ Counted(thread[p].read)
           /\ thread[p].read \in [Things -> ItemRow] /\ inv \in [Things -> ItemRow]
           /\ thread[p].read[thread[p].op.thing] \in ItemRow
           /\ thread[p].read[thread[p].op.thing].place \in AtHome!Spots
           /\ raced \in BOOLEAN /\ unlogged \in BOOLEAN
<1>1. /\ thread[p] \in Hand /\ HandRight(thread[p]) /\ Counted(thread[p].read)
      /\ inv \in AtHome!Inventories
  BY DEF ItemsInv, ItemsTyped, HandRight
<1>2. /\ thread[p].op \in AtHome!Kinds /\ thread[p].read \in AtHome!Inventories
  BY <1>1 DEF Hand
<1>3. thread[p].op.thing \in Things
  BY <1>2 DEF AtHome!Kinds
<1>4. thread[p].read[thread[p].op.thing] \in ItemRow
  BY <1>2, <1>3, ItemRows
<1>5. thread[p].read[thread[p].op.thing].place \in AtHome!Spots
  BY <1>4 DEF ItemRow
<1>6. raced \in BOOLEAN /\ unlogged \in BOOLEAN
  BY DEF ItemsInv, ItemsTyped
<1>. QED
  BY <1>1, <1>2, <1>3, <1>4, <1>5, <1>6, ItemRows

LEMMA LoadingItems ==
    ASSUME ItemsInv, NEW p \in Threads, NEW k \in AtHome!Kinds, AtHome!Load(p, k)
    PROVE  ItemsInv'
<1>. DEFINE to == [phase |-> "loaded", op |-> k, read |-> inv]
<1>1. /\ thread[p].phase = "idle" /\ AtHome!Allowed(inv, k)
      /\ raced' = (raced \/ \E q \in Threads : /\ thread[q].phase # "idle"
                                               /\ \/ thread[q].op.thing = k.thing
                                                  \/ "repair" \in {thread[q].op.type, k.type})
      /\ AtHome!Step(p, to) /\ UNCHANGED <<inv, at, unlogged, stops>>
  BY DEF AtHome!Load
<1>2. ops' \in 0..MaxOps
  BY ItemsConstants DEF ItemsInv, ItemsTyped, AtHome!Load
<1>3. HandRight(to) /\ to.phase = "loaded" /\ to.op = k /\ to.read = inv
  BY <1>1 DEF ItemsInv, ItemsTyped, HandRight, Hand
<1>. HIDE DEF to
<1>4. /\ thread' \in [Threads -> Hand] /\ thread'[p] = to
      /\ \A q \in Threads : q # p => thread'[q] = thread[q]
      /\ \A q \in Threads : HandRight(thread'[q])
  BY <1>1, <1>3, ThreadGoes
<1>5. raced' \in BOOLEAN
  BY <1>1
<1>6. ItemsTyped' /\ Counted(inv')
  BY <1>1, <1>2, <1>4, <1>5 DEF ItemsInv, ItemsTyped
<1>7. ASSUME ~raced', ~unlogged' PROVE ThingsKept'
  <2>1. /\ ~raced /\ ~unlogged
        /\ \A q \in Threads : thread[q].phase # "idle" =>
             thread[q].op.thing # k.thing /\ thread[q].op.type # "repair" /\ k.type # "repair"
    BY <1>1, <1>7, HandTypes
  <2>2. ThingsKept
    BY <2>1 DEF ItemsInv
  <2>3. ThreadsApart'
    BY <1>1, <1>3, <1>4, <2>1, <2>2 DEF ThingsKept, ThreadsApart
  <2>4. RowsAreFresh'
    BY <1>1, <1>3, <1>4, <2>2 DEF ThingsKept, RowsAreFresh
  <2>5. FindsAreLogged'
    BY <1>1, <1>3, <1>4, <2>2 DEF ThingsKept, FindsAreLogged
  <2>6. LogIsFollowed'
    <3>1. \A q \in Threads : thread[q].phase = "saved" => thread'[q] = thread[q]
      BY <1>1, <1>4
    <3>. QED
      BY <1>1, <2>2, <3>1 DEF ThingsKept, LogIsFollowed
  <2>. QED
    BY <2>3, <2>4, <2>5, <2>6 DEF ThingsKept
<1>. QED
  BY <1>4, <1>6, <1>7 DEF ItemsInv

LEMMA SavingItems ==
    ASSUME ItemsInv, NEW p \in Threads, AtHome!Save(p)
    PROVE  ItemsInv'
<1>. DEFINE k == thread[p].op
            b == thread[p].read
            to == [thread[p] EXCEPT !.phase = "saved", !.read = inv']
<1>1. /\ thread[p].phase = "loaded" /\ k.type \notin {"see", "find"}
      /\ inv' = AtHome!Applied(b, k)
      /\ raced' = (raced \/ inv # b)
      /\ AtHome!Step(p, to) /\ UNCHANGED <<at, unlogged, ops, stops>>
  BY DEF AtHome!Save
<1>2. /\ thread[p] \in Hand /\ k \in AtHome!Kinds /\ k.thing \in Things
      /\ b \in AtHome!Inventories /\ Counted(b) /\ AtHome!Allowed(b, k)
  BY <1>1, HandTypes DEF HandRight
<1>3. /\ inv' \in AtHome!Inventories /\ Counted(inv')
      /\ \A x \in Things : x # k.thing =>
           /\ inv'[x].place = b[x].place
           /\ k.type # "repair" => inv'[x] = b[x]
      /\ k.type \notin Placing => inv'[k.thing].place = b[k.thing].place
  <2>. HIDE DEF k, b
  <2>. QED
    BY <1>1, <1>2, AppliedIsRight
<1>4. HandRight(to) /\ to.phase = "saved" /\ to.op = k /\ to.read = inv'
  <2>1. to \in Hand /\ to.phase = "saved" /\ to.op = k /\ to.read = inv'
    BY <1>2, <1>3 DEF Hand
  <2>. HIDE DEF to
  <2>. QED
    BY <1>3, <2>1 DEF HandRight
<1>. HIDE DEF to
<1>5. /\ thread' \in [Threads -> Hand] /\ thread'[p] = to
      /\ \A q \in Threads : q # p => thread'[q] = thread[q]
      /\ \A q \in Threads : HandRight(thread'[q])
  BY <1>1, <1>4, ThreadGoes
<1>6. raced' \in BOOLEAN
  BY <1>1
<1>7. ItemsTyped'
  BY <1>1, <1>3, <1>5, <1>6 DEF ItemsInv, ItemsTyped
<1>8. ASSUME ~raced', ~unlogged' PROVE ThingsKept'
  <2>1. ~raced /\ ~unlogged /\ inv = b
    BY <1>1, <1>8, HandTypes
  <2>2. ThingsKept
    BY <2>1 DEF ItemsInv
  <2>3. at[k.thing] \in AtHome!Spots => inv[k.thing].place = at[k.thing]
    <3>1. \A q \in Threads : ~(thread[q].phase = "saved" /\ thread[q].op.thing = k.thing)
      BY <1>1, <2>2 DEF ThingsKept, ThreadsApart
    <3>. QED
      BY <1>2, <2>2, <3>1 DEF ThingsKept, LogIsFollowed
  <2>4. \A q \in Threads : thread[q].op.thing \in Things
    BY HandTypes
  <2>5. \A x \in Things : x # k.thing =>
          /\ inv'[x].place = inv[x].place
          /\ k.type # "repair" => inv'[x] = inv[x]
          /\ at'[x] = at[x]
    BY <1>1, <1>3, <2>1
  <2>6. at'[k.thing] \in AtHome!Spots =>
          inv'[k.thing].place = at'[k.thing] \/ (thread'[p].phase = "saved" /\ k.type \in Placing)
    BY <1>1, <1>3, <1>4, <1>5, <2>1, <2>3
  <2>. QED
    BY <1>1, <1>2, <1>4, <1>5, <2>2, <2>4, <2>5, <2>6, StillApart
<1>. QED
  BY <1>3, <1>5, <1>7, <1>8 DEF ItemsInv

LEMMA RecordingItems ==
    ASSUME ItemsInv, NEW p \in Threads, AtHome!Record(p)
    PROVE  ItemsInv'
<1>. DEFINE k == thread[p].op
            b == thread[p].read
            t == k.thing
<1>1. /\ thread[p].phase = "saved"
      /\ at' = [at EXCEPT ![t] = AtHome!EventOf(b, k)]
      /\ AtHome!Step(p, AtHome!Idle) /\ UNCHANGED <<inv, raced, unlogged, ops, stops>>
  BY DEF AtHome!Record
<1>2. /\ k \in AtHome!Kinds /\ t \in Things /\ b[t].place \in AtHome!Spots
      /\ at \in [Things -> AtHome!Spots \cup {AtHome!Nowhere, AtHome!Lost}]
  BY HandTypes DEF ItemsInv, ItemsTyped
<1>3. /\ k.type \in {"give", "move"} => AtHome!EventOf(b, k) = b[t].place
      /\ k.type \in {"lose", "fail"} => AtHome!EventOf(b, k) = AtHome!Lost
      /\ k.type \notin {"give", "move", "lose", "fail"} => AtHome!EventOf(b, k) = at[t]
  BY DEF AtHome!EventOf
<1>. HIDE DEF k, b
<1>4. AtHome!EventOf(b, k) \in AtHome!Spots \cup {AtHome!Nowhere, AtHome!Lost}
  BY <1>2, <1>3
<1>5. /\ at' \in [Things -> AtHome!Spots \cup {AtHome!Nowhere, AtHome!Lost}]
      /\ at'[t] = AtHome!EventOf(b, k)
      /\ \A x \in Things : x # t => at'[x] = at[x]
  BY <1>1, <1>2, <1>4
<1>6. /\ thread' \in [Threads -> Hand] /\ thread'[p] = AtHome!Idle
      /\ \A q \in Threads : q # p => thread'[q] = thread[q]
      /\ \A q \in Threads : HandRight(thread'[q])
  BY <1>1, HandIsIdle, ThreadGoes
<1>7. ItemsTyped' /\ Counted(inv')
  BY <1>1, <1>5, <1>6 DEF ItemsInv, ItemsTyped
<1>8. ASSUME ~raced', ~unlogged' PROVE ThingsKept'
  <2>1. ThingsKept
    BY <1>1, <1>8 DEF ItemsInv
  <2>2. b[t] = inv[t]
    BY <1>1, <2>1 DEF ThingsKept, RowsAreFresh, k, b
  <2>3. at'[t] \in AtHome!Spots => inv'[t].place = at'[t]
    <3>1. CASE k.type \in {"give", "move"}
      BY <1>1, <1>3, <1>5, <2>2, <3>1
    <3>2. CASE k.type \in {"lose", "fail"}
      BY <1>3, <1>5, <3>2, ItemsConstants
    <3>3. CASE k.type \notin {"give", "move", "lose", "fail"}
      <4>1. \A q \in Threads : thread[q].phase = "saved" /\ thread[q].op.thing = t => q = p
        BY <1>1, <2>1 DEF ThingsKept, ThreadsApart, k
      <4>2. at[t] \in AtHome!Spots => inv[t].place = at[t]
        BY <1>2, <2>1, <3>3, <4>1 DEF ThingsKept, LogIsFollowed, Placing, k
      <4>. QED
        BY <1>1, <1>3, <1>5, <3>3, <4>2
    <3>. QED
      BY <3>1, <3>2, <3>3
  <2>4. \A q \in Threads : thread[q].op.thing \in Things
    BY HandTypes
  <2>5. thread[p].op.thing = t /\ thread'[p].phase = "idle"
    BY <1>6, HandIsIdle DEF k
  <2>. HIDE DEF t
  <2>. QED
    BY <1>1, <1>2, <1>5, <1>6, <2>1, <2>3, <2>4, <2>5, StillApart
<1>. QED
  BY <1>6, <1>7, <1>8 DEF ItemsInv

LEMMA SeeingItems ==
    ASSUME ItemsInv, NEW p \in Threads, AtHome!See(p)
    PROVE  ItemsInv'
<1>. DEFINE t == thread[p].op.thing
            place == thread[p].read[t].place
<1>1. /\ thread[p].phase = "loaded" /\ thread[p].op.type = "see"
      /\ at' = [at EXCEPT ![t] = place] \/ at' = at
      /\ AtHome!Step(p, AtHome!Idle) /\ UNCHANGED <<inv, raced, unlogged, ops, stops>>
  BY DEF AtHome!See
<1>2. /\ t \in Things /\ place \in AtHome!Spots
      /\ at \in [Things -> AtHome!Spots \cup {AtHome!Nowhere, AtHome!Lost}]
  BY HandTypes DEF ItemsInv, ItemsTyped
<1>. HIDE DEF place
<1>3. /\ at' \in [Things -> AtHome!Spots \cup {AtHome!Nowhere, AtHome!Lost}]
      /\ at'[t] \in {place, at[t]}
      /\ \A x \in Things : x # t => at'[x] = at[x]
  BY <1>1, <1>2
<1>4. /\ thread' \in [Threads -> Hand] /\ thread'[p] = AtHome!Idle
      /\ \A q \in Threads : q # p => thread'[q] = thread[q]
      /\ \A q \in Threads : HandRight(thread'[q])
  BY <1>1, HandIsIdle, ThreadGoes
<1>5. ItemsTyped' /\ Counted(inv')
  BY <1>1, <1>3, <1>4 DEF ItemsInv, ItemsTyped
<1>6. ASSUME ~raced', ~unlogged' PROVE ThingsKept'
  <2>1. ThingsKept
    BY <1>1, <1>6 DEF ItemsInv
  <2>2. inv[t].place = place
    BY <1>1, <2>1 DEF ThingsKept, RowsAreFresh, place
  <2>3. at[t] \in AtHome!Spots => inv[t].place = at[t]
    <3>1. \A q \in Threads : ~(thread[q].phase = "saved" /\ thread[q].op.thing = t)
      BY <1>1, <2>1 DEF ThingsKept, ThreadsApart
    <3>. QED
      BY <1>2, <2>1, <3>1 DEF ThingsKept, LogIsFollowed
  <2>4. at'[t] \in AtHome!Spots => inv'[t].place = at'[t]
    BY <1>1, <1>3, <2>2, <2>3
  <2>5. \A q \in Threads : thread[q].op.thing \in Things
    BY HandTypes
  <2>6. thread[p].op.thing = t /\ thread'[p].phase = "idle"
    BY <1>4, HandIsIdle
  <2>. HIDE DEF t
  <2>. QED
    BY <1>1, <1>2, <1>3, <1>4, <2>1, <2>4, <2>5, <2>6, StillApart
<1>. QED
  BY <1>4, <1>5, <1>6 DEF ItemsInv

LEMMA NotingItems ==
    ASSUME ItemsInv, NEW p \in Threads, AtHome!Note(p)
    PROVE  ItemsInv'
<1>. DEFINE t == thread[p].op.thing
            place == thread[p].read[t].place
            to == [thread[p] EXCEPT !.phase = "noted"]
<1>1. /\ thread[p].phase = "loaded" /\ at' = [at EXCEPT ![t] = place]
      /\ AtHome!Step(p, to) /\ UNCHANGED <<inv, raced, unlogged, ops, stops>>
  BY DEF AtHome!Note
<1>2. /\ t \in Things /\ place \in AtHome!Spots
      /\ at \in [Things -> AtHome!Spots \cup {AtHome!Nowhere, AtHome!Lost}]
  BY HandTypes DEF ItemsInv, ItemsTyped
<1>3. /\ HandRight(to) /\ to.phase = "noted"
      /\ to.op = thread[p].op /\ to.read = thread[p].read
  <2>1. to \in Hand /\ to.phase = "noted" /\ to.op = thread[p].op /\ to.read = thread[p].read
    BY HandTypes DEF Hand
  <2>. HIDE DEF to
  <2>. QED
    BY <2>1, HandTypes DEF HandRight
<1>. HIDE DEF place, to
<1>4. /\ at' \in [Things -> AtHome!Spots \cup {AtHome!Nowhere, AtHome!Lost}]
      /\ at'[t] = place
      /\ \A x \in Things : x # t => at'[x] = at[x]
  BY <1>1, <1>2
<1>5. /\ thread' \in [Threads -> Hand] /\ thread'[p] = to
      /\ \A q \in Threads : q # p => thread'[q] = thread[q]
      /\ \A q \in Threads : HandRight(thread'[q])
  BY <1>1, <1>3, ThreadGoes
<1>6. ItemsTyped' /\ Counted(inv')
  BY <1>1, <1>4, <1>5 DEF ItemsInv, ItemsTyped
<1>7. ASSUME ~raced', ~unlogged' PROVE ThingsKept'
  <2>1. ThingsKept
    BY <1>1, <1>7 DEF ItemsInv
  <2>2. thread[p].read[t] = inv[t]
    BY <1>1, <2>1 DEF ThingsKept, RowsAreFresh
  <2>3. /\ thread'[p].read[t] = inv'[t] /\ at'[t] = thread'[p].read[t].place
        /\ inv'[t].place = at'[t]
    BY <1>1, <1>3, <1>4, <1>5, <2>2 DEF place
  <2>4. \A q \in Threads : thread[q].op.thing \in Things
    BY HandTypes
  <2>5. thread[p].op.thing = t /\ thread'[p].op = thread[p].op
    BY <1>3, <1>5
  <2>. HIDE DEF t
  <2>. QED
    BY <1>1, <1>2, <1>4, <1>5, <2>1, <2>3, <2>4, <2>5, StillApart
<1>. QED
  BY <1>5, <1>6, <1>7 DEF ItemsInv

LEMMA ReloadingItems ==
    ASSUME ItemsInv, NEW p \in Threads, AtHome!Reload(p)
    PROVE  ItemsInv'
<1>. DEFINE t == thread[p].op.thing
            place == thread[p].read[t].place
            row == [inv[t] EXCEPT !.status = "has", !.place = place]
            read == [inv EXCEPT ![t] = row]
            to == [thread[p] EXCEPT !.phase = "reloaded", !.read = read]
<1>1. /\ thread[p].phase = "noted"
      /\ AtHome!Step(p, to) /\ UNCHANGED <<inv, at, raced, unlogged, ops, stops>>
  BY DEF AtHome!Reload
<1>2. /\ t \in Things /\ place \in AtHome!Spots /\ inv \in [Things -> ItemRow]
      /\ thread[p] \in Hand /\ Counted(inv)
  BY HandTypes DEF ItemsInv
<1>. HIDE DEF place
<1>3. row \in ItemRow /\ row.status = "has" /\ row.place = place
  <2>1. inv[t] \in ItemRow
    BY <1>2
  <2>. QED
    BY <1>2, <2>1 DEF ItemRow, AtHome!Statuses
<1>. HIDE DEF row
<1>4. read \in [Things -> ItemRow] /\ read[t] = row /\ Counted(read)
  BY <1>2, <1>3 DEF Counted
<1>. HIDE DEF read
<1>5. HandRight(to) /\ to.phase = "reloaded" /\ to.op = thread[p].op /\ to.read = read
  <2>1. to \in Hand /\ to.phase = "reloaded" /\ to.op = thread[p].op /\ to.read = read
    BY <1>2, <1>4, ItemRows DEF Hand
  <2>. HIDE DEF to
  <2>. QED
    BY <1>4, <2>1 DEF HandRight
<1>. HIDE DEF to
<1>6. /\ thread' \in [Threads -> Hand] /\ thread'[p] = to
      /\ \A q \in Threads : q # p => thread'[q] = thread[q]
      /\ \A q \in Threads : HandRight(thread'[q])
  BY <1>1, <1>5, ThreadGoes
<1>7. ItemsTyped' /\ Counted(inv')
  BY <1>1, <1>6 DEF ItemsInv, ItemsTyped
<1>8. ASSUME ~raced', ~unlogged' PROVE ThingsKept'
  <2>1. ThingsKept
    BY <1>1, <1>8 DEF ItemsInv
  <2>2. at[t] = place
    BY <1>1, <2>1 DEF ThingsKept, FindsAreLogged, place
  <2>3. at'[t] = thread'[p].read[t].place
    BY <1>1, <1>3, <1>4, <1>5, <1>6, <2>2
  <2>4. at[t] \in AtHome!Spots => inv[t].place = at[t]
    <3>1. \A q \in Threads : ~(thread[q].phase = "saved" /\ thread[q].op.thing = t)
      BY <1>1, <2>1 DEF ThingsKept, ThreadsApart
    <3>. QED
      BY <1>2, <2>1, <3>1 DEF ThingsKept, LogIsFollowed
  <2>5. \A q \in Threads : thread[q].op.thing \in Things
    BY HandTypes
  <2>6. /\ thread[p].op.thing = t /\ thread'[p].op = thread[p].op
        /\ thread'[p].phase = "reloaded"
    BY <1>5, <1>6
  <2>. HIDE DEF t
  <2>. QED
    BY <1>1, <1>2, <1>6, <2>1, <2>3, <2>4, <2>5, <2>6, StillApart
<1>. QED
  BY <1>6, <1>7, <1>8 DEF ItemsInv

LEMMA FindingItems ==
    ASSUME ItemsInv, NEW p \in Threads, AtHome!Found(p)
    PROVE  ItemsInv'
<1>. DEFINE t == thread[p].op.thing
<1>1. /\ thread[p].phase = "reloaded" /\ inv' = thread[p].read
      /\ raced' = (raced \/ \E x \in Things \ {t} : inv[x] # thread[p].read[x])
      /\ AtHome!Step(p, AtHome!Idle) /\ UNCHANGED <<at, unlogged, ops, stops>>
  BY DEF AtHome!Found
<1>2. t \in Things /\ inv' \in AtHome!Inventories /\ Counted(inv')
  BY <1>1, HandTypes
<1>3. /\ thread' \in [Threads -> Hand] /\ thread'[p] = AtHome!Idle
      /\ \A q \in Threads : q # p => thread'[q] = thread[q]
      /\ \A q \in Threads : HandRight(thread'[q])
  BY <1>1, HandIsIdle, ThreadGoes
<1>4. raced' \in BOOLEAN
  BY <1>1
<1>5. ItemsTyped'
  BY <1>1, <1>2, <1>3, <1>4 DEF ItemsInv, ItemsTyped
<1>6. ASSUME ~raced', ~unlogged' PROVE ThingsKept'
  <2>1. ~raced /\ ~unlogged /\ \A x \in Things : x # t => inv'[x] = inv[x]
    BY <1>1, <1>6, HandTypes
  <2>2. ThingsKept
    BY <2>1 DEF ItemsInv
  <2>3. at'[t] = inv'[t].place
    BY <1>1, <2>2 DEF ThingsKept, FindsAreLogged
  <2>4. \A q \in Threads : thread[q].op.thing \in Things
    BY HandTypes
  <2>5. thread[p].op.thing = t /\ thread'[p].phase = "idle"
    BY <1>3, HandIsIdle
  <2>6. \A x \in Things : x # t => /\ inv'[x].place = inv[x].place
                                   /\ thread[p].op.type # "repair" => inv'[x] = inv[x]
                                   /\ at'[x] = at[x]
    BY <1>1, <2>1
  <2>. HIDE DEF t
  <2>. QED
    BY <1>1, <1>2, <1>3, <2>2, <2>3, <2>4, <2>5, <2>6, StillApart
<1>. QED
  BY <1>2, <1>3, <1>5, <1>6 DEF ItemsInv

LEMMA ItemsRestarting == ItemsInv /\ AtHome!Restart => ItemsInv'
<1>. SUFFICES ASSUME ItemsInv, AtHome!Restart PROVE ItemsInv'
  OBVIOUS
<1>1. /\ unlogged' = (unlogged \/ \E p \in Threads : thread[p].phase = "saved")
      /\ thread' = [p \in Threads |-> AtHome!Idle]
      /\ UNCHANGED <<inv, at, raced, ops>>
  BY DEF AtHome!Restart
<1>2. stops' \in 0..MaxStops
  BY ItemsConstants DEF ItemsInv, ItemsTyped, AtHome!Restart
<1>3. unlogged' \in BOOLEAN
  BY <1>1
<1>4. /\ thread' \in [Threads -> Hand]
      /\ \A p \in Threads : thread'[p].phase = "idle" /\ HandRight(thread'[p])
  BY <1>1, HandIsIdle
<1>5. ItemsTyped' /\ Counted(inv')
  BY <1>1, <1>2, <1>3, <1>4 DEF ItemsInv, ItemsTyped
<1>6. ASSUME ~raced', ~unlogged' PROVE ThingsKept'
  <2>1. ~unlogged /\ \A p \in Threads : thread[p].phase # "saved"
    BY <1>1, <1>6 DEF ItemsInv, ItemsTyped
  <2>2. ThingsKept
    BY <1>1, <1>6, <2>1 DEF ItemsInv
  <2>3. LogIsFollowed'
    BY <1>1, <2>1, <2>2 DEF ThingsKept, LogIsFollowed
  <2>4. ThreadsApart' /\ RowsAreFresh' /\ FindsAreLogged'
    BY <1>4 DEF ThreadsApart, RowsAreFresh, FindsAreLogged
  <2>. QED
    BY <2>3, <2>4 DEF ThingsKept
<1>. QED
  BY <1>4, <1>5, <1>6 DEF ItemsInv

LEMMA ItemsStep == ItemsInv /\ AtHome!Next => ItemsInv'
BY LoadingItems, SavingItems, RecordingItems, SeeingItems, NotingItems, ReloadingItems,
   FindingItems, ItemsRestarting DEF AtHome!Next

-----------------------------------------------------------------------------
(* Where she is *)

Asker == [phase : {"idle", "asking", "emitting"}, op : {"position", "room", "move"}, to : Rooms,
          now : 0..MaxTime, pos : Where!Records(Places), room : Where!Records(Rooms)]

PositionTyped ==
    /\ now \in 0..MaxTime
    /\ pos \in Where!Records(Places) /\ room \in Where!Records(Rooms)
    /\ caller \in [Callers -> Asker]
    /\ arrived \in Places /\ entered \in Rooms
    /\ raced \in BOOLEAN /\ unlogged \in BOOLEAN
    /\ asks \in 0..MaxAsks /\ stops \in 0..MaxStops

\* On the way she is due when a slot of the place begins.
DueForItsSlot(p) == Where!IsOnWay(p) => p.due % SlotLength = 0 /\ Plan[p.due \div SlotLength] = p.to

\* The caller c of the callers f is to add the event of one of the operations.
Writing(f, c, operations) == f[c].phase = "emitting" /\ f[c].op \in operations
Town == {"position"}
House == {"room", "move"}

\* One caller at a time is to add the event of a move, of the record as it is,
\* and without one the log has the arrival.
TownLogged ==
    /\ \A c \in Callers : Writing(caller, c, Town) => caller[c].pos = pos
    /\ \A c, d \in Callers : Writing(caller, c, Town) /\ Writing(caller, d, Town) => c = d
    /\ ~Where!IsOnWay(pos) /\ (\A c \in Callers : ~Writing(caller, c, Town)) => arrived = pos.at

HouseLogged ==
    /\ \A c \in Callers : Writing(caller, c, House) =>
         /\ caller[c].room = room
         /\ caller[c].op = "move" => Where!IsOnWay(room)
    /\ \A c, d \in Callers : Writing(caller, c, House) /\ Writing(caller, d, House) => c = d
    /\ ~Where!IsOnWay(room) /\ (\A c \in Callers : ~Writing(caller, c, House)) => entered = room.at

PositionInv ==
    /\ PositionTyped
    /\ DueForItsSlot(pos) /\ \A c \in Callers : DueForItsSlot(caller[c].pos)
    /\ ~raced /\ ~unlogged => TownLogged /\ HouseLogged

LEMMA PositionConstants ==
    /\ SlotLength \in Nat /\ SlotLength > 0 /\ MaxTime \in Nat /\ MaxAsks \in Nat /\ MaxStops \in Nat
    /\ Home \in Places /\ Plan \in [0..(MaxTime \div SlotLength + 1) -> Places]
    /\ FirstRoom \in Rooms /\ Walk \in [Rooms -> [Rooms -> Nat]]
BY ConstantsAssumption DEF Where!PositionAssumption

LEMMA PositionIsRight ==
    PositionInv => Where!TypeOK /\ Where!ArrivalsLogged /\ Where!ArrivesForItsSlot
<1>. SUFFICES ASSUME PositionInv
              PROVE  Where!TypeOK /\ Where!ArrivalsLogged /\ Where!ArrivesForItsSlot
  OBVIOUS
<1>1. Where!TypeOK
  <2>1. \A k \in Asker : k \in [phase : {"idle", "asking", "emitting"},
                                op : {"position", "room", "move"}, to : Rooms, now : Nat,
                                pos : Where!Records(Places), room : Where!Records(Rooms)]
    BY PositionConstants DEF Asker
  <2>2. caller \in [Callers -> [phase : {"idle", "asking", "emitting"},
                                op : {"position", "room", "move"}, to : Rooms, now : Nat,
                                pos : Where!Records(Places), room : Where!Records(Rooms)]]
    BY <2>1 DEF PositionInv, PositionTyped
  <2>3. {raced, unlogged} \subseteq BOOLEAN
    BY DEF PositionInv, PositionTyped
  <2>. QED
    BY <2>2, <2>3 DEF PositionInv, PositionTyped, Where!TypeOK
<1>2. Where!ArrivalsLogged
  <2>1. \A o \in {Town, House} :
          ~Where!Emitting(o) => \A c \in Callers : ~Writing(caller, c, o)
    BY DEF Where!Emitting, Writing
  <2>2. ASSUME ~raced, ~unlogged
        PROVE  /\ ~Where!IsOnWay(pos) /\ ~Where!Emitting(Town) => arrived = pos.at
               /\ ~Where!IsOnWay(room) /\ ~Where!Emitting(House) => entered = room.at
    BY <2>1, <2>2 DEF PositionInv, TownLogged, HouseLogged
  <2>. QED
    BY <2>2 DEF Where!ArrivalsLogged, Town, House
<1>. QED
  BY <1>1, <1>2 DEF PositionInv, DueForItsSlot, Where!ArrivesForItsSlot

\* Multiples of the length of a slot, and what a slot is of.
LEMMA Slots ==
    ASSUME NEW t \in 0..MaxTime
    PROVE  /\ Where!Slot(t) \in 0..(MaxTime \div SlotLength + 1)
           /\ Where!Slot(t) + 1 \in 0..(MaxTime \div SlotLength + 1)
           /\ Where!NextStart(t) \in Nat /\ Where!NextStart(t) % SlotLength = 0
           /\ Where!NextStart(t) \div SlotLength = Where!Slot(t) + 1
<1>1. SlotLength \in Nat /\ SlotLength > 0 /\ MaxTime \in Nat /\ t \in Nat /\ t <= MaxTime
  BY PositionConstants
<1>2. t \div SlotLength \in Nat /\ MaxTime \div SlotLength \in Nat
  BY <1>1
<1>3. t \div SlotLength <= MaxTime \div SlotLength
  BY <1>1
<1>. DEFINE k == t \div SlotLength + 1
<1>4. k \in Nat
  BY <1>2
<1>5. /\ Where!Slot(t) \in 0..(MaxTime \div SlotLength + 1)
      /\ Where!Slot(t) + 1 \in 0..(MaxTime \div SlotLength + 1)
  BY <1>2, <1>3 DEF Where!Slot
<1>6. Where!NextStart(t) = k * SlotLength /\ Where!Slot(t) + 1 = k
  BY DEF Where!NextStart, Where!Slot
<1>. HIDE DEF k
<1>7. k * SlotLength \in Nat /\ (k * SlotLength) % SlotLength = 0 /\ (k * SlotLength) \div SlotLength = k
  <2>1. k * SlotLength \in Nat
    BY <1>1, <1>4
  <2>2. (k * SlotLength) % SlotLength = 0
    BY <1>1, <1>4
  <2>3. (k * SlotLength) \div SlotLength = k
    BY <1>1, <1>4
  <2>. QED
    BY <2>1, <2>2, <2>3
<1>. QED
  BY <1>5, <1>6, <1>7

LEMMA ThereIsPosition ==
    ASSUME NEW S, NEW x \in S
    PROVE  Where!There(x) \in Where!Records(S) /\ ~Where!IsOnWay(Where!There(x))
BY DEF Where!There, Where!Records, Where!IsOnWay

LEMMA IdleIsTyped ==
    /\ Where!Idle \in Asker /\ Where!Idle.phase = "idle" /\ DueForItsSlot(Where!Idle.pos)
<1>1. /\ Where!There(Home) \in Where!Records(Places)
      /\ Where!There(FirstRoom) \in Where!Records(Rooms)
      /\ ~Where!IsOnWay(Where!There(Home))
  BY ThereIsPosition, PositionConstants
<1>2. FirstRoom \in Rooms /\ 0 \in 0..MaxTime
  BY PositionConstants
<1>. QED
  BY <1>1, <1>2 DEF Where!Idle, Asker, DueForItsSlot

LEMMA PositionStart == Where!Init => PositionInv
<1>. SUFFICES ASSUME Where!Init PROVE PositionInv
  OBVIOUS
<1>1. /\ Where!There(Home) \in Where!Records(Places)
      /\ Where!There(FirstRoom) \in Where!Records(Rooms)
      /\ ~Where!IsOnWay(Where!There(Home)) /\ ~Where!IsOnWay(Where!There(FirstRoom))
  BY ThereIsPosition, PositionConstants
<1>2. raced \in BOOLEAN /\ unlogged \in BOOLEAN
  BY DEF Where!Init
<1>3. PositionTyped
  <2>1. caller \in [Callers -> Asker]
    BY IdleIsTyped DEF Where!Init
  <2>2. now \in 0..MaxTime /\ asks \in 0..MaxAsks /\ stops \in 0..MaxStops
    BY PositionConstants DEF Where!Init
  <2>3. /\ pos \in Where!Records(Places) /\ room \in Where!Records(Rooms)
        /\ arrived \in Places /\ entered \in Rooms
    BY <1>1, PositionConstants DEF Where!Init
  <2>. QED
    BY <1>2, <2>1, <2>2, <2>3 DEF PositionTyped
<1>4. \A c \in Callers : caller[c].phase = "idle" /\ DueForItsSlot(caller[c].pos)
  BY IdleIsTyped DEF Where!Init
<1>5. /\ ~Where!IsOnWay(pos) /\ ~Where!IsOnWay(room)
      /\ arrived = pos.at /\ entered = room.at
  BY <1>1 DEF Where!Init, Where!There
<1>6. TownLogged /\ HouseLogged
  BY <1>4, <1>5 DEF TownLogged, HouseLogged, Writing
<1>. QED
  BY <1>3, <1>4, <1>5, <1>6 DEF PositionInv, DueForItsSlot

-----------------------------------------------------------------------------
(* The steps *)

\* One caller goes on.
LEMMA CallerGoes ==
    ASSUME PositionInv, NEW c \in Callers, NEW to \in Asker, DueForItsSlot(to.pos),
           Where!Step(c, to)
    PROVE  /\ caller' \in [Callers -> Asker] /\ caller'[c] = to
           /\ \A d \in Callers : d # c => caller'[d] = caller[d]
           /\ \A d \in Callers : DueForItsSlot(caller'[d].pos)
<1>1. /\ caller' \in [Callers -> Asker] /\ caller'[c] = to
      /\ \A d \in Callers : d # c => caller'[d] = caller[d]
  BY DEF PositionInv, PositionTyped, Where!Step
<1>. QED
  BY <1>1 DEF PositionInv

\* A caller that adds no event of some operations before a step and after it
\* leaves open who does.
LEMMA SameWriters ==
    ASSUME NEW c \in Callers, NEW f, NEW g, NEW operations,
           \A d \in Callers : d # c => g[d] = f[d],
           ~Writing(f, c, operations), ~Writing(g, c, operations)
    PROVE  /\ \A d \in Callers : Writing(g, d, operations) => Writing(f, d, operations) /\ g[d] = f[d]
           /\ \A d \in Callers : Writing(f, d, operations) => Writing(g, d, operations)
BY DEF Writing

LEMMA TownStays ==
    ASSUME NEW c \in Callers, TownLogged, UNCHANGED <<pos, arrived>>,
           \A d \in Callers : d # c => caller'[d] = caller[d],
           ~Writing(caller, c, Town), ~Writing(caller', c, Town)
    PROVE  TownLogged'
<1>1. /\ \A d \in Callers : Writing(caller', d, Town) => Writing(caller, d, Town) /\ caller'[d] = caller[d]
      /\ \A d \in Callers : Writing(caller, d, Town) => Writing(caller', d, Town)
  BY SameWriters
<1>. QED
  BY <1>1 DEF TownLogged

LEMMA HouseStays ==
    ASSUME NEW c \in Callers, HouseLogged, UNCHANGED <<room, entered>>,
           \A d \in Callers : d # c => caller'[d] = caller[d],
           ~Writing(caller, c, House), ~Writing(caller', c, House)
    PROVE  HouseLogged'
<1>1. /\ \A d \in Callers : Writing(caller', d, House) => Writing(caller, d, House) /\ caller'[d] = caller[d]
      /\ \A d \in Callers : Writing(caller, d, House) => Writing(caller', d, House)
  BY SameWriters
<1>. QED
  BY <1>1 DEF HouseLogged

LEMMA Ticking == PositionInv /\ Where!Tick => PositionInv'
<1>. SUFFICES ASSUME PositionInv, Where!Tick PROVE PositionInv'
  OBVIOUS
<1>1. /\ now' \in 0..MaxTime
      /\ UNCHANGED <<pos, room, caller, arrived, entered, raced, unlogged, asks, stops>>
  BY PositionConstants DEF PositionInv, PositionTyped, Where!Tick
<1>2. PositionTyped'
  BY <1>1 DEF PositionInv, PositionTyped
<1>3. DueForItsSlot(pos') /\ \A c \in Callers : DueForItsSlot(caller'[c].pos)
  BY <1>1 DEF PositionInv
<1>4. TownLogged => TownLogged'
  BY <1>1 DEF TownLogged
<1>5. HouseLogged => HouseLogged'
  BY <1>1 DEF HouseLogged
<1>. QED
  BY <1>1, <1>2, <1>3, <1>4, <1>5 DEF PositionInv

LEMMA AskingWhere ==
    ASSUME PositionInv, NEW c \in Callers, NEW op \in {"position", "room", "move"}, NEW r \in Rooms,
           Where!Ask(c, op, r)
    PROVE  PositionInv'
<1>. DEFINE to == [phase |-> "asking", op |-> op, to |-> r, now |-> now, pos |-> pos, room |-> room]
<1>1. /\ asks' \in 0..MaxAsks
      /\ UNCHANGED <<now, pos, room, arrived, entered, raced, unlogged, stops>>
      /\ caller[c].phase = "idle" /\ Where!Step(c, to)
  BY PositionConstants DEF PositionInv, PositionTyped, Where!Ask
<1>2. to \in Asker /\ DueForItsSlot(to.pos) /\ to.phase = "asking"
  BY DEF PositionInv, PositionTyped, Asker
<1>. HIDE DEF to
<1>3. /\ caller' \in [Callers -> Asker] /\ caller'[c] = to
      /\ \A d \in Callers : d # c => caller'[d] = caller[d]
      /\ \A d \in Callers : DueForItsSlot(caller'[d].pos)
  BY <1>1, <1>2, CallerGoes
<1>4. PositionTyped'
  BY <1>1, <1>3 DEF PositionInv, PositionTyped
<1>5. \A o : ~Writing(caller, c, o) /\ ~Writing(caller', c, o)
  BY <1>1, <1>2, <1>3 DEF Writing
<1>6. TownLogged => TownLogged'
  BY <1>1, <1>3, <1>5, TownStays
<1>7. HouseLogged => HouseLogged'
  BY <1>1, <1>3, <1>5, HouseStays
<1>8. DueForItsSlot(pos')
  BY <1>1 DEF PositionInv
<1>. QED
  BY <1>1, <1>3, <1>4, <1>6, <1>7, <1>8 DEF PositionInv

\* What position makes of a record.
LEMMA MovedIsDue ==
    ASSUME NEW p \in Where!Records(Places), DueForItsSlot(p), NEW t \in 0..MaxTime
    PROVE  Where!Moved(p, t) \in Where!Records(Places) /\ DueForItsSlot(Where!Moved(p, t))
<1>1. p.to \in Places /\ p.at \in Places
  BY DEF Where!Records
<1>2. /\ Where!There(p.to) \in Where!Records(Places) /\ DueForItsSlot(Where!There(p.to))
  BY <1>1, ThereIsPosition DEF DueForItsSlot
<1>3. CASE Where!IsOnWay(p)
  BY <1>2, <1>3 DEF Where!Moved
<1>4. CASE ~Where!IsOnWay(p) /\ Where!Planned(t) = p.at
  BY <1>4 DEF Where!Moved
<1>5. CASE ~Where!IsOnWay(p) /\ Where!Planned(t) # p.at
  <2>1. /\ Where!Slot(t) \in 0..(MaxTime \div SlotLength + 1)
        /\ Where!Slot(t) + 1 \in 0..(MaxTime \div SlotLength + 1)
        /\ Where!NextStart(t) \in Nat /\ Where!NextStart(t) % SlotLength = 0
        /\ Where!NextStart(t) \div SlotLength = Where!Slot(t) + 1
    BY Slots
  <2>2. Where!Planned(t) \in Places
    BY <2>1, PositionConstants DEF Where!Planned
  <2>3. CASE Where!Soon(t)
    <3>1. Where!Moved(p, t) = Where!OnWay(Home, Where!Planned(t), Where!NextStart(t))
      BY <1>5, <2>3 DEF Where!Moved
    <3>2. Where!Planned(t) = Plan[Where!Slot(t) + 1]
      BY <2>3 DEF Where!Planned
    <3>3. Where!Moved(p, t) \in Where!Records(Places)
      BY <2>1, <2>2, <3>1, PositionConstants DEF Where!OnWay, Where!Records
    <3>4. /\ Where!Moved(p, t).to = Where!Planned(t)
          /\ Where!Moved(p, t).due = Where!NextStart(t)
      BY <3>1 DEF Where!OnWay
    <3>5. DueForItsSlot(Where!Moved(p, t))
      BY <2>1, <3>2, <3>4 DEF DueForItsSlot
    <3>. QED
      BY <3>3, <3>5
  <2>4. CASE ~Where!Soon(t)
    <3>1. Where!Moved(p, t) = Where!There(Where!Planned(t))
      BY <1>5, <2>4 DEF Where!Moved
    <3>. QED
      BY <2>2, <3>1, ThereIsPosition DEF DueForItsSlot
  <2>. QED
    BY <2>3, <2>4
<1>. QED
  BY <1>3, <1>4, <1>5

LEMMA Positioning ==
    ASSUME PositionInv, NEW c \in Callers, Where!Position(c)
    PROVE  PositionInv'
<1>. DEFINE old == caller[c].pos
            new == Where!Moved(old, caller[c].now)
            to == IF new = old THEN Where!Idle ELSE [caller[c] EXCEPT !.phase = "emitting", !.pos = new]
<1>1. /\ caller[c].phase = "asking" /\ caller[c].op = "position"
      /\ pos' = (IF new = old THEN pos ELSE new)
      /\ raced' = (raced \/ (new # old /\ (pos # old \/ Where!Emitting(Town))))
      /\ Where!Step(c, to)
      /\ UNCHANGED <<now, room, arrived, entered, unlogged, asks, stops>>
  BY DEF Where!Position, Town
<1>2. /\ caller[c] \in Asker /\ old \in Where!Records(Places) /\ DueForItsSlot(old)
      /\ caller[c].now \in 0..MaxTime
  BY DEF PositionInv, PositionTyped, Asker
<1>. HIDE DEF old
<1>3. new \in Where!Records(Places) /\ DueForItsSlot(new)
  BY <1>2, MovedIsDue
<1>. HIDE DEF new
<1>4. /\ to \in Asker /\ DueForItsSlot(to.pos)
      /\ new # old => to.phase = "emitting" /\ to.op = "position" /\ to.pos = new
      /\ new = old => to.phase = "idle"
  <2>1. CASE new = old
    BY <2>1, IdleIsTyped
  <2>2. CASE new # old
    <3>1. to = [caller[c] EXCEPT !.phase = "emitting", !.pos = new]
      BY <2>2
    <3>2. to \in Asker /\ to.phase = "emitting" /\ to.op = caller[c].op /\ to.pos = new
      BY <1>2, <1>3, <3>1 DEF Asker
    <3>. QED
      BY <1>1, <1>3, <2>2, <3>2
  <2>. QED
    BY <2>1, <2>2
<1>. HIDE DEF to
<1>5. /\ caller' \in [Callers -> Asker] /\ caller'[c] = to
      /\ \A d \in Callers : d # c => caller'[d] = caller[d]
      /\ \A d \in Callers : DueForItsSlot(caller'[d].pos)
  BY <1>1, <1>4, CallerGoes
<1>6. pos' \in Where!Records(Places) /\ DueForItsSlot(pos')
  BY <1>1, <1>3 DEF PositionInv, PositionTyped
<1>7. raced' \in BOOLEAN
  BY <1>1
<1>8. PositionTyped'
  BY <1>1, <1>5, <1>6, <1>7 DEF PositionInv, PositionTyped
<1>9. ~Writing(caller, c, Town) /\ ~Writing(caller, c, House)
  BY <1>1 DEF Writing
<1>10. ASSUME ~raced', ~unlogged' PROVE TownLogged' /\ HouseLogged'
  <2>1. ~raced /\ ~unlogged /\ (new = old \/ (pos = old /\ ~Where!Emitting(Town)))
    BY <1>1, <1>10 DEF PositionInv, PositionTyped
  <2>2. TownLogged /\ HouseLogged
    BY <2>1 DEF PositionInv
  <2>3. ~Writing(caller', c, House)
    BY <1>4, <1>5 DEF Writing, House
  <2>4. HouseLogged'
    BY <1>1, <1>5, <1>9, <2>2, <2>3, HouseStays
  <2>5. CASE new = old
    <3>1. ~Writing(caller', c, Town)
      BY <1>4, <1>5, <2>5 DEF Writing
    <3>2. pos' = pos
      BY <1>1, <2>5
    <3>3. TownLogged'
      BY <1>1, <1>5, <1>9, <2>2, <3>1, <3>2, TownStays
    <3>. QED
      BY <2>4, <3>3
  <2>6. CASE new # old
    <3>1. \A d \in Callers : ~Writing(caller, d, Town)
      BY <2>1, <2>6 DEF Where!Emitting, Writing
    <3>2. \A d \in Callers : d # c => ~Writing(caller', d, Town)
      BY <1>5, <3>1 DEF Writing
    <3>3. caller'[c].pos = pos' /\ Writing(caller', c, Town)
      BY <1>1, <1>4, <1>5, <2>6 DEF Writing, Town
    <3>4. TownLogged'
      BY <3>2, <3>3 DEF TownLogged
    <3>. QED
      BY <2>4, <3>4
  <2>. QED
    BY <2>5, <2>6
<1>. QED
  BY <1>5, <1>6, <1>8, <1>10 DEF PositionInv

LEMMA RoomPositioning ==
    ASSUME PositionInv, NEW c \in Callers, Where!RoomPosition(c)
    PROVE  PositionInv'
<1>. DEFINE old == caller[c].room
            t == caller[c].now
            new == IF caller[c].op = "room" THEN Where!Walked(old, t)
                   ELSE Where!Directed(old, caller[c].to, t)
            to == IF new = old THEN Where!Idle ELSE [caller[c] EXCEPT !.phase = "emitting", !.room = new]
<1>1. /\ caller[c].phase = "asking" /\ caller[c].op # "position"
      /\ room' = (IF new = old THEN room ELSE new)
      /\ raced' = (raced \/ (new # old /\ (room # old \/ Where!Emitting(House))))
      /\ Where!Step(c, to)
      /\ UNCHANGED <<now, pos, arrived, entered, unlogged, asks, stops>>
  BY DEF Where!RoomPosition, House
<1>2. /\ caller[c] \in Asker /\ old \in Where!Records(Rooms) /\ t \in 0..MaxTime
      /\ caller[c].op \in House /\ caller[c].to \in Rooms /\ DueForItsSlot(caller[c].pos)
  BY <1>1 DEF PositionInv, PositionTyped, Asker, House
<1>3. /\ new \in Where!Records(Rooms)
      /\ caller[c].op = "move" /\ new # old => Where!IsOnWay(new)
  <2>. HIDE DEF old, t
  <2>1. old.at \in Rooms /\ old.to \in Rooms
    BY <1>2 DEF Where!Records
  <2>2. CASE caller[c].op = "room"
    <3>1. Where!There(old.to) \in Where!Records(Rooms)
      BY <2>1, ThereIsPosition
    <3>. QED
      BY <1>2, <2>2, <3>1 DEF Where!Walked
  <2>3. CASE caller[c].op # "room"
    <3>1. new = Where!Directed(old, caller[c].to, t)
      BY <2>3
    <3>2. CASE old.at = caller[c].to
      BY <1>2, <3>1, <3>2 DEF Where!Directed
    <3>3. CASE old.at # caller[c].to
      <4>1. new = Where!OnWay(old.at, caller[c].to, t + Walk[old.at][caller[c].to])
        BY <3>1, <3>3 DEF Where!Directed
      <4>2. Walk[old.at][caller[c].to] \in Nat /\ t \in Nat
        BY <1>2, <2>1, PositionConstants
      <4>3. t + Walk[old.at][caller[c].to] \in Nat
        BY <4>2
      <4>. QED
        BY <1>2, <2>1, <3>3, <4>1, <4>3 DEF Where!OnWay, Where!Records, Where!IsOnWay
    <3>. QED
      BY <3>2, <3>3
  <2>. QED
    BY <2>2, <2>3
<1>. HIDE DEF new, old
<1>4. /\ to \in Asker /\ DueForItsSlot(to.pos)
      /\ new # old => to.phase = "emitting" /\ to.op = caller[c].op /\ to.room = new
      /\ new = old => to.phase = "idle"
  <2>1. CASE new = old
    BY <2>1, IdleIsTyped
  <2>2. CASE new # old
    <3>1. to = [caller[c] EXCEPT !.phase = "emitting", !.room = new]
      BY <2>2
    <3>2. /\ to \in Asker /\ to.phase = "emitting" /\ to.op = caller[c].op /\ to.room = new
          /\ to.pos = caller[c].pos
      BY <1>2, <1>3, <3>1 DEF Asker
    <3>. QED
      BY <1>2, <2>2, <3>2
  <2>. QED
    BY <2>1, <2>2
<1>. HIDE DEF to
<1>5. /\ caller' \in [Callers -> Asker] /\ caller'[c] = to
      /\ \A d \in Callers : d # c => caller'[d] = caller[d]
      /\ \A d \in Callers : DueForItsSlot(caller'[d].pos)
  BY <1>1, <1>4, CallerGoes
<1>6. room' \in Where!Records(Rooms) /\ DueForItsSlot(pos')
  BY <1>1, <1>3 DEF PositionInv, PositionTyped
<1>7. raced' \in BOOLEAN
  BY <1>1
<1>8. PositionTyped'
  BY <1>1, <1>5, <1>6, <1>7 DEF PositionInv, PositionTyped
<1>9. ~Writing(caller, c, Town) /\ ~Writing(caller, c, House)
  BY <1>1 DEF Writing
<1>10. ASSUME ~raced', ~unlogged' PROVE TownLogged' /\ HouseLogged'
  <2>1. ~raced /\ ~unlogged /\ (new = old \/ (room = old /\ ~Where!Emitting(House)))
    BY <1>1, <1>10 DEF PositionInv, PositionTyped
  <2>2. TownLogged /\ HouseLogged
    BY <2>1 DEF PositionInv
  <2>3. ~Writing(caller', c, Town)
    BY <1>1, <1>4, <1>5 DEF Writing, Town
  <2>4. TownLogged'
    BY <1>1, <1>5, <1>9, <2>2, <2>3, TownStays
  <2>5. CASE new = old
    <3>1. ~Writing(caller', c, House)
      BY <1>4, <1>5, <2>5 DEF Writing
    <3>2. room' = room
      BY <1>1, <2>5
    <3>3. HouseLogged'
      BY <1>1, <1>5, <1>9, <2>2, <3>1, <3>2, HouseStays
    <3>. QED
      BY <2>4, <3>3
  <2>6. CASE new # old
    <3>1. \A d \in Callers : ~Writing(caller, d, House)
      BY <2>1, <2>6 DEF Where!Emitting, Writing
    <3>2. \A d \in Callers : d # c => ~Writing(caller', d, House)
      BY <1>5, <3>1 DEF Writing
    <3>3. /\ caller'[c].room = room' /\ Writing(caller', c, House)
          /\ caller'[c].op = "move" => Where!IsOnWay(room')
      BY <1>1, <1>2, <1>3, <1>4, <1>5, <2>6 DEF Writing
    <3>4. HouseLogged'
      BY <3>2, <3>3 DEF HouseLogged
    <3>. QED
      BY <2>4, <3>4
  <2>. QED
    BY <2>5, <2>6
<1>. QED
  BY <1>5, <1>6, <1>8, <1>10 DEF PositionInv

LEMMA EmittingWhere ==
    ASSUME PositionInv, NEW c \in Callers, Where!Emit(c)
    PROVE  PositionInv'
<1>. DEFINE k == caller[c]
<1>1. /\ k.phase = "emitting"
      /\ arrived' = (IF k.op = "position" /\ ~Where!IsOnWay(k.pos) THEN k.pos.at ELSE arrived)
      /\ entered' = (IF k.op = "room" THEN k.room.at ELSE entered)
      /\ Where!Step(c, Where!Idle)
      /\ UNCHANGED <<now, pos, room, raced, unlogged, asks, stops>>
  BY DEF Where!Emit
<1>2. k \in Asker /\ k.pos.at \in Places /\ k.room.at \in Rooms /\ k.op \in {"position", "room", "move"}
  BY DEF PositionInv, PositionTyped, Asker, Where!Records
<1>3. /\ caller' \in [Callers -> Asker] /\ caller'[c].phase = "idle"
      /\ \A d \in Callers : d # c => caller'[d] = caller[d]
      /\ \A d \in Callers : DueForItsSlot(caller'[d].pos)
  BY <1>1, IdleIsTyped, CallerGoes
<1>4. PositionTyped' /\ DueForItsSlot(pos')
  BY <1>1, <1>2, <1>3 DEF PositionInv, PositionTyped
<1>5. ~Writing(caller', c, Town) /\ ~Writing(caller', c, House)
  BY <1>3 DEF Writing
<1>6. ASSUME ~raced', ~unlogged' PROVE TownLogged' /\ HouseLogged'
  <2>1. TownLogged /\ HouseLogged
    BY <1>1, <1>6 DEF PositionInv
  <2>2. CASE k.op = "position"
    <3>1. Writing(caller, c, Town) /\ ~Writing(caller, c, House)
      BY <1>1, <2>2 DEF Writing, Town, House
    <3>2. HouseLogged'
      BY <1>1, <1>3, <1>5, <2>1, <2>2, <3>1, HouseStays
    <3>3. \A d \in Callers : ~Writing(caller', d, Town)
      BY <1>3, <1>5, <2>1, <3>1 DEF TownLogged, Writing
    <3>4. ~Where!IsOnWay(pos') => arrived' = pos'.at
      BY <1>1, <2>1, <2>2, <3>1 DEF TownLogged
    <3>. QED
      BY <3>2, <3>3, <3>4 DEF TownLogged
  <2>3. CASE k.op # "position"
    <3>1. Writing(caller, c, House) /\ ~Writing(caller, c, Town)
      BY <1>1, <1>2, <2>3 DEF Writing, Town, House
    <3>2. TownLogged'
      BY <1>1, <1>3, <1>5, <2>1, <2>3, <3>1, TownStays
    <3>3. \A d \in Callers : ~Writing(caller', d, House)
      BY <1>3, <1>5, <2>1, <3>1 DEF HouseLogged, Writing
    <3>4. ~Where!IsOnWay(room') => entered' = room'.at
      BY <1>1, <1>2, <2>1, <2>3, <3>1 DEF HouseLogged
    <3>. QED
      BY <3>2, <3>3, <3>4 DEF HouseLogged
  <2>. QED
    BY <2>2, <2>3
<1>. QED
  BY <1>3, <1>4, <1>6 DEF PositionInv

LEMMA PositionRestarting == PositionInv /\ Where!Restart => PositionInv'
<1>. SUFFICES ASSUME PositionInv, Where!Restart PROVE PositionInv'
  OBVIOUS
<1>1. /\ stops' \in 0..MaxStops
      /\ UNCHANGED <<now, pos, room, arrived, entered, raced, asks>>
      /\ unlogged' = (unlogged \/ \E c \in Callers : caller[c].phase = "emitting")
      /\ caller' = [c \in Callers |-> Where!Idle]
  BY PositionConstants DEF PositionInv, PositionTyped, Where!Restart
<1>2. unlogged' \in BOOLEAN
  BY <1>1
<1>3. /\ caller' \in [Callers -> Asker]
      /\ \A c \in Callers : caller'[c].phase = "idle" /\ DueForItsSlot(caller'[c].pos)
  BY <1>1, IdleIsTyped
<1>4. PositionTyped' /\ DueForItsSlot(pos')
  BY <1>1, <1>2, <1>3 DEF PositionInv, PositionTyped
<1>5. ASSUME ~raced', ~unlogged' PROVE TownLogged' /\ HouseLogged'
  <2>1. ~unlogged /\ \A c \in Callers : caller[c].phase # "emitting"
    BY <1>1, <1>5 DEF PositionInv, PositionTyped
  <2>2. TownLogged /\ HouseLogged
    BY <1>1, <1>5, <2>1 DEF PositionInv
  <2>3. \A c \in Callers : \A o : ~Writing(caller, c, o) /\ ~Writing(caller', c, o)
    BY <1>3, <2>1 DEF Writing
  <2>. QED
    BY <1>1, <2>2, <2>3 DEF TownLogged, HouseLogged
<1>. QED
  BY <1>3, <1>4, <1>5 DEF PositionInv

LEMMA PositionStep == PositionInv /\ Where!Next => PositionInv'
BY Ticking, AskingWhere, Positioning, RoomPositioning, EmittingWhere, PositionRestarting,
   PositionConstants DEF Where!Next

-----------------------------------------------------------------------------
(* What follows the answer *)

Errand == [phase : {"none", "extracting", "ingesting", "parsing", "learning", "done"},
           facts : SUBSET Facts, count : Nat, now : 0..MaxClock, texts : SUBSET Texts]
Times == (0..MaxClock) \cup {Chat!Never}

\* The task k of the text t has the text u to ingest.
HasToLearn(k, t, u) ==
    \/ u = t /\ k.phase \in {"extracting", "ingesting", "parsing"}
    \/ k.phase = "learning" /\ u \in k.texts
HoldersOf(f, u) == {t \in Texts : HasToLearn(f[t], t, u)}
Waits(b, u) == \E m \in Members : u \in b[m].texts
AnsweredTexts(f) == {t \in Texts : f[t].phase # "none"}

\* A text that was learned l times, that the tasks h have, that waits in a
\* buffer (w), was discarded (d) or lost (x), is in one place, or in none yet.
InOnePlace(l, h, w, d, x) ==
    \/ l = 1 /\ h = {} /\ ~w /\ ~d /\ ~x
    \/ l = 0 /\ (\E t : h = {t}) /\ ~w /\ ~d /\ ~x
    \/ l = 0 /\ h = {} /\ w /\ ~d /\ ~x
    \/ l = 0 /\ h = {} /\ ~w /\ d /\ ~x
    \/ l = 0 /\ h = {} /\ ~w /\ ~d /\ x
InNoPlace(l, h, w, d, x) == l = 0 /\ h = {} /\ ~w /\ ~d /\ ~x

ChatTyped ==
    /\ clock \in 0..MaxClock
    /\ rows \in [Facts -> Chat!Statuses]
    /\ count \in Nat
    /\ extracted \in Times /\ started = extracted
    /\ buffer \in [Members -> [texts : SUBSET Texts, first : 0..MaxClock]]
    /\ task \in [Texts -> Errand]
    /\ learned \in [Texts -> Nat]
    /\ dropped \subseteq Texts /\ lost \subseteq Texts
    /\ edits \in 0..MaxEdits /\ stops \in 0..MaxStops

\* No count is higher than the number of texts that were answered.
CountsAreLow ==
    /\ count <= Cardinality(AnsweredTexts(task))
    /\ \A t \in Texts : task[t].count <= Cardinality(AnsweredTexts(task))

\* A buffer has the texts of its member.
BuffersAreOwn == \A m \in Members : \A t \in buffer[m].texts : SpeakerOf[t] = m

EachInItsPlace ==
    \A u \in Texts :
      /\ task[u].phase = "none" =>
           InNoPlace(learned[u], HoldersOf(task, u), Waits(buffer, u), u \in dropped, u \in lost)
      /\ task[u].phase # "none" =>
           InOnePlace(learned[u], HoldersOf(task, u), Waits(buffer, u), u \in dropped, u \in lost)

ChatInv == ChatTyped /\ CountsAreLow /\ BuffersAreOwn /\ EachInItsPlace

-----------------------------------------------------------------------------
LEMMA ChatConstants ==
    /\ IsFiniteSet(Texts) /\ SpeakerOf \in [Texts -> Members]
    /\ Hour \in Nat /\ MaxClock \in Nat /\ MaxEdits \in Nat /\ MaxStops \in Nat
<1>1. Chat!ChatAssumption
  BY ConstantsAssumption
<1>2. Chat!IsFiniteSet(Texts) => IsFiniteSet(Texts)
  BY DEF Chat!IsFiniteSet, IsFiniteSet
<1>. QED
  BY <1>1, <1>2 DEF Chat!ChatAssumption

LEMMA AnsweredIsFinite ==
    ASSUME NEW f
    PROVE  /\ IsFiniteSet(AnsweredTexts(f)) /\ Cardinality(AnsweredTexts(f)) \in Nat
           /\ Cardinality(Texts) \in Nat /\ Cardinality(AnsweredTexts(f)) <= Cardinality(Texts)
<1>1. AnsweredTexts(f) \subseteq Texts
  BY DEF AnsweredTexts
<1>. QED
  BY <1>1, ChatConstants, FS_Subset, FS_CardinalityType

LEMMA TextsTyped == ChatInv => Chat!TypeOK
<1>. SUFFICES ASSUME ChatInv PROVE Chat!TypeOK
  OBVIOUS
<1>1. Chat!Cardinality(Texts) = Cardinality(Texts)
  BY DEF Chat!Cardinality, Cardinality
<1>2. count \in 0..Cardinality(Texts)
  BY AnsweredIsFinite DEF ChatInv, ChatTyped, CountsAreLow
<1>3. {extracted, started} \subseteq (0..MaxClock) \cup {Chat!Never}
  BY DEF ChatInv, ChatTyped, Times
<1>. QED
  BY <1>1, <1>2, <1>3 DEF ChatInv, ChatTyped, Errand, Chat!TypeOK

LEMMA TextsCounted == ChatInv => Chat!TextsAccounted
<1>. SUFFICES ASSUME ChatInv, NEW u \in Texts
              PROVE  learned[u] + Chat!Cardinality(Chat!Holders(u))
                       + Chat!Count(u \in Chat!Buffered) + Chat!Count(u \in dropped)
                       + Chat!Count(u \in lost)
                     = Chat!Count(task[u].phase # "none")
  BY DEF Chat!TextsAccounted
<1>1. Chat!Holders(u) = HoldersOf(task, u)
  BY DEF Chat!Holders, HoldersOf, HasToLearn
<1>2. (u \in Chat!Buffered) <=> Waits(buffer, u)
  BY DEF Chat!Buffered, Waits
<1>3. \A S : Chat!Cardinality(S) = Cardinality(S)
  BY DEF Chat!Cardinality, Cardinality
<1>4. Cardinality({}) = 0 /\ \A t : Cardinality({t}) = 1
  BY FS_EmptySet, FS_Singleton
<1>5. CASE task[u].phase = "none"
  <2>1. InNoPlace(learned[u], HoldersOf(task, u), Waits(buffer, u), u \in dropped, u \in lost)
    BY <1>5 DEF ChatInv, EachInItsPlace
  <2>2. /\ learned[u] = 0 /\ Chat!Cardinality(Chat!Holders(u)) = 0
        /\ Chat!Count(u \in Chat!Buffered) = 0 /\ Chat!Count(u \in dropped) = 0
        /\ Chat!Count(u \in lost) = 0 /\ Chat!Count(task[u].phase # "none") = 0
    BY <1>1, <1>2, <1>3, <1>4, <1>5, <2>1 DEF InNoPlace, Chat!Count
  <2>. QED
    BY <2>2
<1>6. CASE task[u].phase # "none"
  <2>1. InOnePlace(learned[u], HoldersOf(task, u), Waits(buffer, u), u \in dropped, u \in lost)
    BY <1>6 DEF ChatInv, EachInItsPlace
  <2>. DEFINE l == learned[u]
              h == Chat!Cardinality(Chat!Holders(u))
              w == Chat!Count(u \in Chat!Buffered)
              d == Chat!Count(u \in dropped)
              x == Chat!Count(u \in lost)
  <2>2. \/ l = 1 /\ h = 0 /\ w = 0 /\ d = 0 /\ x = 0
        \/ l = 0 /\ h = 1 /\ w = 0 /\ d = 0 /\ x = 0
        \/ l = 0 /\ h = 0 /\ w = 1 /\ d = 0 /\ x = 0
        \/ l = 0 /\ h = 0 /\ w = 0 /\ d = 1 /\ x = 0
        \/ l = 0 /\ h = 0 /\ w = 0 /\ d = 0 /\ x = 1
    BY <1>1, <1>2, <1>3, <1>4, <2>1 DEF InOnePlace, Chat!Count
  <2>3. Chat!Count(task[u].phase # "none") = 1
    BY <1>6 DEF Chat!Count
  <2>. HIDE DEF l, h, w, d, x
  <2>4. l + h + w + d + x = 1
    BY <2>2
  <2>. QED
    BY <2>3, <2>4 DEF l, h, w, d, x
<1>. QED
  BY <1>5, <1>6

LEMMA NoErrand ==
    /\ Chat!NoTask \in Errand /\ Chat!NoTask.phase = "none" /\ Chat!NoTask.count = 0
    /\ Chat!NoBuffer \in [texts : SUBSET Texts, first : 0..MaxClock] /\ Chat!NoBuffer.texts = {}
<1>1. 0 \in 0..MaxClock
  BY ChatConstants
<1>. QED
  BY <1>1 DEF Chat!NoTask, Chat!NoBuffer, Errand

LEMMA ChatStart == Chat!Init => ChatInv
<1>. SUFFICES ASSUME Chat!Init PROVE ChatInv
  OBVIOUS
<1>1. ChatTyped
  <2>1. clock \in 0..MaxClock /\ count \in Nat /\ edits \in 0..MaxEdits /\ stops \in 0..MaxStops
    BY ChatConstants DEF Chat!Init
  <2>2. rows \in [Facts -> Chat!Statuses]
    BY DEF Chat!Init, Chat!Statuses
  <2>3. extracted \in Times /\ started = extracted
    BY DEF Chat!Init, Times
  <2>4. /\ buffer \in [Members -> [texts : SUBSET Texts, first : 0..MaxClock]]
        /\ task \in [Texts -> Errand] /\ learned \in [Texts -> Nat]
        /\ dropped \subseteq Texts /\ lost \subseteq Texts
    BY NoErrand DEF Chat!Init
  <2>. QED
    BY <2>1, <2>2, <2>3, <2>4 DEF ChatTyped
<1>2. \A t \in Texts : task[t].phase = "none" /\ task[t].count = 0
  BY NoErrand DEF Chat!Init
<1>3. CountsAreLow
  <2>1. Cardinality(AnsweredTexts(task)) \in Nat /\ count = 0
    BY AnsweredIsFinite DEF Chat!Init
  <2>. QED
    BY <1>2, <2>1 DEF CountsAreLow
<1>4. \A m \in Members : buffer[m].texts = {}
  BY NoErrand DEF Chat!Init
<1>5. EachInItsPlace
  BY <1>2, <1>4 DEF EachInItsPlace, InNoPlace, HoldersOf, HasToLearn, Waits, Chat!Init
<1>. QED
  BY <1>1, <1>3, <1>4, <1>5 DEF ChatInv, BuffersAreOwn

-----------------------------------------------------------------------------
(* The steps *)

\* One task goes on.
LEMMA ErrandGoes ==
    ASSUME ChatInv, NEW t \in Texts, NEW to \in Errand, Chat!Become(t, to), to.phase # "none",
           \/ to.count \in {0, count, task[t].count}
           \/ task[t].phase = "none" /\ to.count = count + 1
    PROVE  /\ task' \in [Texts -> Errand] /\ task'[t] = to
           /\ \A u \in Texts : u # t => task'[u] = task[u]
           /\ \A u \in Texts : HoldersOf(task', u) = IF HasToLearn(to, t, u) THEN HoldersOf(task, u) \cup {t}
                                                     ELSE HoldersOf(task, u) \ {t}
           /\ \A u \in Texts : t \in HoldersOf(task, u) <=> HasToLearn(task[t], t, u)
           /\ \A u \in Texts : task'[u].count <= Cardinality(AnsweredTexts(task'))
           /\ count <= Cardinality(AnsweredTexts(task'))
           /\ task[t].count <= Cardinality(AnsweredTexts(task'))
           /\ task[t].phase = "none" => count + 1 <= Cardinality(AnsweredTexts(task'))
<1>1. /\ task' \in [Texts -> Errand] /\ task'[t] = to
      /\ \A u \in Texts : u # t => task'[u] = task[u]
  BY DEF ChatInv, ChatTyped, Chat!Become
<1>2. /\ \A u \in Texts : HoldersOf(task', u) = IF HasToLearn(to, t, u) THEN HoldersOf(task, u) \cup {t}
                                                ELSE HoldersOf(task, u) \ {t}
      /\ \A u \in Texts : t \in HoldersOf(task, u) <=> HasToLearn(task[t], t, u)
  BY <1>1 DEF HoldersOf
<1>. DEFINE A == AnsweredTexts(task)
            B == AnsweredTexts(task')
<1>3. IsFiniteSet(A) /\ Cardinality(A) \in Nat /\ Cardinality(B) \in Nat
  BY AnsweredIsFinite
<1>4. B = A \cup {t} /\ (t \in A <=> task[t].phase # "none")
  BY <1>1 DEF AnsweredTexts
<1>. HIDE DEF A, B
<1>5. Cardinality(B) = IF t \in A THEN Cardinality(A) ELSE Cardinality(A) + 1
  BY <1>3, <1>4, FS_AddElement
<1>6. /\ count \in Nat /\ count <= Cardinality(A)
      /\ \A u \in Texts : task[u].count \in Nat /\ task[u].count <= Cardinality(A)
  BY DEF ChatInv, ChatTyped, CountsAreLow, Errand, A
<1>7. /\ Cardinality(A) <= Cardinality(B)
      /\ task[t].phase = "none" => Cardinality(B) = Cardinality(A) + 1
  BY <1>3, <1>4, <1>5
<1>8. /\ count <= Cardinality(B) /\ task[t].count <= Cardinality(B)
      /\ task[t].phase = "none" => count + 1 <= Cardinality(B)
  BY <1>3, <1>6, <1>7
<1>9. to.count <= Cardinality(B)
  BY <1>3, <1>8
<1>10. \A u \in Texts : task'[u].count <= Cardinality(B)
  <2>. SUFFICES ASSUME NEW u \in Texts PROVE task'[u].count <= Cardinality(B)
    OBVIOUS
  <2>1. CASE u = t
    BY <1>1, <1>9, <2>1
  <2>2. CASE u # t
    <3>1. task'[u] = task[u]
      BY <1>1, <2>2
    <3>. QED
      BY <1>3, <1>6, <1>7, <3>1
  <2>. QED
    BY <2>1, <2>2
<1>. QED
  BY <1>1, <1>2, <1>8, <1>10 DEF B

LEMMA Writes ==
    ASSUME NEW facts, NEW n, Chat!Save(facts, n)
    PROVE  rows' \in [Facts -> Chat!Statuses] /\ count' = n
BY DEF Chat!Save, Chat!Statuses

LEMMA ParsingErrand ==
    ASSUME ChatInv
    PROVE  /\ Chat!Parsing \in Errand /\ Chat!Parsing.phase = "parsing" /\ Chat!Parsing.count = 0
<1>1. clock \in 0..MaxClock
  BY DEF ChatInv, ChatTyped
<1>. QED
  BY <1>1, NoErrand DEF Chat!Parsing, Errand

\* Nothing but time, the rows of the group and the edits changes.
LEMMA NoTextMoves ==
    ASSUME ChatInv, UNCHANGED <<count, extracted, buffer, task, started, learned, dropped, lost, stops>>,
           clock' \in 0..MaxClock, rows' \in [Facts -> Chat!Statuses], edits' \in 0..MaxEdits
    PROVE  ChatInv'
BY DEF ChatInv, ChatTyped, CountsAreLow, BuffersAreOwn, EachInItsPlace

\* A text that the tasks had before is what they have: it goes on.
LEMMA TextsStay ==
    ASSUME ChatInv, UNCHANGED <<buffer, learned, dropped, lost>>,
           \A u \in Texts : task'[u].phase = "none" <=> task[u].phase = "none",
           \A u \in Texts : HoldersOf(task', u) = HoldersOf(task, u)
    PROVE  BuffersAreOwn' /\ EachInItsPlace'
BY DEF ChatInv, BuffersAreOwn, EachInItsPlace

\* An answered text becomes the first task's.
LEMMA TextBegins ==
    ASSUME ChatInv, NEW t \in Texts, NEW to \in Errand, Chat!Become(t, to),
           task[t].phase = "none", to.phase \in {"extracting", "parsing"}, to.count \in {0, count + 1},
           UNCHANGED <<buffer, learned, dropped, lost>>
    PROVE  BuffersAreOwn' /\ EachInItsPlace'
<1>0. /\ to.phase # "none"
      /\ \/ to.count \in {0, count, task[t].count}
         \/ task[t].phase = "none" /\ to.count = count + 1
  OBVIOUS
<1>1. /\ task'[t] = to
      /\ \A u \in Texts : u # t => task'[u] = task[u]
      /\ \A u \in Texts : HoldersOf(task', u) = IF HasToLearn(to, t, u) THEN HoldersOf(task, u) \cup {t}
                                                ELSE HoldersOf(task, u) \ {t}
      /\ \A u \in Texts : t \in HoldersOf(task, u) <=> HasToLearn(task[t], t, u)
  BY <1>0, ErrandGoes
<1>2. BuffersAreOwn'
  BY DEF ChatInv, BuffersAreOwn
<1>3. InNoPlace(learned[t], HoldersOf(task, t), Waits(buffer, t), t \in dropped, t \in lost)
  BY DEF ChatInv, EachInItsPlace
<1>4. HoldersOf(task', t) = {t}
  <2>1. HasToLearn(to, t, t)
    BY DEF HasToLearn
  <2>2. HoldersOf(task, t) = {}
    BY <1>3 DEF InNoPlace
  <2>. QED
    BY <1>1, <2>1, <2>2
<1>5. \A u \in Texts : u # t => HoldersOf(task', u) = HoldersOf(task, u)
  <2>1. \A u \in Texts : u # t => ~HasToLearn(to, t, u) /\ ~HasToLearn(task[t], t, u)
    BY DEF HasToLearn
  <2>. QED
    BY <1>1, <2>1
<1>6. InOnePlace(learned[t], HoldersOf(task', t), Waits(buffer, t), t \in dropped, t \in lost)
  BY <1>3, <1>4 DEF InNoPlace, InOnePlace
<1>7. EachInItsPlace'
  <2>. SUFFICES ASSUME NEW u \in Texts
                PROVE  /\ task'[u].phase = "none" =>
                            InNoPlace(learned[u], HoldersOf(task', u), Waits(buffer, u), u \in dropped, u \in lost)
                       /\ task'[u].phase # "none" =>
                            InOnePlace(learned[u], HoldersOf(task', u), Waits(buffer, u), u \in dropped, u \in lost)
    BY DEF EachInItsPlace
  <2>1. CASE u = t
    BY <1>1, <1>6, <2>1
  <2>2. CASE u # t
    BY <1>1, <1>5, <2>2 DEF ChatInv, EachInItsPlace
  <2>. QED
    BY <2>1, <2>2
<1>. QED
  BY <1>2, <1>7

LEMMA Extracting ==
    ASSUME ChatInv, NEW t \in Texts, Chat!StartExtraction(t)
    PROVE  ChatInv'
<1>. DEFINE to == [Chat!NoTask EXCEPT !.phase = "extracting", !.facts = Chat!Present, !.count = count + 1]
<1>1. /\ task[t].phase = "none" /\ Chat!Become(t, to)
      /\ extracted' = clock /\ started' = clock
      /\ UNCHANGED <<clock, rows, count, buffer, learned, dropped, lost, edits, stops>>
  BY DEF Chat!StartExtraction, Chat!Answered
<1>2. to \in Errand /\ to.phase = "extracting" /\ to.count = count + 1
  <2>1. Chat!Present \in SUBSET Facts
    BY DEF Chat!Present
  <2>2. count + 1 \in Nat
    BY DEF ChatInv, ChatTyped
  <2>. QED
    BY <2>1, <2>2, NoErrand DEF Errand
<1>. HIDE DEF to
<1>3. /\ task' \in [Texts -> Errand]
      /\ \A u \in Texts : task'[u].count <= Cardinality(AnsweredTexts(task'))
      /\ count <= Cardinality(AnsweredTexts(task'))
  BY <1>1, <1>2, ErrandGoes
<1>4. ChatTyped'
  BY <1>1, <1>3 DEF ChatInv, ChatTyped, Times
<1>5. BuffersAreOwn' /\ EachInItsPlace'
  BY <1>1, <1>2, TextBegins
<1>. QED
  BY <1>1, <1>3, <1>4, <1>5 DEF ChatInv, CountsAreLow

LEMMA CountingMessage ==
    ASSUME ChatInv, NEW t \in Texts, Chat!CountMessage(t)
    PROVE  ChatInv'
<1>1. /\ task[t].phase = "none" /\ Chat!Become(t, Chat!Parsing)
      /\ Chat!Save(Chat!Present, count + 1)
      /\ UNCHANGED <<clock, extracted, buffer, started, learned, dropped, lost, edits, stops>>
  BY DEF Chat!CountMessage, Chat!Answered
<1>2. Chat!Parsing \in Errand /\ Chat!Parsing.phase = "parsing" /\ Chat!Parsing.count = 0
  BY ParsingErrand
<1>3. rows' \in [Facts -> Chat!Statuses] /\ count' = count + 1
  BY <1>1, Writes
<1>4. /\ task' \in [Texts -> Errand]
      /\ \A u \in Texts : task'[u].count <= Cardinality(AnsweredTexts(task'))
      /\ count + 1 <= Cardinality(AnsweredTexts(task'))
  <2>1. Chat!Parsing.phase # "none" /\ Chat!Parsing.count \in {0, count, task[t].count}
    BY <1>2
  <2>. QED
    BY <1>1, <1>2, <2>1, ErrandGoes
<1>5. count + 1 \in Nat
  BY DEF ChatInv, ChatTyped
<1>6. ChatTyped'
  BY <1>1, <1>3, <1>4, <1>5 DEF ChatInv, ChatTyped
<1>7. BuffersAreOwn' /\ EachInItsPlace'
  BY <1>1, <1>2, TextBegins
<1>. QED
  BY <1>3, <1>4, <1>6, <1>7 DEF ChatInv, CountsAreLow

\* A task goes on with the text of its own.
LEMMA TextGoesOn ==
    ASSUME ChatInv, NEW t \in Texts, NEW to \in Errand, Chat!Become(t, to),
           task[t].phase \in {"extracting", "ingesting"}, to.phase \in {"ingesting", "parsing"},
           to.count \in {0, task[t].count},
           UNCHANGED <<clock, extracted, buffer, started, learned, dropped, lost, edits, stops>>,
           rows' \in [Facts -> Chat!Statuses], count' \in {count, task[t].count}
    PROVE  ChatInv'
<1>0. /\ to.phase # "none"
      /\ \/ to.count \in {0, count, task[t].count}
         \/ task[t].phase = "none" /\ to.count = count + 1
  OBVIOUS
<1>1. /\ task' \in [Texts -> Errand] /\ task'[t] = to
      /\ \A u \in Texts : u # t => task'[u] = task[u]
      /\ \A u \in Texts : HoldersOf(task', u) = IF HasToLearn(to, t, u) THEN HoldersOf(task, u) \cup {t}
                                                ELSE HoldersOf(task, u) \ {t}
      /\ \A u \in Texts : t \in HoldersOf(task, u) <=> HasToLearn(task[t], t, u)
      /\ \A u \in Texts : task'[u].count <= Cardinality(AnsweredTexts(task'))
      /\ count <= Cardinality(AnsweredTexts(task'))
      /\ task[t].count <= Cardinality(AnsweredTexts(task'))
  BY <1>0, ErrandGoes
<1>2. count' \in Nat
  BY DEF ChatInv, ChatTyped, Errand
<1>3. ChatTyped'
  BY <1>1, <1>2 DEF ChatInv, ChatTyped
<1>4. \A u \in Texts : HoldersOf(task', u) = HoldersOf(task, u)
  <2>1. \A u \in Texts : HasToLearn(to, t, u) <=> HasToLearn(task[t], t, u)
    BY DEF HasToLearn
  <2>. QED
    BY <1>1, <2>1
<1>5. \A u \in Texts : task'[u].phase = "none" <=> task[u].phase = "none"
  BY <1>1
<1>6. BuffersAreOwn' /\ EachInItsPlace'
  BY <1>4, <1>5, TextsStay
<1>. QED
  BY <1>1, <1>3, <1>6 DEF ChatInv, CountsAreLow

LEMMA GoingOn ==
    ASSUME ChatInv, NEW t \in Texts,
           \/ Chat!ExtractedNothing(t) \/ Chat!Extracted(t)
           \/ \E new \in SUBSET Facts : Chat!IngestedGroup(t, new)
    PROVE  ChatInv'
<1>1. Chat!Parsing \in Errand /\ Chat!Parsing.phase = "parsing" /\ Chat!Parsing.count = 0
  BY ParsingErrand
<1>2. CASE Chat!ExtractedNothing(t)
  <2>1. rows' \in [Facts -> Chat!Statuses] /\ count' = task[t].count
    BY <1>2, Writes DEF Chat!ExtractedNothing
  <2>. QED
    BY <1>1, <1>2, <2>1, TextGoesOn DEF Chat!ExtractedNothing
<1>3. CASE Chat!Extracted(t)
  <2>. DEFINE to == [task[t] EXCEPT !.phase = "ingesting"]
  <2>1. to \in Errand /\ to.phase = "ingesting" /\ to.count = task[t].count
    <3>1. task[t] \in Errand
      BY DEF ChatInv, ChatTyped
    <3>. QED
      BY <3>1 DEF Errand
  <2>2. Chat!Become(t, to)
    BY <1>3 DEF Chat!Extracted
  <2>3. rows' \in [Facts -> Chat!Statuses]
    BY <1>3 DEF Chat!Extracted, ChatInv, ChatTyped
  <2>. HIDE DEF to
  <2>. QED
    BY <1>3, <2>1, <2>2, <2>3, TextGoesOn DEF Chat!Extracted
<1>4. ASSUME NEW new \in SUBSET Facts, Chat!IngestedGroup(t, new) PROVE ChatInv'
  <2>1. rows' \in [Facts -> Chat!Statuses] /\ count' = count
    BY <1>4, Writes DEF Chat!IngestedGroup
  <2>. QED
    BY <1>1, <1>4, <2>1, TextGoesOn DEF Chat!IngestedGroup
<1>. QED
  BY <1>2, <1>3, <1>4

\* A text that a task has to learn is nowhere else, nor is one that waits.
LEMMA WhatATaskHas ==
    ASSUME ChatInv, NEW t \in Texts, NEW u \in Texts, HasToLearn(task[t], t, u)
    PROVE  /\ task[u].phase # "none" /\ learned[u] = 0 /\ HoldersOf(task, u) = {t}
           /\ ~Waits(buffer, u) /\ u \notin dropped /\ u \notin lost
<1>1. t \in HoldersOf(task, u)
  BY DEF HoldersOf
<1>. QED
  BY <1>1 DEF ChatInv, EachInItsPlace, InNoPlace, InOnePlace

LEMMA WhatWaits ==
    ASSUME ChatInv, NEW u \in Texts, Waits(buffer, u)
    PROVE  /\ task[u].phase # "none" /\ learned[u] = 0 /\ HoldersOf(task, u) = {}
           /\ u \notin dropped /\ u \notin lost
BY DEF ChatInv, EachInItsPlace, InNoPlace, InOnePlace

\* The buffer of one member changes.
LEMMA BufferGoes ==
    ASSUME ChatInv, NEW m \in Members, NEW b \in [texts : SUBSET Texts, first : 0..MaxClock],
           \A u \in b.texts : SpeakerOf[u] = m, buffer' = [buffer EXCEPT ![m] = b]
    PROVE  /\ buffer' \in [Members -> [texts : SUBSET Texts, first : 0..MaxClock]]
           /\ BuffersAreOwn'
           /\ \A u \in Texts :
                Waits(buffer', u) <=> IF SpeakerOf[u] = m THEN u \in b.texts ELSE Waits(buffer, u)
           /\ \A u \in Texts : Waits(buffer, u) <=> u \in buffer[SpeakerOf[u]].texts
<1>1. /\ buffer' \in [Members -> [texts : SUBSET Texts, first : 0..MaxClock]]
      /\ buffer'[m] = b /\ \A n \in Members : n # m => buffer'[n] = buffer[n]
  BY DEF ChatInv, ChatTyped
<1>2. BuffersAreOwn'
  BY <1>1 DEF ChatInv, BuffersAreOwn
<1>3. \A u \in Texts : SpeakerOf[u] \in Members
  BY ChatConstants
<1>4. \A u \in Texts : Waits(buffer, u) <=> u \in buffer[SpeakerOf[u]].texts
  BY <1>3 DEF ChatInv, BuffersAreOwn, Waits
<1>5. \A u \in Texts : Waits(buffer', u) <=> u \in buffer'[SpeakerOf[u]].texts
  BY <1>2, <1>3 DEF BuffersAreOwn, Waits
<1>. QED
  BY <1>1, <1>2, <1>3, <1>4, <1>5

LEMMA Fills ==
    ASSUME ChatInv, NEW t \in Texts
    PROVE  /\ Chat!Filled(t) \in [texts : SUBSET Texts, first : 0..MaxClock]
           /\ Chat!Filled(t).texts = buffer[SpeakerOf[t]].texts \cup {t}
           /\ SpeakerOf[t] \in Members
           /\ \A u \in Chat!Filled(t).texts : SpeakerOf[u] = SpeakerOf[t]
<1>. DEFINE b == buffer[SpeakerOf[t]]
            first == IF b.texts = {} THEN task[t].now ELSE b.first
<1>1. SpeakerOf[t] \in Members
  BY ChatConstants
<1>2. b \in [texts : SUBSET Texts, first : 0..MaxClock] /\ task[t].now \in 0..MaxClock
  BY <1>1 DEF ChatInv, ChatTyped, Errand
<1>3. Chat!Filled(t) = [texts |-> b.texts \cup {t}, first |-> first]
  BY DEF Chat!Filled
<1>4. b.texts \cup {t} \in SUBSET Texts /\ first \in 0..MaxClock
  BY <1>2
<1>5. \A u \in b.texts : SpeakerOf[u] = SpeakerOf[t]
  BY <1>1 DEF ChatInv, BuffersAreOwn
<1>. HIDE DEF first
<1>6. /\ Chat!Filled(t) \in [texts : SUBSET Texts, first : 0..MaxClock]
      /\ Chat!Filled(t).texts = b.texts \cup {t}
  BY <1>3, <1>4
<1>. QED
  BY <1>1, <1>5, <1>6

\* A task of which only the ending or the texts to learn remain.
LEMMA LastErrand ==
    ASSUME ChatInv, NEW t \in Texts, NEW to \in Errand, to.phase \in {"learning", "done"}, to.count = 0,
           task[t].phase # "none", Chat!Become(t, to), count' = count
    PROVE  /\ task' \in [Texts -> Errand] /\ CountsAreLow'
           /\ \A u \in Texts : task'[u].phase = "none" <=> task[u].phase = "none"
           /\ \A u \in Texts :
                HoldersOf(task', u) = IF to.phase = "learning" /\ u \in to.texts THEN HoldersOf(task, u) \cup {t}
                                      ELSE HoldersOf(task, u) \ {t}
           /\ \A u \in Texts : t \in HoldersOf(task, u) <=> HasToLearn(task[t], t, u)
<1>1. to.phase # "none" /\ to.count \in {0, count, task[t].count}
  OBVIOUS
<1>2. /\ task' \in [Texts -> Errand] /\ task'[t] = to
      /\ \A u \in Texts : u # t => task'[u] = task[u]
      /\ \A u \in Texts : HoldersOf(task', u) = IF HasToLearn(to, t, u) THEN HoldersOf(task, u) \cup {t}
                                                ELSE HoldersOf(task, u) \ {t}
      /\ \A u \in Texts : t \in HoldersOf(task, u) <=> HasToLearn(task[t], t, u)
      /\ \A u \in Texts : task'[u].count <= Cardinality(AnsweredTexts(task'))
      /\ count <= Cardinality(AnsweredTexts(task'))
  BY <1>1, ErrandGoes
<1>3. \A u \in Texts : HasToLearn(to, t, u) <=> to.phase = "learning" /\ u \in to.texts
  BY DEF HasToLearn
<1>4. CountsAreLow'
  BY <1>2 DEF CountsAreLow
<1>5. \A u \in Texts : task'[u].phase = "none" <=> task[u].phase = "none"
  BY <1>1, <1>2
<1>. QED
  BY <1>2, <1>3, <1>4, <1>5

LEMMA Ends ==
    /\ [Chat!NoTask EXCEPT !.phase = "done"] \in Errand
    /\ [Chat!NoTask EXCEPT !.phase = "done"].phase = "done"
    /\ [Chat!NoTask EXCEPT !.phase = "done"].count = 0
BY NoErrand DEF Errand

LEMMA Learns ==
    ASSUME NEW T \in SUBSET Texts
    PROVE  /\ [Chat!NoTask EXCEPT !.phase = "learning", !.texts = T] \in Errand
           /\ [Chat!NoTask EXCEPT !.phase = "learning", !.texts = T].phase = "learning"
           /\ [Chat!NoTask EXCEPT !.phase = "learning", !.texts = T].texts = T
           /\ [Chat!NoTask EXCEPT !.phase = "learning", !.texts = T].count = 0
BY NoErrand DEF Errand

LEMMA Buffering ==
    ASSUME ChatInv, NEW t \in Texts, Chat!Buffer(t)
    PROVE  ChatInv'
<1>. DEFINE m == SpeakerOf[t]
            b == Chat!Filled(t)
<1>1. /\ task[t].phase = "parsing"
      /\ buffer' = [buffer EXCEPT ![m] = b]
      /\ Chat!Become(t, [Chat!NoTask EXCEPT !.phase = "done"])
      /\ UNCHANGED <<clock, rows, count, extracted, started, learned, dropped, lost, edits, stops>>
  BY DEF Chat!Buffer, Chat!Parsed
<1>2. /\ b \in [texts : SUBSET Texts, first : 0..MaxClock] /\ b.texts = buffer[m].texts \cup {t}
      /\ m \in Members /\ \A u \in b.texts : SpeakerOf[u] = m
  BY Fills
<1>. HIDE DEF b
<1>3. /\ buffer' \in [Members -> [texts : SUBSET Texts, first : 0..MaxClock]]
      /\ BuffersAreOwn'
      /\ \A u \in Texts :
           Waits(buffer', u) <=> IF SpeakerOf[u] = m THEN u \in b.texts ELSE Waits(buffer, u)
      /\ \A u \in Texts : Waits(buffer, u) <=> u \in buffer[SpeakerOf[u]].texts
  BY <1>1, <1>2, BufferGoes
<1>4. /\ task' \in [Texts -> Errand] /\ CountsAreLow'
      /\ \A u \in Texts : task'[u].phase = "none" <=> task[u].phase = "none"
      /\ \A u \in Texts : HoldersOf(task', u) = HoldersOf(task, u) \ {t}
      /\ \A u \in Texts : t \in HoldersOf(task, u) <=> HasToLearn(task[t], t, u)
  <2>. DEFINE to == [Chat!NoTask EXCEPT !.phase = "done"]
  <2>1. task[t].phase # "none" /\ count' = count
    BY <1>1
  <2>2. to \in Errand /\ to.phase = "done" /\ to.count = 0 /\ Chat!Become(t, to)
    BY <1>1, Ends
  <2>. HIDE DEF to
  <2>. QED
    BY <2>1, <2>2, LastErrand
<1>5. ChatTyped'
  BY <1>1, <1>3, <1>4 DEF ChatInv, ChatTyped
<1>6. /\ learned[t] = 0 /\ HoldersOf(task, t) = {t} /\ t \notin dropped /\ t \notin lost
  <2>1. HasToLearn(task[t], t, t)
    BY <1>1 DEF HasToLearn
  <2>. QED
    BY <2>1, WhatATaskHas
<1>7. HoldersOf(task', t) = {} /\ Waits(buffer', t)
  BY <1>2, <1>3, <1>4, <1>6
<1>8. \A u \in Texts : u # t => /\ HoldersOf(task', u) = HoldersOf(task, u)
                                /\ Waits(buffer', u) <=> Waits(buffer, u)
  <2>. SUFFICES ASSUME NEW u \in Texts, u # t
                PROVE  /\ HoldersOf(task', u) = HoldersOf(task, u)
                       /\ Waits(buffer', u) <=> Waits(buffer, u)
    OBVIOUS
  <2>1. t \notin HoldersOf(task, u)
    BY <1>1, <1>4 DEF HasToLearn
  <2>2. HoldersOf(task', u) = HoldersOf(task, u)
    <3>1. HoldersOf(task', u) = HoldersOf(task, u) \ {t}
      BY <1>2, <1>4
    <3>. QED
      BY <2>1, <3>1
  <2>. QED
    BY <1>2, <1>3, <2>2
<1>9. EachInItsPlace'
  <2>. SUFFICES ASSUME NEW u \in Texts
                PROVE  /\ task'[u].phase = "none" =>
                            InNoPlace(learned'[u], HoldersOf(task', u), Waits(buffer', u), u \in dropped', u \in lost')
                       /\ task'[u].phase # "none" =>
                            InOnePlace(learned'[u], HoldersOf(task', u), Waits(buffer', u), u \in dropped', u \in lost')
    BY DEF EachInItsPlace
  <2>1. CASE u = t
    <3>1. InOnePlace(learned'[t], HoldersOf(task', t), Waits(buffer', t), t \in dropped', t \in lost')
      BY <1>1, <1>6, <1>7 DEF InOnePlace
    <3>2. task'[t].phase # "none"
      BY <1>1, <1>4
    <3>. QED
      BY <2>1, <3>1, <3>2
  <2>2. CASE u # t
    <3>1. /\ HoldersOf(task', u) = HoldersOf(task, u) /\ learned'[u] = learned[u]
          /\ Waits(buffer', u) <=> Waits(buffer, u)
          /\ dropped' = dropped /\ lost' = lost
          /\ task'[u].phase = "none" <=> task[u].phase = "none"
      BY <1>1, <1>4, <1>8, <2>2
    <3>. QED
      BY <3>1 DEF ChatInv, EachInItsPlace, InNoPlace, InOnePlace
  <2>. QED
    BY <2>1, <2>2
<1>. QED
  BY <1>3, <1>4, <1>5, <1>9 DEF ChatInv

LEMMA Flushing ==
    ASSUME ChatInv, NEW t \in Texts, Chat!Flush(t)
    PROVE  ChatInv'
<1>. DEFINE m == SpeakerOf[t]
            T == Chat!Filled(t).texts
<1>1. /\ task[t].phase = "parsing"
      /\ buffer' = [buffer EXCEPT ![m] = Chat!NoBuffer]
      /\ Chat!Become(t, [Chat!NoTask EXCEPT !.phase = "learning", !.texts = T])
      /\ UNCHANGED <<clock, rows, count, extracted, started, learned, dropped, lost, edits, stops>>
  BY DEF Chat!Flush, Chat!Parsed, Chat!Learning
<1>2. /\ T \in SUBSET Texts /\ T = buffer[m].texts \cup {t}
      /\ m \in Members /\ \A u \in T : SpeakerOf[u] = m
  BY Fills
<1>. HIDE DEF T
<1>3. /\ buffer' \in [Members -> [texts : SUBSET Texts, first : 0..MaxClock]]
      /\ BuffersAreOwn'
      /\ \A u \in Texts : Waits(buffer', u) <=> SpeakerOf[u] # m /\ Waits(buffer, u)
      /\ \A u \in Texts : Waits(buffer, u) <=> u \in buffer[SpeakerOf[u]].texts
  BY <1>1, <1>2, BufferGoes, NoErrand
<1>4. /\ task' \in [Texts -> Errand] /\ CountsAreLow'
      /\ \A u \in Texts : task'[u].phase = "none" <=> task[u].phase = "none"
      /\ \A u \in Texts : HoldersOf(task', u) = IF u \in T THEN HoldersOf(task, u) \cup {t}
                                                ELSE HoldersOf(task, u) \ {t}
      /\ \A u \in Texts : t \in HoldersOf(task, u) <=> HasToLearn(task[t], t, u)
  <2>. DEFINE to == [Chat!NoTask EXCEPT !.phase = "learning", !.texts = T]
  <2>1. task[t].phase # "none" /\ count' = count
    BY <1>1
  <2>2. /\ to \in Errand /\ to.phase = "learning" /\ to.texts = T /\ to.count = 0
        /\ Chat!Become(t, to)
    BY <1>1, <1>2, Learns
  <2>. HIDE DEF to
  <2>. QED
    BY <2>1, <2>2, LastErrand
<1>5. ChatTyped'
  BY <1>1, <1>3, <1>4 DEF ChatInv, ChatTyped
<1>6. ASSUME NEW u \in T
      PROVE  /\ task[u].phase # "none" /\ learned[u] = 0 /\ HoldersOf(task', u) = {t}
             /\ ~Waits(buffer', u) /\ u \notin dropped /\ u \notin lost
  <2>1. u \in Texts /\ SpeakerOf[u] = m
    BY <1>2
  <2>2. CASE u = t
    <3>1. HasToLearn(task[t], t, t)
      BY <1>1 DEF HasToLearn
    <3>2. /\ task[t].phase # "none" /\ learned[t] = 0 /\ HoldersOf(task, t) = {t}
          /\ t \notin dropped /\ t \notin lost
      BY <3>1, WhatATaskHas
    <3>. QED
      BY <1>3, <1>4, <2>1, <2>2, <3>2
  <2>3. CASE u # t
    <3>1. Waits(buffer, u)
      BY <1>2, <1>3, <2>1, <2>3
    <3>2. /\ task[u].phase # "none" /\ learned[u] = 0 /\ HoldersOf(task, u) = {}
          /\ u \notin dropped /\ u \notin lost
      BY <2>1, <3>1, WhatWaits
    <3>. QED
      BY <1>3, <1>4, <2>1, <3>2
  <2>. QED
    BY <2>2, <2>3
<1>7. \A u \in Texts \ T : /\ HoldersOf(task', u) = HoldersOf(task, u)
                           /\ Waits(buffer', u) <=> Waits(buffer, u)
  <2>. SUFFICES ASSUME NEW u \in Texts \ T
                PROVE  /\ HoldersOf(task', u) = HoldersOf(task, u)
                       /\ Waits(buffer', u) <=> Waits(buffer, u)
    OBVIOUS
  <2>1. t \notin HoldersOf(task, u)
    BY <1>1, <1>2, <1>4 DEF HasToLearn
  <2>2. HoldersOf(task', u) = HoldersOf(task, u)
    <3>1. HoldersOf(task', u) = HoldersOf(task, u) \ {t}
      BY <1>2, <1>4
    <3>. QED
      BY <2>1, <3>1
  <2>. QED
    BY <1>2, <1>3, <2>2
<1>8. EachInItsPlace'
  <2>. SUFFICES ASSUME NEW u \in Texts
                PROVE  /\ task'[u].phase = "none" =>
                            InNoPlace(learned'[u], HoldersOf(task', u), Waits(buffer', u), u \in dropped', u \in lost')
                       /\ task'[u].phase # "none" =>
                            InOnePlace(learned'[u], HoldersOf(task', u), Waits(buffer', u), u \in dropped', u \in lost')
    BY DEF EachInItsPlace
  <2>1. CASE u \in T
    <3>1. InOnePlace(learned'[u], HoldersOf(task', u), Waits(buffer', u), u \in dropped', u \in lost')
      BY <1>1, <1>6, <2>1 DEF InOnePlace
    <3>2. task'[u].phase # "none"
      BY <1>4, <1>6, <2>1
    <3>. QED
      BY <3>1, <3>2
  <2>2. CASE u \notin T
    <3>1. /\ HoldersOf(task', u) = HoldersOf(task, u) /\ learned'[u] = learned[u]
          /\ Waits(buffer', u) <=> Waits(buffer, u)
          /\ dropped' = dropped /\ lost' = lost
          /\ task'[u].phase = "none" <=> task[u].phase = "none"
      BY <1>1, <1>4, <1>7, <2>2
    <3>. QED
      BY <3>1 DEF ChatInv, EachInItsPlace, InNoPlace, InOnePlace
  <2>. QED
    BY <2>1, <2>2
<1>. QED
  BY <1>3, <1>4, <1>5, <1>8 DEF ChatInv

LEMMA LearningAtOnce ==
    ASSUME ChatInv, NEW t \in Texts, Chat!LearnAtOnce(t)
    PROVE  ChatInv'
<1>. DEFINE m == SpeakerOf[t]
            B == buffer[m].texts
<1>1. /\ task[t].phase = "parsing"
      /\ buffer' = [buffer EXCEPT ![m] = Chat!NoBuffer]
      /\ dropped' = dropped \cup B
      /\ Chat!Become(t, [Chat!NoTask EXCEPT !.phase = "learning", !.texts = {t}])
      /\ UNCHANGED <<clock, rows, count, extracted, started, learned, lost, edits, stops>>
  BY DEF Chat!LearnAtOnce, Chat!Parsed, Chat!Learning
<1>2. m \in Members /\ B \in SUBSET Texts /\ \A u \in B : SpeakerOf[u] = m
  BY ChatConstants DEF ChatInv, ChatTyped, BuffersAreOwn
<1>3. /\ buffer' \in [Members -> [texts : SUBSET Texts, first : 0..MaxClock]]
      /\ BuffersAreOwn'
      /\ \A u \in Texts : Waits(buffer', u) <=> SpeakerOf[u] # m /\ Waits(buffer, u)
      /\ \A u \in Texts : Waits(buffer, u) <=> u \in buffer[SpeakerOf[u]].texts
  BY <1>1, <1>2, BufferGoes, NoErrand
<1>4. /\ task' \in [Texts -> Errand] /\ CountsAreLow'
      /\ \A u \in Texts : task'[u].phase = "none" <=> task[u].phase = "none"
      /\ \A u \in Texts : HoldersOf(task', u) = IF u \in {t} THEN HoldersOf(task, u) \cup {t}
                                                ELSE HoldersOf(task, u) \ {t}
      /\ \A u \in Texts : t \in HoldersOf(task, u) <=> HasToLearn(task[t], t, u)
  <2>. DEFINE to == [Chat!NoTask EXCEPT !.phase = "learning", !.texts = {t}]
  <2>1. task[t].phase # "none" /\ count' = count
    BY <1>1
  <2>2. /\ to \in Errand /\ to.phase = "learning" /\ to.texts = {t} /\ to.count = 0
        /\ Chat!Become(t, to)
    BY <1>1, <1>2, Learns
  <2>. HIDE DEF to
  <2>. QED
    BY <2>1, <2>2, LastErrand
<1>5. ChatTyped'
  BY <1>1, <1>2, <1>3, <1>4 DEF ChatInv, ChatTyped
<1>6. /\ task[t].phase # "none" /\ learned[t] = 0 /\ HoldersOf(task, t) = {t}
      /\ ~Waits(buffer, t) /\ t \notin dropped /\ t \notin lost
  <2>1. HasToLearn(task[t], t, t)
    BY <1>1 DEF HasToLearn
  <2>. QED
    BY <2>1, WhatATaskHas
<1>7. \A u \in Texts : HoldersOf(task', u) = HoldersOf(task, u)
  <2>. SUFFICES ASSUME NEW u \in Texts PROVE HoldersOf(task', u) = HoldersOf(task, u)
    OBVIOUS
  <2>1. CASE u = t
    BY <1>4, <1>6, <2>1
  <2>2. CASE u # t
    <3>1. t \notin HoldersOf(task, u)
      BY <1>1, <1>4, <2>2 DEF HasToLearn
    <3>. QED
      BY <1>4, <2>2, <3>1
  <2>. QED
    BY <2>1, <2>2
<1>8. \A u \in Texts : u \in B <=> SpeakerOf[u] = m /\ Waits(buffer, u)
  BY <1>2, <1>3
<1>. HIDE DEF B
<1>9. EachInItsPlace'
  <2>. SUFFICES ASSUME NEW u \in Texts
                PROVE  /\ task'[u].phase = "none" =>
                            InNoPlace(learned'[u], HoldersOf(task', u), Waits(buffer', u), u \in dropped', u \in lost')
                       /\ task'[u].phase # "none" =>
                            InOnePlace(learned'[u], HoldersOf(task', u), Waits(buffer', u), u \in dropped', u \in lost')
    BY DEF EachInItsPlace
  <2>1. CASE u \in B
    <3>1. Waits(buffer, u) /\ ~Waits(buffer', u)
      BY <1>3, <1>8, <2>1
    <3>2. /\ task[u].phase # "none" /\ learned[u] = 0 /\ HoldersOf(task, u) = {}
          /\ u \notin lost
      BY <3>1, WhatWaits
    <3>3. InOnePlace(learned'[u], HoldersOf(task', u), Waits(buffer', u), u \in dropped', u \in lost')
      BY <1>1, <1>7, <2>1, <3>1, <3>2 DEF InOnePlace
    <3>. QED
      BY <1>4, <3>2, <3>3
  <2>2. CASE u \notin B
    <3>1. /\ HoldersOf(task', u) = HoldersOf(task, u) /\ learned'[u] = learned[u]
          /\ Waits(buffer', u) <=> Waits(buffer, u)
          /\ u \in dropped' <=> u \in dropped
          /\ lost' = lost
          /\ task'[u].phase = "none" <=> task[u].phase = "none"
      BY <1>1, <1>3, <1>4, <1>7, <1>8, <2>2
    <3>. QED
      BY <3>1 DEF ChatInv, EachInItsPlace, InNoPlace, InOnePlace
  <2>. QED
    BY <2>1, <2>2
<1>. QED
  BY <1>3, <1>4, <1>5, <1>9 DEF ChatInv

\* What a task has to learn is learned, or lost.
LEMMA TextsLeaveATask ==
    ASSUME ChatInv, NEW t \in Texts, task[t].phase = "learning",
           Chat!Become(t, [Chat!NoTask EXCEPT !.phase = "done"]),
           UNCHANGED <<clock, rows, count, extracted, buffer, started, dropped, edits, stops>>,
           \/ /\ learned' = [u \in Texts |-> IF u \in task[t].texts THEN learned[u] + 1 ELSE learned[u]]
              /\ lost' = lost
           \/ learned' = learned /\ lost' = lost \cup task[t].texts
    PROVE  ChatInv'
<1>. DEFINE T == task[t].texts
<1>1. T \in SUBSET Texts
  BY DEF ChatInv, ChatTyped, Errand
<1>2. /\ task' \in [Texts -> Errand] /\ CountsAreLow'
      /\ \A u \in Texts : task'[u].phase = "none" <=> task[u].phase = "none"
      /\ \A u \in Texts : HoldersOf(task', u) = HoldersOf(task, u) \ {t}
      /\ \A u \in Texts : t \in HoldersOf(task, u) <=> HasToLearn(task[t], t, u)
  <2>. DEFINE to == [Chat!NoTask EXCEPT !.phase = "done"]
  <2>1. task[t].phase # "none" /\ count' = count
    OBVIOUS
  <2>2. to \in Errand /\ to.phase = "done" /\ to.count = 0 /\ Chat!Become(t, to)
    BY Ends
  <2>. HIDE DEF to
  <2>. QED
    BY <2>1, <2>2, LastErrand
<1>3. \A u \in Texts : learned[u] \in Nat /\ learned[u] + 1 \in Nat
  BY DEF ChatInv, ChatTyped
<1>4. learned' \in [Texts -> Nat] /\ lost' \subseteq Texts
  BY <1>1, <1>3 DEF ChatInv, ChatTyped
<1>5. ChatTyped'
  BY <1>2, <1>4 DEF ChatInv, ChatTyped
<1>6. \A u \in Texts : HasToLearn(task[t], t, u) <=> u \in T
  BY DEF HasToLearn
<1>7. EachInItsPlace'
  <2>. SUFFICES ASSUME NEW u \in Texts
                PROVE  /\ task'[u].phase = "none" =>
                            InNoPlace(learned'[u], HoldersOf(task', u), Waits(buffer', u), u \in dropped', u \in lost')
                       /\ task'[u].phase # "none" =>
                            InOnePlace(learned'[u], HoldersOf(task', u), Waits(buffer', u), u \in dropped', u \in lost')
    BY DEF EachInItsPlace
  <2>1. CASE u \in T
    <3>1. /\ task[u].phase # "none" /\ learned[u] = 0 /\ HoldersOf(task, u) = {t}
          /\ ~Waits(buffer, u) /\ u \notin dropped /\ u \notin lost
      BY <1>6, <2>1, WhatATaskHas
    <3>2. HoldersOf(task', u) = {} /\ (Waits(buffer', u) <=> Waits(buffer, u)) /\ dropped' = dropped
      BY <1>2, <3>1
    <3>3. \/ learned'[u] = 1 /\ u \notin lost'
          \/ learned'[u] = 0 /\ u \in lost'
      BY <2>1, <3>1
    <3>4. InOnePlace(learned'[u], HoldersOf(task', u), Waits(buffer', u), u \in dropped', u \in lost')
      BY <3>1, <3>2, <3>3 DEF InOnePlace
    <3>. QED
      BY <1>2, <3>1, <3>4
  <2>2. CASE u \notin T
    <3>1. /\ HoldersOf(task', u) = HoldersOf(task, u) /\ learned'[u] = learned[u]
          /\ Waits(buffer', u) <=> Waits(buffer, u)
          /\ dropped' = dropped
          /\ u \in lost' <=> u \in lost
          /\ task'[u].phase = "none" <=> task[u].phase = "none"
      <4>1. t \notin HoldersOf(task, u)
        BY <1>2, <1>6, <2>2
      <4>2. HoldersOf(task', u) = HoldersOf(task, u)
        BY <1>2, <4>1
      <4>3. learned'[u] = learned[u] /\ (u \in lost' <=> u \in lost)
        BY <2>2
      <4>. QED
        BY <1>2, <4>2, <4>3
    <3>. QED
      BY <3>1 DEF ChatInv, EachInItsPlace, InNoPlace, InOnePlace
  <2>. QED
    BY <2>1, <2>2
<1>8. BuffersAreOwn'
  BY DEF ChatInv, BuffersAreOwn
<1>. QED
  BY <1>2, <1>5, <1>7, <1>8 DEF ChatInv

LEMMA ChatRestarting == ChatInv /\ Chat!Restart => ChatInv'
<1>. SUFFICES ASSUME ChatInv, Chat!Restart PROVE ChatInv'
  OBVIOUS
<1>1. /\ extracted' = Chat!Never /\ started' = Chat!Never
      /\ lost' = lost \cup Chat!Buffered \cup {t \in Texts : Chat!Holders(t) # {}}
      /\ buffer' = [m \in Members |-> Chat!NoBuffer]
      /\ task' = [t \in Texts |-> IF task[t].phase = "none" THEN Chat!NoTask
                                  ELSE [Chat!NoTask EXCEPT !.phase = "done"]]
      /\ UNCHANGED <<clock, rows, count, learned, dropped, edits>>
  BY DEF Chat!Restart
<1>2. stops' \in 0..MaxStops
  BY ChatConstants DEF ChatInv, ChatTyped, Chat!Restart
<1>3. /\ [Chat!NoTask EXCEPT !.phase = "done"] \in Errand
      /\ [Chat!NoTask EXCEPT !.phase = "done"].phase = "done"
      /\ [Chat!NoTask EXCEPT !.phase = "done"].count = 0
  BY NoErrand DEF Errand
<1>4. /\ task' \in [Texts -> Errand]
      /\ \A t \in Texts : /\ task'[t].phase = IF task[t].phase = "none" THEN "none" ELSE "done"
                          /\ task'[t].count = 0
  BY <1>1, <1>3, NoErrand
<1>5. /\ buffer' \in [Members -> [texts : SUBSET Texts, first : 0..MaxClock]]
      /\ \A m \in Members : buffer'[m].texts = {}
  BY <1>1, NoErrand
<1>6. /\ \A u : Chat!Holders(u) = HoldersOf(task, u)
      /\ \A u : (u \in Chat!Buffered) <=> Waits(buffer, u)
  BY DEF Chat!Holders, HoldersOf, HasToLearn, Chat!Buffered, Waits
<1>7. Chat!Buffered \subseteq Texts
  BY DEF Chat!Buffered, ChatInv, ChatTyped
<1>8. ChatTyped'
  <2>1. extracted' \in Times
    BY <1>1 DEF Times
  <2>2. lost' \subseteq Texts
    BY <1>1, <1>7 DEF ChatInv, ChatTyped
  <2>. QED
    BY <1>1, <1>2, <1>4, <1>5, <2>1, <2>2 DEF ChatInv, ChatTyped
<1>9. CountsAreLow'
  <2>1. AnsweredTexts(task') = AnsweredTexts(task)
    BY <1>4 DEF AnsweredTexts
  <2>2. Cardinality(AnsweredTexts(task)) \in Nat
    BY AnsweredIsFinite
  <2>. QED
    BY <1>1, <1>4, <2>1, <2>2 DEF ChatInv, CountsAreLow
<1>10. BuffersAreOwn'
  BY <1>5 DEF BuffersAreOwn
<1>11. \A u \in Texts : HoldersOf(task', u) = {} /\ ~Waits(buffer', u)
  BY <1>4, <1>5 DEF HoldersOf, HasToLearn, Waits
<1>12. \A u \in Texts : u \in lost' <=> u \in lost \/ Waits(buffer, u) \/ HoldersOf(task, u) # {}
  BY <1>1, <1>6
<1>13. EachInItsPlace'
  <2>. SUFFICES ASSUME NEW u \in Texts
                PROVE  /\ task'[u].phase = "none" =>
                            InNoPlace(learned'[u], HoldersOf(task', u), Waits(buffer', u), u \in dropped', u \in lost')
                       /\ task'[u].phase # "none" =>
                            InOnePlace(learned'[u], HoldersOf(task', u), Waits(buffer', u), u \in dropped', u \in lost')
    BY DEF EachInItsPlace
  <2>1. CASE task[u].phase = "none"
    <3>1. InNoPlace(learned[u], HoldersOf(task, u), Waits(buffer, u), u \in dropped, u \in lost)
      BY <2>1 DEF ChatInv, EachInItsPlace
    <3>2. task'[u].phase = "none"
      BY <1>4, <2>1
    <3>. QED
      BY <1>1, <1>11, <1>12, <3>1, <3>2 DEF InNoPlace
  <2>2. CASE task[u].phase # "none"
    <3>1. InOnePlace(learned[u], HoldersOf(task, u), Waits(buffer, u), u \in dropped, u \in lost)
      BY <2>2 DEF ChatInv, EachInItsPlace
    <3>2. task'[u].phase # "none"
      BY <1>4, <2>2
    <3>. QED
      BY <1>1, <1>11, <1>12, <3>1, <3>2 DEF InOnePlace
  <2>. QED
    BY <2>1, <2>2
<1>. QED
  BY <1>8, <1>9, <1>10, <1>13 DEF ChatInv

LEMMA ChatTicks == ChatInv /\ Chat!Tick => ChatInv'
<1>. SUFFICES ASSUME ChatInv, Chat!Tick PROVE ChatInv'
  OBVIOUS
<1>1. /\ clock' \in 0..MaxClock
      /\ UNCHANGED <<rows, count, extracted, buffer, task, started, learned, dropped, lost, edits, stops>>
  BY ChatConstants DEF ChatInv, ChatTyped, Chat!Tick
<1>2. rows' \in [Facts -> Chat!Statuses] /\ edits' \in 0..MaxEdits
  BY <1>1 DEF ChatInv, ChatTyped
<1>. QED
  BY <1>1, <1>2, NoTextMoves

LEMMA ChatChanges ==
    ASSUME ChatInv, NEW f \in Facts, Chat!Change(f)
    PROVE  ChatInv'
<1>1. /\ rows' = [rows EXCEPT ![f] = IF rows[f] = "none" THEN "active" ELSE "superseded"]
      /\ UNCHANGED <<clock, count, extracted, buffer, task, started, learned, dropped, lost, stops>>
  BY DEF Chat!Change
<1>2. edits' \in 0..MaxEdits
  BY ChatConstants DEF ChatInv, ChatTyped, Chat!Change
<1>3. rows' \in [Facts -> Chat!Statuses]
  BY <1>1 DEF ChatInv, ChatTyped, Chat!Statuses
<1>4. clock' \in 0..MaxClock
  BY <1>1 DEF ChatInv, ChatTyped
<1>. QED
  BY <1>1, <1>2, <1>3, <1>4, NoTextMoves

LEMMA ChatStep == ChatInv /\ Chat!Next => ChatInv'
<1>. SUFFICES ASSUME ChatInv, Chat!Next PROVE ChatInv'
  OBVIOUS
<1>1. ASSUME NEW t \in Texts, Chat!Learn(t) PROVE ChatInv'
  BY <1>1, TextsLeaveATask DEF Chat!Learn
<1>2. ASSUME NEW t \in Texts, Chat!LearnFails(t) PROVE ChatInv'
  BY <1>2, TextsLeaveATask DEF Chat!LearnFails
<1>3. ASSUME NEW t \in Texts,
             Chat!StartExtraction(t) \/ Chat!CountMessage(t) \/ Chat!Buffer(t) \/ Chat!Flush(t)
               \/ Chat!LearnAtOnce(t)
      PROVE  ChatInv'
  BY <1>3, Extracting, CountingMessage, Buffering, Flushing, LearningAtOnce
<1>. QED
  BY <1>1, <1>2, <1>3, GoingOn, ChatTicks, ChatChanges, ChatRestarting DEF Chat!Next

\* An extraction of a process starts an hour after the last one.
LEMMA SpacedStep ==
    ASSUME ChatInv, Chat!Next, started' # started, started # Chat!Never, started' # Chat!Never
    PROVE  clock - started >= Hour
<1>1. started = extracted
  BY DEF ChatInv, ChatTyped
<1>2. ASSUME NEW t \in Texts, Chat!StartExtraction(t) PROVE clock - started >= Hour
  BY <1>1, <1>2 DEF Chat!StartExtraction
<1>3. ~Chat!Restart /\ ~Chat!Tick /\ \A f \in Facts : ~Chat!Change(f)
  BY DEF Chat!Restart, Chat!Tick, Chat!Change
<1>4. \A t \in Texts : /\ ~Chat!CountMessage(t) /\ ~Chat!ExtractedNothing(t) /\ ~Chat!Extracted(t)
                       /\ \A new \in SUBSET Facts : ~Chat!IngestedGroup(t, new)
                       /\ ~Chat!Buffer(t) /\ ~Chat!Flush(t) /\ ~Chat!LearnAtOnce(t)
                       /\ ~Chat!Learn(t) /\ ~Chat!LearnFails(t)
  BY DEF Chat!CountMessage, Chat!ExtractedNothing, Chat!Extracted, Chat!IngestedGroup, Chat!Buffer,
         Chat!Flush, Chat!LearnAtOnce, Chat!Learn, Chat!LearnFails
<1>. QED
  BY <1>2, <1>3, <1>4 DEF Chat!Next

-----------------------------------------------------------------------------
(* Consultations *)

Consultant == [phase : {"unsent", "aborting", "ending", "turning", "thinking", "noting", "done"},
               read : Advice!Rows, topic : Advice!Topics, stage : 0..MaxRounds,
               rounds : {MaxRounds, UrgentRounds}]

\* What a turn goes on from is what it has read.
FromWhatItRead(k, m) ==
    /\ k.phase = "ending" => k.read.status = "active"
    /\ k.phase = "thinking" =>
         IF k.read.status = "active" THEN k.topic = k.read.topic /\ k.stage = k.read.stage
         ELSE k.topic = m /\ k.stage = 0

AdviserTyped ==
    /\ session \in Advice!Rows
    /\ session.status = "active" => session.stage \in 0..MaxRounds
    /\ asker \in [Messages -> Consultant]
    /\ asked \in [Advice!Topics -> Nat] /\ advised \in [Advice!Topics -> Nat]
    /\ noted \in [Advice!Topics -> Nat]
    /\ aborted \subseteq Advice!Topics
    /\ raced \in BOOLEAN /\ stops \in 0..MaxStops

\* A message that has saved nothing is the topic of nothing.
Untouched(m) == asked[m] = 0 /\ advised[m] = 0 /\ noted[m] = 0 /\ m \notin aborted
Before == {"unsent", "aborting", "ending", "turning", "thinking"}

\* The row counts the questions of its topic, and while it is active there is
\* neither advice nor an end.
RowCounts ==
    session.status = "active" =>
      /\ session.topic \in Messages /\ asker[session.topic].phase \in {"noting", "done"}
      /\ asked[session.topic] = session.stage
      /\ advised[session.topic] = 0 /\ noted[session.topic] = 0 /\ session.topic \notin aborted

\* Advice that is not remembered yet is remembered by one message.
ToNote ==
    /\ \A m \in Messages : asker[m].phase = "noting" =>
         advised[asker[m].topic] = 1 /\ noted[asker[m].topic] = 0
    /\ \A m, n \in Messages :
         asker[m].phase = "noting" /\ asker[n].phase = "noting" /\ asker[m].topic = asker[n].topic
           => m = n

Kept ==
    /\ \A m \in Messages : asker[m].phase \in Before => Untouched(m)
    /\ RowCounts /\ ToNote
    /\ \A t \in Advice!Topics :
         /\ asked[t] <= MaxRounds
         /\ advised[t] <= 1 /\ noted[t] <= advised[t]
         /\ advised[t] = 1 => asked[t] >= UrgentRounds /\ t \notin aborted

AdviserInv == /\ AdviserTyped
              /\ \A m \in Messages : FromWhatItRead(asker[m], m)
              /\ ~raced => Kept

LEMMA RoundsAreNat ==
    MaxRounds \in Nat /\ UrgentRounds \in Nat /\ UrgentRounds <= MaxRounds /\ MaxStops \in Nat
BY ConstantsAssumption DEF Advice!AdviserAssumption

LEMMA AdviserTypedOK == AdviserInv => Advice!TypeOK /\ Advice!AdviceOnce
BY DEF AdviserInv, AdviserTyped, Kept, Advice!TypeOK, Advice!AdviceOnce, Consultant

LEMMA AdviserRecords ==
    /\ Advice!NoRow \in Advice!Rows /\ Advice!NoRow.status = "none" /\ Advice!NoRow.stage = 0
    /\ Advice!Unsent \in Consultant /\ Advice!Unsent.phase = "unsent"
    /\ \A p \in {"unsent", "turning", "aborting", "done"} :
         /\ [Advice!Unsent EXCEPT !.phase = p] \in Consultant
         /\ [Advice!Unsent EXCEPT !.phase = p].phase = p
    /\ Advice!Done \in Consultant /\ Advice!Done.phase = "done"
<1>1. /\ Advice!NoRow \in Advice!Rows /\ Advice!NoRow.status = "none" /\ Advice!NoRow.stage = 0
  BY RoundsAreNat DEF Advice!NoRow, Advice!Rows, Advice!Topics
<1>2. Advice!Unsent \in Consultant /\ Advice!Unsent.phase = "unsent"
  BY <1>1, RoundsAreNat DEF Advice!Unsent, Consultant, Advice!Topics
<1>3. \A p \in {"unsent", "turning", "aborting", "done"} :
         /\ [Advice!Unsent EXCEPT !.phase = p] \in Consultant
         /\ [Advice!Unsent EXCEPT !.phase = p].phase = p
  BY <1>2 DEF Consultant
<1>. QED
  BY <1>1, <1>2, <1>3 DEF Advice!Done

LEMMA AdviserStart == Advice!Init => AdviserInv
<1>. SUFFICES ASSUME Advice!Init PROVE AdviserInv
  OBVIOUS
<1>1. AdviserTyped /\ session.status = "none"
  <2>1. session \in Advice!Rows /\ session.status = "none"
    BY AdviserRecords DEF Advice!Init
  <2>2. /\ asker \in [Messages -> Consultant]
        /\ asked \in [Advice!Topics -> Nat] /\ advised \in [Advice!Topics -> Nat]
        /\ noted \in [Advice!Topics -> Nat]
    BY AdviserRecords DEF Advice!Init
  <2>3. aborted \subseteq Advice!Topics /\ stops \in 0..MaxStops
    BY RoundsAreNat DEF Advice!Init
  <2>4. raced \in BOOLEAN
    BY DEF Advice!Init
  <2>. QED
    BY <2>1, <2>2, <2>3, <2>4 DEF AdviserTyped
<1>2. \A m \in Messages : asker[m].phase = "unsent"
  BY AdviserRecords DEF Advice!Init
<1>3. \A t \in Advice!Topics : asked[t] = 0 /\ advised[t] = 0 /\ noted[t] = 0 /\ t \notin aborted
  BY DEF Advice!Init
<1>4. \A m \in Messages : Untouched(m)
  BY <1>3 DEF Untouched, Advice!Topics
<1>5. Kept
  BY <1>1, <1>2, <1>3, <1>4, RoundsAreNat DEF Kept, RowCounts, ToNote
<1>. QED
  BY <1>1, <1>2, <1>5 DEF AdviserInv, FromWhatItRead

\* One message goes on.
LEMMA ConsultantGoes ==
    ASSUME AdviserInv, NEW m \in Messages, NEW to \in Consultant, FromWhatItRead(to, m),
           Advice!Step(m, to)
    PROVE  /\ asker' \in [Messages -> Consultant] /\ asker'[m] = to
           /\ \A n \in Messages : n # m => asker'[n] = asker[n]
           /\ \A n \in Messages : FromWhatItRead(asker'[n], n)
<1>1. /\ asker' \in [Messages -> Consultant] /\ asker'[m] = to
      /\ \A n \in Messages : n # m => asker'[n] = asker[n]
  BY DEF AdviserInv, AdviserTyped, Advice!Step
<1>. QED
  BY <1>1 DEF AdviserInv

\* A message goes on and nothing is saved.
LEMMA OnlyGoes ==
    ASSUME AdviserInv, NEW m \in Messages, NEW to \in Consultant, FromWhatItRead(to, m),
           asker[m].phase \in Before, to.phase # "noting",
           Advice!Step(m, to), UNCHANGED <<session, asked, advised, aborted, noted, raced, stops>>
    PROVE  AdviserInv'
<1>1. /\ asker' \in [Messages -> Consultant] /\ asker'[m] = to
      /\ \A n \in Messages : n # m => asker'[n] = asker[n]
      /\ \A n \in Messages : FromWhatItRead(asker'[n], n)
  BY ConsultantGoes
<1>2. AdviserTyped'
  BY <1>1 DEF AdviserInv, AdviserTyped
<1>3. ASSUME ~raced' PROVE Kept'
  <2>1. Kept
    BY <1>3 DEF AdviserInv
  <2>2. \A n \in Messages : asker'[n].phase \in Before => Untouched(n)'
    BY <1>1, <2>1 DEF Kept, Untouched
  <2>3. RowCounts'
    BY <1>1, <2>1 DEF Kept, RowCounts, Before
  <2>4. ToNote'
    BY <1>1, <2>1 DEF Kept, ToNote
  <2>. QED
    BY <2>1, <2>2, <2>3, <2>4 DEF Kept
<1>. QED
  BY <1>1, <1>2, <1>3 DEF AdviserInv

LEMMA Deciding ==
    ASSUME AdviserInv, NEW m \in Messages, Advice!Decide(m)
    PROVE  AdviserInv'
<1>1. PICK p \in {"unsent", "turning", "aborting", "done"} :
        Advice!Step(m, [Advice!Unsent EXCEPT !.phase = p])
  BY DEF Advice!Decide, Advice!Done
<1>2. /\ [Advice!Unsent EXCEPT !.phase = p] \in Consultant
      /\ [Advice!Unsent EXCEPT !.phase = p].phase = p
  BY AdviserRecords
<1>3. asker[m].phase \in Before
  BY DEF Advice!Decide, Before
<1>. DEFINE to == [Advice!Unsent EXCEPT !.phase = p]
<1>. HIDE DEF to
<1>4. to \in Consultant /\ to.phase = p /\ Advice!Step(m, to)
  BY <1>1, <1>2 DEF to
<1>. QED
  BY <1>3, <1>4, OnlyGoes DEF FromWhatItRead, Advice!Decide

LEMMA Aborting ==
    ASSUME AdviserInv, NEW m \in Messages, Advice!Abort(m)
    PROVE  AdviserInv'
<1>. DEFINE to == IF Advice!ConsultGet(session) = Advice!NoRow THEN Advice!Done
                  ELSE [asker[m] EXCEPT !.phase = "ending", !.read = session]
<1>1. asker[m] \in Consultant /\ session \in Advice!Rows /\ asker[m].phase \in Before
  BY DEF AdviserInv, AdviserTyped, Advice!Abort, Before
<1>2. to \in Consultant /\ FromWhatItRead(to, m) /\ to.phase \in {"ending", "done"}
  <2>1. CASE Advice!ConsultGet(session) = Advice!NoRow
    BY <2>1, AdviserRecords DEF FromWhatItRead
  <2>2. CASE Advice!ConsultGet(session) # Advice!NoRow
    <3>1. session.status = "active"
      BY <2>2 DEF Advice!ConsultGet
    <3>2. to = [asker[m] EXCEPT !.phase = "ending", !.read = session]
      BY <2>2
    <3>3. to \in Consultant /\ to.phase = "ending" /\ to.read = session
      BY <1>1, <3>2 DEF Consultant
    <3>. QED
      BY <3>1, <3>3 DEF FromWhatItRead
  <2>. QED
    BY <2>1, <2>2
<1>3. Advice!Step(m, to) /\ UNCHANGED <<session, asked, advised, aborted, noted, raced, stops>>
  BY DEF Advice!Abort
<1>. HIDE DEF to
<1>. QED
  BY <1>1, <1>2, <1>3, OnlyGoes

LEMMA Turning ==
    ASSUME AdviserInv, NEW m \in Messages, Advice!Turn(m)
    PROVE  AdviserInv'
<1>1. asker[m].phase \in Before /\ session \in Advice!Rows
  BY DEF AdviserInv, AdviserTyped, Advice!Turn, Before
<1>. DEFINE row == Advice!ConsultGet(session)
            topic == IF row = Advice!NoRow THEN m ELSE row.topic
<1>2. PICK rounds \in {MaxRounds, UrgentRounds} :
        Advice!Step(m, [phase |-> "thinking", read |-> session, topic |-> topic,
                        stage |-> row.stage, rounds |-> rounds])
  BY DEF Advice!Turn
<1>. DEFINE to == [phase |-> "thinking", read |-> session, topic |-> topic,
                   stage |-> row.stage, rounds |-> rounds]
<1>3. to \in Consultant /\ FromWhatItRead(to, m)
  <2>1. CASE session.status = "active"
    <3>1. row = session /\ row # Advice!NoRow
      BY <2>1, AdviserRecords DEF Advice!ConsultGet
    <3>2. topic = session.topic /\ row.stage = session.stage
      BY <3>1
    <3>3. session.topic \in Advice!Topics /\ session.stage \in 0..MaxRounds
      BY <2>1 DEF AdviserInv, AdviserTyped, Advice!Rows
    <3>. HIDE DEF row, topic
    <3>4. to \in Consultant
      BY <1>1, <3>2, <3>3 DEF Consultant
    <3>. QED
      BY <2>1, <3>2, <3>4 DEF FromWhatItRead
  <2>2. CASE session.status # "active"
    <3>1. row = Advice!NoRow /\ topic = m
      BY <2>2 DEF Advice!ConsultGet
    <3>2. row.stage = 0 /\ topic \in Advice!Topics /\ 0 \in 0..MaxRounds
      BY <3>1, AdviserRecords, RoundsAreNat DEF Advice!Topics
    <3>3. topic = m
      BY <3>1
    <3>. HIDE DEF row, topic
    <3>4. to \in Consultant
      BY <1>1, <3>2 DEF Consultant
    <3>. QED
      BY <2>2, <3>2, <3>3, <3>4 DEF FromWhatItRead
  <2>. QED
    BY <2>1, <2>2
<1>4. to.phase = "thinking"
  OBVIOUS
<1>5. Advice!Step(m, to) /\ UNCHANGED <<session, asked, advised, aborted, noted, raced, stops>>
  BY <1>2 DEF Advice!Turn
<1>. HIDE DEF to
<1>. QED
  BY <1>1, <1>3, <1>4, <1>5, OnlyGoes

\* The consultation that a message goes on with, while nobody wrote over another.
LEMMA GoesOnWith ==
    ASSUME AdviserInv, ~raced, NEW m \in Messages, asker[m].phase = "thinking",
           session = asker[m].read
    PROVE  /\ asker[m].topic \in Advice!Topics /\ asker[m].stage \in 0..MaxRounds
           /\ asked[asker[m].topic] = asker[m].stage
           /\ advised[asker[m].topic] = 0 /\ noted[asker[m].topic] = 0
           /\ asker[m].topic \notin aborted /\ asker[m].topic \in Messages
           /\ \A n \in Messages : asker[n].phase \in Before => n = m \/ n # asker[m].topic
           /\ asker[m].topic = m \/ asker[asker[m].topic].phase \in {"noting", "done"}
<1>1. /\ asker[m].topic \in Advice!Topics /\ asker[m].stage \in 0..MaxRounds
      /\ FromWhatItRead(asker[m], m) /\ Kept
  BY DEF AdviserInv, AdviserTyped, Consultant
<1>2. CASE session.status = "active"
  <2>1. asker[m].topic = session.topic /\ asker[m].stage = session.stage
    BY <1>1, <1>2 DEF FromWhatItRead
  <2>. QED
    BY <1>1, <1>2, <2>1 DEF Kept, RowCounts, Before
<1>3. CASE session.status # "active"
  <2>1. asker[m].topic = m /\ asker[m].stage = 0
    BY <1>1, <1>3 DEF FromWhatItRead
  <2>2. Untouched(m)
    BY <1>1 DEF Kept, Before
  <2>. QED
    BY <1>1, <2>1, <2>2 DEF Untouched
<1>. QED
  BY <1>2, <1>3

LEMMA Asking ==
    ASSUME AdviserInv, NEW m \in Messages, Advice!Question(m)
    PROVE  AdviserInv'
<1>. DEFINE t == asker[m].topic
            row == [status |-> "active", topic |-> t, stage |-> asker[m].stage + 1]
<1>1. /\ asker[m] \in Consultant /\ asker[m].phase = "thinking"
      /\ asker[m].stage < asker[m].rounds
      /\ session' = row /\ raced' = (raced \/ session # asker[m].read)
      /\ asked' = [asked EXCEPT ![t] = @ + 1]
      /\ Advice!Step(m, Advice!Done) /\ UNCHANGED <<advised, aborted, noted, stops>>
  BY DEF AdviserInv, AdviserTyped, Advice!Question, Advice!ConsultSave
<1>2. /\ t \in Advice!Topics /\ asker[m].stage \in 0..MaxRounds
      /\ asker[m].stage + 1 \in 0..MaxRounds /\ asker[m].stage + 1 \in 0..(MaxRounds + 1)
  <2>1. /\ asker[m].stage \in 0..MaxRounds /\ asker[m].rounds \in {MaxRounds, UrgentRounds}
        /\ t \in Advice!Topics
    BY <1>1 DEF Consultant
  <2>. QED
    BY <1>1, <2>1, RoundsAreNat
<1>3. /\ asker' \in [Messages -> Consultant] /\ asker'[m].phase = "done"
      /\ \A n \in Messages : n # m => asker'[n] = asker[n]
      /\ \A n \in Messages : FromWhatItRead(asker'[n], n)
  <2>1. FromWhatItRead(Advice!Done, m)
    BY AdviserRecords DEF FromWhatItRead
  <2>. QED
    BY <1>1, <2>1, AdviserRecords, ConsultantGoes
<1>4. /\ asked' \in [Advice!Topics -> Nat] /\ asked'[t] = asked[t] + 1
      /\ \A x \in Advice!Topics : x # t => asked'[x] = asked[x]
      /\ \A x \in Advice!Topics : asked[x] \in Nat
  <2>1. asked \in [Advice!Topics -> Nat]
    BY DEF AdviserInv, AdviserTyped
  <2>2. asked[t] + 1 \in Nat
    BY <1>2, <2>1
  <2>. HIDE DEF t
  <2>. QED
    BY <1>1, <1>2, <2>1, <2>2
<1>5. session' \in Advice!Rows /\ session'.stage = asker[m].stage + 1 /\ session'.topic = t
  BY <1>1, <1>2 DEF Advice!Rows
<1>6. raced' \in BOOLEAN
  BY <1>1
<1>7. AdviserTyped'
  BY <1>1, <1>2, <1>3, <1>4, <1>5, <1>6 DEF AdviserInv, AdviserTyped
<1>8. ASSUME ~raced' PROVE Kept'
  <2>1. ~raced /\ session = asker[m].read
    BY <1>1, <1>8 DEF AdviserInv, AdviserTyped
  <2>2. Kept
    BY <2>1 DEF AdviserInv
  <2>3. /\ asked[t] = asker[m].stage
        /\ advised[t] = 0 /\ noted[t] = 0 /\ t \notin aborted /\ t \in Messages
        /\ \A n \in Messages : asker[n].phase \in Before => n = m \/ n # t
        /\ t = m \/ asker[t].phase \in {"noting", "done"}
    BY <1>1, <2>1, GoesOnWith
  <2>. HIDE DEF t
  <2>4. \A n \in Messages : asker'[n].phase \in Before => Untouched(n)'
    <3>. SUFFICES ASSUME NEW n \in Messages, asker'[n].phase \in Before PROVE Untouched(n)'
      OBVIOUS
    <3>1. n # m
      BY <1>3 DEF Before
    <3>2. n # t /\ Untouched(n) /\ n \in Advice!Topics
      BY <1>3, <2>2, <2>3, <3>1 DEF Kept, Advice!Topics
    <3>. QED
      BY <1>1, <1>4, <3>2 DEF Untouched
  <2>5. RowCounts'
    <3>1. asker'[t].phase \in {"noting", "done"}
      BY <1>3, <2>3
    <3>2. asked'[t] = session'.stage
      BY <1>4, <1>5, <2>3
    <3>. QED
      BY <1>1, <1>5, <2>3, <3>1, <3>2 DEF RowCounts
  <2>6. ToNote'
    BY <1>1, <1>3, <2>2 DEF Kept, ToNote
  <2>7. \A x \in Advice!Topics :
         /\ asked'[x] <= MaxRounds
         /\ advised'[x] <= 1 /\ noted'[x] <= advised'[x]
         /\ advised'[x] = 1 => asked'[x] >= UrgentRounds /\ x \notin aborted'
    <3>. SUFFICES ASSUME NEW x \in Advice!Topics
                  PROVE  /\ asked'[x] <= MaxRounds
                         /\ advised'[x] <= 1 /\ noted'[x] <= advised'[x]
                         /\ advised'[x] = 1 => asked'[x] >= UrgentRounds /\ x \notin aborted'
      OBVIOUS
    <3>1. CASE x = t
      <4>1. asked'[t] <= MaxRounds /\ advised'[t] = 0 /\ noted'[t] = 0
        BY <1>1, <1>2, <1>4, <2>3
      <4>. QED
        BY <3>1, <4>1
    <3>2. CASE x # t
      BY <1>1, <1>4, <2>2, <3>2 DEF Kept
    <3>. QED
      BY <3>1, <3>2
  <2>. QED
    BY <2>4, <2>5, <2>6, <2>7 DEF Kept
<1>. QED
  BY <1>3, <1>7, <1>8 DEF AdviserInv

LEMMA Advising ==
    ASSUME AdviserInv, NEW m \in Messages, Advice!Advise(m)
    PROVE  AdviserInv'
<1>. DEFINE t == asker[m].topic
            row == [status |-> "done", topic |-> t, stage |-> asker[m].stage + 1]
            to == [asker[m] EXCEPT !.phase = "noting"]
<1>1. /\ asker[m] \in Consultant /\ asker[m].phase = "thinking"
      /\ asker[m].stage >= asker[m].rounds
      /\ session' = row /\ raced' = (raced \/ session # asker[m].read)
      /\ advised' = [advised EXCEPT ![t] = @ + 1]
      /\ Advice!Step(m, to) /\ UNCHANGED <<asked, aborted, noted, stops>>
  BY DEF AdviserInv, AdviserTyped, Advice!Advise, Advice!ConsultSave
<1>2. /\ t \in Advice!Topics /\ asker[m].stage \in 0..MaxRounds
      /\ asker[m].stage + 1 \in 0..(MaxRounds + 1) /\ asker[m].stage >= UrgentRounds
  <2>1. /\ asker[m].stage \in 0..MaxRounds /\ asker[m].rounds \in {MaxRounds, UrgentRounds}
        /\ t \in Advice!Topics
    BY <1>1 DEF Consultant
  <2>. QED
    BY <1>1, <2>1, RoundsAreNat
<1>3. to \in Consultant /\ to.phase = "noting" /\ to.topic = t /\ FromWhatItRead(to, m)
  <2>1. to \in Consultant /\ to.phase = "noting" /\ to.topic = t
    BY <1>1 DEF Consultant
  <2>. HIDE DEF to
  <2>. QED
    BY <2>1 DEF FromWhatItRead
<1>4. /\ asker' \in [Messages -> Consultant]
      /\ asker'[m].phase = "noting" /\ asker'[m].topic = t
      /\ \A n \in Messages : n # m => asker'[n] = asker[n]
      /\ \A n \in Messages : FromWhatItRead(asker'[n], n)
  <2>. HIDE DEF to, t
  <2>. QED
    BY <1>1, <1>3, ConsultantGoes
<1>5. /\ advised' \in [Advice!Topics -> Nat] /\ advised'[t] = advised[t] + 1
      /\ \A x \in Advice!Topics : x # t => advised'[x] = advised[x]
  <2>1. advised \in [Advice!Topics -> Nat]
    BY DEF AdviserInv, AdviserTyped
  <2>2. advised[t] + 1 \in Nat
    BY <1>2, <2>1
  <2>. HIDE DEF t
  <2>. QED
    BY <1>1, <1>2, <2>1, <2>2
<1>6. session' \in Advice!Rows /\ session'.status = "done" /\ raced' \in BOOLEAN
  BY <1>1, <1>2 DEF Advice!Rows
<1>7. AdviserTyped'
  BY <1>1, <1>4, <1>5, <1>6 DEF AdviserInv, AdviserTyped
<1>8. ASSUME ~raced' PROVE Kept'
  <2>1. ~raced /\ session = asker[m].read
    BY <1>1, <1>8 DEF AdviserInv, AdviserTyped
  <2>2. Kept
    BY <2>1 DEF AdviserInv
  <2>3. /\ asked[t] = asker[m].stage
        /\ advised[t] = 0 /\ noted[t] = 0 /\ t \notin aborted
        /\ \A n \in Messages : asker[n].phase \in Before => n = m \/ n # t
    BY <1>1, <2>1, GoesOnWith
  <2>. HIDE DEF t
  <2>4. \A n \in Messages : asker'[n].phase \in Before => Untouched(n)'
    <3>. SUFFICES ASSUME NEW n \in Messages, asker'[n].phase \in Before PROVE Untouched(n)'
      OBVIOUS
    <3>1. n # m
      BY <1>4 DEF Before
    <3>2. n # t /\ Untouched(n) /\ n \in Advice!Topics
      BY <1>4, <2>2, <2>3, <3>1 DEF Kept, Advice!Topics
    <3>. QED
      BY <1>1, <1>5, <3>2 DEF Untouched
  <2>5. RowCounts'
    BY <1>6 DEF RowCounts
  <2>6. advised'[t] = 1 /\ noted'[t] = 0
    BY <1>1, <1>5, <2>3
  <2>7. \A n \in Messages : n # m /\ asker'[n].phase = "noting" => asker'[n].topic # t
    BY <1>4, <2>2, <2>3 DEF Kept, ToNote
  <2>8. ToNote'
    <3>1. \A n \in Messages : asker'[n].phase = "noting" =>
            advised'[asker'[n].topic] = 1 /\ noted'[asker'[n].topic] = 0
      <4>. SUFFICES ASSUME NEW n \in Messages, asker'[n].phase = "noting"
                    PROVE  advised'[asker'[n].topic] = 1 /\ noted'[asker'[n].topic] = 0
        OBVIOUS
      <4>1. CASE n = m
        BY <1>4, <2>6, <4>1
      <4>2. CASE n # m
        <5>1. asker'[n].topic # t /\ asker'[n].topic \in Advice!Topics
          BY <1>4, <2>7, <4>2 DEF Consultant
        <5>. QED
          BY <1>1, <1>4, <1>5, <2>2, <4>2, <5>1 DEF Kept, ToNote
      <4>. QED
        BY <4>1, <4>2
    <3>2. \A n, k \in Messages :
           asker'[n].phase = "noting" /\ asker'[k].phase = "noting" /\ asker'[n].topic = asker'[k].topic
             => n = k
      BY <1>4, <2>2, <2>7 DEF Kept, ToNote
    <3>. QED
      BY <3>1, <3>2 DEF ToNote
  <2>9. \A x \in Advice!Topics :
         /\ asked'[x] <= MaxRounds
         /\ advised'[x] <= 1 /\ noted'[x] <= advised'[x]
         /\ advised'[x] = 1 => asked'[x] >= UrgentRounds /\ x \notin aborted'
    <3>. SUFFICES ASSUME NEW x \in Advice!Topics
                  PROVE  /\ asked'[x] <= MaxRounds
                         /\ advised'[x] <= 1 /\ noted'[x] <= advised'[x]
                         /\ advised'[x] = 1 => asked'[x] >= UrgentRounds /\ x \notin aborted'
      OBVIOUS
    <3>1. CASE x = t
      BY <1>1, <1>2, <2>2, <2>3, <2>6, <3>1 DEF Kept
    <3>2. CASE x # t
      BY <1>1, <1>5, <2>2, <3>2 DEF Kept
    <3>. QED
      BY <3>1, <3>2
  <2>. QED
    BY <2>4, <2>5, <2>8, <2>9 DEF Kept
<1>. QED
  BY <1>4, <1>7, <1>8 DEF AdviserInv

LEMMA Ending ==
    ASSUME AdviserInv, NEW m \in Messages, Advice!End(m)
    PROVE  AdviserInv'
<1>. DEFINE read == asker[m].read
<1>1. /\ asker[m] \in Consultant /\ asker[m].phase = "ending" /\ read.status = "active"
      /\ session' = [read EXCEPT !.status = "done"]
      /\ raced' = (raced \/ session # read)
      /\ aborted' = aborted \cup {read.topic}
      /\ Advice!Step(m, Advice!Done) /\ UNCHANGED <<asked, advised, noted, stops>>
  BY DEF AdviserInv, AdviserTyped, FromWhatItRead, Advice!End, Advice!ConsultSave
<1>2. /\ read \in Advice!Rows /\ read.topic \in Advice!Topics
      /\ session' \in Advice!Rows /\ session'.status = "done" /\ raced' \in BOOLEAN
  <2>1. read \in Advice!Rows
    BY <1>1 DEF Consultant
  <2>. HIDE DEF read
  <2>. QED
    BY <1>1, <2>1 DEF Advice!Rows
<1>3. /\ asker' \in [Messages -> Consultant] /\ asker'[m].phase = "done"
      /\ \A n \in Messages : n # m => asker'[n] = asker[n]
      /\ \A n \in Messages : FromWhatItRead(asker'[n], n)
  <2>1. FromWhatItRead(Advice!Done, m)
    BY AdviserRecords DEF FromWhatItRead
  <2>. QED
    BY <1>1, <2>1, AdviserRecords, ConsultantGoes
<1>4. AdviserTyped'
  BY <1>1, <1>2, <1>3 DEF AdviserInv, AdviserTyped
<1>5. ASSUME ~raced' PROVE Kept'
  <2>1. ~raced /\ session = read
    BY <1>1, <1>5 DEF AdviserInv, AdviserTyped
  <2>2. Kept
    BY <2>1 DEF AdviserInv
  <2>3. advised[read.topic] = 0 /\ asker[read.topic].phase \in {"noting", "done"}
    BY <1>1, <2>1, <2>2 DEF Kept, RowCounts
  <2>. HIDE DEF read
  <2>4. \A n \in Messages : asker'[n].phase \in Before => Untouched(n)'
    <3>. SUFFICES ASSUME NEW n \in Messages, asker'[n].phase \in Before PROVE Untouched(n)'
      OBVIOUS
    <3>1. n # m
      BY <1>3 DEF Before
    <3>2. n # read.topic /\ Untouched(n)
      BY <1>3, <2>2, <2>3, <3>1 DEF Kept, Before
    <3>. QED
      BY <1>1, <3>2 DEF Untouched
  <2>5. RowCounts'
    BY <1>2 DEF RowCounts
  <2>6. ToNote'
    BY <1>1, <1>3, <2>2 DEF Kept, ToNote
  <2>7. \A x \in Advice!Topics :
         /\ asked'[x] <= MaxRounds
         /\ advised'[x] <= 1 /\ noted'[x] <= advised'[x]
         /\ advised'[x] = 1 => asked'[x] >= UrgentRounds /\ x \notin aborted'
    BY <1>1, <2>2, <2>3 DEF Kept
  <2>. QED
    BY <2>4, <2>5, <2>6, <2>7 DEF Kept
<1>. QED
  BY <1>3, <1>4, <1>5 DEF AdviserInv

LEMMA NotingAdvice ==
    ASSUME AdviserInv, NEW m \in Messages, Advice!Note(m)
    PROVE  AdviserInv'
<1>. DEFINE t == asker[m].topic
<1>1. /\ asker[m] \in Consultant /\ asker[m].phase = "noting" /\ t \in Advice!Topics
      /\ noted' = [noted EXCEPT ![t] = @ + 1]
      /\ Advice!Step(m, Advice!Done)
      /\ UNCHANGED <<session, asked, advised, aborted, raced, stops>>
  BY DEF AdviserInv, AdviserTyped, Consultant, Advice!Note
<1>2. /\ asker' \in [Messages -> Consultant] /\ asker'[m].phase = "done"
      /\ \A n \in Messages : n # m => asker'[n] = asker[n]
      /\ \A n \in Messages : FromWhatItRead(asker'[n], n)
  <2>1. FromWhatItRead(Advice!Done, m)
    BY AdviserRecords DEF FromWhatItRead
  <2>. QED
    BY <1>1, <2>1, AdviserRecords, ConsultantGoes
<1>3. /\ noted' \in [Advice!Topics -> Nat] /\ noted'[t] = noted[t] + 1
      /\ \A x \in Advice!Topics : x # t => noted'[x] = noted[x]
  <2>1. noted \in [Advice!Topics -> Nat]
    BY DEF AdviserInv, AdviserTyped
  <2>2. noted[t] + 1 \in Nat
    BY <1>1, <2>1
  <2>. HIDE DEF t
  <2>. QED
    BY <1>1, <2>1, <2>2
<1>4. AdviserTyped'
  BY <1>1, <1>2, <1>3 DEF AdviserInv, AdviserTyped
<1>5. ASSUME ~raced' PROVE Kept'
  <2>1. Kept
    BY <1>1, <1>5 DEF AdviserInv
  <2>2. advised[t] = 1 /\ noted[t] = 0
    BY <1>1, <2>1 DEF Kept, ToNote
  <2>3. \A n \in Messages : n # m /\ asker'[n].phase = "noting" => asker'[n].topic # t
    BY <1>1, <1>2, <2>1 DEF Kept, ToNote
  <2>. HIDE DEF t
  <2>4. \A n \in Messages : asker'[n].phase \in Before => Untouched(n)'
    <3>. SUFFICES ASSUME NEW n \in Messages, asker'[n].phase \in Before PROVE Untouched(n)'
      OBVIOUS
    <3>1. n # m
      BY <1>2 DEF Before
    <3>2. Untouched(n) /\ n \in Advice!Topics
      BY <1>2, <2>1, <3>1 DEF Kept, Advice!Topics
    <3>3. n # t
      BY <2>2, <3>2 DEF Untouched
    <3>. QED
      BY <1>1, <1>3, <3>2, <3>3 DEF Untouched
  <2>5. RowCounts'
    <3>. SUFFICES ASSUME session'.status = "active" PROVE RowCounts'
      BY DEF RowCounts
    <3>1. /\ session.topic \in Messages /\ asker[session.topic].phase \in {"noting", "done"}
          /\ asked[session.topic] = session.stage
          /\ advised[session.topic] = 0 /\ noted[session.topic] = 0 /\ session.topic \notin aborted
      BY <1>1, <2>1 DEF Kept, RowCounts
    <3>2. session.topic # t /\ session.topic \in Advice!Topics
      BY <2>2, <3>1 DEF Advice!Topics
    <3>3. asker'[session.topic].phase \in {"noting", "done"}
      BY <1>2, <3>1
    <3>. QED
      BY <1>1, <1>3, <3>1, <3>2, <3>3 DEF RowCounts
  <2>6. ToNote'
    <3>1. \A n \in Messages : asker'[n].phase = "noting" =>
            advised'[asker'[n].topic] = 1 /\ noted'[asker'[n].topic] = 0
      <4>. SUFFICES ASSUME NEW n \in Messages, asker'[n].phase = "noting"
                    PROVE  advised'[asker'[n].topic] = 1 /\ noted'[asker'[n].topic] = 0
        OBVIOUS
      <4>1. n # m
        BY <1>2
      <4>2. asker'[n].topic # t /\ asker'[n].topic \in Advice!Topics
        BY <1>2, <2>3, <4>1 DEF Consultant
      <4>. QED
        BY <1>1, <1>2, <1>3, <2>1, <4>1, <4>2 DEF Kept, ToNote
    <3>2. \A n, k \in Messages :
           asker'[n].phase = "noting" /\ asker'[k].phase = "noting" /\ asker'[n].topic = asker'[k].topic
             => n = k
      BY <1>2, <2>1 DEF Kept, ToNote
    <3>. QED
      BY <3>1, <3>2 DEF ToNote
  <2>7. \A x \in Advice!Topics :
         /\ asked'[x] <= MaxRounds
         /\ advised'[x] <= 1 /\ noted'[x] <= advised'[x]
         /\ advised'[x] = 1 => asked'[x] >= UrgentRounds /\ x \notin aborted'
    <3>. SUFFICES ASSUME NEW x \in Advice!Topics
                  PROVE  /\ asked'[x] <= MaxRounds
                         /\ advised'[x] <= 1 /\ noted'[x] <= advised'[x]
                         /\ advised'[x] = 1 => asked'[x] >= UrgentRounds /\ x \notin aborted'
      OBVIOUS
    <3>1. CASE x = t
      <4>1. noted'[x] = 1 /\ advised'[x] = 1
        BY <1>1, <1>3, <2>2, <3>1
      <4>. QED
        BY <1>1, <2>1, <2>2, <3>1, <4>1 DEF Kept
    <3>2. CASE x # t
      BY <1>1, <1>3, <2>1, <3>2 DEF Kept
    <3>. QED
      BY <3>1, <3>2
  <2>. QED
    BY <2>4, <2>5, <2>6, <2>7 DEF Kept
<1>. QED
  BY <1>2, <1>4, <1>5 DEF AdviserInv

LEMMA AdviserRestarting == AdviserInv /\ Advice!Restart => AdviserInv'
<1>. SUFFICES ASSUME AdviserInv, Advice!Restart PROVE AdviserInv'
  OBVIOUS
<1>1. /\ stops' \in 0..MaxStops
      /\ UNCHANGED <<session, asked, advised, aborted, noted, raced>>
      /\ asker' = [m \in Messages |-> IF asker[m].phase = "unsent" THEN Advice!Unsent
                                      ELSE Advice!Done]
  BY RoundsAreNat DEF AdviserInv, AdviserTyped, Advice!Restart
<1>2. /\ asker' \in [Messages -> Consultant]
      /\ \A m \in Messages : asker'[m].phase = IF asker[m].phase = "unsent" THEN "unsent" ELSE "done"
  BY <1>1, AdviserRecords
<1>3. AdviserTyped'
  BY <1>1, <1>2 DEF AdviserInv, AdviserTyped
<1>4. \A m \in Messages : FromWhatItRead(asker'[m], m)
  BY <1>2 DEF FromWhatItRead
<1>5. ASSUME ~raced' PROVE Kept'
  <2>1. Kept
    BY <1>1, <1>5 DEF AdviserInv
  <2>2. \A n \in Messages : asker'[n].phase \in Before => Untouched(n)'
    BY <1>1, <1>2, <2>1 DEF Kept, Untouched, Before
  <2>3. RowCounts'
    BY <1>1, <1>2, <2>1 DEF Kept, RowCounts
  <2>4. ToNote'
    BY <1>2 DEF ToNote
  <2>. QED
    BY <1>1, <2>1, <2>2, <2>3, <2>4 DEF Kept
<1>. QED
  BY <1>3, <1>4, <1>5 DEF AdviserInv

LEMMA AdviserStep == AdviserInv /\ Advice!Next => AdviserInv'
BY Deciding, Aborting, Ending, Turning, Asking, Advising, NotingAdvice, AdviserRestarting
   DEF Advice!Next

-----------------------------------------------------------------------------
(* Games *)

IdleGames == [type : {"none", "idiom", "quiz"}, active : {FALSE}]
IdiomGames == [type : {"idiom"}, active : BOOLEAN, last : Chars]
QuizGames == [type : {"quiz"}, active : BOOLEAN, qindex : Nat, answer : Letters]

\* The game of a chat has the fields of its kind.
GameShaped ==
    /\ idioms \subseteq Play!Words
    /\ quiz \in [1..QuizSize -> Letters]
    /\ game \in IdleGames \cup IdiomGames \cup QuizGames
    /\ points \in [{"idiom", "quiz"} -> 0..MaxPoints]

GamesInv == GameShaped /\ Play!GameCanGoOn

LEMMA GamesConstants == QuizSize \in Nat /\ QuizSize > 0 /\ MaxPoints \in Nat
BY ConstantsAssumption DEF Play!GamesAssumption

LEMMA GamesTyped == GamesInv => Play!TypeOK
<1>1. ASSUME game \in IdleGames \cup IdiomGames \cup QuizGames
      PROVE  game.type \in {"none", "idiom", "quiz"} /\ game.active \in BOOLEAN
  <2>1. CASE game \in IdleGames
    BY <2>1 DEF IdleGames
  <2>2. CASE game \in IdiomGames
    BY <2>2 DEF IdiomGames
  <2>3. CASE game \in QuizGames
    BY <2>3 DEF QuizGames
  <2>. QED
    BY <1>1, <2>1, <2>2, <2>3
<1>. QED
  BY <1>1 DEF GamesInv, GameShaped, Play!TypeOK

LEMMA GamesStart == Play!Init => GamesInv
<1>. SUFFICES ASSUME Play!Init PROVE GamesInv
  OBVIOUS
<1>1. game \in IdleGames /\ ~game.active
  BY DEF Play!Init, Play!NoGame, IdleGames
<1>2. points \in [{"idiom", "quiz"} -> 0..MaxPoints]
  BY GamesConstants DEF Play!Init
<1>. QED
  BY <1>1, <1>2 DEF Play!Init, GamesInv, GameShaped, Play!GameCanGoOn, Play!Playing

\* A word that the game takes is one from which another goes on.
LEMMA ChainGoesOn ==
    ASSUME idioms \subseteq Play!Words, NEW w \in idioms, Play!Follow(w) # {}
    PROVE  /\ Play!Idiom(Play!Final(w)) \in IdiomGames
           /\ \E x \in idioms : Play!First(x) = Play!Final(w)
<1>1. Play!Final(w) \in Chars
  BY DEF Play!Words, Play!Final
<1>2. \E x \in idioms : Play!First(x) = Play!Final(w)
  BY DEF Play!Follow
<1>. QED
  BY <1>1, <1>2 DEF Play!Idiom, IdiomGames

\* The step of a game that is over, or stopped.
LEMMA GameOver ==
    ASSUME GamesInv, UNCHANGED <<idioms, quiz>>, points' \in [{"idiom", "quiz"} -> 0..MaxPoints],
           game' \in IdleGames \cup IdiomGames \cup QuizGames, ~game'.active
    PROVE  GamesInv'
BY DEF GamesInv, GameShaped, Play!GameCanGoOn, Play!Playing

LEMMA GamesStep == GamesInv /\ Play!Next => GamesInv'
<1>. SUFFICES ASSUME GamesInv, Play!Next PROVE GamesInv'
  OBVIOUS
<1>. USE DEF GamesInv, GameShaped
<1>1. \A t \in {"idiom", "quiz"} : Play!Score(t) => points' \in [{"idiom", "quiz"} -> 0..MaxPoints]
  BY GamesConstants DEF Play!Score
<1>2. CASE Play!StartIdiom
  <2>1. PICK w \in idioms : Play!Follow(w) # {} /\ game' = Play!Idiom(Play!Final(w))
    BY <1>2 DEF Play!StartIdiom
  <2>2. game' \in IdiomGames /\ \E x \in idioms : Play!First(x) = Play!Final(w)
    BY <2>1, ChainGoesOn
  <2>3. game'.type = "idiom" /\ game'.last = Play!Final(w)
    BY <2>1 DEF Play!Idiom
  <2>. QED
    BY <1>2, <2>2, <2>3 DEF Play!StartIdiom, Play!GameCanGoOn, Play!Playing
<1>3. CASE Play!StartQuiz
  <2>1. 1 \in 1..QuizSize
    BY GamesConstants
  <2>2. game' \in QuizGames /\ game'.type = "quiz" /\ game'.qindex = 1 /\ game'.answer = quiz[1]
    BY <1>3, <2>1 DEF Play!StartQuiz, Play!Question, QuizGames
  <2>. QED
    BY <1>3, <2>1, <2>2 DEF Play!StartQuiz, Play!GameCanGoOn, Play!Playing
<1>4. ASSUME NEW w \in Play!Words, Play!GuessIdiom(w) PROVE GamesInv'
  <2>1. game \in IdiomGames /\ points' \in [{"idiom", "quiz"} -> 0..MaxPoints]
    <3>1. game \notin IdleGames /\ game \notin QuizGames
      BY <1>4 DEF Play!GuessIdiom, Play!Playing, IdleGames, QuizGames
    <3>. QED
      BY <1>1, <1>4, <3>1 DEF Play!GuessIdiom
  <2>2. CASE Play!BotWords(w) = {}
    <3>1. game' = [game EXCEPT !.active = FALSE]
      BY <1>4, <2>2 DEF Play!GuessIdiom
    <3>2. game' \in IdiomGames /\ ~game'.active
      BY <2>1, <3>1 DEF IdiomGames
    <3>. QED
      BY <1>4, <2>1, <3>2, GameOver DEF Play!GuessIdiom
  <2>3. CASE Play!BotWords(w) # {}
    <3>1. PICK x \in Play!BotWords(w) : game' = [game EXCEPT !.last = Play!Final(x)]
      BY <1>4, <2>3 DEF Play!GuessIdiom
    <3>2. x \in idioms /\ Play!Follow(x) # {}
      BY DEF Play!BotWords, Play!Follow
    <3>3. /\ Play!Idiom(Play!Final(x)) \in IdiomGames
          /\ \E y \in idioms : Play!First(y) = Play!Final(x)
      BY <3>2, ChainGoesOn
    <3>4. game' \in IdiomGames /\ game'.type = "idiom" /\ game'.last = Play!Final(x)
      BY <2>1, <3>1, <3>3 DEF IdiomGames, Play!Idiom
    <3>. QED
      BY <1>4, <2>1, <3>3, <3>4 DEF Play!GuessIdiom, Play!GameCanGoOn, Play!Playing
  <2>. QED
    BY <2>2, <2>3
<1>5. ASSUME NEW l \in Letters, Play!GuessQuiz(l) PROVE GamesInv'
  <2>1. /\ game \in QuizGames /\ game.qindex \in 1..QuizSize
        /\ points' \in [{"idiom", "quiz"} -> 0..MaxPoints]
    <3>1. game \notin IdleGames /\ game \notin IdiomGames
      BY <1>5 DEF Play!GuessQuiz, Play!Playing, IdleGames, IdiomGames
    <3>. QED
      BY <1>1, <1>5, <3>1 DEF Play!GuessQuiz, Play!GameCanGoOn
  <2>2. CASE game.qindex = QuizSize
    <3>1. game' = [game EXCEPT !.qindex = @ + 1, !.active = FALSE]
      BY <1>5, <2>2 DEF Play!GuessQuiz
    <3>2. game' \in QuizGames /\ ~game'.active
      <4>1. game.qindex + 1 \in Nat
        BY <2>1, GamesConstants
      <4>2. game' = [game EXCEPT !.qindex = game.qindex + 1, !.active = FALSE]
        BY <3>1
      <4>. HIDE DEF GamesInv
      <4>. QED
        BY <2>1, <4>1, <4>2 DEF QuizGames
    <3>3. UNCHANGED <<idioms, quiz>>
      BY <1>5 DEF Play!GuessQuiz
    <3>. QED
      BY <2>1, <3>2, <3>3, GameOver
  <2>3. CASE game.qindex # QuizSize
    <3>1. game.qindex + 1 \in 1..QuizSize
      BY <2>1, <2>3, GamesConstants
    <3>2. /\ game' \in QuizGames /\ game'.type = "quiz" /\ game'.qindex = game.qindex + 1
          /\ game'.answer = quiz[game.qindex + 1]
      BY <1>5, <2>3, <3>1 DEF Play!GuessQuiz, Play!Question, QuizGames
    <3>. QED
      BY <1>5, <2>1, <3>1, <3>2 DEF Play!GuessQuiz, Play!GameCanGoOn, Play!Playing
  <2>. QED
    BY <2>2, <2>3
<1>6. CASE Play!Quit
  <2>1. game' = [game EXCEPT !.active = FALSE]
    BY <1>6 DEF Play!Quit
  <2>2. CASE game \in IdleGames
    <3>1. game.active = FALSE
      BY <2>2 DEF IdleGames
    <3>. QED
      BY <1>6, <3>1 DEF Play!Quit
  <2>3. CASE game \in IdiomGames
    <3>1. game' \in IdiomGames /\ ~game'.active
      BY <2>1, <2>3 DEF IdiomGames
    <3>. QED
      BY <1>6, <3>1, GameOver DEF Play!Quit
  <2>4. CASE game \in QuizGames
    <3>1. game' \in QuizGames /\ ~game'.active
      BY <2>1, <2>4 DEF QuizGames
    <3>. QED
      BY <1>6, <3>1, GameOver DEF Play!Quit
  <2>. QED
    BY <2>2, <2>3, <2>4
<1>7. ASSUME NEW t \in {"idiom", "quiz"}, Play!Stop(t) PROVE GamesInv'
  <2>1. game' \in IdleGames /\ ~game'.active
    BY <1>7 DEF Play!Stop, Play!Over, IdleGames
  <2>. QED
    BY <1>7, <2>1, GameOver DEF Play!Stop
<1>8. CASE Play!Restart
  <2>1. game' \in IdleGames /\ ~game'.active
    BY <1>8 DEF Play!Restart, Play!NoGame, IdleGames
  <2>. QED
    BY <1>8, <2>1, GameOver DEF Play!Restart
<1>. QED
  BY <1>2, <1>3, <1>4, <1>5, <1>6, <1>7, <1>8 DEF Play!Next

-----------------------------------------------------------------------------
(* Daily life: one of the components goes on, the others stay. *)

DailyInv ==
    /\ focus \in {"items", "position", "chat", "adviser", "games"}
    /\ focus = "items" => ItemsInv
    /\ focus = "position" => PositionInv
    /\ focus = "chat" => ChatInv
    /\ focus = "adviser" => AdviserInv
    /\ focus = "games" => GamesInv

LEMMA ItemsStay == ItemsInv /\ UNCHANGED vars => ItemsInv'
BY DEF vars, itemVars, ItemsInv, ItemsTyped, Counted, ThingsKept, ThreadsApart, RowsAreFresh,
       FindsAreLogged, LogIsFollowed

LEMMA PositionStays == PositionInv /\ UNCHANGED vars => PositionInv'
BY DEF vars, positionVars, PositionInv, PositionTyped, TownLogged, HouseLogged

LEMMA ChatStays == ChatInv /\ UNCHANGED vars => ChatInv'
BY DEF vars, chatVars, ChatInv, ChatTyped, CountsAreLow, BuffersAreOwn, EachInItsPlace

LEMMA AdviserStays == AdviserInv /\ UNCHANGED vars => AdviserInv'
BY DEF vars, adviserVars, AdviserInv, AdviserTyped, Kept, Untouched, RowCounts, ToNote

LEMMA GamesStay == GamesInv /\ UNCHANGED vars => GamesInv'
BY DEF vars, gameVars, GamesInv, GameShaped, Play!GameCanGoOn, Play!Playing

LEMMA DailyLifeStarts == Init => DailyInv
BY ItemsStart, PositionStart, ChatStart, AdviserStart, GamesStart DEF Init, DailyInv

LEMMA DailyLifeGoesOn == DailyInv /\ [Next]_vars => DailyInv'
<1>. SUFFICES ASSUME DailyInv, [Next]_vars PROVE DailyInv'
  OBVIOUS
<1>1. CASE NextItems
  BY <1>1, ItemsStep DEF DailyInv, NextItems
<1>2. CASE NextPosition
  BY <1>2, PositionStep DEF DailyInv, NextPosition
<1>3. CASE NextChat
  BY <1>3, ChatStep DEF DailyInv, NextChat
<1>4. CASE NextAdviser
  BY <1>4, AdviserStep DEF DailyInv, NextAdviser
<1>5. CASE NextGames
  BY <1>5, GamesStep DEF DailyInv, NextGames
<1>6. CASE UNCHANGED vars
  <2>1. focus' = focus
    BY <1>6 DEF vars
  <2>. QED
    BY <1>6, <2>1, ItemsStay, PositionStays, ChatStays, AdviserStays, GamesStay DEF DailyInv
<1>. QED
  BY <1>1, <1>2, <1>3, <1>4, <1>5, <1>6 DEF Next

LEMMA DailyLifeHolds == Spec => []DailyInv
BY DailyLifeStarts, DailyLifeGoesOn, PTL DEF Spec

\* The components have the states that their tables and dicts can have: no
\* quantity is negative and no message is counted twice.
THEOREM DailyLifeIsTyped == Spec => []TypeOK
<1>1. DailyInv => TypeOK
  BY ItemsAreRight, PositionIsRight, TextsTyped, AdviserTypedOK, GamesTyped DEF DailyInv, TypeOK
<1>. QED
  BY <1>1, DailyLifeHolds, PTL

\* For any things, places and threads: while no value is written over a change
\* and no event is lost in a restart, the inventory has a thing where the log of
\* item_events says it is; and always what is used up is not counted as there.
\* For any schedule, places, rooms and callers: while no caller writes over
\* another's move and no event is lost in a restart, she is where the log last
\* saw her arrive; and always she is due on the way when a slot of the place begins.
THEOREM PlacesAreLogged == Spec => []PlacesAgree
<1>1. DailyInv => PlacesAgree
  BY ItemsAreRight, PositionIsRight DEF DailyInv, PlacesAgree
<1>. QED
  BY <1>1, DailyLifeHolds, PTL

\* For any texts and members, however the tasks overlap and restarts come in
\* between: every answered text is in one place (the buffer of after_chat).
THEOREM TextsAreAccounted == Spec => []TextsAccounted
<1>1. DailyInv => TextsAccounted
  BY TextsCounted DEF DailyInv, TextsAccounted
<1>. QED
  BY <1>1, DailyLifeHolds, PTL

\* No process starts two extractions within an hour, whatever the count says
\* that is read before an await and written after it (_last_group_extract).
THEOREM ExtractionsAreSpaced == Spec => ExtractionsSpaced
<1>1. DailyInv /\ [Next]_vars =>
        [started' # started /\ started # Chat!Never /\ started' # Chat!Never
           => clock - started >= Hour]_(Chat!vars)
  <2>. SUFFICES ASSUME DailyInv, [Next]_vars, started' # started, started # Chat!Never,
                       started' # Chat!Never
                PROVE  clock - started >= Hour
    OBVIOUS
  <2>1. NextChat
    BY DEF Next, NextItems, NextPosition, NextAdviser, NextGames, vars, chatVars
  <2>. QED
    BY <2>1, SpacedStep DEF DailyInv, NextChat
<1>. QED
  BY <1>1, DailyLifeHolds, PTL DEF Spec, ExtractionsSpaced, Chat!ExtractionsSpaced

\* For any rounds, messages, idioms and questions: a consultation keeps its
\* rounds and advises once while nobody writes over another's turn, and the game
\* under way can go on (consult_turn, _best_bot_word, quiz_guess).
THEOREM DialoguesCanGoOn == Spec => []DialoguesGoOn
<1>1. DailyInv => DialoguesGoOn
  BY AdviserTypedOK, GamesTyped DEF DailyInv, DialoguesGoOn, GamesInv
<1>. QED
  BY <1>1, DailyLifeHolds, PTL
===============================================================================
