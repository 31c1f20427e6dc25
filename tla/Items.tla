-------------------------------- MODULE Items --------------------------------
(***************************************************************************)
(* The things at home (memory/living.py): one kv value with a row per      *)
(* thing, which every operation reads and writes whole, and the log        *)
(* item_events, from which item_position_at says where a thing is. Agent   *)
(* threads take, consume, give and move (_apply_delta, sync_from_text),    *)
(* the backfill lets things expire, get lost and be repaired, the search   *)
(* finds them or gives them up.                                            *)
(*                                                                         *)
(* A thread is                                                             *)
(*   idle                                                                  *)
(*   loaded     the value is read                                          *)
(*   noted      a find: its event is added, the value is to be read again  *)
(*   reloaded   a find: the value is read again                            *)
(*   saved      the value is written, its event is to be added             *)
(* A place is a container; the room of a row follows from it (repair).     *)
(***************************************************************************)
EXTENDS Integers, FiniteSets, FiniteSetsExt

CONSTANTS
    Things,     \* names of things
    Furniture,  \* containers of the layout
    Hideouts,   \* where daily_tick loses things; not all are furniture
    Table, Box, \* where a new gift is put, and where when the table is full
    Capacity,   \* _container_capacity
    MaxQty,     \* bound: pieces of a thing
    Threads,    \* agent threads, the backfill, inspection_loop
    MaxOps,     \* bound: operations
    MaxStops    \* bound: process restarts

VARIABLES
    inv,     \* living_items: per thing its quantity, place and status
    at,      \* item_position_at: the place of the last position event
    thread,  \* per thread: phase, operation, value read
    raced,   \* TRUE once a value was written over a change, or two operations
             \* on one thing overlapped
    unlogged,\* TRUE once a restart came between a write and its event
    ops,     \* operations so far
    stops    \* restarts so far

vars == <<inv, at, thread, raced, unlogged, ops, stops>>

Spots == Furniture \cup Hideouts
Nowhere == "nowhere"
Lost == "lost"
\* There are things, the table and the box are furniture, and no place is called
\* as what the log says of a thing without one.
ItemsAssumption ==
    /\ Things # {} /\ {Table, Box} \subseteq Furniture
    /\ {Nowhere, Lost} \cap Spots = {}
    /\ MaxQty \in Nat \ {0} /\ {MaxOps, MaxStops} \subseteq Nat

NoRow == [qty |-> 0, place |-> Table, status |-> "none"]
Statuses == {"none", "has", "gone", "lost"}
Inventories == [Things -> [qty : 0..MaxQty, place : Spots, status : Statuses]]
AtHome == [qty |-> 1, place |-> Table, status |-> "has"]
NoRows == [t \in Things |-> NoRow]

\* Operations, each with the thing and the place it is about.
\* empty is take with 999, of a text that says that it is used up.
OpTypes == {"take", "empty", "consume", "give", "move", "expire", "lose", "fail", "repair",
            "find", "see"}
Kinds == {k \in [type : OpTypes, thing : Things, to : Spots] :
            /\ k.type \notin {"move", "lose"} => k.to = Table
            /\ k.type = "repair" => k.thing = CHOOSE t \in Things : TRUE}
Idle == [phase |-> "idle", op |-> CHOOSE k \in Kinds : k.type = "repair", read |-> NoRows]

Init ==
    /\ inv \in [Things -> {AtHome, NoRow}]
    /\ at = [t \in Things |-> Nowhere]
    /\ thread = [p \in Threads |-> Idle]
    /\ raced = FALSE
    /\ unlogged = FALSE
    /\ ops = 0
    /\ stops = 0

-----------------------------------------------------------------------------
(* What an operation makes of the value it has read *)

Present(b, t) == b[t].status # "none"
Occupants(b, t, c) == Cardinality({x \in Things \ {t} : Present(b, x) /\ b[x].place = c})

\* Seeded fault: more may be taken than there is.
LeftBelow(row, n) ==
    [row EXCEPT !.qty = @ - n, !.status = IF row.qty <= n THEN "gone" ELSE "has"]

Left(row, n) ==
    LET q == IF row.qty > n THEN row.qty - n ELSE 0
    IN [row EXCEPT !.qty = q, !.status = IF q = 0 THEN "gone" ELSE "has"]

\* Seeded fault: the status of a thing that is there stays.
GivenQuietly(b, t) ==
    IF Present(b, t) THEN [b[t] EXCEPT !.qty = @ + 1]
    ELSE [qty |-> 1, status |-> "has",
          place |-> IF Occupants(b, t, Table) + 1 > Capacity THEN Box ELSE Table]

Given(b, t) ==
    IF Present(b, t) THEN [b[t] EXCEPT !.qty = @ + 1, !.status = "has"]
    ELSE [qty |-> 1, status |-> "has",
          place |-> IF Occupants(b, t, Table) + 1 > Capacity THEN Box ELSE Table]

\* repair_spatial: quantity against status, then containers that do not exist.
\* It adds no event.
Repaired(row) ==
    LET counted == IF row.status = "none" THEN row
                   ELSE IF row.qty = 0 THEN [row EXCEPT !.status = "gone"]
                   ELSE IF row.status = "gone" THEN [row EXCEPT !.status = "has"] ELSE row
    IN IF row.status # "none" /\ row.place \notin Furniture
       THEN [counted EXCEPT !.status = "lost"] ELSE counted

\* daily_tick: a thing is put somewhere, which need not exist, and not found.
Mislaid(row, to) == [row EXCEPT !.place = to, !.status = "lost"]

\* The conditions under which an operation changes anything.
Allowed(b, k) ==
    LET row == b[k.thing] IN
    CASE k.type \in {"take", "empty", "expire"} -> Present(b, k.thing) /\ row.qty > 0
      [] k.type \in {"consume", "fail", "see"} -> Present(b, k.thing)
      [] k.type = "give" -> row.qty + 1 <= MaxQty
      [] k.type = "move" -> /\ Present(b, k.thing) /\ k.to \in Furniture
                            /\ Occupants(b, k.thing, k.to) + 1 <= Capacity
      [] k.type = "lose" -> row.status = "has" /\ k.to \in Hideouts
      [] k.type = "find" -> Present(b, k.thing) /\ row.status # "lost"
      [] k.type = "repair" -> TRUE

\* The value written: take, consume and daily_tick count down; move and the
\* loss put the thing elsewhere; a search that failed marks it.
Applied(b, k) ==
    LET row == b[k.thing] IN
    CASE k.type \in {"take", "consume", "expire"} -> [b EXCEPT ![k.thing] = Left(row, 1)]
      [] k.type = "empty" -> [b EXCEPT ![k.thing] = Left(row, MaxQty)]
      [] k.type = "give" -> [b EXCEPT ![k.thing] = Given(b, k.thing)]
      [] k.type = "move" -> [b EXCEPT ![k.thing].place = k.to]
      [] k.type = "lose" -> [b EXCEPT ![k.thing] = Mislaid(row, k.to)]
      [] k.type = "fail" -> [b EXCEPT ![k.thing].status = "lost"]
      [] k.type = "repair" -> [t \in Things |-> Repaired(b[t])]

\* Seeded fault: moves leave no event.
EventOfMovesDropped(b, k) ==
    CASE k.type = "give" -> b[k.thing].place
      [] k.type \in {"lose", "fail"} -> Lost
      [] OTHER -> at[k.thing]

\* The position event of an operation, from the value it wrote; take, consume
\* and expire add events that say nothing of the position.
EventOf(b, k) ==
    CASE k.type \in {"give", "move"} -> b[k.thing].place
      [] k.type \in {"lose", "fail"} -> Lost
      [] OTHER -> at[k.thing]

-----------------------------------------------------------------------------
Step(p, to) == thread' = [thread EXCEPT ![p] = to]

\* _load, for the first time. A repair is about every thing.
Load(p, k) ==
    /\ thread[p].phase = "idle"
    /\ ops < MaxOps
    /\ ops' = ops + 1
    /\ Allowed(inv, k)
    /\ raced' = (raced \/ \E q \in Threads : /\ thread[q].phase # "idle"
                                              /\ \/ thread[q].op.thing = k.thing
                                                 \/ "repair" \in {thread[q].op.type, k.type})
    /\ Step(p, [phase |-> "loaded", op |-> k, read |-> inv])
    /\ UNCHANGED <<inv, at, unlogged, stops>>

Save(p) ==
    /\ thread[p].phase = "loaded"
    /\ thread[p].op.type \notin {"see", "find"}
    /\ inv' = Applied(thread[p].read, thread[p].op)
    /\ raced' = (raced \/ inv # thread[p].read)
    /\ Step(p, [thread[p] EXCEPT !.phase = "saved", !.read = inv'])
    /\ UNCHANGED <<at, unlogged, ops, stops>>

\* _record_item_event.
Record(p) ==
    /\ thread[p].phase = "saved"
    /\ at' = [at EXCEPT ![thread[p].op.thing] = EventOf(thread[p].read, thread[p].op)]
    /\ Step(p, Idle)
    /\ UNCHANGED <<inv, raced, unlogged, ops, stops>>

\* _see_items: a thing in a container that is looked into; lost ones too. It is
\* left out when it was seen within five minutes.
See(p) ==
    /\ thread[p].phase = "loaded"
    /\ thread[p].op.type = "see"
    /\ \/ at' = [at EXCEPT ![thread[p].op.thing] = thread[p].read[thread[p].op.thing].place]
       \/ UNCHANGED at
    /\ Step(p, Idle)
    /\ UNCHANGED <<inv, raced, unlogged, ops, stops>>

\* search_progress that found the thing: its event first, ...
Note(p) ==
    /\ thread[p].phase = "loaded"
    /\ thread[p].op.type = "find"
    /\ at' = [at EXCEPT ![thread[p].op.thing] = thread[p].read[thread[p].op.thing].place]
    /\ Step(p, [thread[p] EXCEPT !.phase = "noted"])
    /\ UNCHANGED <<inv, raced, unlogged, ops, stops>>

\* ... then the value is read again, ...
Reload(p) ==
    /\ thread[p].phase = "noted"
    /\ Step(p, [thread[p] EXCEPT !.phase = "reloaded",
                  !.read = [inv EXCEPT ![thread[p].op.thing] =
                              [@ EXCEPT !.status = "has",
                                        !.place = thread[p].read[thread[p].op.thing].place]]])
    /\ UNCHANGED <<inv, at, raced, unlogged, ops, stops>>

\* ... and written with the thing there, whatever its quantity.
Found(p) ==
    /\ thread[p].phase = "reloaded"
    /\ LET t == thread[p].op.thing IN
       /\ inv' = thread[p].read
       /\ raced' = (raced \/ \E x \in Things \ {t} : inv[x] # thread[p].read[x])
    /\ Step(p, Idle)
    /\ UNCHANGED <<at, unlogged, ops, stops>>

Restart ==
    /\ stops < MaxStops
    /\ stops' = stops + 1
    /\ unlogged' = (unlogged \/ \E p \in Threads : thread[p].phase = "saved")
    /\ thread' = [p \in Threads |-> Idle]
    /\ UNCHANGED <<inv, at, raced, ops>>

Next ==
    \/ \E p \in Threads : \/ \E k \in Kinds : Load(p, k)
                          \/ Save(p) \/ Record(p) \/ See(p) \/ Note(p) \/ Reload(p) \/ Found(p)
    \/ Restart

Spec == Init /\ [][Next]_vars

-----------------------------------------------------------------------------
TypeOK ==
    /\ inv \in Inventories
    /\ at \in [Things -> Spots \cup {Nowhere, Lost}]
    /\ thread \in [Threads -> [phase : {"idle", "loaded", "noted", "reloaded", "saved"},
                               op : Kinds, read : Inventories]]
    /\ {raced, unlogged} \subseteq BOOLEAN
    /\ ops \in 0..MaxOps /\ stops \in 0..MaxStops

Touched(t) ==
    \E p \in Threads : thread[p].phase # "idle"
                         /\ (thread[p].op.thing = t \/ thread[p].op.type = "repair")

\* Where the log of events says that a thing is (item_position_at, what searches
\* start from and space_eval.py measures), the inventory has it: after any
\* sequence of operations, finds and losses of a thing, in any order of those
\* of different things.
PlacesAgree ==
    ~raced /\ ~unlogged =>
      \A t \in Things : at[t] \in Spots /\ ~Touched(t) => inv[t].place = at[t]

\* A thing that is used up is not counted as there, and nothing of which there
\* is a piece is used up: also when threads overwrite each other's value, and
\* except that a search may find what is used up.
GoneIsEmpty == \A t \in Things : inv[t].status = "gone" => inv[t].qty = 0
===============================================================================
