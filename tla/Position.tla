------------------------------- MODULE Position -------------------------------
(***************************************************************************)
(* Where she is (memory/space.py): one record of the place in town and one *)
(* of the room at home. Nothing moves by itself: whoever asks (position,   *)
(* room_position) first lets what is due depart or arrive, writes it, and  *)
(* adds an event. space_loop asks every five minutes, prompts and searches *)
(* ask when they need it, and nobody asks while the process is down.       *)
(*                                                                         *)
(* A caller is                                                             *)
(*   idle                                                                  *)
(*   asking     the record is read                                         *)
(*   emitting   it is written, its event is to be added                    *)
(***************************************************************************)
EXTENDS Naturals, FiniteSets

CONSTANTS
    Places,     \* places of the schedule, home among them
    Home,
    Plan,       \* the place of each slot of the schedule
    SlotLength, \* ticks per slot
    Travel,     \* travel_time from home to a place, in ticks
    Rooms,
    FirstRoom,  \* the room of an empty record
    Walk,       \* route_minutes between two rooms, in ticks
    Callers,    \* space_loop, agent threads, inspection_loop
    MaxTime,    \* bound: ticks
    MaxAsks,    \* bound: calls
    MaxStops    \* bound: process restarts

VARIABLES
    now,      \* the time
    pos,      \* space_position: where, or from home to where, and when she arrives
    room,     \* space_state: the same for the rooms
    caller,   \* per caller: phase, what it asks, the record to write
    arrived,  \* place of the last arrival in the log of events
    entered,  \* room of the last room entered in the log of events
    raced,    \* TRUE once a record was written over a change, or between another
              \* write and its event
    unlogged, \* TRUE once a restart came between a write and its event
    asks,     \* calls so far
    stops     \* restarts so far

vars == <<now, pos, room, caller, arrived, entered, raced, unlogged, asks, stops>>

\* The schedule says of every slot where she is to be, home is a place and the
\* walk between two rooms takes a time.
PositionAssumption ==
    /\ SlotLength \in Nat \ {0} /\ {MaxTime, MaxAsks, MaxStops} \subseteq Nat
    /\ Home \in Places /\ Plan \in [0..(MaxTime \div SlotLength + 1) -> Places]
    /\ FirstRoom \in Rooms /\ Walk \in [Rooms -> [Rooms -> Nat]]

There(x) == [at |-> x, to |-> x, due |-> 0]
OnWay(x, to, due) == [at |-> x, to |-> to, due |-> due]
IsOnWay(p) == p.at # p.to
Idle == [phase |-> "idle", op |-> "position", to |-> FirstRoom, now |-> 0,
         pos |-> There(Home), room |-> There(FirstRoom)]

Init ==
    /\ now = 0
    /\ pos = There(Home)
    /\ room = There(FirstRoom)
    /\ caller = [c \in Callers |-> Idle]
    /\ arrived = Home
    /\ entered = FirstRoom
    /\ raced = FALSE
    /\ unlogged = FALSE
    /\ asks = 0
    /\ stops = 0

Tick ==
    /\ now < MaxTime
    /\ now' = now + 1
    /\ UNCHANGED <<pos, room, caller, arrived, entered, raced, unlogged, asks, stops>>

-----------------------------------------------------------------------------
(* _plan_and_start: within the travel time before the next slot that is not *)
(* at home, its place counts already.                                       *)

Slot(t) == t \div SlotLength
NextStart(t) == (Slot(t) + 1) * SlotLength
Soon(t) == LET p == Plan[Slot(t) + 1] IN p # Home /\ t + Travel[p] >= NextStart(t)
Planned(t) == IF Soon(t) THEN Plan[Slot(t) + 1] ELSE Plan[Slot(t)]

\* Seeded fault: whoever notices late that she has to go makes her late.
MovedByTravel(p, t) ==
    CASE IsOnWay(p) -> IF t >= p.due THEN There(p.to) ELSE p
      [] ~IsOnWay(p) /\ Planned(t) = p.at -> p
      [] ~IsOnWay(p) /\ Planned(t) # p.at ->
           IF Soon(t) THEN OnWay(Home, Planned(t), t + Travel[Planned(t)]) ELSE There(Planned(t))

\* position: the record after the call, at time t.
Moved(p, t) ==
    CASE IsOnWay(p) -> IF t >= p.due THEN There(p.to) ELSE p
      [] ~IsOnWay(p) /\ Planned(t) = p.at -> p
      [] ~IsOnWay(p) /\ Planned(t) # p.at ->
           IF Soon(t) THEN OnWay(Home, Planned(t), NextStart(t)) ELSE There(Planned(t))

\* room_position: only arrivals.
Walked(r, t) == IF IsOnWay(r) /\ t >= r.due THEN There(r.to) ELSE r

\* move_room: from the room of the record, which is the one left last while
\* she walks. To be there already is no move, and no reason to stop one.
Directed(r, to, t) == IF r.at = to THEN r ELSE OnWay(r.at, to, t + Walk[r.at][to])

-----------------------------------------------------------------------------
Emitting(ops) == \E c \in Callers : caller[c].phase = "emitting" /\ caller[c].op \in ops

Step(c, to) == caller' = [caller EXCEPT ![c] = to]

\* The record is read, and what becomes of it is computed.
Ask(c, op, to) ==
    /\ caller[c].phase = "idle"
    /\ asks < MaxAsks
    /\ asks' = asks + 1
    /\ Step(c, [phase |-> "asking", op |-> op, to |-> to, now |-> now, pos |-> pos, room |-> room])
    /\ UNCHANGED <<now, pos, room, arrived, entered, raced, unlogged, stops>>

\* The record is written if it changed; position returns it.
Position(c) ==
    /\ caller[c].phase = "asking" /\ caller[c].op = "position"
    /\ LET old == caller[c].pos
           new == Moved(old, caller[c].now)
       IN /\ pos' = IF new = old THEN pos ELSE new
          /\ raced' = (raced \/ (new # old /\ (pos # old \/ Emitting({"position"}))))
          /\ Step(c, IF new = old THEN Idle ELSE [caller[c] EXCEPT !.phase = "emitting", !.pos = new])
    /\ UNCHANGED <<now, room, arrived, entered, unlogged, asks, stops>>

RoomPosition(c) ==
    /\ caller[c].phase = "asking" /\ caller[c].op # "position"
    /\ LET old == caller[c].room
           new == IF caller[c].op = "room" THEN Walked(old, caller[c].now)
                  ELSE Directed(old, caller[c].to, caller[c].now)
       IN /\ room' = IF new = old THEN room ELSE new
          /\ raced' = (raced \/ (new # old /\ (room # old \/ Emitting({"room", "move"}))))
          /\ Step(c, IF new = old THEN Idle ELSE [caller[c] EXCEPT !.phase = "emitting", !.room = new])
    /\ UNCHANGED <<now, pos, arrived, entered, unlogged, asks, stops>>

\* Seeded fault: coming home is no event.
EmitAway(c) ==
    /\ caller[c].phase = "emitting"
    /\ arrived' = IF caller[c].op = "position" /\ caller[c].pos.at # Home
                  THEN caller[c].pos.at ELSE arrived
    /\ entered' = IF caller[c].op = "room" THEN caller[c].room.at ELSE entered
    /\ Step(c, Idle)
    /\ UNCHANGED <<now, pos, room, raced, unlogged, asks, stops>>

\* emit: an arrival is an event; a departure is another, which says of no place
\* that she is there.
Emit(c) ==
    /\ caller[c].phase = "emitting"
    /\ arrived' = IF caller[c].op = "position" /\ ~IsOnWay(caller[c].pos)
                  THEN caller[c].pos.at ELSE arrived
    /\ entered' = IF caller[c].op = "room" THEN caller[c].room.at ELSE entered
    /\ Step(c, Idle)
    /\ UNCHANGED <<now, pos, room, raced, unlogged, asks, stops>>

Restart ==
    /\ stops < MaxStops
    /\ stops' = stops + 1
    /\ unlogged' = (unlogged \/ \E c \in Callers : caller[c].phase = "emitting")
    /\ caller' = [c \in Callers |-> Idle]
    /\ UNCHANGED <<now, pos, room, arrived, entered, raced, asks>>

Next ==
    \/ Tick
    \/ \E c \in Callers : \/ Ask(c, "position", FirstRoom) \/ Ask(c, "room", FirstRoom)
                          \/ \E r \in Rooms : Ask(c, "move", r)
                          \/ Position(c) \/ RoomPosition(c) \/ Emit(c)
    \/ Restart

Spec == Init /\ [][Next]_vars

-----------------------------------------------------------------------------
Records(S) == [at : S, to : S, due : Nat]

TypeOK ==
    /\ now \in 0..MaxTime
    /\ pos \in Records(Places)
    /\ room \in Records(Rooms)
    /\ caller \in [Callers -> [phase : {"idle", "asking", "emitting"},
                               op : {"position", "room", "move"}, to : Rooms, now : Nat,
                               pos : Records(Places), room : Records(Rooms)]]
    /\ arrived \in Places /\ entered \in Rooms
    /\ {raced, unlogged} \subseteq BOOLEAN
    /\ asks \in 0..MaxAsks /\ stops \in 0..MaxStops

\* Where she is, in town and at home, is where the log of events last saw her
\* arrive, however long nobody asked and whatever the schedule had in between:
\* while no caller wrote over another's move or was cut off before its event.
ArrivalsLogged ==
    ~raced /\ ~unlogged =>
      /\ ~IsOnWay(pos) /\ ~Emitting({"position"}) => arrived = pos.at
      /\ ~IsOnWay(room) /\ ~Emitting({"room", "move"}) => entered = room.at

\* On the way she is due at the time of a slot that is planned there.
ArrivesForItsSlot ==
    IsOnWay(pos) => pos.due % SlotLength = 0 /\ Plan[pos.due \div SlotLength] = pos.to
===============================================================================
