-------------------------------- MODULE HomeMap --------------------------------
(***************************************************************************)
(* The way through the home. The floor plan of a persona is written by     *)
(* hand: doors, each between two rooms or a room and the front door        *)
(* (memory/floorplan.py). The rooms she passes come from a breadth-first   *)
(* search over the edges the doors give (memory/space.py), the minutes it  *)
(* takes from Dijkstra's algorithm over another graph of the same doors,   *)
(* whose nodes are the middles of rooms and doors. validate checks a plan  *)
(* before it is used. Polygons are abstracted to the lengths between the   *)
(* middle of a room and its doors.                                         *)
(***************************************************************************)
EXTENDS Naturals, Sequences, FiniteSets, FiniteSetsExt, SequencesExt

CONSTANTS Rooms,        \* the rooms of the plan
          Doors,        \* the doors of the plan, by index
          Gate,         \* the front door ("大门")
          Nowhere,      \* a name no room of the plan has
          Written,      \* what a door may be written to be between
          Length        \* [Doors -> [Rooms -> Nat]]: from a door to the middle of a room

Absent == "none"
Ends == Rooms \cup {Gate, Nowhere}

\* What is assumed of the constants: of what a door is between the first two count, and the
\* lengths are measured.
PlanAssumption ==
    /\ IsFiniteSet(Rooms) /\ IsFiniteSet(Doors)
    /\ Rooms \cap Doors = {} /\ Gate \notin Rooms /\ Nowhere \notin Rooms
    /\ \A w \in Written : w \subseteq Ends /\ \E a, b \in Ends : w \subseteq {a, b}
    /\ Length \in [Doors -> [Rooms -> Nat]]

VARIABLES between,      \* between[d]: what the door d is written to be between
          from, to,     \* the walk asked for
          stage,        \* "idle" -> "route" -> "walk" -> "done"
          seen, paths,  \* the breadth-first search: rooms met, paths to extend
          route,        \* the rooms of the walk, <<>> when there is no way
          dist, queue,  \* Dijkstra's tentative distances and heap
          metres        \* the length of the walk, {} when there is none

vars == <<between, from, to, stage, seen, paths, route, dist, queue, metres>>

(***************************************************************************)
(* The two graphs.                                                         *)
(***************************************************************************)
\* As AdjacencyEdges, were the front door a place like any other.
EdgesWithGate == {between[d] : d \in {x \in Doors : Cardinality(between[x]) = 2}}

\* The edges between rooms: doors that lead from one place to another, front doors left out.
AdjacencyEdges ==
    {between[d] : d \in {x \in Doors : Cardinality(between[x]) = 2 /\ Gate \notin between[x]}}

Neighbours(r) == UNION {e \ {r} : e \in {x \in AdjacencyEdges : r \in x}}

\* The nodes are rooms and doors; a door is linked to the rooms of the plan it is between.
Linked(u, v) ==
    \/ u \in Doors /\ v \in Rooms /\ v \in between[u]
    \/ u \in Rooms /\ v \in Doors /\ u \in between[v]

Weight(u, v) == IF u \in Doors THEN Length[u][v] ELSE Length[v][u]

Links(u) == {v \in Rooms \cup Doors : Linked(u, v)}

\* A room is the node of its middle, the front door all the doors that lead out.
NodesFor(name) ==
    IF name = Gate THEN {d \in Doors : Gate \in between[d]} ELSE {name} \cap Rooms

(***************************************************************************)
(* validate: what it finds wrong with the plan. Its search for rooms apart *)
(* starts at one room and compares counts.                                 *)
(***************************************************************************)
Closure(start, Next(_)) ==
    LET within[n \in 0..Cardinality(Ends \cup Doors)] ==
            IF n = 0 THEN start
            ELSE LET w == within[n - 1] IN w \cup UNION {Next(x) : x \in w}
    IN within[Cardinality(Ends \cup Doors)]

Connected ==
    \E first \in Rooms : Cardinality(Closure({first}, Neighbours)) = Cardinality(Rooms)

Reaches(room, name) == Closure(NodesFor(room), Links) \cap NodesFor(name) # {}

HasEntrance == NodesFor(Gate) # {}

Issues ==
    {issue \in {"format", "unknown", "doorless", "apart", "gate"} :
        \/ issue = "format" /\ \E d \in Doors : between[d] = {}
        \/ issue = "unknown" /\ \E d \in Doors : Nowhere \in between[d]
        \/ issue = "doorless" /\ \E r \in Rooms : \A d \in Doors : r \notin between[d]
        \/ issue = "apart" /\ ~Connected
        \/ issue = "gate" /\ HasEntrance /\ \E r \in Rooms : ~Reaches(r, Gate)}

(***************************************************************************)
(* A walk: move_room asks for the rooms to pass, then for the length of    *)
(* the walk; the facts about a room ask only how far the front door is.    *)
(***************************************************************************)
Init ==
    /\ between \in [Doors -> Written]
    /\ from = Absent /\ to = Absent /\ stage = "idle"
    /\ seen = {} /\ paths = <<>> /\ route = <<>>
    /\ dist = <<>> /\ queue = {} /\ metres = {}

MoveRoom(a, b) ==
    /\ stage = "idle" /\ a # b
    /\ from' = a /\ to' = b
    /\ seen' = {a} /\ paths' = <<<<a>>>>
    /\ stage' = "route"
    /\ UNCHANGED <<between, route, dist, queue, metres>>

\* Dijkstra starts from every node of the place at once; with none, there is no way.
Begin(a, b) ==
    LET starts == NodesFor(a)
    IN IF starts = {} \/ NodesFor(b) = {}
       THEN stage' = "done" /\ UNCHANGED <<dist, queue>>
       ELSE /\ stage' = "walk"
            /\ dist' = [s \in starts |-> 0]
            /\ queue' = {<<0, s>> : s \in starts}

DistToEntrance(a) ==
    /\ stage = "idle"
    /\ from' = a /\ to' = Gate
    /\ Begin(a, Gate)
    /\ UNCHANGED <<between, seen, paths, route, metres>>

\* The shortest path kept is extended by each neighbour not met yet; the search ends at the goal.
Extend ==
    LET path == Head(paths)
        new == Neighbours(Last(path)) \ seen
    IN /\ stage = "route" /\ paths # <<>> /\ to \notin new
       /\ seen' = seen \cup new
       /\ paths' = Tail(paths) \o [i \in 1..Cardinality(new) |-> Append(path, SetToSeq(new)[i])]
       /\ UNCHANGED <<between, from, to, stage, route, dist, queue, metres>>

\* The goal is found, and the length of the walk is asked for.
RouteFound ==
    /\ stage = "route" /\ paths # <<>>
    /\ to \in Neighbours(Last(Head(paths))) \ seen
    /\ route' = Append(Head(paths), to)
    /\ Begin(from, to)
    /\ UNCHANGED <<between, from, to, seen, paths, metres>>

\* Without a way she stays where she is.
NoRoute ==
    /\ stage = "route" /\ paths = <<>>
    /\ stage' = "done"
    /\ UNCHANGED <<between, from, to, seen, paths, route, dist, queue, metres>>

\* The nearest entry of the heap is taken; one that was improved meanwhile is skipped.
Pop(d, u) ==
    LET closer == {v \in Links(u) : v \notin DOMAIN dist \/ d + Weight(u, v) < dist[v]}
        left == queue \ {<<d, u>>}
    IN /\ stage = "walk" /\ <<d, u>> \in queue
       /\ \A e \in queue : d <= e[1]
       /\ IF d > dist[u] THEN queue' = left /\ UNCHANGED dist
          ELSE /\ dist' = [v \in DOMAIN dist \cup closer |->
                              IF v \in closer THEN d + Weight(u, v) ELSE dist[v]]
               /\ queue' = left \cup {<<d + Weight(u, v), v>> : v \in closer}
       /\ UNCHANGED <<between, from, to, stage, seen, paths, route, metres>>

\* Without a length of the walk the rooms passed are counted instead (route_minutes).
Arrive ==
    LET met == NodesFor(to) \cap DOMAIN dist
    IN /\ stage = "walk" /\ queue = {}
       /\ metres' = IF met = {} THEN {} ELSE {Min({dist[t] : t \in met})}
       /\ stage' = "done"
       /\ UNCHANGED <<between, from, to, seen, paths, route, dist, queue>>

Next ==
    \/ \E a, b \in Rooms : MoveRoom(a, b)
    \/ \E a \in Rooms : DistToEntrance(a)
    \/ Extend \/ RouteFound \/ NoRoute \/ Arrive
    \/ \E e \in queue : Pop(e[1], e[2])

Spec == Init /\ [][Next]_vars

(***************************************************************************)
(* Properties                                                              *)
(***************************************************************************)
TypeOK ==
    /\ between \in [Doors -> SUBSET Ends] /\ Written \subseteq SUBSET Ends
    /\ {from, to} \subseteq Rooms \cup {Gate, Absent}
    /\ stage \in {"idle", "route", "walk", "done"}
    /\ seen \subseteq Ends
    /\ route \in Seq(Ends) /\ \A i \in DOMAIN paths : paths[i] \in Seq(Ends)
    /\ DOMAIN dist \subseteq Rooms \cup Doors
    /\ \A e \in queue : e[1] \in Nat /\ e[2] \in DOMAIN dist
    /\ metres \subseteq Nat

\* The ways from a to b that pass no room twice, and what one costs by the nearer door of
\* each step: the reference for both searches.
Ways(a, b) ==
    {w \in SeqOf(Rooms, Cardinality(Rooms)) :
        /\ w # <<>> /\ w[1] = a /\ Last(w) = b /\ IsInjective(w)
        /\ \A i \in 1..(Len(w) - 1) : \E d \in Doors : between[d] = {w[i], w[i + 1]}}

Step(a, b) == Min({Length[d][a] + Length[d][b] : d \in {x \in Doors : between[x] = {a, b}}})

Cost(w) ==
    LET upTo[i \in 1..Len(w)] == IF i = 1 THEN 0 ELSE upTo[i - 1] + Step(w[i - 1], w[i])
    IN upTo[Len(w)]

\* Leaving the home, the walk ends at a door that leads out.
Lengths(a, b) ==
    IF b # Gate THEN {Cost(w) : w \in Ways(a, b)}
    ELSE UNION {{Cost(w) + Length[d][Last(w)] : w \in UNION {Ways(a, r) : r \in between[d] \ {Gate}}} :
                   d \in NodesFor(Gate)}

\* A walk is as long as the shortest way through doors and no longer, and there is one exactly
\* when some way leads there (route_distance).
WalkIsShortest ==
    stage = "done" /\ (to = Gate \/ route # <<>>) =>
        metres = (IF Lengths(from, to) = {} THEN {} ELSE {Min(Lengths(from, to))})

\* The rooms she passes are neighbours one after the other, and no way passes fewer
\* doors (shortest_route).
RouteIsShortest ==
    route # <<>> =>
        /\ route[1] = from /\ Last(route) = to
        /\ \A i \in 1..(Len(route) - 1) : route[i + 1] \in Neighbours(route[i])
        /\ "unknown" \notin Issues =>
               route \in Ways(from, to) /\ \A w \in Ways(from, to) : Len(route) <= Len(w)

\* In a plan that validate finds nothing wrong with, every walk has a way and a length: the
\* two graphs drawn from the doors agree, and every room reaches the front door (validate).
ValidIsWalkable ==
    stage = "done" /\ Issues = {} =>
        /\ to # Gate => route # <<>>
        /\ metres = {} => to = Gate /\ ~HasEntrance

\* All three.
WaysAreRight == WalkIsShortest /\ RouteIsShortest /\ ValidIsWalkable
================================================================================
