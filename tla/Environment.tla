------------------------------- MODULE Environment -------------------------------
(***************************************************************************)
(* What is around her: place, people and weather, kept as one snapshot for *)
(* all chats (memory/environment.py). A snapshot is built by the thread of *)
(* the chat that asks when the last one is of another slot of the day or   *)
(* too old; on the way anywhere it is built but not kept. The weather has  *)
(* a cache of its own, and whoever refreshes it writes the new weather     *)
(* into the snapshot as well.                                              *)
(***************************************************************************)
EXTENDS Naturals, FiniteSets

CONSTANTS Threads,      \* threads that answer a chat
          Chats,        \* the scopes of the memory
          Cast,         \* people with names
          Places,       \* where she may be, "road" among them
          Company,      \* [0..MaxTime -> [Places -> SUBSET Cast]]: who is about
          SlotLength,   \* hours to a slot of the schedule
          SnapTtl, WeatherTtl,
          MaxTime, MaxLooks

\* What is assumed of the constants.
LifetimesAssumption ==
    /\ SlotLength \in Nat \ {0} /\ SnapTtl \in Nat /\ WeatherTtl \in Nat
    /\ MaxTime \in Nat /\ MaxLooks \in Nat /\ "" \notin Places
    /\ Company \in [0..MaxTime -> [Places -> SUBSET Cast]]

NoSnap == [slot |-> 0, ts |-> 0, place |-> "", people |-> {}, known |-> {}, weather |-> "",
           seen |-> 0, built |-> 0]
NoWeather == [source |-> "", ts |-> 0]
Idle == [pc |-> "idle", chat |-> "", slot |-> 0, seen |-> 0, place |-> "", people |-> {},
         old |-> NoSnap, prev |-> "", fresh |-> "", copy |-> NoSnap]

VARIABLES hour,         \* the clock
          where,        \* where she is (memory/space.py)
          heard,        \* heard[c]: whom the memory of the chat c names
          snap,         \* kv env_snapshot; seen and built are when it really was made
          weather,      \* kv weather_cache
          look,         \* look[k]: what the thread k is doing
          served,       \* served[k]: the snapshot k was last given from the table, and when
          told,         \* events of the day: <<name, "in"/"out">>, or of the weather
          looks

vars == <<hour, where, heard, snap, weather, look, served, told, looks>>

Slot(t) == t \div SlotLength

Init ==
    /\ hour = 0 /\ where \in Places
    /\ heard = [c \in Chats |-> {}]
    /\ snap = NoSnap /\ weather = NoWeather
    /\ look = [k \in Threads |-> Idle]
    /\ served = [k \in Threads |-> [snap |-> NoSnap, at |-> 0]]
    /\ told = {} /\ looks = 0

Tick ==
    /\ hour < MaxTime /\ hour' = hour + 1
    /\ where' \in Places
    /\ UNCHANGED <<heard, snap, weather, look, served, told, looks>>

Mention(c, name) ==
    /\ name \notin heard[c]
    /\ heard' = [heard EXCEPT ![c] = @ \cup {name}]
    /\ UNCHANGED <<hour, where, snap, weather, look, served, told, looks>>

(***************************************************************************)
(* snapshot                                                                *)
(***************************************************************************)
Usable == snap.place # "" /\ snap.slot = Slot(hour) /\ hour - snap.ts < SnapTtl

\* A question with "now" or "where" in it asks for a new snapshot whatever is there.
Serve(k) ==
    /\ look[k].pc = "idle" /\ looks < MaxLooks /\ Usable
    /\ looks' = looks + 1
    /\ served' = [served EXCEPT ![k] = [snap |-> snap, at |-> hour]]
    /\ UNCHANGED <<hour, where, heard, snap, weather, look, told>>

Look(k, c) ==
    /\ look[k].pc = "idle" /\ looks < MaxLooks
    /\ looks' = looks + 1
    /\ look' = [look EXCEPT ![k] = [Idle EXCEPT
           !.pc = "weather", !.chat = c, !.slot = Slot(hour), !.seen = hour,
           !.place = where, !.people = Company[hour][where], !.old = snap]]
    /\ UNCHANGED <<hour, where, heard, snap, weather, served, told>>

\* Others ask for the weather only: how dark it is, how long the way takes.
AskWeather(k) ==
    /\ look[k].pc = "idle" /\ looks < MaxLooks
    /\ looks' = looks + 1
    /\ look' = [look EXCEPT ![k] = [Idle EXCEPT !.pc = "weather"]]
    /\ UNCHANGED <<hour, where, heard, snap, weather, served, told>>

(***************************************************************************)
(* fetch                                                                   *)
(***************************************************************************)
\* What a thread does with the weather: the snapshot goes on, a mere question is answered.
Onward(l) == IF l.place = "" THEN Idle ELSE [l EXCEPT !.pc = "store", !.copy = NoSnap]

Cached(k) ==
    /\ look[k].pc = "weather"
    /\ weather.source # "" /\ hour - weather.ts < WeatherTtl
    /\ look' = [look EXCEPT ![k] = Onward([@ EXCEPT !.fresh = weather.source])]
    /\ UNCHANGED <<hour, where, heard, snap, weather, served, told, looks>>

FetchBegins(k) ==
    /\ look[k].pc = "weather"
    /\ weather.source = "" \/ hour - weather.ts >= WeatherTtl
    /\ look' = [look EXCEPT ![k].pc = "fetch", ![k].prev = weather.source]
    /\ UNCHANGED <<hour, where, heard, snap, weather, served, told, looks>>

\* The service answers, or the weather of the day is made up; a change between the two is an
\* event, judged by what was cached before the call.
Fetched(k, source) ==
    /\ look[k].pc = "fetch"
    /\ weather' = [source |-> source, ts |-> hour]
    /\ told' = IF look[k].prev \notin {"", source} THEN told \cup {<<source, "weather">>} ELSE told
    /\ look' = [look EXCEPT ![k].pc = "sync", ![k].fresh = source, ![k].prev = ""]
    /\ UNCHANGED <<hour, where, heard, snap, served, looks>>

SyncRead(k) ==
    /\ look[k].pc = "sync"
    /\ look' = [look EXCEPT ![k] = IF snap.place = "" THEN Onward(@)
                                  ELSE [@ EXCEPT !.pc = "write", !.copy = snap]]
    /\ UNCHANGED <<hour, where, heard, snap, weather, served, told, looks>>

\* The whole snapshot is written back, key and time as they were read.
WithWeather(copy, source) == [copy EXCEPT !.weather = source]

\* As WithWeather, but the time of the snapshot becomes that of its weather.
Restamped(copy, source) == [copy EXCEPT !.weather = source, !.ts = hour]

SyncWrite(k) ==
    /\ look[k].pc = "write"
    /\ snap' = WithWeather(look[k].copy, weather.source)
    /\ look' = [look EXCEPT ![k] = Onward(@)]
    /\ UNCHANGED <<hour, where, heard, weather, served, told, looks>>

\* Who came and who left is told from the snapshot read at the start; on the road nothing is
\* kept. Whom the chat knows goes into the snapshot all chats are served.
Store(k) ==
    LET l == look[k]
        new == [slot |-> l.slot, ts |-> hour, place |-> l.place, people |-> l.people,
                known |-> l.people \cap heard[l.chat], weather |-> l.fresh,
                seen |-> l.seen, built |-> hour]
    IN /\ l.pc = "store"
       /\ told' = told \cup ((l.people \ l.old.people) \X {"in"})
                       \cup ((l.old.people \ l.people) \X {"out"})
       /\ snap' = IF l.place = "road" THEN snap ELSE new
       /\ look' = [look EXCEPT ![k] = Idle]
       /\ UNCHANGED <<hour, where, heard, weather, served, looks>>

Next ==
    \/ Tick
    \/ \E c \in Chats, name \in Cast : Mention(c, name)
    \/ \E k \in Threads :
           \/ Serve(k) \/ AskWeather(k) \/ Cached(k) \/ FetchBegins(k)
           \/ SyncRead(k) \/ SyncWrite(k) \/ Store(k)
           \/ \E c \in Chats : Look(k, c)
           \/ \E source \in {"service", "made up"} : Fetched(k, source)

Spec == Init /\ [][Next]_vars

(***************************************************************************)
(* Properties                                                              *)
(***************************************************************************)
Snaps == [slot : 0..Slot(MaxTime), ts : 0..MaxTime, place : Places \cup {""},
          people : SUBSET Cast, known : SUBSET Cast, weather : {"", "service", "made up"},
          seen : 0..MaxTime, built : 0..MaxTime]

TypeOK ==
    /\ hour \in 0..MaxTime /\ where \in Places
    /\ heard \in [Chats -> SUBSET Cast]
    /\ snap \in Snaps /\ snap.known \subseteq snap.people
    /\ \A k \in Threads :
           /\ look[k].pc \in {"idle", "weather", "fetch", "sync", "write", "store"}
           /\ look[k].copy \in Snaps /\ served[k].snap \in Snaps
    /\ told \subseteq (Cast \X {"in", "out"}) \cup ({"service", "made up"} \X {"weather"})
    /\ looks \in 0..MaxLooks

\* A snapshot given from the table shows the slot of the day it is asked in, was really made
\* within its time to live, and not on the road, also when a refresh of the weather wrote an
\* older snapshot back over a newer one (snapshot, fetch).
ServedIsOfNow ==
    \A k \in Threads :
        LET s == served[k].snap
        IN s.place # "" =>
               /\ Slot(s.seen) = Slot(served[k].at)
               /\ served[k].at - s.built < SnapTtl
               /\ s.place # "road"
================================================================================
