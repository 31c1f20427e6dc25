------------------------------ MODULE MCInnerLife ------------------------------
(***************************************************************************)
(* Her inner life and where it takes place: answers and the habits they    *)
(* leave, feelings, intentions, the ways through the home, what is around  *)
(* her, and her week; with the tasks of the web console, which switch      *)
(* parts of it off. Each component has keys and tables of its own here, so *)
(* a run explores one of them at a time: focus says which. backend, now    *)
(* and turns are those of the component in focus.                          *)
(***************************************************************************)
EXTENDS Integers, Sequences, FiniteSets, TLC

CONSTANTS Backends, Threads, MaxTurns,
          Chats, Details, Owner, Promises, MinTries, MaxClaims, MaxEdits,
          Scopes, Private, Window, Lasting, Away, MaxWaits, MaxTime,
          Goals, Strength, Ttl, MaxThoughts, MaxChanges, MaxAge,
          Kinds, Switches, Concurrent, HistoryLength, MaxTasks, MaxToggles,
          Rooms, Doors, Outdoors, Nowhere, Written, Length,
          Circles, Cast, Places, Company, SlotLength, SnapTtl, WeatherTtl, MaxHour, MaxLooks,
          Days, Pool, Fixed, AtHome, Tiring, Energy, Budget, Before, After, Yielding, MaxWeek,
          MaxStarts

VARIABLES focus, backend, now, turns,
          held, port, ask, habits, match, edits,
          mood, rows, heard, lastmsg, announced, mistakes, made, turn, waiter, waits,
          goals, intentions, mine, crossed, thought, thoughts, changes,
          config, disk, chosen, disturbed, history, ended, mixed, log, task, tasks, toggles,
          between, from, to, stage, seen, paths, route, dist, queue, metres,
          hour, where, named, snap, weather, look, served, told, looks,
          week, draw, table, cache, drawn, starts

answerVars == <<held, port, ask, habits, match, edits>>
feelingVars == <<mood, rows, heard, lastmsg, announced, mistakes, made, turn, waiter, waits>>
mindVars == <<goals, intentions, mine, crossed, thought, thoughts, changes>>
consoleVars == <<config, disk, chosen, disturbed, history, ended, mixed, log, task, tasks,
                 toggles>>
mapVars == <<between, from, to, stage, seen, paths, route, dist, queue, metres>>
aroundVars == <<hour, where, named, snap, weather, look, served, told, looks>>
weekVars == <<week, draw, table, cache, drawn, starts>>
vars == <<focus, backend, now, turns, answerVars, feelingVars, mindVars, consoleVars,
          mapVars, aroundVars, weekVars>>

-----------------------------------------------------------------------------
(* The instances and their bounds. *)

\* Values of the constants in a run: a fact of one chat, an appointment of
\* another; one goal is stronger.
MCOwner == [d \in Details |-> IF d = "cat" THEN "a" ELSE "b"]
MCStrength == [g \in Goals |-> IF g = "exam" THEN 60 ELSE 90]

Answers == INSTANCE Answering WITH Asks <- Threads
Moods == INSTANCE Feelings WITH Turns <- Threads
Will == INSTANCE Minds WITH Thinkers <- Threads, rows <- intentions, mixed <- crossed
Console == INSTANCE WebTasks WITH Tasks <- Threads

Home == INSTANCE HomeMap WITH Gate <- Outdoors

Around == INSTANCE Environment WITH Chats <- Circles, MaxTime <- MaxHour, heard <- named

Plans == INSTANCE Schedule WITH Processes <- Threads

\* Three doors, in all the ways a plan may be written.
MCWritten == {{}, {"a"}, {"a", "b"}, {"b", "c"}, {"a", "c"}, {"a", "gate"}, {"b", "gate"},
              {"c", "nowhere"}}
MCLength == [d \in Doors |-> [r \in Rooms |->
                CASE d = "d2" /\ r = "b" -> 0 [] d = "d3" /\ r = "a" -> 3
                  [] d = "d1" /\ r = "a" -> 1 [] OTHER -> 2]]

\* Ann is at home in every other hour.
MCCompany == [t \in 0..MaxHour |-> [p \in Places |->
                 IF p = "home" /\ t % 2 = 1 THEN {"ann"} ELSE {}]]

\* A day of rest, a day with work, and one whose evening is left to the draw.
MCFixed == [d \in Days |-> CASE d = 0 -> [s \in {0, 1} |-> "home_rest"]
                             [] d = 1 -> [s \in {1} |-> "work"]
                             [] d = 2 -> [s \in {1, 2} |-> IF s = 2 THEN "" ELSE "home_rest"]]
Deeds == {"performance", "work", "rehearsal", "home_rest"}
MCEnergy == [a \in Deeds |-> CASE a = "performance" -> 10 [] a = "work" -> 6
                               [] a = "rehearsal" -> 8 [] a = "home_rest" -> -4]
MCBefore == [a \in Deeds |-> IF a = "performance" THEN "rehearsal" ELSE ""]
MCAfter == [a \in Deeds |-> IF a \in {"performance", "work"} THEN "home_rest" ELSE ""]

ASSUME ConstantsAssumption ==
    /\ Answers!AnsweringAssumption /\ Moods!FeelingsAssumption /\ Will!MindsAssumption
    /\ Console!WebTasksAssumption /\ Home!PlanAssumption /\ Around!LifetimesAssumption
    /\ Plans!WeekAssumption

\* What is assumed of the bounds.
ASSUME BoundsAssumption == {MaxTurns, MaxClaims, MaxWaits, MaxTime, MaxAge, MaxTasks} \subseteq Nat

-----------------------------------------------------------------------------
Components == {"answers", "feelings", "mind", "console", "map", "around", "week"}

\* What varies from start to start does so for the component in focus.
Init ==
    /\ focus \in Components
    /\ ~(focus \in {"answers", "mind"}) => backend = "sqlite"
    /\ held \in IF focus = "answers" THEN {{}, Details} ELSE {{}}
    /\ focus # "map" => between = [d \in Doors |-> CHOOSE w \in Written : TRUE]
    /\ focus # "around" => where = CHOOSE p \in Places : TRUE
    /\ focus # "week" => table = Plans!Nothing /\ draw = CHOOSE x \in Plans!Draws : TRUE
    /\ Answers!Init /\ Moods!Init /\ Will!Init /\ Console!Init
    /\ Home!Init /\ Around!Init /\ Plans!Init

NextAnswers ==
    /\ focus = "answers" /\ Answers!Next
    /\ UNCHANGED <<focus, now, feelingVars, mindVars, consoleVars, mapVars,
                   aroundVars, weekVars>>
NextFeelings ==
    /\ focus = "feelings" /\ Moods!Next
    /\ UNCHANGED <<focus, backend, answerVars, mindVars, consoleVars, mapVars,
                   aroundVars, weekVars>>
NextMind ==
    /\ focus = "mind" /\ Will!Next
    /\ UNCHANGED <<focus, turns, answerVars, feelingVars, consoleVars, mapVars,
                   aroundVars, weekVars>>
NextConsole ==
    /\ focus = "console" /\ Console!Next
    /\ UNCHANGED <<focus, backend, now, turns, answerVars, feelingVars, mindVars,
                   mapVars, aroundVars, weekVars>>
NextMap ==
    /\ focus = "map" /\ Home!Next
    /\ UNCHANGED <<focus, backend, now, turns, answerVars, feelingVars, mindVars,
                   consoleVars, aroundVars, weekVars>>
NextAround ==
    /\ focus = "around" /\ Around!Next
    /\ UNCHANGED <<focus, backend, now, turns, answerVars, feelingVars, mindVars,
                   consoleVars, mapVars, weekVars>>
NextWeek ==
    /\ focus = "week" /\ Plans!Next
    /\ UNCHANGED <<focus, backend, now, turns, answerVars, feelingVars, mindVars,
                   consoleVars, mapVars, aroundVars>>

Next ==
    \/ NextAnswers \/ NextFeelings \/ NextMind \/ NextConsole
    \/ NextMap \/ NextAround \/ NextWeek

Spec == Init /\ [][Next]_vars

\* Threads, nights, processes and the tasks of the console are interchangeable.
Symmetry == Permutations(Threads)

-----------------------------------------------------------------------------
\* The states of each component have their types.
TypeOK ==
    /\ focus = "answers" => Answers!TypeOK
    /\ focus = "feelings" => Moods!TypeOK
    /\ focus = "mind" => Will!TypeOK
    /\ focus = "console" => Console!TypeOK
    /\ focus = "map" => Home!TypeOK
    /\ focus = "around" => Around!TypeOK
    /\ focus = "week" => Plans!TypeOK

\* What she says, intends and feels is about the one she shows it to: an answer claims what the
\* memory held, an intention is the last one of its chat, and the mood, its tone, the mistakes
\* noted and a return after long are his (ask, _save_intention, emotion.py, relationship.py).
MindHolds ==
    /\ focus = "answers" => Answers!ClaimsHeld
    /\ focus = "mind" => Will!IntentionsKept
    /\ focus = "feelings" =>
           /\ Moods!BlamedOnlyInOverlap /\ Moods!ToneIsCurrent /\ Moods!BlamedForHisOwn
           /\ Moods!ReturnToldOnce

\* Her surroundings are right: the ways through the home, who and what is about, and a week that
\* keeps to its rules (floorplan.py, environment.py, schedule.py).
SurroundingsAreRight ==
    /\ focus = "map" => Home!WaysAreRight
    /\ focus = "around" => Around!ServedIsOfNow
    /\ focus = "week" => Plans!WeekIsSound

\* An ablation puts back what it switched off, and the history has the evaluations in order
\* (run_ablation, run_task).
ConsolePutsBack == focus = "console" => Console!ConfigPutBack /\ Console!HistoryInOrder
===============================================================================
