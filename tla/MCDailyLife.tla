------------------------------ MODULE MCDailyLife ------------------------------
(***************************************************************************)
(* Daily life: the things at home, where she is, what follows the answer   *)
(* to a group message, consultations and games. Each component has keys    *)
(* and tables of its own, so a run explores one of them at a time: focus   *)
(* says which. stops, raced and unlogged are those of the component in     *)
(* focus.                                                                  *)
(***************************************************************************)
EXTENDS Naturals, FiniteSets, TLC

CONSTANTS Things, Furniture, Hideouts, Table, Box, Capacity, MaxQty, Threads, MaxOps,
          Places, Home, SlotLength, Plan, Travel, Rooms, FirstRoom, Walk, Callers, MaxTime, MaxAsks,
          Texts, Members, SpeakerOf, Facts, Period, Hour, FlushAge, MaxBuffer, MaxClock, MaxEdits,
          Messages, MaxRounds, UrgentRounds,
          Chars, Letters, QuizSize, MaxPoints,
          MaxStops

VARIABLES focus, stops, raced, unlogged,
          inv, at, thread, ops,
          now, pos, room, caller, arrived, entered, asks,
          clock, rows, count, extracted, buffer, task, started, learned, dropped, lost, edits,
          session, asker, asked, advised, aborted, noted,
          idioms, quiz, game, points

itemVars == <<inv, at, thread, ops>>
positionVars == <<now, pos, room, caller, arrived, entered, asks>>
chatVars == <<clock, rows, count, extracted, buffer, task, started, learned, dropped, lost, edits>>
adviserVars == <<session, asker, asked, advised, aborted, noted>>
gameVars == <<idioms, quiz, game, points>>
vars == <<focus, stops, raced, unlogged, itemVars, positionVars, chatVars, adviserVars,
          gameVars>>

\* Values of the constants in a run: a day of the schedule, the ways to its
\* places and between two rooms, and who said what.
MCPlan == [s \in 0..(MaxTime \div SlotLength + 1) |-> <<"home", "studio", "park">>[(s % 3) + 1]]
MCTravel == [p \in Places |-> IF p = "park" THEN 2 ELSE 1]
MCWalk == [r \in Rooms |-> [x \in Rooms |-> IF x = r THEN 0 ELSE 2]]
MCSpeakerOf == [t \in Texts |-> IF t = 2 THEN "m2" ELSE "m1"]

AtHome == INSTANCE Items
Where == INSTANCE Position
Chat == INSTANCE AfterChat
Advice == INSTANCE Adviser
Play == INSTANCE Games

ASSUME ConstantsAssumption ==
    /\ AtHome!ItemsAssumption /\ Where!PositionAssumption /\ Chat!ChatAssumption
    /\ Advice!AdviserAssumption /\ Play!GamesAssumption

\* What varies from start to start does so for the component in focus.
Init ==
    /\ focus \in {"items", "position", "chat", "adviser", "games"}
    /\ AtHome!Init /\ Where!Init /\ Chat!Init /\ Advice!Init /\ Play!Init
    /\ focus # "items" => inv = [t \in Things |-> AtHome!NoRow]
    /\ focus # "chat" => rows = [f \in Facts |-> "none"]
    /\ focus # "games" => idioms = Play!Words /\ \A q \in DOMAIN quiz : quiz[q] = "A"

NextItems ==
    /\ focus = "items" /\ AtHome!Next
    /\ UNCHANGED <<focus, positionVars, chatVars, adviserVars, gameVars>>
NextPosition ==
    /\ focus = "position" /\ Where!Next
    /\ UNCHANGED <<focus, itemVars, chatVars, adviserVars, gameVars>>
NextChat ==
    /\ focus = "chat" /\ Chat!Next
    /\ UNCHANGED <<focus, raced, unlogged, itemVars, positionVars, adviserVars, gameVars>>
NextAdviser ==
    /\ focus = "adviser" /\ Advice!Next
    /\ UNCHANGED <<focus, unlogged, itemVars, positionVars, chatVars, gameVars>>
NextGames ==
    /\ focus = "games" /\ Play!Next
    /\ UNCHANGED <<focus, stops, raced, unlogged, itemVars, positionVars, chatVars,
                   adviserVars>>

\* Threads are interchangeable.
Symmetry == Permutations(Threads)

Next == NextItems \/ NextPosition \/ NextChat \/ NextAdviser \/ NextGames

Spec == Init /\ [][Next]_vars

\* The states of each component have their types; no quantity is negative.
TypeOK ==
    /\ focus = "items" => AtHome!TypeOK
    /\ focus = "position" => Where!TypeOK
    /\ focus = "chat" => Chat!TypeOK
    /\ focus = "adviser" => Advice!TypeOK
    /\ focus = "games" => Play!TypeOK

\* The inventory has a thing where the log of events says it is, and a thing that is used up is not
\* counted as there; she is where the log of events last saw her arrive, and on the way she is due
\* when her slot begins.
PlacesAgree ==
    /\ focus = "items" => AtHome!PlacesAgree /\ AtHome!GoneIsEmpty
    /\ focus = "position" => Where!ArrivalsLogged /\ Where!ArrivesForItsSlot

\* Every answered text is in one place (the buffer of after_chat).
TextsAccounted == focus = "chat" => Chat!TextsAccounted

\* Two extractions of a process are an hour apart (_last_group_extract).
ExtractionsSpaced == Chat!ExtractionsSpaced

\* A consultation keeps its rounds and advises once, and the game under way can go on
\* (consult_turn, _best_bot_word, quiz_guess).
DialoguesGoOn ==
    /\ focus = "adviser" => Advice!AdviceOnce
    /\ focus = "games" => Play!GameCanGoOn
===============================================================================
