----------------------------- MODULE MCBackground -----------------------------
(***************************************************************************)
(* Background work: appointments, messages sent unasked, sleep, searches   *)
(* at home, and the connections of the database. Each component has keys   *)
(* of its own in the database, so a run explores one of them at a time:    *)
(* focus says which. stops is that of the component in focus.              *)
(***************************************************************************)
EXTENDS Naturals, FiniteSets, TLC

CONSTANTS Appts, ScopeOf, Scopes, Checkers, Writers, Deployments, MaxPokes, MaxEdits,
          Reasons, Generic, DailyCap, PerWeek, Cooldown, DayLength, WeekLength, KeptReasons,
          Drivers, Talkers, MaxClock, MaxTalks,
          Messages, Urgent, Kept, Threshold, MaxHours,
          Threads, MaxConn, Rows, MaxOps,
          Chats, Steps, MaxAsks,
          MaxStops

VARIABLES focus, stops,
          locked, book, banned, checker, writer, notified, lost, overwritten, edits,
          clock, state, sent, driver, talker, log, slipped, doubled, talks,
          hour, queue, asker, told, cut, dropped, overlap, slept, runner, dreams, mentions,
          blurred,
          owner, depth, conn, thread, ops, db, jammed,
          pending, search, client, loop, stalled, asks

appointmentVars == <<locked, book, banned, checker, writer, notified, lost, overwritten, edits>>
sharingVars == <<clock, state, sent, driver, talker, log, slipped, doubled, talks>>
sleepVars == <<hour, queue, asker, told, cut, dropped, overlap, slept, runner, dreams, mentions,
               blurred>>
poolVars == <<owner, depth, conn, thread, ops, db, jammed>>
searchVars == <<pending, search, client, loop, stalled, asks>>
vars == <<focus, stops, appointmentVars, sharingVars, sleepVars, poolVars, searchVars>>

\* Values of the constants in a run: both appointments are with one user; two
\* messages a day for a close friend.
MCScopeOf == [a \in Appts |-> "close"]
MCDailyCap == [s \in Scopes |-> IF s = "close" THEN 2 ELSE 1]

Appointments == INSTANCE Appointment
Shares == INSTANCE Sharing
Sleeping == INSTANCE Sleep
Pool == INSTANCE PgPool
Searching == INSTANCE ItemSearch WITH Scopes <- Chats, asker <- client

\* The bounds of counters are natural numbers.
BoundsAssumption == {MaxClock, MaxTalks, MaxOps, MaxAsks, MaxStops} \subseteq Nat

ASSUME ConstantsAssumption ==
    /\ BoundsAssumption
    /\ Pool!OwnerAssumption /\ Appointments!AppointmentAssumption
    /\ Searching!StepsAssumption /\ Shares!SharingAssumption /\ Sleeping!SleepAssumption

Init ==
    /\ focus \in {"appointments", "sharing", "sleep", "pool", "search"}
    /\ Appointments!Init /\ Shares!Init /\ Sleeping!Init /\ Pool!Init /\ Searching!Init
    /\ locked \/ focus = "appointments"

NextAppointments ==
    /\ focus = "appointments" /\ Appointments!Next
    /\ UNCHANGED <<focus, stops, sharingVars, sleepVars, poolVars, searchVars>>
NextSharing ==
    /\ focus = "sharing" /\ Shares!Next
    /\ UNCHANGED <<focus, appointmentVars, sleepVars, poolVars, searchVars>>
NextSleep ==
    /\ focus = "sleep" /\ Sleeping!Next
    /\ UNCHANGED <<focus, appointmentVars, sharingVars, poolVars, searchVars>>
NextPool ==
    /\ focus = "pool" /\ Pool!Next
    /\ UNCHANGED <<focus, appointmentVars, sharingVars, sleepVars, searchVars>>
NextSearch ==
    /\ focus = "search" /\ Searching!Next
    /\ UNCHANGED <<focus, appointmentVars, sharingVars, sleepVars, poolVars>>

Next == NextAppointments \/ NextSharing \/ NextSleep \/ NextPool \/ NextSearch

Spec == Init /\ [][Next]_vars

\* Checkers, and the chats of searches, are interchangeable.
Symmetry == Permutations(Checkers) \cup Permutations(Chats)

\* The states of each component have their types; the queue of sleep.py keeps
\* its length.
TypeOK ==
    /\ focus = "appointments" => Appointments!TypeOK
    /\ focus = "sharing" => Shares!TypeOK
    /\ focus = "sleep" => Sleeping!TypeOK
    /\ focus = "pool" => Pool!TypeOK
    /\ focus = "search" => Searching!TypeOK

\* What she promised and what she sends unasked: each poke the list counts is notified once, in one
\* process; cooldown, day, week and reason limit the messages; a search has its next visit, or lost
\* it in a way the code has (check_and_poke, _eligible, _sent_reasons, _start_item_search).
PromisesKept ==
    /\ focus = "appointments" => Appointments!PokesAccounted
    /\ focus = "sharing" => Shares!RateKept /\ Shares!NotRepeated
    /\ focus = "search" => Searching!SearchHasVisit

\* An appointment that is done or removed never waits again.
DoneIsFinal == Appointments!DoneIsFinal

\* What came while she slept is told once or accounted for, and a dream is mentioned in one reply
\* at most (queue_take, context_block).
SleepAccounted ==
    focus = "sleep" => Sleeping!UnreadAccounted /\ Sleeping!DreamMentionedOnce

\* All writes of a transaction are committed or none; what returned is committed, and no idle
\* thread has locked rows (transaction, _maybe_commit).
TransactionAtomic ==
    focus = "pool" => Pool!TransactionAtomic /\ Pool!NothingLeftOpen
===============================================================================
