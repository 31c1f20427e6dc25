------------------------------- MODULE Sharing -------------------------------
(***************************************************************************)
(* Messages the character sends unasked (memory/sharing.py). One kv record *)
(* for all chats holds the desire to share, its reasons and the counters   *)
(* that limit the messages. Threads of conversations add to it; each pass  *)
(* of sharing_loop (drive_all) asks for every chat whether a message is    *)
(* due, has it written by the LLM, queues it and records it.               *)
(*                                                                         *)
(* How strong the desire is (decay, mood, relation, penalties) decides     *)
(* only whether a message that the limits allow is sent: any such message  *)
(* may be sent here, so the limits hold for every course of the desire.    *)
(*                                                                         *)
(* A driver is                                                             *)
(*   idle       between two chats or two passes                            *)
(*   composing  eligible; the LLM writes, hesitation and the gate decide   *)
(*   marking    the notification is queued                                 *)
(*   recording  its reason is marked and the record read again             *)
(***************************************************************************)
EXTENDS Integers, FiniteSets, SequencesExt

CONSTANTS
    Scopes,    \* private chats with a relationship
    Reasons,   \* what a message can be about
    Generic,   \* the reason used when there is none
    DailyCap,  \* per chat: max_per_day scaled by the relation (1 to 3)
    PerWeek,   \* max_per_week (8 in the code)
    Cooldown,  \* cooldown_hours in ticks
    DayLength, \* ticks per day
    WeekLength,\* days per week
    KeptReasons, \* reasons kept (5 in the code)
    Drivers,   \* sharing_loop threads
    Talkers,   \* agent threads of conversations
    MaxClock,  \* bound: ticks
    MaxTalks,  \* bound: changes by conversations
    MaxStops   \* bound: process restarts

VARIABLES
    clock,    \* the time
    state,    \* kv sharing_state: last trigger, day and week counters, reasons
    sent,     \* kv sharing_sent: the reasons used on its day
    driver,   \* per driver: phase, chat, reason, its now, record read
    talker,   \* per talker: the record read, and the reason to add
    log,      \* notifications queued, in order
    slipped,  \* TRUE once the record was written over a change or not written
    doubled,  \* TRUE once two drivers overlapped, or a restart came before a mark
    talks,    \* changes by conversations so far
    stops     \* restarts so far

vars == <<clock, state, sent, driver, talker, log, slipped, doubled, talks, stops>>

\* There are chats; days and weeks have a length; a week and the list of reasons
\* hold at least one, and so does a day (max(1, ...) in _eligible).
SharingAssumption ==
    /\ {DayLength, WeekLength, PerWeek, KeptReasons} \subseteq Nat \ {0} /\ Cooldown \in Nat
    /\ Scopes # {} /\ DailyCap \in [Scopes -> Nat \ {0}]

Never == -1
Day(t) == t \div DayLength
Week(t) == Day(t) \div WeekLength
Fresh == [last |-> Never, day |-> Never, daily |-> 0, week |-> Never, weekly |-> 0,
          reasons |-> <<>>]
Idle == [phase |-> "idle", scope |-> CHOOSE s \in Scopes : TRUE, reason |-> Generic,
         now |-> 0, read |-> Fresh]
Silent == [phase |-> "silent", reason |-> Generic, read |-> Fresh]

Init ==
    /\ clock = 0
    /\ state = Fresh
    /\ sent = [day |-> Never, reasons |-> {}]
    /\ driver = [d \in Drivers |-> Idle]
    /\ talker = [t \in Talkers |-> Silent]
    /\ log = <<>>
    /\ slipped = FALSE
    /\ doubled = FALSE
    /\ talks = 0
    /\ stops = 0

Tick ==
    /\ clock < MaxClock
    /\ clock' = clock + 1
    /\ UNCHANGED <<state, sent, driver, talker, log, slipped, doubled, talks, stops>>

-----------------------------------------------------------------------------
(* Conversations: add_delta and on_annoyed read the record and put it back. *)

\* add_delta: a reason that is there stays where it is; the last few are kept.
WithReason(st, r) ==
    IF r \in ToSet(st.reasons) THEN st
    ELSE LET all == Append(st.reasons, r) IN
         [st EXCEPT !.reasons =
             SubSeq(all, IF Len(all) > KeptReasons THEN Len(all) - KeptReasons + 1 ELSE 1,
                    Len(all))]

\* on_conversation, the events of the schedule, dreams, gifts: a reason to
\* share. on_annoyed only lowers the desire: Generic stands for no reason.
Hear(t) ==
    /\ talker[t].phase = "silent"
    /\ talks < MaxTalks
    /\ \E r \in Reasons \cup {Generic} :
         talker' = [talker EXCEPT ![t] = [phase |-> "talking", reason |-> r, read |-> state]]
    /\ talks' = talks + 1
    /\ UNCHANGED <<clock, state, sent, driver, log, slipped, doubled, stops>>

Say(t) ==
    /\ talker[t].phase = "talking"
    /\ state' = IF talker[t].reason = Generic THEN talker[t].read
                ELSE WithReason(talker[t].read, talker[t].reason)
    /\ slipped' = (slipped \/ state # talker[t].read)
    /\ talker' = [talker EXCEPT ![t] = Silent]
    /\ UNCHANGED <<clock, sent, driver, log, doubled, talks, stops>>

-----------------------------------------------------------------------------
(* drive *)

\* Seeded faults of _eligible: no cooldown; a daily cap of the wrong side of
\* the boundary; a week that never fills.
EligibleHasty(s, st, now) ==
    /\ ~(st.day = Day(now) /\ st.daily >= DailyCap[s])
    /\ ~(st.week = Week(now) /\ st.weekly >= PerWeek)
EligibleOneMore(s, st, now) ==
    /\ st.last = Never \/ now - st.last >= Cooldown
    /\ ~(st.day = Day(now) /\ st.daily > DailyCap[s])
    /\ ~(st.week = Week(now) /\ st.weekly >= PerWeek)

\* _eligible: cooldown over, day and week not full. The counters are started
\* afresh by nobody: they count on from one day to the next.
Eligible(s, st, now) ==
    /\ st.last = Never \/ now - st.last >= Cooldown
    /\ ~(st.day = Day(now) /\ st.daily >= DailyCap[s])
    /\ ~(st.week = Week(now) /\ st.weekly >= PerWeek)

Reason(st) == IF st.reasons = <<>> THEN Generic ELSE Last(st.reasons)

\* _sent_reasons: of an earlier day none counts.
SentOn(now) == IF sent.day = Day(now) THEN sent.reasons ELSE {}

\* drive, up to the LLM: the chat may get a message, about something new.
Drive(d, s) ==
    /\ driver[d].phase = "idle"
    /\ Eligible(s, state, clock)
    /\ Reason(state) \notin SentOn(clock)
    /\ driver' = [driver EXCEPT ![d] = [phase |-> "composing", scope |-> s,
                    reason |-> Reason(state), now |-> clock, read |-> Fresh]]
    /\ doubled' = (doubled \/ \E e \in Drivers : driver[e].phase # "idle")
    /\ UNCHANGED <<clock, state, sent, talker, log, slipped, talks, stops>>

\* No text, refused by the evidence gate, or dropped by hesitation.
Drop(d) ==
    /\ driver[d].phase = "composing"
    /\ driver' = [driver EXCEPT ![d] = Idle]
    /\ UNCHANGED <<clock, state, sent, talker, log, slipped, doubled, talks, stops>>

\* Seeded fault: the reason is not marked.
MarkNothing(now, r) == UNCHANGED sent

\* _mark_sent_reason.
MarkSentReason(now, r) == sent' = [day |-> Day(now), reasons |-> SentOn(now) \cup {r}]

\* notif_add. What is queued stays queued, whatever becomes of the driver.
Push(d) ==
    /\ driver[d].phase = "composing"
    /\ log' = Append(log, [scope |-> driver[d].scope, reason |-> driver[d].reason,
                           now |-> driver[d].now])
    /\ driver' = [driver EXCEPT ![d].phase = "marking"]
    /\ UNCHANGED <<clock, state, sent, talker, slipped, doubled, talks, stops>>

\* _mark_sent_reason, and the record is read again.
Mark(d) ==
    /\ driver[d].phase = "marking"
    /\ MarkSentReason(driver[d].now, driver[d].reason)
    /\ driver' = [driver EXCEPT ![d].phase = "recording", ![d].read = state]
    /\ UNCHANGED <<clock, state, talker, log, slipped, doubled, talks, stops>>

\* The record of a message sent at now; its day and week are those of now.
Counted(st, now) ==
    [last |-> now, day |-> Day(now), daily |-> st.daily + 1,
     week |-> Week(now), weekly |-> st.weekly + 1, reasons |-> <<>>]

Record(d) ==
    /\ driver[d].phase = "recording"
    /\ state' = Counted(driver[d].read, driver[d].now)
    /\ slipped' = (slipped \/ state # driver[d].read)
    /\ driver' = [driver EXCEPT ![d] = Idle]
    /\ UNCHANGED <<clock, sent, talker, log, doubled, talks, stops>>

\* A restart between queueing and recording forgets the message.
Restart ==
    /\ stops < MaxStops
    /\ stops' = stops + 1
    /\ slipped' = (slipped \/ \E d \in Drivers : driver[d].phase \in {"marking", "recording"})
    /\ doubled' = (doubled \/ \E d \in Drivers : driver[d].phase = "marking")
    /\ driver' = [d \in Drivers |-> Idle]
    /\ talker' = [t \in Talkers |-> Silent]
    /\ UNCHANGED <<clock, state, sent, log, talks>>

Next ==
    \/ Tick
    \/ \E t \in Talkers : Hear(t) \/ Say(t)
    \/ \E d \in Drivers : \/ \E s \in Scopes : Drive(d, s)
                          \/ Drop(d) \/ Push(d) \/ Mark(d) \/ Record(d)
    \/ Restart

Spec == Init /\ [][Next]_vars

-----------------------------------------------------------------------------
Records == [last : Int, day : Int, daily : Nat, week : Int, weekly : Nat,
            reasons : Seq(Reasons)]

TypeOK ==
    /\ clock \in 0..MaxClock
    /\ state \in Records
    /\ sent \in [day : Int, reasons : SUBSET (Reasons \cup {Generic})]
    /\ driver \in [Drivers -> [phase : {"idle", "composing", "marking", "recording"}, scope : Scopes,
                               reason : Reasons \cup {Generic}, now : Nat, read : Records]]
    /\ talker \in [Talkers -> [phase : {"silent", "talking"},
                               reason : Reasons \cup {Generic}, read : Records]]
    /\ log \in Seq([scope : Scopes, reason : Reasons \cup {Generic}, now : Nat])
    /\ {slipped, doubled} \subseteq BOOLEAN
    /\ talks \in 0..MaxTalks /\ stops \in 0..MaxStops

\* The messages before the i-th that were sent on its day, and in its week.
OfDay(i) == {j \in 1..(i - 1) : Day(log[j].now) = Day(log[i].now)}
OfWeek(i) == {j \in 1..(i - 1) : Week(log[j].now) = Week(log[i].now)}

\* While the record was neither overwritten nor cut off, two messages are a
\* cooldown apart, a chat gets none on a day that had its cap of messages to
\* any chat, and none in a week that had the cap of a week: whatever
\* conversations write to the same record meanwhile (_eligible, drive).
RateKept ==
    ~slipped /\ ~doubled =>
      \A i \in 1..Len(log) :
        /\ \A j \in 1..(i - 1) : log[i].now - log[j].now >= Cooldown
        /\ Cardinality(OfDay(i)) < DailyCap[log[i].scope]
        /\ Cardinality(OfWeek(i)) < PerWeek

\* A reason is used once a day, for all chats together (_sent_reasons), also
\* when conversations undo what drive recorded or put back a used reason, and
\* when a restart cuts off the record of the message.
NotRepeated ==
    ~doubled =>
      \A i, j \in 1..Len(log) :
        i # j /\ Day(log[i].now) = Day(log[j].now) => log[i].reason # log[j].reason
===============================================================================
