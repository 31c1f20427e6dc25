-------------------------------- MODULE Sleep --------------------------------
(***************************************************************************)
(* Deep sleep and what is told after it (memory/sleep.py, the decision     *)
(* port of agent/ports.py), for one private chat. In the deep window a     *)
(* message is queued and not answered, unless enough urgent ones came; the *)
(* first message that finds her awake takes the queue and its reply tells  *)
(* of it. A backfill sleeps once a day (night_run) and leaves a dream that *)
(* one reply mentions.                                                     *)
(*                                                                         *)
(* A message is the thread of its agent.ask:                               *)
(*   unsent                                                                *)
(*   queueing   deep: the queue is read                                    *)
(*   counting   deep: the queue is written, to be counted for an emergency *)
(*   taking     awake: the queue is read and turned into a block           *)
(*   recalling  what the reply will tell is settled but for the dream      *)
(*   mentioning the dreams are read and not told yet                       *)
(*   answering  the LLM                                                    *)
(*   silent, answered, failed                                              *)
(* How many interruptions a day had only colours texts and is left out.    *)
(***************************************************************************)
EXTENDS Integers, FiniteSets, SequencesExt

CONSTANTS
    Messages,  \* messages, numbered in the order they arrive
    Urgent,    \* is_urgent
    Kept,      \* queue_add: messages kept (10 in the code)
    Threshold, \* emergency_wake: urgent messages in the window (2 in the code)
    MaxHours,  \* bound: changes of the mode
    MaxStops   \* bound: process restarts

VARIABLES
    hour,    \* changes of the mode so far
    queue,   \* kv sleep_queue of the chat
    asker,   \* per message: phase, queue read, dream read, what the reply tells
    told,    \* per message: replies that told of it
    cut,     \* messages the limit of the queue has pushed out
    dropped, \* messages taken whose reply failed or was cut off by a restart
    overlap, \* TRUE once the queue was written over a change
    slept,   \* kv last_sleep: the last day slept
    runner,  \* night_run: phase and day
    dreams,  \* kv dreams: the day and whether it was told
    mentions,\* per day: replies that mentioned its dream
    blurred, \* TRUE once the dreams were written over a change
    stops    \* restarts so far

vars == <<hour, queue, asker, told, cut, dropped, overlap,
          slept, runner, dreams, mentions, blurred, stops>>

\* The queue keeps at least one message.
SleepAssumption == Kept \in Nat \ {0} /\ MaxHours \in Nat

NoDay == -1
Days == 0..((MaxHours + 1) \div 2)
NoDream == [day |-> NoDay, told |-> FALSE]
Unsent == [phase |-> "unsent", read |-> <<>>, dream |-> NoDream, tells |-> <<>>, dreamt |-> NoDay]
Phases == {"unsent", "queueing", "counting", "taking", "recalling", "mentioning",
           "answering", "silent", "answered", "failed"}

Init ==
    /\ hour = 0
    /\ queue = <<>>
    /\ asker = [m \in Messages |-> Unsent]
    /\ told = [m \in Messages |-> 0]
    /\ cut = {}
    /\ dropped = {}
    /\ overlap = FALSE
    /\ slept = NoDay
    /\ runner = [phase |-> "idle", day |-> NoDay]
    /\ dreams = NoDream
    /\ mentions = [d \in Days |-> 0]
    /\ blurred = FALSE
    /\ stops = 0

\* sleep_mode: a day begins with its deep window. Standby answers like awake.
SleepMode == IF hour % 2 = 0 THEN "awake" ELSE "deep"
Today == (hour + 1) \div 2

Tick ==
    /\ hour < MaxHours
    /\ hour' = hour + 1
    /\ UNCHANGED <<queue, asker, told, cut, dropped, overlap, slept, runner, dreams, mentions,
                   blurred, stops>>

-----------------------------------------------------------------------------
(* agent.ask: the decision port, then the reply *)

Step(m, to) == asker' = [asker EXCEPT ![m] = to]
At(m, phase) == asker[m].phase = phase

\* Messages arrive in order; an earlier one may still be in the LLM, for the
\* thread of a question that was given up goes on.
Arrive(m) ==
    /\ At(m, "unsent")
    /\ \A n \in Messages : n < m => ~At(n, "unsent")
    /\ Step(m, [Unsent EXCEPT !.phase = IF SleepMode = "deep" THEN "queueing"
                                        ELSE IF queue = <<>> THEN "recalling" ELSE "taking",
                              !.read = queue])
    /\ UNCHANGED <<hour, queue, told, cut, dropped, overlap, slept, runner, dreams, mentions,
                   blurred, stops>>

\* Seeded fault: one more is kept.
NewestAndOne(q) == SubSeq(q, IF Len(q) > Kept + 1 THEN Len(q) - Kept ELSE 1, Len(q))

\* The limit keeps the newest.
Newest(q) == SubSeq(q, IF Len(q) > Kept THEN Len(q) - Kept + 1 ELSE 1, Len(q))

QueueAdd(m) ==
    /\ At(m, "queueing")
    /\ LET all == Append(asker[m].read, m) IN
       /\ queue' = Newest(all)
       /\ cut' = cut \cup (ToSet(all) \ ToSet(Newest(all)))
    /\ overlap' = (overlap \/ queue # asker[m].read)
    /\ Step(m, [Unsent EXCEPT !.phase = "counting"])
    /\ UNCHANGED <<hour, told, dropped, slept, runner, dreams, mentions, blurred, stops>>

\* emergency_wake: urgent, and enough urgent ones in the last half hour. Which
\* of the others are that recent depends on the clock.
EmergencyWake(m) ==
    /\ At(m, "counting")
    /\ \E recent \in SUBSET (ToSet(queue) \cap Urgent) :
         /\ m \in recent \/ m \notin ToSet(queue)
         /\ Step(m, [Unsent EXCEPT !.phase =
                       IF m \in Urgent /\ Cardinality(recent) >= Threshold
                       THEN "recalling" ELSE "silent"])
    /\ UNCHANGED <<hour, queue, told, cut, dropped, overlap, slept, runner, dreams, mentions,
                   blurred, stops>>

\* Seeded fault: the block is built from a queue that stays.
TakeNothing(m) ==
    /\ At(m, "taking")
    /\ Step(m, [Unsent EXCEPT !.phase = "recalling", !.tells = asker[m].read])
    /\ UNCHANGED <<hour, queue, told, cut, dropped, overlap, slept, runner, dreams, mentions,
                   blurred, stops>>

\* queue_take empties the queue; the block holds what was read before.
QueueTake(m) ==
    /\ At(m, "taking")
    /\ queue' = <<>>
    /\ overlap' = (overlap \/ queue # asker[m].read)
    /\ Step(m, [Unsent EXCEPT !.phase = "recalling", !.tells = asker[m].read])
    /\ UNCHANGED <<hour, told, cut, dropped, slept, runner, dreams, mentions, blurred, stops>>

\* context_block: a dream that nobody asked for and that is not told yet. It is
\* passed over when it is old or the user is not to be disturbed.
Recall(m) ==
    /\ At(m, "recalling")
    /\ \/ Step(m, [asker[m] EXCEPT !.phase = "answering"])
       \/ /\ dreams # NoDream /\ ~dreams.told
          /\ Step(m, [asker[m] EXCEPT !.phase = "mentioning", !.dream = dreams])
    /\ UNCHANGED <<hour, queue, told, cut, dropped, overlap, slept, runner, dreams, mentions,
                   blurred, stops>>

\* Seeded fault: the dream is not marked.
MentionUnmarked(m) ==
    /\ At(m, "mentioning")
    /\ Step(m, [asker[m] EXCEPT !.phase = "answering", !.dream = NoDream,
                                !.dreamt = asker[m].dream.day])
    /\ UNCHANGED <<hour, queue, told, cut, dropped, overlap, slept, runner, dreams, mentions,
                   blurred, stops>>

Mention(m) ==
    /\ At(m, "mentioning")
    /\ dreams' = [asker[m].dream EXCEPT !.told = TRUE]
    /\ blurred' = (blurred \/ dreams # asker[m].dream)
    /\ Step(m, [asker[m] EXCEPT !.phase = "answering", !.dream = NoDream,
                                !.dreamt = asker[m].dream.day])
    /\ UNCHANGED <<hour, queue, told, cut, dropped, overlap, slept, runner, mentions, stops>>

\* The reply tells of all that was unread and of the dream.
Answer(m) ==
    /\ At(m, "answering")
    /\ told' = [n \in Messages |-> told[n] + (IF n \in ToSet(asker[m].tells) THEN 1 ELSE 0)]
    /\ mentions' = [d \in Days |-> mentions[d] + (IF d = asker[m].dreamt THEN 1 ELSE 0)]
    /\ Step(m, [Unsent EXCEPT !.phase = "answered"])
    /\ UNCHANGED <<hour, queue, cut, dropped, overlap, slept, runner, dreams, blurred, stops>>

\* The LLM or the search fails: a fallback text, and the block is gone.
Fail(m) ==
    /\ At(m, "answering")
    /\ dropped' = dropped \cup ToSet(asker[m].tells)
    /\ Step(m, [Unsent EXCEPT !.phase = "failed"])
    /\ UNCHANGED <<hour, queue, told, cut, overlap, slept, runner, dreams, mentions, blurred, stops>>

-----------------------------------------------------------------------------
(* night_run: once a day, marked first *)

Fall ==
    /\ runner.phase = "idle"
    /\ slept # Today
    /\ slept' = Today
    /\ runner' = [phase |-> "asleep", day |-> Today]
    /\ UNCHANGED <<hour, queue, asker, told, cut, dropped, overlap, dreams, mentions, blurred, stops>>

\* Consolidation and the dreams, with the LLM; then the dreams are written.
Dream ==
    /\ runner.phase = "asleep"
    /\ dreams' = [day |-> runner.day, told |-> FALSE]
    /\ runner' = [phase |-> "idle", day |-> NoDay]
    /\ UNCHANGED <<hour, queue, asker, told, cut, dropped, overlap, slept, mentions, blurred, stops>>

\* The process of the bot and of the backfill restart.
Restart ==
    /\ stops < MaxStops
    /\ stops' = stops + 1
    /\ dropped' = dropped \cup UNION {ToSet(asker[m].tells) : m \in Messages}
    /\ asker' = [m \in Messages |->
                   IF asker[m].phase \in {"unsent", "silent", "answered", "failed"} THEN asker[m]
                   ELSE [Unsent EXCEPT !.phase = "failed"]]
    /\ runner' = [phase |-> "idle", day |-> NoDay]
    /\ UNCHANGED <<hour, queue, told, cut, overlap, slept, dreams, mentions, blurred>>

Next ==
    \/ Tick
    \/ \E m \in Messages : \/ Arrive(m) \/ QueueAdd(m) \/ EmergencyWake(m) \/ QueueTake(m)
                           \/ Recall(m) \/ Mention(m) \/ Answer(m) \/ Fail(m)
    \/ Fall \/ Dream
    \/ Restart

Spec == Init /\ [][Next]_vars

-----------------------------------------------------------------------------
Dreams == [day : Days \cup {NoDay}, told : BOOLEAN]

TypeOK ==
    /\ hour \in 0..MaxHours
    /\ queue \in Seq(Messages) /\ Len(queue) <= Kept
    /\ asker \in [Messages -> [phase : Phases, read : Seq(Messages), dream : Dreams,
                               tells : Seq(Messages), dreamt : Days \cup {NoDay}]]
    /\ told \in [Messages -> Nat]
    /\ {cut, dropped} \subseteq SUBSET Messages
    /\ {overlap, blurred} \subseteq BOOLEAN
    /\ slept \in Days \cup {NoDay}
    /\ runner \in [phase : {"idle", "asleep"}, day : Days \cup {NoDay}]
    /\ dreams \in Dreams
    /\ mentions \in [Days -> Nat]
    /\ stops \in 0..MaxStops

Count(P) == IF P THEN 1 ELSE 0

\* A message she did not hear (silent) is in one place: in the queue, in the
\* reply that is being written, told, pushed out by the limit, or dropped with
\* a reply that failed. None is told twice and none just disappears, while no
\* two threads interleave their reads and writes of the queue.
UnreadAccounted ==
    ~overlap =>
      \A m \in Messages : At(m, "silent") =>
        Count(m \in ToSet(queue)) + told[m] + Count(m \in cut) + Count(m \in dropped)
          + Cardinality({n \in Messages : m \in ToSet(asker[n].tells)}) = 1

\* A dream is mentioned of her own accord in one reply at most, while no thread
\* writes the dreams over those of the next night or of another thread.
DreamMentionedOnce == ~blurred => \A d \in Days : mentions[d] <= 1
===============================================================================
