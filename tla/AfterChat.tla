------------------------------- MODULE AfterChat -------------------------------
(***************************************************************************)
(* What happens to a group message after its answer (after_chat of         *)
(* plugins/memory.py): a task per message rewrites the memory of the group *)
(* and its count of messages, now and then extracts facts about the group, *)
(* and hands the text to ingest, at once or, if it says little, with       *)
(* others of its member from a buffer. Tasks of several messages overlap   *)
(* at their awaits.                                                        *)
(*                                                                         *)
(* A task is                                                               *)
(*   none        the message has not been answered                         *)
(*   extracting  extract_facts, with the rows and the count read before    *)
(*   ingesting   ingest of what was extracted                              *)
(*   parsing     propose_world_delta                                       *)
(*   learning    ingest of texts                                           *)
(*   done                                                                  *)
(***************************************************************************)
EXTENDS Integers, FiniteSets

CONSTANTS
    Texts,     \* messages, numbered as they come
    Members,
    SpeakerOf, \* the member who wrote a text
    Facts,     \* facts about the group
    Period,    \* messages per extraction (8 in the code)
    Hour,      \* between two extractions (3600 s)
    FlushAge,  \* age at which a buffer is flushed (IGT_FLUSH_SEC)
    MaxBuffer, \* texts at which it is (IGT_MAX_BUFFER)
    MaxClock,  \* bound: ticks
    MaxEdits,  \* bound: changes of facts by others
    MaxStops   \* bound: process restarts

VARIABLES
    clock,     \* the time
    rows,      \* memories of group_all: status per fact
    count,     \* kv: messages counted
    extracted, \* _last_group_extract of the process
    buffer,    \* _sess_buffer of the process: texts and time of the first, per member
    task,      \* per text: phase, facts and count read, time, texts to ingest
    started,   \* time of the last start of an extraction in this process
    learned,   \* per text: how often ingest took it
    dropped,   \* texts discarded with their buffer
    lost,      \* texts of a failed ingest, or that a restart took
    edits,     \* changes of facts by others so far
    stops      \* restarts so far

vars == <<clock, rows, count, extracted, buffer, task, started, learned, dropped, lost, edits,
          stops>>

\* Every text has a member who wrote it.
ChatAssumption ==
    /\ IsFiniteSet(Texts) /\ SpeakerOf \in [Texts -> Members]
    /\ {Hour, MaxClock, MaxEdits, MaxStops} \subseteq Nat

Statuses == {"none", "active", "superseded"}
Never == -Hour
NoBuffer == [texts |-> {}, first |-> 0]
NoTask == [phase |-> "none", facts |-> {}, count |-> 0, now |-> 0, texts |-> {}]
Present == {f \in Facts : rows[f] # "none"}

Init ==
    /\ clock = 0
    /\ rows \in [Facts -> {"none", "active"}]
    /\ count = 0
    /\ extracted = Never
    /\ buffer = [m \in Members |-> NoBuffer]
    /\ task = [t \in Texts |-> NoTask]
    /\ started = Never
    /\ learned = [t \in Texts |-> 0]
    /\ dropped = {}
    /\ lost = {}
    /\ edits = 0
    /\ stops = 0

Tick ==
    /\ clock < MaxClock
    /\ clock' = clock + 1
    /\ UNCHANGED <<rows, count, extracted, buffer, task, started, learned, dropped, lost, edits, stops>>

\* The nightly scans supersede a fact; the admin page adds one.
Change(f) ==
    /\ edits < MaxEdits
    /\ edits' = edits + 1
    /\ rows[f] # "superseded"
    /\ rows' = [rows EXCEPT ![f] = IF rows[f] = "none" THEN "active" ELSE "superseded"]
    /\ UNCHANGED <<clock, count, extracted, buffer, task, started, learned, dropped, lost, stops>>

Become(t, to) == task' = [task EXCEPT ![t] = to]
Parsing == [NoTask EXCEPT !.phase = "parsing", !.now = clock]

\* save_group_memory: the rows are deleted and written again, without a column
\* for their status, which becomes its default.
Save(facts, n) ==
    /\ rows' = [f \in Facts |-> IF f \in facts THEN "active" ELSE "none"]
    /\ count' = n

-----------------------------------------------------------------------------
(* The memory of the group *)

Answered(t) ==
    /\ task[t].phase = "none"
    /\ \A u \in Texts : u < t => task[u].phase # "none"

\* Seeded fault: the extraction is noted when it is over.
StartExtractionUnnoted(t) ==
    /\ Answered(t)
    /\ (count + 1) % Period = 0 /\ clock - extracted >= Hour
    /\ started' = clock
    /\ Become(t, [NoTask EXCEPT !.phase = "extracting", !.facts = Present, !.count = count + 1])
    /\ UNCHANGED <<clock, rows, count, extracted, buffer, learned, dropped, lost, edits, stops>>

\* Every Period messages, an hour after the last time: the LLM extracts facts.
StartExtraction(t) ==
    /\ Answered(t)
    /\ (count + 1) % Period = 0 /\ clock - extracted >= Hour
    /\ extracted' = clock
    /\ started' = clock
    /\ Become(t, [NoTask EXCEPT !.phase = "extracting", !.facts = Present, !.count = count + 1])
    /\ UNCHANGED <<clock, rows, count, buffer, learned, dropped, lost, edits, stops>>

\* Any other message is counted, and the group's rows are written back.
CountMessage(t) ==
    /\ Answered(t)
    /\ ~((count + 1) % Period = 0 /\ clock - extracted >= Hour)
    /\ Save(Present, count + 1)
    /\ Become(t, Parsing)
    /\ UNCHANGED <<clock, extracted, buffer, started, learned, dropped, lost, edits, stops>>

\* Nothing was extracted: what was read before is written.
ExtractedNothing(t) ==
    /\ task[t].phase = "extracting"
    /\ Save(task[t].facts, task[t].count)
    /\ Become(t, Parsing)
    /\ UNCHANGED <<clock, extracted, buffer, started, learned, dropped, lost, edits, stops>>

Extracted(t) ==
    /\ task[t].phase = "extracting"
    /\ Become(t, [task[t] EXCEPT !.phase = "ingesting"])
    /\ UNCHANGED <<clock, rows, count, extracted, buffer, started, learned, dropped, lost, edits, stops>>

\* The facts are stored, then the group's memory is read again and written back,
\* with the count as others left it.
IngestedGroup(t, new) ==
    /\ task[t].phase = "ingesting"
    /\ Save(Present \cup new, count)
    /\ Become(t, Parsing)
    /\ UNCHANGED <<clock, extracted, buffer, started, learned, dropped, lost, edits, stops>>

-----------------------------------------------------------------------------
(* The member's texts. The time is that of the task before propose_world_delta. *)

Parsed(t) == task[t].phase = "parsing"
Learning(t, texts) == Become(t, [NoTask EXCEPT !.phase = "learning", !.texts = texts])
Filled(t) ==
    LET b == buffer[SpeakerOf[t]]
    IN [texts |-> b.texts \cup {t}, first |-> IF b.texts = {} THEN task[t].now ELSE b.first]
Full(t) ==
    \/ Cardinality(Filled(t).texts) >= MaxBuffer
    \/ task[t].now - Filled(t).first >= FlushAge

\* The text says little (message_gain below the threshold) and waits.
Buffer(t) ==
    /\ Parsed(t) /\ ~Full(t)
    /\ buffer' = [buffer EXCEPT ![SpeakerOf[t]] = Filled(t)]
    /\ Become(t, [NoTask EXCEPT !.phase = "done"])
    /\ UNCHANGED <<clock, rows, count, extracted, started, learned, dropped, lost, edits, stops>>

\* Seeded fault: the buffer stays after it was flushed.
FlushKept(t) ==
    /\ Parsed(t) /\ Full(t)
    /\ Learning(t, Filled(t).texts)
    /\ buffer' = [buffer EXCEPT ![SpeakerOf[t]] = Filled(t)]
    /\ UNCHANGED <<clock, rows, count, extracted, started, learned, dropped, lost, edits, stops>>

\* It says little and fills the buffer, or the buffer is old.
Flush(t) ==
    /\ Parsed(t) /\ Full(t)
    /\ Learning(t, Filled(t).texts)
    /\ buffer' = [buffer EXCEPT ![SpeakerOf[t]] = NoBuffer]
    /\ UNCHANGED <<clock, rows, count, extracted, started, learned, dropped, lost, edits, stops>>

\* It says much, or corrects: the buffer is discarded, whatever it holds.
LearnAtOnce(t) ==
    /\ Parsed(t)
    /\ Learning(t, {t})
    /\ dropped' = dropped \cup buffer[SpeakerOf[t]].texts
    /\ buffer' = [buffer EXCEPT ![SpeakerOf[t]] = NoBuffer]
    /\ UNCHANGED <<clock, rows, count, extracted, started, learned, lost, edits, stops>>

Learn(t) ==
    /\ task[t].phase = "learning"
    /\ learned' = [u \in Texts |-> IF u \in task[t].texts THEN learned[u] + 1 ELSE learned[u]]
    /\ Become(t, [NoTask EXCEPT !.phase = "done"])
    /\ UNCHANGED <<clock, rows, count, extracted, buffer, started, dropped, lost, edits, stops>>

\* ingest raises, and the task ends.
LearnFails(t) ==
    /\ task[t].phase = "learning"
    /\ lost' = lost \cup task[t].texts
    /\ Become(t, [NoTask EXCEPT !.phase = "done"])
    /\ UNCHANGED <<clock, rows, count, extracted, buffer, started, learned, dropped, edits, stops>>

-----------------------------------------------------------------------------
Buffered == UNION {buffer[m].texts : m \in Members}
Holders(t) ==
    {u \in Texts : \/ u = t /\ task[u].phase \in {"extracting", "ingesting", "parsing"}
                   \/ task[u].phase = "learning" /\ t \in task[u].texts}

Restart ==
    /\ stops < MaxStops
    /\ stops' = stops + 1
    /\ extracted' = Never
    /\ started' = Never
    /\ lost' = lost \cup Buffered \cup {t \in Texts : Holders(t) # {}}
    /\ buffer' = [m \in Members |-> NoBuffer]
    /\ task' = [t \in Texts |-> IF task[t].phase = "none" THEN NoTask
                                ELSE [NoTask EXCEPT !.phase = "done"]]
    /\ UNCHANGED <<clock, rows, count, learned, dropped, edits>>

Next ==
    \/ Tick \/ Restart
    \/ \E f \in Facts : Change(f)
    \/ \E t \in Texts : \/ StartExtraction(t) \/ CountMessage(t) \/ ExtractedNothing(t)
                        \/ Extracted(t) \/ \E new \in SUBSET Facts : IngestedGroup(t, new)
                        \/ Buffer(t) \/ Flush(t) \/ LearnAtOnce(t) \/ Learn(t) \/ LearnFails(t)

Spec == Init /\ [][Next]_vars

-----------------------------------------------------------------------------
TypeOK ==
    /\ clock \in 0..MaxClock
    /\ rows \in [Facts -> Statuses]
    /\ count \in 0..Cardinality(Texts)
    /\ {extracted, started} \subseteq (0..MaxClock) \cup {Never}
    /\ buffer \in [Members -> [texts : SUBSET Texts, first : 0..MaxClock]]
    /\ task \in [Texts -> [phase : {"none", "extracting", "ingesting", "parsing", "learning", "done"},
                           facts : SUBSET Facts, count : Nat, now : 0..MaxClock,
                           texts : SUBSET Texts]]
    /\ learned \in [Texts -> Nat]
    /\ dropped \subseteq Texts /\ lost \subseteq Texts
    /\ edits \in 0..MaxEdits /\ stops \in 0..MaxStops

Count(P) == IF P THEN 1 ELSE 0

\* Every answered text is in one place: in a task, in its buffer, learned once,
\* discarded with its buffer, or lost in a restart or a failure; however the
\* tasks of the chat overlap (the buffer of after_chat).
TextsAccounted ==
    \A t \in Texts :
      learned[t] + Cardinality(Holders(t))
        + Count(t \in Buffered) + Count(t \in dropped) + Count(t \in lost)
      = Count(task[t].phase # "none")

\* Two extractions of one process start an hour apart, though the count they
\* hang on is read before an await and written after it (_last_group_extract).
ExtractionsSpaced ==
    [][started' # started /\ started # Never /\ started' # Never => clock - started >= Hour]_vars
===============================================================================
