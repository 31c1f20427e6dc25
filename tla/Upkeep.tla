--------------------------------- MODULE Upkeep ---------------------------------
(***************************************************************************)
(* The night's upkeep of what she remembers of one chat, next to the chat  *)
(* itself: a topic with many facts is condensed into a summary and its     *)
(* facts lose weight (backfill.consolidate_topics), short facts of one     *)
(* conversation are merged into whole ones (backfill.merge_fragments), and *)
(* confidence is calibrated by what investigations found (policy). The     *)
(* chat goes on while the model is asked. Confidence counts in levels:     *)
(* each discount, whatever its factor, takes one away.                     *)
(***************************************************************************)
EXTENDS Naturals, FiniteSets

CONSTANTS Facts,        \* what the user may have said, all of one topic
          Short,        \* the facts of fewer than fifteen characters
          Talk,         \* [Texts -> talks]: texts dated within minutes of each other
          Whole,        \* [talks -> texts]: the fact a talk's fragments merge into
          Summary,      \* the text the model condenses the topic into
          Chain,        \* the facts strung together, for want of a summary
          MinFacts,     \* a topic is condensed from so many facts on
          Top,          \* the highest level of confidence
          MaxVerdicts,  \* bound on the investigations
          MaxNights,    \* bound on the nights
          MaxEdits      \* bound on what the chat changes

Talks == DOMAIN Whole
Wholes == {Whole[k] : k \in Talks}
Texts == Facts \cup Wholes \cup {Summary, Chain}

\* What is assumed of the constants: condensed texts have rows of their own (key
\* "consolidated").
UpkeepAssumption ==
    /\ MinFacts \in Nat \ {0} /\ Top \in Nat \ {0}
    /\ {Summary, Chain} \cap Facts = {}
    /\ Short \subseteq Texts

NoRow == [status |-> "none", conf |-> 0]

VARIABLES rows,         \* the table memories, one row per text
          topic,        \* the facts listed under the topic
          stage,        \* what the night is doing
          todo,         \* the facts, then the talks, it still has to treat
          held,         \* <<text, level>>: rows it read and has not written yet
          verdicts,     \* feedback_log: findings of investigations, oldest first
          mapping,      \* the calibration: what the findings said of a level
          nights, edits,
          lowered       \* facts the consolidation took weight from

vars == <<rows, topic, stage, todo, held, verdicts, mapping, nights, edits, lowered>>

Active(text, level) == [status |-> "active", conf |-> level]
Exists(text) == rows[text].status # "none"
Discounted(level) == IF level = 0 THEN 0 ELSE level - 1

(***************************************************************************)
(* The tables.                                                             *)
(***************************************************************************)
\* A row that exists is written over, and is active again (memory_add).
MemoryAdd(text, level) == [rows EXCEPT ![text] = Active(text, level)]

\* A row that is gone stays gone (memory_set_confidence).
SetConfidence(text, level) ==
    IF Exists(text) THEN [rows EXCEPT ![text].conf = level] ELSE rows

Init ==
    /\ rows = [t \in Texts |-> NoRow] /\ topic = {}
    /\ stage = "day" /\ todo = {} /\ held = {}
    /\ verdicts = {} /\ mapping = [c \in {} |-> 0]
    /\ nights = 0 /\ edits = 0
    /\ lowered = {}

(***************************************************************************)
(* The chat.                                                               *)
(***************************************************************************)
Edit == edits < MaxEdits /\ edits' = edits + 1

Learn(f) ==
    /\ Edit /\ ~Exists(f)
    /\ rows' = MemoryAdd(f, Top - 1)
    /\ topic' = topic \cup {f}
    /\ UNCHANGED <<stage, todo, held, verdicts, mapping, nights, lowered>>

Confirm(f) ==
    /\ Edit /\ Exists(f) /\ rows[f].conf < Top
    /\ rows' = SetConfidence(f, rows[f].conf + 1)
    /\ UNCHANGED <<topic, stage, todo, held, verdicts, mapping, nights, lowered>>

Supersede(f) ==
    /\ Edit /\ rows[f].status = "active"
    /\ rows' = [rows EXCEPT ![f].status = "superseded"]
    /\ UNCHANGED <<topic, stage, todo, held, verdicts, mapping, nights, lowered>>

\* The row goes, the list of the topic keeps its text (forget).
Forget(f) ==
    /\ Edit /\ Exists(f)
    /\ rows' = [rows EXCEPT ![f] = NoRow]
    /\ UNCHANGED <<topic, stage, todo, held, verdicts, mapping, nights, lowered>>

\* An investigation files what it found: update, uncertain or keep.
Investigate(f, label) ==
    /\ Cardinality(verdicts) < MaxVerdicts
    /\ verdicts' = verdicts \cup {<<Cardinality(verdicts), f, label>>}
    /\ UNCHANGED <<rows, topic, stage, todo, held, mapping, nights, edits, lowered>>

(***************************************************************************)
(* consolidate_topics                                                      *)
(***************************************************************************)
NightBegins ==
    /\ stage = "day" /\ nights < MaxNights
    /\ nights' = nights + 1
    /\ stage' = IF Cardinality(topic) < MinFacts THEN "fragments" ELSE "condense"
    /\ UNCHANGED <<rows, topic, todo, held, verdicts, mapping, edits, lowered>>

\* As Condense, but a model that does not answer leaves nothing.
CondenseOrNothing ==
    /\ stage = "condense"
    /\ \E summary \in {Summary, ""} :
           rows' = IF summary = "" THEN rows ELSE MemoryAdd(summary, Top - 1)
    /\ todo' = topic
    /\ stage' = "lower"
    /\ UNCHANGED <<topic, held, verdicts, mapping, nights, edits, lowered>>

\* The summary is the model's, as JSON or plain text; when it has none the facts are strung
\* together. It is filed before any fact loses weight.
Condense ==
    /\ stage = "condense"
    /\ \E summary \in {Summary, Chain} : rows' = MemoryAdd(summary, Top - 1)
    /\ todo' = topic
    /\ stage' = "lower"
    /\ UNCHANGED <<topic, held, verdicts, mapping, nights, edits, lowered>>

\* Each fact is looked up again and given four fifths of its weight; the two are two calls.
LookUp(f) ==
    /\ stage = "lower" /\ f \in todo /\ held = {}
    /\ todo' = todo \ {f}
    /\ held' = {<<f, rows[f].conf>> : x \in {y \in {f} : Exists(y)}}
    /\ UNCHANGED <<rows, topic, stage, verdicts, mapping, nights, edits, lowered>>

Lower(f, level) ==
    /\ stage = "lower" /\ <<f, level>> \in held
    /\ rows' = SetConfidence(f, Discounted(level))
    /\ lowered' = lowered \cup {f}
    /\ held' = {}
    /\ UNCHANGED <<topic, stage, todo, verdicts, mapping, nights, edits>>

TopicsDone ==
    /\ stage = "lower" /\ todo = {} /\ held = {}
    /\ stage' = "fragments"
    /\ UNCHANGED <<rows, topic, todo, held, verdicts, mapping, nights, edits, lowered>>

(***************************************************************************)
(* merge_fragments: rows of any status and key are read at once, and put   *)
(* together by when they were said.                                        *)
(***************************************************************************)
Group(k) == {h \in held : Talk[h[1]] = k}

ReadFragments ==
    LET short == {t \in Short : Exists(t)}
        talks == {k \in Talks : Cardinality({t \in short : Talk[t] = k}) > 1}
    IN /\ stage = "fragments"
       /\ stage' = "merge" /\ todo' = talks
       /\ held' = {<<t, rows[t].conf>> : t \in short}
       /\ UNCHANGED <<rows, topic, verdicts, mapping, nights, edits, lowered>>

\* The model answers with texts: new ones are filed, and what it did not repeat loses half its
\* weight, of the weight read before. An answer that is no list changes nothing.
MergeTalk(k, merged) ==
    LET orig == {h[1] : h \in Group(k)}
        filed == merged \ orig
    IN /\ stage = "merge" /\ k \in todo
       /\ merged \subseteq orig \cup {Whole[k]}
       /\ todo' = todo \ {k}
       /\ rows' = IF merged = {} THEN rows
                  ELSE [t \in Texts |->
                           IF t \in filed THEN Active(t, Top - 1)
                           ELSE IF t \in orig \ merged /\ Exists(t)
                           THEN [rows[t] EXCEPT !.conf =
                                    Discounted((CHOOSE h \in held : h[1] = t)[2])]
                           ELSE rows[t]]
       /\ UNCHANGED <<topic, stage, held, verdicts, mapping, nights, edits, lowered>>

NightEnds ==
    /\ stage = "merge" /\ todo = {}
    /\ stage' = "day" /\ held' = {}
    /\ UNCHANGED <<rows, topic, todo, verdicts, mapping, nights, edits, lowered>>

(***************************************************************************)
(* calibrate_from_feedback: the findings are counted at the level their    *)
(* row has now; two findings make a level's entry, and the entries are     *)
(* replaced as a whole, unless there are none.                             *)
(***************************************************************************)
LevelOf(f) == IF Exists(f) THEN rows[f].conf ELSE Top - 1

\* Of two halves a finding is worth none when it is update, one when it is uncertain, both when
\* it is keep.
Halves(found) ==
    Cardinality({v \in found : v[3] = "uncertain"}) + 2 * Cardinality({v \in found : v[3] = "keep"})

Calibrate ==
    LET at(c) == {v \in verdicts : LevelOf(v[2]) = c}
        trained == {c \in 0..Top : Cardinality(at(c)) > 1}
    IN /\ trained # {}
       /\ mapping' = [c \in trained |-> (Top * Halves(at(c))) \div (2 * Cardinality(at(c)))]
       /\ UNCHANGED <<rows, topic, stage, todo, held, verdicts, nights, edits, lowered>>

\* What retrieval takes a row's confidence to be (calibrate_adjust).
Adjusted(level) == IF level \in DOMAIN mapping THEN mapping[level] ELSE level

Next ==
    \/ \E f \in Facts : Learn(f) \/ Confirm(f) \/ Supersede(f) \/ Forget(f) \/ LookUp(f)
    \/ \E f \in Facts, label \in {"update", "uncertain", "keep"} : Investigate(f, label)
    \/ NightBegins \/ Condense \/ TopicsDone \/ ReadFragments \/ NightEnds \/ Calibrate
    \/ \E h \in held : Lower(h[1], h[2])
    \/ \E k \in Talks, merged \in SUBSET Texts : MergeTalk(k, merged)

Spec == Init /\ [][Next]_vars

(***************************************************************************)
(* Properties                                                              *)
(***************************************************************************)
TypeOK ==
    /\ rows \in [Texts -> [status : {"none", "active", "superseded"}, conf : 0..Top]]
    /\ topic \subseteq Facts /\ lowered \subseteq Facts
    /\ stage \in {"day", "condense", "lower", "fragments", "merge"}
    /\ todo \subseteq Facts \cup Talks /\ held \subseteq Texts \X (0..Top)
    /\ \A c \in DOMAIN mapping : c \in 0..Top /\ Adjusted(c) \in 0..Top
    /\ nights \in 0..MaxNights /\ edits \in 0..MaxEdits

\* A fact loses weight to a summary only when its topic has one on file, whatever the model
\* answered and whatever the chat changed meanwhile (consolidate_topics: the chain is never lost).
LoweredIsCovered == lowered # {} => Exists(Summary) \/ Exists(Chain)
================================================================================
