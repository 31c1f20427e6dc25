----------------------------- MODULE MemoryStore -----------------------------
(***************************************************************************)
(* The memory rows of one private chat (table memories, scope c2c:<user>)  *)
(* and what writes them: the threads that run ingest (controller.py), the  *)
(* user's commands, active_edit, the nightly policies (policy.py) and the  *)
(* scans.                                                                  *)
(*                                                                         *)
(* Ingest runs in worker threads (asyncio.to_thread), several at a time.   *)
(* Each database helper is atomic (one lock, one commit), and so is the    *)
(* block inside _db.transaction(); everything else interleaves.            *)
(*                                                                         *)
(* Of a row only its status and class are kept. Confidence, importance and *)
(* age decide which rows a policy picks; here any row may be picked.       *)
(* Privacy is left out: encrypted facts are outside the model.             *)
(***************************************************************************)
EXTENDS Naturals, FiniteSets

CONSTANTS
    Facts,        \* fact texts that may be stated or extracted
    Stable,       \* facts fact_class calls stable: identity anchors
    Preference,   \* facts fact_class calls preference
    Named,        \* facts in which extract_entities finds a proper noun
    Similar,      \* pairs find_near_dup scores at 0.9 or more
    Threads,      \* threads that run ingest on this chat
    Cap,          \* merge_facts: rows kept (30 in the code)
    CoreCap,      \* promote_core: resident rows (20 in the code)
    MaxNew        \* bound: facts extracted from one message

ASSUME FactsAssumption ==
    /\ IsFiniteSet(Facts)
    /\ Stable \in SUBSET Facts
    /\ Preference \in SUBSET (Facts \ Stable)
    /\ Named \in SUBSET Facts
    /\ Similar \in SUBSET (Facts \X Facts)
ASSUME StoreBounds == Cap \in Nat /\ CoreCap \in Nat /\ MaxNew \in Nat

VARIABLES
    rows,    \* the memories table: a row, or NoRow
    ingest   \* per thread: where it is in ingest and what it has read

vars == <<rows, ingest>>

Statuses == {"active", "superseded", "contested"}
Classes == {"short", "long", "core"}
Row == [status : Statuses, mclass : Classes]
NoRow == [status |-> "none"]
Present == {f \in Facts : rows[f] # NoRow}

\* phase: idle, superseding (the loop of _supersede_old), correcting (the loop
\* of _decay_conflicts), storing (about to open the transaction), aborted (an
\* exception left ingest in the middle of a correction). todo: the rows still
\* to be visited; first: the one that was investigated, visited first.
Session == [phase : {"idle", "superseding", "correcting", "storing", "aborted"},
            todo : SUBSET Facts,
            first : Facts \cup {"none"},
            verdict : {"none", "update", "uncertain"}]
At(phase) == [phase |-> phase, todo |-> {}, first |-> "none", verdict |-> "none"]
Enter(t, phase) == ingest' = [ingest EXCEPT ![t] = At(phase)]

Least(a, b) == IF a <= b THEN a ELSE b
Most(a, b) == IF a >= b THEN a ELSE b
Monus(a, b) == IF a >= b THEN a - b ELSE 0

Init ==
    /\ rows = [f \in Facts |-> NoRow]
    /\ ingest = [t \in Threads |-> At("idle")]

-----------------------------------------------------------------------------
(* The helpers of the data layer *)

\* memory_add: insert, or overwrite every column of the row, status included.
MemoryAdd(table, f, mclass) ==
    [table EXCEPT ![f] = [status |-> "active", mclass |-> mclass]]

\* Seeded fault: the status of a row that is not there is written all the same.
SetStatusUpsert(table, f, status) ==
    [table EXCEPT ![f] = [status |-> status, mclass |-> "none"]]

\* memory_set_status: UPDATE, which changes nothing when there is no such row.
SetStatus(table, f, status) ==
    IF table[f] = NoRow THEN table ELSE [table EXCEPT ![f].status = status]

MemoryDelete(table, f) == [table EXCEPT ![f] = NoRow]

-----------------------------------------------------------------------------
(* ingest, before the transaction *)

\* A message got past the consent filters. If it announces a change of state
\* and names something, _supersede_old reads the rows that name something.
BeginIngest(t) ==
    /\ ingest[t].phase = "idle"
    /\ \E todo \in {{}, {f \in Present \cap Named : rows[f].status # "superseded"}} :
         ingest' = [ingest EXCEPT ![t] = [At("superseding") EXCEPT !.todo = todo]]
    /\ UNCHANGED rows

\* _supersede_old visits one of the rows it read.
SupersedeRow(t, f) ==
    /\ ingest[t].phase = "superseding"
    /\ f \in ingest[t].todo
    /\ rows' = SetStatus(rows, f, "superseded")
    /\ ingest' = [ingest EXCEPT ![t].todo = @ \ {f}]

Superseded(t) == ingest[t].phase = "superseding" /\ ingest[t].todo = {}

\* The message corrects nothing, or no row matches it, or the investigation
\* keeps what is stored: no row is written.
NothingCorrected(t) ==
    /\ Superseded(t)
    /\ Enter(t, "storing")
    /\ UNCHANGED rows

\* investigate_correction judges one row. A weak correction never overturns a
\* stable fact and only contests the others; a strong one may do either.
Verdicts(f, strong) ==
    IF strong THEN {"update", "uncertain"}
    ELSE IF f \in Stable THEN {} ELSE {"uncertain"}

\* _decay_conflicts found rows by keyword and the first of them is not to be
\* kept. At most two rows are visited, under the verdict on the first.
Investigate(t) ==
    /\ Superseded(t)
    /\ \E f, g \in Present, strong \in BOOLEAN : \E v \in Verdicts(f, strong) :
         ingest' = [ingest EXCEPT ![t] = [phase |-> "correcting", todo |-> {f, g},
                                          first |-> f, verdict |-> v]]
    /\ UNCHANGED rows

Visits(t, f) ==
    LET s == ingest[t] IN
    /\ s.phase = "correcting"
    /\ f \in s.todo
    /\ s.first \in s.todo => f = s.first

\* The row was deleted since it was matched.
SkipRow(t, f) ==
    /\ Visits(t, f)
    /\ rows[f] = NoRow
    /\ ingest' = [ingest EXCEPT ![t].todo = @ \ {f}]
    /\ UNCHANGED rows

\* The row is superseded or contested. The feedback call that follows names a
\* module bound on the vector branch only: it raises, and nothing catches it
\* before the task that called ingest.
CorrectRow(t, f) ==
    /\ Visits(t, f)
    /\ rows[f] # NoRow
    /\ rows' = SetStatus(rows, f, IF ingest[t].verdict = "update"
                                    THEN "superseded" ELSE "contested")
    /\ Enter(t, "aborted")

\* A strong correction without a keyword match takes the one row a vector
\* search finds; on this branch the feedback call works.
CorrectByVector(t) ==
    /\ Superseded(t)
    /\ \E f \in Present, status \in {"superseded", "contested"} :
         rows' = SetStatus(rows, f, status)
    /\ Enter(t, "storing")

\* Every row the correction matched was deleted.
CorrectionDone(t) ==
    /\ ingest[t].phase = "correcting"
    /\ ingest[t].todo = {}
    /\ Enter(t, "storing")
    /\ UNCHANGED rows

\* The task ends with the exception.
AbortedTaskEnds(t) ==
    /\ ingest[t].phase = "aborted"
    /\ Enter(t, "idle")
    /\ UNCHANGED rows

-----------------------------------------------------------------------------
(* ingest, the transaction *)

IsDup(f, g) == f # g /\ (<<f, g>> \in Similar \/ <<g, f>> \in Similar)

\* How the new facts fall. One already stored, whatever its status, is skipped;
\* one with near duplicates among the stored rows refreshes the best of them,
\* whatever its status; the others are added.
Splits(new) ==
    LET unknown == new \ Present
        dups(f) == {g \in Present : IsDup(f, g)}
        merging == {f \in unknown : dups(f) # {}} IN
    {[added |-> unknown \ merging, refreshed |-> {best[f] : f \in merging}] :
        best \in {b \in [merging -> Present] : \A f \in merging : b[f] \in dups(f)}}

\* Seeded faults: anchors compete for the cap; the room left is not kept at one
\* (and the slice [-0:] is the whole list).
MergesUnprotected(added) ==
    LET all == Present \cup added IN
    {k \in SUBSET all : /\ Cardinality(k) = Least(Most(1, Cap), Cardinality(all))
                        /\ (k \ added # {}) => added \subseteq k}
MergesNoRoom(added) ==
    LET anchors == Present \cap Stable
        others == (Present \ Stable) \cup added
        room == Monus(Cap, Cardinality(anchors)) IN
    {anchors \cup k :
        k \in {k \in SUBSET others :
                 /\ Cardinality(k) = IF room = 0 THEN Cardinality(others)
                                     ELSE Least(room, Cardinality(others))
                 /\ (k \ added # {}) => added \subseteq k}}

\* merge_facts: every anchor already stored, then the newest of the others, at
\* least one; the additions are newer than every stored row.
Merges(added) ==
    LET anchors == Present \cap Stable
        others == (Present \ Stable) \cup added
        room == Most(1, Monus(Cap, Cardinality(anchors))) IN
    {anchors \cup k :
        k \in {k \in SUBSET others :
                 /\ Cardinality(k) = Least(room, Cardinality(others))
                 /\ (k \ added # {}) => added \subseteq k}}

\* refresh goes through memory_add; memory_replace then rewrites the table with
\* the classes read before and the statuses read again.
Replace(merged, split) ==
    [f \in Facts |->
        IF f \notin merged THEN NoRow
        ELSE IF f \in split.added THEN [status |-> "active", mclass |-> "short"]
        ELSE IF f \in split.refreshed THEN [rows[f] EXCEPT !.status = "active"]
        ELSE rows[f]]

\* Resident rows are in every prompt (core_memory_block).
Resident(row) == row # NoRow /\ row.mclass = "core" /\ row.status = "active"
Residents(table) == {f \in Facts : Resident(table[f])}
Promotable(table) ==
    {f \in Stable : table[f] # NoRow /\ table[f].mclass # "core"}

\* Seeded faults: any class of fact is promoted; the rows already resident are
\* not counted.
PromotionsUnchecked(table) ==
    {p \in SUBSET {f \in Facts : table[f] # NoRow} :
       Cardinality(p) <= Monus(CoreCap, Cardinality(Residents(table)))}
PromotionsUncounted(table) ==
    {p \in SUBSET Promotable(table) : Cardinality(p) <= CoreCap}

\* promote_core: stable rows of sufficient confidence, of any status, until the
\* cap is reached. Rows that are core but hidden do not count against it.
Promotions(table) ==
    {p \in SUBSET Promotable(table) :
       Cardinality(p) <= Monus(CoreCap, Cardinality(Residents(table)))}
PromoteCore(table, p) ==
    [f \in Facts |-> IF f \in p THEN [status |-> "active", mclass |-> "core"]
                     ELSE table[f]]

\* The transaction of ingest commits.
Store(t) ==
    /\ ingest[t].phase = "storing"
    /\ \E new \in SUBSET Facts :
         /\ Cardinality(new) \in 1..MaxNew
         /\ \E split \in Splits(new) : \E merged \in Merges(split.added) :
            \E p \in Promotions(Replace(merged, split)) :
              rows' = PromoteCore(Replace(merged, split), p)
    /\ Enter(t, "idle")

\* Nothing was extracted, or the transaction raised and was rolled back.
StoreNothing(t) ==
    /\ ingest[t].phase = "storing"
    /\ Enter(t, "idle")
    /\ UNCHANGED rows

-----------------------------------------------------------------------------
(* The other writers, one row at a time *)

\* publicize (the user makes a fact public): the row is written again.
Publicize(f) == f \in Present /\ rows' = MemoryAdd(rows, f, rows[f].mclass)

\* add_fact: the App, the MCP server and the import of a persona.
AddFact(f) == rows' = MemoryAdd(rows, f, "short")

\* active_edit. Remember writes class long whether the row exists or not, and
\* so does policy.promote for a row that is used often; forget supersedes.
Remember(f) == rows' = MemoryAdd(rows, f, "long")
Unremember(f) == f \in Present /\ rows' = SetStatus(rows, f, "superseded")

\* policy.forget deletes a very weak row unless it is core, an anchor or a
\* preference; prune deletes a row of low importance, whatever it is.
Expire(f) ==
    /\ f \in Present \ (Stable \cup Preference)
    /\ rows[f].mclass # "core"
    /\ rows' = MemoryDelete(rows, f)
Prune(f) == f \in Present /\ rows' = MemoryDelete(rows, f)

\* conflict_scan contests the weaker fact of a pair unless it is core;
\* calendar_check contests a fact whose weekday is wrong.
ScanConflict(f) ==
    /\ f \in Present /\ rows[f].status = "active" /\ rows[f].mclass # "core"
    /\ rows' = SetStatus(rows, f, "contested")
ScanCalendar(f) ==
    /\ f \in Present /\ rows[f].status = "active"
    /\ rows' = SetStatus(rows, f, "contested")

Maintain(f) ==
    /\ \/ Publicize(f) \/ AddFact(f) \/ Remember(f) \/ Unremember(f) \/ Expire(f)
       \/ Prune(f) \/ ScanConflict(f) \/ ScanCalendar(f)
    /\ UNCHANGED ingest

IngestStep(t) ==
    \/ BeginIngest(t) \/ NothingCorrected(t) \/ Investigate(t)
    \/ CorrectByVector(t) \/ CorrectionDone(t) \/ AbortedTaskEnds(t)
    \/ Store(t) \/ StoreNothing(t)
    \/ \E f \in Facts : SupersedeRow(t, f) \/ SkipRow(t, f) \/ CorrectRow(t, f)

Next ==
    \/ \E t \in Threads : IngestStep(t)
    \/ \E f \in Facts : Maintain(f)

Spec == Init /\ [][Next]_vars

-----------------------------------------------------------------------------
(* Properties *)

\* The table holds whole rows, and every ingest is where the code can be.
TypeOK ==
    /\ rows \in [Facts -> Row \cup {NoRow}]
    /\ ingest \in [Threads -> Session]

\* Only identity anchors reach the core class, whichever of promote_core,
\* refresh, publicize, active_edit or add_fact wrote the row last (_apply_ops
\* forbids going round promote_core).
CoreIsAnchor == \A f \in Present : rows[f].mclass = "core" => f \in Stable

\* However full the store is, ingest never drops an identity anchor
\* (merge_facts, protect): the user does not become a stranger.
AnchorsOutliveIngest ==
    [][ingest' # ingest => \A f \in Present \cap Stable : rows'[f] # NoRow]_vars

\* An ingest that makes the store grow leaves at most Cap rows, or the anchors
\* and one more (merge_facts).
GrowthWithinCap ==
    [][LET after == {f \in Facts : rows'[f] # NoRow} IN
       ingest' # ingest =>
         \/ after \subseteq Present
         \/ Cardinality(after) <= Most(Cap, Cardinality(Present \cap Stable) + 1)]_vars

\* A promotion never takes the resident rows above their cap, whatever else the
\* same transaction brought back (promote_core, cap).
PromotionWithinCap ==
    [][(\E f \in Facts : /\ rows'[f] # NoRow /\ rows'[f].mclass = "core"
                         /\ f \in Present => rows[f].mclass # "core")
       => Cardinality({f \in Facts : Resident(rows'[f])}) <= CoreCap]_vars

\* supersede() says a superseded fact is no longer recalled and is replaced by
\* a new one: an ingest does not make a superseded anchor active again.
SupersededStaysHidden ==
    [][ingest' # ingest =>
         \A f \in Present \cap Stable : rows[f].status = "superseded" =>
           rows'[f] # NoRow /\ rows'[f].status = "superseded"]_vars

\* ingest says a correction that was investigated is graded as feedback and the
\* corrected fact is stored: no correction ends in an exception.
CorrectionCompletes == \A t \in Threads : ingest[t].phase # "aborted"
=============================================================================
