-------------------------- MODULE MemoryStoreProofs --------------------------
(***************************************************************************)
(* Proofs about MemoryStore, for any set of facts, any number of ingest    *)
(* threads and any caps: the rows keep their shape, only identity anchors  *)
(* are core, no ingest drops an anchor, and the two caps are kept.         *)
(***************************************************************************)
EXTENDS MemoryStore, FiniteSetTheorems, TLAPS

\* The bounds of the model are naturals, the classes of facts sets of facts.
LEMMA ConstantFacts ==
    /\ Stable \subseteq Facts
    /\ Preference \subseteq Facts
    /\ Named \subseteq Facts
BY FactsAssumption

\* The table written by each helper is a table again.
LEMMA HelpersType ==
    ASSUME NEW table \in [Facts -> Row \cup {NoRow}], NEW f \in Facts
    PROVE /\ \A c \in Classes : MemoryAdd(table, f, c) \in [Facts -> Row \cup {NoRow}]
          /\ \A s \in Statuses : SetStatus(table, f, s) \in [Facts -> Row \cup {NoRow}]
          /\ MemoryDelete(table, f) \in [Facts -> Row \cup {NoRow}]
<1>1. ASSUME NEW c \in Classes
      PROVE  MemoryAdd(table, f, c) \in [Facts -> Row \cup {NoRow}]
  BY DEF MemoryAdd, Row, Statuses
<1>2. ASSUME NEW s \in Statuses
      PROVE  SetStatus(table, f, s) \in [Facts -> Row \cup {NoRow}]
  <2>1. CASE table[f] = NoRow
    BY <2>1 DEF SetStatus
  <2>2. CASE table[f] # NoRow
    <3>1. table[f] \in Row
      BY <2>2
    <3>2. [table[f] EXCEPT !.status = s] \in Row
      BY <3>1 DEF Row
    <3>3. SetStatus(table, f, s) = [table EXCEPT ![f] = [table[f] EXCEPT !.status = s]]
      BY <2>2 DEF SetStatus
    <3>. QED
      BY <3>2, <3>3
  <2>. QED
    BY <2>1, <2>2
<1>3. MemoryDelete(table, f) \in [Facts -> Row \cup {NoRow}]
  BY DEF MemoryDelete
<1>. QED
  BY <1>1, <1>2, <1>3

\* A row with a class in the table keeps that class when its status is set,
\* and so does every other row.
LEMMA SetStatusKeepsClass ==
    ASSUME NEW table \in [Facts -> Row \cup {NoRow}], NEW f \in Facts,
           NEW s \in Statuses, NEW g \in Facts
    PROVE  /\ SetStatus(table, f, s)[g] = NoRow <=> table[g] = NoRow
           /\ table[g] # NoRow =>
                SetStatus(table, f, s)[g].mclass = table[g].mclass
<1>1. CASE table[f] = NoRow
  BY <1>1 DEF SetStatus
<1>2. CASE table[f] # NoRow
  <2>1. table[f] \in Row
    BY <1>2
  <2>2. SetStatus(table, f, s) = [table EXCEPT ![f] = [table[f] EXCEPT !.status = s]]
    BY <1>2 DEF SetStatus
  <2>3. [table[f] EXCEPT !.status = s] # NoRow
    <3>1. [table[f] EXCEPT !.status = s].status = s
      BY <2>1 DEF Row
    <3>. QED
      BY <3>1 DEF NoRow, Statuses
  <2>4. [table[f] EXCEPT !.status = s].mclass = table[f].mclass
    BY <2>1 DEF Row
  <2>. QED
    BY <1>2, <2>2, <2>3, <2>4
<1>. QED
  BY <1>1, <1>2

-----------------------------------------------------------------------------
(* The transaction of ingest *)

\* What Store writes, given how the new facts fall and what is kept.
Stored(merged, split, p) == PromoteCore(Replace(merged, split), p)

\* Additions are facts, and none of them is stored yet.
LEMMA SplitFacts ==
    ASSUME NEW new \in SUBSET Facts, NEW split \in Splits(new)
    PROVE  split.added \subseteq Facts \ Present
<1>. DEFINE unknown == new \ Present
            dups(f) == {g \in Present : IsDup(f, g)}
            merging == {f \in unknown : dups(f) # {}}
            fall(best) == [added |-> unknown \ merging,
                           refreshed |-> {best[f] : f \in merging}]
<1>. DEFINE choices == {b \in [merging -> Present] : \A f \in merging : b[f] \in dups(f)}
<1>0. split \in {fall(best) : best \in choices}
  BY Zenon DEF Splits
<1>. HIDE DEF fall, choices
<1>1. \E best : split = fall(best)
  BY <1>0
<1>2. PICK best : split = fall(best)
  BY <1>1
<1>. USE DEF fall
<1>3. split.added = unknown \ merging
  BY <1>2
<1>. QED
  BY <1>3

\* Whatever is cut, the anchors that were stored are among the facts kept.
LEMMA AnchorsKept ==
    ASSUME NEW added \in SUBSET Facts, NEW merged \in Merges(added)
    PROVE  /\ Present \cap Stable \subseteq merged
           /\ merged \subseteq Present \cup added
BY DEF Merges

\* The rewritten table is a table; the rows it holds are those merged, with
\* the class they had, or short.
LEMMA ReplaceType ==
    ASSUME rows \in [Facts -> Row \cup {NoRow}],
           NEW new \in SUBSET Facts, NEW split \in Splits(new),
           NEW merged \in Merges(split.added)
    PROVE  /\ Replace(merged, split) \in [Facts -> Row \cup {NoRow}]
           /\ \A f \in merged : f \in Facts /\ Replace(merged, split)[f] # NoRow
           /\ \A f \in Facts : Replace(merged, split)[f] # NoRow =>
                \/ Replace(merged, split)[f].mclass = "short"
                \/ /\ rows[f] # NoRow
                   /\ Replace(merged, split)[f].mclass = rows[f].mclass
<1>. DEFINE T == Replace(merged, split)
<1>1. split.added \subseteq Facts \ Present
  BY SplitFacts
<1>2. merged \subseteq Present \cup split.added
  BY <1>1, AnchorsKept
<1>3. merged \subseteq Facts
  BY <1>1, <1>2 DEF Present
<1>4. ASSUME NEW f \in Facts
      PROVE  /\ T[f] \in Row \cup {NoRow}
             /\ f \in merged => T[f] # NoRow
             /\ T[f] # NoRow => \/ T[f].mclass = "short"
                                \/ rows[f] # NoRow /\ T[f].mclass = rows[f].mclass
  <2>1. CASE f \notin merged
    BY <2>1 DEF Replace
  <2>2. CASE f \in merged /\ f \in split.added
    <3>1. T[f] = [status |-> "active", mclass |-> "short"]
      BY <2>2 DEF Replace
    <3>2. T[f] \in Row
      BY <3>1 DEF Row, Statuses, Classes
    <3>3. T[f].status # "none" /\ T[f].mclass = "short"
      BY <3>1
    <3>. QED
      BY <3>2, <3>3 DEF NoRow
  <2>3. CASE f \in merged /\ f \notin split.added
    <3>1. rows[f] \in Row /\ rows[f] # NoRow
      BY <1>2, <2>3 DEF Present
    <3>2. CASE f \in split.refreshed
      <4>1. T[f] = [rows[f] EXCEPT !.status = "active"]
        BY <2>3, <3>2 DEF Replace
      <4>2. T[f] \in Row /\ T[f].status = "active" /\ T[f].mclass = rows[f].mclass
        BY <3>1, <4>1 DEF Row, Statuses
      <4>. QED
        BY <3>1, <4>2 DEF NoRow
    <3>3. CASE f \notin split.refreshed
      <4>1. T[f] = rows[f]
        BY <2>3, <3>3 DEF Replace
      <4>. QED
        BY <3>1, <4>1
    <3>. QED
      BY <3>2, <3>3
  <2>. QED
    BY <2>1, <2>2, <2>3
<1>5. T = [f \in Facts |-> T[f]]
  BY DEF Replace
<1>. QED
  BY <1>3, <1>4, <1>5

\* Promotion turns stored anchors into core rows and leaves the others alone.
LEMMA PromoteType ==
    ASSUME NEW table \in [Facts -> Row \cup {NoRow}], NEW p \in Promotions(table)
    PROVE  /\ PromoteCore(table, p) \in [Facts -> Row \cup {NoRow}]
           /\ \A f \in Facts :
                /\ table[f] # NoRow => PromoteCore(table, p)[f] # NoRow
                /\ PromoteCore(table, p)[f] # NoRow =>
                     \/ f \in Stable
                     \/ PromoteCore(table, p)[f] = table[f]
<1>1. p \subseteq Stable
  BY DEF Promotions, Promotable
<1>2. [status |-> "active", mclass |-> "core"] \in Row
  BY DEF Row, Statuses, Classes
<1>3. [status |-> "active", mclass |-> "core"] # NoRow
  <2>1. [status |-> "active", mclass |-> "core"].status # NoRow.status
    BY DEF NoRow
  <2>. QED
    BY <2>1
<1>4. \A f \in Facts : PromoteCore(table, p)[f] =
        IF f \in p THEN [status |-> "active", mclass |-> "core"] ELSE table[f]
  BY DEF PromoteCore
<1>5. PromoteCore(table, p) \in [Facts -> Row \cup {NoRow}]
  BY <1>2 DEF PromoteCore
<1>. QED
  BY <1>1, <1>3, <1>4, <1>5

-----------------------------------------------------------------------------
(* The invariant *)

IInv == TypeOK /\ CoreIsAnchor

LEMMA InitIInv == Init => IInv
<1>. SUFFICES ASSUME Init PROVE IInv
  OBVIOUS
<1>1. rows \in [Facts -> Row \cup {NoRow}] /\ Present = {}
  BY DEF Init, Present
<1>2. ingest \in [Threads -> Session]
  BY DEF Init, At, Session
<1>. QED
  BY <1>1, <1>2 DEF IInv, TypeOK, CoreIsAnchor

\* A step that only moves one ingest to an empty phase keeps ingest typed.
LEMMA EnterType ==
    ASSUME ingest \in [Threads -> Session], NEW t \in Threads,
           NEW phase \in {"idle", "superseding", "correcting", "storing", "aborted"},
           Enter(t, phase)
    PROVE  ingest' \in [Threads -> Session]
BY DEF Enter, At, Session

\* Dropping a row from the ones to be visited keeps ingest typed.
LEMMA VisitedType ==
    ASSUME ingest \in [Threads -> Session], NEW t \in Threads, NEW f \in Facts,
           ingest' = [ingest EXCEPT ![t].todo = @ \ {f}]
    PROVE  ingest' \in [Threads -> Session]
<1>1. ingest[t] \in Session
  OBVIOUS
<1>2. [ingest[t] EXCEPT !.todo = ingest[t].todo \ {f}] \in Session
  BY <1>1 DEF Session
<1>3. ingest' = [ingest EXCEPT ![t] = [ingest[t] EXCEPT !.todo = ingest[t].todo \ {f}]]
  OBVIOUS
<1>. QED
  BY <1>2, <1>3

\* A step that only sets one status preserves what is said of the rows.
LEMMA SetStatusRows ==
    ASSUME IInv, NEW f \in Facts, NEW s \in Statuses,
           rows' = SetStatus(rows, f, s)
    PROVE  rows' \in [Facts -> Row \cup {NoRow}] /\ CoreIsAnchor'
<1>1. rows \in [Facts -> Row \cup {NoRow}]
  BY DEF IInv, TypeOK
<1>2. rows' \in [Facts -> Row \cup {NoRow}]
  BY <1>1, HelpersType
<1>3. ASSUME NEW g \in Facts, rows'[g] # NoRow, rows'[g].mclass = "core"
      PROVE  g \in Stable
  <2>1. rows[g] # NoRow /\ rows[g].mclass = "core"
    BY <1>1, <1>3, SetStatusKeepsClass
  <2>. QED
    BY <2>1 DEF IInv, CoreIsAnchor, Present
<1>. QED
  BY <1>2, <1>3 DEF CoreIsAnchor, Present

\* A step that writes a whole row keeps the invariant if it does not make a row
\* of another fact core.
LEMMA MemoryAddRows ==
    ASSUME IInv, NEW f \in Facts, NEW c \in Classes, c = "core" => f \in Stable,
           rows' = MemoryAdd(rows, f, c)
    PROVE  rows' \in [Facts -> Row \cup {NoRow}] /\ CoreIsAnchor'
<1>1. rows \in [Facts -> Row \cup {NoRow}]
  BY DEF IInv, TypeOK
<1>2. rows' \in [Facts -> Row \cup {NoRow}]
  BY <1>1, HelpersType
<1>3. ASSUME NEW g \in Facts, rows'[g] # NoRow, rows'[g].mclass = "core"
      PROVE  g \in Stable
  <2>1. CASE g = f
    <3>1. rows'[f].mclass = c
      BY <1>1 DEF MemoryAdd
    <3>. QED
      BY <1>3, <2>1, <3>1
  <2>2. CASE g # f
    <3>1. rows'[g] = rows[g]
      BY <1>1, <2>2 DEF MemoryAdd
    <3>. QED
      BY <1>3, <3>1 DEF IInv, CoreIsAnchor, Present
  <2>. QED
    BY <2>1, <2>2
<1>. QED
  BY <1>2, <1>3 DEF CoreIsAnchor, Present

LEMMA MemoryDeleteRows ==
    ASSUME IInv, NEW f \in Facts, rows' = MemoryDelete(rows, f)
    PROVE  rows' \in [Facts -> Row \cup {NoRow}] /\ CoreIsAnchor'
<1>1. rows \in [Facts -> Row \cup {NoRow}]
  BY DEF IInv, TypeOK
<1>2. rows' \in [Facts -> Row \cup {NoRow}]
  BY <1>1, HelpersType
<1>3. \A g \in Facts : rows'[g] # NoRow => rows'[g] = rows[g]
  BY <1>1 DEF MemoryDelete
<1>. QED
  BY <1>2, <1>3 DEF IInv, CoreIsAnchor, Present

\* The transaction keeps the invariant and every anchor that was stored.
LEMMA StoreRows ==
    ASSUME IInv, NEW t \in Threads, Store(t)
    PROVE  /\ rows' \in [Facts -> Row \cup {NoRow}]
           /\ CoreIsAnchor'
           /\ \A f \in Present \cap Stable : rows'[f] # NoRow
<1>1. rows \in [Facts -> Row \cup {NoRow}]
  BY DEF IInv, TypeOK
<1>2. PICK new \in SUBSET Facts : \E split \in Splits(new) :
        \E merged \in Merges(split.added) :
        \E p \in Promotions(Replace(merged, split)) :
          rows' = PromoteCore(Replace(merged, split), p)
  BY DEF Store
<1>3. PICK split \in Splits(new) : \E merged \in Merges(split.added) :
        \E p \in Promotions(Replace(merged, split)) :
          rows' = PromoteCore(Replace(merged, split), p)
  BY <1>2
<1>4. PICK merged \in Merges(split.added) :
        \E p \in Promotions(Replace(merged, split)) :
          rows' = PromoteCore(Replace(merged, split), p)
  BY <1>3
<1>5. PICK p \in Promotions(Replace(merged, split)) :
        rows' = PromoteCore(Replace(merged, split), p)
  BY <1>4
<1>. DEFINE T == Replace(merged, split)
<1>6. /\ T \in [Facts -> Row \cup {NoRow}]
      /\ \A f \in merged : f \in Facts /\ T[f] # NoRow
      /\ \A f \in Facts : T[f] # NoRow =>
           \/ T[f].mclass = "short"
           \/ rows[f] # NoRow /\ T[f].mclass = rows[f].mclass
  BY <1>1, ReplaceType
<1>7. /\ rows' \in [Facts -> Row \cup {NoRow}]
      /\ \A f \in Facts :
           /\ T[f] # NoRow => rows'[f] # NoRow
           /\ rows'[f] # NoRow => f \in Stable \/ rows'[f] = T[f]
  BY <1>5, <1>6, PromoteType
<1>8. ASSUME NEW f \in Facts, rows'[f] # NoRow, rows'[f].mclass = "core"
      PROVE  f \in Stable
  <2>1. CASE rows'[f] = T[f]
    <3>1. rows[f] # NoRow /\ rows[f].mclass = "core"
      BY <1>6, <1>8, <2>1
    <3>. QED
      BY <3>1 DEF IInv, CoreIsAnchor, Present
  <2>. QED
    BY <1>7, <1>8, <2>1
<1>9. ASSUME NEW f \in Present \cap Stable
      PROVE  rows'[f] # NoRow
  <2>1. split.added \in SUBSET Facts
    BY SplitFacts
  <2>2. f \in merged
    BY <2>1, AnchorsKept
  <2>. QED
    BY <1>6, <1>7, <2>2
<1>. QED
  BY <1>7, <1>8, <1>9 DEF CoreIsAnchor, Present

\* Every step keeps the invariant.
LEMMA NextIInv == IInv /\ [Next]_vars => IInv'
<1>. SUFFICES ASSUME IInv, [Next]_vars
              PROVE  /\ rows' \in [Facts -> Row \cup {NoRow}]
                     /\ CoreIsAnchor'
                     /\ ingest' \in [Threads -> Session]
  BY DEF IInv, TypeOK
<1>. USE ConstantFacts
<1>1. /\ rows \in [Facts -> Row \cup {NoRow}]
      /\ ingest \in [Threads -> Session]
      /\ CoreIsAnchor
  BY DEF IInv, TypeOK
<1>2. rows' = rows => rows' \in [Facts -> Row \cup {NoRow}] /\ CoreIsAnchor'
  BY <1>1 DEF CoreIsAnchor, Present
<1>3. CASE UNCHANGED vars
  BY <1>1, <1>2, <1>3 DEF vars
<1>4. ASSUME NEW t \in Threads, BeginIngest(t)
      PROVE  ingest' \in [Threads -> Session] /\ rows' = rows
  <2>1. PICK todo \in {{}, {f \in Present \cap Named : rows[f].status # "superseded"}} :
          ingest' = [ingest EXCEPT ![t] = [At("superseding") EXCEPT !.todo = todo]]
    BY <1>4 DEF BeginIngest
  <2>2. todo \in SUBSET Facts
    BY DEF Present
  <2>3. [At("superseding") EXCEPT !.todo = todo] \in Session
    BY <2>2 DEF At, Session
  <2>. QED
    BY <1>1, <1>4, <2>1, <2>3 DEF BeginIngest
<1>5. ASSUME NEW t \in Threads, Investigate(t)
      PROVE  ingest' \in [Threads -> Session] /\ rows' = rows
  <2>1. PICK f \in Present, g \in Present, strong \in BOOLEAN :
          \E v \in Verdicts(f, strong) :
            ingest' = [ingest EXCEPT ![t] = [phase |-> "correcting", todo |-> {f, g},
                                             first |-> f, verdict |-> v]]
    BY <1>5 DEF Investigate
  <2>2. PICK v \in Verdicts(f, strong) :
          ingest' = [ingest EXCEPT ![t] = [phase |-> "correcting", todo |-> {f, g},
                                           first |-> f, verdict |-> v]]
    BY <2>1
  <2>3. v \in {"none", "update", "uncertain"}
    BY DEF Verdicts
  <2>4. f \in Facts /\ g \in Facts
    BY DEF Present
  <2>5. [phase |-> "correcting", todo |-> {f, g}, first |-> f, verdict |-> v] \in Session
    BY <2>3, <2>4 DEF Session
  <2>. QED
    BY <1>1, <1>5, <2>2, <2>5 DEF Investigate
<1>6. ASSUME NEW t \in Threads, NothingCorrected(t) \/ CorrectionDone(t)
                                  \/ AbortedTaskEnds(t) \/ StoreNothing(t)
      PROVE  ingest' \in [Threads -> Session] /\ rows' = rows
  <2>1. rows' = rows /\ \E phase \in {"idle", "storing"} : Enter(t, phase)
    BY <1>6 DEF NothingCorrected, CorrectionDone, AbortedTaskEnds, StoreNothing
  <2>. QED
    BY <1>1, <2>1, EnterType
<1>7. ASSUME NEW t \in Threads, CorrectByVector(t)
      PROVE  /\ ingest' \in [Threads -> Session]
             /\ rows' \in [Facts -> Row \cup {NoRow}] /\ CoreIsAnchor'
  <2>1. PICK f \in Present, status \in {"superseded", "contested"} :
          rows' = SetStatus(rows, f, status)
    BY <1>7 DEF CorrectByVector
  <2>2. f \in Facts /\ status \in Statuses
    BY DEF Present, Statuses
  <2>3. ingest' \in [Threads -> Session]
    BY <1>1, <1>7, EnterType DEF CorrectByVector
  <2>. QED
    BY <2>1, <2>2, <2>3, SetStatusRows
<1>8. ASSUME NEW t \in Threads, Store(t)
      PROVE  /\ ingest' \in [Threads -> Session]
             /\ rows' \in [Facts -> Row \cup {NoRow}] /\ CoreIsAnchor'
  <2>1. ingest' \in [Threads -> Session]
    BY <1>1, <1>8, EnterType DEF Store
  <2>. QED
    BY <1>8, <2>1, StoreRows
<1>9. ASSUME NEW t \in Threads, NEW f \in Facts, SupersedeRow(t, f)
      PROVE  /\ ingest' \in [Threads -> Session]
             /\ rows' \in [Facts -> Row \cup {NoRow}] /\ CoreIsAnchor'
  <2>1. rows' = SetStatus(rows, f, "superseded") /\ "superseded" \in Statuses
    BY <1>9 DEF SupersedeRow, Statuses
  <2>2. ingest' \in [Threads -> Session]
    BY <1>1, <1>9, VisitedType DEF SupersedeRow
  <2>. QED
    BY <2>1, <2>2, SetStatusRows
<1>10. ASSUME NEW t \in Threads, NEW f \in Facts, SkipRow(t, f)
       PROVE  ingest' \in [Threads -> Session] /\ rows' = rows
  BY <1>1, <1>10, VisitedType DEF SkipRow
<1>11. ASSUME NEW t \in Threads, NEW f \in Facts, CorrectRow(t, f)
       PROVE  /\ ingest' \in [Threads -> Session]
              /\ rows' \in [Facts -> Row \cup {NoRow}] /\ CoreIsAnchor'
  <2>1. PICK s \in Statuses : rows' = SetStatus(rows, f, s)
    BY <1>11 DEF CorrectRow, Statuses
  <2>2. ingest' \in [Threads -> Session]
    BY <1>1, <1>11, EnterType DEF CorrectRow
  <2>. QED
    BY <2>1, <2>2, SetStatusRows
<1>12. ASSUME NEW f \in Facts, Maintain(f)
       PROVE  /\ ingest' \in [Threads -> Session]
              /\ rows' \in [Facts -> Row \cup {NoRow}] /\ CoreIsAnchor'
  <2>1. ingest' \in [Threads -> Session]
    BY <1>1, <1>12 DEF Maintain
  <2>2. CASE Publicize(f)
    <3>1. rows[f] \in Row /\ f \in Present
      BY <1>1, <2>2 DEF Publicize, Present
    <3>2. rows[f].mclass \in Classes /\ (rows[f].mclass = "core" => f \in Stable)
      BY <1>1, <3>1 DEF Row, CoreIsAnchor
    <3>. QED
      BY <2>1, <2>2, <3>2, MemoryAddRows DEF Publicize
  <2>3. CASE AddFact(f) \/ Remember(f)
    <3>1. PICK c \in {"short", "long"} : rows' = MemoryAdd(rows, f, c)
      BY <2>3 DEF AddFact, Remember
    <3>. QED
      BY <2>1, <3>1, MemoryAddRows DEF Classes
  <2>4. CASE Unremember(f) \/ ScanConflict(f) \/ ScanCalendar(f)
    <3>1. PICK s \in Statuses : rows' = SetStatus(rows, f, s)
      BY <2>4 DEF Unremember, ScanConflict, ScanCalendar, Statuses
    <3>. QED
      BY <2>1, <3>1, SetStatusRows
  <2>5. CASE Expire(f) \/ Prune(f)
    <3>1. rows' = MemoryDelete(rows, f)
      BY <2>5 DEF Expire, Prune
    <3>. QED
      BY <2>1, <3>1, MemoryDeleteRows
  <2>. QED
    BY <1>12, <2>2, <2>3, <2>4, <2>5 DEF Maintain
<1>. QED
  BY <1>2, <1>3, <1>4, <1>5, <1>6, <1>7, <1>8, <1>9, <1>10, <1>11, <1>12
     DEF Next, IngestStep

\* No step of an ingest loses an anchor that was stored.
LEMMA IngestKeepsAnchors ==
    ASSUME IInv, NEW t \in Threads, IngestStep(t),
           NEW f \in Present \cap Stable
    PROVE  rows'[f] # NoRow
<1>1. rows \in [Facts -> Row \cup {NoRow}] /\ f \in Facts /\ rows[f] # NoRow
  BY DEF IInv, TypeOK, Present
<1>2. CASE rows' = rows
  BY <1>1, <1>2
<1>3. CASE Store(t)
  BY <1>3, StoreRows
<1>4. CASE \E g \in Facts, s \in Statuses : rows' = SetStatus(rows, g, s)
  BY <1>1, <1>4, SetStatusKeepsClass
<1>5. ASSUME NEW g \in Facts, SupersedeRow(t, g) \/ CorrectRow(t, g)
      PROVE  \E s \in Statuses : rows' = SetStatus(rows, g, s)
  BY <1>5 DEF SupersedeRow, CorrectRow, Statuses
<1>6. ASSUME CorrectByVector(t)
      PROVE  \E g \in Facts, s \in Statuses : rows' = SetStatus(rows, g, s)
  BY <1>6 DEF CorrectByVector, Statuses, Present
<1>7. \/ rows' = rows \/ Store(t) \/ CorrectByVector(t)
      \/ \E g \in Facts : SupersedeRow(t, g) \/ CorrectRow(t, g)
  BY DEF IngestStep, BeginIngest, NothingCorrected, Investigate, CorrectionDone,
         AbortedTaskEnds, StoreNothing, SkipRow
<1>. QED
  BY <1>2, <1>3, <1>4, <1>5, <1>6, <1>7

-----------------------------------------------------------------------------
(* The theorems *)

\* The table holds whole rows and every ingest is where the code can be.
THEOREM StoreTyped == Spec => []TypeOK
<1>1. IInv => TypeOK
  BY DEF IInv
<1>. QED
  BY InitIInv, NextIInv, <1>1, PTL DEF Spec

\* Whatever wrote a row last, only identity anchors are core.
THEOREM CoreHoldsAnchors == Spec => []CoreIsAnchor
<1>1. IInv => CoreIsAnchor
  BY DEF IInv
<1>. QED
  BY InitIInv, NextIInv, <1>1, PTL DEF Spec

\* No ingest, in whichever of any number of threads and however full the
\* store, drops an identity anchor.
THEOREM AnchorsAreKept == Spec => AnchorsOutliveIngest
<1>1. ASSUME IInv, [Next]_vars
      PROVE  [ingest' # ingest => \A f \in Present \cap Stable : rows'[f] # NoRow]_vars
  <2>1. ASSUME ingest' # ingest
        PROVE  \E t \in Threads : IngestStep(t)
    BY <1>1, <2>1 DEF Next, Maintain, vars
  <2>. QED
    BY <1>1, <2>1, IngestKeepsAnchors
<1>. QED
  BY InitIInv, NextIInv, <1>1, PTL DEF Spec, AnchorsOutliveIngest
-----------------------------------------------------------------------------
(* The caps *)

\* Every set of facts is finite, with a natural number of members.
LEMMA FactSets ==
    ASSUME NEW S \in SUBSET Facts
    PROVE  /\ IsFiniteSet(S)
           /\ Cardinality(S) \in Nat
           /\ \A R \in SUBSET S : Cardinality(R) <= Cardinality(S)
<1>1. IsFiniteSet(S)
  BY FactsAssumption, FS_Subset
<1>2. Cardinality(S) \in Nat
  BY <1>1, FS_CardinalityType
<1>3. \A R \in SUBSET S : Cardinality(R) <= Cardinality(S)
  BY <1>1, FS_Subset
<1>. QED
  BY <1>1, <1>2, <1>3

\* Two sets of facts together have at most as many members as the two counted apart.
LEMMA FactUnion ==
    ASSUME NEW S \in SUBSET Facts, NEW R \in SUBSET Facts
    PROVE  Cardinality(S \cup R) <= Cardinality(S) + Cardinality(R)
<1>1. IsFiniteSet(S) /\ IsFiniteSet(R) /\ IsFiniteSet(S \cap R)
  BY FactSets
<1>2. Cardinality(S) \in Nat /\ Cardinality(R) \in Nat /\ Cardinality(S \cap R) \in Nat
  BY FactSets
<1>3. Cardinality(S \cup R) = Cardinality(S) + Cardinality(R) - Cardinality(S \cap R)
  BY <1>1, FS_Union
<1>. QED
  BY <1>2, <1>3

\* merge_facts leaves at most Cap rows, or the stored anchors and one more.
LEMMA MergedWithinCap ==
    ASSUME NEW added \in SUBSET Facts, NEW merged \in Merges(added)
    PROVE  Cardinality(merged) <= Most(Cap, Cardinality(Present \cap Stable) + 1)
<1>. DEFINE anchors == Present \cap Stable
            others == (Present \ Stable) \cup added
            room == Most(1, Monus(Cap, Cardinality(anchors)))
<1>1. anchors \in SUBSET Facts /\ others \in SUBSET Facts
  BY DEF Present
<1>2. PICK k \in SUBSET others : /\ merged = anchors \cup k
                                 /\ Cardinality(k) = Least(room, Cardinality(others))
  BY DEF Merges
<1>3. k \in SUBSET Facts
  BY <1>1
<1>4. Cardinality(anchors) \in Nat /\ Cardinality(others) \in Nat /\ Cardinality(k) \in Nat
  BY <1>1, <1>3, FactSets
<1>5. Cardinality(merged) <= Cardinality(anchors) + Cardinality(k)
  BY <1>1, <1>2, <1>3, FactUnion
<1>6. Cap \in Nat
  BY StoreBounds
<1>7. Cardinality(merged) \in Nat
  BY <1>1, <1>2, <1>3, FactSets
<1>. HIDE DEF anchors, others
<1>8. Cardinality(merged) <= Most(Cap, Cardinality(anchors) + 1)
  BY <1>2, <1>4, <1>5, <1>6, <1>7 DEF Least, Most, Monus
<1>. QED
  BY <1>8 DEF anchors

\* The rows the transaction leaves are the ones merged.
LEMMA StoredRows ==
    ASSUME NEW new \in SUBSET Facts, NEW split \in Splits(new),
           NEW merged \in Merges(split.added),
           NEW p \in Promotions(Replace(merged, split))
    PROVE  {f \in Facts : Stored(merged, split, p)[f] # NoRow} \subseteq merged
<1>. DEFINE T == Replace(merged, split)
<1>1. ASSUME NEW f \in Facts, f \notin merged
      PROVE  T[f] = NoRow
  BY <1>1 DEF Replace
<1>2. \A f \in p : f \in Facts /\ T[f] # NoRow
  BY ConstantFacts DEF Promotions, Promotable
<1>. HIDE DEF T
<1>3. ASSUME NEW f \in Facts, f \notin merged
      PROVE  Stored(merged, split, p)[f] = NoRow
  <2>1. f \notin p
    BY <1>1, <1>2, <1>3
  <2>2. Stored(merged, split, p)[f] = T[f]
    BY <2>1 DEF Stored, PromoteCore, T
  <2>. QED
    BY <1>1, <1>3, <2>2
<1>. QED
  BY <1>3

\* What Store did, with the choices it made.
LEMMA StoreChoices ==
    ASSUME NEW t \in Threads, Store(t)
    PROVE  \E new \in SUBSET Facts : \E split \in Splits(new) :
             \E merged \in Merges(split.added) :
             \E p \in Promotions(Replace(merged, split)) :
               rows' = Stored(merged, split, p)
BY DEF Store, Stored

\* A step of an ingest adds no row, or ends the transaction within the cap.
LEMMA IngestWithinCap ==
    ASSUME IInv, NEW t \in Threads, IngestStep(t)
    PROVE  LET after == {f \in Facts : rows'[f] # NoRow} IN
           \/ after \subseteq Present
           \/ Cardinality(after) <= Most(Cap, Cardinality(Present \cap Stable) + 1)
<1>. DEFINE after == {f \in Facts : rows'[f] # NoRow}
<1>1. rows \in [Facts -> Row \cup {NoRow}]
  BY DEF IInv, TypeOK
<1>2. CASE rows' = rows
  BY <1>2 DEF Present
<1>3. CASE Store(t)
  <2>1. PICK new \in SUBSET Facts : \E split \in Splits(new) :
               \E merged \in Merges(split.added) :
               \E p \in Promotions(Replace(merged, split)) :
                 rows' = Stored(merged, split, p)
    BY <1>3, StoreChoices
  <2>2. PICK split \in Splits(new) :
               \E merged \in Merges(split.added) :
               \E p \in Promotions(Replace(merged, split)) :
                 rows' = Stored(merged, split, p)
    BY <2>1
  <2>3. PICK merged \in Merges(split.added) :
               \E p \in Promotions(Replace(merged, split)) :
                 rows' = Stored(merged, split, p)
    BY <2>2
  <2>4. after \subseteq merged
    BY <2>3, StoredRows
  <2>5. split.added \in SUBSET Facts
    BY SplitFacts
  <2>6. merged \in SUBSET Facts
    BY <2>5, AnchorsKept DEF Present
  <2>7. Cardinality(merged) <= Most(Cap, Cardinality(Present \cap Stable) + 1)
    BY <2>5, MergedWithinCap
  <2>8. Cardinality(after) <= Cardinality(merged)
    BY <2>4, <2>6, FactSets
  <2>9. Cardinality(after) \in Nat /\ Cardinality(merged) \in Nat
    BY <2>6, FactSets
  <2>10. Cardinality(Present \cap Stable) \in Nat /\ Cap \in Nat
    BY FactSets, StoreBounds DEF Present
  <2>. HIDE DEF after
  <2>11. Cardinality(after) <= Most(Cap, Cardinality(Present \cap Stable) + 1)
    BY <2>7, <2>8, <2>9, <2>10 DEF Most
  <2>. QED
    BY <2>11 DEF after
<1>4. CASE \E g \in Facts, s \in Statuses : rows' = SetStatus(rows, g, s)
  <2>1. \A f \in Facts : rows'[f] = NoRow <=> rows[f] = NoRow
    BY <1>1, <1>4, SetStatusKeepsClass
  <2>. QED
    BY <2>1 DEF Present
<1>5. ASSUME NEW g \in Facts, SupersedeRow(t, g) \/ CorrectRow(t, g)
      PROVE  \E s \in Statuses : rows' = SetStatus(rows, g, s)
  BY <1>5 DEF SupersedeRow, CorrectRow, Statuses
<1>6. ASSUME CorrectByVector(t)
      PROVE  \E g \in Facts, s \in Statuses : rows' = SetStatus(rows, g, s)
  BY <1>6 DEF CorrectByVector, Statuses, Present
<1>7. \/ rows' = rows \/ Store(t) \/ CorrectByVector(t)
      \/ \E g \in Facts : SupersedeRow(t, g) \/ CorrectRow(t, g)
  BY DEF IngestStep, BeginIngest, NothingCorrected, Investigate, CorrectionDone,
         AbortedTaskEnds, StoreNothing, SkipRow
<1>. QED
  BY <1>2, <1>3, <1>4, <1>5, <1>6, <1>7

\* The rows of a chat never grow past the cap in an ingest, for any cap and
\* any number of anchors, unless the anchors alone fill it.
THEOREM GrowthIsCapped == Spec => GrowthWithinCap
<1>1. ASSUME IInv, [Next]_vars
      PROVE  [LET after == {f \in Facts : rows'[f] # NoRow} IN
              ingest' # ingest =>
                \/ after \subseteq Present
                \/ Cardinality(after) <= Most(Cap, Cardinality(Present \cap Stable) + 1)]_vars
  <2>1. ASSUME ingest' # ingest
        PROVE  \E t \in Threads : IngestStep(t)
    BY <1>1, <2>1 DEF Next, Maintain, vars
  <2>. QED
    BY <1>1, <2>1, IngestWithinCap
<1>. QED
  BY InitIInv, NextIInv, <1>1, PTL DEF Spec, GrowthWithinCap

-----------------------------------------------------------------------------

\* A row becomes core.
NewCore(f) ==
    /\ rows'[f] # NoRow /\ rows'[f].mclass = "core"
    /\ f \in Present => rows[f].mclass # "core"

\* What a promotion makes resident are the rows it promotes, beside the rows
\* that were resident before it.
LEMMA PromotedResidents ==
    ASSUME NEW table \in [Facts -> Row \cup {NoRow}], NEW p \in Promotions(table), p # {}
    PROVE  Cardinality(Residents(PromoteCore(table, p))) <= CoreCap
<1>. DEFINE R == Residents(table)
<1>1. p \in SUBSET Facts /\ R \in SUBSET Facts
  BY ConstantFacts DEF Promotions, Promotable, Residents
<1>2. Cardinality(p) <= Monus(CoreCap, Cardinality(R))
  BY DEF Promotions
<1>3. Residents(PromoteCore(table, p)) \subseteq p \cup R
  <2>1. ASSUME NEW f \in Facts, f \notin p
        PROVE  PromoteCore(table, p)[f] = table[f]
    BY <2>1 DEF PromoteCore
  <2>. QED
    BY <2>1 DEF Residents, Resident
<1>. DEFINE Q == Residents(PromoteCore(table, p))
<1>4. Q \in SUBSET (p \cup R) /\ p \cup R \in SUBSET Facts
  BY <1>1, <1>3
<1>. HIDE DEF Q, R
<1>5. Cardinality(Q) <= Cardinality(p \cup R)
  BY <1>4, FactSets
<1>6. Cardinality(p \cup R) <= Cardinality(p) + Cardinality(R)
  BY <1>1, FactUnion
<1>7. /\ Cardinality(p) \in Nat /\ Cardinality(R) \in Nat
      /\ Cardinality(Q) \in Nat /\ Cardinality(p \cup R) \in Nat
  BY <1>1, <1>4, FactSets
<1>8. Cardinality(p) # 0
  BY <1>1, FactSets, FS_EmptySet
<1>9. CoreCap \in Nat
  BY StoreBounds
<1>10. Cardinality(Q) <= CoreCap
  BY <1>2, <1>5, <1>6, <1>7, <1>8, <1>9 DEF Monus
<1>. QED
  BY <1>10 DEF Q

\* Only the transaction of an ingest makes a row core.
LEMMA OnlyStorePromotes ==
    ASSUME IInv, [Next]_vars, NEW f \in Facts, NewCore(f)
    PROVE  \E t \in Threads : Store(t)
<1>1. rows \in [Facts -> Row \cup {NoRow}]
  BY DEF IInv, TypeOK
<1>2. rows' # rows
  BY DEF NewCore, Present
<1>3. ASSUME NEW g \in Facts, NEW s \in Statuses
      PROVE  rows' # SetStatus(rows, g, s)
  BY <1>1, SetStatusKeepsClass DEF NewCore, Present
<1>4. ASSUME NEW g \in Facts, NEW c \in Classes, rows' = MemoryAdd(rows, g, c)
      PROVE  g = f /\ c = "core"
  <2>1. g = f
    BY <1>1, <1>4 DEF NewCore, Present, MemoryAdd
  <2>. QED
    BY <1>1, <1>4, <2>1 DEF NewCore, MemoryAdd
<1>5. ASSUME NEW g \in Facts
      PROVE  rows' # MemoryDelete(rows, g)
  BY <1>1 DEF NewCore, Present, MemoryDelete
<1>6. ASSUME NEW t \in Threads, IngestStep(t)
      PROVE  Store(t)
  <2>1. ASSUME NEW g \in Facts
        PROVE  ~SupersedeRow(t, g) /\ ~CorrectRow(t, g)
    BY <1>3 DEF SupersedeRow, CorrectRow, Statuses
  <2>2. ~CorrectByVector(t)
    BY <1>3 DEF CorrectByVector, Statuses, Present
  <2>. QED
    BY <1>2, <1>6, <2>1, <2>2
       DEF IngestStep, BeginIngest, NothingCorrected, Investigate, CorrectionDone,
           AbortedTaskEnds, StoreNothing, SkipRow
<1>7. ASSUME NEW g \in Facts
      PROVE  ~Maintain(g)
  <2>1. ~Publicize(g)
    <3>1. ASSUME Publicize(g) PROVE FALSE
      <4>1. rows[g] \in Row /\ g \in Present
        BY <1>1, <3>1 DEF Publicize, Present
      <4>2. rows[g].mclass \in Classes
        BY <4>1 DEF Row
      <4>3. g = f /\ rows[g].mclass = "core"
        BY <1>4, <3>1, <4>2 DEF Publicize
      <4>. QED
        BY <4>1, <4>3 DEF NewCore
    <3>. QED
      BY <3>1
  <2>2. ~AddFact(g) /\ ~Remember(g)
    BY <1>4 DEF AddFact, Remember, Classes
  <2>3. ~Unremember(g) /\ ~ScanConflict(g) /\ ~ScanCalendar(g)
    BY <1>3 DEF Unremember, ScanConflict, ScanCalendar, Statuses
  <2>4. ~Expire(g) /\ ~Prune(g)
    BY <1>5 DEF Expire, Prune
  <2>. QED
    BY <2>1, <2>2, <2>3, <2>4 DEF Maintain
<1>. QED
  BY <1>2, <1>6, <1>7 DEF Next, vars

\* A row that the transaction makes core is one it promotes.
LEMMA StorePromotes ==
    ASSUME IInv, NEW t \in Threads, Store(t), NEW f \in Facts, NewCore(f)
    PROVE  Cardinality({g \in Facts : Resident(rows'[g])}) <= CoreCap
<1>1. rows \in [Facts -> Row \cup {NoRow}]
  BY DEF IInv, TypeOK
<1>2. PICK new \in SUBSET Facts : \E split \in Splits(new) :
               \E merged \in Merges(split.added) :
               \E p \in Promotions(Replace(merged, split)) :
                 rows' = Stored(merged, split, p)
  BY StoreChoices
<1>3. PICK split \in Splits(new) :
               \E merged \in Merges(split.added) :
               \E p \in Promotions(Replace(merged, split)) :
                 rows' = Stored(merged, split, p)
  BY <1>2
<1>4. PICK merged \in Merges(split.added) :
               \E p \in Promotions(Replace(merged, split)) :
                 rows' = Stored(merged, split, p)
  BY <1>3
<1>5. PICK p \in Promotions(Replace(merged, split)) : rows' = Stored(merged, split, p)
  BY <1>4
<1>. DEFINE T == Replace(merged, split)
<1>6. /\ T \in [Facts -> Row \cup {NoRow}]
      /\ \A g \in Facts : T[g] # NoRow =>
           \/ T[g].mclass = "short"
           \/ rows[g] # NoRow /\ T[g].mclass = rows[g].mclass
  BY <1>1, ReplaceType
<1>7. rows' = PromoteCore(T, p)
  BY <1>5 DEF Stored
<1>. HIDE DEF T
<1>8. f \in p
  <2>1. SUFFICES ASSUME f \notin p PROVE FALSE
    OBVIOUS
  <2>2. rows'[f] = T[f]
    BY <1>7, <2>1 DEF PromoteCore
  <2>. QED
    BY <1>6, <2>2 DEF NewCore, Present
<1>9. Cardinality(Residents(PromoteCore(T, p))) <= CoreCap
  BY <1>5, <1>6, <1>8, PromotedResidents DEF T
<1>. QED
  BY <1>7, <1>9 DEF Residents

\* Whatever writes the rows, a step that makes a row core leaves at most
\* CoreCap rows in every prompt.
THEOREM PromotionIsCapped == Spec => PromotionWithinCap
<1>1. ASSUME IInv, [Next]_vars
      PROVE  [(\E f \in Facts : /\ rows'[f] # NoRow /\ rows'[f].mclass = "core"
                                /\ f \in Present => rows[f].mclass # "core")
              => Cardinality({f \in Facts : Resident(rows'[f])}) <= CoreCap]_vars
  <2>1. ASSUME NEW f \in Facts, NewCore(f)
        PROVE  Cardinality({g \in Facts : Resident(rows'[g])}) <= CoreCap
    BY <1>1, <2>1, OnlyStorePromotes, StorePromotes
  <2>. QED
    BY <2>1 DEF NewCore
<1>. QED
  BY InitIInv, NextIInv, <1>1, PTL DEF Spec, PromotionWithinCap
=============================================================================
