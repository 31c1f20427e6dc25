----------------------------- MODULE RecordsProofs -----------------------------
(***************************************************************************)
(* Proofs about what is kept of conversations (MCRecords): the search and  *)
(* its indexes, the sessions and the logs, the scores, an import, what is  *)
(* drawn from facts, the upkeep of the night, the scan, beliefs, and dates *)
(* in any calendar. Each component has its invariant, which holds while it *)
(* is in focus.                                                            *)
(***************************************************************************)
EXTENDS MCRecords, FiniteSetTheorems, SequenceTheorems, WellFoundedInduction, TLAPS
-----------------------------------------------------------------------------
(* The search and its indexes *)

NoteRow == [status : {"none", "active", "superseded"}, audience : {"", "public"}]
Result == [at : Nat, from : Nat, hits : SUBSET Notes, empty : BOOLEAN]
SearchPhases == {"idle", "lexical", "channels", "loaded", "ranked", "done"}
Search == [phase : SearchPhases, scene : Found!Scenes, found : SUBSET Notes,
           hits : SUBSET Notes, asked : Nat, from : Nat, at : Nat]
GrowPhases == {"idle", "cleared", "syncing", "vectors", "emptied"}
Growth == [phase : GrowPhases, read : SUBSET Notes, todo : SUBSET Found!Scenes]

\* With the rows r and the times g a fact is in the memory, or was so at a time.
Held(r, g, f, time) == r[f].status \notin {"none", "superseded"} \/ g[f] >= time

\* What the cache has was in the memory when the search began whose result it is.
ResultRight(c, r, g, clock) ==
    /\ c.at <= clock /\ c.from <= clock
    /\ \A f \in c.hits : Held(r, g, f, c.from)

\* So were the hits of a search; and once they are ranked they are not too old.
SearchRight(k, r, g, clock) ==
    /\ k.asked <= clock /\ k.from <= clock
    /\ \A f \in k.hits : Held(r, g, f, k.from)
    /\ k.phase \in {"ranked", "done"} => k.asked < k.at + ResultTtl

\* A rebuild that does w has written the scope of f, or has yet to begin.
Synced(w, f) ==
    \/ w.phase \in {"idle", "vectors", "emptied"}
    \/ w.phase = "syncing" /\ Found!Scope(f) \notin w.todo

Indexed == \A f \in Notes : Found!Stored(f) /\ Synced(grow, f) => f \in bm25 \cup late

RetrievalTyped ==
    /\ backend \in Backends
    /\ now \in Nat
    /\ rows \in [Notes -> NoteRow]
    /\ known \subseteq Notes /\ bm25 \subseteq Notes /\ fts \subseteq Notes /\ vec \subseteq Notes
    /\ late \subseteq Notes
    /\ grow \in Growth
    /\ cache \in [Found!Scenes -> Result]
    /\ seeker \in [Seekers -> Search]
    /\ gone \in [Notes -> Nat]
    /\ \A f \in Notes : gone[f] <= now

RetrievalInv ==
    /\ RetrievalTyped /\ Indexed
    /\ \A c \in Found!Scenes : ResultRight(cache[c], rows, gone, now)
    /\ \A s \in Seekers : SearchRight(seeker[s], rows, gone, now)

LEMMA TtlIsPositive == ResultTtl \in Nat \ {0}
BY ConstantsAssumption DEF Found!RetrievalAssumption

LEMMA RetrievalStarts == Init => RetrievalInv
<1>. SUFFICES ASSUME Init PROVE RetrievalInv
  OBVIOUS
<1>1. /\ backend \in Backends /\ now = 0
      /\ rows = [f \in Notes |-> Found!NoRow]
      /\ known = {} /\ bm25 = {} /\ fts = {} /\ vec = {} /\ late = {}
      /\ grow = Found!Resting
      /\ cache = [c \in Found!Scenes |-> Found!NoResult]
      /\ seeker = [s \in Seekers |-> Found!Idle]
      /\ gone = [f \in Notes |-> 0]
  BY DEF Init, Found!Init
<1>2. /\ Found!NoRow \in NoteRow /\ Found!NoRow.status = "none"
      /\ Found!Resting \in Growth
      /\ Found!NoResult \in Result
      /\ Found!Idle \in Search
  BY DEF Found!NoRow, NoteRow, Found!Resting, Growth, GrowPhases, Found!NoResult, Result,
         Found!Idle, Search, SearchPhases, Found!Scenes
<1>3. RetrievalTyped
  BY <1>1, <1>2 DEF RetrievalTyped
<1>4. Indexed
  BY <1>1, <1>2 DEF Indexed, Found!Stored
<1>5. ResultRight(Found!NoResult, rows, gone, now)
  BY <1>1 DEF ResultRight, Found!NoResult
<1>6. SearchRight(Found!Idle, rows, gone, now)
  BY <1>1 DEF SearchRight, Found!Idle
<1>. QED
  BY <1>1, <1>3, <1>4, <1>5, <1>6 DEF RetrievalInv

\* What was right stays so when the clock goes on, and a fact that is no more
\* held is noted as gone at a time that is not before it.
LEMMA RightStays ==
    ASSUME RetrievalTyped, NEW r, NEW g, NEW clock \in Nat, now <= clock,
           \A f \in Notes, time \in Nat :
               time <= now /\ Held(rows, gone, f, time) => Held(r, g, f, time)
    PROVE  /\ \A c \in Result :
                  ResultRight(c, rows, gone, now) => ResultRight(c, r, g, clock)
           /\ \A k \in Search :
                  SearchRight(k, rows, gone, now) => SearchRight(k, r, g, clock)
<1>. now \in Nat
  BY DEF RetrievalTyped
<1>1. ASSUME NEW c \in Result, ResultRight(c, rows, gone, now)
      PROVE  ResultRight(c, r, g, clock)
  <2>1. c.at \in Nat /\ c.from \in Nat /\ c.hits \subseteq Notes
    BY DEF Result
  <2>. QED
    BY <1>1, <2>1 DEF ResultRight
<1>2. ASSUME NEW k \in Search, SearchRight(k, rows, gone, now)
      PROVE  SearchRight(k, r, g, clock)
  <2>1. k.asked \in Nat /\ k.from \in Nat /\ k.hits \subseteq Notes
    BY DEF Search
  <2>. QED
    BY <1>2, <2>1 DEF SearchRight
<1>. QED
  BY <1>1, <1>2

\* A step of the rows or of the clock.
LEMMA RowsMove ==
    ASSUME RetrievalInv, RetrievalTyped', Indexed',
           \A f \in Notes, time \in Nat :
               time <= now /\ Held(rows, gone, f, time) => Held(rows', gone', f, time),
           now <= now', UNCHANGED <<cache, seeker>>
    PROVE  RetrievalInv'
<1>1. RetrievalTyped /\ now' \in Nat
  BY DEF RetrievalInv, RetrievalTyped
<1>2. \A c \in Result : ResultRight(c, rows, gone, now) => ResultRight(c, rows', gone', now')
  BY <1>1, RightStays
<1>3. \A k \in Search : SearchRight(k, rows, gone, now) => SearchRight(k, rows', gone', now')
  BY <1>1, RightStays
<1>4. /\ \A c \in Found!Scenes : cache[c] \in Result
      /\ \A s \in Seekers : seeker[s] \in Search
  BY <1>1 DEF RetrievalTyped
<1>5. \A c \in Found!Scenes : ResultRight(cache'[c], rows', gone', now')
  BY <1>2, <1>4 DEF RetrievalInv
<1>6. \A s \in Seekers : SearchRight(seeker'[s], rows', gone', now')
  BY <1>3, <1>4 DEF RetrievalInv
<1>. QED
  BY <1>5, <1>6 DEF RetrievalInv

LEMMA LearnKeeps == ASSUME RetrievalInv, NEW f \in Notes, Found!Learn(f) PROVE RetrievalInv'
<1>. DEFINE row == [status |-> "active", audience |-> ""]
<1>1. /\ ~Found!Stored(f) /\ rows' = [rows EXCEPT ![f] = row]
      /\ known' = known \cup {f}
      /\ fts' = Found!LexiconSync(Found!Scope(f), Found!Table(Found!Scope(f)) \cup {f})
      /\ bm25' = bm25 \cup {f}
      /\ UNCHANGED <<backend, now, vec, grow, late, cache, seeker, gone>>
  BY DEF Found!Learn, Found!Bm25Upsert, Found!SqliteBm25Upsert, Found!PgBm25Upsert
<1>2. RetrievalTyped
  BY DEF RetrievalInv
<1>3. row \in NoteRow /\ row.status = "active"
  BY DEF NoteRow
<1>. HIDE DEF row
<1>4. fts' \subseteq Notes
  BY <1>1, <1>2 DEF RetrievalTyped, Found!LexiconSync, Found!SqliteLexiconSync,
                    Found!PgLexiconSync, Found!Table
<1>5. RetrievalTyped'
  <2>1. rows' \in [Notes -> NoteRow]
    BY <1>1, <1>2, <1>3 DEF RetrievalTyped
  <2>. QED
    BY <1>1, <1>2, <1>4, <2>1 DEF RetrievalTyped
<1>6. Indexed'
  <2>1. \A x \in Notes \ {f} : rows'[x] = rows[x]
    BY <1>1, <1>2 DEF RetrievalTyped
  <2>2. Indexed
    BY DEF RetrievalInv
  <2>. QED
    BY <1>1, <2>1, <2>2 DEF Indexed, Found!Stored
<1>7. \A x \in Notes, time \in Nat :
          time <= now /\ Held(rows, gone, x, time) => Held(rows', gone', x, time)
  <2>1. \A x \in Notes : rows'[x] = IF x = f THEN row ELSE rows[x]
    BY <1>1, <1>2 DEF RetrievalTyped
  <2>. QED
    BY <1>1, <1>3, <2>1 DEF Held
<1>8. now <= now'
  BY <1>1, <1>2 DEF RetrievalTyped
<1>. QED
  BY <1>1, <1>5, <1>6, <1>7, <1>8, RowsMove

\* A row that is superseded, deleted or made public.
LEMMA RowChanges ==
    ASSUME RetrievalInv, NEW f \in Notes, NEW row \in NoteRow, NEW at \in Nat,
           rows' = [rows EXCEPT ![f] = row], gone' = [gone EXCEPT ![f] = at],
           UNCHANGED <<backend, now, known, bm25, fts, vec, grow, late, cache, seeker>>,
           rows[f].status # "none", at <= now,
           at = now \/ (at = gone[f] /\ (Found!Live(f) => row.status = rows[f].status))
    PROVE  RetrievalInv'
<1>1. RetrievalTyped /\ Indexed
  BY DEF RetrievalInv
<1>2. /\ \A x \in Notes : rows'[x] = IF x = f THEN row ELSE rows[x]
      /\ \A x \in Notes : gone'[x] = IF x = f THEN at ELSE gone[x]
      /\ rows' \in [Notes -> NoteRow] /\ gone' \in [Notes -> Nat]
  BY <1>1 DEF RetrievalTyped
<1>3. RetrievalTyped'
  BY <1>1, <1>2 DEF RetrievalTyped
<1>4. Indexed'
  BY <1>1, <1>2 DEF Indexed, Found!Stored
<1>5. \A x \in Notes, time \in Nat :
          time <= now /\ Held(rows, gone, x, time) => Held(rows', gone', x, time)
  <2>. SUFFICES ASSUME NEW x \in Notes, NEW time \in Nat, time <= now,
                       Held(rows, gone, x, time)
                PROVE  Held(rows', gone', x, time)
    OBVIOUS
  <2>1. CASE x # f
    BY <1>2, <2>1 DEF Held
  <2>2. CASE x = f /\ at = now
    BY <1>1, <1>2, <2>2 DEF Held, RetrievalTyped
  <2>3. CASE x = f /\ at = gone[f] /\ (Found!Live(f) => row.status = rows[f].status)
    BY <1>2, <2>3 DEF Held, Found!Live
  <2>. QED
    BY <2>1, <2>2, <2>3
<1>6. now <= now'
  BY <1>1 DEF RetrievalTyped
<1>. QED
  BY <1>3, <1>4, <1>5, <1>6, RowsMove

LEMMA EditsKeep ==
    ASSUME RetrievalInv, NEW f \in Notes,
           Found!Supersede(f) \/ Found!Forget(f) \/ Found!Publicize(f)
    PROVE  RetrievalInv'
<1>1. /\ rows \in [Notes -> NoteRow] /\ gone \in [Notes -> Nat] /\ now \in Nat
      /\ gone[f] <= now /\ rows[f] \in NoteRow /\ gone[f] \in Nat
  BY DEF RetrievalInv, RetrievalTyped
<1>2. CASE Found!Supersede(f)
  <2>. DEFINE row == [rows[f] EXCEPT !.status = "superseded"]
  <2>1. row \in NoteRow
    BY <1>1 DEF NoteRow
  <2>2. /\ rows' = [rows EXCEPT ![f] = row] /\ gone' = [gone EXCEPT ![f] = now]
        /\ rows[f].status # "none" /\ now <= now
        /\ UNCHANGED <<backend, now, known, bm25, fts, vec, grow, late, cache, seeker>>
    BY <1>1, <1>2 DEF Found!Supersede, Found!Live
  <2>. HIDE DEF row
  <2>. QED
    BY <1>1, <2>1, <2>2, RowChanges
<1>3. CASE Found!Forget(f)
  <2>. DEFINE at == IF Found!Live(f) THEN now ELSE gone[f]
  <2>1. /\ rows' = [rows EXCEPT ![f] = Found!NoRow] /\ gone' = [gone EXCEPT ![f] = at]
        /\ rows[f].status # "none"
        /\ UNCHANGED <<backend, now, known, bm25, fts, vec, grow, late, cache, seeker>>
    BY <1>3 DEF Found!Forget, Found!Stored
  <2>2. /\ at \in Nat /\ at <= now
        /\ at = now \/ (at = gone[f] /\ ~Found!Live(f))
    BY <1>1
  <2>3. Found!NoRow \in NoteRow
    BY DEF Found!NoRow, NoteRow
  <2>. HIDE DEF at
  <2>4. at = now \/ (at = gone[f] /\ (Found!Live(f) => Found!NoRow.status = rows[f].status))
    BY <2>2
  <2>. QED
    BY <2>1, <2>2, <2>3, <2>4, RowChanges
<1>4. CASE Found!Publicize(f)
  <2>. DEFINE row == [rows[f] EXCEPT !.audience = "public"]
  <2>1. row \in NoteRow /\ row.status = rows[f].status
    BY <1>1 DEF NoteRow
  <2>2. /\ rows' = [rows EXCEPT ![f] = row] /\ rows[f].status # "none"
        /\ UNCHANGED <<backend, now, known, bm25, fts, vec, grow, late, cache, seeker, gone>>
    BY <1>1, <1>4 DEF Found!Publicize, Found!Stored
  <2>3. gone' = [gone EXCEPT ![f] = gone[f]]
    BY <1>1, <2>2
  <2>. HIDE DEF row
  <2>4. gone[f] = now \/ (gone[f] = gone[f] /\ (Found!Live(f) => row.status = rows[f].status))
    BY <2>1
  <2>. QED
    BY <1>1, <2>1, <2>2, <2>3, <2>4, RowChanges
<1>. QED
  BY <1>2, <1>3, <1>4

LEMMA ClockKeeps == ASSUME RetrievalInv, Found!Tick PROVE RetrievalInv'
<1>1. /\ now' = now + 1
      /\ UNCHANGED <<backend, rows, known, bm25, fts, vec, grow, late, cache, seeker, gone>>
  BY DEF Found!Tick
<1>2. RetrievalTyped /\ Indexed
  BY DEF RetrievalInv
<1>3. RetrievalTyped'
  BY <1>1, <1>2 DEF RetrievalTyped
<1>4. Indexed'
  BY <1>1, <1>2 DEF Indexed, Found!Stored
<1>5. now <= now' /\ \A f \in Notes, time \in Nat :
          time <= now /\ Held(rows, gone, f, time) => Held(rows', gone', f, time)
  BY <1>1, <1>2 DEF RetrievalTyped
<1>. QED
  BY <1>1, <1>3, <1>4, <1>5, RowsMove

\* A step of the rebuild.
LEMMA GrowthKeeps ==
    ASSUME RetrievalInv,
           \/ Found!GrowClear \/ Found!GrowRead \/ Found!VecRead \/ Found!VecClear
           \/ Found!VecReplace \/ \E scope \in Found!Scenes : Found!GrowSync(scope)
    PROVE  RetrievalInv'
<1>1. RetrievalTyped /\ Indexed /\ grow \in Growth
  BY DEF RetrievalInv, RetrievalTyped
<1>2. UNCHANGED <<backend, now, rows, cache, seeker, gone>>
  BY DEF Found!GrowClear, Found!GrowRead, Found!VecRead, Found!VecClear, Found!VecReplace,
         Found!GrowSync
<1>3. /\ known' \subseteq Notes /\ bm25' \subseteq Notes /\ fts' \subseteq Notes
      /\ vec' \subseteq Notes /\ late' \subseteq Notes /\ grow' \in Growth
      /\ Indexed'
  <2>1. CASE Found!GrowClear
    <3>1. /\ grow' = [grow EXCEPT !.phase = "cleared"]
          /\ known' \subseteq known /\ bm25' = {}
          /\ fts' \subseteq Notes \cup fts
          /\ UNCHANGED <<rows, vec, late>>
      BY <2>1 DEF Found!GrowClear, Found!SqliteLexiconRebuild, Found!PgLexiconRebuild
    <3>2. grow' \in Growth /\ grow'.phase = "cleared"
      BY <1>1, <3>1 DEF Growth, GrowPhases
    <3>3. Indexed'
      BY <3>2 DEF Indexed, Synced
    <3>. QED
      BY <1>1, <3>1, <3>2, <3>3 DEF RetrievalTyped
  <2>2. CASE Found!GrowRead
    <3>. DEFINE read == {f \in Notes : Found!Stored(f)}
                todos == {Found!Scope(f) : f \in read}
    <3>1. /\ grow' = [phase |-> "syncing", read |-> read, todo |-> todos]
          /\ UNCHANGED <<rows, known, bm25, fts, vec, late>>
      BY <2>2 DEF Found!GrowRead
    <3>2. todos \subseteq Found!Scenes
      BY DEF Found!Scope, Found!Scenes
    <3>3. grow' \in Growth /\ grow'.phase = "syncing" /\ grow'.todo = todos
      BY <3>1, <3>2 DEF Growth, GrowPhases
    <3>4. Indexed'
      BY <3>1, <3>3 DEF Indexed, Synced, Found!Stored
    <3>. QED
      BY <1>1, <3>1, <3>3, <3>4 DEF RetrievalTyped
  <2>3. CASE Found!VecRead
    <3>1. /\ grow.phase = "syncing" /\ grow.todo = {}
          /\ grow' = [Found!Resting EXCEPT !.phase = "vectors",
                                           !.read = {f \in Notes : Found!Stored(f)}]
          /\ UNCHANGED <<rows, known, bm25, fts, vec, late>>
      BY <2>3 DEF Found!VecRead
    <3>2. grow' \in Growth
      BY <3>1 DEF Growth, GrowPhases, Found!Resting
    <3>3. Indexed'
      BY <1>1, <3>1 DEF Indexed, Synced, Found!Stored
    <3>. QED
      BY <1>1, <3>1, <3>2, <3>3 DEF RetrievalTyped
  <2>4. CASE Found!VecClear
    <3>1. /\ grow.phase = "vectors" /\ grow' = [grow EXCEPT !.phase = "emptied"]
          /\ vec' = {}
          /\ UNCHANGED <<rows, known, bm25, fts, late>>
      BY <2>4 DEF Found!VecClear, Found!SqliteVecClear, Found!PgVecClear
    <3>2. grow' \in Growth
      BY <1>1, <3>1 DEF Growth, GrowPhases
    <3>3. Indexed'
      BY <1>1, <3>1 DEF Indexed, Synced, Found!Stored
    <3>. QED
      BY <1>1, <3>1, <3>2, <3>3 DEF RetrievalTyped
  <2>5. CASE Found!VecReplace
    <3>1. /\ grow.phase = "emptied" /\ grow' = Found!Resting
          /\ vec' = grow.read
          /\ UNCHANGED <<rows, known, bm25, fts, late>>
      BY <2>5 DEF Found!VecReplace, Found!SqliteVecIndexReplace, Found!PgVecIndexReplace
    <3>2. grow' \in Growth /\ vec' \subseteq Notes
      BY <1>1, <3>1 DEF Growth, GrowPhases, Found!Resting
    <3>3. Indexed'
      BY <1>1, <3>1 DEF Indexed, Synced, Found!Stored
    <3>. QED
      BY <1>1, <3>1, <3>2, <3>3 DEF RetrievalTyped
  <2>6. ASSUME NEW scope \in Found!Scenes, Found!GrowSync(scope)
        PROVE  /\ known' \subseteq Notes /\ bm25' \subseteq Notes /\ fts' \subseteq Notes
               /\ vec' \subseteq Notes /\ late' \subseteq Notes /\ grow' \in Growth
               /\ Indexed'
    <3>. DEFINE part == {f \in grow.read : Found!Scope(f) = scope}
    <3>1. /\ grow.phase = "syncing"
          /\ bm25' = {f \in bm25 : Found!Scope(f) # scope} \cup part
          /\ late' = {f \in late : f \notin part} \cup (Found!Table(scope) \ part)
          /\ grow' = [grow EXCEPT !.todo = @ \ {scope}]
          /\ UNCHANGED <<rows, known, fts, vec>>
      BY <2>6 DEF Found!GrowSync, Found!Bm25Sync, Found!SqliteBm25Sync, Found!PgBm25Sync
    <3>2. grow.read \subseteq Notes /\ grow.todo \subseteq Found!Scenes
      BY <1>1 DEF Growth
    <3>3. /\ grow' \in Growth /\ grow'.phase = "syncing"
          /\ grow'.todo = grow.todo \ {scope}
      BY <1>1, <3>1, <3>2 DEF Growth
    <3>4. bm25' \subseteq Notes /\ late' \subseteq Notes
      BY <1>1, <3>1, <3>2 DEF RetrievalTyped, Found!Table
    <3>5. Indexed'
      <4>. SUFFICES ASSUME NEW f \in Notes, Found!Stored(f), Synced(grow', f)
                    PROVE  f \in bm25' \cup late'
        BY <3>1 DEF Indexed, Found!Stored
      <4>1. CASE Found!Scope(f) = scope
        BY <3>1, <4>1 DEF Found!Table
      <4>2. CASE Found!Scope(f) # scope
        <5>1. Synced(grow, f)
          BY <3>1, <3>3, <4>2 DEF Synced
        <5>2. f \in bm25 \cup late
          BY <1>1, <5>1 DEF Indexed
        <5>. QED
          BY <3>1, <4>2, <5>2
      <4>. QED
        BY <4>1, <4>2
    <3>. QED
      BY <1>1, <3>1, <3>3, <3>4, <3>5 DEF RetrievalTyped
  <2>. QED
    BY <2>1, <2>2, <2>3, <2>4, <2>5, <2>6
<1>4. RetrievalTyped'
  BY <1>1, <1>2, <1>3 DEF RetrievalTyped
<1>. QED
  BY <1>2, <1>3, <1>4 DEF RetrievalInv

\* One search goes on.
LEMMA SearchGoesOn ==
    ASSUME RetrievalInv, NEW s \in Seekers, NEW k \in Search, SearchRight(k, rows, gone, now),
           seeker' = [seeker EXCEPT ![s] = k],
           cache' \in [Found!Scenes -> Result],
           \A c \in Found!Scenes : ResultRight(cache'[c], rows, gone, now),
           UNCHANGED <<backend, now, rows, known, bm25, fts, vec, grow, late, gone>>
    PROVE  RetrievalInv'
<1>1. RetrievalTyped /\ Indexed
  BY DEF RetrievalInv
<1>2. /\ seeker' \in [Seekers -> Search]
      /\ \A x \in Seekers : seeker'[x] = IF x = s THEN k ELSE seeker[x]
  BY <1>1 DEF RetrievalTyped
<1>3. RetrievalTyped'
  BY <1>1, <1>2 DEF RetrievalTyped
<1>4. Indexed'
  BY <1>1 DEF Indexed, Found!Stored
<1>5. \A x \in Seekers : SearchRight(seeker'[x], rows, gone, now)
  BY <1>2 DEF RetrievalInv
<1>. QED
  BY <1>3, <1>4, <1>5 DEF RetrievalInv

LEMMA SearchesKeep ==
    ASSUME RetrievalInv, NEW s \in Seekers,
           \/ \E scene \in Found!Scenes : Found!FromCache(s, scene) \/ Found!Lexical(s, scene)
           \/ Found!Channels(s) \/ Found!Load(s) \/ Found!Rank(s) \/ Found!Deliver(s)
    PROVE  RetrievalInv'
<1>1. RetrievalTyped /\ Indexed
  BY DEF RetrievalInv
<1>2. /\ now \in Nat /\ known \subseteq Notes /\ bm25 \subseteq Notes /\ fts \subseteq Notes
      /\ vec \subseteq Notes /\ cache \in [Found!Scenes -> Result]
      /\ \A c \in Found!Scenes : cache[c] \in Result /\ ResultRight(cache[c], rows, gone, now)
  BY <1>1 DEF RetrievalTyped, RetrievalInv
<1>3. /\ seeker[s] \in Search /\ SearchRight(seeker[s], rows, gone, now)
      /\ seeker[s].found \subseteq Notes /\ seeker[s].hits \subseteq Notes
      /\ seeker[s].asked \in Nat /\ seeker[s].from \in Nat /\ seeker[s].scene \in Found!Scenes
      /\ seeker[s].asked <= now /\ seeker[s].from <= now
      /\ \A f \in seeker[s].hits : Held(rows, gone, f, seeker[s].from)
      /\ seeker[s].phase \in {"ranked", "done"} => seeker[s].asked < seeker[s].at + ResultTtl
  BY <1>1 DEF RetrievalTyped, RetrievalInv, Search, SearchRight
<1>4. Found!Idle \in Search
  BY DEF Found!Idle, Search, SearchPhases, Found!Scenes
<1>5. ASSUME NEW scene \in Found!Scenes, Found!FromCache(s, scene) PROVE RetrievalInv'
  <2>. DEFINE c == cache[scene]
              k == [Found!Idle EXCEPT !.phase = "ranked", !.scene = scene, !.hits = c.hits,
                                      !.asked = now, !.from = c.from, !.at = c.at]
  <2>1. /\ now - c.at < ResultTtl /\ seeker' = [seeker EXCEPT ![s] = k]
        /\ UNCHANGED <<backend, now, rows, known, bm25, fts, vec, grow, late, cache, gone>>
    BY <1>5 DEF Found!FromCache, Found!Step, Found!Fresh
  <2>2. c.at \in Nat /\ c.from \in Nat /\ c.hits \subseteq Notes /\ c \in Result
    BY <1>2 DEF Result
  <2>3. /\ k \in Search /\ k.asked = now /\ k.from = c.from /\ k.at = c.at /\ k.hits = c.hits
    BY <1>2, <1>4, <2>2 DEF Search, SearchPhases, Found!Idle
  <2>4. ResultRight(c, rows, gone, now)
    BY <1>2
  <2>5. now < c.at + ResultTtl
    BY <1>2, <2>1, <2>2, TtlIsPositive
  <2>. HIDE DEF c, k
  <2>6. SearchRight(k, rows, gone, now)
    BY <1>2, <2>3, <2>4, <2>5 DEF SearchRight, ResultRight
  <2>. QED
    BY <1>2, <2>1, <2>3, <2>6, SearchGoesOn
<1>6. ASSUME NEW scene \in Found!Scenes, Found!Lexical(s, scene) PROVE RetrievalInv'
  <2>1. PICK x \in Found!LexicalSearch :
            seeker' = [seeker EXCEPT ![s] =
                [Found!Idle EXCEPT !.phase = "lexical", !.scene = scene, !.found = x,
                                   !.asked = now, !.from = now]]
    BY <1>6 DEF Found!Lexical, Found!Step
  <2>2. UNCHANGED <<backend, now, rows, known, bm25, fts, vec, grow, late, cache, gone>>
    BY <1>6 DEF Found!Lexical
  <2>3. x \subseteq Notes
    <3>1. /\ Found!LexiconSearch \subseteq Notes /\ Found!MemorySearch \subseteq Notes
      BY <1>2 DEF Found!LexiconSearch, Found!SqliteLexiconSearch, Found!PgLexiconSearch,
                  Found!MemorySearch
    <3>. QED
      BY <1>2, <3>1 DEF Found!LexicalSearch
  <2>. DEFINE k == [Found!Idle EXCEPT !.phase = "lexical", !.scene = scene, !.found = x,
                                      !.asked = now, !.from = now]
  <2>4. /\ k \in Search /\ k.asked = now /\ k.from = now /\ k.hits = {} /\ k.phase = "lexical"
    BY <1>2, <1>4, <2>3 DEF Search, SearchPhases, Found!Idle
  <2>5. seeker' = [seeker EXCEPT ![s] = k]
    BY <2>1
  <2>. HIDE DEF k
  <2>6. SearchRight(k, rows, gone, now)
    BY <1>2, <2>4 DEF SearchRight
  <2>. QED
    BY <1>2, <2>2, <2>4, <2>5, <2>6, SearchGoesOn
<1>7. CASE Found!Channels(s)
  <2>1. PICK x \in Found!VectorSearch, y \in SUBSET known :
            seeker' = [seeker EXCEPT ![s] =
                [seeker[s] EXCEPT !.phase = "channels", !.found = @ \cup x \cup y]]
    BY <1>7 DEF Found!Channels, Found!Step
  <2>2. UNCHANGED <<backend, now, rows, known, bm25, fts, vec, grow, late, cache, gone>>
    BY <1>7 DEF Found!Channels
  <2>3. x \subseteq Notes /\ y \subseteq Notes
    BY <1>2 DEF Found!VectorSearch
  <2>. DEFINE k == [seeker[s] EXCEPT !.phase = "channels", !.found = @ \cup x \cup y]
  <2>4. /\ k \in Search /\ k.asked = seeker[s].asked /\ k.from = seeker[s].from
        /\ k.hits = seeker[s].hits /\ k.phase = "channels"
    BY <1>3, <2>3 DEF Search, SearchPhases
  <2>5. seeker' = [seeker EXCEPT ![s] = k]
    BY <2>1
  <2>. HIDE DEF k
  <2>6. SearchRight(k, rows, gone, now)
    BY <1>3, <2>4 DEF SearchRight
  <2>. QED
    BY <1>2, <2>2, <2>4, <2>5, <2>6, SearchGoesOn
<1>8. CASE Found!Load(s)
  <2>. DEFINE h == {f \in Found!RowsByFacts(seeker[s].found) : Found!Visible(f, seeker[s].scene)}
              k == [seeker[s] EXCEPT !.phase = "loaded", !.found = {}, !.hits = h]
  <2>1. /\ seeker' = [seeker EXCEPT ![s] = k]
        /\ UNCHANGED <<backend, now, rows, known, bm25, fts, vec, grow, late, cache, gone>>
    BY <1>8 DEF Found!Load, Found!Step
  <2>2. h \subseteq Notes /\ \A f \in h : rows[f].status \notin {"none", "superseded"}
    BY <1>3 DEF Found!RowsByFacts, Found!SqliteRowsByFacts, Found!PgRowsByFacts, Found!Stored
  <2>. HIDE DEF h
  <2>3. /\ k \in Search /\ k.asked = seeker[s].asked /\ k.from = seeker[s].from
        /\ k.hits = h /\ k.phase = "loaded"
    BY <1>3, <2>2 DEF Search, SearchPhases
  <2>. HIDE DEF k
  <2>4. SearchRight(k, rows, gone, now)
    BY <1>3, <2>2, <2>3 DEF SearchRight, Held
  <2>. QED
    BY <1>2, <2>1, <2>3, <2>4, SearchGoesOn
<1>9. CASE Found!Rank(s)
  <2>. DEFINE k == [seeker[s] EXCEPT !.phase = "ranked", !.at = now]
              r == [at |-> now, from |-> seeker[s].from, hits |-> seeker[s].hits,
                    empty |-> FALSE]
  <2>1. /\ seeker' = [seeker EXCEPT ![s] = k]
        /\ cache' = IF seeker[s].hits = {} THEN cache
                    ELSE [cache EXCEPT ![seeker[s].scene] = r]
        /\ UNCHANGED <<backend, now, rows, known, bm25, fts, vec, grow, late, gone>>
    BY <1>9 DEF Found!Rank, Found!Step
  <2>2. /\ k \in Search /\ k.asked = seeker[s].asked /\ k.from = seeker[s].from
        /\ k.hits = seeker[s].hits /\ k.phase = "ranked" /\ k.at = now
    BY <1>2, <1>3 DEF Search, SearchPhases
  <2>3. r \in Result /\ ResultRight(r, rows, gone, now)
    BY <1>2, <1>3 DEF Result, ResultRight
  <2>. HIDE DEF k, r
  <2>4. SearchRight(k, rows, gone, now)
    BY <1>2, <1>3, <2>2, TtlIsPositive DEF SearchRight
  <2>5. /\ cache' \in [Found!Scenes -> Result]
        /\ \A c \in Found!Scenes : ResultRight(cache'[c], rows, gone, now)
    BY <1>2, <1>3, <2>1, <2>3
  <2>. QED
    BY <2>1, <2>2, <2>4, <2>5, SearchGoesOn
<1>10. CASE Found!Deliver(s)
  <2>1. PICK x \in SUBSET Found!ByMood(s) :
            seeker' = [seeker EXCEPT ![s] =
                [seeker[s] EXCEPT !.phase = "done", !.hits = @ \cup x]]
    BY <1>10 DEF Found!Deliver, Found!Step
  <2>2. /\ seeker[s].phase = "ranked"
        /\ UNCHANGED <<backend, now, rows, known, bm25, fts, vec, grow, late, cache, gone>>
    BY <1>10 DEF Found!Deliver
  <2>3. x \subseteq Notes /\ \A f \in x : rows[f].status \notin {"none", "superseded"}
    BY DEF Found!ByMood, Found!Live
  <2>. DEFINE k == [seeker[s] EXCEPT !.phase = "done", !.hits = @ \cup x]
  <2>4. /\ k \in Search /\ k.asked = seeker[s].asked /\ k.from = seeker[s].from
        /\ k.hits = seeker[s].hits \cup x /\ k.phase = "done" /\ k.at = seeker[s].at
    BY <1>3, <2>3 DEF Search, SearchPhases
  <2>5. seeker' = [seeker EXCEPT ![s] = k]
    BY <2>1
  <2>. HIDE DEF k
  <2>6. SearchRight(k, rows, gone, now)
    BY <1>3, <2>2, <2>3, <2>4 DEF SearchRight, Held
  <2>. QED
    BY <1>2, <2>2, <2>4, <2>5, <2>6, SearchGoesOn
<1>. QED
  BY <1>5, <1>6, <1>7, <1>8, <1>9, <1>10

LEMMA RetrievalGoesOn == RetrievalInv /\ Found!Next => RetrievalInv'
<1>. SUFFICES ASSUME RetrievalInv, Found!Next PROVE RetrievalInv'
  OBVIOUS
<1>1. \/ \E f \in Notes : \/ Found!Learn(f) \/ Found!Supersede(f) \/ Found!Forget(f)
                          \/ Found!Publicize(f)
      \/ Found!GrowClear \/ Found!GrowRead \/ Found!VecRead \/ Found!VecClear
      \/ Found!VecReplace
      \/ \E scope \in Found!Scenes : Found!GrowSync(scope)
      \/ \E s \in Seekers, scene \in Found!Scenes :
             Found!FromCache(s, scene) \/ Found!Lexical(s, scene)
      \/ \E s \in Seekers : \/ Found!Channels(s) \/ Found!Load(s) \/ Found!Rank(s)
                            \/ Found!Deliver(s)
      \/ Found!Tick
  BY DEF Found!Next
<1>. QED
  BY <1>1, LearnKeeps, EditsKeep, GrowthKeeps, SearchesKeep, ClockKeeps

LEMMA RetrievalRight == RetrievalInv => Found!TypeOK /\ Found!HitsCurrent /\ Found!IndexComplete
<1>. SUFFICES ASSUME RetrievalInv
              PROVE  Found!TypeOK /\ Found!HitsCurrent /\ Found!IndexComplete
  OBVIOUS
<1>1. /\ RetrievalTyped /\ Indexed
      /\ \A s \in Seekers : seeker[s] \in Search /\ SearchRight(seeker[s], rows, gone, now)
  BY DEF RetrievalInv, RetrievalTyped
<1>2. Found!TypeOK
  BY <1>1 DEF Found!TypeOK, RetrievalTyped, NoteRow, Growth, GrowPhases, Search, SearchPhases
<1>3. Found!HitsCurrent
  BY <1>1 DEF Found!HitsCurrent, SearchRight, Held, Found!Live
<1>4. Found!IndexComplete
  BY <1>1 DEF Found!IndexComplete, Indexed, Synced
<1>. QED
  BY <1>2, <1>3, <1>4

-----------------------------------------------------------------------------
(* The scores and what follows from them *)

Behaviour == [strict : BOOLEAN, params : BOOLEAN]
Answer == [at : Nat, data : Behaviour, empty : BOOLEAN]

\* What the bot does is what scores and commands say; gv is the last score.
Follows(d, gv, a) == d.params = (a = "params") /\ (backend = "sqlite" => d.strict = (gv = "low"))

ReviewsTyped ==
    /\ now \in Nat /\ changed \in Nat /\ changed <= now
    /\ given \in {"none", "low", "high"} /\ scores \in {"none", "low", "high", "unreadable"}
    /\ adj \in {"none", "dry", "params"}
    /\ adjCache \in Answer /\ asking \in Answer /\ used \in Answer
    /\ adjCache.at <= now /\ asking.at <= now /\ used.at <= now

\* What was read after the last change is right; what is used is as old as the cache may be.
ReviewsInv ==
    /\ ReviewsTyped
    /\ backend = "sqlite" => scores = given
    /\ ~adjCache.empty /\ adjCache.at > changed => Follows(adjCache.data, given, adj)
    /\ ~asking.empty /\ asking.at > changed => Follows(asking.data, given, adj)
    /\ ~used.empty /\ used.at >= changed + AdjustTtl => Follows(used.data, given, adj)

LEMMA AdjustTtlIsPositive == AdjustTtl \in Nat \ {0}
BY ConstantsAssumption DEF Scored!ReviewsAssumption

LEMMA ReviewsStart == Init => ReviewsInv
<1>. SUFFICES ASSUME Init PROVE ReviewsInv
  OBVIOUS
<1>1. /\ now = 0 /\ changed = 0 /\ given = "none" /\ scores = "none" /\ adj = "none"
      /\ adjCache = Scored!Empty /\ asking = Scored!Empty /\ used = Scored!Empty
  BY DEF Init, Scored!Init
<1>2. Scored!Empty \in Answer /\ Scored!Empty.empty /\ Scored!Empty.at = 0
  BY DEF Scored!Empty, Scored!Default, Answer, Behaviour
<1>. QED
  BY <1>1, <1>2 DEF ReviewsInv, ReviewsTyped

\* A score, a command or a rollback: nothing is right for longer than its time to live.
LEMMA ChangeKeeps ==
    ASSUME ReviewsInv, changed' = now, UNCHANGED <<backend, now, adjCache, asking, used>>,
           given' \in {"none", "low", "high"}, scores' \in {"none", "low", "high", "unreadable"},
           adj' \in {"none", "dry", "params"}, backend = "sqlite" => scores' = given'
    PROVE  ReviewsInv'
<1>1. ReviewsTyped'
  BY DEF ReviewsInv, ReviewsTyped
<1>2. ~(adjCache'.at > changed') /\ ~(asking'.at > changed')
      /\ ~(used'.at >= changed' + AdjustTtl)
  <2>1. /\ now \in Nat /\ adjCache.at <= now /\ asking.at <= now /\ used.at <= now
        /\ adjCache.at \in Nat /\ asking.at \in Nat /\ used.at \in Nat
    BY DEF ReviewsInv, ReviewsTyped, Answer
  <2>. QED
    BY <2>1, AdjustTtlIsPositive
<1>. QED
  BY <1>1, <1>2 DEF ReviewsInv

LEMMA ReviewsGoOn == ReviewsInv /\ Scored!Next => ReviewsInv'
<1>. SUFFICES ASSUME ReviewsInv, Scored!Next PROVE ReviewsInv'
  OBVIOUS
<1>1. /\ ReviewsTyped /\ now \in Nat /\ changed \in Nat /\ changed <= now
      /\ adjCache \in Answer /\ asking \in Answer /\ used \in Answer
      /\ adjCache.at \in Nat /\ asking.at \in Nat /\ used.at \in Nat
      /\ adjCache.at <= now /\ asking.at <= now /\ used.at <= now
      /\ AdjustTtl \in Nat \ {0}
  BY AdjustTtlIsPositive DEF ReviewsInv, ReviewsTyped, Answer
<1>2. ASSUME NEW score \in {"low", "high"}, Scored!ScoreTrace(score) PROVE ReviewsInv'
  <2>1. /\ given' = score /\ changed' = now
        /\ scores' = IF backend = "sqlite" THEN score ELSE "unreadable"
        /\ UNCHANGED <<backend, now, adj, adjCache, asking, used>>
    BY <1>2 DEF Scored!ScoreTrace, Scored!TraceReview, Scored!SqliteTraceReview,
                Scored!PgTraceReview, Scored!botVars
  <2>. QED
    BY <1>1, <2>1, ChangeKeeps DEF ReviewsTyped
<1>3. ASSUME NEW score \in {"low", "high"}, Scored!ScoreConv(score) PROVE ReviewsInv'
  <2>1. UNCHANGED <<backend, now, given, scores, adj, changed, adjCache, asking, used>>
    BY <1>3 DEF Scored!ScoreConv, Scored!botVars
  <2>. QED
    BY <2>1 DEF ReviewsInv, ReviewsTyped, Follows
<1>4. ASSUME NEW auto \in BOOLEAN, Scored!Apply(auto) PROVE ReviewsInv'
  <2>1. /\ changed' = now /\ adj' \in {"none", "dry", "params"}
        /\ UNCHANGED <<backend, now, given, scores, adjCache, asking, used>>
    BY <1>4 DEF Scored!Apply, Scored!botVars
  <2>. QED
    BY <1>1, <2>1, ChangeKeeps DEF ReviewsTyped, ReviewsInv
<1>5. CASE Scored!Rollback
  <2>1. /\ changed' = now /\ adj' \in {"none", "dry", "params"}
        /\ UNCHANGED <<backend, now, given, scores, adjCache, asking, used>>
    BY <1>5 DEF Scored!Rollback, Scored!botVars
  <2>. QED
    BY <1>1, <2>1, ChangeKeeps DEF ReviewsTyped, ReviewsInv
<1>6. CASE Scored!ToolsEnd
  <2>1. UNCHANGED <<backend, now, given, scores, adj, changed, adjCache, asking, used>>
    BY <1>6 DEF Scored!ToolsEnd, Scored!botVars
  <2>. QED
    BY <2>1 DEF ReviewsInv, ReviewsTyped, Follows
<1>7. CASE Scored!UseCached
  <2>. DEFINE u == [at |-> now, data |-> adjCache.data, empty |-> FALSE]
  <2>1. /\ ~adjCache.empty /\ now - adjCache.at < AdjustTtl
        /\ used' = u
        /\ UNCHANGED <<backend, now, given, scores, adj, changed, adjCache, asking>>
    BY <1>7 DEF Scored!UseCached, Scored!Fresh, Scored!reviewVars
  <2>2. u \in Answer /\ u.at = now /\ u.data = adjCache.data
    BY <1>1 DEF Answer
  <2>. HIDE DEF u
  <2>3. ReviewsTyped'
    BY <1>1, <2>1, <2>2 DEF ReviewsTyped
  <2>4. now >= changed + AdjustTtl => adjCache.at > changed
    BY <1>1, <2>1
  <2>5. now >= changed + AdjustTtl => Follows(used'.data, given, adj)
    BY <2>1, <2>2, <2>4 DEF ReviewsInv
  <2>. QED
    BY <2>1, <2>2, <2>3, <2>5 DEF ReviewsInv, Follows
<1>8. CASE Scored!Ask
  <2>. DEFINE d == [strict |-> scores = "low", params |-> adj = "params"]
              u == [at |-> now, data |-> d, empty |-> FALSE]
  <2>1. /\ asking' = u
        /\ UNCHANGED <<backend, now, given, scores, adj, changed, adjCache, used>>
    BY <1>8 DEF Scored!Ask, Scored!Compute, Scored!reviewVars
  <2>2. /\ d \in Behaviour
    BY DEF Behaviour
  <2>3. u \in Answer /\ u.at = now /\ u.data = d
    BY <1>1, <2>2 DEF Answer
  <2>4. Follows(d, given, adj)
    BY DEF Follows, ReviewsInv
  <2>. HIDE DEF d, u
  <2>5. ReviewsTyped'
    BY <1>1, <2>1, <2>3 DEF ReviewsTyped
  <2>. QED
    BY <2>1, <2>3, <2>4, <2>5 DEF ReviewsInv, Follows
<1>9. CASE Scored!Store
  <2>1. /\ ~asking.empty
        /\ adjCache' = asking /\ used' = asking /\ asking' = Scored!Empty
        /\ UNCHANGED <<backend, now, given, scores, adj, changed>>
    BY <1>9 DEF Scored!Store, Scored!reviewVars
  <2>2. Scored!Empty \in Answer /\ Scored!Empty.empty /\ Scored!Empty.at = 0
    BY DEF Scored!Empty, Scored!Default, Answer, Behaviour
  <2>3. ReviewsTyped'
    BY <1>1, <2>1, <2>2 DEF ReviewsTyped
  <2>4. asking.at >= changed + AdjustTtl => asking.at > changed
    BY <1>1
  <2>. QED
    BY <2>1, <2>2, <2>3, <2>4 DEF ReviewsInv, Follows
<1>10. CASE Scored!Tick
  <2>1. /\ now' = now + 1
        /\ UNCHANGED <<backend, given, scores, adj, changed, adjCache, asking, used>>
    BY <1>10 DEF Scored!Tick, Scored!reviewVars, Scored!botVars
  <2>2. ReviewsTyped'
    BY <1>1, <2>1 DEF ReviewsTyped
  <2>. QED
    BY <2>1, <2>2 DEF ReviewsInv, Follows
<1>. QED
  BY <1>2, <1>3, <1>4, <1>5, <1>6, <1>7, <1>8, <1>9, <1>10 DEF Scored!Next

LEMMA ReviewsRight == ReviewsInv => Scored!TypeOK /\ Scored!AdjustmentsCurrent
BY DEF ReviewsInv, ReviewsTyped, Answer, Behaviour, Follows, Scored!TypeOK,
       Scored!AdjustmentsCurrent

-----------------------------------------------------------------------------
(* Sessions *)

SessionRow == [at : Nat, closed : BOOLEAN, count : Nat]
TurnPhases == {"idle", "found", "filed", "answered", "ingested"}
TurnRow == [phase : TurnPhases, text : LogTexts \cup {""}, found : SUBSET Nat]
LogRow == [table : LogTables \cup {"conv"}, text : LogTexts \cup {""}, at : Nat]

\* A row of the log has a time that is over, and a query is a message.
Logging(r) == r \in LogRow /\ r.at <= now /\ (r.table = "query" => r.text \in LogTexts)

\* The sessions s are in order, and none is of a time to come.
SessionsTyped(s) == s \in Seq(SessionRow) /\ \A i \in 1..Len(s) : s[i].at <= now

\* A session that touch has found, among the sessions s, can be continued.
Continuable(s, i) ==
    /\ i \in 1..Len(s)
    /\ backend = "sqlite" => ~s[i].closed /\ now - s[i].at <= Near

\* A turn is of a message, and what it has found is there.
TurnRight(t, s) ==
    /\ t \in TurnRow
    /\ t.phase # "idle" => t.text \in LogTexts
    /\ t.found \subseteq 1..Len(s)
    /\ t.phase = "found" => \A i \in t.found : Continuable(s, i)

TurnsInv ==
    /\ now \in Nat
    /\ SessionsTyped(session)
    /\ \A r \in log \cup exporting : Logging(r)
    /\ \A r \in exporting : r.table = "query"
    /\ turn \in [Turns -> TurnRow]
    /\ \A k \in Turns : TurnRight(turn[k], session)
    /\ backend = "sqlite" => ~reopened

LEMMA LogLimits ==
    /\ Near \in Nat /\ Old \in Nat /\ Near < Old
    /\ "trace" \in LogTables /\ "query" \in LogTables
BY ConstantsAssumption DEF Logged!TurnLogAssumption

\* What rows, sessions and turns have.
LEMMA RowFields ==
    /\ \A r \in LogRow : /\ r.table \in LogTables \cup {"conv"} /\ r.text \in LogTexts \cup {""}
                         /\ r.at \in Nat
    /\ \A x \in SessionRow : x.at \in Nat /\ x.closed \in BOOLEAN /\ x.count \in Nat
    /\ \A t \in TurnRow : /\ t.phase \in TurnPhases /\ t.text \in LogTexts \cup {""}
                          /\ t.found \subseteq Nat
BY DEF LogRow, SessionRow, TurnRow

\* Natural numbers are ordered.
LEMMA ClockOrder == \A n \in Nat : n <= n
OBVIOUS

\* A row written now.
LEMMA RowWritten ==
    ASSUME TurnsInv, NEW table \in LogTables \cup {"conv"}, NEW text \in LogTexts \cup {""},
           table # "query" \/ text \in LogTexts
    PROVE  Logging([table |-> table, text |-> text, at |-> now])
<1>. DEFINE r == [table |-> table, text |-> text, at |-> now]
<1>1. now \in Nat
  BY DEF TurnsInv
<1>2. r \in LogRow /\ r.at = now /\ r.table = table /\ r.text = text
  BY <1>1 DEF LogRow
<1>. HIDE DEF r
<1>3. now <= now
  BY <1>1, ClockOrder, Zenon
<1>4. r.at <= now
  BY <1>2, <1>3, Zenon
<1>5. r.table = "query" => r.text \in LogTexts
  BY <1>2, Zenon
<1>6. Logging(r)
  BY <1>2, <1>4, <1>5, Zenon DEF Logging
<1>. QED
  BY <1>6 DEF r

LEMMA TurnsStart == Init => TurnsInv
<1>. SUFFICES ASSUME Init PROVE TurnsInv
  OBVIOUS
<1>1. /\ now = 0 /\ log = {} /\ exporting = {} /\ session = <<>>
      /\ turn = [k \in Turns |-> Logged!Waiting] /\ reopened = FALSE
  BY DEF Init, Logged!Init
<1>2. Logged!Waiting \in TurnRow /\ TurnRight(Logged!Waiting, session)
  BY DEF Logged!Waiting, TurnRow, TurnPhases, TurnRight
<1>3. SessionsTyped(session)
  BY <1>1 DEF SessionsTyped
<1>. QED
  BY <1>1, <1>2, <1>3 DEF TurnsInv

\* One turn goes on to another phase, having found what it had found.
LEMMA TurnGoesOn ==
    ASSUME TurnsInv, NEW k \in Turns, NEW phase \in {"filed", "answered", "ingested"},
           turn[k].phase # "idle", turn' = [turn EXCEPT ![k].phase = phase]
    PROVE  /\ turn' \in [Turns -> TurnRow]
           /\ \A j \in Turns : TurnRight(turn'[j], session)
<1>. DEFINE new == [turn[k] EXCEPT !.phase = phase]
<1>1. turn \in [Turns -> TurnRow] /\ turn[k] \in TurnRow /\ TurnRight(turn[k], session)
  BY DEF TurnsInv
<1>2. /\ new \in TurnRow /\ new.phase = phase /\ new.text = turn[k].text
      /\ new.found = turn[k].found
  BY <1>1 DEF TurnRow, TurnPhases
<1>3. turn' = [turn EXCEPT ![k] = new]
  BY <1>1
<1>. HIDE DEF new
<1>4. TurnRight(new, session)
  BY <1>1, <1>2 DEF TurnRight
<1>. QED
  BY <1>1, <1>2, <1>3, <1>4 DEF TurnsInv

\* The rows that a step of chat adds are rows of the log.
LEMMA RowsLogged ==
    ASSUME TurnsInv, NEW t \in LogTexts
    PROVE  /\ \A r \in Logged!TraceRecord(t) \cup Logged!ConvRecord(t) : Logging(r)
           /\ \A r \in Logged!QueryLogAdd(t) : Logging(r)
<1>1. /\ Logging([table |-> "trace", text |-> t, at |-> now])
      /\ Logging([table |-> "conv", text |-> t, at |-> now])
      /\ Logging([table |-> "query", text |-> t, at |-> now])
  BY LogLimits, RowWritten
<1>. QED
  BY <1>1 DEF Logged!TraceRecord, Logged!ConvRecord, Logged!QueryLogAdd,
              Logged!SqliteTraceAdd, Logged!PgTraceAdd, Logged!SqliteConvAdd, Logged!PgConvAdd,
              Logged!SqliteQueryLogAdd, Logged!PgQueryLogAdd

\* When a session is continued or opened, what turns have found stays as it was.
LEMMA SessionsMove ==
    ASSUME TurnsInv, NEW s \in Seq(SessionRow), Len(session) <= Len(s),
           \A i \in 1..Len(s) : s[i].at <= now,
           \A i \in 1..Len(session) :
               s[i] = session[i] \/ (s[i].closed = session[i].closed /\ s[i].at = now)
    PROVE  SessionsTyped(s) /\ \A t \in TurnRow : TurnRight(t, session) => TurnRight(t, s)
<1>1. /\ now \in Nat /\ session \in Seq(SessionRow)
      /\ Len(session) \in Nat /\ Len(s) \in Nat /\ Near \in Nat
  BY LogLimits DEF TurnsInv, SessionsTyped
<1>2. \A i \in Nat : Continuable(session, i) => Continuable(s, i)
  BY <1>1 DEF Continuable
<1>3. 1..Len(session) \subseteq 1..Len(s)
  BY <1>1
<1>4. \A t \in TurnRow : t.found \subseteq Nat
  BY DEF TurnRow
<1>. QED
  BY <1>2, <1>3, <1>4 DEF SessionsTyped, TurnRight

LEMMA FindKeeps ==
    ASSUME TurnsInv, NEW k \in Turns, NEW t \in LogTexts, Logged!Find(k, t) PROVE TurnsInv'
<1>. DEFINE new == [phase |-> "found", text |-> t, found |-> Logged!FindRecent]
<1>1. /\ turn' = [turn EXCEPT ![k] = new]
      /\ UNCHANGED <<backend, now, log, session, reopened, exporting>>
  BY DEF Logged!Find, Logged!exportVars
<1>2. Logged!FindRecent \subseteq 1..Len(session)
  <2>1. DOMAIN session = 1..Len(session)
    BY DEF TurnsInv, SessionsTyped
  <2>. QED
    BY <2>1 DEF Logged!FindRecent, Logged!SqliteFindRecent, Logged!PgFindRecent, Logged!Latest,
             Logged!Open, Logged!Ids
<1>3. \A i \in Logged!FindRecent : Continuable(session, i)
  BY <1>2 DEF Logged!FindRecent, Logged!SqliteFindRecent, Logged!Latest, Logged!Open, Continuable
<1>4. /\ new \in TurnRow /\ new.phase = "found" /\ new.text = t
      /\ new.found = Logged!FindRecent
  <2>1. Logged!FindRecent \in SUBSET Nat
    BY <1>2
  <2>. QED
    BY <2>1 DEF TurnRow, TurnPhases
<1>. HIDE DEF new
<1>5. TurnRight(new, session)
  BY <1>2, <1>3, <1>4 DEF TurnRight
<1>6. /\ turn' \in [Turns -> TurnRow]
      /\ \A j \in Turns : TurnRight(turn'[j], session)
  BY <1>1, <1>4, <1>5 DEF TurnsInv
<1>. QED
  BY <1>1, <1>6 DEF TurnsInv, SessionsTyped, TurnRight, Continuable, Logging

LEMMA FileKeeps == ASSUME TurnsInv, NEW k \in Turns, Logged!File(k) PROVE TurnsInv'
<1>1. /\ turn[k].phase = "found" /\ turn[k].text \in LogTexts
      /\ TurnRight(turn[k], session) /\ now \in Nat
      /\ session \in Seq(SessionRow) /\ \A i \in 1..Len(session) : session[i].at <= now
  BY DEF Logged!File, TurnsInv, TurnRight, SessionsTyped
<1>2. /\ turn' = [turn EXCEPT ![k].phase = "filed"]
      /\ UNCHANGED <<backend, now, exporting>>
      /\ log' \subseteq log \cup Logged!QueryLogAdd(turn[k].text)
                            \cup Logged!TraceRecord(turn[k].text)
  BY DEF Logged!File, Logged!To, Logged!exportVars
<1>3. \A r \in log' : Logging(r)
  BY <1>1, <1>2, RowsLogged DEF TurnsInv
<1>4. /\ session' \in Seq(SessionRow) /\ Len(session) <= Len(session')
      /\ \A i \in 1..Len(session') : session'[i].at <= now
      /\ \A i \in 1..Len(session) :
             \/ session'[i] = session[i]
             \/ session'[i].closed = session[i].closed /\ session'[i].at = now
      /\ backend = "sqlite" => ~reopened'
  <2>1. CASE Logged!Continue(k)
    <3>1. PICK i \in turn[k].found : session' = Logged!Bump(i)
                                     /\ reopened' = (reopened \/ session[i].closed)
      BY <2>1 DEF Logged!Continue
    <3>2. i \in 1..Len(session) /\ Continuable(session, i)
      BY <1>1 DEF TurnRight
    <3>. DEFINE new == [session[i] EXCEPT !.at = now, !.count = @ + 1]
    <3>3. session[i] \in SessionRow
      BY <1>1, <3>2
    <3>4. new \in SessionRow /\ new.at = now /\ new.closed = session[i].closed
      <4>1. session[i].count \in Nat
        BY <3>3, RowFields
      <4>2. session[i].count + 1 \in Nat
        BY <4>1
      <4>. QED
        BY <1>1, <3>3, <4>2 DEF SessionRow
    <3>5. session' = [session EXCEPT ![i] = new]
      BY <3>1 DEF Logged!Bump, Logged!SqliteBump, Logged!PgBump
    <3>. HIDE DEF new
    <3>6. session' \in Seq(SessionRow) /\ Len(session') = Len(session)
      BY <1>1, <3>2, <3>4, <3>5
    <3>7. \A j \in 1..Len(session) : session'[j] = IF j = i THEN new ELSE session[j]
      BY <1>1, <3>5
    <3>8. backend = "sqlite" => ~reopened'
      BY <3>1, <3>2 DEF Continuable, TurnsInv
    <3>. QED
      BY <1>1, <3>4, <3>6, <3>7, <3>8
  <2>2. CASE Logged!Begin(k)
    <3>. DEFINE new == IF backend = "sqlite" THEN Logged!SqliteSession ELSE Logged!PgSession
    <3>1. session' = Append(session, new) /\ reopened' = reopened
      BY <2>2 DEF Logged!Begin, Logged!Create
    <3>2. new \in SessionRow /\ new.at = now
      BY <1>1 DEF Logged!SqliteSession, Logged!PgSession, SessionRow
    <3>. HIDE DEF new
    <3>3. /\ session' \in Seq(SessionRow) /\ Len(session') = Len(session) + 1
          /\ \A j \in 1..Len(session) : session'[j] = session[j]
          /\ session'[Len(session) + 1] = new
      BY <1>1, <3>1, <3>2
    <3>4. \A j \in 1..Len(session') : j \in 1..Len(session) \/ j = Len(session) + 1
      BY <1>1, <3>3
    <3>. QED
      BY <1>1, <3>1, <3>2, <3>3, <3>4 DEF TurnsInv
  <2>. QED
    BY <2>1, <2>2 DEF Logged!File
<1>5. SessionsTyped(session') /\ \A t \in TurnRow : TurnRight(t, session) => TurnRight(t, session')
  BY <1>4, SessionsMove
<1>6. turn' \in [Turns -> TurnRow] /\ \A j \in Turns : TurnRight(turn'[j], session)
  BY <1>1, <1>2, TurnGoesOn
<1>7. \A j \in Turns : TurnRight(turn'[j], session')
  BY <1>5, <1>6
<1>. QED
  BY <1>2, <1>3, <1>4, <1>5, <1>6, <1>7
     DEF TurnsInv, SessionsTyped, TurnRight, Continuable, Logging

LEMMA AnswerKeeps ==
    ASSUME TurnsInv, NEW k \in Turns,
           Logged!Evidence(k) \/ Logged!Ingested(k) \/ Logged!Told(k)
    PROVE  TurnsInv'
<1>1. /\ turn[k].phase # "idle"
      /\ UNCHANGED <<backend, now, session, reopened, exporting>>
      /\ log' \subseteq log \cup Logged!TraceRecord(turn[k].text)
                            \cup Logged!ConvRecord(turn[k].text)
  BY DEF Logged!Evidence, Logged!Ingested, Logged!Told, Logged!exportVars
<1>2. turn[k].text \in LogTexts
  BY <1>1 DEF TurnsInv, TurnRight
<1>3. \A r \in log' : Logging(r)
  BY <1>1, <1>2, RowsLogged DEF TurnsInv
<1>4. turn' \in [Turns -> TurnRow] /\ \A j \in Turns : TurnRight(turn'[j], session)
  <2>1. CASE Logged!Evidence(k)
    BY <1>1, <2>1, TurnGoesOn DEF Logged!Evidence, Logged!To
  <2>2. CASE Logged!Ingested(k)
    BY <1>1, <2>2, TurnGoesOn DEF Logged!Ingested, Logged!To
  <2>3. CASE Logged!Told(k)
    <3>1. Logged!Waiting \in TurnRow /\ TurnRight(Logged!Waiting, session)
      BY DEF Logged!Waiting, TurnRow, TurnPhases, TurnRight
    <3>. QED
      BY <2>3, <3>1 DEF Logged!Told, TurnsInv
  <2>. QED
    BY <2>1, <2>2, <2>3
<1>. QED
  BY <1>1, <1>3, <1>4 DEF TurnsInv, SessionsTyped, TurnRight, Continuable, Logging

\* The nightly run closes no session that a turn has found: it is not old.
LEMMA CloseKeeps == ASSUME TurnsInv, Logged!NightlyClose PROVE TurnsInv'
<1>1. /\ session' = [i \in DOMAIN session |->
             [session[i] EXCEPT !.closed = @ \/ i \in Logged!CloseOld]]
      /\ UNCHANGED <<backend, now, log, turn, reopened, exporting>>
  BY DEF Logged!NightlyClose, Logged!exportVars, Logged!Ids
<1>2. /\ now \in Nat /\ session \in Seq(SessionRow) /\ DOMAIN session = 1..Len(session)
      /\ Len(session) \in Nat
      /\ \A i \in 1..Len(session) : session[i] \in SessionRow /\ session[i].at <= now
      /\ \A i \in 1..Len(session) : session[i].at \in Nat
  <2>1. /\ now \in Nat /\ session \in Seq(SessionRow)
        /\ \A i \in 1..Len(session) : session[i].at <= now
    BY DEF TurnsInv, SessionsTyped
  <2>2. /\ DOMAIN session = 1..Len(session) /\ Len(session) \in Nat
        /\ \A i \in 1..Len(session) : session[i] \in SessionRow
    BY <2>1
  <2>. QED
    BY <2>1, <2>2, RowFields
<1>3. \A i \in 1..Len(session) :
          /\ session'[i] \in SessionRow /\ session'[i].at = session[i].at
          /\ session'[i].closed = (session[i].closed \/ i \in Logged!CloseOld)
  BY <1>1, <1>2 DEF SessionRow
<1>4. session' \in Seq(SessionRow) /\ Len(session') = Len(session)
  <2>1. session' \in [1..Len(session) -> SessionRow]
    BY <1>1, <1>2, <1>3
  <2>. QED
    BY <1>2, <2>1
<1>5. SessionsTyped(session')
  BY <1>2, <1>3, <1>4 DEF SessionsTyped
<1>6. \A i \in 1..Len(session) : Continuable(session, i) => Continuable(session', i)
  <2>. SUFFICES ASSUME NEW i \in 1..Len(session), Continuable(session, i), backend = "sqlite"
                PROVE  i \notin Logged!CloseOld
    BY <1>3, <1>4 DEF Continuable
  <2>1. now - session[i].at <= Near
    BY DEF Continuable
  <2>2. ~(session[i].at < now - Old)
    BY <1>2, <2>1, LogLimits
  <2>. QED
    BY <2>2 DEF Logged!CloseOld, Logged!SqliteCloseOld
<1>7. \A k \in Turns : TurnRight(turn[k], session')
  BY <1>4, <1>6 DEF TurnsInv, TurnRight
<1>. QED
  BY <1>1, <1>5, <1>7 DEF TurnsInv, SessionsTyped, TurnRight, Continuable, Logging

\* Logs, prunings, exports and the clock.
LEMMA LogsKeep ==
    ASSUME TurnsInv,
           \/ \E table \in LogTables : Logged!Happens(table)
           \/ Logged!NightlyPrune \/ Logged!ExportWrite \/ Logged!ExportMark
           \/ Logged!ExportStops
    PROVE  TurnsInv'
<1>1. UNCHANGED <<backend, now, session, turn, reopened>>
  BY DEF Logged!Happens, Logged!NightlyPrune, Logged!ExportWrite, Logged!ExportMark,
         Logged!ExportStops, Logged!exportVars, Logged!turnVars
<1>2. /\ \A r \in log' \cup exporting' : Logging(r)
      /\ \A r \in exporting' : r.table = "query"
  <2>1. ASSUME NEW table \in LogTables, Logged!Happens(table)
        PROVE  /\ \A r \in log' \cup exporting' : Logging(r)
               /\ \A r \in exporting' : r.table = "query"
    <3>1. /\ log' = log \cup {[table |-> table, text |-> "", at |-> now]}
          /\ table # "query" /\ exporting' = exporting
      BY <2>1 DEF Logged!Happens, Logged!exportVars
    <3>2. Logging([table |-> table, text |-> "", at |-> now])
      BY <3>1, RowWritten
    <3>. QED
      BY <3>1, <3>2 DEF TurnsInv
  <2>2. CASE Logged!NightlyPrune
    BY <2>2 DEF Logged!NightlyPrune, Logged!exportVars, TurnsInv
  <2>3. CASE Logged!ExportWrite
    BY <2>3 DEF Logged!ExportWrite, Logged!Pending, Logged!turnVars, TurnsInv
  <2>4. CASE Logged!ExportMark \/ Logged!ExportStops
    BY <2>4 DEF Logged!ExportMark, Logged!ExportStops, Logged!turnVars, TurnsInv
  <2>. QED
    BY <2>1, <2>2, <2>3, <2>4
<1>. QED
  BY <1>1, <1>2 DEF TurnsInv, SessionsTyped, TurnRight, Continuable, Logging

LEMMA TurnClockKeeps == ASSUME TurnsInv, Logged!Tick PROVE TurnsInv'
<1>1. /\ now' = now + 1 /\ \A k \in Turns : turn[k].phase # "found"
      /\ UNCHANGED <<backend, log, session, turn, reopened, exporting>>
  BY DEF Logged!Tick, Logged!turnVars, Logged!exportVars
<1>2. now \in Nat /\ now' \in Nat /\ now <= now'
  BY <1>1 DEF TurnsInv
<1>3. SessionsTyped(session)'
  <2>1. \A i \in 1..Len(session) : session[i] \in SessionRow /\ session[i].at <= now
    BY DEF TurnsInv, SessionsTyped
  <2>2. \A i \in 1..Len(session) : session[i].at <= now'
    BY <1>2, <2>1 DEF SessionRow
  <2>. QED
    BY <1>1, <2>2 DEF TurnsInv, SessionsTyped
<1>4. \A r \in log \cup exporting : r.at <= now'
  <2>1. \A r \in log \cup exporting : r.at \in Nat /\ r.at <= now
    BY DEF TurnsInv, Logging, LogRow
  <2>. QED
    BY <1>2, <2>1
<1>5. \A r \in log' \cup exporting' : Logging(r)'
  BY <1>1, <1>4 DEF TurnsInv, Logging
<1>6. \A k \in Turns : TurnRight(turn[k], session)'
  BY <1>1 DEF TurnsInv, TurnRight
<1>. QED
  BY <1>1, <1>2, <1>3, <1>5, <1>6 DEF TurnsInv

LEMMA TurnsGoOn == TurnsInv /\ Logged!Next => TurnsInv'
BY FindKeeps, FileKeeps, AnswerKeeps, CloseKeeps, LogsKeep, TurnClockKeeps DEF Logged!Next

LEMMA TurnsRight == TurnsInv => Logged!TypeOK /\ Logged!ContinuedIsOpen
<1>. SUFFICES ASSUME TurnsInv PROVE Logged!TypeOK /\ Logged!ContinuedIsOpen
  OBVIOUS
<1>1. now \in Nat /\ session \in Seq(SessionRow) /\ DOMAIN session = 1..Len(session)
  BY DEF TurnsInv, SessionsTyped
<1>2. \A r \in log \cup exporting : r \in LogRow /\ r.at \in 0..now
  <2>1. \A r \in log \cup exporting : r \in LogRow /\ r.at <= now
    BY DEF TurnsInv, Logging
  <2>2. \A r \in log \cup exporting : r.at \in Nat
    BY <2>1, RowFields
  <2>. QED
    BY <1>1, <2>1, <2>2
<1>3. \A r \in exporting : r.table = "query" /\ r.text \in LogTexts
  BY DEF TurnsInv, Logging
<1>4. exporting \subseteq [table : {"query"}, text : LogTexts, at : 0..now]
  <2>. SUFFICES ASSUME NEW r \in exporting
                PROVE  r \in [table : {"query"}, text : LogTexts, at : 0..now]
    OBVIOUS
  <2>1. r \in LogRow /\ r.at \in 0..now /\ r.table = "query" /\ r.text \in LogTexts
    BY <1>2, <1>3
  <2>. QED
    BY <2>1 DEF LogRow
<1>5. \A i \in 1..Len(session) : session[i].at \in 0..now /\ session[i].count \in Nat
  <2>1. \A i \in 1..Len(session) : session[i] \in SessionRow /\ session[i].at <= now
    BY <1>1 DEF TurnsInv, SessionsTyped
  <2>2. \A i \in 1..Len(session) : session[i].at \in Nat /\ session[i].count \in Nat
    BY <2>1, RowFields
  <2>. QED
    BY <1>1, <2>1, <2>2
<1>6. \A k \in Turns : turn[k].phase \in TurnPhases /\ turn[k].found \subseteq 1..Len(session)
  BY RowFields DEF TurnsInv, TurnRight
<1>7. \A r \in log : r.table \in LogTables \cup {"conv"} /\ r.at \in 0..now
  BY <1>2, RowFields
<1>8. Logged!TypeOK
  BY <1>1, <1>4, <1>5, <1>6, <1>7 DEF Logged!TypeOK, Logged!Ids, TurnPhases
<1>. QED
  BY <1>8 DEF TurnsInv, Logged!ContinuedIsOpen

-----------------------------------------------------------------------------
(* Nothing happens *)

LEMMA RetrievalSame ==
    ASSUME RetrievalInv, UNCHANGED <<backend, now, retrievalVars>> PROVE RetrievalInv'
BY DEF retrievalVars, RetrievalInv, RetrievalTyped, Indexed, ResultRight, SearchRight, Held,
       Found!Stored

LEMMA TurnsSame == ASSUME TurnsInv, UNCHANGED <<backend, now, turnVars>> PROVE TurnsInv'
BY DEF turnVars, TurnsInv, SessionsTyped, TurnRight, Continuable, Logging

LEMMA ReviewsSame == ASSUME ReviewsInv, UNCHANGED <<backend, now, reviewVars>> PROVE ReviewsInv'
BY DEF reviewVars, ReviewsInv, ReviewsTyped, Follows

-----------------------------------------------------------------------------
(* Export and import *)

\* What SQLite leaves of a table that it does not skip has the rows of the dump.
LEMMA RowsRestored ==
    ASSUME NEW new, NEW old, NEW replace \in BOOLEAN
    PROVE  new \subseteq Stored!Restored(new, old, replace, FALSE)
BY DEF Stored!Restored

LEMMA ImportIsTrue ==
    ASSUME backend = "sqlite",
           NEW replace \in BOOLEAN, NEW bad \in Stored!Tables \cup {"none"},
           Stored!DataImport(replace, bad)
    PROVE  /\ counts'["memories"] = "imported" => dump.memories \subseteq memories'
           /\ counts'["events"] = "imported" => dump.events \subseteq events'
<1>. DEFINE old == IF bad = "events" THEN events
                   ELSE {x \in events : x.id \notin Stored!Ids(dump.events)}
            left == Stored!Restored(dump.events, old, replace, bad = "events")
<1>1. /\ memories' = Stored!Restored(dump.memories, memories, replace, bad = "memories")
      /\ events' = left
      /\ counts' = Stored!Report(bad)
  BY DEF Stored!DataImport, Stored!RestoreAll, Stored!SqliteRestoreAll, Stored!Result
<1>. HIDE DEF old
<1>2. counts'["memories"] = "imported" => bad # "memories"
  BY <1>1 DEF Stored!Report, Stored!Tables
<1>3. counts'["events"] = "imported" => bad # "events"
  BY <1>1 DEF Stored!Report, Stored!Tables
<1>4. bad # "memories" => dump.memories \subseteq memories'
  BY <1>1, RowsRestored DEF Stored!Restored
<1>5. bad # "events" => dump.events \subseteq events'
  BY <1>1, RowsRestored DEF Stored!Restored
<1>. QED
  BY <1>2, <1>3, <1>4, <1>5

\* What an import into SQLite reports as imported is in the database (restore_all).
THEOREM ImportsAreReported == Spec => ImportReported
<1>1. backend = "sqlite" /\ (\E replace \in BOOLEAN, bad \in Stored!Tables \cup {"none"} :
                                 Stored!DataImport(replace, bad)) =>
          /\ counts'["memories"] = "imported" => dump.memories \subseteq memories'
          /\ counts'["events"] = "imported" => dump.events \subseteq events'
  BY ImportIsTrue
<1>. QED
  BY <1>1, PTL DEF Spec, ImportReported, Stored!ImportReported

-----------------------------------------------------------------------------
(* Beliefs *)

Confidence == 0..100
BeliefRow == [there : BOOLEAN, conf : Confidence]
NightPhases == {"awake", "consolidating", "reading", "judging", "logging"}
Vigil == [phase : NightPhases, todo : SUBSET Beliefs, read : [Beliefs -> Confidence],
          entry : SUBSET Trust!Entries, then : SUBSET Beliefs]
Undoing == [phase : {"idle", "lowering", "logging"}, entry : SUBSET Trust!Entries]

BeliefsTyped ==
    /\ beliefs \in [Beliefs -> BeliefRow]
    /\ beliefLog \in Seq(Trust!Entries)
    /\ verdict \in [Beliefs -> {"none", "kept", "rejected"}]
    /\ asleep \in [Threads -> Vigil]
    /\ undo \in Undoing

\* At most one of them.
Single(S) == \A x, y \in S : x = y

\* A verdict is to be logged only between judging and logging, and only one; so for a rollback,
\* and the belief it lowers is one it has taken back.
Pending(n) == n.entry # {} => n.phase = "logging"
Undone(u) ==
    /\ u.phase = "idle" => u.entry = {}
    /\ u.phase = "lowering" => \A e \in u.entry : e.action \in {"revise", "reject"}

\* The log says that a belief is doubted, or will say so.
Entered(l, b) == \E i \in DOMAIN l : \/ l[i].conf < 20 /\ l[i].content = b
                                     \/ l[i].action = "rollback" /\ l[i].old = b
Tells(n, b) == \E e \in n.entry : e.conf < 20 /\ e.content = b
TakesBack(u, b) == \E e \in u.entry : e.content = b /\ e.action \in {"revise", "reject"}
Accounted(b, l, ns, u) ==
    Entered(l, b) \/ (\E n \in Threads : Tells(ns[n], b)) \/ TakesBack(u, b)

\* A row r with its last verdict v.
Rejected(r, v) == r.there /\ v = "rejected" => r.conf < 35

BeliefsInv ==
    /\ BeliefsTyped
    /\ \A n \in Threads : Single(asleep[n].entry) /\ Pending(asleep[n])
    /\ Single(undo.entry) /\ Undone(undo)
    /\ \A b \in Beliefs : Rejected(beliefs[b], verdict[b])
    /\ \A b \in Beliefs : beliefs[b].there /\ beliefs[b].conf < 20 =>
                              Accounted(b, beliefLog, asleep, undo)

LEMMA BeliefsStart == Trust!Init => BeliefsInv
<1>. SUFFICES ASSUME Trust!Init PROVE BeliefsInv
  OBVIOUS
<1>1. /\ beliefs = [b \in Beliefs |-> Trust!NoRow] /\ beliefLog = <<>>
      /\ verdict = [b \in Beliefs |-> "none"]
      /\ asleep = [n \in Threads |-> Trust!Awake] /\ undo = Trust!NoUndo
  BY DEF Trust!Init
<1>2. Trust!NoRow \in BeliefRow /\ ~Trust!NoRow.there
  BY DEF Trust!NoRow, BeliefRow, Confidence
<1>3. Trust!Awake \in Vigil /\ Trust!Awake.entry = {}
  BY DEF Trust!Awake, Vigil, NightPhases, Confidence
<1>4. Trust!NoUndo \in Undoing /\ Trust!NoUndo.entry = {} /\ Trust!NoUndo.phase = "idle"
  BY DEF Trust!NoUndo, Undoing
<1>5. BeliefsTyped
  BY <1>1, <1>2, <1>3, <1>4 DEF BeliefsTyped
<1>. QED
  BY <1>1, <1>2, <1>3, <1>4, <1>5 DEF BeliefsInv, Single, Pending, Undone, Rejected

\* A row is written with the confidence c, and the verdict v: it is not doubted, or there is an
\* account of it. Nothing that was an account before is lost.
LEMMA BeliefWritten ==
    ASSUME BeliefsInv, BeliefsTyped', NEW b \in Beliefs, NEW v,
           \A x \in Beliefs \ {b} : beliefs'[x] = beliefs[x] /\ verdict'[x] = verdict[x],
           \/ ~beliefs'[b].there
           \/ beliefs'[b].conf >= 20 \/ Accounted(b, beliefLog', asleep', undo'),
           verdict'[b] = v, v = "rejected" /\ beliefs'[b].there => beliefs'[b].conf < 35,
           \A x \in Beliefs : Accounted(x, beliefLog, asleep, undo) =>
                                  Accounted(x, beliefLog', asleep', undo')
    PROVE  /\ \A x \in Beliefs : Rejected(beliefs'[x], verdict'[x])
           /\ \A x \in Beliefs : beliefs'[x].there /\ beliefs'[x].conf < 20 =>
                                     Accounted(x, beliefLog', asleep', undo')
<1>. SUFFICES ASSUME NEW x \in Beliefs
              PROVE  /\ Rejected(beliefs'[x], verdict'[x])
                     /\ beliefs'[x].there /\ beliefs'[x].conf < 20 =>
                            Accounted(x, beliefLog', asleep', undo')
  OBVIOUS
<1>1. CASE x = b
  <2>0. beliefs'[b] \in BeliefRow
    BY DEF BeliefsTyped
  <2>1. beliefs'[b].conf \in Int
    BY <2>0 DEF BeliefRow, Confidence
  <2>2. ~beliefs'[b].there \/ beliefs'[b].conf >= 20 \/ Accounted(b, beliefLog', asleep', undo')
    OBVIOUS
  <2>3. beliefs'[b].there /\ beliefs'[b].conf < 20 => Accounted(b, beliefLog', asleep', undo')
    BY <2>1, <2>2
  <2>4. Rejected(beliefs'[b], verdict'[b])
    BY DEF Rejected
  <2>. QED
    BY <1>1, <2>3, <2>4
<1>2. CASE x # b
  BY <1>2 DEF BeliefsInv
<1>. QED
  BY <1>1, <1>2

LEMMA BeliefsAre ==
    ASSUME BeliefsInv
    PROVE  /\ BeliefsTyped
           /\ \A b \in Beliefs : beliefs[b] \in BeliefRow /\ beliefs[b].conf \in Confidence
           /\ \A n \in Threads : asleep[n] \in Vigil
           /\ undo \in Undoing
<1>1. /\ beliefs \in [Beliefs -> BeliefRow] /\ asleep \in [Threads -> Vigil] /\ undo \in Undoing
  BY DEF BeliefsInv, BeliefsTyped
<1>2. \A r \in BeliefRow : r.conf \in Confidence
  BY DEF BeliefRow
<1>. QED
  BY <1>1, <1>2 DEF BeliefsInv

\* A night goes on as m, and nothing is written.
LEMMA NightGoesOn ==
    ASSUME BeliefsInv, NEW n \in Threads, NEW m \in Vigil,
           Trust!Goes(n, m), UNCHANGED <<beliefs, beliefLog, verdict, undo>>,
           m.entry = asleep[n].entry, Pending(m)
    PROVE  BeliefsInv'
<1>1. asleep' = [asleep EXCEPT ![n] = m]
  BY DEF Trust!Goes
<1>2. asleep' \in [Threads -> Vigil] /\ asleep'[n] = m
      /\ \A o \in Threads \ {n} : asleep'[o] = asleep[o]
  BY <1>1 DEF BeliefsInv, BeliefsTyped
<1>3. BeliefsTyped'
  BY <1>2 DEF BeliefsInv, BeliefsTyped
<1>4. \A o \in Threads : Single(asleep'[o].entry) /\ Pending(asleep'[o])
  BY <1>2 DEF BeliefsInv, Single
<1>5. \A b \in Beliefs : Accounted(b, beliefLog, asleep, undo) =>
                             Accounted(b, beliefLog', asleep', undo')
  <2>1. \A b \in Beliefs, o \in Threads : Tells(asleep[o], b) => Tells(asleep'[o], b)
    BY <1>2 DEF Tells
  <2>. QED
    BY <2>1 DEF Accounted
<1>. QED
  BY <1>3, <1>4, <1>5 DEF BeliefsInv

\* The night begins, reads, ends, or has nothing to add.
LEMMA QuietNight ==
    ASSUME BeliefsInv, NEW n \in Threads,
           \/ Trust!NightBegins(n) \/ Trust!ConsolidateNothing(n) \/ Trust!ReadBeliefs(n)
           \/ Trust!NightEnds(n)
    PROVE  BeliefsInv'
<1>0. asleep[n] \in Vigil /\ Pending(asleep[n])
  BY BeliefsAre DEF BeliefsInv
<1>1. CASE Trust!NightBegins(n)
  <2>. DEFINE m == [Trust!Awake EXCEPT !.phase = "consolidating"]
  <2>1. m \in Vigil /\ m.entry = {} /\ Pending(m)
    BY DEF Trust!Awake, Vigil, NightPhases, Confidence, Pending
  <2>2. Trust!Goes(n, m) /\ UNCHANGED <<beliefs, beliefLog, verdict, undo>> /\ asleep[n].entry = {}
    BY <1>0, <1>1 DEF Trust!NightBegins, Pending
  <2>. HIDE DEF m
  <2>. QED
    BY <2>1, <2>2, NightGoesOn
<1>2. CASE Trust!ConsolidateNothing(n)
  <2>. DEFINE m == [asleep[n] EXCEPT !.phase = "reading"]
  <2>1. m \in Vigil /\ m.entry = asleep[n].entry /\ m.phase = "reading"
    BY <1>0 DEF Vigil, NightPhases
  <2>2. Trust!Goes(n, m) /\ UNCHANGED <<beliefs, beliefLog, verdict, undo>> /\ asleep[n].entry = {}
    BY <1>0, <1>2 DEF Trust!ConsolidateNothing, Pending
  <2>. HIDE DEF m
  <2>3. Pending(m)
    BY <2>1, <2>2 DEF Pending
  <2>. QED
    BY <2>1, <2>2, <2>3, NightGoesOn
<1>3. CASE Trust!ReadBeliefs(n)
  <2>. DEFINE there == {b \in Beliefs : beliefs[b].there}
              read == [b \in Beliefs |-> beliefs[b].conf]
              m == [asleep[n] EXCEPT !.phase = "judging", !.todo = there, !.read = read]
  <2>1. there \in SUBSET Beliefs /\ read \in [Beliefs -> Confidence]
    BY BeliefsAre
  <2>2. Trust!Goes(n, m) /\ UNCHANGED <<beliefs, beliefLog, verdict, undo>> /\ asleep[n].entry = {}
    BY <1>0, <1>3 DEF Trust!ReadBeliefs, Pending
  <2>. HIDE DEF there, read
  <2>3. m \in Vigil /\ m.entry = asleep[n].entry
    BY <1>0, <2>1 DEF Vigil, NightPhases
  <2>. HIDE DEF m
  <2>4. Pending(m)
    BY <2>2, <2>3 DEF Pending
  <2>. QED
    BY <2>2, <2>3, <2>4, NightGoesOn
<1>4. CASE Trust!NightEnds(n)
  <2>1. Trust!Awake \in Vigil /\ Trust!Awake.entry = {} /\ Pending(Trust!Awake)
    BY DEF Trust!Awake, Vigil, NightPhases, Confidence, Pending
  <2>2. Trust!Goes(n, Trust!Awake) /\ UNCHANGED <<beliefs, beliefLog, verdict, undo>>
        /\ asleep[n].entry = {}
    BY <1>0, <1>4 DEF Trust!NightEnds, Pending
  <2>. QED
    BY <2>1, <2>2, NightGoesOn
<1>. QED
  BY <1>1, <1>2, <1>3, <1>4

\* What memory_add and memory_set_confidence leave: only the row of b has changed.
Rewritten(b, r, v) ==
    /\ beliefs' \in [Beliefs -> BeliefRow]
    /\ verdict' \in [Beliefs -> {"none", "kept", "rejected"}]
    /\ beliefs'[b] = r /\ verdict'[b] = v
    /\ \A x \in Beliefs \ {b} : beliefs'[x] = beliefs[x] /\ verdict'[x] = verdict[x]

LEMMA RowAdded ==
    ASSUME BeliefsInv, NEW b \in Beliefs, NEW c \in Confidence, Trust!MemoryAdd(b, c)
    PROVE  Rewritten(b, [there |-> TRUE, conf |-> c], "none")
<1>. DEFINE r == [there |-> TRUE, conf |-> c]
<1>1. r \in BeliefRow
  BY DEF BeliefRow
<1>2. beliefs' = [beliefs EXCEPT ![b] = r] /\ verdict' = [verdict EXCEPT ![b] = "none"]
  BY DEF Trust!MemoryAdd
<1>. HIDE DEF r
<1>. QED
  BY <1>1, <1>2, BeliefsAre DEF BeliefsTyped, Rewritten, r

LEMMA ConfidenceSet ==
    ASSUME BeliefsInv, NEW b \in Beliefs, NEW c \in Confidence,
           NEW v \in {"none", "kept", "rejected"}, Trust!SetConfidence(b, c, v)
    PROVE  /\ Rewritten(b, beliefs'[b], v)
           /\ beliefs'[b].there => beliefs'[b].conf = c
<1>1. /\ beliefs' = [beliefs EXCEPT ![b].conf = IF beliefs[b].there THEN c ELSE @]
      /\ verdict' = [verdict EXCEPT ![b] = v]
  BY DEF Trust!SetConfidence
<1>. DEFINE r == [beliefs[b] EXCEPT !.conf = IF beliefs[b].there THEN c ELSE @]
<1>2. beliefs[b] \in BeliefRow /\ beliefs[b].conf \in Confidence
  BY BeliefsAre
<1>3. r \in BeliefRow /\ (r.there => r.conf = c)
  BY <1>2 DEF BeliefRow
<1>4. beliefs' = [beliefs EXCEPT ![b] = r]
  BY <1>1, <1>2, BeliefsAre DEF BeliefsTyped
<1>. HIDE DEF r
<1>5. verdict' \in [Beliefs -> {"none", "kept", "rejected"}]
  BY <1>1, BeliefsAre DEF BeliefsTyped
<1>6. beliefs' \in [Beliefs -> BeliefRow] /\ beliefs'[b] = r
  BY <1>3, <1>4, BeliefsAre DEF BeliefsTyped
<1>. QED
  BY <1>1, <1>3, <1>4, <1>5, <1>6, BeliefsAre DEF BeliefsTyped, Rewritten

\* A row is written in a night that goes on as m: the row keeps its trust, or m tells.
LEMMA NightWrites ==
    ASSUME BeliefsInv, NEW n \in Threads, NEW m \in Vigil, NEW b \in Beliefs, NEW r, NEW v,
           Trust!Goes(n, m), UNCHANGED <<beliefLog, undo>>, Rewritten(b, r, v),
           Single(m.entry), Pending(m), \A x \in Beliefs : Tells(asleep[n], x) => Tells(m, x),
           r.there => r.conf >= 20 \/ Tells(m, b),
           v = "rejected" /\ r.there => r.conf < 35
    PROVE  BeliefsInv'
<1>1. asleep' = [asleep EXCEPT ![n] = m]
  BY DEF Trust!Goes
<1>2. asleep' \in [Threads -> Vigil] /\ asleep'[n] = m
      /\ \A o \in Threads \ {n} : asleep'[o] = asleep[o]
  BY <1>1 DEF BeliefsInv, BeliefsTyped
<1>3. BeliefsTyped'
  BY <1>2 DEF BeliefsInv, BeliefsTyped, Rewritten
<1>4. \A o \in Threads : Single(asleep'[o].entry) /\ Pending(asleep'[o])
  BY <1>2 DEF BeliefsInv
<1>5. \A x \in Beliefs : Accounted(x, beliefLog, asleep, undo) =>
                             Accounted(x, beliefLog', asleep', undo')
  <2>1. \A x \in Beliefs, o \in Threads : Tells(asleep[o], x) => Tells(asleep'[o], x)
    BY <1>2
  <2>. QED
    BY <2>1 DEF Accounted
<1>6. ~beliefs'[b].there \/ beliefs'[b].conf >= 20 \/ Accounted(b, beliefLog', asleep', undo')
  BY <1>2 DEF Rewritten, Accounted
<1>7. verdict'[b] = v /\ (v = "rejected" /\ beliefs'[b].there => beliefs'[b].conf < 35)
      /\ \A x \in Beliefs \ {b} : beliefs'[x] = beliefs[x] /\ verdict'[x] = verdict[x]
  BY DEF Rewritten
<1>8. /\ \A x \in Beliefs : Rejected(beliefs'[x], verdict'[x])
      /\ \A x \in Beliefs : beliefs'[x].there /\ beliefs'[x].conf < 20 =>
                                Accounted(x, beliefLog', asleep', undo')
  BY <1>3, <1>5, <1>6, <1>7, BeliefWritten
<1>. QED
  BY <1>3, <1>4, <1>8 DEF BeliefsInv

LEMMA Doubting ==
    ASSUME NEW c \in Confidence, NEW p \in {50, 70}
    PROVE  Trust!Doubted(c, p) \in Confidence /\ Trust!Doubted(c, p) >= 20
<1>1. (c * 50) \div 100 \in 0..100 /\ (c * 70) \div 100 \in 0..100
  BY DEF Confidence
<1>2. (c * p) \div 100 \in 0..100
  BY <1>1
<1>. QED
  BY <1>2 DEF Trust!Doubted, Trust!Larger, Confidence

LEMMA Confirming == ASSUME NEW c \in Confidence PROVE Trust!Confirmed(c) \in Confidence
<1>. DEFINE p == (200 * c) \div (100 + c)
<1>1. p \in Int
  <2>. DEFINE a == 200 * c
              k == 100 + c
  <2>1. a \in Int /\ k \in Int /\ k > 0
    BY DEF Confidence
  <2>. HIDE DEF a, k
  <2>2. a \div k \in Int
    BY <2>1
  <2>. QED
    BY <2>2 DEF a, k
<1>2. Trust!Confirmed(c) = IF p > 99 THEN 99 ELSE Trust!Larger(5, p)
  BY DEF Trust!Confirmed
<1>. HIDE DEF p
<1>. QED
  BY <1>1, <1>2 DEF Trust!Larger, Confidence

LEMMA EntryOf ==
    ASSUME NEW b \in Beliefs, NEW a \in {"accept", "revise", "reject", "rollback"},
           NEW c \in Confidence, NEW o \in Beliefs
    PROVE  /\ Trust!Entry(b, a, c, o) \in Trust!Entries
           /\ Trust!Entry(b, a, c, o).content = b /\ Trust!Entry(b, a, c, o).conf = c
           /\ Trust!Entry(b, a, c, o).action = a /\ Trust!Entry(b, a, c, o).old = o
BY DEF Trust!Entry, Trust!Entries, Confidence

\* The verdict e on a belief, judged from x, of which the row of b is written.
LEMMA VerdictGiven ==
    ASSUME BeliefsInv, NEW n \in Threads, NEW b \in Beliefs, NEW x \in Beliefs,
           NEW e \in Trust!Entries, NEW l \in SUBSET Beliefs, NEW r, NEW v,
           asleep[n].phase = "judging", Trust!Judged(n, x, e, l), UNCHANGED <<beliefLog, undo>>,
           Rewritten(b, r, v), e.content = b, e.conf \in Confidence,
           r.there => r.conf = e.conf,
           v = "rejected" => e.conf < 35
    PROVE  BeliefsInv'
<1>. DEFINE m == [asleep[n] EXCEPT !.phase = "logging", !.todo = @ \ {x}, !.entry = {e},
                                   !.then = l]
<1>1. asleep[n] \in Vigil /\ Pending(asleep[n])
  BY BeliefsAre DEF BeliefsInv
<1>2. m \in Vigil /\ m.entry = {e} /\ m.phase = "logging"
  BY <1>1 DEF Vigil, NightPhases
<1>3. Trust!Goes(n, m)
  BY DEF Trust!Judged
<1>. HIDE DEF m
<1>4. Single(m.entry) /\ Pending(m)
  BY <1>2 DEF Single, Pending
<1>5. \A y \in Beliefs : Tells(asleep[n], y) => Tells(m, y)
  BY <1>1 DEF Pending, Tells
<1>6. e.conf < 20 => Tells(m, b)
  BY <1>2 DEF Tells
<1>7. r.there => r.conf >= 20 \/ Tells(m, b)
  BY <1>6 DEF Confidence
<1>. QED
  BY <1>2, <1>3, <1>4, <1>5, <1>7, NightWrites

LEMMA JudgeKeeps == ASSUME BeliefsInv, NEW n \in Threads, NEW b \in Beliefs, Trust!Judge(n, b)
                    PROVE  BeliefsInv'
<1>0. asleep[n].phase = "judging" /\ UNCHANGED <<beliefLog, undo>>
  BY DEF Trust!Judge
<1>. DEFINE c == asleep[n].read[b]
<1>1. c \in Confidence
  BY BeliefsAre DEF Vigil
<1>2. CASE Trust!Accept(n, b)
  <2>. DEFINE d == Trust!Confirmed(c)
              e == Trust!Entry(b, "accept", d, b)
  <2>1. d \in Confidence
    BY <1>1, Confirming
  <2>2. Trust!SetConfidence(b, d, "kept") /\ Trust!Judged(n, b, e, {})
    BY <1>2 DEF Trust!Accept
  <2>. HIDE DEF d
  <2>3. e \in Trust!Entries /\ e.content = b /\ e.conf = d
    BY <2>1, EntryOf
  <2>. HIDE DEF e
  <2>. QED
    BY <1>0, <2>1, <2>2, <2>3, ConfidenceSet, VerdictGiven
<1>3. CASE Trust!Revise(n, b)
  <2>. DEFINE d == Trust!Doubted(c, 70)
              e == Trust!Entry(b, "revise", d, b)
  <2>1. d \in Confidence
    BY <1>1, Doubting
  <2>2. Trust!SetConfidence(b, d, "kept") /\ Trust!Judged(n, b, e, {})
    BY <1>3 DEF Trust!Revise
  <2>. HIDE DEF d
  <2>3. e \in Trust!Entries /\ e.content = b /\ e.conf = d
    BY <2>1, EntryOf
  <2>. HIDE DEF e
  <2>. QED
    BY <1>0, <2>1, <2>2, <2>3, ConfidenceSet, VerdictGiven
<1>4. CASE Trust!Reject(n, b)
  <2>. DEFINE d == Trust!RejectedOf(c)
              e == Trust!Entry(b, "reject", d, b)
  <2>1. d \in Confidence /\ d < 35
    BY DEF Trust!RejectedOf, Confidence
  <2>2. Trust!SetConfidence(b, d, "rejected") /\ Trust!Judged(n, b, e, {})
    BY <1>4 DEF Trust!Reject
  <2>. HIDE DEF d
  <2>3. e \in Trust!Entries /\ e.content = b /\ e.conf = d
    BY <2>1, EntryOf
  <2>. HIDE DEF e
  <2>. QED
    BY <1>0, <2>1, <2>2, <2>3, ConfidenceSet, VerdictGiven
<1>5. ASSUME NEW new \in Beliefs, NEW trust \in Trusts, Trust!Rewrite(n, b, new, trust)
      PROVE  BeliefsInv'
  <2>. DEFINE e == Trust!Entry(new, "revise", trust, b)
              r == [there |-> TRUE, conf |-> trust]
  <2>1. trust \in Confidence
    BY ConstantsAssumption DEF Trust!ReflectionAssumption, Confidence
  <2>2. Trust!MemoryAdd(new, trust) /\ Trust!Judged(n, b, e, {b})
    BY <1>5 DEF Trust!Rewrite
  <2>3. e \in Trust!Entries /\ e.content = new /\ e.conf = trust
    BY <2>1, EntryOf
  <2>4. r.there => r.conf = trust
    OBVIOUS
  <2>5. Rewritten(new, r, "none")
    BY <2>1, <2>2, RowAdded
  <2>. HIDE DEF e, r
  <2>. QED
    BY <1>0, <2>1, <2>2, <2>3, <2>4, <2>5, VerdictGiven
<1>. QED
  BY <1>2, <1>3, <1>4, <1>5 DEF Trust!Judge

LEMMA ConsolidateKeeps ==
    ASSUME BeliefsInv, NEW n \in Threads, NEW b \in Beliefs, Trust!Consolidate(n, b)
    PROVE  BeliefsInv'
<1>. DEFINE m == [asleep[n] EXCEPT !.phase = "reading"]
            r == [there |-> TRUE, conf |-> 50]
<1>1. asleep[n] \in Vigil /\ Pending(asleep[n])
  BY BeliefsAre DEF BeliefsInv
<1>2. /\ Trust!MemoryAdd(b, 50) /\ Trust!Goes(n, m) /\ UNCHANGED <<beliefLog, undo>>
      /\ asleep[n].entry = {}
  BY <1>1 DEF Trust!Consolidate, Pending
<1>3. m \in Vigil /\ m.entry = {}
  BY <1>1, <1>2 DEF Vigil, NightPhases
<1>4. r.conf >= 20
  OBVIOUS
<1>5. Rewritten(b, r, "none")
  BY <1>2, RowAdded DEF Confidence
<1>. HIDE DEF m, r
<1>6. Single(m.entry) /\ Pending(m) /\ \A x \in Beliefs : ~Tells(asleep[n], x)
  BY <1>2, <1>3 DEF Single, Pending, Tells
<1>. QED
  BY <1>2, <1>3, <1>4, <1>5, <1>6, NightWrites

LEMMA DoubtOldKeeps == ASSUME BeliefsInv, NEW n \in Threads, Trust!DoubtOld(n) PROVE BeliefsInv'
<1>1. asleep[n] \in Vigil /\ Single(asleep[n].entry)
  BY BeliefsAre DEF BeliefsInv
<1>. DEFINE m == [asleep[n] EXCEPT !.then = {}]
<1>2. PICK b \in asleep[n].then :
           Trust!SetConfidence(b, Trust!Doubted(asleep[n].read[b], 50), "kept")
  BY DEF Trust!DoubtOld
<1>3. b \in Beliefs
  BY <1>1, <1>2 DEF Vigil
<1>. DEFINE c == Trust!Doubted(asleep[n].read[b], 50)
<1>4. asleep[n].read[b] \in Confidence
  BY <1>1, <1>3 DEF Vigil
<1>5. c \in Confidence /\ c >= 20
  BY <1>4, Doubting
<1>6. Trust!SetConfidence(b, c, "kept")
  BY <1>2
<1>7. asleep[n].phase = "logging" /\ Trust!Goes(n, m) /\ UNCHANGED <<beliefLog, undo>>
  BY DEF Trust!DoubtOld
<1>8. m \in Vigil /\ m.entry = asleep[n].entry /\ m.phase = "logging"
  BY <1>1, <1>7 DEF Vigil
<1>. HIDE DEF m, c
<1>9. Rewritten(b, beliefs'[b], "kept") /\ (beliefs'[b].there => beliefs'[b].conf >= 20)
  BY <1>3, <1>5, <1>6, ConfidenceSet
<1>10. Single(m.entry) /\ Pending(m) /\ \A x \in Beliefs : Tells(asleep[n], x) => Tells(m, x)
  BY <1>1, <1>8 DEF Pending, Tells
<1>. QED
  BY <1>3, <1>7, <1>8, <1>9, <1>10, NightWrites

\* The log with an entry more.
LEMMA LogAppended ==
    ASSUME BeliefsInv, NEW e \in Trust!Entries, Trust!LogAdd(e)
    PROVE  /\ beliefLog' \in Seq(Trust!Entries)
           /\ \A b \in Beliefs : Entered(beliefLog, b) => Entered(beliefLog', b)
           /\ \E i \in DOMAIN beliefLog' : beliefLog'[i] = e
<1>1. beliefLog' = Append(beliefLog, e) /\ beliefLog \in Seq(Trust!Entries)
  BY DEF Trust!LogAdd, BeliefsInv, BeliefsTyped
<1>2. /\ beliefLog' \in Seq(Trust!Entries) /\ Len(beliefLog) \in Nat
      /\ Len(beliefLog') = Len(beliefLog) + 1
      /\ beliefLog'[Len(beliefLog) + 1] = e
      /\ \A i \in 1..Len(beliefLog) : beliefLog'[i] = beliefLog[i]
  BY <1>1
<1>3. DOMAIN beliefLog = 1..Len(beliefLog) /\ DOMAIN beliefLog' = 1..(Len(beliefLog) + 1)
  BY <1>1, <1>2
<1>4. \A i \in DOMAIN beliefLog : i \in DOMAIN beliefLog' /\ beliefLog'[i] = beliefLog[i]
  BY <1>2, <1>3
<1>5. Len(beliefLog) + 1 \in DOMAIN beliefLog'
  BY <1>2, <1>3
<1>. QED
  BY <1>2, <1>4, <1>5 DEF Entered

LEMMA LogVerdictKeeps == ASSUME BeliefsInv, NEW n \in Threads, Trust!LogVerdict(n)
                         PROVE  BeliefsInv'
<1>1. asleep[n] \in Vigil /\ Single(asleep[n].entry)
  BY BeliefsAre DEF BeliefsInv
<1>. DEFINE m == [asleep[n] EXCEPT !.phase = "judging", !.entry = {}]
<1>2. PICK e \in asleep[n].entry : Trust!LogAdd(e)
  BY DEF Trust!LogVerdict
<1>3. e \in Trust!Entries
  BY <1>1, <1>2 DEF Vigil
<1>4. Trust!Goes(n, m) /\ UNCHANGED <<beliefs, verdict, undo>>
  BY DEF Trust!LogVerdict
<1>5. m \in Vigil /\ m.entry = {}
  BY <1>1 DEF Vigil, NightPhases
<1>. HIDE DEF m
<1>6. asleep' = [asleep EXCEPT ![n] = m]
  BY <1>4 DEF Trust!Goes
<1>7. asleep' \in [Threads -> Vigil] /\ asleep'[n] = m
      /\ \A o \in Threads \ {n} : asleep'[o] = asleep[o]
  BY <1>5, <1>6 DEF BeliefsInv, BeliefsTyped
<1>8. /\ beliefLog' \in Seq(Trust!Entries)
      /\ \A b \in Beliefs : Entered(beliefLog, b) => Entered(beliefLog', b)
      /\ \E i \in DOMAIN beliefLog' : beliefLog'[i] = e
  BY <1>2, <1>3, LogAppended
<1>9. BeliefsTyped'
  BY <1>4, <1>7, <1>8 DEF BeliefsInv, BeliefsTyped
<1>10. \A o \in Threads : Single(asleep'[o].entry) /\ Pending(asleep'[o])
  BY <1>5, <1>7 DEF BeliefsInv, Single, Pending
<1>11. \A b \in Beliefs : Accounted(b, beliefLog, asleep, undo) =>
                              Accounted(b, beliefLog', asleep', undo')
  <2>1. ASSUME NEW b \in Beliefs, Tells(asleep[n], b) PROVE Entered(beliefLog', b)
    <3>1. e.conf < 20 /\ e.content = b
      BY <1>1, <1>2, <2>1 DEF Tells, Single
    <3>. QED
      BY <1>8, <3>1 DEF Entered
  <2>2. \A b \in Beliefs, o \in Threads : Tells(asleep[o], b) =>
                                              Tells(asleep'[o], b) \/ Entered(beliefLog', b)
    BY <1>7, <2>1
  <2>. QED
    BY <1>4, <1>8, <2>2 DEF Accounted
<1>. QED
  BY <1>4, <1>9, <1>10, <1>11 DEF BeliefsInv

\* A rollback goes on as u; a row may be written, and it may be logged.
LEMMA UndoWrites ==
    ASSUME BeliefsInv, NEW u \in Undoing, undo' = u, NEW b \in Beliefs, NEW r, NEW v,
           UNCHANGED <<beliefLog, asleep>>, Rewritten(b, r, v),
           Single(u.entry), Undone(u),
           \A x \in Beliefs : TakesBack(undo, x) => TakesBack(u, x),
           r.there => r.conf >= 20 \/ TakesBack(u, b),
           v = "rejected" /\ r.there => r.conf < 35
    PROVE  BeliefsInv'
<1>1. BeliefsTyped'
  BY DEF BeliefsInv, BeliefsTyped, Rewritten
<1>2. \A x \in Beliefs : Accounted(x, beliefLog, asleep, undo) =>
                             Accounted(x, beliefLog', asleep', undo')
  BY DEF Accounted
<1>3. ~beliefs'[b].there \/ beliefs'[b].conf >= 20 \/ Accounted(b, beliefLog', asleep', undo')
  BY DEF Rewritten, Accounted
<1>4. verdict'[b] = v /\ (v = "rejected" /\ beliefs'[b].there => beliefs'[b].conf < 35)
      /\ \A x \in Beliefs \ {b} : beliefs'[x] = beliefs[x] /\ verdict'[x] = verdict[x]
  BY DEF Rewritten
<1>5. /\ \A x \in Beliefs : Rejected(beliefs'[x], verdict'[x])
      /\ \A x \in Beliefs : beliefs'[x].there /\ beliefs'[x].conf < 20 =>
                                Accounted(x, beliefLog', asleep', undo')
  BY <1>1, <1>2, <1>3, <1>4, BeliefWritten
<1>. QED
  BY <1>1, <1>5 DEF BeliefsInv

LEMMA RollbackKeeps ==
    ASSUME BeliefsInv, NEW i \in DOMAIN beliefLog, Trust!Rollback(i) PROVE BeliefsInv'
<1>. DEFINE e == beliefLog[i]
            u == [phase |-> IF e.action \in {"revise", "reject"} THEN "lowering" ELSE "logging",
                  entry |-> {e}]
            c == Trust!Larger(e.conf, 50)
            r == [there |-> TRUE, conf |-> c]
<1>1. e \in Trust!Entries
  BY DEF BeliefsInv, BeliefsTyped
<1>2. e.old \in Beliefs /\ c \in Confidence /\ c >= 20
  BY <1>1 DEF Trust!Entries, Trust!Larger, Confidence
<1>3. /\ Trust!MemoryAdd(e.old, c) /\ undo' = u /\ UNCHANGED <<beliefLog, asleep>>
      /\ undo.entry = {}
  BY DEF Trust!Rollback, BeliefsInv, Undone
<1>4. u \in Undoing /\ u.entry = {e} /\ Undone(u)
  BY <1>1 DEF Undoing, Undone
<1>. HIDE DEF e, c, u
<1>5. r.conf >= 20
  BY <1>2
<1>6. Rewritten(e.old, r, "none")
  BY <1>2, <1>3, RowAdded
<1>. HIDE DEF r
<1>7. Single(u.entry) /\ \A x \in Beliefs : ~TakesBack(undo, x)
  BY <1>3, <1>4 DEF Single, TakesBack
<1>. QED
  BY <1>2, <1>3, <1>4, <1>5, <1>6, <1>7, UndoWrites

LEMMA LowerKeeps == ASSUME BeliefsInv, Trust!RollbackLower PROVE BeliefsInv'
<1>. DEFINE u == [undo EXCEPT !.phase = "logging"]
<1>1. undo \in Undoing /\ Single(undo.entry) /\ Undone(undo) /\ undo.phase = "lowering"
  BY BeliefsAre DEF BeliefsInv, Trust!RollbackLower
<1>2. PICK e \in undo.entry : Trust!SetConfidence(e.content, 5, "rejected")
  BY DEF Trust!RollbackLower
<1>3. e \in Trust!Entries /\ e.action \in {"revise", "reject"}
  BY <1>1, <1>2 DEF Undoing, Undone
<1>4. e.content \in Beliefs /\ 5 \in Confidence
  BY <1>3 DEF Trust!Entries, Confidence
<1>5. undo' = u /\ UNCHANGED <<beliefLog, asleep>>
  BY DEF Trust!RollbackLower
<1>6. u \in Undoing /\ u.entry = undo.entry /\ Undone(u)
  BY <1>1 DEF Undoing, Undone
<1>. HIDE DEF u
<1>. DEFINE b == e.content
<1>7. Rewritten(b, beliefs'[b], "rejected") /\ (beliefs'[b].there => beliefs'[b].conf = 5)
  BY <1>2, <1>4, ConfidenceSet
<1>8. TakesBack(u, b) /\ \A x \in Beliefs : TakesBack(undo, x) => TakesBack(u, x)
  BY <1>2, <1>3, <1>6 DEF TakesBack
<1>9. beliefs'[b].there => beliefs'[b].conf < 35
  BY <1>7
<1>. QED
  BY <1>1, <1>4, <1>5, <1>6, <1>7, <1>8, <1>9, UndoWrites

LEMMA LogRollbackKeeps == ASSUME BeliefsInv, Trust!RollbackLog PROVE BeliefsInv'
<1>1. undo \in Undoing /\ Single(undo.entry)
  BY BeliefsAre DEF BeliefsInv
<1>2. PICK e \in undo.entry : Trust!LogAdd(Trust!Entry(e.old, "rollback", e.conf, e.content))
  BY DEF Trust!RollbackLog
<1>. DEFINE f == Trust!Entry(e.old, "rollback", e.conf, e.content)
<1>3. e \in Trust!Entries
  BY <1>1, <1>2 DEF Undoing
<1>4. f \in Trust!Entries /\ f.action = "rollback" /\ f.old = e.content
  <2>1. e.content \in Beliefs /\ e.old \in Beliefs /\ e.conf \in Confidence
    BY <1>3 DEF Trust!Entries, Confidence
  <2>. QED
    BY <2>1, EntryOf
<1>5. Trust!LogAdd(f)
  BY <1>2
<1>. HIDE DEF f
<1>6. undo' = Trust!NoUndo /\ UNCHANGED <<beliefs, verdict, asleep>>
  BY DEF Trust!RollbackLog
<1>7. undo' \in Undoing /\ undo'.entry = {} /\ Single(undo'.entry) /\ Undone(undo')
  BY <1>6 DEF Trust!NoUndo, Undoing, Single, Undone
<1>8. /\ beliefLog' \in Seq(Trust!Entries)
      /\ \A b \in Beliefs : Entered(beliefLog, b) => Entered(beliefLog', b)
      /\ \E i \in DOMAIN beliefLog' : beliefLog'[i] = f
  BY <1>4, <1>5, LogAppended
<1>9. BeliefsTyped'
  BY <1>6, <1>7, <1>8 DEF BeliefsInv, BeliefsTyped
<1>10. \A b \in Beliefs : TakesBack(undo, b) => Entered(beliefLog', b)
  <2>1. ASSUME NEW b \in Beliefs, TakesBack(undo, b) PROVE e.content = b
    BY <1>1, <1>2, <2>1 DEF TakesBack, Single
  <2>. QED
    BY <1>4, <1>8, <2>1 DEF Entered
<1>11. \A b \in Beliefs : Accounted(b, beliefLog, asleep, undo) =>
                              Accounted(b, beliefLog', asleep', undo')
  BY <1>6, <1>8, <1>10 DEF Accounted
<1>. QED
  BY <1>6, <1>7, <1>9, <1>11 DEF BeliefsInv

LEMMA BeliefsGoOn == BeliefsInv /\ Trust!Next => BeliefsInv'
BY QuietNight, ConsolidateKeeps, JudgeKeeps, DoubtOldKeeps, LogVerdictKeeps, RollbackKeeps,
   LowerKeeps, LogRollbackKeeps DEF Trust!Next

LEMMA BeliefsSame == ASSUME BeliefsInv, UNCHANGED beliefVars PROVE BeliefsInv'
BY DEF beliefVars, BeliefsInv, BeliefsTyped

LEMMA BeliefsRight == BeliefsInv => Trust!TypeOK /\ Trust!ShownNotRejected /\ Trust!DoubtLogged
<1>. SUFFICES ASSUME BeliefsInv PROVE Trust!TypeOK /\ Trust!ShownNotRejected /\ Trust!DoubtLogged
  OBVIOUS
<1>1. Trust!TypeOK
  BY DEF BeliefsInv, BeliefsTyped, BeliefRow, Confidence, Trust!TypeOK
<1>2. Trust!ShownNotRejected
  <2>1. \A b \in Beliefs : beliefs[b].conf \in Int
    BY BeliefsAre DEF Confidence
  <2>. QED
    BY <2>1 DEF BeliefsInv, Rejected, Trust!ShownNotRejected, Trust!Shown
<1>3. Trust!DoubtLogged
  BY DEF BeliefsInv, Accounted, Entered, Tells, TakesBack, Trust!DoubtLogged
<1>. QED
  BY <1>1, <1>2, <1>3

-----------------------------------------------------------------------------
(* The weight of facts *)

Level == 0..Top
KeptRow == [status : {"none", "active", "superseded"}, conf : Level]

UpkeepTyped ==
    /\ kept \in [Nightly!Texts -> KeptRow]
    /\ topic \subseteq Remarks /\ todo \subseteq Remarks \cup Nightly!Talks
    /\ held \subseteq Nightly!Texts \X Level

\* What is condensed is on file from the time facts begin to lose weight.
OnFile(r) == r[Summary].status # "none" \/ r[Chain].status # "none"
UpkeepInv == UpkeepTyped /\ (stage = "lower" \/ lowered # {} => OnFile(kept))

LEMMA UpkeepConstants ==
    /\ Top \in Nat \ {0} /\ Summary \notin Remarks /\ Chain \notin Remarks
    /\ Summary \in Nightly!Texts /\ Chain \in Nightly!Texts /\ Remarks \subseteq Nightly!Texts
    /\ Short \subseteq Nightly!Texts
BY ConstantsAssumption DEF Nightly!UpkeepAssumption, Nightly!Texts

LEMMA LevelsAre ==
    /\ \A t, c : Nightly!Active(t, c).status = "active"
    /\ \A t : \A c \in Level : Nightly!Active(t, c) \in KeptRow
    /\ Top - 1 \in Level /\ 0 \in Level
    /\ \A c \in Level : Nightly!Discounted(c) \in Level
BY UpkeepConstants DEF Nightly!Active, Nightly!Discounted, KeptRow, Level

LEMMA UpkeepStarts == Nightly!Init => UpkeepInv
<1>. SUFFICES ASSUME Nightly!Init PROVE UpkeepInv
  OBVIOUS
<1>1. /\ kept = [t \in Nightly!Texts |-> Nightly!NoRow] /\ topic = {} /\ todo = {} /\ held = {}
      /\ stage = "day" /\ lowered = {}
  BY DEF Nightly!Init
<1>2. Nightly!NoRow \in KeptRow
  BY LevelsAre DEF Nightly!NoRow, KeptRow
<1>. QED
  BY <1>1, <1>2 DEF UpkeepInv, UpkeepTyped

\* One row is written, and stays a row unless it is a fact's.
LEMMA RowKept ==
    ASSUME UpkeepInv, NEW t \in Nightly!Texts, NEW r \in KeptRow, kept' = [kept EXCEPT ![t] = r],
           r.status = "none" => kept[t].status = "none" \/ t \in Remarks
    PROVE  kept' \in [Nightly!Texts -> KeptRow] /\ (OnFile(kept) => OnFile(kept'))
<1>1. /\ kept' \in [Nightly!Texts -> KeptRow]
      /\ \A u \in Nightly!Texts : kept'[u] = IF u = t THEN r ELSE kept[u]
  BY DEF UpkeepInv, UpkeepTyped
<1>2. \A u \in {Summary, Chain} : kept[u].status # "none" => kept'[u].status # "none"
  BY <1>1, UpkeepConstants
<1>. QED
  BY <1>1, <1>2 DEF OnFile

LEMMA ConfidenceKept ==
    ASSUME UpkeepInv, NEW t \in Nightly!Texts, NEW c \in Level,
           kept' = Nightly!SetConfidence(t, c)
    PROVE  kept' \in [Nightly!Texts -> KeptRow] /\ (OnFile(kept) => OnFile(kept'))
<1>1. CASE Nightly!Exists(t)
  <2>. DEFINE r == [kept[t] EXCEPT !.conf = c]
  <2>1. kept \in [Nightly!Texts -> KeptRow] /\ kept[t] \in KeptRow
    BY DEF UpkeepInv, UpkeepTyped
  <2>2. r \in KeptRow /\ r.status = kept[t].status
    BY <2>1 DEF KeptRow
  <2>3. kept' = [kept EXCEPT ![t] = r]
    BY <1>1, <2>1 DEF Nightly!SetConfidence
  <2>. HIDE DEF r
  <2>. QED
    BY <2>2, <2>3, RowKept
<1>2. CASE ~Nightly!Exists(t)
  BY <1>2 DEF Nightly!SetConfidence, UpkeepInv, UpkeepTyped
<1>. QED
  BY <1>1, <1>2

LEMMA UpkeepChat ==
    ASSUME UpkeepInv, NEW f \in Remarks,
           Nightly!Learn(f) \/ Nightly!Confirm(f) \/ Nightly!Supersede(f) \/ Nightly!Forget(f)
    PROVE  UpkeepInv'
<1>0. /\ kept \in [Nightly!Texts -> KeptRow] /\ f \in Nightly!Texts /\ kept[f] \in KeptRow
      /\ kept[f].conf \in Level
  BY UpkeepConstants DEF UpkeepInv, UpkeepTyped, KeptRow
<1>1. /\ UNCHANGED <<stage, todo, held, lowered>> /\ topic' \subseteq Remarks
  BY DEF Nightly!Learn, Nightly!Confirm, Nightly!Supersede, Nightly!Forget, UpkeepInv, UpkeepTyped
<1>2. kept' \in [Nightly!Texts -> KeptRow] /\ (OnFile(kept) => OnFile(kept'))
  <2>1. CASE Nightly!Learn(f)
    <3>1. /\ kept' = [kept EXCEPT ![f] = Nightly!Active(f, Top - 1)]
          /\ Nightly!Active(f, Top - 1) \in KeptRow
      BY <2>1, LevelsAre DEF Nightly!Learn, Nightly!MemoryAdd
    <3>. QED
      BY <1>0, <3>1, RowKept
  <2>2. CASE Nightly!Confirm(f)
    <3>1. kept' = Nightly!SetConfidence(f, kept[f].conf + 1) /\ kept[f].conf < Top
      BY <2>2 DEF Nightly!Confirm
    <3>2. kept[f].conf + 1 \in Level
      BY <1>0, <3>1, UpkeepConstants DEF Level
    <3>. QED
      BY <1>0, <3>1, <3>2, ConfidenceKept
  <2>3. CASE Nightly!Supersede(f)
    <3>. DEFINE r == [kept[f] EXCEPT !.status = "superseded"]
    <3>1. r \in KeptRow /\ r.status # "none"
      BY <1>0 DEF KeptRow
    <3>2. kept' = [kept EXCEPT ![f] = r]
      BY <1>0, <2>3 DEF Nightly!Supersede
    <3>. HIDE DEF r
    <3>. QED
      BY <1>0, <3>1, <3>2, RowKept
  <2>4. CASE Nightly!Forget(f)
    <3>1. kept' = [kept EXCEPT ![f] = Nightly!NoRow] /\ Nightly!NoRow \in KeptRow
      BY <2>4, LevelsAre DEF Nightly!Forget, Nightly!NoRow, KeptRow
    <3>. QED
      BY <1>0, <3>1, RowKept
  <2>. QED
    BY <2>1, <2>2, <2>3, <2>4
<1>. QED
  BY <1>1, <1>2 DEF UpkeepInv, UpkeepTyped

LEMMA UpkeepCondenses ==
    ASSUME UpkeepInv,
           \/ Nightly!NightBegins \/ Nightly!Condense \/ Nightly!TopicsDone \/ Nightly!Calibrate
           \/ Nightly!NightEnds \/ \E f \in Remarks : Nightly!LookUp(f)
           \/ \E f \in Remarks, l \in {"update", "uncertain", "keep"} : Nightly!Investigate(f, l)
           \/ \E h \in held : Nightly!Lower(h[1], h[2])
    PROVE  UpkeepInv'
<1>1. CASE Nightly!NightBegins \/ Nightly!TopicsDone \/ Nightly!Calibrate \/ Nightly!NightEnds
  BY <1>1 DEF Nightly!NightBegins, Nightly!TopicsDone, Nightly!Calibrate, Nightly!NightEnds,
              UpkeepInv, UpkeepTyped
<1>2. CASE Nightly!Condense
  <2>1. PICK s \in {Summary, Chain} : kept' = Nightly!MemoryAdd(s, Top - 1)
    BY <1>2 DEF Nightly!Condense
  <2>2. /\ kept' = [kept EXCEPT ![s] = Nightly!Active(s, Top - 1)]
        /\ Nightly!Active(s, Top - 1) \in KeptRow /\ Nightly!Active(s, Top - 1).status = "active"
        /\ s \in Nightly!Texts /\ kept \in [Nightly!Texts -> KeptRow]
    BY <2>1, LevelsAre, UpkeepConstants DEF Nightly!MemoryAdd, UpkeepInv, UpkeepTyped
  <2>3. kept' \in [Nightly!Texts -> KeptRow] /\ kept'[s].status # "none"
    BY <2>2
  <2>4. OnFile(kept')
    BY <2>3 DEF OnFile
  <2>5. todo' = topic /\ UNCHANGED <<topic, held>>
    BY <1>2 DEF Nightly!Condense
  <2>. QED
    BY <2>3, <2>4, <2>5 DEF UpkeepInv, UpkeepTyped
<1>3. ASSUME NEW f \in Remarks, Nightly!LookUp(f) PROVE UpkeepInv'
  <2>1. f \in Nightly!Texts /\ kept[f].conf \in Level
    BY UpkeepConstants DEF UpkeepInv, UpkeepTyped, KeptRow
  <2>2. <<f, kept[f].conf>> \in Nightly!Texts \X Level
    BY <2>1
  <2>3. held' \subseteq {<<f, kept[f].conf>>} /\ todo' \subseteq todo
        /\ UNCHANGED <<kept, topic, stage, lowered>>
    BY <1>3 DEF Nightly!LookUp
  <2>. QED
    BY <2>2, <2>3 DEF UpkeepInv, UpkeepTyped
<1>4. ASSUME NEW f \in Remarks, NEW l \in {"update", "uncertain", "keep"},
             Nightly!Investigate(f, l)
      PROVE  UpkeepInv'
  BY <1>4 DEF Nightly!Investigate, UpkeepInv, UpkeepTyped
<1>5. ASSUME NEW h \in held, Nightly!Lower(h[1], h[2]) PROVE UpkeepInv'
  <2>1. h[1] \in Nightly!Texts /\ h[2] \in Level
    BY DEF UpkeepInv, UpkeepTyped
  <2>2. Nightly!Discounted(h[2]) \in Level
    BY <2>1, LevelsAre
  <2>3. /\ stage = "lower" /\ kept' = Nightly!SetConfidence(h[1], Nightly!Discounted(h[2]))
        /\ held' = {} /\ UNCHANGED <<topic, stage, todo>>
    BY <1>5 DEF Nightly!Lower
  <2>4. kept' \in [Nightly!Texts -> KeptRow] /\ (OnFile(kept) => OnFile(kept'))
    BY <2>1, <2>2, <2>3, ConfidenceKept
  <2>. QED
    BY <2>3, <2>4 DEF UpkeepInv, UpkeepTyped
<1>. QED
  BY <1>1, <1>2, <1>3, <1>4, <1>5

LEMMA UpkeepReads == ASSUME UpkeepInv, Nightly!ReadFragments PROVE UpkeepInv'
<1>. DEFINE short == {t \in Short : Nightly!Exists(t)}
<1>1. /\ held' = {<<t, kept[t].conf>> : t \in short}
      /\ todo' \subseteq Nightly!Talks
      /\ stage' = "merge" /\ UNCHANGED <<kept, topic, lowered>>
  BY DEF Nightly!ReadFragments
<1>2. \A t \in short : t \in Nightly!Texts /\ kept[t].conf \in Level
  BY UpkeepConstants DEF UpkeepInv, UpkeepTyped, KeptRow
<1>. HIDE DEF short
<1>3. held' \subseteq Nightly!Texts \X Level
  BY <1>1, <1>2
<1>. QED
  BY <1>1, <1>3 DEF UpkeepInv, UpkeepTyped

LEMMA UpkeepMerges ==
    ASSUME UpkeepInv, NEW k \in Nightly!Talks, NEW merged \in SUBSET Nightly!Texts,
           Nightly!MergeTalk(k, merged)
    PROVE  UpkeepInv'
<1>1. /\ todo' \subseteq todo /\ UNCHANGED <<topic, stage, held, lowered>>
  BY DEF Nightly!MergeTalk
<1>2. CASE merged = {}
  <2>1. kept' = kept
    BY <1>2 DEF Nightly!MergeTalk
  <2>. QED
    BY <1>1, <2>1 DEF UpkeepInv, UpkeepTyped
<1>3. CASE merged # {}
  <2>. DEFINE orig == {h[1] : h \in Nightly!Group(k)}
              filed0 == merged \ orig
              of(t) == CHOOSE h \in held : h[1] = t
              low(t) == [kept[t] EXCEPT !.conf = Nightly!Discounted(of(t)[2])]
              r(t) == IF t \in filed0 THEN Nightly!Active(t, Top - 1)
                      ELSE IF t \in orig \ merged /\ Nightly!Exists(t) THEN low(t) ELSE kept[t]
  <2>1. kept' = [t \in Nightly!Texts |-> r(t)]
    BY <1>3 DEF Nightly!MergeTalk
  <2>2. kept \in [Nightly!Texts -> KeptRow]
    BY DEF UpkeepInv, UpkeepTyped
  <2>3. \A t \in orig : of(t)[2] \in Level
    <3>1. \A t \in orig : \E h \in held : h[1] = t
      BY DEF Nightly!Group
    <3>2. \A t \in orig : of(t) \in held
      BY <3>1
    <3>3. \A h \in held : h[2] \in Level
      BY DEF UpkeepInv, UpkeepTyped
    <3>. QED
      BY <3>2, <3>3
  <2>. HIDE DEF of
  <2>4. \A t \in orig : Nightly!Discounted(of(t)[2]) \in Level
    BY <2>3, LevelsAre
  <2>. HIDE DEF orig
  <2>5. \A t \in Nightly!Texts : t \in orig => low(t) \in KeptRow /\ low(t).status = kept[t].status
    BY <2>2, <2>4 DEF KeptRow
  <2>. HIDE DEF low, filed0
  <2>6. \A t \in Nightly!Texts : r(t) \in KeptRow
                               /\ (kept[t].status # "none" => r(t).status # "none")
    BY <2>2, <2>5, LevelsAre
  <2>. HIDE DEF r
  <2>7. kept' \in [Nightly!Texts -> KeptRow]
    BY <2>1, <2>6
  <2>8. \A t \in {Summary, Chain} : kept[t].status # "none" => kept'[t].status # "none"
    BY <2>1, <2>6, UpkeepConstants
  <2>9. OnFile(kept) => OnFile(kept')
    BY <2>8 DEF OnFile
  <2>. QED
    BY <1>1, <2>7, <2>9 DEF UpkeepInv, UpkeepTyped
<1>. QED
  BY <1>2, <1>3

LEMMA UpkeepGoesOn == UpkeepInv /\ Nightly!Next => UpkeepInv'
BY UpkeepChat, UpkeepCondenses, UpkeepReads, UpkeepMerges DEF Nightly!Next

LEMMA UpkeepSame == ASSUME UpkeepInv, UNCHANGED upkeepVars PROVE UpkeepInv'
BY DEF upkeepVars, UpkeepInv, UpkeepTyped

LEMMA UpkeepRight == UpkeepInv => Nightly!LoweredIsCovered
BY DEF UpkeepInv, OnFile, Nightly!LoweredIsCovered, Nightly!Exists

-----------------------------------------------------------------------------
(* The scan for facts nobody said *)

FiledRow == {Scanned!NoRow} \cup [source : {"user", "ai_edit"}, class : {"short", "core"}]
ScanRecord == [phase : {"idle", "pool", "rows"}, read : SUBSET Messages, told : SUBSET Messages,
               rows : SUBSET (Claims \X {"short", "core"})]
Spoken == [phase : {"idle", "said", "traced", "learned"}, message : Messages \cup {""}]

ScanTyped ==
    /\ filed \in [Claims -> FiledRow]
    /\ open \subseteq Messages /\ conv \subseteq Messages /\ stated \subseteq Messages
    /\ deduped \subseteq Messages
    /\ chat \in [Threads -> Spoken]
    /\ \A k \in Threads : chat[k].phase # "idle" => chat[k].message \in Messages
    /\ scan \in ScanRecord /\ lost \subseteq Claims /\ quiet \in BOOLEAN

\* While nobody speaks the scan compares with what there is, and has everything that is not borne
\* out on its list until it is treated.
BornOut(f, messages) == Scanned!Level(f, messages) \in {"strong", "empty"}
Listed(f, r, s) == r[f].source = "user" => BornOut(f, s.read) \/ <<f, r[f].class>> \in s.rows
ScanFollows ==
    quiet =>
        /\ scan.phase # "idle" => scan.read = conv \cup open
        /\ scan.phase = "rows" => \A f \in Claims : Listed(f, filed, scan)
        /\ scan.phase = "idle" => \A f \in Claims :
               filed[f].source = "user" => BornOut(f, conv \cup open)
ScanInv == ScanTyped /\ ScanFollows

LEMMA ScanStarts == Scanned!Init => ScanInv
<1>. SUFFICES ASSUME Scanned!Init PROVE ScanInv
  OBVIOUS
<1>1. Scanned!Row("user") \in FiledRow
  BY DEF Scanned!Row, FiledRow
<1>2. Scanned!NoRow \in FiledRow
  BY DEF FiledRow
<1>3. filed \in [Claims -> FiledRow]
  BY <1>1, <1>2 DEF Scanned!Init
<1>4. Scanned!Waiting \in Spoken /\ Scanned!Waiting.phase = "idle"
  BY DEF Scanned!Waiting, Spoken
<1>5. chat \in [Threads -> Spoken] /\ \A k \in Threads : chat[k].phase = "idle"
  BY <1>4 DEF Scanned!Init
<1>6. Scanned!NoScan \in ScanRecord
  BY DEF Scanned!NoScan, ScanRecord
<1>7. ScanTyped
  BY <1>3, <1>5, <1>6 DEF Scanned!Init, ScanTyped
<1>8. ScanFollows
  BY DEF Scanned!Init, ScanFollows
<1>. QED
  BY <1>7, <1>8 DEF ScanInv

LEMMA SpokenKept ==
    ASSUME ScanTyped, NEW k \in Threads, NEW c \in Spoken, c.phase # "idle" => c.message \in Messages,
           chat' = [chat EXCEPT ![k] = c]
    PROVE  /\ chat' \in [Threads -> Spoken]
           /\ \A t \in Threads : chat'[t].phase # "idle" => chat'[t].message \in Messages
BY DEF ScanTyped

LEMMA PhaseKept ==
    ASSUME ScanTyped, NEW k \in Threads, NEW p \in {"idle", "said", "traced", "learned"},
           chat[k].phase # "idle", chat' = [chat EXCEPT ![k].phase = p]
    PROVE  /\ chat' \in [Threads -> Spoken]
           /\ \A t \in Threads : chat'[t].phase # "idle" => chat'[t].message \in Messages
<1>. DEFINE c == [chat[k] EXCEPT !.phase = p]
<1>1. chat[k] \in Spoken
  BY DEF ScanTyped
<1>2. c \in Spoken /\ c.message = chat[k].message
  BY <1>1 DEF Spoken
<1>3. chat[k].message \in Messages
  BY DEF ScanTyped
<1>4. chat' = [chat EXCEPT ![k] = c]
  OBVIOUS
<1>. HIDE DEF c
<1>. QED
  BY <1>2, <1>3, <1>4, SpokenKept

LEMMA SayScan ==
    ASSUME ScanInv, NEW k \in Threads, NEW m \in Messages, Scanned!Say(k, m)
    PROVE  ScanInv'
<1>1. ScanTyped
  BY DEF ScanInv
<1>2. /\ chat' = [chat EXCEPT ![k] = [phase |-> "said", message |-> m]] /\ quiet' = FALSE
      /\ open' \subseteq open \cup {m}
      /\ UNCHANGED <<filed, conv, deduped, scan, stated, lost>>
  BY DEF Scanned!Say
<1>3. [phase |-> "said", message |-> m] \in Spoken
  BY DEF Spoken
<1>4. /\ chat' \in [Threads -> Spoken]
      /\ \A t \in Threads : chat'[t].phase # "idle" => chat'[t].message \in Messages
  BY <1>1, <1>2, <1>3, SpokenKept
<1>5. ScanTyped'
  BY <1>1, <1>2, <1>4 DEF ScanTyped
<1>. QED
  BY <1>2, <1>5 DEF ScanInv, ScanFollows

LEMMA TraceScan ==
    ASSUME ScanInv, NEW k \in Threads, Scanned!Trace(k)
    PROVE  ScanInv'
<1>1. ScanTyped
  BY DEF ScanInv
<1>2. /\ chat[k].phase = "said" /\ chat' = [chat EXCEPT ![k].phase = "traced"]
      /\ deduped' = deduped \cup {chat[k].message}
      /\ UNCHANGED <<filed, open, conv, scan, stated, lost, quiet>>
  BY DEF Scanned!Trace
<1>3. /\ chat' \in [Threads -> Spoken]
      /\ \A t \in Threads : chat'[t].phase # "idle" => chat'[t].message \in Messages
  BY <1>1, <1>2, PhaseKept
<1>4. chat[k].message \in Messages
  BY <1>1, <1>2 DEF ScanTyped
<1>5. ScanTyped'
  BY <1>1, <1>2, <1>3, <1>4 DEF ScanTyped
<1>. QED
  BY <1>2, <1>5 DEF ScanInv, ScanFollows, Listed

LEMMA IngestScan ==
    ASSUME ScanInv, NEW k \in Threads, NEW found, Scanned!Ingest(k, found)
    PROVE  ScanInv'
<1>. DEFINE m == chat[k].message
<1>1. ScanTyped
  BY DEF ScanInv
<1>2. /\ chat[k].phase = "traced" /\ chat' = [chat EXCEPT ![k].phase = "learned"]
      /\ quiet' = FALSE /\ UNCHANGED <<open, conv, deduped, scan, stated, lost>>
      /\ \/ filed' = filed
         \/ filed' = [f \in Claims |-> Scanned!Promoted(f, IF f \in found THEN Scanned!Filed(f, m)
                                                           ELSE filed[f])]
  BY DEF Scanned!Ingest
<1>3. /\ chat' \in [Threads -> Spoken]
      /\ \A t \in Threads : chat'[t].phase # "idle" => chat'[t].message \in Messages
  BY <1>1, <1>2, PhaseKept
<1>4. ASSUME NEW f \in Claims PROVE Scanned!Filed(f, m) \in FiledRow /\ filed[f] \in FiledRow
  <2>1. filed[f] \in FiledRow
    BY <1>1 DEF ScanTyped
  <2>2. Scanned!Row("user") \in FiledRow /\ Scanned!Row("ai_edit") \in FiledRow
    BY DEF Scanned!Row, FiledRow
  <2>. QED
    BY <2>1, <2>2 DEF Scanned!Filed
<1>5. ASSUME NEW f \in Claims, NEW r \in FiledRow PROVE Scanned!Promoted(f, r) \in FiledRow
  BY DEF Scanned!Promoted, FiledRow
<1>6. filed' \in [Claims -> FiledRow]
  <2>1. CASE filed' = filed
    BY <1>1, <2>1 DEF ScanTyped
  <2>2. CASE filed' = [f \in Claims |-> Scanned!Promoted(f, IF f \in found THEN Scanned!Filed(f, m)
                                                            ELSE filed[f])]
    <3>1. ASSUME NEW f \in Claims
          PROVE  Scanned!Promoted(f, IF f \in found THEN Scanned!Filed(f, m) ELSE filed[f])
                     \in FiledRow
      <4>1. (IF f \in found THEN Scanned!Filed(f, m) ELSE filed[f]) \in FiledRow
        BY <1>4
      <4>. QED
        BY <4>1, <1>5
    <3>. QED
      BY <2>2, <3>1
  <2>. QED
    BY <1>2, <2>1, <2>2
<1>7. ScanTyped'
  BY <1>1, <1>2, <1>3, <1>6 DEF ScanTyped
<1>. QED
  BY <1>2, <1>7 DEF ScanInv, ScanFollows

LEMMA RecordScan ==
    ASSUME ScanInv, NEW k \in Threads, Scanned!Record(k)
    PROVE  ScanInv'
<1>. DEFINE m == chat[k].message
<1>1. ScanTyped
  BY DEF ScanInv
<1>2. /\ chat[k].phase = "learned" /\ chat' = [chat EXCEPT ![k] = Scanned!Waiting]
      /\ quiet' = FALSE /\ UNCHANGED <<filed, open, scan, lost>>
      /\ conv' \subseteq conv \cup {m} /\ deduped' = deduped \cup {m}
      /\ stated' = stated \cup {m}
  BY DEF Scanned!Record
<1>3. Scanned!Waiting \in Spoken /\ Scanned!Waiting.phase = "idle"
  BY DEF Scanned!Waiting, Spoken
<1>4. /\ chat' \in [Threads -> Spoken]
      /\ \A t \in Threads : chat'[t].phase # "idle" => chat'[t].message \in Messages
  BY <1>1, <1>2, <1>3, SpokenKept
<1>5. m \in Messages
  BY <1>1, <1>2 DEF ScanTyped
<1>6. ScanTyped'
  BY <1>1, <1>2, <1>4, <1>5 DEF ScanTyped
<1>. QED
  BY <1>2, <1>6 DEF ScanInv, ScanFollows

LEMMA ReadRowsScan == ScanInv /\ Scanned!ReadRows => ScanInv'
<1>. SUFFICES ASSUME ScanInv, Scanned!ReadRows PROVE ScanInv'
  OBVIOUS
<1>. DEFINE list == {<<f, filed[f].class>> : f \in {g \in Claims :
                       filed[g].source = "user"
                       /\ Scanned!Level(g, scan.read) \notin {"strong", "empty"}}}
<1>1. scan.phase = "pool" /\ scan' = [scan EXCEPT !.phase = "rows", !.rows = list]
      /\ UNCHANGED <<filed, lost, quiet, open, conv, deduped, chat, stated>>
  BY DEF Scanned!ReadRows, Scanned!chatVars
<1>2. list \subseteq Claims \X {"short", "core"}
  <2>1. ASSUME NEW f \in Claims, filed[f].source = "user" PROVE filed[f].class \in {"short", "core"}
    <3>1. filed[f] \in FiledRow
      BY DEF ScanInv, ScanTyped
    <3>. QED
      BY <2>1, <3>1 DEF FiledRow, Scanned!NoRow
  <2>. QED
    BY <2>1
<1>3. \A f \in Claims : filed[f].source = "user" => BornOut(f, scan.read) \/ <<f, filed[f].class>> \in list
  BY DEF BornOut
<1>. HIDE DEF list
<1>4. scan' \in ScanRecord /\ scan'.phase = "rows" /\ scan'.rows = list /\ scan'.read = scan.read
  BY <1>1, <1>2 DEF ScanInv, ScanTyped, ScanRecord
<1>5. ScanTyped'
  BY <1>1, <1>4 DEF ScanInv, ScanTyped
<1>6. ScanFollows'
  BY <1>1, <1>3, <1>4 DEF ScanInv, ScanFollows, Listed
<1>. QED
  BY <1>5, <1>6 DEF ScanInv

\* A row that was treated does not count as the user's words any more.
LEMMA RemedyTreats ==
    ASSUME ScanTyped, NEW f \in Claims, NEW class, filed' = Scanned!Remedy(f, class)
    PROVE  /\ filed' \in [Claims -> FiledRow] /\ filed'[f].source # "user"
           /\ \A g \in Claims \ {f} : filed'[g] = filed[g]
<1>. DEFINE r == [filed[f] EXCEPT !.source = "ai_edit"]
<1>1. filed \in [Claims -> FiledRow] /\ filed[f] \in FiledRow
  BY DEF ScanTyped
<1>2. Scanned!NoRow \in FiledRow /\ Scanned!NoRow.source # "user"
  BY DEF FiledRow, Scanned!NoRow
<1>3. filed[f] # Scanned!NoRow => r \in FiledRow /\ r.source = "ai_edit"
  BY <1>1 DEF FiledRow
<1>4. \/ filed' = filed /\ filed[f] = Scanned!NoRow
      \/ filed' = [filed EXCEPT ![f] = r] /\ filed[f] # Scanned!NoRow
      \/ filed' = [filed EXCEPT ![f] = Scanned!NoRow]
  BY DEF Scanned!Remedy
<1>. HIDE DEF r
<1>5. CASE filed' = filed /\ filed[f] = Scanned!NoRow
  BY <1>1, <1>2, <1>5
<1>6. CASE filed' = [filed EXCEPT ![f] = r] /\ filed[f] # Scanned!NoRow
  BY <1>1, <1>3, <1>6
<1>7. CASE filed' = [filed EXCEPT ![f] = Scanned!NoRow]
  BY <1>1, <1>2, <1>7
<1>. QED
  BY <1>4, <1>5, <1>6, <1>7

LEMMA ApplyScan ==
    ASSUME ScanInv, NEW r \in scan.rows, Scanned!Apply(r[1], r[2])
    PROVE  ScanInv'
<1>. DEFINE f == r[1]
            class == r[2]
<1>1. scan.phase = "rows" /\ filed' = Scanned!Remedy(f, class)
      /\ scan' = [scan EXCEPT !.rows = @ \ {<<f, class>>}]
      /\ lost' \subseteq lost \cup {f}
      /\ UNCHANGED <<quiet, open, conv, deduped, chat, stated>>
  BY DEF Scanned!Apply, Scanned!chatVars
<1>2. ScanTyped
  BY DEF ScanInv
<1>3. scan \in ScanRecord
  BY <1>2 DEF ScanTyped
<1>4. f \in Claims
  BY <1>3 DEF ScanRecord
<1>. HIDE DEF f, class
<1>5. /\ filed' \in [Claims -> FiledRow] /\ filed'[f].source # "user"
      /\ \A g \in Claims \ {f} : filed'[g] = filed[g]
  BY <1>1, <1>2, <1>4, RemedyTreats
<1>6. /\ scan' \in ScanRecord /\ scan'.phase = "rows" /\ scan'.read = scan.read
      /\ scan'.rows = scan.rows \ {<<f, class>>}
  BY <1>1, <1>3 DEF ScanRecord
<1>7. ScanTyped'
  BY <1>1, <1>2, <1>4, <1>5, <1>6 DEF ScanTyped
<1>8. ScanFollows'
  <2>. SUFFICES ASSUME quiet PROVE ScanFollows'
    BY <1>1 DEF ScanFollows
  <2>1. scan.read = conv \cup open /\ \A g \in Claims : Listed(g, filed, scan)
    BY <1>1 DEF ScanInv, ScanFollows
  <2>2. ASSUME NEW g \in Claims PROVE Listed(g, filed', scan')
    <3>1. CASE g = f
      BY <1>5, <3>1 DEF Listed
    <3>2. CASE g # f
      <4>1. filed'[g] = filed[g] /\ Listed(g, filed, scan)
        BY <1>5, <2>1, <3>2
      <4>2. <<g, filed[g].class>> # <<f, class>>
        BY <3>2
      <4>. QED
        BY <4>1, <4>2, <1>6 DEF Listed
    <3>. QED
      BY <3>1, <3>2
  <2>. QED
    BY <1>1, <1>6, <2>1, <2>2 DEF ScanFollows
<1>. QED
  BY <1>7, <1>8 DEF ScanInv

LEMMA ScanGoesOn == ScanInv /\ Scanned!Next => ScanInv'
<1>. SUFFICES ASSUME ScanInv, Scanned!Next PROVE ScanInv'
  OBVIOUS
<1>1. ASSUME NEW k \in Threads, NEW m \in Messages, Scanned!Say(k, m) PROVE ScanInv'
  BY <1>1, SayScan
<1>2. ASSUME NEW k \in Threads, NEW found, Scanned!Ingest(k, found) PROVE ScanInv'
  BY <1>2, IngestScan
<1>3. ASSUME NEW k \in Threads, Scanned!Trace(k) \/ Scanned!Record(k) PROVE ScanInv'
  BY <1>3, TraceScan, RecordScan
<1>4. CASE Scanned!WindowPasses
  <2>1. deduped' = {} /\ UNCHANGED <<filed, open, conv, chat, scan, stated, lost, quiet>>
    BY <1>4 DEF Scanned!WindowPasses
  <2>. QED
    BY <2>1 DEF ScanInv, ScanTyped, ScanFollows, Listed
<1>5. CASE Scanned!CloseOld
  <2>1. /\ open' \subseteq open /\ quiet' = FALSE
        /\ UNCHANGED <<filed, conv, deduped, chat, scan, stated, lost>>
    BY <1>5 DEF Scanned!CloseOld
  <2>. QED
    BY <2>1 DEF ScanInv, ScanTyped, ScanFollows
<1>6. CASE Scanned!ReadPool
  <2>1. /\ scan' = [phase |-> "pool", read |-> conv \cup open, told |-> stated, rows |-> {}]
        /\ quiet' = TRUE /\ UNCHANGED <<filed, lost, open, conv, deduped, chat, stated>>
    BY <1>6 DEF Scanned!ReadPool, Scanned!chatVars, Scanned!Pool
  <2>2. scan' \in ScanRecord /\ scan'.phase = "pool" /\ scan'.read = conv \cup open
    BY <2>1 DEF ScanRecord, ScanInv, ScanTyped
  <2>. QED
    BY <2>1, <2>2 DEF ScanInv, ScanTyped, ScanFollows
<1>7. CASE Scanned!ReadRows
  BY <1>7, ReadRowsScan
<1>8. CASE Scanned!ScanEnds
  <2>1. /\ scan.phase = "rows" /\ scan.rows = {} /\ scan' = Scanned!NoScan
        /\ UNCHANGED <<filed, lost, quiet, open, conv, deduped, chat, stated>>
    BY <1>8 DEF Scanned!ScanEnds, Scanned!chatVars
  <2>2. scan' \in ScanRecord /\ scan'.phase = "idle"
    BY <2>1 DEF ScanRecord, Scanned!NoScan
  <2>3. quiet => \A f \in Claims : filed[f].source = "user" => BornOut(f, conv \cup open)
    BY <2>1 DEF ScanInv, ScanFollows, Listed
  <2>. QED
    BY <2>1, <2>2, <2>3 DEF ScanInv, ScanTyped, ScanFollows
<1>9. ASSUME NEW r \in scan.rows, Scanned!Apply(r[1], r[2]) PROVE ScanInv'
  BY <1>9, ApplyScan
<1>. QED
  BY <1>1, <1>2, <1>3, <1>4, <1>5, <1>6, <1>7, <1>8, <1>9 DEF Scanned!Next

LEMMA ScanSame == ASSUME ScanInv, UNCHANGED scanVars PROVE ScanInv'
<1>1. UNCHANGED <<filed, open, conv, deduped, chat, scan, stated, lost, quiet>>
  BY DEF scanVars
<1>2. ScanTyped'
  BY <1>1 DEF ScanInv, ScanTyped
<1>3. ScanFollows'
  BY <1>1 DEF ScanInv, ScanFollows
<1>. QED
  BY <1>2, <1>3 DEF ScanInv

LEMMA ScanRight == ScanInv => Scanned!TypeOK /\ Scanned!ScanIsRepeatable
<1>. SUFFICES ASSUME ScanInv PROVE Scanned!TypeOK /\ Scanned!ScanIsRepeatable
  OBVIOUS
<1>1. scan.phase \in {"idle", "pool", "rows"} /\ scan.read \subseteq Messages
      /\ scan.rows \subseteq Claims \X {"short", "core"}
  BY DEF ScanInv, ScanTyped, ScanRecord
<1>2. ASSUME NEW k \in Threads PROVE chat[k].phase \in {"idle", "said", "traced", "learned"}
  BY DEF ScanInv, ScanTyped, Spoken
<1>3. Scanned!TypeOK
  BY <1>1, <1>2 DEF Scanned!TypeOK, ScanInv, ScanTyped, FiledRow
<1>4. Scanned!ScanIsRepeatable
  BY DEF Scanned!ScanIsRepeatable, Scanned!Pool, ScanInv, ScanFollows, BornOut
<1>. QED
  BY <1>3, <1>4

-----------------------------------------------------------------------------
(* What is derived from facts *)

Topics == {TopicOf[x] : x \in DOMAIN TopicOf}
EventRow == [id : Nat, fact : Facts \cup {""}, topic : Topics \cup {""}, worth : {"low", "some"}]
ParamRow == [topic : Topics, value : DOMAIN TopicOf, stale : BOOLEAN]
Stages == {"idle", "graph", "timeline", "topics", "orphans", "entities"}
IdsOf(es) == {es[t].id : t \in Known!Titles} \ {0}

KnowTyped ==
    /\ facts \subseteq Facts /\ wrong \subseteq Facts
    /\ event \in [Known!Titles -> EventRow] /\ lastId \in Nat
    /\ params \subseteq ParamRow
    /\ queue \in Seq(Facts) /\ reading \subseteq Facts
    /\ night = [phase |-> night.phase, todo |-> night.todo, at |-> night.at]
    /\ night.phase \in Stages /\ night.at \in Nat

\* A chat has no dossier, and only a chat has corrections.
OfItsKind == IF kind = "chat" THEN dossier = {} ELSE wrong = {}

\* The relations are between events there are, and so are those still to be made tonight.
Between(edges, es) == \A e \in edges : e[1] \in IdsOf(es) /\ e[2] \in IdsOf(es)
ToBeLinked(s, es) ==
    /\ s.phase = "graph" /\ s.at # 0 => s.at \in IdsOf(es)
    /\ s.phase = "timeline" => Between(s.todo, es)
RelationsKept ==
    kind = "chat" => /\ Between(follows, event) /\ Between(related, event)
                     /\ ToBeLinked(night, event)

\* A fact that was corrected is on its way to the topics, or none has it as fresh.
Queued == {queue[i] : i \in DOMAIN queue}
Settled(f, ps) == \A p \in ps : p.value = f => p.stale
CorrectionsKept ==
    \A f \in wrong : f \in Queued \/ f \in skipped \/ f \in revived \/ Settled(f, params)

KnowInv == KnowTyped /\ OfItsKind /\ RelationsKept /\ CorrectionsKept

LEMMA TopicsAre ==
    /\ \A f \in Facts : Title[f] \in Known!Titles /\ f \in DOMAIN TopicOf
    /\ \A t \in Known!Titles : t \in DOMAIN TopicOf
    /\ \A x \in DOMAIN TopicOf : TopicOf[x] \in Topics
    /\ Known!NoEvent \in EventRow /\ Known!NoEvent.id = 0
BY ConstantsAssumption
   DEF Known!KnowledgeAssumption, Known!Titles, Topics, Known!NoEvent, EventRow

LEMMA KnowStarts == Known!Init => KnowInv
<1>. SUFFICES ASSUME Known!Init PROVE KnowInv
  OBVIOUS
<1>1. /\ facts = {} /\ wrong = {} /\ event = [t \in Known!Titles |-> Known!NoEvent]
      /\ lastId = 0 /\ follows = {} /\ related = {} /\ params = {} /\ queue = <<>>
      /\ reading = {} /\ dossier = {} /\ night = [phase |-> "idle", todo |-> {}, at |-> 0]
  BY DEF Known!Init, Known!Awake
<1>2. event \in [Known!Titles -> EventRow]
  BY <1>1, TopicsAre
<1>3. night.phase = "idle" /\ night.at = 0 /\ night.todo = {}
  BY <1>1
<1>4. KnowTyped
  BY <1>1, <1>2, <1>3 DEF KnowTyped, Stages
<1>. QED
  BY <1>1, <1>3, <1>4
     DEF KnowInv, OfItsKind, RelationsKept, Between, ToBeLinked, CorrectionsKept

-----------------------------------------------------------------------------
(* Events and relations *)

LEMMA EventAdded ==
    ASSUME KnowTyped, NEW f \in Facts, NEW w \in {"low", "some"}, NEW es,
           es = Known!EventAdd(f, w)
    PROVE  /\ es \in [Known!Titles -> EventRow]
           /\ es[Title[f]].id = Known!IdOf(f) /\ Known!IdOf(f) \in Nat \ {0}
           /\ Known!IdOf(f) \in IdsOf(es) /\ IdsOf(event) \subseteq IdsOf(es)
<1>. DEFINE t == Title[f]
            i == Known!IdOf(f)
            r == [event[t] EXCEPT !.id = i, !.fact = f, !.worth = w]
<1>1. event \in [Known!Titles -> EventRow] /\ t \in Known!Titles /\ lastId \in Nat
  BY TopicsAre DEF KnowTyped
<1>2. event[t] \in EventRow
  BY <1>1
<1>3. es = [event EXCEPT ![t] = r]
  BY DEF Known!EventAdd
<1>4. event[t].id \in Nat /\ (event[t].id = 0 => i = lastId + 1) /\ (event[t].id # 0 => i = event[t].id)
  BY <1>2 DEF EventRow, Known!IdOf
<1>. HIDE DEF i
<1>5. i \in Nat \ {0}
  BY <1>1, <1>4
<1>6. r \in EventRow /\ r.id = i
  BY <1>2, <1>5 DEF EventRow
<1>. HIDE DEF r, t
<1>7. es \in [Known!Titles -> EventRow] /\ es[t] = r /\ \A u \in Known!Titles \ {t} : es[u] = event[u]
  BY <1>1, <1>3, <1>6
<1>8. i \in IdsOf(es)
  BY <1>1, <1>6, <1>7, <1>5 DEF IdsOf
<1>9. ASSUME NEW u \in Known!Titles, event[u].id # 0 PROVE event[u].id \in IdsOf(es)
  <2>1. es[u].id = event[u].id
    BY <1>6, <1>7, <1>9, <1>4
  <2>. QED
    BY <2>1, <1>9 DEF IdsOf
<1>10. IdsOf(event) \subseteq IdsOf(es)
  BY <1>9 DEF IdsOf
<1>. QED
  BY <1>6, <1>7, <1>8, <1>10, <1>5 DEF t, i

LEMMA RelatedBetween ==
    ASSUME NEW es, NEW t \in Known!Titles, es[t].id # 0, NEW new, new = Known!LinkToExisting(t, es)
    PROVE  \A e \in new : e \in related \/ (e[1] \in IdsOf(es) /\ e[2] \in IdsOf(es))
<1>1. \A e \in new : e \in related
          \/ \E u \in Known!Titles : es[u].id # 0 /\ e = <<es[t].id, es[u].id>>
  BY DEF Known!LinkToExisting
<1>. QED
  BY <1>1 DEF IdsOf

LEMMA FollowsBetween ==
    ASSUME NEW es, NEW id, NEW new, new = Known!LinkPrevious(id, es)
    PROVE  \A e \in new : e \in follows \/ (e[1] \in IdsOf(es) /\ e[2] = id)
BY DEF Known!LinkPrevious, IdsOf

\* When no event goes, what was between events is.
LEMMA StaysBetween ==
    ASSUME NEW es, IdsOf(event) \subseteq IdsOf(es)
    PROVE  /\ \A edges : Between(edges, event) => Between(edges, es)
           /\ ToBeLinked(night, event) => ToBeLinked(night, es)
BY DEF Between, ToBeLinked

\* A fact that is linked becomes fresh, and the others stay what they were.
LEMMA FactLinked ==
    ASSUME KnowTyped, NEW v \in DOMAIN TopicOf, params' = Known!LinkFact(v)
    PROVE  /\ params' \subseteq ParamRow
           /\ \A g : g # v /\ Settled(g, params) => Settled(g, params')
<1>1. [topic |-> TopicOf[v], value |-> v, stale |-> FALSE] \in ParamRow
  BY TopicsAre DEF ParamRow
<1>2. params' \subseteq params \cup {[topic |-> TopicOf[v], value |-> v, stale |-> FALSE]}
  BY DEF Known!LinkFact
<1>3. [topic |-> TopicOf[v], value |-> v, stale |-> FALSE].value = v
  OBVIOUS
<1>4. params' \subseteq ParamRow
  BY <1>1, <1>2 DEF KnowTyped
<1>5. ASSUME NEW g, g # v, Settled(g, params) PROVE Settled(g, params')
  BY <1>2, <1>3, <1>5 DEF Settled
<1>. QED
  BY <1>4, <1>5

-----------------------------------------------------------------------------
(* The steps *)

LEMMA LearnKnow ==
    ASSUME KnowInv, NEW f \in Facts, NEW w \in {"low", "some"}, Known!Learn(f, w)
    PROVE  KnowInv'
<1>. DEFINE es == Known!EventAdd(f, w)
            id == Known!IdOf(f)
<1>1. KnowTyped /\ Title[f] \in Known!Titles /\ f \in DOMAIN TopicOf
  BY TopicsAre DEF KnowInv
<1>2. /\ facts' = facts \cup {f} /\ wrong' = wrong \ {f} /\ kind = "chat"
      /\ event' = [es EXCEPT ![Title[f]].topic = TopicOf[f]]
      /\ related' = Known!LinkToExisting(Title[f], es)
      /\ follows' = Known!LinkPrevious(id, es)
      /\ lastId' = IF id > lastId THEN id ELSE lastId
      /\ params' = Known!LinkFact(f)
      /\ UNCHANGED <<kind, queue, reading, skipped, revived, night, dossier>>
  BY DEF Known!Learn, Known!queueVars
<1>3. /\ es \in [Known!Titles -> EventRow] /\ es[Title[f]].id = id /\ id \in Nat \ {0}
      /\ id \in IdsOf(es) /\ IdsOf(event) \subseteq IdsOf(es)
  BY <1>1, EventAdded
<1>. HIDE DEF es, id
<1>4. event' \in [Known!Titles -> EventRow] /\ IdsOf(event') = IdsOf(es)
  <2>. DEFINE r == [es[Title[f]] EXCEPT !.topic = TopicOf[f]]
  <2>1. es[Title[f]] \in EventRow /\ TopicOf[f] \in Topics
    BY <1>1, <1>3, TopicsAre
  <2>2. r \in EventRow /\ r.id = es[Title[f]].id
    BY <2>1 DEF EventRow
  <2>3. event' = [es EXCEPT ![Title[f]] = r]
    BY <1>2
  <2>. HIDE DEF r
  <2>4. event' \in [Known!Titles -> EventRow] /\ \A u \in Known!Titles : event'[u].id = es[u].id
    BY <1>1, <1>3, <2>2, <2>3
  <2>. QED
    BY <2>4 DEF IdsOf
<1>5. /\ \A e \in related' : e \in related \/ (e[1] \in IdsOf(es) /\ e[2] \in IdsOf(es))
  BY <1>1, <1>2, <1>3, RelatedBetween
<1>6. \A e \in follows' : e \in follows \/ (e[1] \in IdsOf(es) /\ e[2] = id)
  BY <1>2, FollowsBetween
<1>7. RelationsKept'
  <2>1. Between(follows, event) /\ Between(related, event) /\ ToBeLinked(night, event)
    BY <1>2 DEF KnowInv, RelationsKept
  <2>2. Between(follows, es) /\ Between(related, es) /\ ToBeLinked(night, es)
    BY <1>3, <2>1, StaysBetween
  <2>3. Between(follows', es) /\ Between(related', es)
    BY <1>3, <1>5, <1>6, <2>2 DEF Between
  <2>. QED
    BY <1>2, <1>4, <2>2, <2>3 DEF RelationsKept, Between, ToBeLinked
<1>8. params' \subseteq ParamRow /\ \A g : g # f /\ Settled(g, params) => Settled(g, params')
  BY <1>1, <1>2, FactLinked
<1>9. KnowTyped'
  BY <1>1, <1>2, <1>3, <1>4, <1>8 DEF KnowTyped
<1>10. CorrectionsKept'
  BY <1>2, <1>8 DEF KnowInv, CorrectionsKept, Queued
<1>. QED
  BY <1>2, <1>7, <1>9, <1>10 DEF KnowInv, OfItsKind

LEMMA CorrectKnow ==
    ASSUME KnowInv, NEW f \in Facts, Known!Correct(f)
    PROVE  KnowInv'
<1>1. /\ wrong' = wrong \cup {f} /\ queue' = Append(queue, f) /\ kind = "chat"
      /\ revived' = revived \ {f} /\ skipped' = skipped \ {f}
      /\ UNCHANGED <<kind, facts, event, lastId, follows, related, params, reading, night, dossier>>
  BY DEF Known!Correct, Known!graphVars
<1>2. queue \in Seq(Facts)
  BY DEF KnowInv, KnowTyped
<1>3. queue' \in Seq(Facts) /\ Len(queue') = Len(queue) + 1 /\ queue'[Len(queue) + 1] = f
      /\ Len(queue) \in Nat
      /\ \A i \in DOMAIN queue : i \in DOMAIN queue' /\ queue'[i] = queue[i]
      /\ DOMAIN queue' = 1..(Len(queue) + 1)
  BY <1>1, <1>2
<1>4. Len(queue) + 1 \in DOMAIN queue'
  BY <1>3
<1>5. Queued \cup {f} \subseteq Queued'
  BY <1>3, <1>4 DEF Queued
<1>6. CorrectionsKept'
  BY <1>1, <1>5 DEF KnowInv, CorrectionsKept, Settled
<1>7. KnowTyped'
  BY <1>1, <1>3 DEF KnowInv, KnowTyped
<1>8. RelationsKept'
  BY <1>1 DEF KnowInv, RelationsKept
<1>. QED
  BY <1>1, <1>6, <1>7, <1>8 DEF KnowInv, OfItsKind

\* Nothing changes but the facts, the rows being read, or the plan of the night.
LEMMA KnowStays ==
    ASSUME KnowInv, facts' \subseteq Facts, reading' \subseteq Facts,
           UNCHANGED <<kind, wrong, event, lastId, follows, related, params, queue, skipped,
                       revived>>,
           dossier' \subseteq dossier,
           night' = [phase |-> night'.phase, todo |-> night'.todo, at |-> night'.at],
           night'.phase \in Stages, night'.at \in Nat,
           kind = "chat" => ToBeLinked(night', event)
    PROVE  KnowInv'
<1>1. KnowTyped'
  BY DEF KnowInv, KnowTyped
<1>2. RelationsKept'
  BY DEF KnowInv, RelationsKept
<1>3. CorrectionsKept'
  BY DEF KnowInv, CorrectionsKept, Queued
<1>. QED
  BY <1>1, <1>2, <1>3 DEF KnowInv, OfItsKind

LEMMA InvalidationsAreFacts == KnowTyped => Known!InvalidationRows \subseteq Facts
<1>. SUFFICES ASSUME KnowTyped PROVE Known!InvalidationRows \subseteq Facts
  OBVIOUS
<1>1. \A i \in DOMAIN queue : queue[i] \in Facts
  BY DEF KnowTyped
<1>. QED
  BY <1>1 DEF Known!InvalidationRows, Known!SqliteInvalidationRows, Known!PgInvalidationRows,
              Known!FirstOf, Known!LastOf

LEMMA PlainKnow ==
    ASSUME KnowInv, \/ \E f \in Facts : Known!Forget(f)
                    \/ Known!ReconcileRead \/ Known!Crash
    PROVE  KnowInv'
<1>1. KnowTyped /\ (kind = "chat" => ToBeLinked(night, event))
  BY DEF KnowInv, RelationsKept
<1>2. /\ facts' \subseteq facts /\ dossier' \subseteq dossier /\ night' = night
      /\ UNCHANGED <<kind, wrong, event, lastId, follows, related, params, queue, skipped, revived>>
      /\ reading' = reading \/ reading' = Known!InvalidationRows
  BY DEF Known!Forget, Known!ReconcileRead, Known!Crash, Known!queueVars, Known!graphVars
<1>3. reading' \subseteq Facts
  BY <1>1, <1>2, InvalidationsAreFacts DEF KnowTyped
<1>. QED
  BY <1>1, <1>2, <1>3, KnowStays DEF KnowTyped

LEMMA ReconcileKnow == ASSUME KnowInv, Known!ReconcileClear PROVE KnowInv'
<1>. DEFINE r(p) == [p EXCEPT !.stale = p.stale \/ p.value \in reading]
<1>1. /\ params' = {r(p) : p \in params} /\ skipped' = skipped \cup (Queued \ reading)
      /\ queue' = <<>> /\ reading' = {}
      /\ UNCHANGED <<kind, facts, wrong, event, lastId, follows, related, revived, night, dossier>>
  BY DEF Known!ReconcileClear, Known!Reconciled, Known!Unread, Queued, Known!graphVars
<1>2. ASSUME NEW p \in params
      PROVE  /\ r(p) \in ParamRow /\ r(p).value = p.value
             /\ p.stale \/ p.value \in reading => r(p).stale
  <2>1. p \in ParamRow
    BY DEF KnowInv, KnowTyped
  <2>2. (p.stale \/ p.value \in reading) \in BOOLEAN
    BY <2>1 DEF ParamRow
  <2>. QED
    BY <2>1, <2>2 DEF ParamRow
<1>. HIDE DEF r
<1>3. params' \subseteq ParamRow
  BY <1>1, <1>2
<1>4. \A f : f \in reading \/ Settled(f, params) => Settled(f, params')
  BY <1>1, <1>2 DEF Settled
<1>5. CorrectionsKept'
  BY <1>1, <1>4 DEF KnowInv, CorrectionsKept
<1>6. KnowTyped'
  BY <1>1, <1>3 DEF KnowInv, KnowTyped
<1>7. RelationsKept'
  BY <1>1 DEF KnowInv, RelationsKept
<1>. QED
  BY <1>1, <1>5, <1>6, <1>7 DEF KnowInv, OfItsKind

LEMMA RebuildKnow == ASSUME KnowInv, NEW fs, Known!Rebuild(fs) PROVE KnowInv'
<1>1. /\ kind = "character" /\ facts' = {} /\ wrong' = {}
      /\ event' = [t \in Known!Titles |-> Known!NoEvent]
      /\ params' \subseteq params
      /\ UNCHANGED <<kind, lastId, queue, reading, skipped, revived, night>>
  BY DEF Known!Rebuild, Known!SqliteTopicClear, Known!PgTopicClear, Known!queueVars
<1>2. event' \in [Known!Titles -> EventRow]
  BY <1>1, TopicsAre
<1>3. KnowTyped'
  BY <1>1, <1>2 DEF KnowInv, KnowTyped
<1>. QED
  BY <1>1, <1>3 DEF KnowInv, OfItsKind, RelationsKept, CorrectionsKept

LEMMA AddFactKnow == ASSUME KnowInv, NEW f \in Facts, Known!AddFact(f) PROVE KnowInv'
<1>1. KnowTyped /\ f \in DOMAIN TopicOf
  BY TopicsAre DEF KnowInv
<1>2. /\ dossier # {} /\ facts' = facts \cup {f} /\ event' = Known!EventAdd(f, "some")
      /\ lastId' = IF Known!IdOf(f) > lastId THEN Known!IdOf(f) ELSE lastId
      /\ params' = Known!LinkFact(f)
      /\ UNCHANGED <<kind, wrong, queue, reading, skipped, revived, night>>
  BY DEF Known!AddFact, Known!queueVars
<1>3. kind # "chat" /\ wrong = {}
  BY <1>2 DEF KnowInv, OfItsKind
<1>4. event' \in [Known!Titles -> EventRow] /\ Known!IdOf(f) \in Nat
  BY <1>1, <1>2, EventAdded
<1>5. params' \subseteq ParamRow
  BY <1>1, <1>2, FactLinked
<1>6. KnowTyped'
  BY <1>1, <1>2, <1>4, <1>5 DEF KnowTyped
<1>. QED
  BY <1>2, <1>3, <1>6 DEF KnowInv, OfItsKind, RelationsKept, CorrectionsKept

-----------------------------------------------------------------------------
(* The night *)

LEMMA ChatSleeps ==
    Known!chatVars' = Known!chatVars
        => UNCHANGED <<kind, facts, wrong, queue, reading, skipped, dossier>>
BY DEF Known!chatVars, Known!queueVars

LEMMA BuildGraphKnow == ASSUME KnowInv, NEW f \in Facts, Known!BuildGraph(f) PROVE KnowInv'
<1>1. /\ KnowTyped /\ Title[f] \in Known!Titles
      /\ UNCHANGED <<kind, facts, wrong, queue, reading, skipped, dossier, follows, params, revived>>
      /\ night.phase = "graph" /\ night.at = 0
  BY TopicsAre, ChatSleeps DEF KnowInv, Known!BuildGraph, Known!Phase
<1>2. CASE Known!HasEvent(f)
  <2>1. night' = [night EXCEPT !.todo = @ \ {f}, !.at = 0] /\ UNCHANGED <<event, lastId, related>>
    BY <1>2 DEF Known!BuildGraph, Known!Done
  <2>2. night' = [phase |-> night.phase, todo |-> night.todo \ {f}, at |-> 0]
    BY <1>1, <2>1 DEF KnowTyped
  <2>3. night'.phase = "graph" /\ night'.at = 0
        /\ night' = [phase |-> night'.phase, todo |-> night'.todo, at |-> night'.at]
    BY <1>1, <2>2
  <2>. QED
    BY <1>1, <2>1, <2>3, KnowStays DEF KnowTyped, Stages, ToBeLinked
<1>3. CASE ~Known!HasEvent(f)
  <2>1. /\ event' = Known!EventAdd(f, "some") /\ lastId' = lastId + 1
        /\ related' = Known!LinkToExisting(Title[f], event')
        /\ night' = [phase |-> "graph", todo |-> night.todo \ {f}, at |-> lastId + 1]
    BY <1>3 DEF Known!BuildGraph
  <2>2. /\ event' \in [Known!Titles -> EventRow] /\ event'[Title[f]].id = Known!IdOf(f)
        /\ Known!IdOf(f) \in Nat \ {0} /\ Known!IdOf(f) \in IdsOf(event')
        /\ IdsOf(event) \subseteq IdsOf(event')
    BY <1>1, <2>1, EventAdded
  <2>3. Known!IdOf(f) = lastId + 1
    BY <1>1, <1>3 DEF Known!HasEvent, Known!Known, Known!IdOf
  <2>4. night'.phase = "graph" /\ night'.at = lastId + 1
        /\ night' = [phase |-> night'.phase, todo |-> night'.todo, at |-> night'.at]
    BY <2>1
  <2>5. \A e \in related' : e \in related \/ (e[1] \in IdsOf(event') /\ e[2] \in IdsOf(event'))
    BY <1>1, <2>1, <2>2, RelatedBetween
  <2>6. KnowTyped'
    BY <1>1, <2>1, <2>2, <2>4 DEF KnowTyped, Stages
  <2>7. RelationsKept'
    <3>. SUFFICES ASSUME kind = "chat" PROVE RelationsKept'
      BY <1>1 DEF RelationsKept
    <3>1. Between(follows, event') /\ Between(related, event')
      BY <2>2, StaysBetween DEF KnowInv, RelationsKept
    <3>. QED
      BY <1>1, <2>2, <2>3, <2>4, <2>5, <3>1 DEF RelationsKept, Between, ToBeLinked
  <2>. QED
    BY <1>1, <2>6, <2>7 DEF KnowInv, OfItsKind, CorrectionsKept, Queued
<1>. QED
  BY <1>2, <1>3

\* A relation that is made tonight is one between events.
LEMMA LinkKnow ==
    ASSUME KnowInv, Known!BuildLink \/ \E p \in night.todo : Known!LinkFollows(p)
    PROVE  KnowInv'
<1>1. /\ KnowTyped
      /\ UNCHANGED <<kind, facts, wrong, queue, reading, skipped, dossier, event, lastId, related,
                     params, revived>>
  BY ChatSleeps DEF KnowInv, Known!BuildLink, Known!LinkFollows
<1>2. /\ night' = [phase |-> night.phase, todo |-> night'.todo, at |-> 0]
      /\ night'.todo \subseteq night.todo
  <2>1. night = [phase |-> night.phase, todo |-> night.todo, at |-> night.at]
    BY <1>1 DEF KnowTyped
  <2>2. CASE Known!BuildLink
    <3>1. night' = [night EXCEPT !.at = 0]
      BY <2>2 DEF Known!BuildLink
    <3>2. night' = [phase |-> night.phase, todo |-> night.todo, at |-> 0]
      BY <2>1, <3>1
    <3>. QED
      BY <3>2
  <2>3. ASSUME NEW p \in night.todo, Known!LinkFollows(p)
        PROVE  /\ night' = [phase |-> night.phase, todo |-> night'.todo, at |-> 0]
               /\ night'.todo \subseteq night.todo
    <3>1. night' = [night EXCEPT !.todo = @ \ {p}, !.at = 0]
      BY <2>3 DEF Known!LinkFollows, Known!Done
    <3>2. night' = [phase |-> night.phase, todo |-> night.todo \ {p}, at |-> 0]
      BY <2>1, <3>1
    <3>. QED
      BY <3>2
  <2>. QED
    BY <2>2, <2>3
<1>3. night'.phase = night.phase /\ night'.at = 0
      /\ night' = [phase |-> night'.phase, todo |-> night'.todo, at |-> night'.at]
  BY <1>2
<1>4. kind = "chat" => Between(follows', event)
  <2>. SUFFICES ASSUME kind = "chat" PROVE Between(follows', event)
    OBVIOUS
  <2>1. Between(follows, event) /\ ToBeLinked(night, event)
    BY DEF KnowInv, RelationsKept
  <2>2. CASE Known!BuildLink
    <3>1. night.at \in IdsOf(event) /\ follows' = Known!LinkPrevious(night.at, event)
      BY <2>1, <2>2 DEF Known!BuildLink, ToBeLinked
    <3>2. \A e \in follows' : e \in follows \/ (e[1] \in IdsOf(event) /\ e[2] = night.at)
      BY <3>1, FollowsBetween
    <3>. QED
      BY <2>1, <3>1, <3>2 DEF Between
  <2>3. ASSUME NEW p \in night.todo, Known!LinkFollows(p) PROVE Between(follows', event)
    <3>1. night.phase = "timeline" /\ follows' \subseteq follows \cup {p}
      BY <2>3 DEF Known!LinkFollows, Known!Phase
    <3>. QED
      BY <2>1, <3>1 DEF ToBeLinked, Between
  <2>. QED
    BY <2>2, <2>3
<1>5. KnowTyped'
  BY <1>1, <1>3 DEF KnowTyped
<1>6. RelationsKept'
  <2>1. kind = "chat" => ToBeLinked(night', event)
    BY <1>2, <1>3 DEF KnowInv, RelationsKept, ToBeLinked, Between
  <2>. QED
    BY <1>1, <1>4, <2>1 DEF KnowInv, RelationsKept
<1>. QED
  BY <1>1, <1>5, <1>6 DEF KnowInv, OfItsKind, CorrectionsKept, Queued

LEMMA BuildTopicKnow == ASSUME KnowInv, NEW t \in Known!Titles, Known!BuildTopic(t) PROVE KnowInv'
<1>1. /\ KnowTyped /\ t \in DOMAIN TopicOf /\ params' = Known!LinkFact(t)
      /\ UNCHANGED <<kind, facts, wrong, queue, reading, skipped, dossier, lastId, follows, related>>
      /\ revived' = revived \cup ({t} \cap wrong)
      /\ night.phase = "topics" /\ night' = [night EXCEPT !.todo = @ \ {t}, !.at = 0]
      /\ event' = IF t \in Known!Known THEN [event EXCEPT ![t].topic = TopicOf[t]] ELSE event
  BY TopicsAre, ChatSleeps DEF KnowInv, Known!BuildTopic, Known!Phase, Known!Done
<1>2. event' \in [Known!Titles -> EventRow] /\ IdsOf(event') = IdsOf(event)
  <2>. DEFINE r == [event[t] EXCEPT !.topic = TopicOf[t]]
  <2>1. event \in [Known!Titles -> EventRow] /\ event[t] \in EventRow /\ TopicOf[t] \in Topics
    BY <1>1, TopicsAre DEF KnowTyped
  <2>2. r \in EventRow /\ r.id = event[t].id
    BY <2>1 DEF EventRow
  <2>3. event' = event \/ event' = [event EXCEPT ![t] = r]
    BY <1>1
  <2>. HIDE DEF r
  <2>4. event' \in [Known!Titles -> EventRow] /\ \A u \in Known!Titles : event'[u].id = event[u].id
    BY <2>1, <2>2, <2>3
  <2>. QED
    BY <2>4 DEF IdsOf
<1>3. params' \subseteq ParamRow /\ \A g : g # t /\ Settled(g, params) => Settled(g, params')
  BY <1>1, FactLinked
<1>4. night' = [phase |-> night.phase, todo |-> night.todo \ {t}, at |-> 0]
  BY <1>1 DEF KnowTyped
<1>5. night'.phase = "topics" /\ night'.at = 0
      /\ night' = [phase |-> night'.phase, todo |-> night'.todo, at |-> night'.at]
  BY <1>1, <1>4
<1>6. KnowTyped'
  BY <1>1, <1>2, <1>3, <1>5 DEF KnowTyped, Stages
<1>7. RelationsKept'
  BY <1>1, <1>2, <1>5 DEF KnowInv, RelationsKept, Between, ToBeLinked
<1>8. CorrectionsKept'
  BY <1>1, <1>3 DEF KnowInv, CorrectionsKept, Queued
<1>. QED
  BY <1>1, <1>6, <1>7, <1>8 DEF KnowInv, OfItsKind

LEMMA DeleteOrphanKnow == ASSUME KnowInv, Known!DeleteOrphan PROVE KnowInv'
<1>1. /\ KnowTyped /\ night.phase = "orphans" /\ night' = [night EXCEPT !.at = 0]
      /\ UNCHANGED <<kind, facts, wrong, queue, reading, skipped, dossier, lastId, params, revived>>
      /\ event' = [t \in Known!Titles |-> IF event[t].id = night.at THEN Known!NoEvent ELSE event[t]]
      /\ follows' = Known!Without(night.at, follows) /\ related' = Known!Without(night.at, related)
  BY ChatSleeps DEF KnowInv, Known!DeleteOrphan
<1>2. event' \in [Known!Titles -> EventRow]
  BY <1>1, TopicsAre DEF KnowTyped
<1>3. IdsOf(event) \ {night.at} \subseteq IdsOf(event')
  <2>1. ASSUME NEW t \in Known!Titles, event[t].id # 0, event[t].id # night.at
        PROVE  event[t].id \in IdsOf(event')
    <3>1. event'[t] = event[t]
      BY <1>1, <2>1
    <3>. QED
      BY <2>1, <3>1 DEF IdsOf
  <2>. QED
    BY <2>1 DEF IdsOf
<1>4. night' = [phase |-> night.phase, todo |-> night.todo, at |-> 0]
  BY <1>1 DEF KnowTyped
<1>5. night'.phase = "orphans" /\ night'.at = 0
      /\ night' = [phase |-> night'.phase, todo |-> night'.todo, at |-> night'.at]
  BY <1>1, <1>4
<1>6. KnowTyped'
  BY <1>1, <1>2, <1>5 DEF KnowTyped, Stages
<1>7. RelationsKept'
  <2>. SUFFICES ASSUME kind = "chat" PROVE RelationsKept'
    BY <1>1 DEF RelationsKept
  <2>1. Between(follows, event) /\ Between(related, event)
    BY DEF KnowInv, RelationsKept
  <2>2. Between(follows', event') /\ Between(related', event')
    BY <1>1, <1>3, <2>1 DEF Between, Known!Without
  <2>. QED
    BY <1>5, <2>2 DEF RelationsKept, ToBeLinked
<1>. QED
  BY <1>1, <1>6, <1>7 DEF KnowInv, OfItsKind, CorrectionsKept, Queued

LEMMA PairsOfIds ==
    ASSUME KnowTyped PROVE Known!Ids = IdsOf(event) /\ Between(Known!Consecutive, event)
<1>1. Known!Ids = IdsOf(event)
  BY DEF Known!Ids, Known!Known, IdsOf
<1>. QED
  BY <1>1 DEF Known!Consecutive, Between

\* The other steps of the night only turn to the next part of its plan.
LEMMA PlanKnow ==
    ASSUME KnowInv,
           \/ Known!NightBegins \/ Known!TimelineBegins \/ Known!TopicsBegin \/ Known!OrphansBegin
           \/ Known!EntitiesBegin \/ Known!NightEnds
           \/ \E t \in Known!Titles : Known!BuildEntity(t)
           \/ \E id \in 1..MaxIds : Known!CheckOrphan(id)
    PROVE  KnowInv'
<1>1. /\ KnowTyped
      /\ UNCHANGED <<kind, facts, wrong, queue, reading, skipped, dossier, event, lastId, follows,
                     related, params, revived>>
  BY ChatSleeps DEF KnowInv, Known!NightBegins, Known!TimelineBegins, Known!TopicsBegin,
     Known!OrphansBegin, Known!EntitiesBegin, Known!NightEnds, Known!BuildEntity,
     Known!CheckOrphan, Known!graphVars
<1>. DEFINE Turned == /\ night' = [phase |-> night'.phase, todo |-> night'.todo, at |-> night'.at]
                      /\ night'.phase \in Stages /\ night'.at \in Nat
                      /\ ToBeLinked(night', event)
<1>2. ASSUME NEW p \in Stages, NEW s, Known!To(p, s), p = "timeline" => Between(s, event)
      PROVE  Turned
  <2>1. night' = [phase |-> p, todo |-> s, at |-> 0]
    BY <1>2 DEF Known!To
  <2>. QED
    BY <1>2, <2>1 DEF ToBeLinked
<1>3. ASSUME NEW x, Known!Done(x), night.phase \in {"orphans", "entities"} PROVE Turned
  <2>1. night' = [night EXCEPT !.todo = @ \ {x}, !.at = 0]
    BY <1>3 DEF Known!Done
  <2>2. night' = [phase |-> night.phase, todo |-> night.todo \ {x}, at |-> 0]
    BY <1>1, <2>1 DEF KnowTyped
  <2>. QED
    BY <1>3, <2>2 DEF ToBeLinked, Stages
<1>4. ASSUME Known!NightBegins PROVE Turned
  BY <1>2, <1>4 DEF Known!NightBegins, Stages
<1>5. ASSUME Known!TimelineBegins PROVE Turned
  BY <1>1, <1>2, <1>5, PairsOfIds DEF Known!TimelineBegins, Stages
<1>6. ASSUME Known!TopicsBegin PROVE Turned
  BY <1>2, <1>6 DEF Known!TopicsBegin, Stages
<1>7. ASSUME Known!OrphansBegin PROVE Turned
  BY <1>2, <1>7 DEF Known!OrphansBegin, Stages
<1>8. ASSUME Known!EntitiesBegin PROVE Turned
  BY <1>2, <1>8 DEF Known!EntitiesBegin, Stages
<1>9. ASSUME Known!NightEnds PROVE Turned
  <2>1. night' = [phase |-> "idle", todo |-> {}, at |-> 0]
    BY <1>9 DEF Known!NightEnds, Known!Awake
  <2>. QED
    BY <2>1 DEF ToBeLinked, Stages
<1>10. ASSUME NEW t \in Known!Titles, Known!BuildEntity(t) PROVE Turned
  BY <1>3, <1>10 DEF Known!BuildEntity, Known!Phase
<1>11. ASSUME NEW id \in 1..MaxIds, Known!CheckOrphan(id) PROVE Turned
  <2>1. CASE Known!Done(id)
    BY <1>3, <1>11, <2>1 DEF Known!CheckOrphan, Known!Phase
  <2>2. CASE night' = [night EXCEPT !.todo = @ \ {id}, !.at = id]
    <3>1. night' = [phase |-> night.phase, todo |-> night.todo \ {id}, at |-> id]
      BY <1>1, <2>2 DEF KnowTyped
    <3>2. night.phase = "orphans"
      BY <1>11 DEF Known!CheckOrphan, Known!Phase
    <3>3. MaxIds \in Nat
      BY ConstantsAssumption DEF Known!KnowledgeAssumption
    <3>4. id \in Nat
      BY <3>3
    <3>. QED
      BY <3>1, <3>2, <3>4 DEF ToBeLinked, Stages
  <2>. QED
    BY <1>11, <2>1, <2>2 DEF Known!CheckOrphan
<1>12. Turned
  BY <1>4, <1>5, <1>6, <1>7, <1>8, <1>9, <1>10, <1>11
<1>. QED
  BY <1>1, <1>12, KnowStays DEF KnowTyped

LEMMA KnowGoesOn == KnowInv /\ Known!Next => KnowInv'
<1>. SUFFICES ASSUME KnowInv, Known!Next PROVE KnowInv'
  OBVIOUS
<1>1. ASSUME NEW f \in Facts, NEW w \in {"low", "some"}, Known!Learn(f, w) PROVE KnowInv'
  BY <1>1, LearnKnow
<1>2. ASSUME NEW f \in Facts,
             Known!Correct(f) \/ Known!Forget(f) \/ Known!AddFact(f) \/ Known!BuildGraph(f)
      PROVE  KnowInv'
  BY <1>2, CorrectKnow, PlainKnow, AddFactKnow, BuildGraphKnow
<1>3. CASE Known!ReconcileRead \/ Known!ReconcileClear \/ Known!Crash
  BY <1>3, PlainKnow, ReconcileKnow
<1>4. ASSUME NEW fs, Known!Rebuild(fs) PROVE KnowInv'
  BY <1>4, RebuildKnow
<1>5. CASE \/ Known!BuildLink \/ Known!DeleteOrphan \/ \E p \in night.todo : Known!LinkFollows(p)
  BY <1>5, LinkKnow, DeleteOrphanKnow
<1>6. ASSUME NEW t \in Known!Titles, Known!BuildTopic(t) PROVE KnowInv'
  BY <1>6, BuildTopicKnow
<1>7. CASE \/ Known!NightBegins \/ Known!TimelineBegins \/ Known!TopicsBegin \/ Known!OrphansBegin
           \/ Known!EntitiesBegin \/ Known!NightEnds
           \/ \E t \in Known!Titles : Known!BuildEntity(t)
           \/ \E id \in 1..MaxIds : Known!CheckOrphan(id)
  BY <1>7, PlanKnow
<1>. QED
  BY <1>1, <1>2, <1>3, <1>4, <1>5, <1>6, <1>7 DEF Known!Next

LEMMA KnowSame == ASSUME KnowInv, UNCHANGED knowledgeVars PROVE KnowInv'
<1>1. UNCHANGED <<kind, facts, wrong, event, lastId, follows, related, params, queue, reading,
                  skipped, revived, night, dossier>>
  BY DEF knowledgeVars
<1>2. KnowTyped /\ (kind = "chat" => ToBeLinked(night, event))
  BY DEF KnowInv, RelationsKept
<1>. QED
  BY <1>1, <1>2, KnowStays DEF KnowTyped

LEMMA KnowRight == KnowInv => Known!RelationsHold /\ Known!CorrectionsAccounted
<1>. SUFFICES ASSUME KnowInv PROVE Known!RelationsHold /\ Known!CorrectionsAccounted
  OBVIOUS
<1>1. Known!Ids = IdsOf(event)
  BY PairsOfIds DEF KnowInv
<1>2. Known!RelationsHold
  BY <1>1 DEF KnowInv, RelationsKept, Between, Known!RelationsHold
<1>. QED
  BY <1>2 DEF KnowInv, CorrectionsKept, Settled, Queued, Known!CorrectionsAccounted

-----------------------------------------------------------------------------
(* The calendar *)

LessThan == {ss \in Nat \X Nat : ss[1] < ss[2]}

LEMMA LeastOfThem ==
    ASSUME NEW S \in SUBSET Nat, S # {}
    PROVE  \E i \in S : \A j \in S : i <= j
<1>1. IsWellFoundedOn(LessThan, Nat)
  <2>1. OpToRel(<, Nat) = LessThan
    BY DEF OpToRel, LessThan
  <2>. QED
    BY <2>1, NatLessThanWellFounded
<1>2. PICK x \in S : \A y \in S : <<y, x>> \notin LessThan
  BY <1>1, WFMin, Zenon
<1>3. \A y \in Nat, z \in Nat : y < z => <<y, z>> \in LessThan
  BY DEF LessThan
<1>4. \A y \in S : ~(y < x)
  BY <1>2, <1>3
<1>5. \A y \in S : x <= y
  BY <1>2, <1>4
<1>. QED
  BY <1>2, <1>5

LEMMA CalendarIs ==
    /\ Len(First) \in Nat /\ Len(First) > 1 /\ First[1] = 0
    /\ \A m \in 1..Len(First) : First[m] \in Nat
    /\ Dated!Months = 1..(Len(First) - 1)
    /\ \A m \in Dated!Months : /\ First[m] \in Nat /\ First[m + 1] \in Nat
                               /\ Dated!LengthOf(m) \in 28..31
                               /\ First[m + 1] = First[m] + Dated!LengthOf(m)
    /\ FirstWeekday \in 0..6 /\ Numbers \subseteq 1..31
    /\ \A d \in Today : d \in First[2]..(First[Len(First) - 1] - 1)
<1>1. Dated!CalendarAssumption
  BY ConstantsAssumption
<1>2. First \in Seq(Nat) /\ Len(First) \in Nat
  BY <1>1 DEF Dated!CalendarAssumption
<1>3. \A m \in 1..Len(First) : First[m] \in Nat
  BY <1>2
<1>4. Dated!Months = 1..(Len(First) - 1)
  BY DEF Dated!Months
<1>5. ASSUME NEW m \in Dated!Months
      PROVE  /\ First[m] \in Nat /\ First[m + 1] \in Nat /\ Dated!LengthOf(m) \in 28..31
             /\ First[m + 1] = First[m] + Dated!LengthOf(m)
  <2>1. m \in 1..(Len(First) - 1) /\ m \in 1..Len(First) /\ m + 1 \in 1..Len(First)
    BY <1>2, <1>4
  <2>2. First[m] \in Nat /\ First[m + 1] \in Nat /\ First[m + 1] - First[m] \in 28..31
    BY <1>1, <1>3, <2>1 DEF Dated!CalendarAssumption
  <2>. QED
    BY <2>2 DEF Dated!LengthOf
<1>. QED
  BY <1>1, <1>2, <1>3, <1>4, <1>5 DEF Dated!CalendarAssumption

LEMMA MonthsGrow ==
    ASSUME NEW i \in 1..Len(First), NEW j \in 1..Len(First), i < j
    PROVE  First[i] < First[j]
<1>. DEFINE S == {k \in 1..Len(First) : i < k /\ First[k] <= First[i]}
<1>0. First[i] \in Nat /\ First[j] \in Nat
  BY CalendarIs
<1>. SUFFICES ASSUME S # {} PROVE FALSE
  BY <1>0
<1>1. S \subseteq Nat
  BY CalendarIs
<1>2. PICK k \in S : \A l \in S : k <= l
  BY <1>1, LeastOfThem
<1>3. k \in 1..Len(First) /\ i < k /\ First[k] <= First[i]
  BY <1>2
<1>4. k - 1 \in Dated!Months /\ k - 1 \in 1..Len(First) /\ i <= k - 1 /\ k - 1 < k
  BY <1>3, CalendarIs
<1>5. k - 1 \notin S
  BY <1>2, <1>4, CalendarIs
<1>6. First[i] <= First[k - 1]
  BY <1>4, <1>5, CalendarIs
<1>7. First[k] > First[k - 1]
  <2>. DEFINE l == k - 1
  <2>1. l \in Dated!Months /\ l + 1 = k
    BY <1>3, <1>4, CalendarIs
  <2>. HIDE DEF l
  <2>2. First[l + 1] = First[l] + Dated!LengthOf(l) /\ Dated!LengthOf(l) \in 28..31
        /\ First[l] \in Nat
    BY <2>1, CalendarIs
  <2>3. First[k] > First[l]
    BY <2>1, <2>2
  <2>. QED
    BY <2>3 DEF l
<1>. QED
  BY <1>3, <1>4, <1>6, <1>7, CalendarIs

\* A day is in one month, if it is in the calendar.
InMonth(d, m) == First[m] <= d /\ d < First[m + 1]

LEMMA MonthIs ==
    ASSUME NEW m \in Dated!Months, NEW d \in Int, InMonth(d, m)
    PROVE  Dated!MonthOf(d) = m
<1>1. ASSUME NEW n \in Dated!Months, InMonth(d, n) PROVE n = m
  <2>1. /\ m \in 1..Len(First) /\ m + 1 \in 1..Len(First) /\ n \in 1..Len(First)
        /\ n + 1 \in 1..Len(First)
    BY CalendarIs
  <2>2. CASE n < m
    <3>1. First[n + 1] <= First[m]
      BY <2>1, <2>2, MonthsGrow, CalendarIs
    <3>. QED
      BY <1>1, <2>1, <3>1, CalendarIs DEF InMonth
  <2>3. CASE m < n
    <3>1. First[m + 1] <= First[n]
      BY <2>1, <2>3, MonthsGrow, CalendarIs
    <3>. QED
      BY <1>1, <2>1, <3>1, CalendarIs DEF InMonth
  <2>. QED
    BY <2>1, <2>2, <2>3
<1>. QED
  BY <1>1 DEF Dated!MonthOf, InMonth

LEMMA MonthExists ==
    ASSUME NEW d \in 0..Dated!Horizon
    PROVE  Dated!MonthOf(d) \in Dated!Months /\ InMonth(d, Dated!MonthOf(d))
<1>. DEFINE S == {k \in 1..Len(First) : d < First[k]}
<1>1. d \in Nat /\ d < First[Len(First)]
  BY CalendarIs DEF Dated!Horizon
<1>2. S \subseteq Nat /\ Len(First) \in S
  BY <1>1, CalendarIs
<1>3. PICK k \in S : \A l \in S : k <= l
  BY <1>2, LeastOfThem
<1>4. k \in 1..Len(First) /\ d < First[k] /\ k # 1
  BY <1>1, <1>3, CalendarIs
<1>5. k - 1 \in Dated!Months /\ k - 1 \in 1..Len(First) /\ k - 1 \notin S /\ (k - 1) + 1 = k
  BY <1>3, <1>4, CalendarIs
<1>6. InMonth(d, k - 1)
  BY <1>1, <1>4, <1>5, CalendarIs DEF InMonth
<1>. QED
  BY <1>1, <1>5, <1>6, MonthIs

\* The months around a day something is said on.
LEMMA AroundToday ==
    ASSUME NEW d \in Today
    PROVE  /\ d \in 0..Dated!Horizon /\ d + 20 <= Dated!Horizon
           /\ Dated!MonthOf(d) \in Dated!Months /\ InMonth(d, Dated!MonthOf(d))
           /\ Dated!MonthOf(d) - 1 \in Dated!Months /\ Dated!MonthOf(d) + 1 \in Dated!Months
<1>. DEFINE m == Dated!MonthOf(d)
            last == Len(First) - 1
<1>1. d \in First[2]..(First[last] - 1) /\ last \in Nat /\ Len(First) \in Nat
  BY CalendarIs
<1>2. last \in Dated!Months /\ last + 1 = Len(First) /\ First[last] \in Nat
      /\ First[Len(First)] >= First[last] + 28 /\ First[Len(First)] \in Nat
  <2>1. last \in Dated!Months /\ last + 1 = Len(First)
    BY <1>1, CalendarIs
  <2>. HIDE DEF last
  <2>2. First[last + 1] = First[last] + Dated!LengthOf(last) /\ Dated!LengthOf(last) \in 28..31
        /\ First[last] \in Nat
    BY <2>1, CalendarIs
  <2>. QED
    BY <2>1, <2>2
<1>3. 2 \in 1..Len(First) /\ First[2] \in Nat
  <2>1. Len(First) \in Nat /\ Len(First) > 1
    BY CalendarIs
  <2>2. 2 \in 1..Len(First)
    BY <2>1
  <2>. QED
    BY <2>2, CalendarIs
<1>4. d \in 0..Dated!Horizon /\ d + 20 <= Dated!Horizon
  BY <1>1, <1>2, <1>3 DEF Dated!Horizon
<1>5. m \in Dated!Months /\ InMonth(d, m)
  BY <1>4, MonthExists
<1>. HIDE DEF m
<1>6. m # 1
  BY <1>1, <1>3, <1>5 DEF InMonth
<1>7. m # last
  BY <1>1, <1>2, <1>5 DEF InMonth
<1>8. m - 1 \in Dated!Months /\ m + 1 \in Dated!Months
  BY <1>5, <1>6, <1>7, CalendarIs
<1>. QED
  BY <1>4, <1>5, <1>8 DEF m

-----------------------------------------------------------------------------
(* Weeks *)

LEMMA WeekIs ==
    ASSUME NEW x \in Int
    PROVE  /\ Dated!Weekday(x) \in 0..6 /\ Dated!WeekOf(x) \in Int
           /\ x + FirstWeekday = 7 * Dated!WeekOf(x) + Dated!Weekday(x)
<1>1. FirstWeekday \in 0..6
  BY CalendarIs
<1>. QED
  BY <1>1 DEF Dated!Weekday, Dated!WeekOf

\* A week has seven days, from its monday on.
LEMMA WeekAfter ==
    ASSUME NEW d \in Int, NEW x \in Int
    PROVE  /\ Dated!Monday(d) \in Int /\ Dated!Monday(d) <= d /\ d <= Dated!Monday(d) + 6
           /\ Dated!WeekOf(x) + 1 = Dated!WeekOf(d)
                  <=> Dated!Monday(d) - 7 <= x /\ x < Dated!Monday(d)
           /\ Dated!WeekOf(x) = Dated!WeekOf(d)
                  <=> Dated!Monday(d) <= x /\ x < Dated!Monday(d) + 7
           /\ Dated!WeekOf(x) = Dated!WeekOf(d) + 1
                  <=> Dated!Monday(d) + 7 <= x /\ x < Dated!Monday(d) + 14
           /\ Dated!WeekOf(x) = Dated!WeekOf(d) + 2
                  <=> Dated!Monday(d) + 14 <= x /\ x < Dated!Monday(d) + 21
           /\ \A k \in {-7, 0, 7, 14} :
                  Dated!Monday(d) + k <= x /\ x < Dated!Monday(d) + k + 7
                      => Dated!Weekday(x) = x - (Dated!Monday(d) + k)
<1>1. FirstWeekday \in 0..6
  BY CalendarIs
<1>2. /\ Dated!Weekday(x) \in 0..6 /\ Dated!WeekOf(x) \in Int
      /\ x + FirstWeekday = 7 * Dated!WeekOf(x) + Dated!Weekday(x)
  BY WeekIs
<1>3. /\ Dated!Weekday(d) \in 0..6 /\ Dated!WeekOf(d) \in Int
      /\ d + FirstWeekday = 7 * Dated!WeekOf(d) + Dated!Weekday(d)
  BY WeekIs
<1>. DEFINE a == Dated!WeekOf(x)
            b == Dated!WeekOf(d)
            v == Dated!Weekday(x)
            f == Dated!Monday(d)
<1>4. a \in Int /\ b \in Int /\ v \in 0..6 /\ f \in Int /\ f <= d /\ d <= f + 6
      /\ f = 7 * b - FirstWeekday /\ x = 7 * a + v - FirstWeekday
  BY <1>1, <1>2, <1>3 DEF Dated!Monday
<1>. HIDE DEF a, b, v, f
<1>5. a + 1 = b <=> f - 7 <= x /\ x < f
  BY <1>1, <1>4
<1>6. a = b <=> f <= x /\ x < f + 7
  BY <1>1, <1>4
<1>7. a = b + 1 <=> f + 7 <= x /\ x < f + 14
  BY <1>1, <1>4
<1>8. a = b + 2 <=> f + 14 <= x /\ x < f + 21
  BY <1>1, <1>4
<1>9. ASSUME NEW k \in {-7, 0, 7, 14}, f + k <= x, x < f + k + 7 PROVE v = x - (f + k)
  BY <1>1, <1>4, <1>9
<1>. QED
  BY <1>4, <1>5, <1>6, <1>7, <1>8, <1>9 DEF a, b, v, f

-----------------------------------------------------------------------------
(* The months around a day *)

\* The month of a day, the one before and the one after.
Around(d, m) ==
    /\ m \in Nat /\ m \in Dated!Months /\ m - 1 \in Dated!Months /\ m + 1 \in Dated!Months
    /\ (m - 1) + 1 = m /\ (m + 1) + 1 = m + 2
    /\ First[m - 1] \in Nat /\ First[m] \in Nat /\ First[m + 1] \in Nat /\ First[m + 2] \in Nat
    /\ First[m] = First[m - 1] + Dated!LengthOf(m - 1) /\ Dated!LengthOf(m - 1) \in 28..31
    /\ First[m + 1] = First[m] + Dated!LengthOf(m) /\ Dated!LengthOf(m) \in 28..31
    /\ First[m + 2] = First[m + 1] + Dated!LengthOf(m + 1) /\ Dated!LengthOf(m + 1) \in 28..31
    /\ First[m] <= d /\ d < First[m + 1] /\ First[m + 2] <= Dated!Horizon + 1

LEMMA MonthsAround == ASSUME NEW d \in Today PROVE Around(d, Dated!MonthOf(d))
<1>1. PICK m \in Dated!Months : m = Dated!MonthOf(d)
  BY AroundToday
<1>2. /\ InMonth(d, m) /\ m - 1 \in Dated!Months /\ m + 1 \in Dated!Months
  BY <1>1, AroundToday
<1>3. m \in Nat /\ Len(First) \in Nat /\ m - 1 >= 1 /\ m + 2 <= Len(First)
  BY <1>2, CalendarIs
<1>4. (m - 1) + 1 = m /\ (m + 1) + 1 = m + 2
  BY <1>3
<1>5. /\ First[m - 1] \in Nat /\ First[m] \in Nat /\ First[m + 1] \in Nat /\ First[m + 2] \in Nat
      /\ First[m] = First[m - 1] + Dated!LengthOf(m - 1) /\ Dated!LengthOf(m - 1) \in 28..31
      /\ First[m + 1] = First[m] + Dated!LengthOf(m) /\ Dated!LengthOf(m) \in 28..31
      /\ First[m + 2] = First[m + 1] + Dated!LengthOf(m + 1) /\ Dated!LengthOf(m + 1) \in 28..31
  BY <1>2, <1>4, CalendarIs
<1>6. First[m + 2] <= First[Len(First)] /\ First[Len(First)] \in Nat
  <2>1. m + 2 \in 1..Len(First) /\ Len(First) \in 1..Len(First)
    BY <1>3
  <2>2. m + 2 < Len(First) => First[m + 2] < First[Len(First)]
    BY <2>1, MonthsGrow
  <2>3. First[Len(First)] \in Nat
    BY <2>1, CalendarIs
  <2>4. CASE m + 2 = Len(First)
    BY <2>3, <2>4
  <2>5. CASE m + 2 < Len(First)
    BY <1>5, <2>2, <2>3, <2>5
  <2>. QED
    BY <1>3, <2>4, <2>5, <2>3
<1>7. First[m] <= d /\ d < First[m + 1]
  BY <1>2 DEF InMonth
<1>8. First[m + 2] <= Dated!Horizon + 1
  BY <1>6 DEF Dated!Horizon
<1>. QED
  BY <1>1, <1>2, <1>3, <1>4, <1>5, <1>7, <1>8 DEF Around

\* Which of the months around it a day is in.
LEMMA MonthOfDay ==
    ASSUME NEW x \in 0..Dated!Horizon, NEW m \in Dated!Months
    PROVE  Dated!MonthOf(x) = m <=> First[m] <= x /\ x < First[m + 1]
<1>1. x \in Int
  OBVIOUS
<1>. QED
  BY <1>1, MonthIs, MonthExists DEF InMonth

-----------------------------------------------------------------------------
(* What a phrase means *)

LEMMA TodayIs ==
    ASSUME NEW d \in Today
    PROVE  d \in Nat /\ Dated!Horizon \in Nat /\ d >= 28 /\ d + 20 <= Dated!Horizon
<1>1. d \in 0..Dated!Horizon /\ d + 20 <= Dated!Horizon /\ Around(d, Dated!MonthOf(d))
  BY AroundToday, MonthsAround
<1>2. Len(First) \in Nat /\ Len(First) > 1
  BY CalendarIs
<1>3. Len(First) \in 1..Len(First)
  BY <1>2
<1>4. First[Len(First)] \in Nat
  BY <1>3, CalendarIs
<1>5. Dated!Horizon \in Int
  BY <1>4 DEF Dated!Horizon
<1>6. d >= 28
  BY <1>1, <1>5 DEF Around
<1>. QED
  BY <1>1, <1>5, <1>6

\* The range of a phrase is what it means.
Says(r, what, n, d) ==
    r[1] \in Int /\ r[2] \in Int /\ r[1]..(r[2] - 1) = Dated!Meant(what, n, d)

LEMMA SaysIf ==
    ASSUME NEW what, NEW n, NEW d, NEW a \in Int, NEW b \in Int, Dated!Horizon \in Int,
           \A x \in Int : x \in Dated!Meant(what, n, d) <=> a <= x /\ x < b
    PROVE  Says(<<a, b>>, what, n, d)
<1>. DEFINE S == Dated!Meant(what, n, d)
<1>1. \A x \in S : x \in Int
  <2>1. \A x \in S : x \in 0..Dated!Horizon
    BY Zenon DEF Dated!Meant
  <2>. QED
    BY <2>1
<1>. HIDE DEF S
<1>2. \A x : x \in a..(b - 1) <=> x \in S
  BY <1>1 DEF S
<1>3. a..(b - 1) = S
  BY <1>2
<1>. QED
  BY <1>3 DEF Says, S

LEMMA DayPhrases ==
    ASSUME NEW d \in Today, NEW n,
           NEW what \in {"today", "yesterday", "day_before", "some_days_ago"}
    PROVE  Says(Dated!DaysOf(what, n, d), what, n, d)
<1>. DEFINE H == Dated!Horizon
<1>1. d \in Nat /\ H \in Nat /\ d >= 28 /\ d + 20 <= H
  BY TodayIs
<1>2. CASE what = "today"
  <2>1. Dated!DaysOf("today", n, d) = <<d, d + 1>>
    BY DEF Dated!DaysOf, Dated!DayRange
  <2>2. ASSUME NEW x \in Int
        PROVE  x \in Dated!Meant("today", n, d) <=> (d) <= x /\ x < (d + 1)
    <3>1. x \in Dated!Meant("today", n, d) <=> x \in 0..H /\ x = d
      BY DEF Dated!Meant
    <3>. QED
      BY <3>1, <1>1
  <2>3. Says(<<d, d + 1>>, "today", n, d)
    BY <1>1, <2>2, SaysIf
  <2>. QED
    BY <1>2, <2>1, <2>3
<1>3. CASE what = "yesterday"
  <2>1. Dated!DaysOf("yesterday", n, d) = <<d - 1, d - 1 + 1>>
    BY DEF Dated!DaysOf, Dated!DayRange
  <2>2. ASSUME NEW x \in Int
        PROVE  x \in Dated!Meant("yesterday", n, d) <=> (d - 1) <= x /\ x < (d - 1 + 1)
    <3>1. x \in Dated!Meant("yesterday", n, d) <=> x \in 0..H /\ x = d - 1
      BY DEF Dated!Meant
    <3>. QED
      BY <3>1, <1>1
  <2>3. Says(<<d - 1, d - 1 + 1>>, "yesterday", n, d)
    BY <1>1, <2>2, SaysIf
  <2>. QED
    BY <1>3, <2>1, <2>3
<1>4. CASE what = "day_before"
  <2>1. Dated!DaysOf("day_before", n, d) = <<d - 2, d - 2 + 1>>
    BY DEF Dated!DaysOf, Dated!DayRange
  <2>2. ASSUME NEW x \in Int
        PROVE  x \in Dated!Meant("day_before", n, d) <=> (d - 2) <= x /\ x < (d - 2 + 1)
    <3>1. x \in Dated!Meant("day_before", n, d) <=> x \in 0..H /\ x = d - 2
      BY DEF Dated!Meant
    <3>. QED
      BY <3>1, <1>1
  <2>3. Says(<<d - 2, d - 2 + 1>>, "day_before", n, d)
    BY <1>1, <2>2, SaysIf
  <2>. QED
    BY <1>4, <2>1, <2>3
<1>5. CASE what = "some_days_ago"
  <2>1. Dated!DaysOf("some_days_ago", n, d) = <<d - 7, d>>
    BY DEF Dated!DaysOf
  <2>2. ASSUME NEW x \in Int
        PROVE  x \in Dated!Meant("some_days_ago", n, d) <=> (d - 7) <= x /\ x < (d)
    <3>1. x \in Dated!Meant("some_days_ago", n, d) <=> x \in 0..H /\ x \in (d - 7)..(d - 1)
      BY DEF Dated!Meant
    <3>. QED
      BY <3>1, <1>1
  <2>3. Says(<<d - 7, d>>, "some_days_ago", n, d)
    BY <1>1, <2>2, SaysIf
  <2>. QED
    BY <1>5, <2>1, <2>3
<1>. QED
  BY <1>2, <1>3, <1>4, <1>5

LEMMA WeekPhrases ==
    ASSUME NEW d \in Today, NEW n \in -1..6,
           NEW what \in {"last_week", "next_week", "week_after_next"}
    PROVE  Says(Dated!DaysOf(what, n, d), what, n, d)
<1>. DEFINE H == Dated!Horizon
            f == Dated!Monday(d)
            InWeek(x, k) == f + k <= x /\ x < f + k + 7
            Named(x) == n \in {-1, Dated!Weekday(x)}
<1>1. d \in Nat /\ d \in Int /\ H \in Nat /\ d >= 28 /\ d + 20 <= H /\ f \in Int /\ f <= d /\ d <= f + 6
  BY TodayIs, WeekAfter
<1>2. ASSUME NEW k \in {-7, 7, 14},
             \A x \in Int : x \in Dated!Meant(what, n, d) <=> x \in 0..H /\ InWeek(x, k) /\ Named(x)
      PROVE  Says(Dated!WeekRange(d, k, n), what, n, d)
  <2>. DEFINE g == f + k
  <2>1. g \in Int /\ g >= 0 /\ g + 6 <= H
    BY <1>1
  <2>2. ASSUME NEW x \in Int, g <= x, x < g + 7 PROVE Dated!Weekday(x) = x - g
    <3>1. \A j \in {-7, 0, 7, 14} :
              f + j <= x /\ x < f + j + 7 => Dated!Weekday(x) = x - (f + j)
      BY <1>1, WeekAfter
    <3>2. k \in {-7, 0, 7, 14}
      OBVIOUS
    <3>. QED
      BY <2>2, <3>1, <3>2
  <2>3. \A x \in Int : x \in Dated!Meant(what, n, d) <=> g <= x /\ x < g + 7 /\ Named(x)
    BY <1>1, <1>2, <2>1
  <2>4. CASE n = -1
    <3>1. Dated!WeekRange(d, k, n) = <<g, g + 7>>
      BY <2>4 DEF Dated!WeekRange
    <3>2. \A x \in Int : x \in Dated!Meant(what, n, d) <=> g <= x /\ x < g + 7
      BY <2>3, <2>4
    <3>. HIDE DEF g
    <3>3. Says(<<g, g + 7>>, what, n, d)
      BY <1>1, <2>1, <3>2, SaysIf
    <3>. QED
      BY <3>1, <3>3
  <2>5. CASE n # -1
    <3>1. Dated!WeekRange(d, k, n) = <<g + n, g + n + 1>> /\ n \in 0..6
      BY <2>5 DEF Dated!WeekRange, Dated!DayRange
    <3>. HIDE DEF g
    <3>2. ASSUME NEW x \in Int PROVE x \in Dated!Meant(what, n, d) <=> g + n <= x /\ x < g + n + 1
      BY <2>1, <2>2, <2>3, <3>1
    <3>3. Says(<<g + n, g + n + 1>>, what, n, d)
      BY <1>1, <2>1, <3>1, <3>2, SaysIf
    <3>. QED
      BY <3>1, <3>3
  <2>. QED
    BY <2>4, <2>5
<1>3. ASSUME NEW x \in Int
      PROVE  /\ Dated!WeekOf(x) + 1 = Dated!WeekOf(d) <=> InWeek(x, -7)
             /\ Dated!WeekOf(x) = Dated!WeekOf(d) + 1 <=> InWeek(x, 7)
             /\ Dated!WeekOf(x) = Dated!WeekOf(d) + 2 <=> InWeek(x, 14)
  <2>1. /\ Dated!WeekOf(x) + 1 = Dated!WeekOf(d) <=> f - 7 <= x /\ x < f
        /\ Dated!WeekOf(x) = Dated!WeekOf(d) + 1 <=> f + 7 <= x /\ x < f + 14
        /\ Dated!WeekOf(x) = Dated!WeekOf(d) + 2 <=> f + 14 <= x /\ x < f + 21
    BY <1>1, WeekAfter
  <2>. HIDE DEF f
  <2>. QED
    BY <1>1, <2>1
<1>4. CASE what = "last_week"
  <2>1. Dated!DaysOf("last_week", n, d) = Dated!WeekRange(d, -7, n)
    BY DEF Dated!DaysOf
  <2>2. \A x \in Int : x \in Dated!Meant("last_week", n, d) <=> x \in 0..H /\ Dated!WeekOf(x) + 1 = Dated!WeekOf(d) /\ Named(x)
    BY DEF Dated!Meant
  <2>3. \A x \in Int : x \in Dated!Meant(what, n, d) <=> x \in 0..H /\ InWeek(x, -7) /\ Named(x)
    BY <1>3, <1>4, <2>2
  <2>. QED
    BY <1>2, <1>4, <2>1, <2>3
<1>5. CASE what = "next_week"
  <2>1. Dated!DaysOf("next_week", n, d) = Dated!WeekRange(d, 7, n)
    BY DEF Dated!DaysOf
  <2>2. \A x \in Int : x \in Dated!Meant("next_week", n, d) <=> x \in 0..H /\ Dated!WeekOf(x) = Dated!WeekOf(d) + 1 /\ Named(x)
    BY DEF Dated!Meant
  <2>3. \A x \in Int : x \in Dated!Meant(what, n, d) <=> x \in 0..H /\ InWeek(x, 7) /\ Named(x)
    BY <1>3, <1>5, <2>2
  <2>. QED
    BY <1>2, <1>5, <2>1, <2>3
<1>6. CASE what = "week_after_next"
  <2>1. Dated!DaysOf("week_after_next", n, d) = Dated!WeekRange(d, 14, n)
    BY DEF Dated!DaysOf
  <2>2. \A x \in Int : x \in Dated!Meant("week_after_next", n, d) <=> x \in 0..H /\ Dated!WeekOf(x) = Dated!WeekOf(d) + 2 /\ Named(x)
    BY DEF Dated!Meant
  <2>3. \A x \in Int : x \in Dated!Meant(what, n, d) <=> x \in 0..H /\ InWeek(x, 14) /\ Named(x)
    BY <1>3, <1>6, <2>2
  <2>. QED
    BY <1>2, <1>6, <2>1, <2>3
<1>. QED
  BY <1>4, <1>5, <1>6

LEMMA WeekendPhrases ==
    ASSUME NEW d \in Today, NEW n, NEW what \in {"this_week", "weekend", "next_weekend"}
    PROVE  Says(Dated!DaysOf(what, n, d), what, n, d)
<1>. DEFINE H == Dated!Horizon
            f == Dated!Monday(d)
<1>1. d \in Nat /\ d \in Int /\ H \in Nat /\ d >= 28 /\ d + 20 <= H /\ f \in Int /\ f <= d /\ d <= f + 6
  BY TodayIs, WeekAfter
<1>2. ASSUME NEW x \in Int
      PROVE  /\ Dated!WeekOf(x) = Dated!WeekOf(d) <=> f <= x /\ x < f + 7
             /\ f <= x /\ x < f + 7 => Dated!Weekday(x) = x - f
             /\ Dated!WeekOf(x) = Dated!WeekOf(d) + 1 <=> f + 7 <= x /\ x < f + 14
             /\ f + 7 <= x /\ x < f + 14 => Dated!Weekday(x) = x - (f + 7)
  <2>1. \A k \in {-7, 0, 7, 14} : f + k <= x /\ x < f + k + 7 => Dated!Weekday(x) = x - (f + k)
    BY <1>1, WeekAfter
  <2>2. /\ Dated!WeekOf(x) = Dated!WeekOf(d) <=> f <= x /\ x < f + 7
        /\ Dated!WeekOf(x) = Dated!WeekOf(d) + 1 <=> f + 7 <= x /\ x < f + 14
    BY <1>1, WeekAfter
  <2>. HIDE DEF f
  <2>3. f <= x /\ x < f + 7 => Dated!Weekday(x) = x - f
    BY <1>1, <2>1
  <2>4. f + 7 <= x /\ x < f + 14 => Dated!Weekday(x) = x - (f + 7)
    BY <1>1, <2>1
  <2>. QED
    BY <2>2, <2>3, <2>4
<1>3. Dated!WeekRange(d, 0, -1) = <<f, f + 7>>
  BY <1>1 DEF Dated!WeekRange
<1>4. CASE what = "this_week"
  <2>1. Dated!DaysOf("this_week", n, d) = <<f, f + 7>>
    BY <1>3 DEF Dated!DaysOf
  <2>2. ASSUME NEW x \in Int
        PROVE  x \in Dated!Meant("this_week", n, d) <=> (f) <= x /\ x < (f + 7)
    <3>1. x \in Dated!Meant("this_week", n, d) <=> x \in 0..H /\ Dated!WeekOf(x) = Dated!WeekOf(d)
      BY DEF Dated!Meant
    <3>. QED
      BY <3>1, <1>1, <1>2
  <2>3. Says(<<f, f + 7>>, "this_week", n, d)
    BY <1>1, <2>2, SaysIf
  <2>. QED
    BY <1>4, <2>1, <2>3
<1>5. CASE what = "weekend"
  <2>1. Dated!DaysOf("weekend", n, d) = <<f + 5, f + 7>>
    BY DEF Dated!DaysOf
  <2>2. ASSUME NEW x \in Int
        PROVE  x \in Dated!Meant("weekend", n, d) <=> (f + 5) <= x /\ x < (f + 7)
    <3>1. x \in Dated!Meant("weekend", n, d) <=> x \in 0..H /\ Dated!WeekOf(x) = Dated!WeekOf(d) /\ Dated!Weekday(x) \in {5, 6}
      BY DEF Dated!Meant
    <3>. QED
      BY <3>1, <1>1, <1>2
  <2>3. Says(<<f + 5, f + 7>>, "weekend", n, d)
    BY <1>1, <2>2, SaysIf
  <2>. QED
    BY <1>5, <2>1, <2>3
<1>6. CASE what = "next_weekend"
  <2>1. Dated!DaysOf("next_weekend", n, d) = <<f + 12, f + 14>>
    BY DEF Dated!DaysOf
  <2>2. ASSUME NEW x \in Int
        PROVE  x \in Dated!Meant("next_weekend", n, d) <=> (f + 12) <= x /\ x < (f + 14)
    <3>1. x \in Dated!Meant("next_weekend", n, d) <=> x \in 0..H /\ Dated!WeekOf(x) = Dated!WeekOf(d) + 1 /\ Dated!Weekday(x) \in {5, 6}
      BY DEF Dated!Meant
    <3>. QED
      BY <3>1, <1>1, <1>2
  <2>3. Says(<<f + 12, f + 14>>, "next_weekend", n, d)
    BY <1>1, <2>2, SaysIf
  <2>. QED
    BY <1>6, <2>1, <2>3
<1>. QED
  BY <1>4, <1>5, <1>6

-----------------------------------------------------------------------------
(* Months *)

LEMMA SmallestIs ==
    ASSUME NEW S \in SUBSET Int, NEW r \in S, \A y \in S : r <= y
    PROVE  Dated!Min(S) = r
<1>. DEFINE x == Dated!Min(S)
<1>1. x \in S /\ \A y \in S : x <= y
  BY DEF Dated!Min
<1>. HIDE DEF x
<1>2. x <= r /\ r <= x /\ x \in Int /\ r \in Int
  BY <1>1
<1>3. x = r
  BY <1>2
<1>. QED
  BY <1>3 DEF x

LEMMA LastMonthPhrase ==
    ASSUME NEW d \in Today, NEW n
    PROVE  Says(Dated!DaysOf("last_month", n, d), "last_month", n, d)
<1>. DEFINE m == Dated!MonthOf(d)
            a == First[m - 1]
            b == First[m]
            H == Dated!Horizon
<1>1. Around(d, m) /\ H \in Nat
  BY MonthsAround, TodayIs
<1>. HIDE DEF m, H
<1>2. a \in Nat /\ b \in Nat /\ a + 28 <= b /\ b <= H /\ m - 1 \in Dated!Months /\ (m - 1) + 1 = m
      /\ m \in Nat
  BY <1>1 DEF Around, H
<1>3. InMonth(b - 1, m - 1)
  BY <1>2 DEF InMonth
<1>4. Dated!MonthOf(b - 1) = m - 1
  BY <1>2, <1>3, MonthIs
<1>5. Dated!DaysOf("last_month", n, d) = <<a, b>>
  BY <1>4 DEF Dated!DaysOf, m
<1>6. ASSUME NEW x \in Int PROVE x \in Dated!Meant("last_month", n, d) <=> a <= x /\ x < b
  <2>1. x \in Dated!Meant("last_month", n, d) <=> x \in 0..H /\ Dated!MonthOf(x) + 1 = m
    BY DEF Dated!Meant, m, H
  <2>2. CASE x \in 0..H
    <3>1. Dated!MonthOf(x) \in Dated!Months
      BY <2>2, MonthExists DEF H
    <3>2. Dated!MonthOf(x) \in Int
      <4>1. Len(First) \in Nat
        BY CalendarIs
      <4>. QED
        BY <3>1, <4>1, CalendarIs
    <3>3. Dated!MonthOf(x) = m - 1 <=> a <= x /\ x < First[(m - 1) + 1]
      BY <1>2, <2>2, MonthOfDay DEF H
    <3>. QED
      BY <1>2, <2>1, <2>2, <3>2, <3>3
  <2>3. CASE x \notin 0..H
    BY <1>2, <2>1, <2>3, <1>1
  <2>. QED
    BY <2>2, <2>3
<1>. HIDE DEF a, b
<1>7. Says(<<a, b>>, "last_month", n, d)
  BY <1>1, <1>2, <1>6, SaysIf DEF H
<1>. QED
  BY <1>5, <1>7

\* The days of a month are numbered from its first.
LEMMA NumberIs ==
    ASSUME NEW x \in Int, NEW m \in Dated!Months, InMonth(x, m)
    PROVE  /\ Dated!MonthOf(x) = m /\ Dated!NumberOf(x) = x - First[m] + 1
           /\ Dated!MonthEnd(m) = First[m + 1] - 1
<1>1. Dated!MonthOf(x) = m
  BY MonthIs
<1>. QED
  BY <1>1 DEF Dated!NumberOf, Dated!MonthEnd

LEMMA NextMonthPhrase ==
    ASSUME NEW d \in Today, NEW n \in Numbers \cup {-1}
    PROVE  Says(Dated!DaysOf("next_month", n, d), "next_month", n, d)
<1>. DEFINE m == Dated!MonthOf(d)
            q == m + 1
            c == First[q]
            e == First[q + 1]
            L == Dated!LengthOf(q)
            H == Dated!Horizon
            x0 == c + (IF n <= L THEN n ELSE L) - 1
<1>1. Around(d, m) /\ H \in Nat
  BY MonthsAround, TodayIs
<1>. HIDE DEF m, H
<1>2. c \in Nat /\ e \in Nat /\ e = c + L /\ L \in 28..31 /\ e <= H + 1 /\ q \in Dated!Months
  BY <1>1 DEF Around, H
<1>3. n = -1 \/ n \in 1..31
  BY CalendarIs
<1>4. ASSUME NEW x \in Int
      PROVE  x \in Dated!Meant("next_month", n, d)
                 <=> c <= x /\ x < e /\ (n = -1 \/ x - c + 1 = n \/ (x = e - 1 /\ n > x - c + 1))
  <2>1. x \in Dated!Meant("next_month", n, d)
            <=> /\ x \in 0..H /\ Dated!MonthOf(x) = q
                /\ (n = -1 \/ Dated!NumberOf(x) = n
                        \/ (x = Dated!MonthEnd(Dated!MonthOf(x)) /\ n > Dated!NumberOf(x)))
    BY DEF Dated!Meant, m, H
  <2>2. x \in 0..H => (Dated!MonthOf(x) = q <=> c <= x /\ x < e)
    BY <1>2, MonthOfDay DEF H
  <2>3. c <= x /\ x < e => Dated!NumberOf(x) = x - c + 1 /\ Dated!MonthOf(x) = q
                           /\ Dated!MonthEnd(q) = e - 1
    BY <1>2, NumberIs DEF InMonth
  <2>4. c <= x /\ x < e => x \in 0..H
    BY <1>1, <1>2
  <2>. HIDE DEF c, e, q
  <2>5. CASE c <= x /\ x < e
    BY <2>1, <2>2, <2>3, <2>4, <2>5
  <2>6. CASE ~(c <= x /\ x < e)
    BY <2>1, <2>2, <2>6
  <2>. QED
    BY <2>5, <2>6
<1>5. CASE n = -1
  <2>1. Dated!DaysOf("next_month", n, d) = <<c, Dated!MonthEnd(q) + 1>>
    BY <1>5 DEF Dated!DaysOf, Dated!NextMonth, m
  <2>2. Dated!MonthEnd(q) + 1 = e
    BY <1>2 DEF Dated!MonthEnd
  <2>. HIDE DEF c, e, q
  <2>3. \A x \in Int : x \in Dated!Meant("next_month", n, d) <=> c <= x /\ x < e
    BY <1>4, <1>5
  <2>4. Says(<<c, e>>, "next_month", n, d)
    BY <1>1, <1>2, <2>3, SaysIf DEF H
  <2>. QED
    BY <2>1, <2>2, <2>4
<1>6. CASE n # -1
  <2>1. n \in 1..31 /\ {n, L} \in SUBSET Int
    BY <1>2, <1>3, <1>6
  <2>2. Dated!Min({n, L}) = IF n <= L THEN n ELSE L
    <3>. HIDE DEF L
    <3>1. CASE n <= L
      <4>1. \A y \in {n, L} : n <= y
        BY <2>1, <3>1
      <4>. QED
        BY <2>1, <3>1, <4>1, SmallestIs
    <3>2. CASE ~(n <= L)
      <4>1. \A y \in {n, L} : L <= y
        BY <1>2, <2>1, <3>2
      <4>. QED
        BY <2>1, <3>2, <4>1, SmallestIs
    <3>. QED
      BY <3>1, <3>2
  <2>3. Dated!DaysOf("next_month", n, d) = <<x0, x0 + 1>>
    BY <2>1, <2>2 DEF Dated!DaysOf, Dated!NextMonth, Dated!DayRange, m
  <2>. HIDE DEF c, e, q, L
  <2>4. x0 \in Int
    BY <1>2, <2>1
  <2>5. \A x \in Int : x \in Dated!Meant("next_month", n, d) <=> x0 <= x /\ x < x0 + 1
    <3>1. ASSUME NEW x \in Int
          PROVE  x \in Dated!Meant("next_month", n, d) <=> x0 <= x /\ x < x0 + 1
      <4>1. CASE n <= L
        BY <1>2, <1>4, <2>1, <4>1
      <4>2. CASE ~(n <= L)
        BY <1>2, <1>4, <2>1, <4>2
      <4>. QED
        BY <4>1, <4>2
    <3>. QED
      BY <3>1
  <2>. HIDE DEF x0
  <2>6. Says(<<x0, x0 + 1>>, "next_month", n, d)
    BY <1>1, <2>4, <2>5, SaysIf DEF H
  <2>. QED
    BY <2>3, <2>6
<1>. QED
  BY <1>5, <1>6

\* Of seven days one has a weekday, and the search finds it.
LEMMA WeekdayFrom ==
    ASSUME NEW start \in Int, NEW w \in 0..6
    PROVE  /\ (w - Dated!Weekday(start)) % 7 \in 0..6
           /\ \A x \in start..(start + 6) :
                  Dated!Weekday(x) = w <=> x = start + ((w - Dated!Weekday(start)) % 7)
<1>. DEFINE v == Dated!Weekday(start)
            a == Dated!WeekOf(start)
            k == (w - v) % 7
<1>1. FirstWeekday \in 0..6
  BY CalendarIs
<1>2. v \in 0..6 /\ a \in Int /\ start + FirstWeekday = 7 * a + v
  BY WeekIs
<1>. HIDE DEF v, a
<1>3. k = IF w >= v THEN w - v ELSE w - v + 7
  BY <1>2
<1>. HIDE DEF k
<1>4. k \in 0..6
  BY <1>2, <1>3
<1>5. ASSUME NEW x \in start..(start + 6) PROVE Dated!Weekday(x) = w <=> x = start + k
  <2>1. x \in Int
    OBVIOUS
  <2>2. /\ Dated!Weekday(x) \in 0..6 /\ Dated!WeekOf(x) \in Int
        /\ x + FirstWeekday = 7 * Dated!WeekOf(x) + Dated!Weekday(x)
    BY <2>1, WeekIs
  <2>. QED
    BY <1>1, <1>2, <1>3, <1>4, <2>1, <2>2
<1>. QED
  BY <1>4, <1>5 DEF k, v

LEMMA MonthEndPhrase ==
    ASSUME NEW d \in Today, NEW n \in -1..6
    PROVE  Says(Dated!DaysOf("month_end", n, d), "month_end", n, d)
<1>. DEFINE m == Dated!MonthOf(d)
            b == First[m]
            c == First[m + 1]
            e == First[m + 2]
            s == Dated!MonthEnd(m) - 6
            H == Dated!Horizon
<1>1. Around(d, m) /\ H \in Nat
  BY MonthsAround, TodayIs
<1>. HIDE DEF m, H
<1>2. /\ b \in Nat /\ c \in Nat /\ e \in Nat /\ b + 28 <= c /\ c + 28 <= e /\ e <= H + 1
      /\ m \in Dated!Months /\ m + 1 \in Dated!Months /\ m \in Nat /\ (m + 1) + 1 = m + 2
      /\ s = c - 7 /\ Dated!MonthEnd(m) = c - 1
  BY <1>1 DEF Around, H, Dated!MonthEnd
<1>3. ASSUME NEW x \in Int PROVE x \in Dated!LastOf(m) <=> c - 7 <= x /\ x < c
  <2>1. x \in Dated!LastOf(m) <=> x \in (b + 20)..(c - 1) /\ Dated!MonthOf(x + 7) # m
    BY <1>2 DEF Dated!LastOf
  <2>2. b <= x + 7 /\ x + 7 < c => Dated!MonthOf(x + 7) = m
    BY <1>2, MonthIs DEF InMonth
  <2>3. c <= x + 7 /\ x + 7 < First[(m + 1) + 1] => Dated!MonthOf(x + 7) = m + 1
    BY <1>2, MonthIs DEF InMonth
  <2>4. c <= x + 7 /\ x + 7 < e => Dated!MonthOf(x + 7) # m
    BY <1>2, <2>3
  <2>. HIDE DEF b, c, e
  <2>. QED
    BY <1>2, <2>1, <2>2, <2>4
<1>4. ASSUME NEW x \in Int
      PROVE  x \in Dated!Meant("month_end", n, d)
                 <=> c - 7 <= x /\ x < c /\ n \in {-1, Dated!Weekday(x)}
  <2>1. x \in Dated!Meant("month_end", n, d)
            <=> x \in 0..H /\ x \in Dated!LastOf(m) /\ n \in {-1, Dated!Weekday(x)}
    BY DEF Dated!Meant, m, H
  <2>. HIDE DEF b, c, e
  <2>. QED
    BY <1>1, <1>2, <1>3, <2>1
<1>5. CASE n = -1
  <2>1. Dated!DaysOf("month_end", n, d) = <<s, Dated!MonthEnd(m) + 1>>
    BY <1>5 DEF Dated!DaysOf, Dated!MonthEndRange, m
  <2>. HIDE DEF b, c, e, s
  <2>2. Dated!DaysOf("month_end", n, d) = <<c - 7, c>>
    BY <1>2, <2>1
  <2>3. \A x \in Int : x \in Dated!Meant("month_end", n, d) <=> c - 7 <= x /\ x < c
    BY <1>4, <1>5
  <2>4. Says(<<c - 7, c>>, "month_end", n, d)
    BY <1>1, <1>2, <2>3, SaysIf DEF H
  <2>. QED
    BY <2>2, <2>4
<1>6. CASE n # -1
  <2>. DEFINE x0 == s + ((n - Dated!Weekday(s)) % 7)
  <2>1. n \in 0..6 /\ s \in Int
    BY <1>2, <1>6
  <2>2. /\ x0 \in s..(s + 6)
        /\ \A x \in s..(s + 6) : Dated!Weekday(x) = n <=> x = x0
    <3>. HIDE DEF s
    <3>1. /\ (n - Dated!Weekday(s)) % 7 \in 0..6
          /\ \A x \in s..(s + 6) :
                 Dated!Weekday(x) = n <=> x = s + ((n - Dated!Weekday(s)) % 7)
      BY <2>1, WeekdayFrom
    <3>. QED
      BY <2>1, <3>1
  <2>3. x0 <= Dated!MonthEnd(m)
    <3>1. s + 6 = Dated!MonthEnd(m)
      BY <1>2
    <3>. HIDE DEF s, x0
    <3>. QED
      BY <2>1, <2>2, <3>1
  <2>4. Dated!FindWeekday(s, Dated!MonthEnd(m), n) = {x0}
    BY <2>3 DEF Dated!FindWeekday
  <2>5. Dated!DaysOf("month_end", n, d) = <<x0, x0 + 1>>
    <3>. HIDE DEF x0
    <3>1. (CHOOSE x \in {x0} : TRUE) = x0
      OBVIOUS
    <3>2. n >= 0
      BY <2>1
    <3>. QED
      BY <2>4, <3>1, <3>2 DEF Dated!DaysOf, Dated!MonthEndRange, Dated!DayRange, m, s
  <2>. HIDE DEF b, c, e, s, x0
  <2>6. \A x \in Int : x \in Dated!Meant("month_end", n, d) <=> x0 <= x /\ x < x0 + 1
    <3>1. ASSUME NEW x \in Int
          PROVE  x \in Dated!Meant("month_end", n, d) <=> x0 <= x /\ x < x0 + 1
      <4>1. x \in Dated!Meant("month_end", n, d) <=> x \in s..(s + 6) /\ Dated!Weekday(x) = n
        BY <1>2, <1>4, <1>6, <2>1
      <4>. QED
        BY <2>1, <2>2, <4>1
    <3>. QED
      BY <3>1
  <2>7. Says(<<x0, x0 + 1>>, "month_end", n, d)
    BY <1>1, <2>1, <2>2, <2>6, SaysIf DEF H
  <2>. QED
    BY <2>5, <2>7
<1>. QED
  BY <1>5, <1>6

-----------------------------------------------------------------------------
(* Appointments and labels *)

\* An appointment said on a day is on the next one that fits.
Fits(p, x) == IF p[1] = "on_the" THEN Dated!NumberOf(x) = p[2] ELSE Dated!Weekday(x) = p[2]
From(p, d) == IF p[1] = "on_the" THEN d ELSE d + 1
Coming(p, d) == {x \in From(p, d)..(From(p, d) + 70) : Fits(p, x)}
OnNext(p, d, result) ==
    p[1] \in {"on_the", "on_weekday"} /\ result # Dated!Failed
        => result = {Dated!Min(Coming(p, d))}

LEMMA NumberComes ==
    ASSUME NEW d \in Today, NEW p \in Dated!Appointments, p[1] = "on_the"
    PROVE  OnNext(p, d, Dated!OnThe(d, p[2]))
<1>. DEFINE m == Dated!MonthOf(d)
            b == First[m]
            c == First[m + 1]
            e == First[m + 2]
            n == p[2]
            S == Coming(p, d)
<1>1. Around(d, m) /\ d \in Nat
  BY MonthsAround, TodayIs
<1>2. n \in 1..31
  <2>1. n \in Numbers
    BY DEF Dated!Appointments
  <2>. QED
    BY <2>1, CalendarIs
<1>. HIDE DEF m, n
<1>3. /\ b \in Nat /\ c \in Nat /\ e \in Nat /\ b <= d /\ d < c
      /\ c = b + Dated!LengthOf(m) /\ Dated!LengthOf(m) \in 28..31
      /\ e = c + Dated!LengthOf(m + 1) /\ Dated!LengthOf(m + 1) \in 28..31
      /\ m \in Dated!Months /\ m + 1 \in Dated!Months /\ m \in Nat /\ (m + 1) + 1 = m + 2
  BY <1>1 DEF Around
<1>4. \A x \in Int : /\ b <= x /\ x < c => Dated!NumberOf(x) = x - b + 1
                     /\ c <= x /\ x < e => Dated!NumberOf(x) = x - c + 1
  <2>1. ASSUME NEW x \in Int, b <= x, x < c PROVE Dated!NumberOf(x) = x - b + 1
    BY <1>3, <2>1, NumberIs DEF InMonth
  <2>2. ASSUME NEW x \in Int, c <= x, x < First[(m + 1) + 1] PROVE Dated!NumberOf(x) = x - c + 1
    BY <1>3, <2>2, NumberIs DEF InMonth
  <2>. QED
    BY <1>3, <2>1, <2>2
<1>5. Dated!MonthOf(b + 32) = m + 1
  <2>1. c <= b + 32 /\ b + 32 < First[(m + 1) + 1] /\ b + 32 \in Int
    <3>. HIDE DEF b, c, e
    <3>1. c <= b + 32 /\ b + 32 < e /\ b + 32 \in Int
      BY <1>3
    <3>. QED
      BY <1>3, <3>1 DEF e
  <2>. QED
    BY <1>3, <2>1, MonthIs DEF InMonth
<1>6. S = {x \in d..(d + 70) : Dated!NumberOf(x) = n}
  BY DEF Coming, From, Fits, n
<1>. HIDE DEF b, c, e, S
<1>7. S \in SUBSET Int
  BY <1>1, <1>6
<1>8. CASE n > Dated!LengthOf(m)
  BY <1>8 DEF Dated!OnThe, OnNext, m, n
<1>9. CASE n <= Dated!LengthOf(m) /\ b + n - 1 >= d
  <2>1. Dated!OnThe(d, n) = {b + n - 1}
    BY <1>2, <1>3, <1>9 DEF Dated!OnThe, m, b
  <2>2. b + n - 1 \in S
    BY <1>1, <1>2, <1>3, <1>4, <1>6, <1>9
  <2>3. ASSUME NEW y \in S PROVE b + n - 1 <= y
    BY <1>1, <1>2, <1>3, <1>4, <1>6, <1>9
  <2>4. Dated!Min(S) = b + n - 1
    BY <1>7, <2>2, <2>3, SmallestIs
  <2>. QED
    BY <2>1, <2>4 DEF OnNext, S, n
<1>10. CASE n <= Dated!LengthOf(m) /\ ~(b + n - 1 >= d) /\ n > Dated!LengthOf(m + 1)
  <2>1. Dated!OnThe(d, n) = Dated!Failed
    BY <1>2, <1>3, <1>5, <1>10 DEF Dated!OnThe, m, b
  <2>. QED
    BY <2>1 DEF OnNext, n
<1>11. CASE n <= Dated!LengthOf(m) /\ ~(b + n - 1 >= d) /\ n <= Dated!LengthOf(m + 1)
  <2>1. Dated!OnThe(d, n) = {c + n - 1}
    BY <1>2, <1>3, <1>5, <1>11 DEF Dated!OnThe, m, b, c
  <2>2. c + n - 1 \in S
    BY <1>1, <1>2, <1>3, <1>4, <1>6, <1>11
  <2>3. ASSUME NEW y \in S PROVE c + n - 1 <= y
    <3>1. y \in Int /\ d <= y /\ Dated!NumberOf(y) = n
      BY <1>1, <1>6
    <3>2. c <= y
      BY <1>1, <1>2, <1>3, <1>4, <1>11, <3>1
    <3>3. y < e => y - c + 1 = n
      BY <1>4, <3>1, <3>2
    <3>. QED
      BY <1>2, <1>3, <1>11, <3>1, <3>3
  <2>4. Dated!Min(S) = c + n - 1
    BY <1>7, <2>2, <2>3, SmallestIs
  <2>. QED
    BY <2>1, <2>4 DEF OnNext, S, n
<1>. QED
  BY <1>2, <1>3, <1>8, <1>9, <1>10, <1>11

LEMMA WeekdayComes ==
    ASSUME NEW d \in Today, NEW p \in Dated!Appointments, p[1] = "on_weekday"
    PROVE  OnNext(p, d, Dated!NextWeekday(d, p[2]))
<1>. DEFINE n == p[2]
            k == (n - Dated!Weekday(d)) % 7
            r == d + IF k = 0 THEN 7 ELSE k
            S == Coming(p, d)
<1>1. d \in Nat /\ n \in 0..6
  BY TodayIs DEF Dated!Appointments
<1>2. S = {x \in (d + 1)..(d + 1 + 70) : Dated!Weekday(x) = n}
  BY DEF Coming, From, Fits
<1>3. Dated!NextWeekday(d, n) = {r}
  BY DEF Dated!NextWeekday
<1>. HIDE DEF n
<1>4. k \in 0..6 /\ \A x \in d..(d + 6) : Dated!Weekday(x) = n <=> x = d + k
  BY <1>1, WeekdayFrom
<1>5. Dated!Weekday(d + 7) = Dated!Weekday(d)
  <2>1. FirstWeekday \in 0..6
    BY CalendarIs
  <2>. QED
    BY <1>1, <2>1 DEF Dated!Weekday
<1>. HIDE DEF k, S
<1>6. S \in SUBSET Int
  BY <1>1, <1>2
<1>7. r \in S
  <2>1. CASE k = 0
    <3>1. Dated!Weekday(d) = n
      BY <1>1, <1>4, <2>1
    <3>. QED
      BY <1>1, <1>2, <1>5, <2>1, <3>1
  <2>2. CASE k # 0
    BY <1>1, <1>2, <1>4, <2>2
  <2>. QED
    BY <2>1, <2>2
<1>8. ASSUME NEW y \in S PROVE r <= y
  <2>1. y \in Int /\ y >= d + 1 /\ Dated!Weekday(y) = n
    BY <1>1, <1>2
  <2>2. y <= d + 6 => y = d + k
    BY <1>1, <1>4, <2>1
  <2>. QED
    BY <1>1, <1>4, <2>1, <2>2
<1>. HIDE DEF r
<1>9. Dated!Min(S) = r
  BY <1>6, <1>7, <1>8, SmallestIs
<1>. QED
  BY <1>3, <1>9 DEF OnNext, S, n

\* An event is shown as long ago as it was.
Shows(event0, d, label) ==
    /\ label[1] = "days_ago" => event0 + label[2] = d
    /\ label[1] = "last_week" => Dated!WeekOf(d) - Dated!WeekOf(event0) \in {1, 2}
    /\ label[1] = "none" => event0 > d

LEMMA LabelShows ==
    ASSUME NEW x \in Int, NEW d \in Int
    PROVE  Shows(x, d, Dated!LabelFor(x, d))
<1>. DEFINE days == d - x
<1>1. days \in Int
  OBVIOUS
<1>2. CASE days < 0
  <2>1. Dated!LabelFor(x, d) = <<"none", 0>>
    BY <1>2 DEF Dated!LabelFor
  <2>. QED
    BY <1>2, <2>1 DEF Shows
<1>3. CASE days \in 0..7
  <2>1. Dated!LabelFor(x, d) = <<"days_ago", days>>
    BY <1>3 DEF Dated!LabelFor
  <2>. QED
    BY <1>3, <2>1 DEF Shows
<1>4. CASE days \in 8..14
  <2>1. Dated!LabelFor(x, d) = <<"last_week", 0>>
    BY <1>4 DEF Dated!LabelFor
  <2>2. FirstWeekday \in 0..6
    BY CalendarIs
  <2>3. /\ Dated!Weekday(x) \in 0..6 /\ Dated!WeekOf(x) \in Int
        /\ x + FirstWeekday = 7 * Dated!WeekOf(x) + Dated!Weekday(x)
        /\ Dated!Weekday(d) \in 0..6 /\ Dated!WeekOf(d) \in Int
        /\ d + FirstWeekday = 7 * Dated!WeekOf(d) + Dated!Weekday(d)
    BY WeekIs
  <2>4. Dated!WeekOf(d) - Dated!WeekOf(x) \in {1, 2}
    BY <1>4, <2>2, <2>3
  <2>. QED
    BY <2>1, <2>4 DEF Shows
<1>5. CASE days > 14
  <2>1. Dated!LabelFor(x, d) = <<"date", x>>
    BY <1>5 DEF Dated!LabelFor
  <2>. QED
    BY <2>1 DEF Shows
<1>. QED
  BY <1>1, <1>2, <1>3, <1>4, <1>5

-----------------------------------------------------------------------------
(* What is told, booked and shown *)

LEMMA PhraseSays ==
    ASSUME NEW d \in Today, NEW p \in Dated!Phrases
    PROVE  Says(Dated!DaysOf(p[1], p[2], d), p[1], p[2], d)
<1>1. \/ p[1] \in {"today", "yesterday", "day_before", "some_days_ago"}
      \/ p[1] \in {"this_week", "weekend", "next_weekend"}
      \/ p[1] = "last_month"
      \/ p[1] \in {"last_week", "next_week", "week_after_next"} /\ p[2] \in -1..6
      \/ p[1] = "month_end" /\ p[2] \in -1..6
      \/ p[1] = "next_month" /\ p[2] \in Numbers \cup {-1}
  BY DEF Dated!Phrases, Dated!Weeks
<1>. QED
  BY <1>1, DayPhrases, WeekendPhrases, LastMonthPhrase, WeekPhrases, MonthEndPhrase,
     NextMonthPhrase

LEMMA BookedNext ==
    ASSUME NEW d \in Today, NEW p \in Dated!Appointments
    PROVE  OnNext(p, d, Dated!ParseDt(p[1], p[2], d))
<1>1. CASE p[1] = "on_the"
  <2>1. Dated!ParseDt(p[1], p[2], d) = Dated!OnThe(d, p[2])
    BY <1>1 DEF Dated!ParseDt
  <2>. QED
    BY <1>1, <2>1, NumberComes
<1>2. CASE p[1] = "on_weekday"
  <2>1. Dated!ParseDt(p[1], p[2], d) = Dated!NextWeekday(d, p[2])
    BY <1>2 DEF Dated!ParseDt
  <2>. QED
    BY <1>2, <2>1, WeekdayComes
<1>3. CASE p[1] \notin {"on_the", "on_weekday"}
  BY <1>3 DEF OnNext
<1>. QED
  BY <1>1, <1>2, <1>3

\* Nothing was told before the first day is over, and what was told stays.
DatesInv ==
    /\ today \in Int /\ (dated = {} => today \in Today)
    /\ \A e \in dated :
           e[3] \in Int /\ e[3]..(e[4] - 1) = Dated!Meant(e[1][1], e[1][2], e[2])
    /\ \A b \in booked : OnNext(b[1], b[2], b[3])
    /\ \A s \in shown : Shows(s[1], s[2], s[3])

LEMMA DatesStart == Dated!Init => DatesInv
<1>1. \A d \in Today : d \in Int
  BY TodayIs
<1>. QED
  BY <1>1 DEF Dated!Init, DatesInv

LEMMA DatesGoOn == DatesInv /\ Dated!Next => DatesInv'
<1>. SUFFICES ASSUME DatesInv, Dated!Next PROVE DatesInv'
  OBVIOUS
<1>1. ASSUME NEW p \in Dated!Phrases, Dated!Tell(p) PROVE DatesInv'
  <2>. DEFINE r == Dated!DaysOf(p[1], p[2], today)
  <2>1. today \in Today /\ dated' = {<<p, today, r[1], r[2]>>}
        /\ UNCHANGED <<today, booked, shown>>
    BY <1>1 DEF Dated!Tell, DatesInv
  <2>2. Says(r, p[1], p[2], today)
    BY <2>1, PhraseSays
  <2>. HIDE DEF r
  <2>3. \A e \in dated' :
            e[3] \in Int /\ e[3]..(e[4] - 1) = Dated!Meant(e[1][1], e[1][2], e[2])
    BY <2>1, <2>2 DEF Says
  <2>. QED
    BY <2>1, <2>3 DEF DatesInv
<1>2. ASSUME NEW p \in Dated!Appointments, Dated!Book(p) PROVE DatesInv'
  <2>. DEFINE r == Dated!ParseDt(p[1], p[2], today)
  <2>1. today \in Today /\ booked' = {<<p, today, r>>} /\ UNCHANGED <<today, dated, shown>>
    BY <1>2 DEF Dated!Book, DatesInv
  <2>2. OnNext(p, today, r)
    BY <2>1, BookedNext
  <2>. HIDE DEF r
  <2>3. \A b \in booked' : OnNext(b[1], b[2], b[3])
    BY <2>1, <2>2
  <2>. QED
    BY <2>1, <2>3 DEF DatesInv
<1>3. ASSUME NEW e \in dated, Dated!Recall(e) PROVE DatesInv'
  <2>1. /\ shown' = {<<e[3], today, Dated!LabelFor(e[3], today)>>}
        /\ UNCHANGED <<today, dated, booked>>
    BY <1>3 DEF Dated!Recall
  <2>2. Shows(e[3], today, Dated!LabelFor(e[3], today))
    BY LabelShows DEF DatesInv
  <2>3. \A s \in shown' : Shows(s[1], s[2], s[3])
    BY <2>1, <2>2
  <2>. QED
    BY <2>1, <2>3 DEF DatesInv
<1>4. CASE Dated!NextDay
  <2>1. today' = today + 1 /\ dated # {} /\ UNCHANGED <<dated, booked, shown>>
    BY <1>4 DEF Dated!NextDay
  <2>. QED
    BY <2>1 DEF DatesInv
<1>. QED
  BY <1>1, <1>2, <1>3, <1>4 DEF Dated!Next

LEMMA DatesSame == ASSUME DatesInv, UNCHANGED dateVars PROVE DatesInv'
BY DEF dateVars, DatesInv

LEMMA DatesRight == DatesInv => Dated!DatesAreRight
<1>. SUFFICES ASSUME DatesInv PROVE Dated!DatesAreRight
  OBVIOUS
<1>1. Dated!MeansWhatItSays
  BY DEF DatesInv, Dated!MeansWhatItSays
<1>2. Dated!AppointmentIsNext
  BY DEF DatesInv, Dated!AppointmentIsNext, OnNext, Coming, From, Fits
<1>3. Dated!LabelIsTrue
  BY DEF DatesInv, Dated!LabelIsTrue, Shows
<1>. QED
  BY <1>1, <1>2, <1>3 DEF Dated!DatesAreRight

-----------------------------------------------------------------------------
(* The types of the upkeep *)

\* What is not needed for the weight of facts; what the consolidation holds is a fact.
UpkeepBounded ==
    /\ lowered \subseteq Remarks
    /\ stage \in {"day", "condense", "lower", "fragments", "merge"}
    /\ stage \in {"day", "condense", "fragments"} => held = {}
    /\ stage = "lower" => \A h \in held : h[1] \in Remarks
    /\ IsFiniteSet(verdicts)
    /\ \A c \in DOMAIN mapping : c \in Level /\ mapping[c] \in Level
    /\ nights \in 0..MaxNights /\ edits \in 0..MaxEdits

LEMMA UpkeepBoundedStarts == Nightly!Init => UpkeepBounded
BY FS_EmptySet, BoundsAssumption DEF Nightly!Init, UpkeepBounded

\* A share of two halves each is at most as much as there are.
LEMMA ShareIsLevel ==
    ASSUME NEW h \in Nat, NEW n \in Nat \ {0}, h <= 2 * n
    PROVE  (Top * h) \div (2 * n) \in Level
<1>. DEFINE z == Top * h
            y == 2 * n
            q == z \div y
<1>1. Top \in Nat /\ z \in Nat /\ y \in Nat \ {0}
  BY UpkeepConstants
<1>2. z <= Top * y
  <2>1. Top * h <= Top * y
    BY <1>1
  <2>. QED
    BY <2>1
<1>. HIDE DEF z, y
<1>3. q \in Nat /\ y * q <= z
  BY <1>1
<1>. HIDE DEF q
<1>4. q <= Top
  <2>. SUFFICES ASSUME q > Top PROVE FALSE
    BY <1>1, <1>3
  <2>1. y * q >= y * (Top + 1)
    BY <1>1, <1>3
  <2>2. y * (Top + 1) = Top * y + y
    BY <1>1
  <2>. QED
    BY <1>1, <1>2, <1>3, <2>1, <2>2
<1>5. q \in Level
  BY <1>1, <1>3, <1>4 DEF Level
<1>. QED
  BY <1>5 DEF q, z, y

\* The component counts as its module of sets does.
LEMMA NightlyCounts == \A S : Nightly!Cardinality(S) = Cardinality(S)
BY DEF Nightly!Cardinality, Cardinality

\* Findings have at most two halves each.
LEMMA HalvesAre ==
    ASSUME NEW found, IsFiniteSet(found)
    PROVE  /\ Nightly!Halves(found) \in Nat /\ Cardinality(found) \in Nat
           /\ Nightly!Halves(found) <= 2 * Cardinality(found)
<1>. DEFINE u == {v \in found : v[3] = "uncertain"}
            k == {v \in found : v[3] = "keep"}
<1>1. /\ IsFiniteSet(u) /\ IsFiniteSet(k) /\ IsFiniteSet(u \cup k)
      /\ Cardinality(u \cup k) <= Cardinality(found)
  <2>1. u \subseteq found /\ k \subseteq found /\ u \cup k \subseteq found
    OBVIOUS
  <2>. HIDE DEF u, k
  <2>. QED
    BY <2>1, FS_Subset
<1>2. u \cap k = {}
  OBVIOUS
<1>3. Nightly!Halves(found) = Cardinality(u) + 2 * Cardinality(k)
  BY NightlyCounts DEF Nightly!Halves
<1>. HIDE DEF u, k
<1>4. /\ Cardinality(u) \in Nat /\ Cardinality(k) \in Nat /\ Cardinality(found) \in Nat
      /\ Cardinality(u \cap k) = 0
  BY <1>1, <1>2, FS_CardinalityType, FS_EmptySet
<1>5. Cardinality(u \cup k) = Cardinality(u) + Cardinality(k) - Cardinality(u \cap k)
  BY <1>1, FS_Union
<1>. QED
  BY <1>1, <1>3, <1>4, <1>5

LEMMA CalibrateBounded == ASSUME UpkeepInv, UpkeepBounded, Nightly!Calibrate PROVE UpkeepBounded'
<1>. DEFINE at(c) == {v \in verdicts : Nightly!LevelOf(v[2]) = c}
            trained == {c \in 0..Top : Cardinality(at(c)) > 1}
<1>1. /\ mapping' = [c \in trained |-> (Top * Nightly!Halves(at(c))) \div (2 * Cardinality(at(c)))]
      /\ UNCHANGED <<stage, held, verdicts, nights, edits, lowered>>
  <2>1. \A c : Nightly!Cardinality(at(c)) = Cardinality(at(c))
    BY NightlyCounts
  <2>2. trained = {c \in 0..Top : Nightly!Cardinality(at(c)) > 1}
    BY <2>1
  <2>3. mapping' = [c \in {x \in 0..Top : Nightly!Cardinality(at(x)) > 1} |->
                       (Top * Nightly!Halves(at(c))) \div (2 * Nightly!Cardinality(at(c)))]
    BY DEF Nightly!Calibrate
  <2>4. UNCHANGED <<stage, held, verdicts, nights, edits, lowered>>
    BY DEF Nightly!Calibrate
  <2>. HIDE DEF trained, at
  <2>. QED
    BY <2>1, <2>2, <2>3, <2>4
<1>2. ASSUME NEW c \in trained
      PROVE  (Top * Nightly!Halves(at(c))) \div (2 * Cardinality(at(c))) \in Level
  <2>1. IsFiniteSet(at(c))
    BY FS_Subset DEF UpkeepBounded
  <2>2. Cardinality(at(c)) > 1
    OBVIOUS
  <2>. HIDE DEF at
  <2>3. /\ Nightly!Halves(at(c)) \in Nat /\ Cardinality(at(c)) \in Nat \ {0}
        /\ Nightly!Halves(at(c)) <= 2 * Cardinality(at(c))
    BY <2>1, <2>2, HalvesAre
  <2>. QED
    BY <2>3, ShareIsLevel
<1>3. trained \subseteq Level
  BY DEF Level
<1>. HIDE DEF trained, at
<1>4. \A c \in DOMAIN mapping' : c \in Level /\ mapping'[c] \in Level
  BY <1>1, <1>2, <1>3
<1>. QED
  BY <1>1, <1>4 DEF UpkeepBounded

LEMMA UpkeepBoundedGoesOn ==
    ASSUME UpkeepInv, UpkeepBounded, Nightly!Next PROVE UpkeepBounded'
<1>1. ASSUME NEW f \in Remarks,
             Nightly!Learn(f) \/ Nightly!Confirm(f) \/ Nightly!Supersede(f) \/ Nightly!Forget(f)
      PROVE  UpkeepBounded'
  <2>1. /\ edits < MaxEdits /\ edits' = edits + 1
        /\ UNCHANGED <<stage, held, verdicts, mapping, nights, lowered>>
    BY <1>1 DEF Nightly!Learn, Nightly!Confirm, Nightly!Supersede, Nightly!Forget, Nightly!Edit
  <2>. QED
    BY <2>1, BoundsAssumption DEF UpkeepBounded
<1>2. ASSUME NEW f \in Remarks, Nightly!LookUp(f) PROVE UpkeepBounded'
  <2>1. /\ stage = "lower" /\ \A h \in held' : h[1] = f
        /\ UNCHANGED <<stage, verdicts, mapping, nights, edits, lowered>>
    BY <1>2 DEF Nightly!LookUp
  <2>. QED
    BY <2>1 DEF UpkeepBounded
<1>3. ASSUME NEW f \in Remarks, NEW l, Nightly!Investigate(f, l) PROVE UpkeepBounded'
  <2>1. IsFiniteSet(verdicts')
    BY <1>3, FS_AddElement DEF Nightly!Investigate, UpkeepBounded
  <2>. QED
    BY <1>3, <2>1 DEF Nightly!Investigate, UpkeepBounded
<1>4. CASE Nightly!NightBegins
  <2>1. /\ nights < MaxNights /\ nights' = nights + 1 /\ stage' \in {"fragments", "condense"}
        /\ held = {} /\ UNCHANGED <<held, verdicts, mapping, edits, lowered>>
    BY <1>4 DEF Nightly!NightBegins, UpkeepBounded
  <2>. QED
    BY <2>1, BoundsAssumption DEF UpkeepBounded
<1>5. CASE Nightly!Condense \/ Nightly!TopicsDone \/ Nightly!ReadFragments \/ Nightly!NightEnds
  <2>1. /\ UNCHANGED <<verdicts, mapping, nights, edits, lowered>>
        /\ stage' \in {"day", "lower", "fragments", "merge"}
        /\ stage' # "merge" => held' = {}
    BY <1>5 DEF Nightly!Condense, Nightly!TopicsDone, Nightly!ReadFragments, Nightly!NightEnds,
                UpkeepBounded
  <2>. QED
    BY <2>1 DEF UpkeepBounded
<1>6. ASSUME NEW h \in held, Nightly!Lower(h[1], h[2]) PROVE UpkeepBounded'
  <2>1. stage = "lower" /\ h[1] \in Remarks
    BY <1>6 DEF Nightly!Lower, UpkeepBounded
  <2>. QED
    BY <1>6, <2>1 DEF Nightly!Lower, UpkeepBounded
<1>7. ASSUME NEW k \in Nightly!Talks, NEW m, Nightly!MergeTalk(k, m) PROVE UpkeepBounded'
  BY <1>7 DEF Nightly!MergeTalk, UpkeepBounded
<1>. QED
  BY <1>1, <1>2, <1>3, <1>4, <1>5, <1>6, <1>7, CalibrateBounded DEF Nightly!Next

LEMMA UpkeepBoundedSame ==
    ASSUME UpkeepBounded, UNCHANGED <<upkeepVars, nights, edits>> PROVE UpkeepBounded'
BY DEF upkeepVars, UpkeepBounded

LEMMA UpkeepTypesRight == UpkeepInv /\ UpkeepBounded => Nightly!TypeOK
BY DEF UpkeepInv, UpkeepTyped, UpkeepBounded, KeptRow, Level, Nightly!TypeOK, Nightly!Adjusted

-----------------------------------------------------------------------------
(* The types of the database as a whole *)

FactRow == [user : Users, from : {"chat", "file"}]
NumberedRow == [id : 1..MaxId, user : Users]
Reports == [{"memories", "events"} -> {"none", "imported", "skipped"}]

StorageTyped ==
    /\ legacy \subseteq Files /\ starting \subseteq Files
    /\ memories \subseteq FactRow /\ archive \subseteq FactRow
    /\ events \subseteq NumberedRow /\ seq \in 0..MaxId
    /\ dump.memories \subseteq FactRow /\ dump.events \subseteq NumberedRow
    /\ counts \in Reports

LEMMA StorageConstants ==
    /\ MaxId \in Nat
    /\ \A f \in Files : FileUser[f] \in Users
    /\ Stored!Tables = {"memories", "events"}
BY ConstantsAssumption DEF Stored!StorageAssumption, Stored!Tables

LEMMA StorageStarts == Stored!Init => StorageTyped
<1>. SUFFICES ASSUME Stored!Init PROVE StorageTyped
  OBVIOUS
<1>1. Stored!NoCounts \in Reports
  BY StorageConstants DEF Stored!NoCounts, Reports
<1>2. Stored!NoDump.memories = {} /\ Stored!NoDump.events = {}
  BY DEF Stored!NoDump
<1>. QED
  BY <1>1, <1>2, StorageConstants DEF Stored!Init, StorageTyped

\* The highest id of rows is one of theirs.
LEMMA HighestIs ==
    ASSUME NEW e \in SUBSET NumberedRow
    PROVE  Stored!Highest(e) \in 0..MaxId
<1>1. CASE e = {}
  BY <1>1, StorageConstants DEF Stored!Highest
<1>2. CASE e # {}
  <2>. DEFINE ids == {x.id : x \in e}
              gaps == {MaxId - i : i \in ids}
  <2>1. ids # {} /\ ids \subseteq 1..MaxId
    BY <1>2 DEF NumberedRow
  <2>. HIDE DEF ids
  <2>2. gaps # {} /\ gaps \in SUBSET Nat
    <3>1. \A i \in ids : MaxId - i \in Nat
      BY <2>1, StorageConstants
    <3>. QED
      BY <2>1, <3>1
  <2>3. PICK g \in gaps : \A h \in gaps : g <= h
    <3>. HIDE DEF gaps
    <3>. QED
      BY <2>2, LeastOfThem
  <2>4. PICK i \in ids : g = MaxId - i
    BY <2>3
  <2>5. \A j \in ids : j <= i
    <3>1. ASSUME NEW j \in ids PROVE j <= i
      <4>1. MaxId - i <= MaxId - j
        BY <2>3, <2>4
      <4>. QED
        BY <2>1, <4>1, StorageConstants
    <3>. QED
      BY <3>1
  <2>6. \E x \in ids : \A j \in ids : j <= x
    BY <2>5
  <2>7. Stored!Highest(e) = CHOOSE x \in ids : \A j \in ids : j <= x
    BY <1>2 DEF Stored!Highest, Stored!Ids, ids
  <2>8. Stored!Highest(e) \in ids
    BY <2>6, <2>7
  <2>9. 1..MaxId \subseteq 0..MaxId
    BY StorageConstants
  <2>. QED
    BY <2>1, <2>8, <2>9
<1>. QED
  BY <1>1, <1>2

\* What an import leaves has the types.
LEMMA ImportTyped ==
    ASSUME StorageTyped, NEW replace \in BOOLEAN, NEW bad \in {"memories", "events", "none"},
           NEW r, r = Stored!RestoreAll(replace, bad)
    PROVE  /\ r.memories \subseteq FactRow /\ r.events \subseteq NumberedRow
           /\ r.seq \in 0..MaxId /\ r.counts \in Reports
<1>1. \A new, old, rep, skip : Stored!Restored(new, old, rep, skip) \subseteq new \cup old
  BY DEF Stored!Restored
<1>2. Stored!Report(bad) \in Reports /\ Stored!Report("none") \in Reports
  BY StorageConstants DEF Stored!Report, Reports
<1>3. CASE backend = "sqlite"
  <2>. DEFINE old == IF bad = "events" THEN events
                     ELSE {x \in events : x.id \notin Stored!Ids(dump.events)}
              e == Stored!Restored(dump.events, old, replace, bad = "events")
              m == Stored!Restored(dump.memories, memories, replace, bad = "memories")
  <2>1. r = Stored!Result(m, e, Stored!Highest(e), Stored!Report(bad))
    BY <1>3 DEF Stored!RestoreAll, Stored!SqliteRestoreAll
  <2>2. old \subseteq events
    OBVIOUS
  <2>. HIDE DEF old
  <2>3. m \subseteq FactRow
    BY <1>1 DEF StorageTyped
  <2>4. e \subseteq NumberedRow
    BY <1>1, <2>2 DEF StorageTyped
  <2>. HIDE DEF m, e
  <2>. QED
    BY <1>2, <2>1, <2>3, <2>4, HighestIs DEF Stored!Result
<1>4. CASE backend # "sqlite"
  <2>. DEFINE first == Stored!PgFails("memories", replace, bad)
              fails == first \/ Stored!PgFails("events", replace, bad)
              c == [t \in {"memories", "events"} |->
                        IF t = "events" \/ first THEN "skipped" ELSE "imported"]
              m == Stored!Restored(dump.memories, memories, replace, FALSE)
              e == Stored!Restored(dump.events, events, replace, FALSE)
  <2>1. r = IF fails THEN Stored!Result(memories, events, seq, c)
            ELSE Stored!Result(m, e, seq, Stored!Report("none"))
    BY <1>4, StorageConstants DEF Stored!RestoreAll, Stored!PgRestoreAll
  <2>2. c \in Reports
    BY DEF Reports
  <2>3. m \subseteq FactRow
    BY <1>1 DEF StorageTyped
  <2>4. e \subseteq NumberedRow
    BY <1>1 DEF StorageTyped
  <2>. HIDE DEF m, e, c, first, fails
  <2>. QED
    BY <1>2, <2>1, <2>2, <2>3, <2>4 DEF Stored!Result, StorageTyped
<1>. QED
  BY <1>3, <1>4

\* What a start takes over is of the users of the files.
LEMMA TakenOver ==
    ASSUME StorageTyped, NEW fs \in SUBSET Files
    PROVE  Stored!FactsToMemories(fs) \subseteq FactRow
<1>1. \A f \in fs : Stored!Kept(f) \in FactRow
  BY StorageConstants DEF Stored!Kept, FactRow
<1>. QED
  BY <1>1 DEF Stored!FactsToMemories, StorageTyped

LEMMA StorageGoesOn == ASSUME StorageTyped, Stored!Next PROVE StorageTyped'
<1>1. CASE Stored!Start
  <2>1. legacy \subseteq Files /\ Stored!FactsToMemories(legacy) \subseteq FactRow
    BY TakenOver DEF StorageTyped
  <2>2. /\ starting' \subseteq Files /\ memories' \subseteq FactRow
        /\ UNCHANGED <<legacy, events, seq, archive, dump, counts>>
    BY <1>1, <2>1 DEF Stored!Start, StorageTyped
  <2>. QED
    BY <2>2 DEF StorageTyped
<1>2. ASSUME NEW f \in Files, Stored!MigrateLegacy(f) PROVE StorageTyped'
  <2>1. /\ legacy \subseteq Files /\ legacy \cup {f} \subseteq Files
        /\ Stored!FactsToMemories(legacy) \subseteq FactRow
        /\ Stored!FactsToMemories(legacy \cup {f}) \subseteq FactRow
    BY TakenOver DEF StorageTyped
  <2>2. /\ starting' \subseteq starting /\ legacy' \subseteq Files /\ memories' \subseteq FactRow
        /\ UNCHANGED <<events, seq, archive, dump, counts>>
    BY <1>2, <2>1 DEF Stored!MigrateLegacy, StorageTyped
  <2>. QED
    BY <2>2 DEF StorageTyped
<1>3. CASE Stored!Crash
  BY <1>3 DEF Stored!Crash, StorageTyped
<1>4. ASSUME NEW u \in Users, Stored!Say(u) PROVE StorageTyped'
  <2>1. Stored!NextId \in 1..MaxId
    <3>1. Stored!Highest(events) \in 0..MaxId /\ seq \in 0..MaxId
      BY HighestIs DEF StorageTyped
    <3>2. Stored!NextId \in Nat \ {0}
      BY <3>1, StorageConstants DEF Stored!NextId, Stored!SqliteNextId, Stored!PgNextId
    <3>3. Stored!NextId <= MaxId
      BY <1>4 DEF Stored!Say
    <3>. QED
      BY <3>2, <3>3, StorageConstants
  <2>2. [id |-> Stored!NextId, user |-> u] \in NumberedRow
    BY <2>1 DEF NumberedRow
  <2>3. Stored!Told(u) \in FactRow
    BY DEF Stored!Told, FactRow
  <2>4. /\ seq' = Stored!NextId
        /\ events' \subseteq events \cup {[id |-> Stored!NextId, user |-> u]}
        /\ memories' \subseteq memories \cup {Stored!Told(u)}
        /\ UNCHANGED <<legacy, archive, dump, counts, starting>>
    BY <1>4 DEF Stored!Say
  <2>. QED
    BY <2>1, <2>2, <2>3, <2>4, StorageConstants DEF StorageTyped
<1>5. ASSUME NEW u \in Users, Stored!ClearUser(u) PROVE StorageTyped'
  <2>1. /\ archive' \subseteq archive \cup memories /\ memories' \subseteq memories
        /\ events' \subseteq events
    BY <1>5 DEF Stored!ClearUser, Stored!SqlitePurge, Stored!PgPurge, Stored!Of
  <2>2. UNCHANGED <<legacy, seq, dump, counts, starting>>
    BY <1>5 DEF Stored!ClearUser
  <2>. QED
    BY <2>1, <2>2 DEF StorageTyped
<1>6. CASE Stored!DataExport
  <2>1. dump' = [memories |-> memories, events |-> events]
        /\ UNCHANGED <<legacy, memories, events, seq, archive, counts, starting>>
    BY <1>6 DEF Stored!DataExport, Stored!SqliteDumpAll, Stored!PgDumpAll
  <2>. QED
    BY <2>1 DEF StorageTyped
<1>7. ASSUME NEW replace \in BOOLEAN, NEW bad \in {"memories", "events", "none"},
             Stored!DataImport(replace, bad)
      PROVE  StorageTyped'
  <2>. DEFINE r == Stored!RestoreAll(replace, bad)
  <2>1. /\ memories' = r.memories /\ events' = r.events /\ seq' = r.seq /\ counts' = r.counts
        /\ UNCHANGED <<legacy, archive, dump, starting>>
    BY <1>7 DEF Stored!DataImport
  <2>2. /\ r.memories \subseteq FactRow /\ r.events \subseteq NumberedRow
        /\ r.seq \in 0..MaxId /\ r.counts \in Reports
    BY ImportTyped
  <2>. HIDE DEF r
  <2>. QED
    BY <2>1, <2>2 DEF StorageTyped
<1>. QED
  BY <1>1, <1>2, <1>3, <1>4, <1>5, <1>6, <1>7 DEF Stored!Next, Stored!Tables

LEMMA StorageSame == ASSUME StorageTyped, UNCHANGED storageVars PROVE StorageTyped'
BY DEF storageVars, StorageTyped

LEMMA StorageTypesRight == StorageTyped => Stored!TypeOK
BY StorageConstants DEF StorageTyped, FactRow, NumberedRow, Reports, Stored!TypeOK

-----------------------------------------------------------------------------
(* The types of what is derived from facts *)

\* Ids are given out up to the last, to an event each, and relations are between such ids.
Numbered(es, last) == \A t \in Known!Titles : es[t].id \in 0..last
OneEach(es) == \A t, u \in Known!Titles : es[t].id # 0 /\ es[t].id = es[u].id => t = u
Linked(edges, last) == \A e \in edges : e \in (1..last) \X (1..last)
NightLinked(s, last) ==
    /\ s.phase = "graph" => s.at \in 0..last
    /\ s.phase = "timeline" => Linked(s.todo, last)

KnowBounded ==
    /\ lastId <= MaxIds /\ Numbered(event, lastId) /\ OneEach(event)
    /\ Linked(follows, lastId) /\ Linked(related, lastId) /\ NightLinked(night, lastId)
    /\ edits \in 0..MaxChanges /\ Len(queue) <= edits

LEMMA KnowBoundedStarts == Known!Init => KnowBounded
<1>. SUFFICES ASSUME Known!Init PROVE KnowBounded
  OBVIOUS
<1>1. MaxIds \in Nat /\ MaxChanges \in Nat
  BY ConstantsAssumption, BoundsAssumption DEF Known!KnowledgeAssumption
<1>2. /\ event = [t \in Known!Titles |-> Known!NoEvent] /\ lastId = 0 /\ edits = 0
      /\ follows = {} /\ related = {} /\ queue = <<>>
      /\ night = [phase |-> "idle", todo |-> {}, at |-> 0]
  BY DEF Known!Init, Known!Awake
<1>3. \A t \in Known!Titles : event[t].id = 0
  BY <1>2, TopicsAre
<1>4. night.phase = "idle" /\ Len(queue) = 0
  BY <1>2
<1>. QED
  BY <1>1, <1>2, <1>3, <1>4 DEF KnowBounded, Numbered, OneEach, Linked, NightLinked

\* More ids may have been given out meanwhile.
LEMMA LinkedFurther ==
    ASSUME NEW last \in Nat, NEW more \in Nat, last <= more
    PROVE  /\ \A edges : Linked(edges, last) => Linked(edges, more)
           /\ \A s : NightLinked(s, last) => NightLinked(s, more)
<1>1. 1..last \subseteq 1..more /\ 0..last \subseteq 0..more
  OBVIOUS
<1>2. (1..last) \X (1..last) \subseteq (1..more) \X (1..more)
  BY <1>1
<1>3. ASSUME NEW edges, Linked(edges, last) PROVE Linked(edges, more)
  BY <1>2, <1>3 DEF Linked
<1>4. ASSUME NEW s, NightLinked(s, last) PROVE NightLinked(s, more)
  BY <1>1, <1>3, <1>4 DEF NightLinked
<1>. QED
  BY <1>3, <1>4

\* An event with a new title gets the next id.
LEMMA EventNumbered ==
    ASSUME KnowTyped, KnowBounded, NEW f \in Facts, NEW w \in {"low", "some"}, NEW es,
           es = Known!EventAdd(f, w), NEW last,
           last = IF Known!IdOf(f) > lastId THEN Known!IdOf(f) ELSE lastId
    PROVE  /\ last \in Nat /\ lastId <= last /\ (Known!IdOf(f) <= MaxIds => last <= MaxIds)
           /\ Known!IdOf(f) \in 1..last /\ Numbered(es, last) /\ OneEach(es)
           /\ es[Title[f]].id = Known!IdOf(f)
<1>. DEFINE t == Title[f]
            i == Known!IdOf(f)
            r == [event[t] EXCEPT !.id = i, !.fact = f, !.worth = w]
<1>1. event \in [Known!Titles -> EventRow] /\ t \in Known!Titles /\ lastId \in Nat
  BY TopicsAre DEF KnowTyped
<1>2. event[t] \in EventRow
  BY <1>1
<1>3. event[t].id \in Nat /\ (event[t].id = 0 => i = lastId + 1) /\ (event[t].id # 0 => i = event[t].id)
  BY <1>2 DEF EventRow, Known!IdOf
<1>4. es = [event EXCEPT ![t] = r]
  BY DEF Known!EventAdd
<1>5. r.id = i
  BY <1>2 DEF EventRow
<1>6. event[t].id <= lastId
  BY <1>1 DEF KnowBounded, Numbered
<1>. HIDE DEF r, t, i
<1>7. es[t].id = i /\ \A u \in Known!Titles \ {t} : es[u] = event[u]
  BY <1>1, <1>4, <1>5
<1>8. /\ i \in Nat \ {0} /\ last \in Nat /\ lastId <= last /\ i <= last
      /\ last = lastId \/ last = i
  BY <1>1, <1>3 DEF i
<1>9. \A u \in Known!Titles : event[u].id \in 0..lastId
  BY DEF KnowBounded, Numbered
<1>10. Numbered(es, last)
  <2>1. ASSUME NEW u \in Known!Titles PROVE es[u].id \in 0..last
    <3>1. CASE u = t
      BY <1>7, <1>8, <3>1
    <3>2. CASE u # t
      BY <1>1, <1>7, <1>8, <1>9, <3>2
    <3>. QED
      BY <3>1, <3>2
  <2>. QED
    BY <2>1 DEF Numbered
<1>11. ASSUME NEW u \in Known!Titles, u # t PROVE event[u].id # i
  <2>1. CASE event[t].id = 0
    BY <1>1, <1>3, <1>9, <2>1
  <2>2. CASE event[t].id # 0
    BY <1>1, <1>3, <1>11, <2>2 DEF KnowBounded, OneEach
  <2>. QED
    BY <2>1, <2>2
<1>12. OneEach(es)
  <2>1. ASSUME NEW u \in Known!Titles, NEW v \in Known!Titles, es[u].id # 0, es[u].id = es[v].id
        PROVE  u = v
    <3>1. CASE u = t
      BY <1>7, <1>11, <2>1, <3>1
    <3>2. CASE v = t
      BY <1>7, <1>11, <2>1, <3>2
    <3>3. CASE u # t /\ v # t
      BY <1>7, <2>1, <3>3 DEF KnowBounded, OneEach
    <3>. QED
      BY <3>1, <3>2, <3>3
  <2>. QED
    BY <2>1 DEF OneEach
<1>13. lastId <= MaxIds
  BY DEF KnowBounded
<1>14. i <= MaxIds => last <= MaxIds
  BY <1>8, <1>13
<1>15. i \in 1..last
  BY <1>8
<1>. QED
  BY <1>7, <1>8, <1>10, <1>12, <1>14, <1>15 DEF t, i

LEMMA RelatedLinked ==
    ASSUME NEW es, NEW t \in Known!Titles, NEW last \in Nat, es[t].id \in 1..last,
           Numbered(es, last), Linked(related, last), NEW new, new = Known!LinkToExisting(t, es)
    PROVE  Linked(new, last)
<1>1. \A e \in new : e \in related
          \/ \E u \in Known!Titles : es[u].id # 0 /\ e = <<es[t].id, es[u].id>>
  BY DEF Known!LinkToExisting
<1>2. \A u \in Known!Titles : es[u].id # 0 => es[u].id \in 1..last
  BY DEF Numbered
<1>3. \A u \in Known!Titles : es[u].id # 0 => <<es[t].id, es[u].id>> \in (1..last) \X (1..last)
  BY <1>2
<1>. QED
  BY <1>1, <1>3 DEF Linked

LEMMA FollowsLinked ==
    ASSUME NEW es, NEW last \in Nat, NEW id \in 1..last, Numbered(es, last),
           Linked(follows, last), NEW new, new = Known!LinkPrevious(id, es)
    PROVE  Linked(new, last)
<1>1. \A e \in new : e \in follows
          \/ \E u \in Known!Titles : es[u].id # 0 /\ e = <<es[u].id, id>>
  BY DEF Known!LinkPrevious
<1>2. \A u \in Known!Titles : es[u].id # 0 => es[u].id \in 1..last
  BY DEF Numbered
<1>3. \A u \in Known!Titles : es[u].id # 0 => <<es[u].id, id>> \in (1..last) \X (1..last)
  BY <1>2
<1>. QED
  BY <1>1, <1>3 DEF Linked

\* The steps of a chat or of a character that add an event.
LEMMA AddBounded ==
    ASSUME KnowTyped, KnowBounded, NEW f \in Facts, NEW w \in {"low", "some"}, NEW es,
           es = Known!EventAdd(f, w), Known!IdOf(f) <= MaxIds,
           \A t \in Known!Titles : event'[t].id = es[t].id,
           related' = Known!LinkToExisting(Title[f], es),
           follows' = Known!LinkPrevious(Known!IdOf(f), es),
           lastId' = IF Known!IdOf(f) > lastId THEN Known!IdOf(f) ELSE lastId,
           night' = night, queue' = queue, edits' \in {edits, edits + 1}, edits' <= MaxChanges
    PROVE  KnowBounded'
<1>1. /\ lastId' \in Nat /\ lastId <= lastId' /\ lastId' <= MaxIds
      /\ Known!IdOf(f) \in 1..lastId' /\ Numbered(es, lastId') /\ OneEach(es)
      /\ es[Title[f]].id = Known!IdOf(f)
  BY EventNumbered
<1>2. lastId \in Nat /\ Title[f] \in Known!Titles
  BY TopicsAre DEF KnowTyped
<1>3. Linked(follows, lastId') /\ Linked(related, lastId') /\ NightLinked(night, lastId')
  BY <1>1, <1>2, LinkedFurther DEF KnowBounded
<1>4. Linked(related', lastId')
  BY <1>1, <1>2, <1>3, RelatedLinked
<1>5. Linked(follows', lastId')
  BY <1>1, <1>2, <1>3, FollowsLinked
<1>6. Numbered(event', lastId') /\ OneEach(event')
  BY <1>1 DEF Numbered, OneEach
<1>7. edits' \in 0..MaxChanges /\ Len(queue') <= edits'
  <2>1. edits \in 0..MaxChanges /\ Len(queue) <= edits /\ MaxChanges \in Nat /\ Len(queue) \in Nat
    BY BoundsAssumption DEF KnowBounded, KnowTyped
  <2>. QED
    BY <2>1
<1>. QED
  BY <1>1, <1>3, <1>4, <1>5, <1>6, <1>7 DEF KnowBounded

\* No event and no relation is added; those there are may go.
LEMMA FewerBounded ==
    ASSUME KnowTyped, KnowBounded, lastId' = lastId, edits' = edits, Len(queue') <= edits,
           \A t \in Known!Titles : event'[t].id = event[t].id \/ event'[t].id = 0,
           Linked(follows', lastId), Linked(related', lastId), NightLinked(night', lastId)
    PROVE  KnowBounded'
<1>1. Numbered(event', lastId) /\ OneEach(event')
  <2>1. lastId \in Nat
    BY DEF KnowTyped
  <2>. QED
    BY <2>1 DEF KnowBounded, Numbered, OneEach
<1>. QED
  BY <1>1 DEF KnowBounded

LEMMA ChatBounded ==
    ASSUME KnowInv, KnowBounded, NEW f \in Facts,
           \/ \E w \in {"low", "some"} : Known!Learn(f, w)
           \/ Known!Correct(f) \/ Known!Forget(f) \/ Known!AddFact(f)
    PROVE  KnowBounded'
<1>. DEFINE E == edits < MaxChanges /\ edits' = edits + 1
<1>1. /\ KnowTyped /\ Title[f] \in Known!Titles /\ edits \in 0..MaxChanges /\ MaxChanges \in Nat
      /\ Len(queue) \in Nat
  BY TopicsAre, BoundsAssumption DEF KnowInv, KnowBounded, KnowTyped
<1>2. ASSUME NEW w \in {"low", "some"}, Known!Learn(f, w) PROVE KnowBounded'
  <2>. DEFINE es == Known!EventAdd(f, w)
  <2>1. /\ E /\ Known!IdOf(f) <= MaxIds
        /\ event' = [es EXCEPT ![Title[f]].topic = TopicOf[f]]
        /\ related' = Known!LinkToExisting(Title[f], es)
        /\ follows' = Known!LinkPrevious(Known!IdOf(f), es)
        /\ lastId' = IF Known!IdOf(f) > lastId THEN Known!IdOf(f) ELSE lastId
        /\ UNCHANGED <<queue, night>>
    BY <1>2 DEF Known!Learn, Known!Edit, Known!queueVars
  <2>2. es \in [Known!Titles -> EventRow]
    BY <1>1, EventAdded
  <2>. HIDE DEF es
  <2>3. \A t \in Known!Titles : event'[t].id = es[t].id
    <3>. DEFINE r == [es[Title[f]] EXCEPT !.topic = TopicOf[f]]
    <3>1. es[Title[f]] \in EventRow
      BY <1>1, <2>2
    <3>2. r.id = es[Title[f]].id
      BY <3>1 DEF EventRow
    <3>3. event' = [es EXCEPT ![Title[f]] = r]
      BY <2>1
    <3>. HIDE DEF r
    <3>. QED
      BY <1>1, <2>2, <3>2, <3>3
  <2>4. edits' \in {edits, edits + 1} /\ edits' <= MaxChanges
    BY <1>1, <2>1
  <2>5. es = Known!EventAdd(f, w)
    BY DEF es
  <2>. QED
    BY <1>1, <2>1, <2>3, <2>4, <2>5, AddBounded
<1>3. CASE Known!AddFact(f)
  <2>. DEFINE es == Known!EventAdd(f, "some")
  <2>1. /\ Known!IdOf(f) <= MaxIds /\ event' = es
        /\ related' = Known!LinkToExisting(Title[f], es)
        /\ follows' = Known!LinkPrevious(Known!IdOf(f), es)
        /\ lastId' = IF Known!IdOf(f) > lastId THEN Known!IdOf(f) ELSE lastId
        /\ UNCHANGED <<queue, night, edits>>
    BY <1>3 DEF Known!AddFact, Known!queueVars
  <2>2. es = Known!EventAdd(f, "some")
    OBVIOUS
  <2>. HIDE DEF es
  <2>3. edits' \in {edits, edits + 1} /\ edits' <= MaxChanges
    BY <1>1, <2>1
  <2>. QED
    BY <1>1, <2>1, <2>2, <2>3, AddBounded
<1>4. CASE Known!Correct(f) \/ Known!Forget(f)
  <2>1. /\ E /\ queue' \in {queue, Append(queue, f)}
        /\ UNCHANGED <<event, lastId, follows, related, night>>
    BY <1>4 DEF Known!Correct, Known!Forget, Known!Edit, Known!graphVars, Known!queueVars
  <2>2. Len(queue') <= Len(queue) + 1 /\ Len(queue') \in Nat
    BY <1>1, <2>1 DEF KnowTyped
  <2>3. edits' \in 0..MaxChanges /\ Len(queue') <= edits'
    BY <1>1, <2>1, <2>2 DEF KnowBounded
  <2>. QED
    BY <2>1, <2>3 DEF KnowBounded
<1>. QED
  BY <1>2, <1>3, <1>4

LEMMA QueueBounded ==
    ASSUME KnowInv, KnowBounded,
           \/ Known!ReconcileRead \/ Known!ReconcileClear \/ Known!Crash
           \/ \E fs : Known!Rebuild(fs)
    PROVE  KnowBounded'
<1>1. KnowTyped /\ edits \in 0..MaxChanges /\ MaxChanges \in Nat
  BY BoundsAssumption DEF KnowInv, KnowBounded
<1>2. CASE Known!ReconcileRead \/ Known!ReconcileClear \/ Known!Crash
  <2>1. /\ queue' \in {queue, <<>>} /\ UNCHANGED <<event, lastId, follows, related, night, edits>>
    BY <1>2 DEF Known!ReconcileRead, Known!ReconcileClear, Known!Crash, Known!graphVars,
                Known!queueVars
  <2>2. Len(queue') <= edits
    BY <1>1, <2>1 DEF KnowBounded
  <2>. QED
    BY <2>1, <2>2 DEF KnowBounded
<1>3. ASSUME NEW fs, Known!Rebuild(fs) PROVE KnowBounded'
  <2>1. /\ edits < MaxChanges /\ edits' = edits + 1 /\ follows' \subseteq follows
        /\ related' \subseteq related /\ event' = [t \in Known!Titles |-> Known!NoEvent]
        /\ UNCHANGED <<lastId, queue, night>>
    BY <1>3 DEF Known!Rebuild, Known!Edit, Known!queueVars
  <2>2. \A t \in Known!Titles : event'[t].id = 0
    BY <2>1, TopicsAre
  <2>3. edits' \in 0..MaxChanges /\ Len(queue') <= edits'
    <3>1. Len(queue) <= edits /\ Len(queue) \in Nat
      BY <1>1 DEF KnowBounded, KnowTyped
    <3>. QED
      BY <1>1, <2>1, <3>1
  <2>4. Numbered(event', lastId) /\ OneEach(event')
    <3>1. lastId \in Nat
      BY <1>1 DEF KnowTyped
    <3>. QED
      BY <2>2, <3>1 DEF Numbered, OneEach
  <2>5. Linked(follows', lastId) /\ Linked(related', lastId)
    BY <2>1 DEF KnowBounded, Linked
  <2>. QED
    BY <2>1, <2>3, <2>4, <2>5 DEF KnowBounded
<1>. QED
  BY <1>2, <1>3

LEMMA BuildBounded ==
    ASSUME KnowInv, KnowBounded, NEW f \in Facts, Known!BuildGraph(f)
    PROVE  KnowBounded'
<1>1. /\ KnowTyped /\ Title[f] \in Known!Titles /\ night.phase = "graph" /\ night.at = 0
      /\ queue' = queue /\ edits' = edits /\ follows' = follows /\ lastId \in Nat
  BY TopicsAre DEF KnowInv, KnowTyped, Known!BuildGraph, Known!Phase, Known!chatVars,
                   Known!queueVars
<1>2. CASE Known!HasEvent(f)
  <2>1. night' = [night EXCEPT !.todo = @ \ {f}, !.at = 0] /\ UNCHANGED <<event, lastId, related>>
    BY <1>2 DEF Known!BuildGraph, Known!Done
  <2>2. night' = [phase |-> night.phase, todo |-> night.todo \ {f}, at |-> 0]
    BY <1>1, <2>1 DEF KnowTyped
  <2>3. NightLinked(night', lastId)
    BY <1>1, <2>2 DEF NightLinked
  <2>. QED
    BY <1>1, <2>1, <2>3 DEF KnowBounded
<1>3. CASE ~Known!HasEvent(f)
  <2>1. /\ event' = Known!EventAdd(f, "some") /\ lastId' = lastId + 1
        /\ related' = Known!LinkToExisting(Title[f], event') /\ Known!IdOf(f) <= MaxIds
        /\ night' = [phase |-> "graph", todo |-> night.todo \ {f}, at |-> lastId + 1]
    BY <1>3 DEF Known!BuildGraph
  <2>2. Known!IdOf(f) = lastId + 1
    BY <1>1, <1>3 DEF Known!HasEvent, Known!Known, Known!IdOf
  <2>3. lastId' = IF Known!IdOf(f) > lastId THEN Known!IdOf(f) ELSE lastId
    BY <1>1, <2>1, <2>2
  <2>4. /\ lastId' \in Nat /\ lastId <= lastId' /\ lastId' <= MaxIds
        /\ Known!IdOf(f) \in 1..lastId' /\ Numbered(event', lastId') /\ OneEach(event')
        /\ event'[Title[f]].id = Known!IdOf(f)
    BY <1>1, <2>1, <2>3, EventNumbered
  <2>5. Linked(follows, lastId') /\ Linked(related, lastId')
    BY <1>1, <2>4, LinkedFurther DEF KnowBounded
  <2>6. Linked(related', lastId')
    BY <1>1, <2>1, <2>4, <2>5, RelatedLinked
  <2>7. NightLinked(night', lastId')
    <3>1. night'.phase = "graph" /\ night'.at = lastId'
      BY <2>1
    <3>. QED
      BY <2>4, <3>1 DEF NightLinked
  <2>. QED
    BY <1>1, <2>4, <2>5, <2>6, <2>7 DEF KnowBounded
<1>. QED
  BY <1>2, <1>3

LEMMA NightBounded ==
    ASSUME KnowInv, KnowBounded,
           \/ Known!BuildLink \/ \E p \in night.todo : Known!LinkFollows(p)
           \/ \E t \in Known!Titles : Known!BuildTopic(t)
           \/ Known!DeleteOrphan
    PROVE  KnowBounded'
<1>1. KnowTyped /\ queue' = queue /\ edits' = edits /\ lastId' = lastId /\ lastId \in Nat
  BY DEF KnowInv, KnowTyped, Known!BuildLink, Known!LinkFollows, Known!BuildTopic,
         Known!DeleteOrphan, Known!chatVars, Known!queueVars
<1>2. /\ night = [phase |-> night.phase, todo |-> night.todo, at |-> night.at]
      /\ Numbered(event, lastId) /\ Len(queue) <= edits
      /\ Linked(follows, lastId) /\ Linked(related, lastId) /\ NightLinked(night, lastId)
  BY <1>1 DEF KnowTyped, KnowBounded
<1>3. CASE Known!BuildLink
  <2>1. /\ night.phase = "graph" /\ night.at # 0 /\ follows' = Known!LinkPrevious(night.at, event)
        /\ night' = [night EXCEPT !.at = 0] /\ UNCHANGED <<event, related>>
    BY <1>3 DEF Known!BuildLink
  <2>2. night.at \in 1..lastId
    BY <1>1, <1>2, <2>1 DEF NightLinked
  <2>3. Linked(follows', lastId)
    BY <1>1, <1>2, <2>1, <2>2, FollowsLinked
  <2>4. night' = [phase |-> night.phase, todo |-> night.todo, at |-> 0]
    BY <1>2, <2>1
  <2>5. NightLinked(night', lastId)
    BY <1>1, <2>1, <2>4 DEF NightLinked
  <2>. QED
    BY <1>1, <1>2, <2>1, <2>3, <2>5, FewerBounded
<1>4. ASSUME NEW p \in night.todo, Known!LinkFollows(p) PROVE KnowBounded'
  <2>1. /\ night.phase = "timeline" /\ follows' \subseteq follows \cup {p}
        /\ night' = [night EXCEPT !.todo = @ \ {p}, !.at = 0] /\ UNCHANGED <<event, related>>
    BY <1>4 DEF Known!LinkFollows, Known!Phase, Known!Done
  <2>2. Linked(night.todo, lastId)
    BY <1>2, <2>1 DEF NightLinked
  <2>3. Linked(follows', lastId)
    BY <1>2, <2>1, <2>2 DEF Linked
  <2>4. night' = [phase |-> night.phase, todo |-> night.todo \ {p}, at |-> 0]
    BY <1>2, <2>1
  <2>5. NightLinked(night', lastId)
    BY <2>1, <2>2, <2>4 DEF NightLinked, Linked
  <2>. QED
    BY <1>1, <1>2, <2>1, <2>3, <2>5, FewerBounded
<1>5. ASSUME NEW t \in Known!Titles, Known!BuildTopic(t) PROVE KnowBounded'
  <2>1. /\ night.phase = "topics" /\ night' = [night EXCEPT !.todo = @ \ {t}, !.at = 0]
        /\ UNCHANGED <<follows, related>>
        /\ event' = IF t \in Known!Known THEN [event EXCEPT ![t].topic = TopicOf[t]] ELSE event
    BY <1>5 DEF Known!BuildTopic, Known!Phase, Known!Done
  <2>2. \A u \in Known!Titles : event'[u].id = event[u].id
    <3>. DEFINE r == [event[t] EXCEPT !.topic = TopicOf[t]]
    <3>1. event \in [Known!Titles -> EventRow] /\ event[t] \in EventRow
      BY <1>1 DEF KnowTyped
    <3>2. r.id = event[t].id
      BY <3>1 DEF EventRow
    <3>3. event' = event \/ event' = [event EXCEPT ![t] = r]
      BY <2>1
    <3>. HIDE DEF r
    <3>. QED
      BY <3>1, <3>2, <3>3
  <2>3. night' = [phase |-> night.phase, todo |-> night.todo \ {t}, at |-> 0]
    BY <1>2, <2>1
  <2>4. NightLinked(night', lastId)
    BY <2>1, <2>3 DEF NightLinked
  <2>. QED
    BY <1>1, <1>2, <2>1, <2>2, <2>4, FewerBounded
<1>6. CASE Known!DeleteOrphan
  <2>1. /\ night.phase = "orphans" /\ night' = [night EXCEPT !.at = 0]
        /\ event' = [t \in Known!Titles |-> IF event[t].id = night.at THEN Known!NoEvent ELSE event[t]]
        /\ follows' \subseteq follows /\ related' \subseteq related
    BY <1>6 DEF Known!DeleteOrphan, Known!Without
  <2>2. \A u \in Known!Titles : event'[u].id = event[u].id \/ event'[u].id = 0
    BY <2>1, TopicsAre
  <2>3. night' = [phase |-> night.phase, todo |-> night.todo, at |-> 0]
    BY <1>2, <2>1
  <2>4. NightLinked(night', lastId)
    BY <2>1, <2>3 DEF NightLinked
  <2>5. Linked(follows', lastId) /\ Linked(related', lastId)
    BY <1>2, <2>1 DEF Linked
  <2>. QED
    BY <1>1, <1>2, <2>2, <2>4, <2>5, FewerBounded
<1>. QED
  BY <1>3, <1>4, <1>5, <1>6

\* The pairs of the timeline are of ids given out.
LEMMA TimelineLinked == KnowTyped /\ KnowBounded => Linked(Known!Consecutive, lastId)
<1>. SUFFICES ASSUME KnowTyped, KnowBounded PROVE Linked(Known!Consecutive, lastId)
  OBVIOUS
<1>1. \A i \in Known!Ids : i \in 1..lastId
  <2>1. \A t \in Known!Titles : event[t].id \in 0..lastId
    BY DEF KnowBounded, Numbered
  <2>2. lastId \in Nat
    BY DEF KnowTyped
  <2>. QED
    BY <2>1, <2>2 DEF Known!Ids, Known!Known
<1>2. Known!Consecutive \subseteq Known!Ids \X Known!Ids
  BY DEF Known!Consecutive
<1>. QED
  BY <1>1, <1>2 DEF Linked

LEMMA PlanBounded ==
    ASSUME KnowInv, KnowBounded,
           \/ Known!NightBegins \/ Known!TimelineBegins \/ Known!TopicsBegin \/ Known!OrphansBegin
           \/ Known!EntitiesBegin \/ Known!NightEnds
           \/ \E t \in Known!Titles : Known!BuildEntity(t)
           \/ \E id \in 1..MaxIds : Known!CheckOrphan(id)
    PROVE  KnowBounded'
<1>1. KnowTyped /\ UNCHANGED <<queue, edits, event, lastId, follows, related>> /\ lastId \in Nat
  BY DEF KnowInv, KnowTyped, Known!NightBegins, Known!TimelineBegins, Known!TopicsBegin,
     Known!OrphansBegin, Known!EntitiesBegin, Known!NightEnds, Known!BuildEntity,
     Known!CheckOrphan, Known!chatVars, Known!queueVars, Known!graphVars
<1>2. night = [phase |-> night.phase, todo |-> night.todo, at |-> night.at]
  BY <1>1 DEF KnowTyped
<1>3. ASSUME NEW p, NEW s, Known!To(p, s), p = "timeline" => Linked(s, lastId)
      PROVE  NightLinked(night', lastId)
  <2>1. night' = [phase |-> p, todo |-> s, at |-> 0]
    BY <1>3 DEF Known!To
  <2>. QED
    BY <1>1, <1>3, <2>1 DEF NightLinked
<1>4. ASSUME Known!TimelineBegins PROVE NightLinked(night', lastId)
  BY <1>1, <1>3, <1>4, TimelineLinked DEF Known!TimelineBegins
<1>5. ASSUME \/ Known!NightBegins \/ Known!TopicsBegin \/ Known!OrphansBegin
             \/ Known!EntitiesBegin
      PROVE  NightLinked(night', lastId)
  BY <1>3, <1>5 DEF Known!NightBegins, Known!TopicsBegin, Known!OrphansBegin,
                    Known!EntitiesBegin
<1>6. ASSUME Known!NightEnds PROVE NightLinked(night', lastId)
  BY <1>6 DEF Known!NightEnds, Known!Awake, NightLinked
<1>7. ASSUME NEW t \in Known!Titles, Known!BuildEntity(t) PROVE NightLinked(night', lastId)
  <2>1. night.phase = "entities" /\ night' = [night EXCEPT !.todo = @ \ {t}, !.at = 0]
    BY <1>7 DEF Known!BuildEntity, Known!Phase, Known!Done
  <2>2. night' = [phase |-> night.phase, todo |-> night.todo \ {t}, at |-> 0]
    BY <1>2, <2>1
  <2>. QED
    BY <2>1, <2>2 DEF NightLinked
<1>8. ASSUME NEW id \in 1..MaxIds, Known!CheckOrphan(id) PROVE NightLinked(night', lastId)
  <2>1. night.phase = "orphans" /\ \E a : night' = [night EXCEPT !.todo = @ \ {id}, !.at = a]
    BY <1>8 DEF Known!CheckOrphan, Known!Phase, Known!Done
  <2>2. \E a : night' = [phase |-> night.phase, todo |-> night.todo \ {id}, at |-> a]
    BY <1>2, <2>1
  <2>. QED
    BY <2>1, <2>2 DEF NightLinked
<1>9. NightLinked(night', lastId)
  BY <1>4, <1>5, <1>6, <1>7, <1>8
<1>. QED
  BY <1>1, <1>9 DEF KnowBounded

LEMMA KnowBoundedGoesOn == ASSUME KnowInv, KnowBounded, Known!Next PROVE KnowBounded'
BY ChatBounded, QueueBounded, BuildBounded, NightBounded, PlanBounded DEF Known!Next

LEMMA KnowBoundedSame ==
    ASSUME KnowBounded, UNCHANGED <<knowledgeVars, edits>> PROVE KnowBounded'
BY DEF knowledgeVars, KnowBounded

LEMMA KnowTypesRight == KnowInv /\ KnowBounded => Known!TypeOK
<1>. SUFFICES ASSUME KnowInv, KnowBounded PROVE Known!TypeOK
  OBVIOUS
<1>1. \A t \in Known!Titles : event[t] \in EventRow
  BY DEF KnowInv, KnowTyped
<1>2. \A t \in Known!Titles : /\ event[t].fact \in Facts \cup {""}
                              /\ event[t].topic \in {TopicOf[x] : x \in DOMAIN TopicOf} \cup {""}
  BY <1>1 DEF EventRow, Topics
<1>3. follows \cup related \subseteq (1..lastId) \X (1..lastId)
  BY DEF KnowBounded, Linked
<1>4. \A t \in Known!Titles : event[t].id \in 0..lastId
  BY DEF KnowBounded, Numbered
<1>5. \A t, u \in Known!Known : event[t].id = event[u].id => t = u
  BY DEF KnowBounded, OneEach, Known!Known
<1>6. Len(queue) <= MaxChanges
  <2>1. Len(queue) <= edits /\ edits \in 0..MaxChanges /\ MaxChanges \in Nat /\ Len(queue) \in Nat
    BY BoundsAssumption DEF KnowBounded, KnowInv, KnowTyped
  <2>. QED
    BY <2>1
<1>7. lastId <= MaxIds /\ reading \subseteq Facts
      /\ night.phase \in {"idle", "graph", "timeline", "topics", "orphans", "entities"}
  BY DEF KnowBounded, KnowInv, KnowTyped, Stages
<1>. QED
  BY <1>2, <1>3, <1>4, <1>5, <1>6, <1>7 DEF Known!TypeOK

-----------------------------------------------------------------------------
(* The types of dates *)

\* The range of a phrase has a day.
LEMMA RangeHasDays ==
    ASSUME NEW d \in Today, NEW p \in Dated!Phrases,
           NEW r, r = Dated!DaysOf(p[1], p[2], d)
    PROVE  r[1] \in Int /\ r[2] \in Int /\ r[1] < r[2]
<1>1. r[1] \in Int /\ r[2] \in Int /\ d \in Int
  BY PhraseSays, TodayIs DEF Says
<1>2. CASE p[1] \in {"today", "yesterday", "day_before", "some_days_ago"}
  <2>1. r = <<d - 7, d>> \/ \E x : r = <<x, x + 1>>
    BY <1>2 DEF Dated!DaysOf, Dated!DayRange
  <2>. QED
    BY <1>1, <2>1
<1>3. CASE p[1] \in {"this_week", "weekend", "next_weekend"}
  <2>1. Dated!Monday(d) \in Int
    BY <1>1, WeekAfter
  <2>. DEFINE monday == Dated!Monday(d)
  <2>2. r \in {<<monday + 0, monday + 0 + 7>>, <<monday + 5, monday + 7>>,
               <<monday + 12, monday + 14>>}
    BY <1>3 DEF Dated!DaysOf, Dated!WeekRange
  <2>. HIDE DEF monday
  <2>. QED
    BY <2>1, <2>2 DEF monday
<1>4. CASE p[1] \in {"last_week", "next_week", "week_after_next"}
  <2>1. Dated!Monday(d) \in Int
    BY <1>1, WeekAfter
  <2>2. p[2] \in -1..6
    BY <1>4 DEF Dated!Phrases, Dated!Weeks
  <2>3. PICK k \in {-7, 7, 14} : r = Dated!WeekRange(d, k, p[2])
    BY <1>4 DEF Dated!DaysOf
  <2>. QED
    BY <1>1, <2>1, <2>2, <2>3 DEF Dated!WeekRange, Dated!DayRange
<1>5. CASE p[1] = "last_month"
  <2>. DEFINE m == Dated!MonthOf(d)
  <2>1. Around(d, m)
    BY MonthsAround
  <2>. HIDE DEF m
  <2>2. /\ First[m - 1] \in Nat /\ First[m] \in Nat /\ First[m] >= First[m - 1] + 28
        /\ m - 1 \in Dated!Months /\ (m - 1) + 1 = m
    BY <2>1 DEF Around
  <2>3. InMonth(First[m] - 1, m - 1) /\ First[m] - 1 \in Int
    BY <2>2 DEF InMonth
  <2>4. Dated!MonthOf(First[m] - 1) = m - 1
    BY <2>2, <2>3, MonthIs
  <2>5. r = <<First[m - 1], First[m]>>
    BY <1>5, <2>4 DEF Dated!DaysOf, m
  <2>. QED
    BY <2>2, <2>5
<1>6. CASE p[1] = "next_month"
  <2>. DEFINE q == Dated!MonthOf(d) + 1
  <2>1. CASE p[2] > 0
    BY <1>1, <1>6, <2>1 DEF Dated!DaysOf, Dated!NextMonth, Dated!DayRange
  <2>2. CASE ~(p[2] > 0)
    <3>1. /\ First[q] \in Nat /\ First[q + 1] \in Nat /\ First[q + 1] >= First[q] + 28
      BY MonthsAround DEF Around
    <3>2. r = <<First[q], First[q + 1] - 1 + 1>>
      BY <1>6, <2>2 DEF Dated!DaysOf, Dated!NextMonth, Dated!MonthEnd
    <3>. QED
      BY <3>1, <3>2
  <2>. QED
    BY <2>1, <2>2
<1>7. CASE p[1] = "month_end"
  <2>. DEFINE end == Dated!MonthEnd(Dated!MonthOf(d))
  <2>1. end \in Int
    BY MonthsAround DEF Around, Dated!MonthEnd
  <2>2. r = <<end - 6, end + 1>> \/ \E x : r = <<x, x + 1>>
    BY <1>7 DEF Dated!DaysOf, Dated!MonthEndRange, Dated!DayRange
  <2>. QED
    BY <1>1, <2>1, <2>2
<1>. QED
  BY <1>2, <1>3, <1>4, <1>5, <1>6, <1>7 DEF Dated!Phrases, Dated!Weeks

\* It is in the calendar.
LEMMA RangeInCalendar ==
    ASSUME NEW d \in Today, NEW p \in Dated!Phrases,
           NEW r, r = Dated!DaysOf(p[1], p[2], d)
    PROVE  r[1] \in 0..Dated!Horizon /\ r[2] \in 1..(Dated!Horizon + 1)
<1>. DEFINE a == r[1]
            b == r[2]
            S == Dated!Meant(p[1], p[2], d)
<1>1. a \in Int /\ b \in Int /\ a < b
  BY RangeHasDays
<1>2. a..(b - 1) = S
  BY PhraseSays DEF Says
<1>3. \A x \in S : x \in 0..Dated!Horizon
  BY Zenon DEF Dated!Meant
<1>4. Dated!Horizon \in Nat
  BY TodayIs
<1>. HIDE DEF a, b, S
<1>5. a \in S /\ b - 1 \in S
  BY <1>1, <1>2
<1>6. a \in 0..Dated!Horizon /\ b - 1 \in 0..Dated!Horizon
  BY <1>3, <1>5
<1>. QED
  BY <1>1, <1>4, <1>6 DEF a, b

\* So is the day of an appointment, unless there is none.
LEMMA BookedInCalendar ==
    ASSUME NEW d \in Today, NEW p \in Dated!Appointments
    PROVE  Dated!ParseDt(p[1], p[2], d) \subseteq (0..Dated!Horizon) \cup Dated!Failed
<1>. DEFINE H == Dated!Horizon
            n == p[2]
<1>1. d \in Nat /\ H \in Nat /\ d + 20 <= H
  BY TodayIs
<1>2. CASE p[1] = "on_the"
  <2>. DEFINE m == Dated!MonthOf(d)
              b == First[m]
              c == First[m + 1]
              e == First[m + 2]
  <2>1. n \in 1..31
    <3>1. n \in Numbers
      BY <1>2 DEF Dated!Appointments
    <3>. QED
      BY <3>1, CalendarIs
  <2>2. Around(d, m)
    BY MonthsAround
  <2>. HIDE DEF m, n, H
  <2>3. /\ b \in Nat /\ c \in Nat /\ e \in Nat /\ e <= H + 1
        /\ c = b + Dated!LengthOf(m) /\ Dated!LengthOf(m) \in 28..31
        /\ e = c + Dated!LengthOf(m + 1) /\ Dated!LengthOf(m + 1) \in 28..31
        /\ m + 1 \in Dated!Months /\ (m + 1) + 1 = m + 2
    BY <2>2 DEF Around, H
  <2>4. Dated!MonthOf(b + 32) = m + 1
    <3>1. c <= b + 32 /\ b + 32 < First[(m + 1) + 1] /\ b + 32 \in Int
      <4>. HIDE DEF b, c, e
      <4>1. c <= b + 32 /\ b + 32 < e /\ b + 32 \in Int
        BY <2>3
      <4>. QED
        BY <2>3, <4>1 DEF e
    <3>. QED
      BY <2>3, <3>1, MonthIs DEF InMonth
  <2>5. Dated!ParseDt(p[1], n, d) = Dated!OnThe(d, n)
    BY <1>2 DEF Dated!ParseDt
  <2>6. CASE n <= Dated!LengthOf(m) /\ b + n - 1 >= d
    <3>1. Dated!OnThe(d, n) = {b + n - 1}
      BY <2>1, <2>3, <2>6 DEF Dated!OnThe, m, b
    <3>. HIDE DEF b, c, e
    <3>2. b + n - 1 \in 0..H
      BY <1>1, <2>1, <2>3, <2>6
    <3>. QED
      BY <2>5, <3>1, <3>2 DEF n, H
  <2>7. CASE n <= Dated!LengthOf(m) /\ ~(b + n - 1 >= d) /\ n <= Dated!LengthOf(m + 1)
    <3>1. Dated!OnThe(d, n) = {c + n - 1}
      BY <2>1, <2>3, <2>4, <2>7 DEF Dated!OnThe, m, b, c
    <3>. HIDE DEF b, c, e
    <3>2. c + n - 1 \in 0..H
      BY <1>1, <2>1, <2>3, <2>7
    <3>. QED
      BY <2>5, <3>1, <3>2 DEF n, H
  <2>8. CASE n > Dated!LengthOf(m)
             \/ (~(b + n - 1 >= d) /\ n > Dated!LengthOf(m + 1))
    <3>1. Dated!OnThe(d, n) = Dated!Failed
      BY <2>1, <2>3, <2>4, <2>8 DEF Dated!OnThe, m, b
    <3>. QED
      BY <2>5, <3>1 DEF n
  <2>. QED
    BY <2>1, <2>3, <2>6, <2>7, <2>8
<1>3. CASE p[1] = "on_weekday"
  <2>. DEFINE k == (n - Dated!Weekday(d)) % 7
              r == d + IF k = 0 THEN 7 ELSE k
  <2>1. n \in 0..6
    BY <1>3 DEF Dated!Appointments
  <2>2. k \in 0..6
    BY <1>1, <2>1, WeekdayFrom
  <2>3. Dated!ParseDt(p[1], p[2], d) = {r}
    BY <1>3 DEF Dated!ParseDt, Dated!NextWeekday
  <2>. HIDE DEF k, H
  <2>4. r \in 0..H
    BY <1>1, <2>2
  <2>. QED
    BY <2>3, <2>4 DEF H
<1>4. CASE p[1] = "in_days"
  <2>1. n \in 0..2
    BY <1>4 DEF Dated!Appointments
  <2>2. Dated!ParseDt(p[1], p[2], d) = {d + n}
    BY <1>4 DEF Dated!ParseDt
  <2>. HIDE DEF n, H
  <2>3. d + n \in 0..H
    BY <1>1, <2>1
  <2>. QED
    BY <2>2, <2>3 DEF n, H
<1>5. CASE p[1] = "at_the_end_of_the_month"
  BY <1>5 DEF Dated!ParseDt
<1>. QED
  BY <1>2, <1>3, <1>4, <1>5 DEF Dated!Appointments

\* It is later than it was when something was told, and the days of it are in the calendar.
DatesBounded ==
    /\ later \in 0..MaxLater /\ \E d \in Today : today = d + later
    /\ dated = {} => today \in Today
    /\ \A e \in dated : /\ e[1] \in Dated!Phrases
                        /\ e[3] \in 0..Dated!Horizon /\ e[4] \in 1..(Dated!Horizon + 1)
    /\ \A b \in booked : /\ b[1] \in Dated!Appointments
                         /\ b[3] \subseteq (0..Dated!Horizon) \cup Dated!Failed

LEMMA DatesBoundedStart == Dated!Init => DatesBounded
<1>. SUFFICES ASSUME Dated!Init PROVE DatesBounded
  OBVIOUS
<1>1. today \in Today /\ dated = {} /\ booked = {} /\ later = 0
  BY DEF Dated!Init
<1>2. today \in Nat /\ MaxLater \in Nat
  BY <1>1, TodayIs, BoundsAssumption
<1>3. later \in 0..MaxLater /\ today = today + later
  BY <1>1, <1>2
<1>. QED
  BY <1>1, <1>3 DEF DatesBounded

LEMMA DatesBoundedGoOn == ASSUME DatesBounded, Dated!Next PROVE DatesBounded'
<1>1. ASSUME NEW p \in Dated!Phrases, Dated!Tell(p) PROVE DatesBounded'
  <2>. DEFINE r == Dated!DaysOf(p[1], p[2], today)
  <2>1. today \in Today /\ dated' = {<<p, today, r[1], r[2]>>} /\ UNCHANGED <<today, booked, later>>
    BY <1>1 DEF Dated!Tell, DatesBounded
  <2>2. r[1] \in 0..Dated!Horizon /\ r[2] \in 1..(Dated!Horizon + 1)
    BY <2>1, RangeInCalendar
  <2>. HIDE DEF r
  <2>3. \A e \in dated' : /\ e[1] \in Dated!Phrases
                          /\ e[3] \in 0..Dated!Horizon /\ e[4] \in 1..(Dated!Horizon + 1)
    BY <2>1, <2>2
  <2>. QED
    BY <2>1, <2>3 DEF DatesBounded
<1>2. ASSUME NEW p \in Dated!Appointments, Dated!Book(p) PROVE DatesBounded'
  <2>. DEFINE r == Dated!ParseDt(p[1], p[2], today)
  <2>1. today \in Today /\ booked' = {<<p, today, r>>} /\ UNCHANGED <<today, dated, later>>
    BY <1>2 DEF Dated!Book, DatesBounded
  <2>2. r \subseteq (0..Dated!Horizon) \cup Dated!Failed
    BY <2>1, BookedInCalendar
  <2>. HIDE DEF r
  <2>3. ASSUME NEW b \in booked'
        PROVE  /\ b[1] \in Dated!Appointments
               /\ b[3] \subseteq (0..Dated!Horizon) \cup Dated!Failed
    <3>1. b[1] = p /\ b[3] = r
      BY <2>1
    <3>. QED
      BY <2>2, <3>1, Zenon
  <2>. QED
    BY <2>1, <2>3 DEF DatesBounded
<1>3. ASSUME NEW e \in dated, Dated!Recall(e) PROVE DatesBounded'
  BY <1>3 DEF Dated!Recall, DatesBounded
<1>4. CASE Dated!NextDay
  <2>1. /\ today' = today + 1 /\ later < MaxLater /\ later' = later + 1 /\ dated # {}
        /\ UNCHANGED <<dated, booked>>
    BY <1>4 DEF Dated!NextDay
  <2>2. PICK d \in Today : today = d + later
    BY DEF DatesBounded
  <2>3. d \in Nat /\ MaxLater \in Nat /\ later \in 0..MaxLater
    BY TodayIs, BoundsAssumption DEF DatesBounded
  <2>4. today' = d + later' /\ later' \in 0..MaxLater
    BY <2>1, <2>2, <2>3
  <2>. QED
    BY <2>1, <2>4 DEF DatesBounded
<1>. QED
  BY <1>1, <1>2, <1>3, <1>4 DEF Dated!Next

LEMMA DatesBoundedSame == ASSUME DatesBounded, UNCHANGED dateVars PROVE DatesBounded'
BY DEF dateVars, DatesBounded

LEMMA DatesTypesRight == DatesBounded => Dated!TypeOK
<1>. SUFFICES ASSUME DatesBounded PROVE Dated!TypeOK
  OBVIOUS
<1>1. PICK d \in Today : today = d + later
  BY DEF DatesBounded
<1>2. later \in 0..MaxLater /\ MaxLater \in Nat /\ d \in Nat /\ d + MaxLater <= Dated!Horizon
      /\ Dated!Horizon \in Nat
  BY TodayIs, BoundsAssumption DEF DatesBounded
<1>3. today \in 0..Dated!Horizon
  BY <1>1, <1>2
<1>. QED
  BY <1>3 DEF DatesBounded, Dated!TypeOK

-----------------------------------------------------------------------------
(* One component at a time *)

\* While a component is in focus its invariant holds.
RecordsInv ==
    /\ focus = "retrieval" => RetrievalInv
    /\ focus = "turns" => TurnsInv
    /\ focus = "reviews" => ReviewsInv
    /\ focus = "knowledge" => KnowInv
    /\ focus = "upkeep" => UpkeepInv
    /\ focus = "scan" => ScanInv
    /\ focus = "beliefs" => BeliefsInv
    /\ focus = "dates" => DatesInv

LEMMA RecordsStart == Init => RecordsInv
<1>1. Init => RetrievalInv /\ TurnsInv /\ ReviewsInv
  BY RetrievalStarts, TurnsStart, ReviewsStart
<1>2. Init => KnowInv /\ UpkeepInv /\ ScanInv /\ BeliefsInv /\ DatesInv
  BY KnowStarts, UpkeepStarts, ScanStarts, BeliefsStart, DatesStart DEF Init
<1>. QED
  BY <1>1, <1>2 DEF RecordsInv

\* The step is one of the component in focus.
LEMMA OfTheFocus ==
    ASSUME Next
    PROVE  /\ focus' = focus
           /\ focus = "retrieval" => NextRetrieval
           /\ focus = "turns" => NextTurns
           /\ focus = "reviews" => NextReviews
           /\ focus = "knowledge" => Known!Next
           /\ focus = "upkeep" => Nightly!Next
           /\ focus = "scan" => Scanned!Next
           /\ focus = "beliefs" => Trust!Next
           /\ focus = "dates" => Dated!Next
BY DEF Next, NextRetrieval, NextTurns, NextReviews, NextStorage, NextKnowledge,
       NextUpkeep, NextScan, NextBeliefs, NextDates

LEMMA RecordsGoOn == RecordsInv /\ [Next]_vars => RecordsInv'
<1>. SUFFICES ASSUME RecordsInv, [Next]_vars PROVE RecordsInv'
  OBVIOUS
<1>1. CASE UNCHANGED vars
  <2>1. /\ RetrievalInv => RetrievalInv'
        /\ TurnsInv => TurnsInv'
        /\ ReviewsInv => ReviewsInv'
    BY <1>1, RetrievalSame, TurnsSame, ReviewsSame DEF vars, retrievalVars, turnVars, reviewVars
  <2>2. /\ KnowInv => KnowInv'
        /\ UpkeepInv => UpkeepInv'
        /\ ScanInv => ScanInv'
        /\ BeliefsInv => BeliefsInv'
        /\ DatesInv => DatesInv'
    BY <1>1, KnowSame, UpkeepSame, ScanSame, BeliefsSame, DatesSame DEF vars
  <2>3. focus' = focus
    BY <1>1 DEF vars
  <2>. QED
    BY <2>1, <2>2, <2>3 DEF RecordsInv
<1>2. CASE Next
  <2>1. focus' = focus
    BY <1>2, OfTheFocus
  <2>2. CASE focus = "retrieval"
    BY <1>2, <2>1, <2>2, OfTheFocus, RetrievalGoesOn DEF RecordsInv, NextRetrieval
  <2>3. CASE focus = "turns"
    BY <1>2, <2>1, <2>3, OfTheFocus, TurnsGoOn DEF RecordsInv, NextTurns
  <2>4. CASE focus = "reviews"
    BY <1>2, <2>1, <2>4, OfTheFocus, ReviewsGoOn DEF RecordsInv, NextReviews
  <2>5. CASE focus = "knowledge"
    BY <1>2, <2>1, <2>5, OfTheFocus, KnowGoesOn DEF RecordsInv
  <2>6. CASE focus = "upkeep"
    BY <1>2, <2>1, <2>6, OfTheFocus, UpkeepGoesOn DEF RecordsInv
  <2>7. CASE focus = "scan"
    BY <1>2, <2>1, <2>7, OfTheFocus, ScanGoesOn DEF RecordsInv
  <2>8. CASE focus = "beliefs"
    BY <1>2, <2>1, <2>8, OfTheFocus, BeliefsGoOn DEF RecordsInv
  <2>9. CASE focus = "dates"
    BY <1>2, <2>1, <2>9, OfTheFocus, DatesGoOn DEF RecordsInv
  <2>10. CASE focus \notin {"retrieval", "turns", "reviews", "knowledge", "upkeep", "scan",
                            "beliefs", "dates"}
    BY <2>1, <2>10 DEF RecordsInv
  <2>. QED
    BY <2>2, <2>3, <2>4, <2>5, <2>6, <2>7, <2>8, <2>9, <2>10
<1>. QED
  BY <1>1, <1>2

LEMMA RecordsRight ==
    RecordsInv => SearchIsCurrent /\ SessionsAndScoresHold /\ KnowledgeFollows /\ DatesAreRight
<1>. SUFFICES ASSUME RecordsInv
              PROVE  SearchIsCurrent /\ SessionsAndScoresHold /\ KnowledgeFollows /\ DatesAreRight
  OBVIOUS
<1>1. SearchIsCurrent /\ SessionsAndScoresHold
  BY RetrievalRight, TurnsRight, ReviewsRight DEF RecordsInv, SearchIsCurrent, SessionsAndScoresHold
<1>2. KnowledgeFollows
  BY KnowRight, UpkeepRight, ScanRight, BeliefsRight DEF RecordsInv, KnowledgeFollows
<1>3. DatesAreRight
  BY DatesRight DEF RecordsInv, DatesAreRight
<1>. QED
  BY <1>1, <1>2, <1>3

-----------------------------------------------------------------------------
(* The types of all of them *)

\* The invariants of the search, the log, the scores, the scan and the beliefs have the types
\* of those in them.
RecordsTyped ==
    /\ RecordsInv
    /\ focus = "storage" => StorageTyped
    /\ focus = "knowledge" => KnowBounded
    /\ focus = "upkeep" => UpkeepBounded
    /\ focus = "dates" => DatesBounded

LEMMA RecordsTypedStart == Init => RecordsTyped
BY RecordsStart, StorageStarts, KnowBoundedStarts, UpkeepBoundedStarts, DatesBoundedStart
   DEF Init, RecordsTyped

LEMMA RecordsTypedGoOn == RecordsTyped /\ [Next]_vars => RecordsTyped'
<1>. SUFFICES ASSUME RecordsTyped, [Next]_vars PROVE RecordsTyped'
  OBVIOUS
<1>1. RecordsInv /\ RecordsInv'
  BY RecordsGoOn DEF RecordsTyped
<1>2. CASE UNCHANGED vars
  <2>1. /\ StorageTyped => StorageTyped'
        /\ KnowBounded => KnowBounded'
        /\ UpkeepBounded => UpkeepBounded'
        /\ DatesBounded => DatesBounded'
    BY <1>2, StorageSame, KnowBoundedSame, UpkeepBoundedSame, DatesBoundedSame DEF vars
  <2>2. focus' = focus
    BY <1>2 DEF vars
  <2>. QED
    BY <1>1, <2>1, <2>2 DEF RecordsTyped
<1>3. CASE Next
  <2>1. focus' = focus
    BY <1>3, OfTheFocus
  <2>2. CASE focus = "storage"
    <3>1. Stored!Next
      BY <1>3, <2>2 DEF Next, NextRetrieval, NextTurns, NextReviews, NextStorage, NextKnowledge,
                        NextUpkeep, NextScan, NextBeliefs, NextDates
    <3>. QED
      BY <1>1, <2>1, <2>2, <3>1, StorageGoesOn DEF RecordsTyped
  <2>3. CASE focus = "knowledge"
    <3>1. Known!Next /\ KnowInv
      BY <1>1, <1>3, <2>3, OfTheFocus DEF RecordsInv
    <3>. QED
      BY <1>1, <2>1, <2>3, <3>1, KnowBoundedGoesOn DEF RecordsTyped
  <2>4. CASE focus = "upkeep"
    <3>1. Nightly!Next /\ UpkeepInv
      BY <1>1, <1>3, <2>4, OfTheFocus DEF RecordsInv
    <3>. QED
      BY <1>1, <2>1, <2>4, <3>1, UpkeepBoundedGoesOn DEF RecordsTyped
  <2>5. CASE focus = "dates"
    BY <1>1, <1>3, <2>1, <2>5, OfTheFocus, DatesBoundedGoOn DEF RecordsTyped
  <2>6. CASE focus \notin {"storage", "knowledge", "upkeep", "dates"}
    BY <1>1, <2>1, <2>6 DEF RecordsTyped
  <2>. QED
    BY <2>2, <2>3, <2>4, <2>5, <2>6
<1>. QED
  BY <1>2, <1>3

LEMMA RecordsTypesRight == RecordsTyped => TypeOK
<1>. SUFFICES ASSUME RecordsTyped PROVE TypeOK
  OBVIOUS
<1>1. /\ focus = "retrieval" => Found!TypeOK
      /\ focus = "turns" => Logged!TypeOK
      /\ focus = "reviews" => Scored!TypeOK
  BY RetrievalRight, TurnsRight, ReviewsRight DEF RecordsTyped, RecordsInv
<1>2. /\ focus = "scan" => Scanned!TypeOK
      /\ focus = "beliefs" => Trust!TypeOK
  BY ScanRight, BeliefsRight DEF RecordsTyped, RecordsInv
<1>3. /\ focus = "storage" => Stored!TypeOK
      /\ focus = "knowledge" => Known!TypeOK
      /\ focus = "upkeep" => Nightly!TypeOK
      /\ focus = "dates" => Dated!TypeOK
  BY StorageTypesRight, KnowTypesRight, UpkeepTypesRight, DatesTypesRight
     DEF RecordsTyped, RecordsInv
<1>. QED
  BY <1>1, <1>2, <1>3 DEF TypeOK

-----------------------------------------------------------------------------
(* The theorems *)

\* What a search brings to light is in the memory, or was so when the search began whose result
\* it is, at most the lifetime of a result ago; and an index that was built has all that is
\* stored (reasoning.retrieve, lexical.bm25_sync, graph.grow).
THEOREM SearchStaysCurrent == Spec => []SearchIsCurrent
<1>1. Spec => []RecordsInv
  BY RecordsStart, RecordsGoOn, PTL DEF Spec
<1>. QED
  BY <1>1, RecordsRight, PTL

\* No session is continued that is closed, however turns and the nightly run interleave, and an
\* adjustment is as the scores had it at most its lifetime ago (touch, close_old, adjustments).
THEOREM SessionsAndScoresStay == Spec => []SessionsAndScoresHold
<1>1. Spec => []RecordsInv
  BY RecordsStart, RecordsGoOn, PTL DEF Spec
<1>. QED
  BY <1>1, RecordsRight, PTL

\* What is drawn from facts follows them, whatever the chat does between the steps of the night:
\* relations connect events there are, a correction reaches the topics, a fact loses weight only
\* to a summary on file, a second scan finds nothing to do, and no belief that was rejected is
\* shown, nor is one distrusted unseen (graph.py, backfill.py, pollution_scan, advisor.py).
THEOREM KnowledgeAlwaysFollows == Spec => []KnowledgeFollows
<1>1. Spec => []RecordsInv
  BY RecordsStart, RecordsGoOn, PTL DEF Spec
<1>. QED
  BY <1>1, RecordsRight, PTL

\* In whatever calendar and on whatever day something is said: the range of a phrase is the days
\* it means, an appointment is on the next day that fits, and an event is shown as long ago as it
\* was (time_extract.extract, _parse_dt, label_for).
THEOREM DatesStayRight == Spec => []DatesAreRight
<1>1. Spec => []RecordsInv
  BY RecordsStart, RecordsGoOn, PTL DEF Spec
<1>. QED
  BY <1>1, RecordsRight, PTL

\* The states of all the components have their types: ids of events are given out once and not
\* beyond the last, the files and the rows of the database are of users there are, a share is a
\* level, and what is said of any day is in the calendar.
THEOREM RecordsAreTyped == Spec => []TypeOK
<1>1. Spec => []RecordsTyped
  BY RecordsTypedStart, RecordsTypedGoOn, PTL DEF Spec
<1>. QED
  BY <1>1, RecordsTypesRight, PTL
===============================================================================
