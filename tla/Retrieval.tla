------------------------------ MODULE Retrieval ------------------------------
(***************************************************************************)
(* Retrieval of memories (memory/reasoning.py), the indexes it reads       *)
(* (lexical.py, vecindex.py and the helpers of both data layers), and the  *)
(* nightly rebuild of the indexes (backfill.run). Facts of a private chat  *)
(* and of a group the user is bound to: a reply in either scene looks into *)
(* the rows of both, and _visible decides.                                 *)
(*                                                                         *)
(* A search is                                                             *)
(*   idle                                                                  *)
(*   lexical    the lexical channel has answered                           *)
(*   channels   so have the vector channel and the others                  *)
(*   loaded     the rows of the candidates are read and filtered           *)
(*   ranked     the result is in the cache; a weak one is completed next   *)
(*   done                                                                  *)
(* Relevance is a choice: a channel returns any part of what it holds.     *)
(* Scores, encrypted facts (no text of theirs is found) and the threshold  *)
(* of privacy are left out.                                                *)
(***************************************************************************)
EXTENDS Naturals, FiniteSets

CONSTANTS
    Facts,     \* texts of memories
    Private,   \* those told in the private chat; the others in the group
    Seekers,   \* threads that search
    Backends,  \* "sqlite", "postgres"
    Ttl,       \* cache.ttl_s: how long a result is served again
    MaxEdits,  \* bound: changes of the rows
    MaxGrows,  \* bound: nightly rebuilds
    MaxAsks,   \* bound: searches
    MaxTime    \* bound: the clock

\* What is assumed of the constants.
RetrievalAssumption == Private \subseteq Facts /\ Ttl \in Nat \ {0}

VARIABLES
    backend,  \* YUNO_DB_BACKEND, read at import
    now,      \* time.time()
    rows,     \* memories: status and audience
    known,    \* events, attributes and topics: facts they name
    bm25,     \* bm25_terms and bm25_docs
    fts,      \* memories_fts of SQLite
    vec,      \* vec_index
    grow,     \* the rebuild: phase, rows it read, scopes to write
    late,     \* facts a rebuild wrote over
    cache,    \* _result_cache, one question per scene
    seeker,   \* per thread: phase, scene, candidates, hits and times
    gone,     \* per fact: when it last was deleted or superseded
    edits, grows, asks

vars == <<backend, now, rows, known, bm25, fts, vec, grow, late, cache, seeker, gone,
          edits, grows, asks>>

Scenes == {"private", "group"}
NoRow == [status |-> "none", audience |-> ""]
NoResult == [at |-> 0, from |-> 0, hits |-> {}, empty |-> TRUE]
Idle == [phase |-> "idle", scene |-> "private", found |-> {}, hits |-> {},
         asked |-> 0, from |-> 0, at |-> 0]
Resting == [phase |-> "idle", read |-> {}, todo |-> {}]

Scope(f) == IF f \in Private THEN "private" ELSE "group"
Stored(f) == rows[f].status # "none"
Live(f) == rows[f].status \notin {"none", "superseded"}
Table(scope) == {f \in Facts : Scope(f) = scope /\ Stored(f)}

Init ==
    /\ backend \in Backends
    /\ now = 0
    /\ rows = [f \in Facts |-> NoRow]
    /\ known = {} /\ bm25 = {} /\ fts = {} /\ vec = {} /\ late = {}
    /\ grow = Resting
    /\ cache = [c \in Scenes |-> NoResult]
    /\ seeker = [s \in Seekers |-> Idle]
    /\ gone = [f \in Facts |-> 0]
    /\ edits = 0 /\ grows = 0 /\ asks = 0

-----------------------------------------------------------------------------
(* The rows and their indexes, as ingest keeps them. *)

\* lexicon_sync of SQLite copies the rows of the scope; on PostgreSQL it is empty.
SqliteLexiconSync(scope, table) == {f \in fts : Scope(f) # scope} \cup table
PgLexiconSync == fts
LexiconSync(scope, table) ==
    IF backend = "sqlite" THEN SqliteLexiconSync(scope, table) ELSE PgLexiconSync

\* Seeded fault: new facts wait for the rebuild.
UpsertNothing(facts) == bm25

\* bm25_upsert replaces the terms of the given facts, bm25_sync those of a scope.
SqliteBm25Upsert(facts) == bm25 \cup facts
PgBm25Upsert(facts) == bm25 \cup facts
Bm25Upsert(facts) ==
    IF backend = "sqlite" THEN SqliteBm25Upsert(facts) ELSE PgBm25Upsert(facts)
SqliteBm25Sync(scope, facts) == {f \in bm25 : Scope(f) # scope} \cup facts
PgBm25Sync(scope, facts) == {f \in bm25 : Scope(f) # scope} \cup facts
Bm25Sync(scope, facts) ==
    IF backend = "sqlite" THEN SqliteBm25Sync(scope, facts) ELSE PgBm25Sync(scope, facts)

Edit == edits < MaxEdits /\ edits' = edits + 1

\* The end of ingest, in its transaction: row, event, attribute, topic, indexes
\* (of a fact whose privacy is below 0.8: no other gets into bm25).
Learn(f) ==
    /\ Edit /\ ~Stored(f)
    /\ rows' = [rows EXCEPT ![f] = [status |-> "active", audience |-> ""]]
    /\ known' = known \cup {f}
    /\ fts' = LexiconSync(Scope(f), Table(Scope(f)) \cup {f})
    /\ bm25' = Bm25Upsert({f})
    /\ UNCHANGED <<backend, now, vec, grow, late, cache, seeker, gone, grows, asks>>

\* A correction: the row stays, superseded, and so do all its indexes.
Supersede(f) ==
    /\ Edit /\ Live(f)
    /\ rows' = [rows EXCEPT ![f].status = "superseded"]
    /\ gone' = [gone EXCEPT ![f] = now]
    /\ UNCHANGED <<backend, now, known, bm25, fts, vec, grow, late, cache, seeker, grows, asks>>

\* memory_delete, as policy.forget and prune call it: the row alone.
Forget(f) ==
    /\ Edit /\ Stored(f)
    /\ rows' = [rows EXCEPT ![f] = NoRow]
    /\ gone' = [gone EXCEPT ![f] = IF Live(f) THEN now ELSE @]
    /\ UNCHANGED <<backend, now, known, bm25, fts, vec, grow, late, cache, seeker, grows, asks>>

\* cmd_publicize.
Publicize(f) ==
    /\ Edit /\ Stored(f) /\ f \in Private /\ rows[f].audience # "public"
    /\ rows' = [rows EXCEPT ![f].audience = "public"]
    /\ UNCHANGED <<backend, now, known, bm25, fts, vec, grow, late, cache, seeker, gone,
                   grows, asks>>

-----------------------------------------------------------------------------
(* The nightly rebuild, in a process of its own: each step is a commit. *)

\* lexicon_rebuild copies all rows; on PostgreSQL it makes sure of an index of
\* memories, which needs no rebuild.
SqliteLexiconRebuild == {f \in Facts : Stored(f)}
PgLexiconRebuild == fts

\* cleanup_orphans drops what no row has; bm25_clear.
GrowClear ==
    /\ grow.phase = "idle" /\ grows < MaxGrows
    /\ known' = {f \in known : Stored(f)}
    /\ fts' = IF backend = "sqlite" THEN SqliteLexiconRebuild ELSE PgLexiconRebuild
    /\ bm25' = {}
    /\ grow' = [grow EXCEPT !.phase = "cleared"]
    /\ grows' = grows + 1
    /\ UNCHANGED <<backend, now, rows, vec, late, cache, seeker, gone, edits, asks>>

\* bm25_rebuild reads all rows, whatever their status, and writes scope by
\* scope: what was learnt since is written over.
GrowRead ==
    /\ grow.phase = "cleared"
    /\ LET read == {f \in Facts : Stored(f)}
       IN  grow' = [phase |-> "syncing", read |-> read, todo |-> {Scope(f) : f \in read}]
    /\ UNCHANGED <<backend, now, rows, known, bm25, fts, vec, late, cache, seeker, gone,
                   edits, grows, asks>>
GrowSync(scope) ==
    /\ grow.phase = "syncing" /\ scope \in grow.todo
    /\ LET facts == {f \in grow.read : Scope(f) = scope}
       IN  /\ bm25' = Bm25Sync(scope, facts)
           /\ late' = {f \in late : f \notin facts} \cup (Table(scope) \ facts)
    /\ grow' = [grow EXCEPT !.todo = @ \ {scope}]
    /\ UNCHANGED <<backend, now, rows, known, fts, vec, cache, seeker, gone, edits, grows, asks>>

\* vecindex.build: the rows; vec_clear; then centroids and the new index.
VecRead ==
    /\ grow.phase = "syncing" /\ grow.todo = {}
    /\ grow' = [Resting EXCEPT !.phase = "vectors", !.read = {f \in Facts : Stored(f)}]
    /\ UNCHANGED <<backend, now, rows, known, bm25, fts, vec, late, cache, seeker, gone,
                   edits, grows, asks>>
SqliteVecClear == {}
PgVecClear == {}
VecClear ==
    /\ grow.phase = "vectors"
    /\ vec' = IF backend = "sqlite" THEN SqliteVecClear ELSE PgVecClear
    /\ grow' = [grow EXCEPT !.phase = "emptied"]
    /\ UNCHANGED <<backend, now, rows, known, bm25, fts, late, cache, seeker, gone, edits,
                   grows, asks>>
SqliteVecIndexReplace(facts) == facts
PgVecIndexReplace(facts) == facts
VecReplace ==
    /\ grow.phase = "emptied"
    /\ vec' = IF backend = "sqlite" THEN SqliteVecIndexReplace(grow.read)
              ELSE PgVecIndexReplace(grow.read)
    /\ grow' = Resting
    /\ UNCHANGED <<backend, now, rows, known, bm25, fts, late, cache, seeker, gone, edits,
                   grows, asks>>

-----------------------------------------------------------------------------
(* A search. *)

Step(s, to) == seeker' = [seeker EXCEPT ![s] = to]
Asking(s) == seeker[s].phase \in {"idle", "done"} /\ asks < MaxAsks /\ asks' = asks + 1

\* The texts a full-text query is run on, and the rows a LIKE is.
SqliteLexiconSearch == fts
PgLexiconSearch == {f \in Facts : Stored(f)}
LexiconSearch == IF backend = "sqlite" THEN SqliteLexiconSearch ELSE PgLexiconSearch
MemorySearch == {f \in Facts : Stored(f)}

\* lexical.search: the next index is asked when one has nothing.
LexicalSearch ==
    {found \in SUBSET (bm25 \cup LexiconSearch \cup MemorySearch) :
        \/ found \subseteq bm25
        \/ found \subseteq LexiconSearch
        \/ found \subseteq MemorySearch}

\* vecindex.search, or all rows when there is no index (enabled); pgvector, when
\* it is installed, is not modelled.
VectorSearch == SUBSET (IF vec # {} THEN vec ELSE {f \in Facts : Stored(f)})

\* Seeded fault: a result is served for ever.
ForEver(result) == TRUE
Fresh(result) == now - result.at < Ttl

FromCache(s, scene) ==
    /\ Asking(s)
    /\ ~cache[scene].empty /\ Fresh(cache[scene])
    /\ Step(s, [Idle EXCEPT !.phase = "ranked", !.scene = scene, !.hits = cache[scene].hits,
                            !.asked = now, !.from = cache[scene].from, !.at = cache[scene].at])
    /\ UNCHANGED <<backend, now, rows, known, bm25, fts, vec, grow, late, cache, gone,
                   edits, grows>>
Lexical(s, scene) ==
    /\ Asking(s)
    /\ cache[scene].empty \/ ~Fresh(cache[scene])
    /\ \E found \in LexicalSearch :
           Step(s, [Idle EXCEPT !.phase = "lexical", !.scene = scene, !.found = found,
                                !.asked = now, !.from = now])
    /\ UNCHANGED <<backend, now, rows, known, bm25, fts, vec, grow, late, cache, gone,
                   edits, grows>>

\* The vector channel; graph, attributes and topics have what they know.
Channels(s) ==
    /\ seeker[s].phase = "lexical"
    /\ \E found \in VectorSearch, other \in SUBSET known :
           Step(s, [seeker[s] EXCEPT !.phase = "channels", !.found = @ \cup found \cup other])
    /\ UNCHANGED <<backend, now, rows, known, bm25, fts, vec, grow, late, cache, gone,
                   edits, grows, asks>>

\* _visible: what the audience of a row is without one of its own, and whether
\* a scene sees it. A private scene sees all of the user and of his groups.
Audience(f) == IF rows[f].audience # "" THEN rows[f].audience ELSE Scope(f)
Visible(f, scene) == scene = "private" \/ Audience(f) \in {"public", "group"}

\* Seeded fault: the rows are read whatever their status.
AnyRowByFacts(facts) == {f \in facts : Stored(f)}

\* memory_rows_by_facts with exclude_status; the two layers select alike.
SqliteRowsByFacts(facts) == {f \in facts : Stored(f) /\ rows[f].status # "superseded"}
PgRowsByFacts(facts) == {f \in facts : Stored(f) /\ rows[f].status # "superseded"}
RowsByFacts(facts) ==
    IF backend = "sqlite" THEN SqliteRowsByFacts(facts) ELSE PgRowsByFacts(facts)

Load(s) ==
    /\ seeker[s].phase = "channels"
    /\ Step(s, [seeker[s] EXCEPT
                    !.phase = "loaded", !.found = {},
                    !.hits = {f \in RowsByFacts(seeker[s].found) : Visible(f, seeker[s].scene)}])
    /\ UNCHANGED <<backend, now, rows, known, bm25, fts, vec, grow, late, cache, gone,
                   edits, grows, asks>>

\* Nothing loaded is returned at once; else the ranking is stored and returned.
Rank(s) ==
    /\ seeker[s].phase = "loaded"
    /\ Step(s, [seeker[s] EXCEPT !.phase = "ranked", !.at = now])
    /\ cache' = IF seeker[s].hits = {} THEN cache
                ELSE [cache EXCEPT ![seeker[s].scene] =
                          [at |-> now, from |-> seeker[s].from, hits |-> seeker[s].hits,
                           empty |-> FALSE]]
    /\ UNCHANGED <<backend, now, rows, known, bm25, fts, vec, grow, late, gone, edits,
                   grows, asks>>

\* The emotional address: a weak result is completed from the rows of all the
\* scopes, those of the other scene included; _visible is not asked.
ByMood(s) == {f \in Facts : Live(f)}

Deliver(s) ==
    /\ seeker[s].phase = "ranked"
    /\ \E more \in SUBSET ByMood(s) :
           Step(s, [seeker[s] EXCEPT !.phase = "done", !.hits = @ \cup more])
    /\ UNCHANGED <<backend, now, rows, known, bm25, fts, vec, grow, late, cache, gone,
                   edits, grows, asks>>

Tick ==
    /\ now < MaxTime
    /\ now' = now + 1
    /\ UNCHANGED <<backend, rows, known, bm25, fts, vec, grow, late, cache, seeker, gone,
                   edits, grows, asks>>

Next ==
    \/ \E f \in Facts : Learn(f) \/ Supersede(f) \/ Forget(f) \/ Publicize(f)
    \/ GrowClear \/ GrowRead \/ VecRead \/ VecClear \/ VecReplace
    \/ \E scope \in Scenes : GrowSync(scope)
    \/ \E s \in Seekers, scene \in Scenes : FromCache(s, scene) \/ Lexical(s, scene)
    \/ \E s \in Seekers : Channels(s) \/ Load(s) \/ Rank(s) \/ Deliver(s)
    \/ Tick

Spec == Init /\ [][Next]_vars

-----------------------------------------------------------------------------
(* Properties *)

\* Rows, indexes, searches and results have their types.
TypeOK ==
    /\ backend \in Backends
    /\ rows \in [Facts -> [status : {"none", "active", "superseded"},
                           audience : {"", "public"}]]
    /\ known \subseteq Facts /\ bm25 \subseteq Facts /\ fts \subseteq Facts /\ vec \subseteq Facts
    /\ grow \in [phase : {"idle", "cleared", "syncing", "vectors", "emptied"},
                 read : SUBSET Facts, todo : SUBSET Scenes]
    /\ \A s \in Seekers : /\ seeker[s].phase \in {"idle", "lexical", "channels", "loaded",
                                                  "ranked", "done"}
                          /\ seeker[s].hits \subseteq Facts

\* What a search returns was valid while it ran, or while the search ran whose
\* result it is served; the result is no older than its time to live. A memory
\* that was corrected or forgotten is not recalled longer than that
\* (_retrieve_single: the caches, the indexes that keep what is gone).
HitsCurrent ==
    \A s \in Seekers :
        seeker[s].phase = "done" =>
            /\ seeker[s].asked < seeker[s].at + Ttl
            /\ \A f \in seeker[s].hits : Live(f) \/ gone[f] >= seeker[s].from

\* Between rebuilds the lexical index has every memory there is, but for those
\* that were learnt while a rebuild ran (bm25_upsert, bm25_rebuild).
IndexComplete ==
    grow.phase \in {"idle", "vectors", "emptied"} =>
        \A f \in Facts : Stored(f) => f \in bm25 \cup late
===============================================================================
