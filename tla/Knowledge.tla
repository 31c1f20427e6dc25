------------------------------- MODULE Knowledge -------------------------------
(***************************************************************************)
(* What is derived from the facts of one scope: events and their relations *)
(* (memory/graph.py), topics and their parameters (memory/topic.py), the   *)
(* entities of events, and the queue of facts that were corrected          *)
(* (controller.reconcile_pending). Ingest derives them in its transaction; *)
(* the nightly run (backfill.run) completes and cleans them, helper by     *)
(* helper, in a process of its own; a character (memory/character.py) is   *)
(* cleared and built anew. Both data layers: their helpers for these       *)
(* tables differ only in the order of the queue.                           *)
(* An event is known by its title, the start of the fact: long facts may   *)
(* share one. Etypes, weights, embeddings, moods and the limits of the     *)
(* lists (50 to 1000 rows) are left out.                                   *)
(***************************************************************************)
EXTENDS Naturals, Sequences, FiniteSets

CONSTANTS
    Facts,      \* texts of memories
    Title,      \* title_of: the title of each; a short fact is its own
    TopicOf,    \* topic_name_of, for facts and titles
    Alike,      \* pairs of titles similar enough to be related
    EntityOf,   \* the entity a title names
    Kinds,      \* "chat", "character"
    Backends,   \* "sqlite", "postgres"
    Limit,      \* rows of the queue one call reads, 100
    MaxIds,     \* bound: events
    MaxEdits,   \* bound: facts learnt, forgotten, corrected
    MaxNights   \* bound: nightly runs

Titles == {Title[f] : f \in Facts}

\* What is assumed of the constants.
KnowledgeAssumption ==
    /\ \A p \in Alike : p \subseteq Titles
    /\ Facts \cup Titles \subseteq DOMAIN TopicOf
    /\ Limit \in Nat \ {0} /\ MaxIds \in Nat

VARIABLES
    backend,  \* YUNO_DB_BACKEND
    kind,     \* what the scope is
    rows,     \* memories: facts
    wrong,    \* those superseded by a correction
    events,   \* per title: id (0: none), fact, topic ("": none), worth
    lastId,   \* sequence of events
    follows,  \* event_relations with rel=follows, pairs of ids
    related,  \* the others
    params,   \* topic_params with param=fact: topic, value, stale
    links,    \* entity_events: entity and id
    queue,    \* state_invalidations
    reading,  \* rows a call of reconcile_pending has read
    skipped,  \* facts that left the queue unread
    revived,  \* facts whose parameter a nightly run renewed
    night,    \* the nightly run: phase, and facts, titles or pairs to do
    dossier,  \* facts of a character still to be stored
    edits, nights

vars == <<backend, kind, rows, wrong, events, lastId, follows, related, params, links, queue,
          reading, skipped, revived, night, dossier, edits, nights>>

graphVars == <<events, lastId, follows, related>>
queueVars == <<queue, reading, skipped>>

NoEvent == [id |-> 0, fact |-> "", topic |-> "", worth |-> "some"]
Awake == [phase |-> "idle", todo |-> {}, at |-> 0]
Known == {t \in Titles : events[t].id # 0}
Ids == {events[t].id : t \in Known}

Init ==
    /\ backend \in Backends /\ kind \in Kinds
    /\ rows = {} /\ wrong = {}
    /\ events = [t \in Titles |-> NoEvent] /\ lastId = 0
    /\ follows = {} /\ related = {} /\ params = {} /\ links = {}
    /\ queue = <<>> /\ reading = {} /\ skipped = {} /\ revived = {}
    /\ night = Awake /\ dossier = {}
    /\ edits = 0 /\ nights = 0

-----------------------------------------------------------------------------
(* Events: event_add, relation_add, build_for_fact. *)

\* As EventAdd, but the row is replaced and has a new id.
EventAddReplaced(f, worth) ==
    [events EXCEPT ![Title[f]] = [@ EXCEPT !.id = lastId + 1, !.fact = f, !.worth = worth]]

\* An event with the title keeps its id, its topic and its relations.
IdOf(f) == IF events[Title[f]].id = 0 THEN lastId + 1 ELSE events[Title[f]].id
EventAdd(f, worth) ==
    [events EXCEPT ![Title[f]] = [@ EXCEPT !.id = IdOf(f), !.fact = f, !.worth = worth]]

\* Events that have a relation to this one among the given ones.
Connected(id, edges) == UNION {{e[1], e[2]} : e \in {x \in edges : id \in {x[1], x[2]}}}

\* _link_to_existing: similar events that have no relation to it.
LinkToExisting(t, es) ==
    LET id == es[t].id
        similar == {u \in Titles \ {t} : /\ {u, t} \in Alike /\ es[u].id # 0
                                         /\ es[u].id \notin Connected(id, follows \cup related)}
    IN  related \cup {<<id, es[u].id>> : u \in similar}

\* _link_previous: after the latest event there is, its neighbours left out.
LinkPrevious(id, es) ==
    LET others == {es[t].id : t \in Titles} \ ({0, id} \cup Connected(id, follows))
    IN  follows \cup {<<i, id>> : i \in {x \in others : \A y \in others : y <= x}}

\* link_fact: a parameter of the topic, which is fresh again.
LinkFact(value) ==
    {p \in params : p.topic # TopicOf[value] \/ p.value # value}
        \cup {[topic |-> TopicOf[value], value |-> value, stale |-> FALSE]}

-----------------------------------------------------------------------------
(* A chat: ingest, correction, forgetting. *)

Edit == edits < MaxEdits /\ edits' = edits + 1

\* The derived part of ingest, for an addition.
Learn(f, worth) ==
    /\ kind = "chat" /\ Edit /\ f \notin rows /\ IdOf(f) <= MaxIds
    /\ rows' = rows \cup {f} /\ wrong' = wrong \ {f}
    /\ LET es == EventAdd(f, worth)
       IN  /\ events' = [es EXCEPT ![Title[f]].topic = TopicOf[f]]
           /\ related' = LinkToExisting(Title[f], es)
           /\ follows' = LinkPrevious(IdOf(f), es)
    /\ lastId' = IF IdOf(f) > lastId THEN IdOf(f) ELSE lastId
    /\ params' = LinkFact(f)
    /\ UNCHANGED <<backend, kind, links, queueVars, revived, night, dossier, nights>>

\* _decay_conflicts: the row stays, the fact is queued.
Correct(f) ==
    /\ kind = "chat" /\ Edit /\ f \in rows \ wrong
    /\ wrong' = wrong \cup {f}
    /\ queue' = Append(queue, f)
    /\ revived' = revived \ {f} /\ skipped' = skipped \ {f}
    /\ UNCHANGED <<backend, kind, rows, graphVars, params, links, reading, night, dossier, nights>>

\* memory_delete by prune, forget or a command: the row alone.
Forget(f) ==
    /\ Edit /\ f \in rows
    /\ rows' = rows \ {f}
    /\ UNCHANGED <<backend, kind, wrong, graphVars, params, links, queueVars, revived, night,
                   dossier, nights>>

\* reconcile_pending, before a prompt is built: the oldest rows on SQLite, the
\* newest on PostgreSQL; then each is reconciled, and the queue is emptied.
FirstOf(s) == {s[i] : i \in {j \in DOMAIN s : j <= Limit}}
LastOf(s) == {s[i] : i \in {j \in DOMAIN s : j > Len(s) - Limit}}
SqliteInvalidationRows == FirstOf(queue)
PgInvalidationRows == LastOf(queue)
InvalidationRows == IF backend = "sqlite" THEN SqliteInvalidationRows ELSE PgInvalidationRows

ReconcileRead ==
    /\ reading = {} /\ queue # <<>>
    /\ reading' = InvalidationRows
    /\ UNCHANGED <<backend, kind, rows, wrong, graphVars, params, links, queue, skipped,
                   revived, night, dossier, edits, nights>>
\* Seeded fault: the parameters of the topic are left as they are.
ReconciledNothing == params
\* invalidate_for_fact: the parameters with the text of the fact.
Reconciled ==
    {[p EXCEPT !.stale = @ \/ p.value \in reading] : p \in params}
\* invalidation_clear_all: what was not read is gone.
Unread == {queue[i] : i \in DOMAIN queue} \ reading
ReconcileClear ==
    /\ reading # {}
    /\ params' = Reconciled
    /\ skipped' = skipped \cup Unread
    /\ queue' = <<>> /\ reading' = {}
    /\ UNCHANGED <<backend, kind, rows, wrong, graphVars, links, revived, night, dossier,
                   edits, nights>>

-----------------------------------------------------------------------------
(* A character: cleared, then one fact after the other (add_fact, link_fact). *)

\* _clear_scope: rows and events with their relations, then the topics, whose
\* parameters stay on PostgreSQL.
SqliteTopicClear == {}
PgTopicClear == params
Rebuild(facts) ==
    /\ kind = "character" /\ Edit /\ dossier = {} /\ facts # {}
    /\ dossier' = facts
    /\ rows' = {} /\ wrong' = {}
    /\ events' = [t \in Titles |-> NoEvent]
    /\ follows' = {e \in follows : {e[1], e[2]} \cap Ids = {}}
    /\ related' = {e \in related : {e[1], e[2]} \cap Ids = {}}
    /\ params' = IF backend = "sqlite" THEN SqliteTopicClear ELSE PgTopicClear
    /\ UNCHANGED <<backend, kind, lastId, links, queueVars, revived, night, nights>>
AddFact(f) ==
    /\ f \in dossier /\ IdOf(f) <= MaxIds
    /\ dossier' = dossier \ {f}
    /\ rows' = rows \cup {f}
    /\ LET es == EventAdd(f, "some")
       IN  /\ events' = es
           /\ related' = LinkToExisting(Title[f], es)
           /\ follows' = LinkPrevious(IdOf(f), es)
    /\ lastId' = IF IdOf(f) > lastId THEN IdOf(f) ELSE lastId
    /\ params' = LinkFact(f)
    /\ UNCHANGED <<backend, kind, wrong, links, queueVars, revived, night, edits, nights>>
\* The process stops before the dossier is stored.
Crash ==
    /\ dossier # {}
    /\ dossier' = {}
    /\ UNCHANGED <<backend, kind, rows, wrong, graphVars, params, links, queueVars, revived,
                   night, edits, nights>>

-----------------------------------------------------------------------------
(* The nightly run. Each phase reads a list and works through it. *)

To(phase, todo) == night' = [phase |-> phase, todo |-> todo, at |-> 0]
Done(x) == night' = [night EXCEPT !.todo = @ \ {x}, !.at = 0]
Phase(phase) == night.phase = phase /\ night.todo # {}
Over(phase) == night.phase = phase /\ night.todo = {}

chatVars == <<backend, kind, rows, wrong, queueVars, dossier, edits>>

NightBegins ==
    /\ night.phase = "idle" /\ nights < MaxNights /\ nights' = nights + 1
    /\ To("graph", rows)
    /\ UNCHANGED <<chatVars, graphVars, params, links, revived>>

\* build_graph: a fact without an event gets one, which is linked then.
HasEvent(f) == Title[f] \in Known
BuildGraph(f) ==
    /\ Phase("graph") /\ night.at = 0 /\ f \in night.todo
    /\ IF HasEvent(f)
       THEN Done(f) /\ UNCHANGED <<events, lastId, related>>
       ELSE /\ IdOf(f) <= MaxIds
            /\ events' = EventAdd(f, "some")
            /\ lastId' = lastId + 1
            /\ related' = LinkToExisting(Title[f], events')
            /\ night' = [phase |-> "graph", todo |-> night.todo \ {f}, at |-> lastId + 1]
    /\ UNCHANGED <<chatVars, follows, params, links, revived, nights>>
BuildLink ==
    /\ night.phase = "graph" /\ night.at # 0
    /\ follows' = LinkPrevious(night.at, events)
    /\ night' = [night EXCEPT !.at = 0]
    /\ UNCHANGED <<chatVars, events, lastId, related, params, links, revived, nights>>

\* link_follows: each event after the one before it, unless they are linked.
Consecutive == {p \in Ids \X Ids : p[1] < p[2] /\ ~\E i \in Ids : p[1] < i /\ i < p[2]}
TimelineBegins ==
    /\ Over("graph") /\ night.at = 0
    /\ To("timeline", Consecutive)
    /\ UNCHANGED <<chatVars, graphVars, params, links, revived, nights>>
LinkFollows(p) ==
    /\ Phase("timeline") /\ p \in night.todo
    /\ follows' = IF <<p[2], p[1]>> \in follows THEN follows ELSE follows \cup {p}
    /\ Done(p)
    /\ UNCHANGED <<chatVars, events, lastId, related, params, links, revived, nights>>

\* topic.build: events without a topic, by their titles.
TopicsBegin ==
    /\ Over("timeline")
    /\ To("topics", {t \in Known : events[t].topic = ""})
    /\ UNCHANGED <<chatVars, graphVars, params, links, revived, nights>>
BuildTopic(t) ==
    /\ Phase("topics") /\ t \in night.todo
    /\ params' = LinkFact(t)
    /\ revived' = revived \cup ({t} \cap wrong)
    /\ events' = IF t \in Known THEN [events EXCEPT ![t].topic = TopicOf[t]] ELSE events
    /\ Done(t)
    /\ UNCHANGED <<chatVars, lastId, follows, related, links, nights>>

\* cleanup_orphans: of the events that are worth something (event_rows has
\* importance >= 0.2) those without a relation are deleted.
OrphansBegin ==
    /\ Over("topics")
    /\ To("orphans", {events[t].id : t \in {u \in Known : events[u].worth = "some"}})
    /\ UNCHANGED <<chatVars, graphVars, params, links, revived, nights>>
CheckOrphan(id) ==
    /\ Phase("orphans") /\ night.at = 0 /\ id \in night.todo
    /\ IF Connected(id, follows \cup related) = {}
       THEN night' = [night EXCEPT !.todo = @ \ {id}, !.at = id]
       ELSE Done(id)
    /\ UNCHANGED <<chatVars, graphVars, params, links, revived, nights>>

\* Seeded fault: the event goes, its relations stay.
Apart(id, edges) == edges
\* event_delete: the event and its relations, not its entity.
Without(id, edges) == {e \in edges : id \notin {e[1], e[2]}}
DeleteOrphan ==
    /\ night.phase = "orphans" /\ night.at # 0
    /\ events' = [t \in Titles |-> IF events[t].id = night.at THEN NoEvent ELSE events[t]]
    /\ follows' = Without(night.at, follows) /\ related' = Without(night.at, related)
    /\ night' = [night EXCEPT !.at = 0]
    /\ UNCHANGED <<chatVars, lastId, params, links, revived, nights>>

\* build_entities: each event is linked to the entity its title names.
EntitiesBegin ==
    /\ Over("orphans") /\ night.at = 0
    /\ To("entities", Known)
    /\ UNCHANGED <<chatVars, graphVars, params, links, revived, nights>>
BuildEntity(t) ==
    /\ Phase("entities") /\ t \in night.todo
    /\ links' = links \cup {<<EntityOf[t], i>> : i \in {events[t].id} \ {0}}
    /\ Done(t)
    /\ UNCHANGED <<chatVars, graphVars, params, revived, nights>>
NightEnds ==
    /\ Over("entities")
    /\ night' = Awake
    /\ UNCHANGED <<chatVars, graphVars, params, links, revived, nights>>

Next ==
    \/ \E f \in Facts : \/ \E worth \in {"low", "some"} : Learn(f, worth)
                       \/ Correct(f) \/ Forget(f) \/ AddFact(f) \/ BuildGraph(f)
    \/ ReconcileRead \/ ReconcileClear
    \/ \E facts \in SUBSET Facts : Rebuild(facts)
    \/ Crash
    \/ NightBegins \/ BuildLink \/ TimelineBegins \/ TopicsBegin \/ OrphansBegin
    \/ DeleteOrphan \/ EntitiesBegin \/ NightEnds
    \/ \E p \in night.todo : LinkFollows(p)
    \/ \E t \in Titles : BuildTopic(t) \/ BuildEntity(t)
    \/ \E id \in 1..MaxIds : CheckOrphan(id)

Spec == Init /\ [][Next]_vars

-----------------------------------------------------------------------------
(* Properties *)

\* Events, relations and the queue have their types.
TypeOK ==
    /\ \A t \in Titles : /\ events[t].id \in 0..lastId
                         /\ events[t].fact \in Facts \cup {""}
                         /\ events[t].topic \in {TopicOf[x] : x \in DOMAIN TopicOf} \cup {""}
    /\ lastId <= MaxIds
    /\ follows \cup related \subseteq (1..lastId) \X (1..lastId)
    /\ reading \subseteq Facts /\ Len(queue) <= MaxEdits
    /\ night.phase \in {"idle", "graph", "timeline", "topics", "orphans", "entities"}
    /\ \A t, u \in Known : events[t].id = events[u].id => t = u

\* A relation of a chat connects events there are: the cleaning of orphans looks
\* for relations and deletes in two steps, and ingest may link the event in
\* between (graph.cleanup_orphans, event_delete).
RelationsHold ==
    kind = "chat" => \A e \in follows \cup related : {e[1], e[2]} \subseteq Ids

\* A correction reaches the topics: until then the fact is in the queue, or
\* being reconciled, or it has left the queue unread (reconcile_pending deletes
\* what it did not read), or the nightly run built its topic since.
CorrectionsAccounted ==
    \A f \in wrong :
        \/ f \in {queue[i] : i \in DOMAIN queue} \cup skipped \cup revived
        \/ \A p \in params : p.value = f => p.stale
===============================================================================
