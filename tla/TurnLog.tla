-------------------------------- MODULE TurnLog --------------------------------
(***************************************************************************)
(* What a turn of chat leaves behind besides memories: its session         *)
(* (controller.touch), the traces of memory/trace.py, the turn itself for  *)
(* scoring (memory/convreview.py), the query (query_log); the logs of      *)
(* items and places; what backfill.run deletes and closes at night; and    *)
(* the export of queries (cmd_memory_probes). Both data layers.            *)
(*                                                                         *)
(* A turn is                                                               *)
(*   idle                                                                  *)
(*   found      touch has read the most recent session                     *)
(*   filed      the message is in a session, recall has left its trace     *)
(*   answered   after_chat has traced the evidence of the relationship     *)
(*   ingested   ingest has traced what it did with the message             *)
(* Nightly run and export are processes of their own. The messages of one  *)
(* scope, of high information, are traced (trace.enabled).                 *)
(***************************************************************************)
EXTENDS Integers, Sequences, FiniteSets

CONSTANTS
    Texts,       \* messages of the scope
    Turns,       \* turns of chat under way at a time
    Backends,    \* "sqlite", "postgres"
    Tables,      \* the logs that are pruned: "trace", "query", "item", "space"
    Keep,        \* how long the nightly run keeps their rows
    Window,      \* dedup_window_min
    Near,        \* session.window_min
    Old,         \* close_old
    MaxSessions, \* bound: sessions
    MaxTurns,    \* bound: turns
    MaxEvents,   \* bound: rows of the logs of items and places
    MaxTime      \* bound: the clock

\* What is assumed of the constants.
TurnLogAssumption ==
    /\ {Window, Near, Old} \subseteq Nat
    /\ Near < Old
    /\ Keep \in Nat \ {0} /\ {"trace", "query"} \subseteq Tables

VARIABLES
    backend,   \* YUNO_DB_BACKEND
    now,       \* the clock
    log,       \* rows: table, text, time
    seen,      \* _dedup_cache: the time each text was recorded, plus one
    session,   \* sessions, in the order of their ids
    turn,      \* per turn: phase, text, the session found
    reopened,  \* a closed session was continued
    exported,  \* rows of query_log with exported=1
    exporting, \* rows an export has written to it and not marked
    turns, events

vars == <<backend, now, log, seen, session, turn, reopened, exported, exporting,
          turns, events>>

turnVars == <<log, seen, session, turn, reopened, turns, events>>
exportVars == <<exported, exporting>>

Waiting == [phase |-> "idle", text |-> "", found |-> {}]

Init ==
    /\ backend \in Backends
    /\ now = 0
    /\ log = {}
    /\ seen = [t \in Texts |-> 0]
    /\ session = <<>>
    /\ turn = [k \in Turns |-> Waiting]
    /\ reopened = FALSE
    /\ exported = {} /\ exporting = {}
    /\ turns = 0 /\ events = 0

-----------------------------------------------------------------------------
(* Rows and their helpers; both data layers insert alike. *)

SqliteTraceAdd(t) == [table |-> "trace", text |-> t, at |-> now]
PgTraceAdd(t) == [table |-> "trace", text |-> t, at |-> now]
SqliteConvAdd(t) == [table |-> "conv", text |-> t, at |-> now]
PgConvAdd(t) == [table |-> "conv", text |-> t, at |-> now]
SqliteQueryLogAdd(t) == [table |-> "query", text |-> t, at |-> now]
PgQueryLogAdd(t) == [table |-> "query", text |-> t, at |-> now]
QueryLogAdd(t) == {IF backend = "sqlite" THEN SqliteQueryLogAdd(t) ELSE PgQueryLogAdd(t)}

\* _is_duplicate: one row of a text within the window, whoever records it.
IsDuplicate(t) == seen[t] > 0 /\ now - (seen[t] - 1) < Window
Seen(t) == [seen EXCEPT ![t] = IF IsDuplicate(t) THEN @ ELSE now + 1]

\* trace.record, and convreview.record after it, for a text.
TraceRecord(t) ==
    IF IsDuplicate(t) THEN {}
    ELSE {IF backend = "sqlite" THEN SqliteTraceAdd(t) ELSE PgTraceAdd(t)}
ConvRecord(t) ==
    IF IsDuplicate(t) THEN {}
    ELSE {IF backend = "sqlite" THEN SqliteConvAdd(t) ELSE PgConvAdd(t)}

-----------------------------------------------------------------------------
(* Sessions. *)

Ids == DOMAIN session
Open == {i \in Ids : ~session[i].closed}
Newer(i, j) == session[i].at > session[j].at \/ (session[i].at = session[j].at /\ i > j)
Latest == {i \in Open : \A j \in Open \ {i} : Newer(i, j)}

\* session_find_recent: PostgreSQL takes within_min and does not use it.
PgFindRecent == Latest
SqliteFindRecent == {i \in Latest : now - session[i].at <= Near}
FindRecent == IF backend = "sqlite" THEN SqliteFindRecent ELSE PgFindRecent

\* session_create counts the first message on SQLite, and does not on PostgreSQL.
SqliteSession == [at |-> now, closed |-> FALSE, count |-> 1]
PgSession == [at |-> now, closed |-> FALSE, count |-> 0]
Create == Append(session, IF backend = "sqlite" THEN SqliteSession ELSE PgSession)

\* session_bump: by id, closed or not.
SqliteBump(i) == [session EXCEPT ![i].at = now, ![i].count = @ + 1]
PgBump(i) == [session EXCEPT ![i].at = now, ![i].count = @ + 1]
Bump(i) == IF backend = "sqlite" THEN SqliteBump(i) ELSE PgBump(i)

\* session_close_old: PostgreSQL takes days and does not use it.
SqliteCloseOld == {i \in Open : session[i].at < now - Old}
PgCloseOld == {i \in Ids : session[i].at < now}
CloseOld == IF backend = "sqlite" THEN SqliteCloseOld ELSE PgCloseOld

-----------------------------------------------------------------------------
(* A turn of chat. *)

To(k, phase) == turn' = [turn EXCEPT ![k].phase = phase]

\* touch reads the most recent session.
Find(k, t) ==
    /\ turn[k].phase = "idle" /\ turns < MaxTurns
    /\ turn' = [turn EXCEPT ![k] = [phase |-> "found", text |-> t, found |-> FindRecent]]
    /\ turns' = turns + 1
    /\ UNCHANGED <<backend, now, log, seen, session, reopened, events, exportVars>>

\* It continues it when the topic is the same, and opens one else. Then the
\* query is logged, and recall leaves a trace if it found a memory.
Continue(k) ==
    /\ \E i \in turn[k].found : /\ session' = Bump(i)
                                /\ reopened' = (reopened \/ session[i].closed)
Begin(k) ==
    /\ Len(session) < MaxSessions
    /\ session' = Create
    /\ UNCHANGED reopened
File(k) ==
    /\ turn[k].phase = "found"
    /\ Continue(k) \/ Begin(k)
    /\ \E remembers \in BOOLEAN, query \in QueryLogAdd(turn[k].text) :
           /\ log' = log \cup {query}
                         \cup (IF remembers THEN TraceRecord(turn[k].text) ELSE {})
           /\ seen' = IF remembers THEN Seen(turn[k].text) ELSE seen
    /\ To(k, "filed")
    /\ UNCHANGED <<backend, now, turns, events, exportVars>>

\* after_chat: the evidence of the relationship; ingest; the turn itself.
Evidence(k) ==
    /\ turn[k].phase = "filed"
    /\ log' = log \cup TraceRecord(turn[k].text)
    /\ seen' = Seen(turn[k].text)
    /\ To(k, "answered")
    /\ UNCHANGED <<backend, now, session, reopened, turns, events, exportVars>>
Ingested(k) ==
    /\ turn[k].phase = "answered"
    /\ log' = log \cup TraceRecord(turn[k].text)
    /\ seen' = Seen(turn[k].text)
    /\ To(k, "ingested")
    /\ UNCHANGED <<backend, now, session, reopened, turns, events, exportVars>>
Told(k) ==
    /\ turn[k].phase = "ingested"
    /\ log' = log \cup ConvRecord(turn[k].text)
    /\ seen' = Seen(turn[k].text)
    /\ turn' = [turn EXCEPT ![k] = Waiting]
    /\ UNCHANGED <<backend, now, session, reopened, turns, events, exportVars>>

\* space_event_add, item_event_add.
Happens(table) ==
    /\ table \in {"item", "space"} /\ events < MaxEvents
    /\ events' = events + 1
    /\ log' = log \cup {[table |-> table, text |-> "", at |-> now]}
    /\ UNCHANGED <<backend, now, seen, session, turn, reopened, turns, exportVars>>

-----------------------------------------------------------------------------
(* The nightly run, in a process of its own. *)

\* What the helpers delete. PostgreSQL takes the days and compares with now.
Before(table, time) == {r \in log : r.table = table /\ r.at < time}
SqliteTracePrune == Before("trace", now - Keep)
SqliteQueryLogPrune == Before("query", now - Keep)
SqliteSpaceEventPrune == Before("space", now - Keep)
SqliteItemEventsPrune == Before("item", now - Keep)
PgTracePrune == Before("trace", now)
PgQueryLogPrune == Before("query", now)
PgSpaceEventPrune == Before("space", now)
PgItemEventsPrune == Before("item", now)

Prune ==
    IF backend = "sqlite"
    THEN SqliteTracePrune \cup SqliteQueryLogPrune \cup SqliteSpaceEventPrune
             \cup SqliteItemEventsPrune
    ELSE PgTracePrune \cup PgQueryLogPrune \cup PgSpaceEventPrune \cup PgItemEventsPrune

NightlyPrune ==
    /\ Prune # {}
    /\ log' = log \ Prune
    /\ UNCHANGED <<backend, now, seen, session, turn, reopened, turns, events,
                   exportVars>>
NightlyClose ==
    /\ CloseOld # {}
    /\ session' = [i \in Ids |-> [session[i] EXCEPT !.closed = @ \/ i \in CloseOld]]
    /\ UNCHANGED <<backend, now, log, seen, turn, reopened, turns, events,
                   exportVars>>

\* cmd_memory_probes: the rows not yet exported replace the file; then they are
\* marked, if the command is not stopped before.
Pending == {r \in log : r.table = "query" /\ r \notin exported}
ExportWrite ==
    /\ exporting = {} /\ Pending # {}
    /\ exporting' = Pending
    /\ UNCHANGED <<backend, now, turnVars, exported>>
ExportMark ==
    /\ exporting # {}
    /\ exported' = exported \cup exporting
    /\ exporting' = {}
    /\ UNCHANGED <<backend, now, turnVars>>
ExportStops ==
    /\ exporting # {}
    /\ exporting' = {}
    /\ UNCHANGED <<backend, now, turnVars, exported>>

\* touch reads and writes within one unit of the clock.
Tick ==
    /\ now < MaxTime
    /\ \A k \in Turns : turn[k].phase # "found"
    /\ now' = now + 1
    /\ UNCHANGED <<backend, turnVars, exportVars>>

Next ==
    \/ \E k \in Turns, t \in Texts : Find(k, t)
    \/ \E k \in Turns : File(k) \/ Evidence(k) \/ Ingested(k) \/ Told(k)
    \/ \E table \in Tables : Happens(table)
    \/ NightlyPrune \/ NightlyClose
    \/ ExportWrite \/ ExportMark \/ ExportStops
    \/ Tick

Spec == Init /\ [][Next]_vars

-----------------------------------------------------------------------------
(* Properties *)

\* Rows, sessions and turns have their types.
TypeOK ==
    /\ \A r \in log : r.table \in Tables \cup {"conv"} /\ r.at \in 0..now
    /\ \A i \in Ids : session[i].at \in 0..now /\ session[i].count \in Nat
    /\ \A k \in Turns : /\ turn[k].phase \in {"idle", "found", "filed", "answered", "ingested"}
                        /\ turn[k].found \subseteq Ids
    /\ exporting \subseteq [table : {"query"}, text : Texts, at : 0..now]

\* A closed session is not continued: the nightly run closes those only that
\* touch no longer finds (SQLite; on PostgreSQL neither looks at the age).
ContinuedIsOpen == backend = "sqlite" => ~reopened
===============================================================================
