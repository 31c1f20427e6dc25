-------------------------------- MODULE Storage --------------------------------
(***************************************************************************)
(* The database as a whole: what a start of SQLite takes over from older   *)
(* versions, exports and imports (tools/admin.py, dump_all, restore_all),  *)
(* and the clearing of a user (tools/memory.py, purge_scope). Both data    *)
(* layers; an import or a purge is one transaction, which PostgreSQL       *)
(* aborts as a whole when one of its statements fails, though the code     *)
(* goes on (the commit at the end is a rollback then).                     *)
(* Two tables stand for those of DUMP_TABLES: memories, whose key is the   *)
(* fact, and events, with an id from a sequence.                           *)
(***************************************************************************)
EXTENDS Naturals, FiniteSets

CONSTANTS
    Users,      \* users, with a scope each
    Files,      \* JSON files of the oldest version, one per user
    FileUser,   \* whose
    Backends,   \* "sqlite", "postgres"
    MaxId,      \* bound: ids of events
    MaxOps,     \* bound: commands
    MaxStarts   \* bound: starts

\* What is assumed of the constants.
StorageAssumption == FileUser \in [Files -> Users] /\ MaxId \in Nat

VARIABLES
    backend,   \* YUNO_DB_BACKEND
    broken,    \* files that are no JSON
    legacy,    \* files whose facts are in the table facts
    memories,  \* facts in memories: a file's, or one told to the bot
    events,    \* rows of events: id and user
    seq,       \* sequence of events: the last id it gave
    archive,   \* facts in .trash
    dump,      \* the last export
    counts,    \* what the last import reported per table
    starting,  \* files a start has yet to take over
    ops, starts

vars == <<backend, broken, legacy, memories, events, seq, archive, dump, counts, starting,
          ops, starts>>

Tables == {"memories", "events"}
Told(u) == [user |-> u, from |-> "chat"]
Kept(f) == [user |-> FileUser[f], from |-> "file"]
NoDump == [memories |-> {}, events |-> {}]
NoCounts == [t \in Tables |-> "none"]

Init ==
    /\ backend \in Backends
    /\ broken \in SUBSET Files
    /\ legacy = {} /\ memories = {} /\ events = {} /\ seq = 0
    /\ archive = {} /\ dump = NoDump /\ counts = NoCounts
    /\ starting = {}
    /\ ops = 0 /\ starts = 0

-----------------------------------------------------------------------------
(* A start. PostgreSQL takes nothing over. *)

\* _migrate_facts_to_memories: all facts, when there is no memory at all.
FactsToMemories(facts) == IF memories = {} THEN {Kept(f) : f \in facts} ELSE memories

\* _migrate_legacy: when the table facts is empty, the files, one after the
\* other, each committed; a broken file ends it.
Start ==
    /\ starts < MaxStarts /\ starting = {} /\ backend = "sqlite"
    /\ starts' = starts + 1
    /\ IF legacy = {} /\ Files # {}
       THEN starting' = Files /\ UNCHANGED memories
       ELSE memories' = FactsToMemories(legacy) /\ UNCHANGED starting
    /\ UNCHANGED <<backend, broken, legacy, events, seq, archive, dump, counts, ops>>
MigrateLegacy(f) ==
    /\ f \in starting
    /\ IF f \in broken
       THEN /\ starting' = {}
            /\ memories' = FactsToMemories(legacy)
            /\ UNCHANGED legacy
       ELSE /\ legacy' = legacy \cup {f}
            /\ starting' = starting \ {f}
            /\ memories' = IF starting = {f} THEN FactsToMemories(legacy \cup {f})
                           ELSE memories
    /\ UNCHANGED <<backend, broken, events, seq, archive, dump, counts,
                   ops, starts>>
\* The process stops while it takes the files over.
Crash ==
    /\ starting # {}
    /\ starting' = {}
    /\ UNCHANGED <<backend, broken, legacy, memories, events, seq, archive, dump, counts,
                   ops, starts>>

Running == starting = {} /\ (backend = "sqlite" => starts > 0)
Command == Running /\ ops < MaxOps /\ ops' = ops + 1

-----------------------------------------------------------------------------
(* The bot. *)

\* The next id: SQLite looks at the rows as well, PostgreSQL at the sequence.
Ids(e) == {x.id : x \in e}
Highest(e) == IF e = {} THEN 0 ELSE CHOOSE i \in Ids(e) : \A j \in Ids(e) : j <= i
SqliteNextId == (IF seq > Highest(events) THEN seq ELSE Highest(events)) + 1
PgNextId == seq + 1
NextId == IF backend = "sqlite" THEN SqliteNextId ELSE PgNextId

\* A user says something: a fact and an event, in one transaction, which fails
\* when the id is in use; the sequence has gone on even so.
Say(u) ==
    /\ Command /\ NextId <= MaxId
    /\ seq' = NextId
    /\ IF NextId \in Ids(events)
       THEN UNCHANGED <<events, memories>>
       ELSE /\ events' = events \cup {[id |-> NextId, user |-> u]}
            /\ memories' = memories \cup {Told(u)}
    /\ UNCHANGED <<backend, broken, legacy, archive, dump, counts, starting, starts>>

-----------------------------------------------------------------------------
(* Export and import. *)

\* dump_all, the same rows on both.
SqliteDumpAll == [memories |-> memories, events |-> events]
PgDumpAll == [memories |-> memories, events |-> events]

\* cmd_data_dump_json, cmd_data_export.
DataExport ==
    /\ Command
    /\ dump' = IF backend = "sqlite" THEN SqliteDumpAll ELSE PgDumpAll
    /\ UNCHANGED <<backend, broken, legacy, memories, events, seq, archive, counts, starting,
                   starts>>

\* What an import leaves: rows, sequence, and the report. bad is a table whose
\* columns do not fit, if any.
Result(m, e, s, c) == [memories |-> m, events |-> e, seq |-> s, counts |-> c]
Report(bad) == [t \in Tables |-> IF t = bad THEN "skipped" ELSE "imported"]

\* A table after its import; a table that is skipped has been deleted all the same.
Restored(new, old, replace, skip) ==
    (IF replace THEN {} ELSE old) \cup (IF skip THEN {} ELSE new)

\* PostgreSQL inserts; a row that exists, or columns that do not fit, abort the
\* transaction: the tables after it are skipped, those before are rolled back
\* and reported as imported. Sequences stay.
PgFails(t, replace, bad) ==
    \/ t = bad
    \/ ~replace /\ (IF t = "memories" THEN dump.memories \cap memories
                                      ELSE Ids(dump.events) \cap Ids(events)) # {}
PgRestoreAll(replace, bad) ==
    LET failsFirst == PgFails("memories", replace, bad)
        fails == failsFirst \/ PgFails("events", replace, bad)
    IN  IF fails
        THEN Result(memories, events, seq,
                    [t \in Tables |-> IF t = "events" \/ failsFirst THEN "skipped"
                                      ELSE "imported"])
        ELSE Result(Restored(dump.memories, memories, replace, FALSE),
                    Restored(dump.events, events, replace, FALSE), seq, Report("none"))

\* SQLite merges, or deletes first; then the sequences follow the rows.
SqliteRestoreAll(replace, bad) ==
    LET new == Ids(dump.events)
        e == Restored(dump.events, IF bad = "events" THEN events
                                   ELSE {x \in events : x.id \notin new},
                      replace, bad = "events")
    IN  Result(Restored(dump.memories, memories, replace, bad = "memories"), e, Highest(e),
               Report(bad))

RestoreAll(replace, bad) ==
    IF backend = "sqlite" THEN SqliteRestoreAll(replace, bad) ELSE PgRestoreAll(replace, bad)

\* cmd_data_import of a JSON dump. A dry run does the same, and prints that it
\* would have.
DataImport(replace, bad) ==
    /\ Command /\ (bad \in Tables => dump[bad] # {})
    /\ LET r == RestoreAll(replace, bad)
       IN  /\ memories' = r.memories /\ events' = r.events
           /\ seq' = r.seq /\ counts' = r.counts
    /\ UNCHANGED <<backend, broken, legacy, archive, dump, starting, starts>>

-----------------------------------------------------------------------------
(* cmd_memory_clear_user. *)

Of(u) == {x \in memories : x.user = u}

\* _archive_scope, unless the file cannot be written; then the rows go anyway.
\* The table facts is left alone.
SqlitePurge(u) ==
    \E written \in BOOLEAN :
        /\ archive' = IF written THEN archive \cup Of(u) ELSE archive
        /\ memories' = memories \ Of(u)
        /\ events' = {x \in events : x.user # u}

\* event_relations has no column scope: the transaction is aborted.
PgPurge(u) == UNCHANGED <<archive, memories, events>>

ClearUser(u) ==
    /\ Command
    /\ IF backend = "sqlite" THEN SqlitePurge(u) ELSE PgPurge(u)
    /\ UNCHANGED <<backend, broken, legacy, seq, dump, counts, starting, starts>>

Next ==
    \/ Start \/ Crash
    \/ \E f \in Files : MigrateLegacy(f)
    \/ \E u \in Users : Say(u) \/ ClearUser(u)
    \/ DataExport
    \/ \E replace \in BOOLEAN, bad \in Tables \cup {"none"} : DataImport(replace, bad)

Spec == Init /\ [][Next]_vars

-----------------------------------------------------------------------------
(* Properties *)

\* Rows, sequence and report have their types.
TypeOK ==
    /\ legacy \subseteq Files /\ starting \subseteq Files
    /\ memories \cup archive \subseteq [user : Users, from : {"chat", "file"}]
    /\ events \subseteq [id : 1..MaxId, user : Users] /\ seq \in 0..MaxId
    /\ counts \in [Tables -> {"none", "imported", "skipped"}]

\* What an import reports as imported is in the database, and what it reports
\* as skipped is not (restore_all of SQLite; PostgreSQL rolls the former back).
ImportReported ==
    [][backend = "sqlite" /\ (\E replace \in BOOLEAN, bad \in Tables \cup {"none"} :
                                   DataImport(replace, bad)) =>
           /\ counts'["memories"] = "imported" => dump.memories \subseteq memories'
           /\ counts'["events"] = "imported" => dump.events \subseteq events']_vars
===============================================================================
