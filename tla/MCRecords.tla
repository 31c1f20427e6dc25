------------------------------- MODULE MCRecords -------------------------------
(***************************************************************************)
(* What is kept of conversations, and the work on it: the indexes and the  *)
(* search, the log of turns, the scores, export and import, the knowledge  *)
(* drawn from facts, the upkeep and the reflection at night, the scan for  *)
(* facts nobody said, and dates. Each component has tables of its own      *)
(* here, so a run explores one of them at a time: focus says which.        *)
(* backend, now, edits and nights are those of the component in focus.     *)
(***************************************************************************)
EXTENDS Integers, Sequences, FiniteSets, TLC

CONSTANTS Backends, Threads,
          Notes, PrivateNotes, Seekers, ResultTtl, MaxRows, MaxGrows, MaxAsks, MaxSearchTime,
          LogTexts, Turns, LogTables, Keep, Window, Near, Old, MaxSessions, MaxTurns, MaxEvents,
          MaxLogTime,
          AdjustTtl, MaxReviews, MaxScoreTime,
          Users, Files, FileUser, MaxId, MaxOps, MaxStarts,
          Facts, Title, TopicOf, Alike, EntityOf, Kinds, Limit, MaxIds, MaxChanges, MaxBuilds,
          Remarks, Short, Talk, Whole, Summary, Chain, MinFacts, Top, MaxVerdicts, MaxEdits,
          MaxNights,
          Claims, Words, Messages, Contains, Questions, Stable, MaxSaid, MaxScans,
          Beliefs, Trusts, MaxEntries,
          First, FirstWeekday, Today, Numbers, MaxLater

VARIABLES focus, backend, now, edits, nights,
          rows, known, bm25, fts, vec, grow, late, cache, seeker, gone, grows, asks,
          log, seen, session, turn, reopened, exported, exporting, turns, happened,
          given, scores, convs, audited, report, adj, adjCache, asking, used, changed, reviews,
          broken, legacy, memories, events, seq, archive, dump, counts, starting, ops, starts,
          kind, facts, wrong, event, lastId, follows, related, params, links, queue, reading,
          skipped, revived, night, dossier,
          kept, topic, stage, todo, held, verdicts, mapping, lowered,
          filed, open, conv, deduped, chat, scan, stated, lost, quiet, said, scans,
          beliefs, beliefLog, verdict, asleep, undo,
          today, dated, booked, shown, later

retrievalVars == <<rows, known, bm25, fts, vec, grow, late, cache, seeker, gone, grows, asks>>
turnVars == <<log, seen, session, turn, reopened, exported, exporting, turns, happened>>
reviewVars == <<given, scores, convs, audited, report, adj, adjCache, asking, used, changed,
                reviews>>
storageVars == <<broken, legacy, memories, events, seq, archive, dump, counts, starting, ops,
                 starts>>
knowledgeVars == <<kind, facts, wrong, event, lastId, follows, related, params, links, queue,
                   reading, skipped, revived, night, dossier>>
upkeepVars == <<kept, topic, stage, todo, held, verdicts, mapping, lowered>>
scanVars == <<filed, open, conv, deduped, chat, scan, stated, lost, quiet, said, scans>>
beliefVars == <<beliefs, beliefLog, verdict, asleep, undo>>
dateVars == <<today, dated, booked, shown, later>>
vars == <<focus, backend, now, edits, nights, retrievalVars, turnVars, reviewVars, storageVars,
          knowledgeVars, upkeepVars, scanVars, beliefVars, dateVars>>

-----------------------------------------------------------------------------
(* The instances and their bounds. *)

Found == INSTANCE Retrieval
    WITH Facts <- Notes, Private <- PrivateNotes, Ttl <- ResultTtl, MaxEdits <- MaxRows,
         MaxTime <- MaxSearchTime

Logged == INSTANCE TurnLog
    WITH Texts <- LogTexts, Tables <- LogTables, MaxTime <- MaxLogTime, events <- happened

Scored == INSTANCE Reviews WITH Ttl <- AdjustTtl, MaxTime <- MaxScoreTime, cache <- adjCache

Stored == INSTANCE Storage

Known == INSTANCE Knowledge
    WITH MaxEdits <- MaxChanges, MaxNights <- MaxBuilds, rows <- facts, events <- event

Nightly == INSTANCE Upkeep WITH Facts <- Remarks, rows <- kept

Scanned == INSTANCE Pollution
    WITH Facts <- Claims, Turns <- Threads,
         rows <- filed, seen <- deduped, turn <- chat, told <- stated

Trust == INSTANCE Reflection
    WITH Nights <- Threads, log <- beliefLog, said <- verdict, night <- asleep

Dated == INSTANCE Dates WITH told <- dated

\* Values of the constants in a run. Two files, of a user each.
MCFileUser == [f \in Files |-> IF f = "f1" THEN "u1" ELSE "u2"]

\* Two facts of one title; the titles "cat" and "trip" are alike.
MCTitle == [f \in Facts |-> IF f = "cat" THEN f ELSE "trip"]
MCTopicOf == [x \in Facts \cup {"trip"} |-> IF x = "cat" THEN "pets" ELSE "travel"]
MCAlike == {{"cat", "trip"}}
MCEntityOf == [t \in {"cat", "trip"} |-> IF t = "cat" THEN "cat" ELSE "japan"]

\* Two short facts told in one evening.
MCTalk == [t \in {"cat", "milk", "whole", "sum", "chain"} |->
              IF t \in {"sum", "chain"} THEN "day" ELSE "eve"]
MCWhole == [k \in {"eve"} |-> "whole"]

\* A cat with a name, told or asked about, and a game that is asked about only.
MCWords == [f \in Claims |-> IF f = "cat" THEN {"cat", "name", "red"} ELSE {f}]
MCContains == [m \in Messages |->
                  CASE m = "tell cat" -> {"cat", "name"} [] m = "name it" -> {"name"}
                    [] m = "ask game" -> {"game"}]

\* December to May, the first a Sunday; said from the middle of January to that of February.
MCFirst == <<0, 31, 62, 90, 121, 151, 182>>
MCToday == 45..75

ASSUME ConstantsAssumption ==
    /\ Found!RetrievalAssumption /\ Logged!TurnLogAssumption /\ Scored!ReviewsAssumption
    /\ Stored!StorageAssumption /\ Known!KnowledgeAssumption /\ Nightly!UpkeepAssumption
    /\ Trust!ReflectionAssumption /\ Scanned!QuestionsAssumption
    /\ Dated!CalendarAssumption
\* The bounds of counters are natural numbers; no event is told when the calendar is over.
ASSUME BoundsAssumption ==
    /\ {MaxChanges, MaxEdits, MaxNights, MaxLater} \subseteq Nat
    /\ \A d \in Today : d + MaxLater <= Dated!Horizon

-----------------------------------------------------------------------------
Components == {"retrieval", "turns", "reviews", "storage", "knowledge", "upkeep", "scan", "beliefs",
               "dates"}

\* What varies from start to start does so for the component in focus.
Init ==
    /\ focus \in Components
    /\ Found!Init /\ Logged!Init /\ Scored!Init /\ Stored!Init /\ Known!Init
    /\ Nightly!Init /\ Scanned!Init /\ Trust!Init /\ Dated!Init
    /\ focus \in {"upkeep", "scan", "beliefs", "dates"} => backend = "sqlite"
    /\ focus # "storage" => broken = {}
    /\ focus # "knowledge" => kind = "chat"
    /\ focus # "scan" => \A f \in DOMAIN filed : filed[f] = Scanned!NoRow
    /\ focus # "dates" => today = CHOOSE d \in Today : TRUE

NextRetrieval ==
    /\ focus = "retrieval" /\ Found!Next
    /\ UNCHANGED <<focus, nights, turnVars, reviewVars, storageVars, knowledgeVars, upkeepVars,
                   scanVars, beliefVars, dateVars>>
NextTurns ==
    /\ focus = "turns" /\ Logged!Next
    /\ UNCHANGED <<focus, edits, nights, retrievalVars, reviewVars, storageVars, knowledgeVars,
                   upkeepVars, scanVars, beliefVars, dateVars>>
NextReviews ==
    /\ focus = "reviews" /\ Scored!Next
    /\ UNCHANGED <<focus, edits, nights, retrievalVars, turnVars, storageVars, knowledgeVars,
                   upkeepVars, scanVars, beliefVars, dateVars>>
NextStorage ==
    /\ focus = "storage" /\ Stored!Next
    /\ UNCHANGED <<focus, now, edits, nights, retrievalVars, turnVars, reviewVars,
                   knowledgeVars, upkeepVars, scanVars, beliefVars, dateVars>>
NextKnowledge ==
    /\ focus = "knowledge" /\ Known!Next
    /\ UNCHANGED <<focus, now, retrievalVars, turnVars, reviewVars, storageVars, upkeepVars,
                   scanVars, beliefVars, dateVars>>
NextUpkeep ==
    /\ focus = "upkeep" /\ Nightly!Next
    /\ UNCHANGED <<focus, backend, now, retrievalVars, turnVars, reviewVars, storageVars,
                   knowledgeVars, scanVars, beliefVars, dateVars>>
NextScan ==
    /\ focus = "scan" /\ Scanned!Next
    /\ UNCHANGED <<focus, backend, now, edits, nights, retrievalVars, turnVars, reviewVars,
                   storageVars, knowledgeVars, upkeepVars, beliefVars, dateVars>>
NextBeliefs ==
    /\ focus = "beliefs" /\ Trust!Next
    /\ UNCHANGED <<focus, backend, now, edits, retrievalVars, turnVars, reviewVars, storageVars,
                   knowledgeVars, upkeepVars, scanVars, dateVars>>
NextDates ==
    /\ focus = "dates" /\ Dated!Next
    /\ UNCHANGED <<focus, backend, now, edits, nights, retrievalVars, turnVars, reviewVars,
                   storageVars, knowledgeVars, upkeepVars, scanVars, beliefVars>>

Next ==
    \/ NextRetrieval \/ NextTurns \/ NextReviews \/ NextStorage
    \/ NextKnowledge \/ NextUpkeep \/ NextScan \/ NextBeliefs \/ NextDates

Spec == Init /\ [][Next]_vars

\* The turns of chat next to the scan are interchangeable, and so are the nights.
Symmetry == Permutations(Threads)

-----------------------------------------------------------------------------
\* The states of each component have their types.
TypeOK ==
    /\ focus = "retrieval" => Found!TypeOK
    /\ focus = "turns" => Logged!TypeOK
    /\ focus = "reviews" => Scored!TypeOK
    /\ focus = "storage" => Stored!TypeOK
    /\ focus = "knowledge" => Known!TypeOK
    /\ focus = "upkeep" => Nightly!TypeOK
    /\ focus = "scan" => Scanned!TypeOK
    /\ focus = "beliefs" => Trust!TypeOK
    /\ focus = "dates" => Dated!TypeOK

\* What a search brings to light is in the memory, or was at most a while ago, and the index
\* has all that is stored (reasoning.retrieve, lexical.bm25_sync).
SearchIsCurrent == focus = "retrieval" => Found!HitsCurrent /\ Found!IndexComplete

\* What is drawn from facts follows them: events, topics and entities, corrections, the weight
\* that a summary takes over, what the user is said to have said, and the doubts about beliefs
\* (graph.py, backfill.py, pollution_scan, advisor.py).
KnowledgeFollows ==
    /\ focus = "knowledge" => Known!RelationsHold /\ Known!CorrectionsAccounted
    /\ focus = "upkeep" => Nightly!LoweredIsCovered
    /\ focus = "scan" => Scanned!ScanIsRepeatable
    /\ focus = "beliefs" => Trust!ShownNotRejected /\ Trust!DoubtLogged

\* A session that is continued is open, and an adjustment follows the scores within its
\* lifetime (touch, adjustments).
SessionsAndScoresHold ==
    /\ focus = "turns" => Logged!ContinuedIsOpen
    /\ focus = "reviews" => Scored!AdjustmentsCurrent

\* A phrase is the days it means, an appointment is on the day it names, and an event is shown
\* as long ago as it was (time_extract.extract, _parse_dt, label_for).
DatesAreRight == focus = "dates" => Dated!DatesAreRight

\* What an import reports as imported is in the database (restore_all).
ImportReported == Stored!ImportReported
===============================================================================
