# Formal model of Yuno

TLA+ modules, TLC configurations and TLAPS proofs for the bot in this
repository (`bot.py`, `memory/`, `plugins/`, `agent/`, `web/`, `yuno_memory/`).
Every definition is translated from the source; `PROJECT.json` gives, for each
one, the file and the lines it stands for. This file says what the system's
parts are, what is modelled, what the checks and the proofs show, and what is
left.

## 1. The system

### 1.1 Components

| Component | State it keeps | Operations | What makes it correct |
|---|---|---|---|
| Chat front, `bot.py` | in memory, per chat: `_history`, `_chat_busy`, `_chat_pending`, `_bridge_last` | `on_group_at_message_create`, `on_c2c_message_create`, `_handle`, `_chat`, `_ask`, `_send_bridge`, `_reply_in_chunks`, `on_ready` | one LLM call per chat; no message waits for ever, is answered twice or is answered into nothing; the history is a list of whole turns |
| Memory store, `memory/controller.py`, `memory/world.py`, and policies, `memory/policy.py` | table `memories`: per fact a status (active, superseded, contested), a class (short, long, core), a confidence | `ingest` (supersede, correct, merge, promote), `add_fact`, `active_edit`, `publicize`, `conflict_scan`, `calendar_check`, `promote`, `forget`, `prune` | identity anchors survive; only anchors are resident; the caps hold; what was superseded stays hidden; a correction is carried through |
| Notification queue, `plugins/_db_*_memory.py`, `plugins/broadcast.py` | table `notifications` | `notif_add`, `notif_pending`, `notif_mark_sent`, `notif_mark_failed`; `outbox_loop` | what is marked sent was taken; retries end; nothing settled is sent again; what is due is settled |
| Memory plugin, `plugins/memory.py` | `_sess_buffer`, `_last_group_extract`; kv rows | `after_chat`, `/公开`, `/目标`, `/绑定` | no message is lost from the buffer; extractions are spaced |
| Appointments, `memory/appointment.py`, `memory/mistake.py` | one kv list; mistakes per user | `extract`, `check_and_poke` (compare-and-swap), `clean` | pokes are counted as they are sent; what is done stays done |
| Sharing, `memory/sharing.py` | kv `sharing_state`, `sharing_sent` | `drive` | cooldown and caps per day and week; no reason twice |
| Sleep, `memory/sleep.py` | kv `sleep_queue:<scope>`, dreams | `queue_add`, `queue_take`, `emergency_wake`, `night_run` | an unread message is told once; a dream is mentioned once |
| Living space, `memory/living.py`, `space.py`, `floorplan.py`, `schedule.py`, `environment.py` | items and their events, positions, searches, the floor plan, the plan of the week, a snapshot of the surroundings | moves, inspections, item search; routes; `get_week_plan`; `snapshot`, `fetch` | inventory and log agree; one position; ways exist and are shortest; the week keeps its rules; what is shown is of now |
| Games, adviser, `plugins/games.py`, `memory/advisor.py` | games, consultations, beliefs and their log | turn by turn automata per chat; `reflect_beliefs`, `rollback_belief` | a game can go on; one piece of advice; a rejected belief is not shown |
| Feelings and will, `memory/emotion.py`, `relationship.py`, `mind.py` | kv rows of moods, tones, returns; goals and intentions | `ai_apply`, `user_observe`, `note_return`; `recompute_intention`, `_save_intention` | a mood, a return, an intention belongs to the one it is about |
| Agent and habits, `agent/`, `memory/procedures.py` | evidence of a turn; habits and one cached match | `ask` (search, decide, execute), the evidence gate | an answer claims what the memory holds |
| Retrieval and what is derived, `memory/reasoning.py`, `lexical.py`, `vecindex.py`, `graph.py`, `topic.py`, `backfill.py` | indexes, caches, events, topics, entities, invalidations | `retrieve`, the rebuilds, `reconcile_pending`, the nightly `run` | results are current; indexes are complete; what is derived follows the facts |
| Logs and scores, `memory/trace.py`, `convreview.py` | traces, conversations, sessions, queries, scores, adjustments | `touch`, `record`, `score`, `adjustments`, prunings | a continued session is open; adjustments follow the scores |
| Dates, `memory/time_extract.py` | none | `extract`, `label_for`, `_parse_dt` | a phrase is the days it means |
| Console and tools, `web/`, `tools/` | tasks, their history, the live configuration; dumps | `run_task`, `run_ablation`, export, import, purge, `cmd_pollution_scan` | the configuration is put back; what is reported imported is there; a scan deletes nothing that was said |
| Data layer, `plugins/_db_sqlite_*.py`, `plugins/_db_pg_*.py` | a connection and a lock; a pool and connections bound to threads | helpers, `transaction()`, `kv_cas` | a helper is atomic; a transaction commits or leaves nothing |

### 1.2 How they interact

A message reaches `bot.py`; commands, games and the adviser may answer it,
otherwise `_chat` calls `agent.ask` in a worker thread (search, habits, LLM,
evidence gate), records the turn and spawns `after_chat` as a task, which feels,
traces and runs `ingest` in another worker thread. Ingest writes the memory
tables and what is derived from them in one transaction. Appointments, sharing,
the App and the MCP server put rows into `notifications`; `outbox_loop`, a task
of the bot's event loop, sends them. At night `backfill.run` condenses, merges,
relinks, rebuilds the indexes and reviews beliefs, in the bot or in a process
of its own. The console and the command line work on the same database.

The concurrency is of three kinds: coroutines, which interleave at every
`await`; worker threads, which interleave at every database helper outside
`_db.transaction()`; and processes. What lives in memory is lost with its
process; the tables are not.

### 1.3 What is hard here

`PROJECT.json` lists the hazards, each at its line. They are mostly of one
shape: a value is read, something slow happens (an `await`, a call of the LLM,
another helper), and what was read is written back or acted upon. The others
are caps and boundaries (`controller.py:94-107`, dates at the end of a month),
a failure or a stop between two writes, and caches that outlive what they keep.

## 2. Modules

| Module | Models | Checked through |
|---|---|---|
| `ChatFront` | the chat front | `MCChatFront` |
| `MemoryStore` | memories of one private chat and every writer of them | `MCMemoryStore` |
| `Delivery`, `Outbox` | what the notification queue promises; the table, its loop, READY, restart | `MCOutbox` |
| `Appointment` | the list of appointments and its writers | `MCBackground` |
| `Sharing` | messages sent unasked | `MCBackground` |
| `Sleep` | unread messages and dreams | `MCBackground` |
| `ItemSearch` | searches at home and `inspection_loop` | `MCBackground` |
| `PgPool` | connections and transactions of PostgreSQL | `MCBackground` |
| `Items` | things, containers, the log of item events | `MCDailyLife` |
| `Position` | where she is, by town and room | `MCDailyLife` |
| `AfterChat` | what follows the answer to a group message | `MCDailyLife` |
| `Adviser` | consultations | `MCDailyLife` |
| `Games` | idiom chain and quiz | `MCDailyLife` |
| `Retrieval` | indexes, caches and the search | `MCRecords` |
| `TurnLog` | sessions, traces, conversations, logs and their prunings | `MCRecords` |
| `Reviews` | scores, adjustments and their caches | `MCRecords` |
| `Storage` | start, migration, export, import, purge | `MCRecords` |
| `Knowledge` | events, topics, entities, the queue of corrections | `MCRecords` |
| `Upkeep` | condensing and merging facts at night, calibration | `MCRecords` |
| `Pollution` | the scan for facts nobody said | `MCRecords`, `MCPollution` |
| `Reflection` | beliefs, their review and its rollback | `MCRecords` |
| `Dates` | phrases, appointments' days, labels | `MCRecords` |
| `Answering` | `agent.ask`: evidence, habits, the gate | `MCInnerLife` |
| `Feelings` | moods, tones, returns, mistakes | `MCInnerLife` |
| `Minds` | goals and intentions | `MCInnerLife` |
| `WebTasks` | evaluations, ablations, switches of the console | `MCInnerLife` |
| `HomeMap` | the graph of the home, its check and its two searches for ways | `MCInnerLife` |
| `Environment` | the snapshot of the surroundings and the weather | `MCInnerLife` |
| `Schedule` | the plan of the week | `MCInnerLife` |
| `ChatFrontProofs`, `MemoryStoreProofs`, `OutboxProofs` | theorems of the component they are named for | TLAPS |
| `PromiseProofs` (appointments, sharing and searches), `BackgroundProofs` (connections, sleep, types) | theorems of the components of `MCBackground` | TLAPS |
| `DailyLifeProofs` | theorems of the components of `MCDailyLife` | TLAPS |
| `RecordsProofs` | theorems of the components of `MCRecords` | TLAPS |
| `InnerLifeProofs` | theorems of the components of `MCInnerLife` | TLAPS |

The four composites (`MCBackground`, `MCDailyLife`, `MCRecords`, `MCInnerLife`)
instantiate components that have tables of their own, and give them their
bounds. The variable `focus` says which component moves in a behaviour: the
components of a composite share no data, so their product would only multiply
states. `stops`, `raced`, `backend`, `now` and the like are counters or
parameters every component has, and belong to the one in focus. Where
components do share data (facts in the store, in the indexes and in what is
derived) each module models its own view of every writer.

Operators commented as seeded faults (`AcquireUnchecked`, `MergesNoRoom`, ...)
belong to no behaviour of the model. Each is the bug that a property is there
to catch: with the definition that follows it replaced by it, TLC finds that
property violated. A property that joins several components has a fault in
each of them; `PROJECT.json` lists one per property, section 3.2 the others.

### 2.1 Chat front: ChatFront

A message is the process of its coroutine; `pc[m]` says at which `await` it is
(the header of the module lists the phases). An action is the code between two
awaits. `busy`, `pending` and `history` are the dictionaries of `bot.py`;
`bridged` stands for the clock comparison with `_bridge_last`; `window[m]` is
the slice of the history handed to `agent.ask`. `rerun`, `chunks`, `out` and
`learned` record which `_chat` nobody awaits, how many pieces a reply has, how
many were handed to `message.reply`, and whether `after_chat` was spawned.

`_handle` ends in `_chat` without suspending, so `RouteToChat` is one step with
the busy check. The finally block of `_chat` and the creation of the task for a
pending message are one step (`Release`); the task gets the loop later
(`StartPending`), when the chat may be busy again. An exception of `agent.ask`
is an answer too: `_chat_once` replies with a fallback text and records it.
A reply of zero pieces is an empty text.

### 2.2 Memory: MemoryStore

One private chat; a row keeps its status and its class. `SupersedeRow`,
`Investigate`, `SkipRow` and `CorrectRow` are single database calls of an ingest
thread, and everything else may run between them. `Store` is the block inside
`_db.transaction()`: near duplicates (`Splits`), `merge_facts` (`Merges`),
`memory_replace` (`Replace`) and `promote_core` (`Promotions`, `PromoteCore`).
Confidence, importance and age only decide which rows a policy picks; the
policies here may pick any row that passes their other conditions, so what holds
in the model holds for every value of those numbers. `Maintain` is the rest:
`publicize`, `add_fact`, `active_edit`, `forget`, `promote`, `prune` and the two scans, one
row at a time. `promote` is one of the cases of `Remember`, which writes class
long.

`Stable`, `Preference` and `Named` are the classes that `fact_class` and
`extract_entities` compute from the text, `Similar` what `find_near_dup` scores.
Encrypted facts, other scopes and the indexes are outside the module.

### 2.3 Notifications: Outbox and Delivery

A notification is due or scheduled, sent or not, failed or not, and has a count
of retries. A loop holds the rows of the pass that are left; `Accept` is the
platform taking a message, `MarkSent` and `MarkFailed` are what the loop records
afterwards. A send that raises may or may not have been taken, and
`notif_mark_sent` may raise as well, so `MarkFailed` is possible in both phases.
`Die` is a database error outside the try statement: the task ends and nothing
restarts it but the next READY. `OnReady` starts one more loop; `overlapped`
remembers whether two were ever alive together. A slot for a loop is used once
between two restarts.

`Delivery` is the queue without loops, batches or restarts. `Queue` in `Outbox`
gives the mapping: a row is sent, given up, waiting or scheduled.

### 2.4 Background work

`Appointment` has the kv list as a value that `extract`, `clean` and the poke
read and write back, `check_and_poke` with the compare-and-swap in the two
statements `kv_cas` has, for several processes or threads (`locked` says
whether they share the lock of one process). `Sharing` has the records per chat
and the one read of them before the LLM is asked, the one write after.
`Sleep` has the queue of one chat as messages with ids, of which the newest are
kept. `ItemSearch` has the pending inspections, the search of an item as a chain
of visits, and `inspection_loop` from the read of the table through the awaits
to the take. `PgPool` has the lock, the pool, the connection bound to each
thread with its open writes, the counter of transactions, and helpers of two
statements that may fail at each.

### 2.5 Daily life

`Items` keeps the inventory, and the place the log of events implies (`at`);
each operation of `living.py` is read, write, log, by threads. `Position` has
the record in kv and the plan of the day, and changes only when a caller asks.
`AfterChat` has the buffer, the count and the extraction of one group over the
awaits of `after_chat`. `Adviser` has the consultation between read, LLM and
save. `Games` works on single letters for characters and keeps what
`idiom_chain` and `quiz` keep.

### 2.6 Records

`Retrieval` follows a search through its channels to the result and the cache,
with rows changing in between, and the nightly rebuilds as three steps each.
`TurnLog` has the tables a turn fills, by turn, and the deletions of the night,
in both data layers. `Storage` has two tables for the many of `DUMP_TABLES`, one
of them with ids from a sequence. `Knowledge` has the events, links and
parameters one scope's facts give rise to, and the night helper by helper.
`Upkeep` counts confidence in levels. `Pollution` reduces texts to sets of
words, the level of a row to the share of its words that users said.
`Reflection` has the beliefs, the log of verdicts and the rollback, by two
nights. `Dates` has days as numbers over a calendar with months of 28 to 31
days, and each phrase as the set of days it gives.

### 2.7 Inner life

`Answering` has an answer as the set of details it asserts, the evidence of the
turn as what was recalled, habits with their counts and the one cached match.
`Feelings` has each kv value with its read and write apart. `Minds` has the
dictionary of intentions, saved row by row. `WebTasks` has the tasks, the
history file and the configuration. `HomeMap` starts from every plan of three
doors out of `Written` and runs the breadth-first search and Dijkstra's
algorithm. `Environment` has the snapshot, the weather cache and the builders of
both. `Schedule` has the draw of the week as any choice the pool allows.

## 3. Runs

Sizes are distinct states (up to symmetry), times on four cores.

| Run | Instance | Result |
|---|---|---|
| `chat_front` | one chat, three messages, history of 4, window of 2, up to 2 pieces, 1 restart | 8 properties hold (83,477) |
| `chat_front_pending` | two messages | `PendingReplyDelivered` is violated: finding 1 |
| `memory_store` | three facts (two anchors), two threads, cap 1, core cap 1, up to 2 new facts | 5 properties hold (651,112) |
| `memory_superseded` | the same with one thread | `SupersededStaysHidden` is violated: finding 2 |
| `memory_correction` | the same with one thread | `CorrectionCompletes` is violated: finding 3 |
| `outbox` | two rows, two loops, 2 retries, 2 stops | 6 properties hold (60,216) |
| `outbox_delivery` | three rows in passes of 2, one loop, 2 retries, 2 stops | the refinement of `Delivery` holds (37,884) |
| `background` | five components, bounds in `Background.cfg` | 5 properties hold (1,320,784) |
| `daily_life` | five components, bounds in `DailyLife.cfg` | 5 properties hold (861,204) |
| `records` | nine components, bounds in `Records.cfg` | 6 properties hold (1,297,090) |
| `inner_life` | seven components, bounds in `InnerLife.cfg` | 4 properties hold (1,371,720) |
| `pollution_scan` | two facts, three messages, two turns, two scans | `SpokenIsKept` is violated: finding 4 |

### 3.1 Bounds

* Two chats share no variable of `ChatFront` except through the message
  tables, so one chat shows every interleaving within a chat. Three messages are
  the least that give one in the LLM, one parked and one that displaces it, and
  two turns of history plus a third that is truncated (the cap of 4 holds two
  turns; the code keeps six). The safety theorems hold for any number of both.
* Two anchors for a core of one make `promote_core` choose; one anchor at a cap
  of one leaves no room, which is the boundary of `merge_facts`; two new facts
  overflow it. A near duplicate, a proper noun, an anchor and a fact that may be
  forgotten are all among the three facts. Two threads are enough for one to
  rewrite the table while the other is between two calls of a correction.
* In `outbox`, passes of two rows put one failing row before another; two slots
  let a second READY overlap the first loop; two stops let a crash fall between
  send and mark twice. `MaxCopies` (5) is above what the counted attempts
  allow, and only keeps overlapping loops finite.
* In the composites each value that is read and written back has two actors on
  it, every bounded list or cache has one entry more than its bound, every
  lifetime can run out, and one restart or edit can fall between any two steps
  (`MaxStops`, `MaxEdits`, `MaxWaits`, ...: all bounds of counters are
  constants named `Max...`). `PgPool` has three threads on two connections, so
  that the pool runs dry. The calendar of `Dates` has the short month, the week
  over the end of a month, and every day from the 15th of one month to the 14th
  of the next but one as today. `HomeMap` has every plan of three doors over
  three rooms out of the eight ways a door can be written, among them none, one
  end, a gate and an unknown room.

`CHECK_DEADLOCK FALSE` is set where the instance really stops: every message
settled, every row settled and the last loop dead, or the counters of a
composite used up.

### 3.2 Properties

Each is stated in words above its definition; the properties of a composite
name those of its components.

| Property | Components: property (seeded faults that break it) |
|---|---|
| `PromisesKept` | Appointment: `PokesAccounted` (`SwapUnchecked`); Sharing: `RateKept` (`EligibleOneMore`), `NotRepeated` (`MarkNothing`); ItemSearch: `SearchHasVisit` (`LoopScheduledThenTaken`) |
| `SleepAccounted` | Sleep: `UnreadAccounted` (`TakeNothing`), `DreamMentionedOnce` (`MentionUnmarked`) |
| `TransactionAtomic` | PgPool: `TransactionAtomic` (`MaybeCommitAlways`), `NothingLeftOpen` (`MaybeRelease`) |
| `DoneIsFinal` | Appointment (`SwapBlind`) |
| `PlacesAgree` | Items: `PlacesAgree` (`EventOfMovesDropped`), `GoneIsEmpty` (`GivenQuietly`); Position: `ArrivalsLogged` (`EmitAway`), `ArrivesForItsSlot` (`MovedByTravel`) |
| `TextsAccounted`, `ExtractionsSpaced` | AfterChat (`FlushKept`; `StartExtractionUnnoted`) |
| `DialoguesGoOn` | Adviser: `AdviceOnce` (`ConsultGetAny`); Games: `GameCanGoOn` (`BotWordsAll`) |
| `SearchIsCurrent` | Retrieval: `HitsCurrent` (`AnyRowByFacts`), `IndexComplete` (`UpsertNothing`) |
| `KnowledgeFollows` | Knowledge: `RelationsHold` (`Apart`), `CorrectionsAccounted` (`ReconciledNothing`); Upkeep: `LoweredIsCovered` (`CondenseOrNothing`); Pollution: `ScanIsRepeatable` (`RemedySparing`); Reflection: `ShownNotRejected` (`HalvedOf`), `DoubtLogged` (`DoubtedToNothing`) |
| `SessionsAndScoresHold` | TurnLog: `ContinuedIsOpen` (`PgFindRecent` for SQLite); Reviews: `AdjustmentsCurrent` (`ForEver`) |
| `DatesAreRight` | Dates: `MeansWhatItSays`, `AppointmentIsNext`, `LabelIsTrue` (`NextWeekdayOrToday`, `WeekRangeFromToday`) |
| `ImportReported` | Storage (`PgRestoreAll` for SQLite) |
| `MindHolds` | Answering: `ClaimsHeld` (`OnePort`, `SecondPasses`); Minds: `IntentionsKept` (`OnlyOwn`); Feelings: `BlamedOnlyInOverlap` (`BlamedByAll`), `ToneIsCurrent` (`Oldest`), `BlamedForHisOwn` (`RecordedOnTop`), `ReturnToldOnce` (`ReturnsAgain`) |
| `SurroundingsAreRight` | HomeMap: `WaysAreRight` (`EdgesWithGate`); Environment: `ServedIsOfNow` (`Restamped`); Schedule: `WeekIsSound` (`DrawnFromAll`) |
| `ConsolePutsBack` | WebTasks: `ConfigPutBack` (`PutNothingBack`), `HistoryInOrder` (`Earliest`) |

Some limits are in the statements because they are in the code:

* `GrowthWithinCap` speaks of an ingest that adds: `merge_facts` never cuts an
  anchor, and `add_fact` does not look at the cap at all.
* `PromotionWithinCap` speaks of promotions: a core row that was hidden does not
  count, and when `refresh`, `publicize` or `add_fact` brings one back the resident rows
  may exceed the cap.
* `CopiesAccounted`, `SettledIsFinal` and `KeepsPromise` (as a theorem) speak
  of behaviours without overlapping loops. With overlap both loops send what
  both have read; only `SentWasTaken` and `GivenUpAfterRetries` survive.
* Auxiliary variables record where the code loses an update, and the
  properties except those cases by name: `lost` and `overwritten`
  (Appointment), `slipped` and `doubled` (Sharing), `dropped` and `overlap`
  (Sleep), `raced` and `unlogged` (Items, Position, Adviser), `skipped` and
  `revived` (Knowledge), `mixed` (Minds, WebTasks). What is excepted is a
  behaviour of the code; section 3.5 tells the ones worth a look.

### 3.3 Fairness

`ChatFront`: weak fairness of each step of a started coroutine. asyncio runs
ready callbacks in order, and `agent.ask` ends because `deepseek_chat` sets a
timeout of 30 s and `ask_deepseek` tries three times
(`_shared.py:234-282`). There is none for arrivals, for the timeout of the
wait, or for a restart. `Outbox`: weak fairness of the steps of a loop that is
alive (`asyncio.sleep(30)` and a client with a timeout) and of the first READY
of a started process. Nothing makes a dead loop start again, and
`EventuallySettled` excepts that case by name. The composites check safety only
and assume no fairness.

### 3.4 Findings

1. `PendingReplyDelivered`: a message that arrives while its chat is busy is
   answered later, but its reply is the result of a task nobody awaits
   (`bot.py:297`); it is recorded and learned from and never sent. The comment
   at `bot.py:287` says such messages are no longer dropped.
2. `SupersededStaysHidden`: `promote_core` does not look at statuses
   (`policy.py:566-590`) and `memory_add` writes `active`, so a superseded
   anchor becomes resident again. `controller.py:1151` says a superseded fact is
   no longer recalled.
3. `CorrectionCompletes`: on the keyword branch of `_decay_conflicts` the name
   `reasoning` is not bound (`controller.py:349`, `398`, `416`); the exception
   ends the ingest after the old row was changed and before the new fact is
   stored. `controller.py:658-666` describes what should follow.
4. `SpokenIsKept`: `convreview.record` asks `_is_duplicate` after the trace of
   the same text has (`convreview.py:69`, `plugins/memory.py:474`,
   `controller.py:897`), so the log of conversations stays empty and the scan
   for facts nobody said finds the user's words in open sessions only. Later it
   deletes what the user stated, which `tools/memory.py:645` says is kept.

### 3.5 Behaviour met while modelling

The modules have these as they are; no run is about them.

* `kv_cas` returns `total_changes > 0`, a count over the life of the connection
  (`_db_sqlite_memory.py:86`): two processes may both claim a poke.
* `memory_replace_preserve` writes rows back without status and history
  (`_db_sqlite_memory.py:1081`): a superseded group fact is active again.
* `transaction()` raises its counter before it has a connection
  (`_db_pg_core.py:156`); when the pool is empty no later transaction commits.
* `purge_scope` of PostgreSQL names a column `event_relations` does not have
  (`_db_pg_ops.py:1402-1416`): the transaction is aborted, the report says done.
* `_migrate_facts_to_memories` runs at every start of SQLite: a user who was
  cleared and whose old `facts` table is still there comes back.
* `retrieve` adds rows by mood without `_visible` (`reasoning.py:713-735`).
* `session_find_recent` of PostgreSQL does not ask that the session be open.
* `goal_add` of PostgreSQL raises for a title that exists; `prune_expired`
  changes the dictionary it walks (`mind.py:188`).
* `rollback_belief` restores the confidence an entry logged, whatever happened
  since (`advisor.py:490`).
* `merge_fragments` merges superseded rows into active ones
  (`backfill.py:249`), and a second night merges again.
* A rewritten answer is not checked a second time (`ports.py:690-733`); habits
  have no scope.
* "X号" for a day the month does not have raises in `_parse_dt`
  (`appointment.py:123-125`): the appointment is not noted.
* Two messages of a member may both be told of the same return when their reads
  of `lastmsg` overlap (`relationship.py:151-171`); other kv lists lose updates
  in the same way.
* A plan that names a night out for a weekday is drawn again by every process
  (`schedule.py:216-260`).

## 4. Proofs

TLAPS checks the proofs for every value of the constants that satisfies the
named assumptions of the component's module; TLC evaluates the same assumptions
on the instances of section 3. The theorems about a composite are proofs for
every value of the constants of the modules they are about, too: to those the
composite passes its own CONSTANTS on, and only the `.cfg` gives them values.

| Theorem | Says | Argument |
|---|---|---|
| `ChatFrontProofs!TypeCorrect` | `TypeOK` | invariant by itself |
| `ChatFrontProofs!ChatSerialised` | `SingleFlight` | inductive with `TypeOK`: `Acquire` needs a free chat, only `Answer` and `Restart` free one |
| `ChatFrontProofs!PendingIsServed` | `PendingHasRunner` | inductive with the two above: the slot is filled only under a busy mark, and `Release` empties it in the step that clears the mark |
| `ChatFrontProofs!ContextIsCurrent` | `WindowCurrent` | the history of a chat changes only in `Answer`, and by `SingleFlight` no other message of the chat is in flight then |
| `ChatFrontProofs!HistoryIsPaired` | `HistoryPaired` | lemma `PushTurnEntries`: the cap is even, so what is cut off is whole turns, and the rest keeps its parity |
| `ChatFrontProofs!TurnsAreSingle` | `AnsweredOnce` | `TurnInv`: a message still on its way has no turn and is not learned from, one that has a turn is learned from; `PushTurnTurns` says where each turn of the new history comes from |
| `ChatFrontProofs!AwaitedRepliesDelivered` | `AwaitedReplyDelivered` | `ReplyInv`: nothing is out before an answer, less than all while pieces are sent, all when a reply somebody awaits is finished |
| `MemoryStoreProofs!StoreTyped` | `TypeOK` | invariant by itself; the table that `Store` commits is typed whatever is merged and promoted |
| `MemoryStoreProofs!CoreHoldsAnchors` | `CoreIsAnchor` | inductive with `TypeOK`; lemmas on `Replace`, `SetStatus` and `PromoteCore` |
| `MemoryStoreProofs!AnchorsAreKept` | `AnchorsOutliveIngest` | every set of `Merges` contains the anchors present, and no other step of an ingest removes a row |
| `MemoryStoreProofs!GrowthIsCapped` | `GrowthWithinCap` | cardinalities: the set `Merges` keeps is within the cap unless the anchors alone are more, and the transaction writes that set |
| `MemoryStoreProofs!PromotionIsCapped` | `PromotionWithinCap` | cardinalities: what `Promotions` adds fits into the room the visible core rows leave |
| `OutboxProofs!QueueTyped` | `TypeOK` | invariant by itself |
| `OutboxProofs!NothingMarkedUntaken` | `SentWasTaken` | strengthened: the rows of a pass are due, and the head of a loop in phase `accepted` has been taken |
| `OutboxProofs!RetriesExact` | `GivenUpAfterRetries` | invariant of the rows alone |
| `OutboxProofs!NoResend` | `SettledIsFinal` | strengthened: while nothing overlapped at most one loop is alive and no row of its pass is settled |
| `OutboxProofs!OneLoopKeepsPromise` | `KeepsPromise`, if no loops ever overlap | from the invariants above, each step maps to a step of `Delivery` or to a stutter |
| `OutboxProofs!CopiesAreAccounted` | `CopiesAccounted` | with one loop alive, the copies of a row are at most its failed attempts, its mark, the send in flight and the stops so far; each step raises the left side only with a term of the right |
| `BackgroundProofs!TransactionsAreAtomic` | `TransactionAtomic` | `PoolInv`, below |
| `PromiseProofs!DoneAppointmentsStayDone` | `DoneIsFinal` | `ApptInv`, below |
| `PromiseProofs!PromisesAreKept` | `PromisesKept` | `ApptInv`, `ShareInv` and `SearchInv`, below |
| `BackgroundProofs!NothingUnheardIsLost` | `SleepAccounted` | `SleepInv`, below |
| `BackgroundProofs!BackgroundIsTyped` | `TypeOK` of `MCBackground` | the five invariants, with `CountersBounded`, `PoolBounded` and `SleepBounded`, below |
| `DailyLifeProofs!DailyLifeIsTyped` | `TypeOK` of `MCDailyLife` | `DailyInv`, below |
| `DailyLifeProofs!PlacesAreLogged` | `PlacesAgree` | `DailyInv` for the things and for the position |
| `DailyLifeProofs!TextsAreAccounted` | `TextsAccounted` | `DailyInv` for the buffers |
| `DailyLifeProofs!ExtractionsAreSpaced` | `ExtractionsSpaced` | `DailyInv` for the buffers: a step that starts an extraction reads the clock and the last start itself |
| `DailyLifeProofs!DialoguesCanGoOn` | `DialoguesGoOn` | `DailyInv` for consultations and games |
| `RecordsProofs!SearchStaysCurrent` | `SearchIsCurrent` | `RetrievalInv`, below |
| `RecordsProofs!SessionsAndScoresStay` | `SessionsAndScoresHold` | `TurnsInv` and `ReviewsInv`, below |
| `RecordsProofs!ImportsAreReported` | `ImportReported` | of each table the import leaves the dump's rows or reports it as skipped; no invariant is needed |
| `RecordsProofs!KnowledgeAlwaysFollows` | `KnowledgeFollows` | `KnowInv`, `UpkeepInv`, `ScanInv` and `BeliefsInv`, below |
| `RecordsProofs!DatesStayRight` | `DatesAreRight` | `DatesInv` and the lemmas about the calendar, below |
| `RecordsProofs!RecordsAreTyped` | `TypeOK` of `MCRecords` | `RecordsInv`, with `StorageTyped`, `KnowBounded`, `UpkeepBounded` and `DatesBounded`, below |
| `InnerLifeProofs!MindHoldsAlways` | `MindHolds` | `AnswersInv`, `WillInv` and `FeelInv`, below |
| `InnerLifeProofs!ConsoleAlwaysPutsBack` | `ConsolePutsBack` | `ConsoleInv`, below |
| `InnerLifeProofs!SurroundingsStayRight` | `SurroundingsAreRight` | `HomeInv`, `AroundInv` and `WeekInv`, below |
| `InnerLifeProofs!InnerLifeIsTyped` | `TypeOK` of `MCInnerLife` | `InnerInv`, with `AimsTyped`, `FeelBounded` and `ConsoleBounded`, below |

### 4.1 The inductive invariants

None of the properties of the composites is inductive: each speaks of tables,
and what a thread will write depends on what it has read. The invariants say
what every actor between two steps holds.

* `PoolInv` (`PgPool`): the lock is held by the thread whose operation is at
  work; the counter is the number of transactions inside the lock plus those
  that were refused a connection and left it behind (`jammed`); the statements
  open on a connection are exactly those its operation has executed, and those
  in the database are of whole operations. Without the counter one cannot tell
  the transaction that commits from the one that leaves its rows open for ever.
* `ApptInv` (`Appointment`): the list a checker is to write follows from the one
  it read (`Follows`: nothing done waits again, each poke counted once); within
  one process the swap is one step (`OneStepSwap`); and, in one process while no
  list was written over, for each appointment and each number: messages sent,
  checkers about to send, and pokes lost add up to one exactly when the list
  counts that poke.
* `ShareInv` (`Sharing`): the counters of a chat count the whole log since it
  began. They are incremented and never reset by `drive` (`sharing.py:521`), so
  they bound the messages of every day and week, which is what makes the caps
  hold and what makes her fall silent. The reasons kept cover those of the last
  messages, and a driver that is composing has passed the checks against the
  log as it is.
* `SearchInv` (`ItemSearch`): a search that goes on has its next visit in the
  table, or one actor is making it (`Making`), or it lost it in a way the code
  has (`stalled`).
* `SleepInv` (`Sleep`): an unheard message is in exactly one of five places
  (queue, told, pushed out, dropped, in a reply being written), and the dreams
  are ordered by day, so that a dream that was told and one a reply is about to
  tell are different nights.
* `CountersBounded`, `PoolBounded`, `SleepBounded` (`MCBackground`): what the
  types say beyond the five above. The operations recorded of a thread are
  those it began; the queue of sleep keeps its limit, since `Newest` cuts off
  all but the last `Kept`; and each day in `slept`, in a dream or in a reply
  about it is one the hours have reached, which holds only because `Fall` takes
  the day from the clock and the others copy it.
* `DailyInv` (`MCDailyLife`), one part per component in focus. Things: the rows
  of two threads are apart or one has raced, a row that is to be saved is fresh,
  and the log follows it, with the event still to be written taken into account.
  Position: what a caller will write is due for its slot, and both logs agree
  with the record or with the caller that is to emit the arrival. Buffers: a
  text is in one place, which is that of its member. Consultations: a stage
  that is to be saved comes from the row as read, and the rounds advised and
  noted are counted with those under way. Games: the letter or the question
  the game waits for can be answered.
* `RecordsInv` (`MCRecords`), one part per component in focus. `RetrievalInv`:
  what a cached result or a search under way has found is in the memory, or was
  when the search began whose result it is (`Held`), so a search that is served
  a result takes over its beginning; a ranked one is younger than `ResultTtl`;
  and a stored row is in the index, is one learnt during the rebuild, or is of
  a scope the rebuild has still to write (`Indexed`). `TurnsInv`: between
  `touch` finding a session and the turn continuing it, the session stays open
  and near (`Continuable`), which is where `Near < Old` is needed: the nightly
  run closes only sessions too old to be found, and the clock does not move
  inside `touch`. `ReviewsInv`: adjustments read after the last change, in the
  cache or on their way into it, follow the scores. `KnowInv`: the relations
  kept, and those the night has still to make, are between events there are;
  a correction is in the queue, or was skipped, revived or settled by what the
  row says now; a chat has no dossier and a character no corrections.
  `UpkeepInv`: a summary is on file from the moment a fact may lose weight, and
  nothing removes it. `ScanInv`: between two turns of the chat, the pool the scan
  read is the pool there is, and every row it does not bear out is on the scan's
  list; any turn that ends meanwhile makes the run one somebody spoke in
  (`quiet`). `BeliefsInv`: a belief that is hardly trusted has an entry in the
  log, one a night is about to write, or one a rollback is about to write.
  `DatesInv`: nothing was told before the first day is over, and each phrase,
  appointment and label that is kept is right.
* The calendar (`CalendarIs` to `MonthEndPhrase` in `RecordsProofs`) is any
  sequence of months. That each day of it is in exactly one month is an
  induction over the months, made by the least counterexample (`LeastOfThem`,
  from the well-foundedness of `<` on the naturals), since the provers cannot
  apply an induction theorem that takes an operator.
* `StorageTyped`, `KnowBounded`, `UpkeepBounded`, `DatesBounded` (`MCRecords`):
  what the types say beyond `RecordsInv`. An id of an event is given once and is
  at most the last one given (`OneEach`, `Numbered`), and the queue of corrections
  is no longer than the chat has made changes; the rows a start, an import or a
  purge leaves are of users there are, with ids within the bound; a calibrated
  level is a share of two halves per finding, hence a level
  (`ShareIsLevel`); and the range of a phrase has a day, so that what it means,
  being in the calendar, puts both ends there (`RangeInCalendar`).
* `InnerInv` (`MCInnerLife`), one part per component in focus. `AnswersInv`:
  while a call of `ask` runs, all that is held for its chat is among what it
  counts as held since it began, and its evidence is from there or from what
  was said (`CallSound`). `WillInv`: the intention of a chat is what the last
  change for that chat made of it, or the chat was crossed; and a thought that is
  saving has read of every other chat just that, or it was crossed meanwhile
  (`Reading`).
  `FeelInv`: a message that met nobody and is being handled finds a mood that is
  nobody's or its own chat's (`SeenBy`); the row of a private chat is the last of
  what was heard there, and a message that is about to write it has read it so
  (`HearsAll`); two messages of a private chat are not answered at once
  (`Apart`); and nobody else has announced a return that a message is about to
  announce (`FirstToTell`). Its last part, `BlameInv`, counts: every list of
  mistakes that is saved, and every copy somebody has read and will write back,
  holds at most as many of a category as were made, less those still to be
  recorded.
  `ConsoleInv`: an ablation that runs undisturbed is the only one and started
  from the configuration chosen (`SwitchesKept`); a number is given to one
  evaluation, and an entry not yet written is in no history (`NumberedOnce`);
  unless two overlapped, the history is the last entries of all that ended, and
  who has read it holds just that (`LatestKept`).
  `AroundInv`: the snapshot in the table and the copies threads hold bear the
  slot of the hour they were seen in and never show the road (`SnapRight`,
  `LookRight`), and one that was served was of the slot it was asked in and
  within its lifetime (`ServedRight`). `WeekInv`: what a process draws, keeps or
  caches for this week is `GenerateWeek` of the one draw, and so is what the
  table has, unless an older version left it there with a night out; that
  plan has its nights at home or given and its mornings asked for (`Sound`),
  an invariant of the chains from one day to the next.
* `HomeInv` (`MCInnerLife`) is the argument for the two searches, for any plan
  of the home. `SearchInv` is the one of breadth-first search: every path in
  the queue is a shortest one to its end, as long as the first or one longer;
  what was seen is the end of a path or has its neighbours seen; and every way no
  longer than the first path ends in something seen. `DistInv` is the one of
  Dijkstra's algorithm: a distance is that of some way there is (`Reached`), and
  what is not in the heap any more has passed its distance on (`Relaxed`), so
  that once the heap is empty no way is shorter. `Planned` says that doors and
  rooms stay as they were written. What `_reachable_rooms` finds is closed
  under doors (`StepsKeepWithin`), which is what makes a valid plan
  walkable, from every room to every other.
* The types of `MCInnerLife` need counts that `InnerInv` carries as parts of its
  own. `FeelBounded` counts messages that may still make a mistake (`Early`) and
  messages that are not over (`Still`): the mistakes made in a chat are at most
  the messages begun and the appointments missed, less `Early`; and no copy of a
  list, in the table, read by a message or held by the waiter, has an entry
  apologized for oftener than there are messages begun, less `Still`. Stating it of
  the table alone is not inductive, as a message writes back the list it read before
  others apologized. `ConsoleBounded` counts who is inside the semaphore and keeps
  the history, and every copy that will be written back, at its length.
  `AimsTyped` is about the goals.
* Three definitions of these components recurse over a sequence (the length of
  a way, the chains of a week, what a room reaches): they are recursive
  functions, and `RecursionExists` in the proofs shows that such a function
  exists and satisfies its equation, again by a least counterexample.

### 4.2 The assumptions

| Assumption | Says | Why the code justifies it |
|---|---|---|
| `ChatOfAssumption`, `NoMsgAssumption`, `CapAssumption`, `BoundAssumption` | a message has a chat; the cap is positive and even and the window fits | 12 and 6 in `bot.py` |
| `FactsAssumption`, `StoreBounds` | classes are sets of facts, caps are naturals | `policy.py` |
| `OutboxAssumption` | retries and passes are positive | `notif_pending` and `notif_mark_failed` have literals |
| `OwnerAssumption` | the free lock has no owner | `threading.RLock` |
| `AppointmentAssumption` | appointments are numbered, checkers finitely many | one list in kv, one task and a few processes |
| `StepsAssumption` | a search ends after a number of visits | the places of the plan are finite |
| `SharingAssumption` | lengths, caps and kept reasons are positive | the daily cap is `max(1, ...)` (`sharing.py:350`), the rest are numbers of the configuration |
| `SleepAssumption` | the queue keeps at least one message | `queue_add` keeps the last ten |
| `BoundsAssumption` (`MCBackground`) | the bounds of counters are natural numbers | bounds of the model, not of the code |
| `ChatAssumption` | texts are finite and each has one member | one event, one author |
| `PositionAssumption` | the schedule has a place for every slot, the home is one | `schedule.py` fills every slot |
| `AdviserAssumption` | urgent consultations have no more rounds than others | `2 if urgent else MAX_CONSULT_ROUNDS` (`advisor.py:198`) |
| `GamesAssumption` | a quiz has a question | `QUIZ` is a literal list |
| `RetrievalAssumption`, `ReviewsAssumption` | the lifetimes of results and adjustments are positive | `ttl_s` is a minute by default (`reasoning.py:382`), adjustments live 600 seconds (`trace.py:204`) |
| `AnsweringAssumption` | a detail has a chat that it is about; a habit is tried at least once before it is trusted | facts and appointments are stored with their scope; 3 tries by default (`procedures.py:63`) |
| `FeelingsAssumption` | private chats are chats; a row keeps at least one observation | `max(1, ...)` (`emotion.py:530`) |
| `MindsAssumption` | the strength of a goal is a natural number | `goal_strength` (`mind.py:54`), in hundredths |
| `WebTasksAssumption` | at least one task runs at a time, and one entry is kept | 2 and 200 in `web/app.py` (22, 76) |
| `PlanAssumption` | rooms and doors are finite and apart, gate and unknown are no rooms, a door counts with two ends at most, lengths are naturals | `floorplan.py` and `space.py` take the first two names of `between`; lengths are those of the plan in whole units |
| `LifetimesAssumption` | a slot has a length, lifetimes are naturals, whoever is about is of the cast, a place has a name | literals of `environment.py`; bounds of the model |
| `WeekAssumption` | days are numbered; resting at home is an activity at home, what tires is not; what a chain puts on an evening asks for no morning | `ACTIVITIES` (`schedule.py:27-39`), `personas/yuno/schedule.json:26-29` |
| `TurnLogAssumption` | a session is found for a shorter time than it stays open; traces and queries have tables | a day by default and three days (`controller.py:1334`, `1354`) |
| `StorageAssumption` | a file is of a user; ids have a bound | the files of `facts` are named by user; a bound of the model |
| `KnowledgeAssumption` | alike titles are titles, facts and titles have topics, the limit is positive | `graph.py`, `topic.py`: literals and the classification of the model |
| `UpkeepAssumption` | a topic is condensed from one fact on or more; condensed texts are no facts | `backfill.py`: the key `consolidated` |
| `ReflectionAssumption`, `QuestionsAssumption` | trust is a share of a hundred; a question is a message | `advisor.py`, `pollution_scan` |
| `CalendarAssumption` | months of 28 to 31 days follow on each other from day 0; nothing is said in the first or the last | `datetime`; a window of the calendar wide enough for what a phrase can name |
| `BoundsAssumption` (`MCRecords`) | the bounds of counters are natural numbers, and the calendar outlasts the last day | bounds of the model |
| `BoundsAssumption` (`MCInnerLife`) | the bounds of counters are natural numbers | bounds of the model |
| `ItemsAssumption` | table and box are furniture, no spot is called as the two values for none | the names `living.py` uses |

### 4.3 What stays with TLC

`EventuallySettled` (both modules) is liveness under fairness, which the prover
does not reach. Every other property of a passing run is stated by a theorem above.

## 5. What is left

Of the properties the passing runs check, nothing that the prover can reach. What
could be added are properties of the code not modelled yet, which section 6 lists.

## 6. Not modelled

Scores, vectors, embeddings and rankings, the regular expressions and prompts of
`analysis.py` and `extract.py`, and the floating-point dynamics of emotions and
relationships: their outcomes enter the models as choices. Metrics and reports,
the SDK server, capability tokens, sensors, deployment and the commands that
only print hold no state beyond the tables modelled here. `PROJECT.json` says
for each component what is missing.
