------------------------------- MODULE Pollution -------------------------------
(***************************************************************************)
(* The scan for facts nobody said (tools/memory.py, started every week by  *)
(* broadcast.pollution_loop), next to the chat. A fact that is filed as    *)
(* said by the user must have most of its words in what users said: in the *)
(* log of conversations or in the summaries of open sessions. One without  *)
(* is deleted or loses its source. The scan reads the log first, then the  *)
(* memories, and treats these row by row; the chat goes on meanwhile.      *)
(*                                                                         *)
(* A turn of chat is                                                       *)
(*   idle                                                                  *)
(*   said      its message is in a session                                 *)
(*   traced    after_chat has traced it (trace.record)                     *)
(*   learned   ingest has filed its facts                                  *)
(* A row has the status active; the others are not looked at.              *)
(***************************************************************************)
EXTENDS Naturals, FiniteSets

CONSTANTS
    Facts,      \* facts that may be filed
    Words,      \* [Facts -> sets of words]: fact_keywords
    Messages,   \* what users say, all of high information
    Contains,   \* [Messages -> sets of words]
    Questions,  \* messages that ask
    Stable,     \* facts of the class stable, which promote_core makes core
    Turns,      \* turns of chat under way at a time
    MaxSaid,    \* bound: messages
    MaxScans    \* bound: scans

QuestionsAssumption == Questions \subseteq Messages

VARIABLES
    rows,       \* the table memories: source and class, "none" if there is no row
    open,       \* messages that are the summary of an open session
    conv,       \* conv_log
    seen,       \* _dedup_cache of memory/trace.py
    turn,       \* per turn: phase, message
    scan,       \* the scan: phase, messages read, turns ended by then, candidates
    told,       \* messages whose turn has ended
    lost,       \* facts a scan deleted though turns ended before it had stated them
    quiet,      \* nothing was said or closed since the last scan read
    said, scans

vars == <<rows, open, conv, seen, turn, scan, told, lost, quiet, said, scans>>
chatVars == <<open, conv, seen, turn, told, said>>

NoRow == [source |-> "none", class |-> "none"]
Row(source) == [source |-> source, class |-> "short"]
Waiting == [phase |-> "idle", message |-> ""]
NoScan == [phase |-> "idle", read |-> {}, told |-> {}, rows |-> {}]

\* Facts of older versions have no statement behind them.
Init ==
    /\ rows \in [Facts -> {NoRow, Row("user")}]
    /\ open = {} /\ conv = {} /\ seen = {} /\ told = {}
    /\ turn = [k \in Turns |-> Waiting]
    /\ scan = NoScan
    /\ lost = {} /\ quiet = FALSE
    /\ said = 0 /\ scans = 0

-----------------------------------------------------------------------------
(* What supports a fact. *)

WordsOf(messages) == UNION {Contains[m] : m \in messages}

\* pollution_level: two thirds of the words stated, some, only asked about, none.
Level(f, messages) ==
    LET stated == Words[f] \cap WordsOf(messages \ Questions)
    IN IF Words[f] = {} THEN "empty"
       ELSE IF 3 * Cardinality(stated) >= 2 * Cardinality(Words[f]) THEN "strong"
       ELSE IF stated # {} THEN "partial"
       ELSE IF Words[f] \cap WordsOf(messages \cap Questions) # {} THEN "weak" ELSE "none"

\* _fact_grounded: what ingest lets pass of the facts a model extracts.
Grounded(f, m) == Words[f] \cap Contains[m] # {}

\* What the scan compares with (conv_rows and session_rows: the open ones).
Pool == conv \cup open

-----------------------------------------------------------------------------
(* The chat. *)

\* touch: a session of its own with the message as summary, or one that is open already.
Say(k, m) ==
    /\ turn[k].phase = "idle" /\ said < MaxSaid
    /\ said' = said + 1
    /\ \E opens \in BOOLEAN :
           /\ opens \/ open # {}
           /\ open' = IF opens THEN open \cup {m} ELSE open
    /\ turn' = [turn EXCEPT ![k] = [phase |-> "said", message |-> m]]
    /\ quiet' = FALSE
    /\ UNCHANGED <<rows, conv, seen, scan, told, lost, scans>>

\* trace.record of after_chat; whether the trace is new or not, the text is seen.
Trace(k) ==
    /\ turn[k].phase = "said"
    /\ seen' = seen \cup {turn[k].message}
    /\ turn' = [turn EXCEPT ![k].phase = "traced"]
    /\ UNCHANGED <<rows, open, conv, scan, told, lost, quiet, said, scans>>

\* Facts that are new are filed, a question's not as the user's words; then all that
\* are stable become core.
Filed(f, m) == IF rows[f] # NoRow THEN rows[f]
               ELSE Row(IF m \in Questions THEN "ai_edit" ELSE "user")
Promoted(f, row) == IF row # NoRow /\ f \in Stable THEN [row EXCEPT !.class = "core"] ELSE row

Ingest(k, found) ==
    LET m == turn[k].message
    IN /\ turn[k].phase = "traced"
       /\ \A f \in found : Grounded(f, m)
       /\ rows' = IF \A f \in found : rows[f] # NoRow THEN rows
                  ELSE [f \in Facts |-> Promoted(f, IF f \in found THEN Filed(f, m) ELSE rows[f])]
       /\ turn' = [turn EXCEPT ![k].phase = "learned"]
       /\ quiet' = FALSE
       /\ UNCHANGED <<open, conv, seen, scan, told, lost, said, scans>>

\* convreview.record: a text that is a duplicate for the traces is one for it, too.
Record(k) ==
    LET m == turn[k].message
    IN /\ turn[k].phase = "learned"
       /\ conv' = IF m \in seen THEN conv ELSE conv \cup {m}
       /\ seen' = seen \cup {m}
       /\ told' = told \cup {m}
       /\ turn' = [turn EXCEPT ![k] = Waiting]
       /\ quiet' = FALSE
       /\ UNCHANGED <<rows, open, scan, lost, said, scans>>

\* Ten minutes without a turn.
WindowPasses ==
    /\ seen # {} /\ \A k \in Turns : turn[k].phase = "idle"
    /\ seen' = {}
    /\ UNCHANGED <<rows, open, conv, turn, scan, told, lost, quiet, said, scans>>

\* close_old, after three days.
CloseOld ==
    /\ open # {}
    /\ \E old \in SUBSET open : old # {} /\ open' = open \ old
    /\ quiet' = FALSE
    /\ UNCHANGED <<rows, conv, seen, turn, scan, told, lost, said, scans>>

-----------------------------------------------------------------------------
(* The scan. *)

ReadPool ==
    /\ scan.phase = "idle" /\ scans < MaxScans
    /\ scans' = scans + 1
    /\ scan' = [phase |-> "pool", read |-> Pool, told |-> told, rows |-> {}]
    /\ quiet' = TRUE
    /\ UNCHANGED <<rows, lost, chatVars>>

\* What was said by the user and is not borne out, with the class it has now.
ReadRows ==
    /\ scan.phase = "pool"
    /\ scan' = [scan EXCEPT !.phase = "rows",
           !.rows = {<<f, rows[f].class>> : f \in {g \in Facts :
                       rows[g].source = "user" /\ Level(g, scan.read) \notin {"strong", "empty"}}}]
    /\ UNCHANGED <<rows, lost, quiet, scans, chatVars>>

\* Core memories are spared as a whole.
RemedySparing(f, class) ==
    IF class = "core" THEN rows
    ELSE IF Level(f, scan.read) = "partial" /\ rows[f] # NoRow
    THEN [rows EXCEPT ![f].source = "ai_edit"]
    ELSE [rows EXCEPT ![f] = NoRow]

\* A core memory, or one partly borne out, loses its source; another is deleted.
Remedy(f, class) ==
    IF class = "core" \/ Level(f, scan.read) = "partial"
    THEN IF rows[f] = NoRow THEN rows ELSE [rows EXCEPT ![f].source = "ai_edit"]
    ELSE [rows EXCEPT ![f] = NoRow]

Apply(f, class) ==
    /\ scan.phase = "rows" /\ <<f, class>> \in scan.rows
    /\ rows' = Remedy(f, class)
    /\ lost' = IF rows'[f] = NoRow /\ Level(f, scan.told) = "strong" THEN lost \cup {f} ELSE lost
    /\ scan' = [scan EXCEPT !.rows = @ \ {<<f, class>>}]
    /\ UNCHANGED <<quiet, scans, chatVars>>

ScanEnds ==
    /\ scan.phase = "rows" /\ scan.rows = {}
    /\ scan' = NoScan
    /\ UNCHANGED <<rows, lost, quiet, scans, chatVars>>

Next ==
    \/ \E k \in Turns :
           \/ \E m \in Messages : Say(k, m)
           \/ \E found \in SUBSET Facts : Ingest(k, found)
           \/ Trace(k) \/ Record(k)
    \/ WindowPasses \/ CloseOld
    \/ ReadPool \/ ReadRows \/ ScanEnds
    \/ \E r \in scan.rows : Apply(r[1], r[2])

Spec == Init /\ [][Next]_vars

-----------------------------------------------------------------------------
(* Properties *)

TypeOK ==
    /\ rows \in [Facts -> {NoRow} \cup [source : {"user", "ai_edit"}, class : {"short", "core"}]]
    /\ open \cup conv \cup seen \cup told \subseteq Messages
    /\ \A k \in Turns : turn[k].phase \in {"idle", "said", "traced", "learned"}
    /\ scan.phase \in {"idle", "pool", "rows"} /\ scan.read \subseteq Messages
    /\ scan.rows \subseteq Facts \X {"short", "core"}
    /\ lost \subseteq Facts /\ quiet \in BOOLEAN

\* A second scan finds nothing to do: once one has ended and nobody spoke since it read, all that
\* counts as the user's words is borne out by the pool, core or not (pollution_loop: idempotent).
ScanIsRepeatable ==
    quiet /\ scan.phase = "idle" =>
        \A f \in Facts : rows[f].source = "user" => Level(f, Pool) \in {"strong", "empty"}

\* What a user has stated, in a turn that had ended before the scan began, is not deleted as
\* never said (cmd_pollution_scan: strong is kept).
SpokenIsKept == lost = {}
================================================================================
