----------------------------- MODULE Appointment -----------------------------
(***************************************************************************)
(* Appointments (memory/appointment.py): one list in the kv table, to      *)
(* which ingest threads add (extract), from which commands remove          *)
(* (clear_scope), and which appointment_loop checks for users who did not  *)
(* turn up (check_and_poke).                                               *)
(*                                                                         *)
(* A check reads the list, writes its messages with the LLM, swaps the     *)
(* list by compare-and-swap, and then adds the notifications:              *)
(*   idle       between two checks                                         *)
(*   cleaning   clean has read the list and found a banned text            *)
(*   judging    the raw list is read; the LLM writes the messages          *)
(*   swapping   the new list is ready for kv_cas                           *)
(*   matched    kv_cas of another process: compared, not yet written       *)
(*   notifying  the swap is done, notifications are being added            *)
(***************************************************************************)
EXTENDS Naturals, FiniteSets, FiniteSetsExt

CONSTANTS
    Appts,       \* appointments, numbered in order of their time
    Scopes,      \* chats
    ScopeOf,     \* the chat of an appointment
    Checkers,    \* appointment_loop threads, of one process or of several
    Writers,     \* ingest threads, commands, the admin page
    Deployments, \* BOOLEAN: TRUE, the checkers are threads of one process; FALSE, of several
    MaxPokes,    \* check_and_poke: pokes per appointment (2 in the code)
    MaxEdits     \* bound: additions, removals, bans and restarts together

VARIABLES
    locked,    \* the checkers share the lock of the data layer
    book,      \* the kv value: per appointment its status and its pokes
    banned,    \* appointments whose text holds a word of banned_claims
    checker,   \* per checker: phase, list read, list to write, pokes
    writer,    \* per writer: operation and the list it has read
    notified,  \* per appointment and number of poke: notifications added
    lost,      \* pokes recorded whose notification a restart cut off
    overwritten, \* TRUE once a list was written over a change it had not read
    edits      \* additions, removals, bans and restarts so far

vars == <<locked, book, banned, checker, writer, notified, lost,
          overwritten, edits>>

\* Appointments are numbered in order of their time; they, the checkers and the
\* pokes of an appointment are finitely many.
AppointmentAssumption ==
    /\ Appts \subseteq Nat /\ IsFiniteSet(Checkers)
    /\ MaxPokes \in Nat /\ MaxEdits \in Nat /\ Deployments \subseteq BOOLEAN

Statuses == {"absent", "waiting", "done", "removed"}
Absent == [status |-> "absent", poked |-> 0]
New == [status |-> "waiting", poked |-> 0]
Done(row) == [row EXCEPT !.status = "done"]
Removed(row) == IF row = Absent THEN row ELSE [row EXCEPT !.status = "removed"]
Books == [Appts -> [status : Statuses, poked : 0..MaxPokes]]
Empty == [a \in Appts |-> Absent]
Idle == [phase |-> "idle", old |-> Empty, new |-> Empty, pokes |-> {}]
NoOp == [op |-> "none", at |-> 0, old |-> Empty]
Phases == {"idle", "cleaning", "judging", "swapping", "matched", "notifying"}

Init ==
    /\ locked \in Deployments
    /\ book = Empty
    /\ banned = {}
    /\ checker = [c \in Checkers |-> Idle]
    /\ writer = [w \in Writers |-> NoOp]
    /\ notified = [a \in Appts |-> [n \in 1..MaxPokes |-> 0]]
    /\ lost = {}
    /\ overwritten = FALSE
    /\ edits = 0

-----------------------------------------------------------------------------
(* The world: the persona pack is edited. *)

Edit == edits < MaxEdits /\ edits' = edits + 1

Ban(a) ==
    /\ a \notin banned
    /\ Edit
    /\ banned' = banned \cup {a}
    /\ UNCHANGED <<locked, book, checker, writer, notified, lost, overwritten>>

-----------------------------------------------------------------------------
(* Writers that put back a list they have read: kv_get, then kv_set. *)

\* clean: banned texts that wait are done.
Cleaned(b) ==
    [a \in Appts |-> IF a \in banned /\ b[a].status = "waiting" THEN Done(b[a]) ELSE b[a]]

\* extract: questions, banned words and an appointment that is there are refused.
Extract(w, a) ==
    /\ writer[w].op = "none"
    /\ Edit
    /\ a \notin banned
    /\ book[a] = Absent
    /\ writer' = [writer EXCEPT ![w] = [op |-> "extract", at |-> a, old |-> book]]
    /\ UNCHANGED <<locked, book, banned, checker, notified, lost, overwritten>>

\* clear_scope of the chat of a (tools/memory.py).
ClearScope(w, a) ==
    /\ writer[w].op = "none"
    /\ Edit
    /\ book[a].status \in {"waiting", "done"}
    /\ writer' = [writer EXCEPT ![w] = [op |-> "clear", at |-> a, old |-> book]]
    /\ UNCHANGED <<locked, book, banned, checker, notified, lost, overwritten>>

Rewritten(op, a, b) ==
    IF op = "extract" THEN [b EXCEPT ![a] = New]
    ELSE [x \in Appts |-> IF ScopeOf[x] = ScopeOf[a] THEN Removed(b[x]) ELSE b[x]]

\* kv_set, blind to what was written since kv_get.
Write(w) ==
    /\ writer[w].op # "none"
    /\ book' = Rewritten(writer[w].op, writer[w].at, writer[w].old)
    /\ overwritten' = (overwritten \/ book # writer[w].old)
    /\ writer' = [writer EXCEPT ![w] = NoOp]
    /\ UNCHANGED <<locked, banned, checker, notified, lost, edits>>

-----------------------------------------------------------------------------
(* check_and_poke *)

Step(c, to) == checker' = [checker EXCEPT ![c] = to]
Reading == [phase |-> "judging", old |-> book, new |-> Empty, pokes |-> {}]

\* clean finds nothing to write, and the raw list is read.
Check(c) ==
    /\ checker[c].phase = "idle"
    /\ IF Cleaned(book) = book THEN Step(c, Reading)
       ELSE Step(c, [Idle EXCEPT !.phase = "cleaning", !.old = book, !.new = Cleaned(book)])
    /\ UNCHANGED <<locked, book, banned, writer, notified, lost, overwritten, edits>>

\* clean writes, then the raw list is read.
Clean(c) ==
    /\ checker[c].phase = "cleaning"
    /\ book' = checker[c].new
    /\ overwritten' = (overwritten \/ book # checker[c].old)
    /\ Step(c, [Reading EXCEPT !.old = checker[c].new])
    /\ UNCHANGED <<locked, banned, writer, notified, lost, edits>>

Waiting(b) == {a \in Appts : b[a].status = "waiting"}

\* One poke per chat and round, in order of time. willing: the interval since
\* the last poke is over, and neither gate nor hesitation drops the message.
FirstPerScope(b, willing) ==
    {a \in willing : \A x \in willing : ScopeOf[x] = ScopeOf[a] => a <= x}

\* What a poke makes of its row; the last one ends the appointment.
Poked(row) ==
    [status |-> IF row.poked + 1 >= MaxPokes THEN "done" ELSE row.status,
     poked |-> row.poked + 1]

\* The list is judged, appointment by appointment. over: lastmsg shows that the
\* user came, or the pokes are used up: done. willing: time, grace and the
\* interval since the last poke are over, and neither the evidence gate nor
\* hesitation drops the message; what they drop is not counted. Which of the
\* others these are depends on clocks and texts: any may be.
Judge(c) ==
    /\ checker[c].phase = "judging"
    /\ LET b == checker[c].old IN
       \E over \in SUBSET Waiting(b) :
         /\ {a \in Waiting(b) : b[a].poked >= MaxPokes} \subseteq over
         /\ \E willing \in SUBSET (Waiting(b) \ over) :
              LET pokes == FirstPerScope(b, willing)
                  new == [a \in Appts |-> IF a \in over THEN Done(b[a])
                                          ELSE IF a \in pokes THEN Poked(b[a]) ELSE b[a]]
              IN Step(c, IF pokes = {} /\ over = {} THEN Idle
                         ELSE [phase |-> "swapping", old |-> b, new |-> new, pokes |-> pokes])
    /\ UNCHANGED <<locked, book, banned, writer, notified, lost, overwritten, edits>>

\* The round after a swap that reported success.
AfterSwap(c) ==
    IF checker[c].pokes = {} THEN Idle
    ELSE [checker[c] EXCEPT !.phase = "notifying", !.old = Empty]

\* Seeded fault: the list is written without comparing.
SwapBlind(c) ==
    /\ locked
    /\ checker[c].phase = "swapping"
    /\ book' = checker[c].new
    /\ Step(c, AfterSwap(c))
    /\ UNCHANGED <<locked, banned, writer, notified, lost, overwritten, edits>>

\* Seeded fault: notifications are added even if the swap failed.
SwapUnchecked(c) ==
    /\ locked
    /\ checker[c].phase = "swapping"
    /\ book' = IF book = checker[c].old THEN checker[c].new ELSE book
    /\ Step(c, AfterSwap(c))
    /\ UNCHANGED <<locked, banned, writer, notified, lost, overwritten, edits>>

\* kv_cas between threads of one process: one step, under the lock.
Swap(c) ==
    /\ locked
    /\ checker[c].phase = "swapping"
    /\ IF book = checker[c].old
       THEN book' = checker[c].new /\ Step(c, AfterSwap(c))
       ELSE UNCHANGED book /\ Step(c, Idle)
    /\ UNCHANGED <<locked, banned, writer, notified, lost, overwritten, edits>>

\* kv_cas between processes: SELECT takes no lock on the database.
Compare(c) ==
    /\ ~locked
    /\ checker[c].phase = "swapping"
    /\ Step(c, IF book = checker[c].old THEN [checker[c] EXCEPT !.phase = "matched"] ELSE Idle)
    /\ UNCHANGED <<locked, book, banned, writer, notified, lost, overwritten, edits>>

\* UPDATE ... WHERE value = old writes only if nothing changed, but success is
\* reported from total_changes, which counts every change of the connection.
Update(c) ==
    /\ checker[c].phase = "matched"
    /\ book' = IF book = checker[c].old THEN checker[c].new ELSE book
    /\ Step(c, AfterSwap(c))
    /\ UNCHANGED <<locked, banned, writer, notified, lost, overwritten, edits>>

\* notif_add for one poke.
Notify(c) ==
    /\ checker[c].phase = "notifying"
    /\ LET a == Min(checker[c].pokes)
           n == checker[c].new[a].poked
           rest == checker[c].pokes \ {a}
       IN /\ notified' = [notified EXCEPT ![a][n] = @ + 1]
          /\ Step(c, IF rest = {} THEN Idle ELSE [checker[c] EXCEPT !.pokes = rest])
    /\ UNCHANGED <<locked, book, banned, writer, lost, overwritten, edits>>

\* Pokes that are recorded and whose notification is still to be added.
InFlight(c) ==
    IF checker[c].phase # "notifying" THEN {}
    ELSE {<<a, checker[c].new[a].poked>> : a \in checker[c].pokes}

\* The process restarts: the list stays, threads and their pokes are gone.
Restart ==
    /\ Edit
    /\ lost' = lost \cup UNION {InFlight(c) : c \in Checkers}
    /\ checker' = [c \in Checkers |-> Idle]
    /\ writer' = [w \in Writers |-> NoOp]
    /\ UNCHANGED <<locked, book, banned, notified, overwritten>>

Next ==
    \/ \E a \in Appts : Ban(a)
    \/ \E w \in Writers : \/ \E a \in Appts : Extract(w, a) \/ ClearScope(w, a)
                          \/ Write(w)
    \/ \E c \in Checkers : \/ Check(c) \/ Clean(c) \/ Judge(c) \/ Swap(c)
                           \/ Compare(c) \/ Update(c) \/ Notify(c)
    \/ Restart

Spec == Init /\ [][Next]_vars

-----------------------------------------------------------------------------
TypeOK ==
    /\ locked \in Deployments
    /\ book \in Books
    /\ banned \subseteq Appts
    /\ checker \in [Checkers -> [phase : Phases, old : Books, new : Books, pokes : SUBSET Appts]]
    /\ writer \in [Writers -> [op : {"none", "extract", "clear"}, at : Appts \cup {0}, old : Books]]
    /\ notified \in [Appts -> [1..MaxPokes -> Nat]]
    /\ lost \subseteq Appts \X (1..MaxPokes)
    /\ overwritten \in BOOLEAN
    /\ edits \in 0..MaxEdits

Count(P) == IF P THEN 1 ELSE 0

\* In one process, while no blind write has undone another, each poke the list
\* counts was notified once, is being notified by one checker, or was cut off by
\* a restart; and no poke is notified that the list does not count. Checkers race
\* over the whole of the LLM calls (check_and_poke, notif_add).
PokesAccounted ==
    locked /\ ~overwritten =>
      \A a \in Appts, n \in 1..MaxPokes :
        notified[a][n] + Cardinality({c \in Checkers : <<a, n>> \in InFlight(c)})
                       + Count(<<a, n>> \in lost)
          = Count(n <= book[a].poked)

\* While no blind write has undone another, an appointment that is done or
\* removed never waits again, whatever a check had read before.
DoneIsFinal ==
    [][\A a \in Appts : ~overwritten' /\ book[a].status \in {"done", "removed"}
                          => book'[a].status # "waiting"]_vars
===============================================================================
