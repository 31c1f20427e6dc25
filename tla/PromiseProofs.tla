---------------------------- MODULE PromiseProofs -----------------------------
(***************************************************************************)
(* Proofs about what she promises (modules Appointment, ItemSearch and     *)
(* Sharing, as MCBackground composes them), for any number of              *)
(* appointments, checkers, writers, chats, drivers and conversations and   *)
(* any caps: an appointment that is done never waits again, in one process *)
(* each poke is notified once or accounted for, and she keeps what she     *)
(* promised, at home and in messages sent unasked.                         *)
(***************************************************************************)
EXTENDS MCBackground, FiniteSetTheorems, SequenceTheorems, WellFoundedInduction, TLAPS

-----------------------------------------------------------------------------
(* Appointments *)

Row == [status : Appointments!Statuses, poked : 0..MaxPokes]

\* What is made of a list: an appointment that is done or removed does not wait
\* again, and each poke is counted.
Follows(old, new, pokes) ==
    \A a \in Appts :
      /\ old[a].status \in {"done", "removed"} => new[a].status # "waiting"
      /\ new[a].poked = IF a \in pokes THEN old[a].poked + 1 ELSE old[a].poked

Checker == [phase : Appointments!Phases, old : [Appts -> Row], new : [Appts -> Row],
            pokes : SUBSET Appts]
Writer == [op : {"none", "extract", "clear"}, at : Appts \cup {0}, old : [Appts -> Row]]

\* The checkers that are about to notify the n-th poke of a; f is what they are doing.
Telling(f, a, n) ==
    {c \in Checkers : /\ f[c].phase = "notifying"
                      /\ a \in f[c].pokes
                      /\ f[c].new[a].poked = n}

-----------------------------------------------------------------------------
(* The invariant *)

ApptTyped ==
    /\ locked \in BOOLEAN /\ locked \in Deployments /\ overwritten \in BOOLEAN
    /\ book \in [Appts -> Row]
    /\ banned \subseteq Appts
    /\ checker \in [Checkers -> Checker]
    /\ writer \in [Writers -> Writer]
    /\ notified \in [Appts -> [1..MaxPokes -> Nat]]
    /\ lost \subseteq Appts \X (1..MaxPokes)
    /\ edits \in 0..MaxEdits

\* What a writer is to add was absent from the list it has read.
WritersRead ==
    \A w \in Writers :
      /\ writer[w].op # "none" => writer[w].at \in Appts
      /\ writer[w].op = "extract" => writer[w].old[writer[w].at] = Appointments!Absent

\* The list a checker is to write follows from the one it has read, and what it
\* is to notify it has counted.
Sound(k) ==
    /\ k.phase \in {"cleaning", "swapping", "matched"} => Follows(k.old, k.new, k.pokes)
    /\ k.phase = "cleaning" => k.pokes = {}
    /\ k.phase = "notifying" => k.pokes # {} /\ \A a \in k.pokes : k.new[a].poked > 0

CheckersSound == \A c \in Checkers : Sound(checker[c])

OneStepSwap == locked => \A c \in Checkers : checker[c].phase # "matched"

Accounted ==
    locked /\ ~overwritten =>
      \A a \in Appts, n \in 1..MaxPokes :
        notified[a][n] + Cardinality(Telling(checker, a, n)) + (IF <<a, n>> \in lost THEN 1 ELSE 0)
          = (IF n <= book[a].poked THEN 1 ELSE 0)

ApptInv == ApptTyped /\ WritersRead /\ CheckersSound /\ OneStepSwap /\ Accounted

\* A step that has not written over a change keeps what is done.
KeepsDone ==
    \A a \in Appts : ~overwritten' /\ book[a].status \in {"done", "removed"}
                       => book'[a].status # "waiting"

-----------------------------------------------------------------------------
(* Lemmas about rows and lists *)

LEMMA SameCardinality == \A S : Appointments!Cardinality(S) = Cardinality(S)
BY DEF Appointments!Cardinality, Cardinality

LEMMA Numbers ==
    /\ Appts \subseteq Nat /\ IsFiniteSet(Checkers)
    /\ MaxPokes \in Nat /\ MaxEdits \in Nat /\ Deployments \subseteq BOOLEAN
BY ConstantsAssumption
   DEF Appointments!AppointmentAssumption, Appointments!IsFiniteSet, IsFiniteSet

LessThan == {ss \in Nat \X Nat : ss[1] < ss[2]}

LEMMA LeastOfPokes ==
    ASSUME NEW S \in SUBSET Appts, S # {}
    PROVE  Appointments!Min(S) \in S
<1>1. IsWellFoundedOn(LessThan, Nat)
  <2>1. OpToRel(<, Nat) = LessThan
    BY DEF OpToRel, LessThan
  <2>. QED
    BY <2>1, NatLessThanWellFounded
<1>2. S \subseteq Nat
  BY Numbers
<1>3. PICK x \in S : \A y \in S : <<y, x>> \notin LessThan
  BY <1>1, <1>2, WFMin, Zenon
<1>4. \A y \in Nat, z \in Nat : y < z => <<y, z>> \in LessThan
  BY DEF LessThan
<1>5. \A y \in S : ~(y < x)
  BY <1>2, <1>3, <1>4
<1>6. \A y \in S : x <= y
  BY <1>2, <1>5
<1>. QED
  BY <1>6 DEF Appointments!Min

LEMMA RowsChange ==
    ASSUME NEW r \in Row
    PROVE  /\ Appointments!Done(r) \in Row
           /\ Appointments!Done(r).status = "done" /\ Appointments!Done(r).poked = r.poked
           /\ Appointments!Removed(r) \in Row
           /\ Appointments!Removed(r).status \in {"absent", "removed"}
           /\ Appointments!Removed(r).poked = r.poked
           /\ r.poked < MaxPokes => /\ Appointments!Poked(r) \in Row
                                    /\ Appointments!Poked(r).poked = r.poked + 1
BY Numbers DEF Row, Appointments!Statuses, Appointments!Done, Appointments!Removed,
               Appointments!Absent, Appointments!Poked

LEMMA RowsCount == \A r \in Row : r.poked \in Nat /\ r.poked <= MaxPokes
BY Numbers DEF Row

LEMMA RowsNew ==
    /\ Appointments!Absent \in Row /\ Appointments!Absent.poked = 0
    /\ Appointments!Absent.status = "absent"
    /\ Appointments!New \in Row /\ Appointments!New.poked = 0
    /\ Appointments!New.status = "waiting"
BY Numbers DEF Row, Appointments!Statuses, Appointments!Absent, Appointments!New

LEMMA ListsAreRows == Appointments!Books = [Appts -> Row]
BY DEF Appointments!Books, Row

LEMMA EmptyIsList == Appointments!Empty \in [Appts -> Row]
BY RowsNew DEF Appointments!Empty

\* clean ends appointments and changes no count.
LEMMA CleanedFollows ==
    ASSUME NEW b \in [Appts -> Row]
    PROVE  Appointments!Cleaned(b) \in [Appts -> Row] /\ Follows(b, Appointments!Cleaned(b), {})
<1>1. \A a \in Appts : b[a] \in Row
  OBVIOUS
<1>2. \A a \in Appts : /\ Appointments!Cleaned(b)[a] \in Row
                       /\ Appointments!Cleaned(b)[a] \in {b[a], Appointments!Done(b[a])}
  BY <1>1, RowsChange DEF Appointments!Cleaned
<1>3. Follows(b, Appointments!Cleaned(b), {})
  BY <1>1, <1>2, RowsChange DEF Follows
<1>. QED
  BY <1>2, <1>3 DEF Appointments!Cleaned
-----------------------------------------------------------------------------
(* Lemmas about steps *)

LEMMA InitAppt == Appointments!Init => ApptInv
<1>. SUFFICES ASSUME Appointments!Init PROVE ApptInv
  OBVIOUS
<1>1. /\ locked \in Deployments /\ book = Appointments!Empty /\ banned = {} /\ lost = {}
      /\ checker = [c \in Checkers |-> Appointments!Idle]
      /\ writer = [w \in Writers |-> Appointments!NoOp]
      /\ notified = [a \in Appts |-> [n \in 1..MaxPokes |-> 0]]
      /\ overwritten = FALSE /\ edits = 0
  BY DEF Appointments!Init
<1>2. /\ Appointments!Idle \in Checker /\ Appointments!Idle.phase = "idle"
      /\ Appointments!NoOp \in Writer /\ Appointments!NoOp.op = "none"
  BY EmptyIsList DEF Appointments!Idle, Appointments!NoOp, Checker, Writer, Appointments!Phases
<1>3. \A a \in Appts : book[a].poked = 0
  BY <1>1, RowsNew DEF Appointments!Empty
<1>4. ApptTyped
  <2>1. locked \in BOOLEAN /\ locked \in Deployments /\ overwritten \in BOOLEAN
    BY <1>1, Numbers, Zenon
  <2>2. notified \in [Appts -> [1..MaxPokes -> Nat]]
    BY <1>1
  <2>3. edits \in 0..MaxEdits
    BY <1>1, Numbers
  <2>4. /\ book \in [Appts -> Row]
        /\ checker \in [Checkers -> Checker] /\ writer \in [Writers -> Writer]
    BY <1>1, <1>2, EmptyIsList
  <2>5. banned \subseteq Appts /\ lost \subseteq Appts \X (1..MaxPokes)
    BY <1>1
  <2>. QED
    BY <2>1, <2>2, <2>3, <2>4, <2>5 DEF ApptTyped
<1>5. WritersRead /\ CheckersSound /\ OneStepSwap
  BY <1>1, <1>2 DEF WritersRead, CheckersSound, Sound, OneStepSwap
<1>6. Accounted
  <2>. SUFFICES ASSUME NEW a \in Appts, NEW n \in 1..MaxPokes
                PROVE  notified[a][n] + Cardinality(Telling(checker, a, n))
                         + (IF <<a, n>> \in lost THEN 1 ELSE 0)
                         = (IF n <= book[a].poked THEN 1 ELSE 0)
    BY DEF Accounted
  <2>1. Telling(checker, a, n) = {}
    BY <1>1, <1>2 DEF Telling
  <2>2. notified[a][n] = 0 /\ ~(n <= book[a].poked)
    BY <1>1, <1>3
  <2>3. Cardinality(Telling(checker, a, n)) = 0
    BY <2>1, FS_EmptySet
  <2>4. <<a, n>> \notin lost
    BY <1>1
  <2>. QED
    BY <2>2, <2>3, <2>4
<1>. QED
  BY <1>4, <1>5, <1>6 DEF ApptInv

\* A checker goes on to something sound.
LEMMA CheckerSteps ==
    ASSUME ApptInv, NEW c \in Checkers, NEW to \in Checker, Sound(to),
           Appointments!Step(c, to)
    PROVE  /\ checker' \in [Checkers -> Checker]
           /\ checker'[c] = to
           /\ \A x \in Checkers \ {c} : checker'[x] = checker[x]
           /\ CheckersSound'
<1>1. checker \in [Checkers -> Checker] /\ checker' = [checker EXCEPT ![c] = to]
  BY DEF ApptInv, ApptTyped, Appointments!Step
<1>2. /\ checker' \in [Checkers -> Checker]
      /\ checker'[c] = to
      /\ \A x \in Checkers \ {c} : checker'[x] = checker[x]
  BY <1>1
<1>3. \A x \in Checkers : Sound(checker[x])
  BY DEF ApptInv, CheckersSound
<1>4. \A x \in Checkers : Sound(checker'[x])
  BY <1>2, <1>3
<1>. QED
  BY <1>2, <1>4 DEF CheckersSound

\* Nothing is counted and nothing notified.
LEMMA CountsStay ==
    ASSUME ApptInv, UNCHANGED <<locked, notified, lost>>,
           overwritten => overwritten',
           ~overwritten' => \A a \in Appts : book'[a].poked = book[a].poked,
           \A a \in Appts, n \in 1..MaxPokes : Telling(checker', a, n) = Telling(checker, a, n)
    PROVE  Accounted'
BY DEF ApptInv, Accounted

LEMMA TellingStays ==
    ASSUME NEW c \in Checkers, checker[c].phase # "notifying", checker'[c].phase # "notifying",
           \A x \in Checkers \ {c} : checker'[x] = checker[x]
    PROVE  \A a \in Appts, n \in 1..MaxPokes : Telling(checker', a, n) = Telling(checker, a, n)
<1>. SUFFICES ASSUME NEW a \in Appts, NEW n \in 1..MaxPokes, NEW x \in Checkers
              PROVE  x \in Telling(checker', a, n) <=> x \in Telling(checker, a, n)
  BY DEF Telling
<1>1. CASE x = c
  BY <1>1 DEF Telling
<1>2. CASE x # c
  BY <1>2 DEF Telling
<1>. QED
  BY <1>1, <1>2

\* A checker that has written or will write nothing goes on and notifies nobody.
LEMMA QuietStep ==
    ASSUME ApptInv, NEW c \in Checkers, NEW to \in Checker, Sound(to),
           Appointments!Step(c, to),
           checker[c].phase # "notifying", to.phase # "notifying",
           locked => to.phase # "matched",
           book' \in [Appts -> Row], overwritten' \in BOOLEAN,
           UNCHANGED <<locked, banned, writer, notified, lost, edits>>,
           overwritten => overwritten',
           ~overwritten' => \A a \in Appts : book'[a].poked = book[a].poked
    PROVE  ApptInv'
<1>1. /\ checker' \in [Checkers -> Checker]
      /\ checker'[c] = to
      /\ \A x \in Checkers \ {c} : checker'[x] = checker[x]
      /\ CheckersSound'
  BY CheckerSteps
<1>2. ApptTyped'
  BY <1>1, Zenon DEF ApptInv, ApptTyped
<1>3. WritersRead'
  BY DEF ApptInv, WritersRead
<1>4. OneStepSwap'
  BY <1>1 DEF ApptInv, OneStepSwap
<1>5. Accounted'
  BY <1>1, TellingStays, CountsStay
<1>. QED
  BY <1>1, <1>2, <1>3, <1>4, <1>5 DEF ApptInv

-----------------------------------------------------------------------------
(* The steps *)

\* Writers and the world leave the checkers and what is told alone.
LEMMA WriterStep ==
    ASSUME ApptInv,
           book' \in [Appts -> Row], overwritten' \in BOOLEAN, banned' \subseteq Appts,
           writer' \in [Writers -> Writer], edits' \in 0..MaxEdits, WritersRead',
           UNCHANGED <<locked, checker, notified, lost>>,
           overwritten => overwritten',
           ~overwritten' => \A a \in Appts : book'[a].poked = book[a].poked
    PROVE  ApptInv'
<1>1. ApptTyped'
  BY Zenon DEF ApptInv, ApptTyped
<1>2. CheckersSound' /\ OneStepSwap'
  BY DEF ApptInv, CheckersSound, OneStepSwap
<1>3. Accounted'
  BY CountsStay
<1>. QED
  BY <1>1, <1>2, <1>3 DEF ApptInv

LEMMA EditCounts ==
    ASSUME ApptInv, Appointments!Edit
    PROVE  edits' \in 0..MaxEdits
BY Numbers DEF ApptInv, ApptTyped, Appointments!Edit

LEMMA BanStep == ASSUME ApptInv, NEW a \in Appts, Appointments!Ban(a)
                 PROVE  ApptInv' /\ KeepsDone
<1>1. /\ edits' \in 0..MaxEdits /\ banned' = banned \cup {a}
      /\ UNCHANGED <<locked, book, checker, writer, notified, lost, overwritten>>
  BY EditCounts DEF Appointments!Ban
<1>2. /\ book' \in [Appts -> Row] /\ banned' \subseteq Appts
      /\ writer' \in [Writers -> Writer] /\ overwritten' \in BOOLEAN
  BY <1>1 DEF ApptInv, ApptTyped
<1>3. WritersRead'
  BY <1>1 DEF ApptInv, WritersRead
<1>4. ApptInv'
  BY <1>1, <1>2, <1>3, WriterStep
<1>. QED
  BY <1>1, <1>4 DEF KeepsDone

\* A writer has read the list.
LEMMA ReadStep ==
    ASSUME ApptInv, NEW w \in Writers, NEW a \in Appts, NEW op \in {"extract", "clear"},
           op = "extract" => book[a] = Appointments!Absent,
           writer' = [writer EXCEPT ![w] = [op |-> op, at |-> a, old |-> book]],
           Appointments!Edit,
           UNCHANGED <<locked, book, banned, checker, notified, lost, overwritten>>
    PROVE  ApptInv' /\ KeepsDone
<1>. DEFINE to == [op |-> op, at |-> a, old |-> book]
<1>1. book \in [Appts -> Row] /\ writer \in [Writers -> Writer] /\ overwritten \in BOOLEAN
      /\ banned \subseteq Appts
  BY DEF ApptInv, ApptTyped
<1>2. to \in Writer /\ to.op = op /\ to.at = a /\ to.old = book
  BY <1>1 DEF Writer
<1>3. writer' = [writer EXCEPT ![w] = to]
  OBVIOUS
<1>. HIDE DEF to
<1>4. /\ writer' \in [Writers -> Writer]
      /\ \A x \in Writers : writer'[x] = IF x = w THEN to ELSE writer[x]
  BY <1>1, <1>2, <1>3
<1>5. WritersRead'
  BY <1>2, <1>4 DEF ApptInv, WritersRead
<1>6. ApptInv'
  BY <1>1, <1>4, <1>5, EditCounts, WriterStep
<1>. QED
  BY <1>6 DEF KeepsDone

LEMMA ExtractStep ==
    ASSUME ApptInv, NEW w \in Writers, NEW a \in Appts, Appointments!Extract(w, a)
    PROVE  ApptInv' /\ KeepsDone
BY ReadStep DEF Appointments!Extract

LEMMA ClearStep ==
    ASSUME ApptInv, NEW w \in Writers, NEW a \in Appts, Appointments!ClearScope(w, a)
    PROVE  ApptInv' /\ KeepsDone
BY ReadStep DEF Appointments!ClearScope

\* What a writer makes of the list it has read.
LEMMA RewrittenKeeps ==
    ASSUME ApptInv, NEW w \in Writers, writer[w].op # "none",
           NEW old, old = writer[w].old,
           NEW new, new = Appointments!Rewritten(writer[w].op, writer[w].at, old)
    PROVE  new \in [Appts -> Row] /\ Follows(old, new, {})
<1>. DEFINE a == writer[w].at
<1>1. old \in [Appts -> Row] /\ a \in Appts /\ writer[w].op \in {"extract", "clear"}
  BY DEF ApptInv, ApptTyped, WritersRead, Writer
<1>2. CASE writer[w].op = "extract"
  <2>1. new = [old EXCEPT ![a] = Appointments!New] /\ old[a] = Appointments!Absent
    BY <1>2 DEF ApptInv, WritersRead, Appointments!Rewritten
  <2>. QED
    BY <1>1, <2>1, RowsNew DEF Follows
<1>3. CASE writer[w].op = "clear"
  <2>1. \A x \in Appts : new[x] \in {old[x], Appointments!Removed(old[x])}
    BY <1>3 DEF Appointments!Rewritten
  <2>2. \A x \in Appts : old[x] \in Row
    BY <1>1
  <2>3. new \in [Appts -> Row]
    BY <1>3, <2>2, RowsChange DEF Appointments!Rewritten
  <2>. QED
    BY <2>1, <2>2, <2>3, RowsChange DEF Follows
<1>. QED
  BY <1>1, <1>2, <1>3

LEMMA WriteStep == ASSUME ApptInv, NEW w \in Writers, Appointments!Write(w)
                   PROVE  ApptInv' /\ KeepsDone
<1>. DEFINE new == Appointments!Rewritten(writer[w].op, writer[w].at, writer[w].old)
<1>1. /\ book' = new /\ overwritten' = (overwritten \/ book # writer[w].old)
      /\ writer' = [writer EXCEPT ![w] = Appointments!NoOp]
      /\ UNCHANGED <<locked, banned, checker, notified, lost, edits>>
  BY DEF Appointments!Write
<1>2. new \in [Appts -> Row] /\ Follows(writer[w].old, new, {})
  BY RewrittenKeeps DEF Appointments!Write
<1>. HIDE DEF new
<1>3. /\ overwritten' \in BOOLEAN /\ (overwritten => overwritten')
      /\ ~overwritten' => book = writer[w].old
  BY <1>1, Zenon DEF ApptInv, ApptTyped
<1>4. writer' \in [Writers -> Writer] /\ WritersRead'
  <2>1. Appointments!NoOp \in Writer /\ Appointments!NoOp.op = "none"
    BY EmptyIsList DEF Appointments!NoOp, Writer
  <2>. QED
    BY <1>1, <2>1 DEF ApptInv, ApptTyped, WritersRead
<1>5. ~overwritten' => \A a \in Appts : book'[a].poked = book[a].poked
  BY <1>1, <1>2, <1>3 DEF Follows
<1>6. banned' \subseteq Appts /\ edits' \in 0..MaxEdits
  BY <1>1 DEF ApptInv, ApptTyped
<1>7. ApptInv'
  BY <1>1, <1>2, <1>3, <1>4, <1>5, <1>6, WriterStep
<1>. QED
  BY <1>1, <1>2, <1>3, <1>7 DEF KeepsDone, Follows

\* A checker goes on; what is counted and told is another matter.
LEMMA CheckerKeeps ==
    ASSUME ApptInv, NEW c \in Checkers, NEW to \in Checker, Sound(to),
           Appointments!Step(c, to),
           locked => to.phase # "matched",
           book' \in [Appts -> Row], overwritten' \in BOOLEAN,
           notified' \in [Appts -> [1..MaxPokes -> Nat]],
           UNCHANGED <<locked, banned, writer, lost, edits>>
    PROVE  ApptTyped' /\ WritersRead' /\ CheckersSound' /\ OneStepSwap'
<1>1. /\ checker' \in [Checkers -> Checker]
      /\ checker'[c] = to
      /\ \A x \in Checkers \ {c} : checker'[x] = checker[x]
      /\ CheckersSound'
  BY CheckerSteps
<1>2. ApptTyped'
  BY <1>1, Zenon DEF ApptInv, ApptTyped
<1>3. WritersRead'
  BY DEF ApptInv, WritersRead
<1>4. OneStepSwap'
  BY <1>1 DEF ApptInv, OneStepSwap
<1>. QED
  BY <1>1, <1>2, <1>3, <1>4

LEMMA IdleIsSound ==
    /\ Appointments!Idle \in Checker /\ Appointments!Idle.phase = "idle"
    /\ Sound(Appointments!Idle)
BY EmptyIsList DEF Appointments!Idle, Checker, Appointments!Phases, Sound

LEMMA ReadingIsSound ==
    ASSUME NEW b \in [Appts -> Row]
    PROVE  LET r == [phase |-> "judging", old |-> b, new |-> Appointments!Empty, pokes |-> {}]
           IN r \in Checker /\ r.phase = "judging" /\ Sound(r)
BY EmptyIsList DEF Checker, Appointments!Phases, Sound

LEMMA CheckStep == ASSUME ApptInv, NEW c \in Checkers, Appointments!Check(c)
                   PROVE  ApptInv' /\ KeepsDone
<1>. DEFINE clean == Appointments!Cleaned(book)
            reading == [phase |-> "judging", old |-> book, new |-> Appointments!Empty,
                        pokes |-> {}]
            cleaning == [Appointments!Idle EXCEPT !.phase = "cleaning", !.old = book,
                                                  !.new = clean]
<1>1. /\ checker[c].phase = "idle"
      /\ UNCHANGED <<locked, book, banned, writer, notified, lost, overwritten, edits>>
  BY DEF Appointments!Check
<1>2. book \in [Appts -> Row] /\ overwritten \in BOOLEAN
  BY DEF ApptInv, ApptTyped
<1>3. clean \in [Appts -> Row] /\ Follows(book, clean, {})
  BY <1>2, CleanedFollows
<1>. HIDE DEF clean
<1>4. cleaning \in Checker /\ cleaning.phase = "cleaning" /\ Sound(cleaning)
  <2>1. cleaning \in Checker
    BY <1>2, <1>3, IdleIsSound DEF Checker, Appointments!Phases
  <2>2. /\ cleaning.phase = "cleaning" /\ cleaning.old = book /\ cleaning.new = clean
        /\ cleaning.pokes = {}
    BY DEF Appointments!Idle
  <2>. HIDE DEF cleaning
  <2>. QED
    BY <1>3, <2>1, <2>2 DEF Sound
<1>5. reading \in Checker /\ reading.phase = "judging" /\ Sound(reading)
  BY <1>2, ReadingIsSound
<1>6. \/ Appointments!Step(c, reading)
      \/ Appointments!Step(c, cleaning)
  BY Zenon DEF Appointments!Check, Appointments!Reading, clean
<1>. HIDE DEF reading, cleaning
<1>7. ApptInv'
  BY <1>1, <1>2, <1>4, <1>5, <1>6, QuietStep
<1>. QED
  BY <1>1, <1>7 DEF KeepsDone

LEMMA CleanStep == ASSUME ApptInv, NEW c \in Checkers, Appointments!Clean(c)
                   PROVE  ApptInv' /\ KeepsDone
<1>. DEFINE old == checker[c].old
            new == checker[c].new
            reading == [phase |-> "judging", old |-> new, new |-> Appointments!Empty,
                        pokes |-> {}]
<1>1. /\ checker[c].phase = "cleaning"
      /\ book' = new /\ overwritten' = (overwritten \/ book # old)
      /\ Appointments!Step(c, reading)
      /\ UNCHANGED <<locked, banned, writer, notified, lost, edits>>
  BY DEF Appointments!Clean, Appointments!Reading
<1>2. checker[c] \in Checker
  BY DEF ApptInv, ApptTyped
<1>3. /\ old \in [Appts -> Row] /\ new \in [Appts -> Row]
  BY <1>2 DEF Checker
<1>4. Follows(old, new, {})
  BY <1>1 DEF ApptInv, CheckersSound, Sound
<1>5. reading \in Checker /\ reading.phase = "judging" /\ Sound(reading)
  BY <1>3, ReadingIsSound
<1>. HIDE DEF reading, old, new
<1>6. /\ overwritten' \in BOOLEAN /\ (overwritten => overwritten')
      /\ ~overwritten' => book = old
  BY <1>1, Zenon DEF ApptInv, ApptTyped
<1>7. ~overwritten' => \A a \in Appts : book'[a].poked = book[a].poked
  BY <1>1, <1>4, <1>6 DEF Follows
<1>8. ApptInv'
  BY <1>1, <1>3, <1>5, <1>6, <1>7, QuietStep
<1>. QED
  BY <1>1, <1>4, <1>6, <1>8 DEF KeepsDone, Follows

LEMMA JudgeStep == ASSUME ApptInv, NEW c \in Checkers, Appointments!Judge(c)
                   PROVE  ApptInv' /\ KeepsDone
<1>. DEFINE b == checker[c].old
<1>1. /\ checker[c].phase = "judging"
      /\ UNCHANGED <<locked, book, banned, writer, notified, lost, overwritten, edits>>
  BY DEF Appointments!Judge
<1>2. PICK over \in SUBSET Appointments!Waiting(b) :
         /\ {a \in Appointments!Waiting(b) : b[a].poked >= MaxPokes} \subseteq over
         /\ \E willing \in SUBSET (Appointments!Waiting(b) \ over) :
              LET pokes == Appointments!FirstPerScope(b, willing)
                  new == [a \in Appts |-> IF a \in over THEN Appointments!Done(b[a])
                                          ELSE IF a \in pokes THEN Appointments!Poked(b[a])
                                          ELSE b[a]]
              IN Appointments!Step(c, IF pokes = {} /\ over = {} THEN Appointments!Idle
                         ELSE [phase |-> "swapping", old |-> b, new |-> new, pokes |-> pokes])
  BY DEF Appointments!Judge
<1>3. PICK willing \in SUBSET (Appointments!Waiting(b) \ over) :
              LET pokes == Appointments!FirstPerScope(b, willing)
                  new == [a \in Appts |-> IF a \in over THEN Appointments!Done(b[a])
                                          ELSE IF a \in pokes THEN Appointments!Poked(b[a])
                                          ELSE b[a]]
              IN Appointments!Step(c, IF pokes = {} /\ over = {} THEN Appointments!Idle
                         ELSE [phase |-> "swapping", old |-> b, new |-> new, pokes |-> pokes])
  BY <1>2
<1>. DEFINE pokes == Appointments!FirstPerScope(b, willing)
            new == [a \in Appts |-> IF a \in over THEN Appointments!Done(b[a])
                                    ELSE IF a \in pokes THEN Appointments!Poked(b[a]) ELSE b[a]]
            to == [phase |-> "swapping", old |-> b, new |-> new, pokes |-> pokes]
<1>4. checker[c] \in Checker /\ overwritten \in BOOLEAN /\ book \in [Appts -> Row]
  BY DEF ApptInv, ApptTyped
<1>5. b \in [Appts -> Row]
  BY <1>4 DEF Checker
<1>6. \A a \in Appts : b[a] \in Row /\ b[a].poked \in Nat /\ b[a].poked <= MaxPokes
  BY <1>5, RowsCount
<1>7. /\ pokes \subseteq Appts
      /\ \A a \in pokes : a \notin over /\ b[a].status = "waiting" /\ b[a].poked < MaxPokes
      /\ \A a \in over : b[a].status = "waiting"
  <2>1. pokes \subseteq Appointments!Waiting(b) \ over
    BY DEF Appointments!FirstPerScope
  <2>. HIDE DEF pokes
  <2>2. \A a \in pokes : ~(b[a].poked >= MaxPokes)
    BY <1>2, <2>1
  <2>3. \A a \in Appointments!Waiting(b) : a \in Appts /\ b[a].status = "waiting"
    BY DEF Appointments!Waiting
  <2>. HIDE DEF b
  <2>4. \A a \in pokes : a \in Appts /\ a \notin over /\ b[a].status = "waiting"
    BY <2>1, <2>3
  <2>5. ASSUME NEW a \in pokes PROVE b[a].poked < MaxPokes
    <3>1. b[a].poked \in Nat /\ MaxPokes \in Nat
      BY <1>6, <2>4, Numbers
    <3>2. ~(b[a].poked >= MaxPokes)
      BY <2>2
    <3>. QED
      BY <3>1, <3>2
  <2>. QED
    BY <2>3, <2>4, <2>5
<1>. HIDE DEF pokes
<1>8. \A a \in Appts : new[a] = IF a \in over THEN Appointments!Done(b[a])
                                ELSE IF a \in pokes THEN Appointments!Poked(b[a]) ELSE b[a]
  OBVIOUS
<1>9. \A a \in Appts : new[a] \in Row
  BY <1>6, <1>7, <1>8, RowsChange
<1>10. new \in [Appts -> Row]
  BY <1>9
<1>. HIDE DEF new
<1>11. Follows(b, new, pokes)
  <2>. SUFFICES ASSUME NEW a \in Appts
                PROVE  /\ b[a].status \in {"done", "removed"} => new[a].status # "waiting"
                       /\ new[a].poked = IF a \in pokes THEN b[a].poked + 1 ELSE b[a].poked
    BY DEF Follows
  <2>1. CASE a \in over
    BY <1>6, <1>7, <1>8, <2>1, RowsChange
  <2>2. CASE a \in pokes
    BY <1>6, <1>7, <1>8, <2>2, RowsChange
  <2>3. CASE a \notin over /\ a \notin pokes
    BY <1>8, <2>3
  <2>. QED
    BY <2>1, <2>2, <2>3
<1>12. to \in Checker /\ to.phase = "swapping" /\ Sound(to)
  BY <1>5, <1>7, <1>10, <1>11 DEF Checker, Appointments!Phases, Sound
<1>13. \/ Appointments!Step(c, Appointments!Idle)
       \/ Appointments!Step(c, to)
  BY <1>3 DEF pokes, new
<1>. HIDE DEF to, b
<1>14. ApptInv'
  BY <1>1, <1>4, <1>12, <1>13, IdleIsSound, QuietStep
<1>. QED
  BY <1>1, <1>14 DEF KeepsDone

\* After the swap, the pokes that were counted are notified.
LEMMA AfterSwapIsSound ==
    ASSUME ApptInv, NEW c \in Checkers, checker[c].phase \in {"swapping", "matched"},
           NEW to, to = Appointments!AfterSwap(c)
    PROVE  /\ to \in Checker /\ Sound(to)
           /\ checker[c].pokes = {} => to.phase = "idle"
           /\ checker[c].pokes # {} =>
                /\ to.phase = "notifying"
                /\ to.pokes = checker[c].pokes /\ to.new = checker[c].new
           /\ to.phase # "matched"
<1>1. /\ checker[c] \in Checker
      /\ Follows(checker[c].old, checker[c].new, checker[c].pokes)
  BY DEF ApptInv, ApptTyped, CheckersSound, Sound
<1>2. CASE checker[c].pokes = {}
  BY <1>2, IdleIsSound DEF Appointments!AfterSwap
<1>3. CASE checker[c].pokes # {}
  <2>1. to = [checker[c] EXCEPT !.phase = "notifying", !.old = Appointments!Empty]
    BY <1>3 DEF Appointments!AfterSwap
  <2>2. to \in Checker
    BY <1>1, <2>1, EmptyIsList DEF Checker, Appointments!Phases
  <2>3. to.phase = "notifying" /\ to.pokes = checker[c].pokes /\ to.new = checker[c].new
    BY <1>1, <2>1 DEF Checker
  <2>4. \A a \in checker[c].pokes : checker[c].new[a].poked > 0
    <3>1. \A a \in Appts : checker[c].old[a] \in Row
      BY <1>1 DEF Checker
    <3>2. \A a \in checker[c].pokes : a \in Appts
      BY <1>1 DEF Checker
    <3>. QED
      BY <1>1, <3>1, <3>2, RowsCount DEF Follows
  <2>. QED
    BY <1>3, <2>2, <2>3, <2>4 DEF Sound
<1>. QED
  BY <1>2, <1>3

\* A list swapped in one process: its pokes are counted and about to be told.
LEMMA SwappedAccounts ==
    ASSUME ApptInv, NEW c \in Checkers, checker[c].phase = "swapping", checker[c].pokes # {},
           book = checker[c].old, book' = checker[c].new,
           Appointments!Step(c, Appointments!AfterSwap(c)),
           UNCHANGED <<locked, notified, lost, overwritten>>
    PROVE  Accounted'
<1>. DEFINE to == Appointments!AfterSwap(c)
<1>1. /\ to \in Checker /\ Sound(to)
      /\ to.phase = "notifying" /\ to.pokes = checker[c].pokes /\ to.new = checker[c].new
  BY AfterSwapIsSound
<1>. HIDE DEF to
<1>2. checker'[c] = to /\ \A x \in Checkers \ {c} : checker'[x] = checker[x]
  BY <1>1, CheckerSteps DEF to
<1>3. Follows(book, book', checker[c].pokes)
  BY DEF ApptInv, CheckersSound, Sound
<1>. SUFFICES ASSUME locked, ~overwritten, NEW a \in Appts, NEW n \in 1..MaxPokes
              PROVE  notified[a][n] + Cardinality(Telling(checker', a, n))
                       + (IF <<a, n>> \in lost THEN 1 ELSE 0)
                       = (IF n <= book'[a].poked THEN 1 ELSE 0)
  BY DEF Accounted
<1>4. /\ notified[a][n] + Cardinality(Telling(checker, a, n)) + (IF <<a, n>> \in lost THEN 1 ELSE 0)
           = (IF n <= book[a].poked THEN 1 ELSE 0)
      /\ notified[a][n] \in Nat /\ book[a].poked \in Nat /\ n \in Nat
  <2>1. book[a] \in Row /\ notified[a][n] \in Nat
    BY DEF ApptInv, ApptTyped
  <2>. QED
    BY <2>1, RowsCount DEF ApptInv, Accounted
<1>5. IsFiniteSet(Telling(checker, a, n)) /\ Cardinality(Telling(checker, a, n)) \in Nat
  <2>1. Telling(checker, a, n) \subseteq Checkers
    BY DEF Telling
  <2>. QED
    BY <2>1, Numbers, FS_Subset, FS_CardinalityType
<1>6. c \notin Telling(checker, a, n)
  BY DEF Telling
<1>7. CASE a \in checker[c].pokes /\ n = book[a].poked + 1
  <2>1. book'[a].poked = n
    BY <1>3, <1>7 DEF Follows
  <2>2. Telling(checker', a, n) = Telling(checker, a, n) \cup {c}
    <3>. SUFFICES ASSUME NEW x \in Checkers
                  PROVE  x \in Telling(checker', a, n) <=> x \in Telling(checker, a, n) \/ x = c
      BY DEF Telling
    <3>. QED
      BY <1>1, <1>2, <1>7, <2>1 DEF Telling
  <2>3. Cardinality(Telling(checker', a, n)) = Cardinality(Telling(checker, a, n)) + 1
    BY <1>5, <1>6, <2>2, FS_AddElement
  <2>. QED
    BY <1>4, <1>5, <1>7, <2>1, <2>3
<1>8. CASE ~(a \in checker[c].pokes /\ n = book[a].poked + 1)
  <2>1. a \in checker[c].pokes => book'[a].poked # n
    BY <1>3, <1>8 DEF Follows
  <2>2. Telling(checker', a, n) = Telling(checker, a, n)
    <3>. SUFFICES ASSUME NEW x \in Checkers
                  PROVE  x \in Telling(checker', a, n) <=> x \in Telling(checker, a, n)
      BY DEF Telling
    <3>. QED
      BY <1>1, <1>2, <2>1 DEF Telling
  <2>3. n <= book'[a].poked <=> n <= book[a].poked
    BY <1>3, <1>4, <1>8 DEF Follows
  <2>. QED
    BY <1>4, <2>2, <2>3
<1>. QED
  BY <1>7, <1>8

LEMMA SwapStep == ASSUME ApptInv, NEW c \in Checkers, Appointments!Swap(c)
                  PROVE  ApptInv' /\ KeepsDone
<1>1. /\ locked /\ checker[c].phase = "swapping"
      /\ UNCHANGED <<locked, banned, writer, notified, lost, overwritten, edits>>
      /\ \/ /\ book = checker[c].old /\ book' = checker[c].new
            /\ Appointments!Step(c, Appointments!AfterSwap(c))
         \/ UNCHANGED book /\ Appointments!Step(c, Appointments!Idle)
  BY DEF Appointments!Swap
<1>2. /\ checker[c] \in Checker /\ book \in [Appts -> Row] /\ overwritten \in BOOLEAN
      /\ notified \in [Appts -> [1..MaxPokes -> Nat]]
  BY DEF ApptInv, ApptTyped
<1>3. checker[c].new \in [Appts -> Row]
  BY <1>2 DEF Checker
<1>4. CASE UNCHANGED book /\ Appointments!Step(c, Appointments!Idle)
  <2>1. ApptInv'
    BY <1>1, <1>2, <1>4, IdleIsSound, QuietStep
  <2>. QED
    BY <1>4, <2>1 DEF KeepsDone
<1>5. CASE /\ book = checker[c].old /\ book' = checker[c].new
           /\ Appointments!Step(c, Appointments!AfterSwap(c))
  <2>. DEFINE to == Appointments!AfterSwap(c)
  <2>1. /\ to \in Checker /\ Sound(to) /\ to.phase # "matched"
        /\ checker[c].pokes = {} => to.phase = "idle"
    BY <1>1, AfterSwapIsSound
  <2>2. Follows(book, book', checker[c].pokes)
    BY <1>1, <1>5 DEF ApptInv, CheckersSound, Sound
  <2>. HIDE DEF to
  <2>3. CASE checker[c].pokes = {}
    <3>1. \A a \in Appts : book'[a].poked = book[a].poked
      BY <2>2, <2>3 DEF Follows
    <3>2. ApptInv'
      BY <1>1, <1>2, <1>3, <1>5, <2>1, <2>3, <3>1, QuietStep DEF to
    <3>. QED
      BY <2>2, <3>2 DEF KeepsDone, Follows
  <2>4. CASE checker[c].pokes # {}
    <3>1. ApptTyped' /\ WritersRead' /\ CheckersSound' /\ OneStepSwap'
      BY <1>1, <1>2, <1>3, <1>5, <2>1, CheckerKeeps DEF to
    <3>2. Accounted'
      BY <1>1, <1>5, <2>4, SwappedAccounts
    <3>. QED
      BY <2>2, <3>1, <3>2 DEF KeepsDone, Follows, ApptInv
  <2>. QED
    BY <2>3, <2>4
<1>. QED
  BY <1>1, <1>4, <1>5

LEMMA CompareStep == ASSUME ApptInv, NEW c \in Checkers, Appointments!Compare(c)
                     PROVE  ApptInv' /\ KeepsDone
<1>. DEFINE to == [checker[c] EXCEPT !.phase = "matched"]
<1>1. /\ ~locked /\ checker[c].phase = "swapping"
      /\ UNCHANGED <<locked, book, banned, writer, notified, lost, overwritten, edits>>
      /\ Appointments!Step(c, to) \/ Appointments!Step(c, Appointments!Idle)
  BY DEF Appointments!Compare
<1>2. /\ checker[c] \in Checker /\ book \in [Appts -> Row] /\ overwritten \in BOOLEAN
      /\ Sound(checker[c])
  BY DEF ApptInv, ApptTyped, CheckersSound
<1>3. to \in Checker
  BY <1>2 DEF Checker, Appointments!Phases
<1>4. /\ to.phase = "matched" /\ to.old = checker[c].old /\ to.new = checker[c].new
      /\ to.pokes = checker[c].pokes
  BY <1>2 DEF Checker
<1>. HIDE DEF to
<1>5. Sound(to)
  BY <1>1, <1>2, <1>4 DEF Sound
<1>6. ApptInv'
  BY <1>1, <1>2, <1>3, <1>4, <1>5, IdleIsSound, QuietStep
<1>. QED
  BY <1>1, <1>6 DEF KeepsDone

LEMMA UpdateStep == ASSUME ApptInv, NEW c \in Checkers, Appointments!Update(c)
                    PROVE  ApptInv' /\ KeepsDone
<1>. DEFINE to == Appointments!AfterSwap(c)
<1>1. /\ checker[c].phase = "matched"
      /\ book' = book \/ (book = checker[c].old /\ book' = checker[c].new)
      /\ Appointments!Step(c, to)
      /\ UNCHANGED <<locked, banned, writer, notified, lost, overwritten, edits>>
  BY DEF Appointments!Update
<1>2. /\ checker[c] \in Checker /\ book \in [Appts -> Row] /\ overwritten \in BOOLEAN
      /\ notified \in [Appts -> [1..MaxPokes -> Nat]]
      /\ ~locked /\ Follows(checker[c].old, checker[c].new, checker[c].pokes)
  BY <1>1 DEF ApptInv, ApptTyped, CheckersSound, Sound, OneStepSwap
<1>3. checker[c].new \in [Appts -> Row]
  BY <1>2 DEF Checker
<1>4. to \in Checker /\ Sound(to) /\ to.phase # "matched"
  BY <1>1, AfterSwapIsSound
<1>. HIDE DEF to
<1>5. ApptTyped' /\ WritersRead' /\ CheckersSound' /\ OneStepSwap'
  BY <1>1, <1>2, <1>3, <1>4, CheckerKeeps
<1>6. Accounted'
  BY <1>1, <1>2 DEF Accounted
<1>. QED
  BY <1>1, <1>2, <1>5, <1>6 DEF ApptInv, KeepsDone, Follows

LEMMA TellingFinite ==
    \A f, a, n : /\ IsFiniteSet(Telling(f, a, n)) /\ Cardinality(Telling(f, a, n)) \in Nat
                 /\ Telling(f, a, n) = {} <=> Cardinality(Telling(f, a, n)) = 0
<1>. SUFFICES ASSUME NEW f, NEW a, NEW n
              PROVE  /\ IsFiniteSet(Telling(f, a, n)) /\ Cardinality(Telling(f, a, n)) \in Nat
                     /\ Telling(f, a, n) = {} <=> Cardinality(Telling(f, a, n)) = 0
  OBVIOUS
<1>1. Telling(f, a, n) \subseteq Checkers
  BY DEF Telling
<1>2. IsFiniteSet(Telling(f, a, n))
  BY <1>1, Numbers, FS_Subset
<1>. QED
  BY <1>2, FS_CardinalityType, FS_EmptySet

LEMMA NotifyStep == ASSUME ApptInv, NEW c \in Checkers, Appointments!Notify(c)
                    PROVE  ApptInv' /\ KeepsDone
<1>. DEFINE a == Appointments!Min(checker[c].pokes)
            n == checker[c].new[a].poked
            rest == checker[c].pokes \ {a}
            more == [checker[c] EXCEPT !.pokes = rest]
            to == IF rest = {} THEN Appointments!Idle ELSE more
<1>1. /\ checker[c].phase = "notifying"
      /\ notified' = [notified EXCEPT ![a][n] = @ + 1]
      /\ Appointments!Step(c, to)
      /\ UNCHANGED <<locked, book, banned, writer, lost, overwritten, edits>>
  BY DEF Appointments!Notify
<1>2. /\ checker[c] \in Checker /\ book \in [Appts -> Row] /\ overwritten \in BOOLEAN
      /\ notified \in [Appts -> [1..MaxPokes -> Nat]]
      /\ checker[c].pokes # {} /\ \A x \in checker[c].pokes : checker[c].new[x].poked > 0
  BY <1>1 DEF ApptInv, ApptTyped, CheckersSound, Sound
<1>3. checker[c].pokes \subseteq Appts /\ checker[c].new \in [Appts -> Row]
  BY <1>2 DEF Checker
<1>4. a \in checker[c].pokes
  BY <1>2, <1>3, LeastOfPokes
<1>. HIDE DEF a
<1>5. a \in Appts /\ n \in 1..MaxPokes
  <2>1. n \in Nat /\ n <= MaxPokes /\ n > 0 /\ MaxPokes \in Nat
    BY <1>2, <1>3, <1>4, RowsCount, Numbers
  <2>. QED
    BY <1>3, <1>4, <2>1
<1>. HIDE DEF n
<1>6. /\ notified' \in [Appts -> [1..MaxPokes -> Nat]]
      /\ notified'[a][n] = notified[a][n] + 1
      /\ \A x \in Appts, m \in 1..MaxPokes : x # a \/ m # n => notified'[x][m] = notified[x][m]
  <2>. DEFINE next == notified[a][n] + 1
              counts == [notified[a] EXCEPT ![n] = next]
              pokes == 1..MaxPokes
  <2>1. notified[a] \in [pokes -> Nat] /\ n \in pokes
    BY <1>2, <1>5
  <2>. HIDE DEF pokes
  <2>2. next \in Nat
    BY <2>1
  <2>. HIDE DEF next
  <2>3. /\ counts \in [pokes -> Nat] /\ counts[n] = next
        /\ \A m \in pokes : m # n => counts[m] = notified[a][m]
    BY <2>1, <2>2
  <2>4. notified' = [notified EXCEPT ![a] = counts]
    BY <1>1 DEF next
  <2>. HIDE DEF counts
  <2>. QED
    BY <1>2, <1>5, <2>3, <2>4 DEF next, pokes
<1>7. /\ rest = {} => to = Appointments!Idle
      /\ rest # {} => to = more
      /\ more \in Checker /\ more.phase = "notifying" /\ more.pokes = rest
      /\ more.new = checker[c].new
  <2>1. checker[c].pokes \cap rest = rest /\ rest \subseteq Appts
    BY <1>3
  <2>. HIDE DEF rest
  <2>2. /\ more \in Checker /\ more.phase = "notifying" /\ more.pokes = rest
        /\ more.new = checker[c].new
    BY <1>1, <1>2, <2>1 DEF Checker
  <2>. QED
    BY <2>2
<1>8. rest \subseteq checker[c].pokes /\ a \notin rest
  OBVIOUS
<1>9. \A x \in checker[c].pokes : x = a \/ x \in rest
  OBVIOUS
<1>. HIDE DEF rest, more, to
<1>10. rest # {} => Sound(more)
  BY <1>2, <1>7, <1>8 DEF Sound
<1>11. to \in Checker /\ Sound(to) /\ to.phase # "matched"
  BY <1>7, <1>10, IdleIsSound
<1>12. ApptTyped' /\ WritersRead' /\ CheckersSound' /\ OneStepSwap'
  BY <1>1, <1>2, <1>6, <1>11, CheckerKeeps
<1>13. checker'[c] = to /\ \A x \in Checkers \ {c} : checker'[x] = checker[x]
  BY <1>1, <1>11, CheckerSteps
<1>14. ASSUME locked, ~overwritten, NEW x \in Appts, NEW m \in 1..MaxPokes
       PROVE  notified'[x][m] + Cardinality(Telling(checker', x, m))
                + (IF <<x, m>> \in lost THEN 1 ELSE 0)
                = (IF m <= book[x].poked THEN 1 ELSE 0)
  <2>1. /\ notified[x][m] + Cardinality(Telling(checker, x, m))
             + (IF <<x, m>> \in lost THEN 1 ELSE 0)
             = (IF m <= book[x].poked THEN 1 ELSE 0)
        /\ notified[x][m] \in Nat
    BY <1>2, <1>14 DEF ApptInv, Accounted
  <2>2. to.phase = "notifying" => to.pokes = rest /\ to.new = checker[c].new
    BY <1>7, IdleIsSound
  <2>3. to.phase # "notifying" => rest = {}
    BY <1>7
  <2>4. CASE x = a /\ m = n
    <3>1. c \in Telling(checker, x, m)
      BY <1>1, <1>4, <2>4 DEF Telling, n
    <3>2. Telling(checker', x, m) = Telling(checker, x, m) \ {c}
      <4>. SUFFICES ASSUME NEW y \in Checkers
                    PROVE  y \in Telling(checker', x, m)
                             <=> y \in Telling(checker, x, m) /\ y # c
        BY DEF Telling
      <4>. QED
        BY <1>8, <1>13, <2>2, <2>4 DEF Telling
    <3>3. Cardinality(Telling(checker', x, m)) = Cardinality(Telling(checker, x, m)) - 1
      BY <3>1, <3>2, TellingFinite, FS_RemoveElement
    <3>4. notified'[x][m] = notified[x][m] + 1
      BY <1>6, <2>4
    <3>. QED
      BY <2>1, <3>3, <3>4, TellingFinite
  <2>5. CASE x # a \/ m # n
    <3>1. Telling(checker', x, m) = Telling(checker, x, m)
      <4>. SUFFICES ASSUME NEW y \in Checkers
                    PROVE  y \in Telling(checker', x, m) <=> y \in Telling(checker, x, m)
        BY DEF Telling
      <4>1. CASE y # c
        BY <1>13, <4>1 DEF Telling
      <4>2. CASE y = c
        <5>1. y \in Telling(checker', x, m) <=>
                to.phase = "notifying" /\ x \in to.pokes /\ to.new[x].poked = m
          BY <1>13, <4>2 DEF Telling
        <5>2. y \in Telling(checker, x, m) <=>
                x \in checker[c].pokes /\ checker[c].new[x].poked = m
          BY <1>1, <4>2 DEF Telling
        <5>3. CASE x = a
          BY <1>8, <2>2, <2>5, <5>1, <5>2, <5>3 DEF n
        <5>4. CASE x # a
          BY <1>8, <1>9, <2>2, <2>3, <5>1, <5>2, <5>4
        <5>. QED
          BY <5>3, <5>4
      <4>. QED
        BY <4>1, <4>2
    <3>2. notified'[x][m] = notified[x][m]
      BY <1>6, <2>5
    <3>. QED
      BY <2>1, <3>1, <3>2
  <2>. QED
    BY <2>4, <2>5
<1>15. Accounted'
  BY <1>1, <1>14 DEF Accounted
<1>. QED
  BY <1>1, <1>12, <1>15 DEF ApptInv, KeepsDone

LEMMA RestartStep == ASSUME ApptInv, Appointments!Restart
                     PROVE  ApptInv' /\ KeepsDone
<1>. DEFINE severed == UNION {Appointments!InFlight(c) : c \in Checkers}
<1>1. /\ edits' \in 0..MaxEdits
      /\ lost' = lost \cup severed
      /\ checker' = [c \in Checkers |-> Appointments!Idle]
      /\ writer' = [w \in Writers |-> Appointments!NoOp]
      /\ UNCHANGED <<locked, book, banned, notified, overwritten>>
  BY EditCounts DEF Appointments!Restart
<1>2. \A c \in Checkers : checker'[c] = Appointments!Idle
  BY <1>1
<1>3. /\ \A c \in Checkers : checker[c] \in Checker /\ Sound(checker[c])
      /\ notified \in [Appts -> [1..MaxPokes -> Nat]]
      /\ lost \subseteq Appts \X (1..MaxPokes)
  BY DEF ApptInv, ApptTyped, CheckersSound
<1>4. \A c \in Checkers : \A p \in Appointments!InFlight(c) :
        \E x \in checker[c].pokes : /\ checker[c].phase = "notifying"
                                    /\ p = <<x, checker[c].new[x].poked>>
  BY DEF Appointments!InFlight
<1>5. \A c \in Checkers : \A x \in checker[c].pokes :
        checker[c].phase = "notifying" =>
          /\ <<x, checker[c].new[x].poked>> \in Appointments!InFlight(c)
          /\ x \in Appts /\ checker[c].new[x].poked \in 1..MaxPokes
  <2>. SUFFICES ASSUME NEW c \in Checkers, NEW x \in checker[c].pokes,
                       checker[c].phase = "notifying"
                PROVE  /\ <<x, checker[c].new[x].poked>> \in Appointments!InFlight(c)
                       /\ x \in Appts /\ checker[c].new[x].poked \in 1..MaxPokes
    OBVIOUS
  <2>1. x \in Appts /\ checker[c].new[x] \in Row /\ checker[c].new[x].poked > 0
    BY <1>3 DEF Checker, Sound
  <2>2. checker[c].new[x].poked \in 1..MaxPokes
    BY <2>1, RowsCount, Numbers
  <2>. QED
    BY <2>1, <2>2 DEF Appointments!InFlight
<1>6. severed \subseteq Appts \X (1..MaxPokes)
  BY <1>4, <1>5
<1>7. \A x \in Appts, m \in 1..MaxPokes : <<x, m>> \in severed <=> Telling(checker, x, m) # {}
  <2>. SUFFICES ASSUME NEW x \in Appts, NEW m \in 1..MaxPokes
                PROVE  <<x, m>> \in severed <=> Telling(checker, x, m) # {}
    OBVIOUS
  <2>1. ASSUME <<x, m>> \in severed PROVE Telling(checker, x, m) # {}
    <3>1. PICK c \in Checkers : <<x, m>> \in Appointments!InFlight(c)
      BY <2>1
    <3>2. PICK y \in checker[c].pokes : /\ checker[c].phase = "notifying"
                                        /\ <<x, m>> = <<y, checker[c].new[y].poked>>
      BY <1>4, <3>1
    <3>. QED
      BY <3>2 DEF Telling
  <2>2. ASSUME NEW c \in Telling(checker, x, m) PROVE <<x, m>> \in severed
    <3>1. /\ c \in Checkers /\ x \in checker[c].pokes
          /\ checker[c].phase = "notifying" /\ checker[c].new[x].poked = m
      BY DEF Telling
    <3>. QED
      BY <1>5, <3>1
  <2>. QED
    BY <2>1, <2>2
<1>. HIDE DEF severed
<1>8. checker' \in [Checkers -> Checker] /\ CheckersSound' /\ OneStepSwap'
  BY <1>1, <1>2, IdleIsSound DEF CheckersSound, OneStepSwap
<1>9. writer' \in [Writers -> Writer] /\ WritersRead'
  <2>1. Appointments!NoOp \in Writer /\ Appointments!NoOp.op = "none"
    BY EmptyIsList DEF Appointments!NoOp, Writer
  <2>. QED
    BY <1>1, <2>1 DEF WritersRead
<1>10. ApptTyped'
  <2>1. lost' \subseteq Appts \X (1..MaxPokes)
    BY <1>1, <1>3, <1>6
  <2>. QED
    BY <1>1, <1>8, <1>9, <2>1, Zenon DEF ApptInv, ApptTyped
<1>11. ASSUME locked, ~overwritten, NEW x \in Appts, NEW m \in 1..MaxPokes
       PROVE  notified[x][m] + Cardinality(Telling(checker', x, m))
                + (IF <<x, m>> \in lost' THEN 1 ELSE 0)
                = (IF m <= book[x].poked THEN 1 ELSE 0)
  <2>1. /\ notified[x][m] + Cardinality(Telling(checker, x, m))
             + (IF <<x, m>> \in lost THEN 1 ELSE 0)
             = (IF m <= book[x].poked THEN 1 ELSE 0)
        /\ notified[x][m] \in Nat
    BY <1>3, <1>11 DEF ApptInv, Accounted
  <2>2. Cardinality(Telling(checker', x, m)) = 0
    <3>1. Telling(checker', x, m) = {}
      BY <1>2, IdleIsSound DEF Telling
    <3>. QED
      BY <3>1, TellingFinite
  <2>3. <<x, m>> \in lost' <=> <<x, m>> \in lost \/ Cardinality(Telling(checker, x, m)) # 0
    BY <1>1, <1>7, TellingFinite
  <2>4. Cardinality(Telling(checker, x, m)) \in Nat
    BY TellingFinite
  <2>. QED
    BY <2>1, <2>2, <2>3, <2>4
<1>12. Accounted'
  BY <1>1, <1>11 DEF Accounted
<1>. QED
  BY <1>1, <1>8, <1>9, <1>10, <1>12 DEF ApptInv, KeepsDone

\* Nothing in the invariant is of another component.
LEMMA StutterAppt ==
    ASSUME ApptInv, UNCHANGED appointmentVars
    PROVE  ApptInv' /\ KeepsDone
BY DEF appointmentVars, ApptInv, ApptTyped, WritersRead, CheckersSound, OneStepSwap, Accounted,
       KeepsDone

LEMMA NextAppt == ASSUME ApptInv, [Next]_vars PROVE ApptInv' /\ KeepsDone
<1>1. CASE NextAppointments
  BY <1>1, BanStep, ExtractStep, ClearStep, WriteStep, CheckStep, CleanStep, JudgeStep, SwapStep,
     CompareStep, UpdateStep, NotifyStep, RestartStep
     DEF NextAppointments, Appointments!Next
<1>2. CASE ~NextAppointments
  <2>1. UNCHANGED appointmentVars
    BY <1>2 DEF Next, NextSharing, NextSleep, NextPool, NextSearch, vars
  <2>. QED
    BY <2>1, StutterAppt
<1>. QED
  BY <1>1, <1>2

-----------------------------------------------------------------------------
(* The theorems *)

LEMMA ApptMeans == ApptInv => Appointments!TypeOK /\ Appointments!PokesAccounted
<1>. SUFFICES ASSUME ApptInv PROVE Appointments!TypeOK /\ Appointments!PokesAccounted
  OBVIOUS
<1>1. Appointments!TypeOK
  <2>1. /\ book \in Appointments!Books
        /\ checker \in [Checkers -> [phase : Appointments!Phases, old : Appointments!Books,
                                     new : Appointments!Books, pokes : SUBSET Appts]]
        /\ writer \in [Writers -> [op : {"none", "extract", "clear"}, at : Appts \cup {0},
                                   old : Appointments!Books]]
    BY ListsAreRows DEF ApptInv, ApptTyped, Checker, Writer
  <2>. QED
    BY <2>1, Zenon DEF ApptInv, ApptTyped, Appointments!TypeOK
<1>2. ASSUME locked, ~overwritten, NEW a \in Appts, NEW n \in 1..MaxPokes
      PROVE  notified[a][n]
               + Appointments!Cardinality({c \in Checkers : <<a, n>> \in Appointments!InFlight(c)})
               + Appointments!Count(<<a, n>> \in lost)
               = Appointments!Count(n <= book[a].poked)
  <2>1. {c \in Checkers : <<a, n>> \in Appointments!InFlight(c)} = Telling(checker, a, n)
    <3>. SUFFICES ASSUME NEW c \in Checkers
                  PROVE  <<a, n>> \in Appointments!InFlight(c) <=> c \in Telling(checker, a, n)
      BY DEF Telling
    <3>. QED
      BY DEF Telling, Appointments!InFlight
  <2>2. Appointments!Cardinality({c \in Checkers : <<a, n>> \in Appointments!InFlight(c)})
          = Cardinality(Telling(checker, a, n))
    BY <2>1, SameCardinality
  <2>. QED
    BY <1>2, <2>2 DEF ApptInv, Accounted, Appointments!Count
<1>3. Appointments!PokesAccounted
  BY <1>2 DEF Appointments!PokesAccounted
<1>. QED
  BY <1>1, <1>3

LEMMA ApptAlways == Spec => []ApptInv
<1>1. Init => ApptInv
  BY InitAppt DEF Init
<1>2. ApptInv /\ [Next]_vars => ApptInv'
  BY NextAppt
<1>. QED
  BY <1>1, <1>2, PTL DEF Spec

\* For any number of appointments, checkers and writers, in one process or in
\* several: while no list was written over a change, an appointment that is
\* done or removed does not wait again.
THEOREM DoneAppointmentsStayDone == Spec => DoneIsFinal
<1>1. ApptInv /\ [Next]_vars =>
        [\A a \in Appts : ~overwritten' /\ book[a].status \in {"done", "removed"}
                            => book'[a].status # "waiting"]_Appointments!vars
  BY NextAppt DEF KeepsDone
<1>. QED
  BY <1>1, ApptAlways, PTL DEF Spec, DoneIsFinal, Appointments!DoneIsFinal

-----------------------------------------------------------------------------
(* Searches and messages sent unasked *)

Visits == Searching!Visits

Searchers == [phase : {"idle", "asking", "starting", "scheduling", "writing"},
              wants : SUBSET {"container", "where", "cancel"},
              visit : Visits, read : [Chats -> Visits]]
Loops == [phase : {"idle", "choosing", "taking", "looking", "searching", "scheduling",
                   "writing", "finishing", "reporting", "visiting", "clearing"},
          todo : [Chats -> Visits], scope : Chats \cup {Searching!NoScope}, at : 0..Steps,
          read : [Chats -> Visits]]

-----------------------------------------------------------------------------
(* The invariant *)

SearchTyped ==
    /\ pending \in [Chats -> Visits]
    /\ search \in [Chats -> 0..(Steps + 1)]
    /\ stalled \subseteq Chats
    /\ client \in [Chats -> Searchers]
    /\ loop \in Loops

\* A chat that has not settled on a visit has none to make.
Settled(k) == k.phase \in {"idle", "asking", "starting"} => k.visit = Searching!NoVisit

\* Between two visits the loop is with no chat; a step that is being looked at is
\* one of the search.
Located(l) ==
    /\ l.phase \notin {"idle", "choosing"} => l.scope \in Chats
    /\ l.phase = "searching" => l.at < Steps

\* Somebody, the loop l or the chat itself (k), is about to write the next visit
\* of the search of s.
Making(l, k, s) ==
    \/ l.scope = s /\ l.phase \in {"looking", "searching", "scheduling", "writing", "finishing"}
    \/ k.visit.kind = "search"

SearchesGoOn ==
    \A s \in Chats :
      search[s] # Searching!NoSearch /\ s \notin stalled =>
        pending[s].kind = "search" \/ Making(loop, client[s], s)

SearchInv == /\ SearchTyped /\ Located(loop) /\ SearchesGoOn
             /\ \A s \in Chats : Settled(client[s])

-----------------------------------------------------------------------------
(* Lemmas *)

LEMMA StepsAreNat == Steps \in Nat
BY ConstantsAssumption DEF Searching!StepsAssumption

LEMMA VisitsMade ==
    /\ Searching!NoVisit \in Visits /\ Searching!NoVisit.kind = "none"
    /\ Searching!None \in [Chats -> Visits]
    /\ \A kind \in {"search", "container"}, at \in 0..Steps :
         Searching!Visit(kind, at) \in Visits /\ Searching!Visit(kind, at).kind = kind
BY StepsAreNat DEF Visits, Searching!Visits, Searching!NoVisit, Searching!None, Searching!Visit

LEMMA FreeAndRest ==
    /\ Searching!Free \in Searchers /\ Searching!Free.phase = "idle"
    /\ Searching!Free.visit = Searching!NoVisit
    /\ Searching!Rest \in Loops /\ Searching!Rest.phase = "idle"
BY StepsAreNat, VisitsMade DEF Searching!Free, Searching!Rest, Searchers, Loops

\* A part of a message is done.
LEMMA DidPart ==
    ASSUME SearchInv, NEW s \in Chats, NEW part
    PROVE  /\ Searching!Did(s, part) \in Searchers
           /\ Searching!Did(s, part).phase \in {"idle", "asking"}
           /\ Searching!Did(s, part).visit = Searching!NoVisit
<1>1. client[s] \in Searchers
  BY DEF SearchInv, SearchTyped
<1>2. CASE client[s].wants \ {part} = {}
  BY <1>2, FreeAndRest DEF Searching!Did
<1>3. CASE client[s].wants \ {part} # {}
  <2>. DEFINE left == client[s].wants \ {part}
  <2>1. left \in SUBSET {"container", "where", "cancel"}
    BY <1>1 DEF Searchers
  <2>2. Searching!Did(s, part) = [client[s] EXCEPT !.phase = "asking", !.wants = left,
                                    !.visit = Searching!NoVisit, !.read = Searching!None]
    BY <1>3 DEF Searching!Did
  <2>. HIDE DEF left
  <2>. QED
    BY <1>1, <2>1, <2>2, VisitsMade DEF Searchers
<1>. QED
  BY <1>2, <1>3

\* The chat goes on.
LEMMA ChatGoesOn ==
    ASSUME SearchInv, NEW s \in Chats, NEW to \in Searchers, Settled(to),
           Searching!Become(s, to)
    PROVE  /\ client' \in [Chats -> Searchers] /\ client'[s] = to
           /\ \A x \in Chats : x # s => client'[x] = client[x]
           /\ \A x \in Chats : Settled(client'[x])
<1>1. client \in [Chats -> Searchers] /\ client' = [client EXCEPT ![s] = to]
  BY DEF SearchInv, SearchTyped, Searching!Become
<1>2. /\ client' \in [Chats -> Searchers] /\ client'[s] = to
      /\ \A x \in Chats : x # s => client'[x] = client[x]
  BY <1>1
<1>3. \A x \in Chats : Settled(client[x])
  BY DEF SearchInv
<1>. QED
  BY <1>2, <1>3

\* The loop goes on after a visit.
LEMMA OnwardGoes ==
    ASSUME NEW l \in Loops
    PROVE  /\ Searching!Onward(l) \in Loops
           /\ Searching!Onward(l).phase \in {"idle", "choosing"}
<1>1. Searching!None \in [Chats -> Visits] /\ 0 \in 0..Steps
  BY StepsAreNat, VisitsMade
<1>2. CASE l.todo = Searching!None
  BY <1>2, FreeAndRest DEF Searching!Onward
<1>3. CASE l.todo # Searching!None
  <2>1. Searching!Onward(l) = [l EXCEPT !.phase = "choosing", !.scope = Searching!NoScope,
                                        !.at = 0, !.read = Searching!None]
    BY <1>3 DEF Searching!Onward
  <2>. QED
    BY <1>1, <2>1 DEF Loops
<1>. QED
  BY <1>2, <1>3

\* A write of the visits for s: what it does away with is stalled.
LEMMA PutStalls ==
    ASSUME SearchInv, NEW s \in Chats, NEW v \in [Chats -> Visits], Searching!Put(v, s)
    PROVE  /\ pending' \in [Chats -> Visits] /\ stalled' \subseteq Chats
           /\ \A x \in Chats : x # s /\ x \notin stalled' =>
                x \notin stalled /\ (pending[x].kind = "search" => pending'[x].kind = "search")
           /\ s \notin stalled' =>
                \/ pending'[s].kind = "search"
                \/ s \notin stalled /\ pending[s].kind # "search"
BY DEF SearchInv, SearchTyped, Searching!Put, Searching!Undone

LEMMA InitSearch == Searching!Init => SearchInv
<1>. SUFFICES ASSUME Searching!Init PROVE SearchInv
  OBVIOUS
<1>1. /\ pending = Searching!None
      /\ search = [s \in Chats |-> Searching!NoSearch]
      /\ client = [s \in Chats |-> Searching!Free]
      /\ loop = Searching!Rest
      /\ stalled = {}
  BY DEF Searching!Init
<1>2. SearchTyped
  BY <1>1, VisitsMade, FreeAndRest, StepsAreNat DEF SearchTyped, Searching!NoSearch
<1>. QED
  BY <1>1, <1>2, FreeAndRest DEF SearchInv, Located, Settled, SearchesGoOn

-----------------------------------------------------------------------------
(* Steps of the chats *)

\* A step of a chat that writes no visits and drops none it was to make.
LEMMA ChatStep ==
    ASSUME SearchInv, NEW s \in Chats, NEW to \in Searchers, Settled(to),
           Searching!Become(s, to),
           search' \in [Chats -> 0..(Steps + 1)],
           \A x \in Chats : x # s => search'[x] = search[x],
           \/ to.visit.kind = "search"
           \/ search'[s] = Searching!NoSearch
           \/ search'[s] = search[s] /\ client[s].visit.kind # "search",
           UNCHANGED <<pending, loop, stalled>>
    PROVE  SearchInv'
<1>1. /\ client' \in [Chats -> Searchers] /\ client'[s] = to
      /\ \A x \in Chats : x # s => client'[x] = client[x]
      /\ \A x \in Chats : Settled(client'[x])
  BY ChatGoesOn
<1>2. SearchTyped' /\ Located(loop')
  BY <1>1 DEF SearchInv, SearchTyped
<1>3. SearchesGoOn'
  BY <1>1 DEF SearchInv, SearchesGoOn, Making
<1>. QED
  BY <1>1, <1>2, <1>3 DEF SearchInv

\* A chat that has not settled on a visit makes none.
LEMMA Unsettled ==
    ASSUME SearchInv, NEW s \in Chats, client[s].phase \in {"idle", "asking", "starting"}
    PROVE  client[s].visit.kind = "none" /\ client[s] \in Searchers
           /\ search \in [Chats -> 0..(Steps + 1)]
BY VisitsMade DEF SearchInv, SearchTyped, Settled

LEMMA MessageStep ==
    ASSUME SearchInv, NEW s \in Chats,
           NEW wants \in SUBSET {"container", "where", "cancel"}, Searching!Message(s, wants)
    PROVE  SearchInv'
<1>. DEFINE to == [Searching!Free EXCEPT !.phase = "asking", !.wants = wants]
<1>1. to \in Searchers /\ to.phase = "asking" /\ to.visit = Searching!NoVisit
  BY FreeAndRest DEF Searchers
<1>2. /\ client[s].phase = "idle" /\ Searching!Become(s, to)
      /\ UNCHANGED <<pending, search, loop, stalled>>
  BY DEF Searching!Message
<1>. HIDE DEF to
<1>3. Settled(to)
  BY <1>1 DEF Settled
<1>. QED
  BY <1>1, <1>2, <1>3, Unsettled, ChatStep

LEMMA AskContainerStep ==
    ASSUME SearchInv, NEW s \in Chats, NEW c \in 0..(Steps - 1), Searching!AskContainer(s, c)
    PROVE  SearchInv'
<1>. DEFINE did == Searching!Did(s, "container")
            to == [did EXCEPT !.phase = "scheduling", !.visit = Searching!Visit("container", c)]
<1>1. /\ client[s].phase = "asking"
      /\ Searching!Become(s, did) \/ Searching!Become(s, to)
      /\ UNCHANGED <<pending, search, loop, stalled>>
  BY DEF Searching!AskContainer
<1>2. /\ did \in Searchers /\ did.phase \in {"idle", "asking"} /\ did.visit = Searching!NoVisit
  BY DidPart
<1>. HIDE DEF did
<1>3. Searching!Visit("container", c) \in Visits
  BY VisitsMade, StepsAreNat
<1>4. to \in Searchers /\ to.phase = "scheduling"
  BY <1>2, <1>3 DEF Searchers
<1>. HIDE DEF to
<1>5. Settled(did) /\ Settled(to)
  BY <1>2, <1>4 DEF Settled
<1>. QED
  BY <1>1, <1>2, <1>4, <1>5, Unsettled, ChatStep

LEMMA AskWhereStep ==
    ASSUME SearchInv, NEW s \in Chats, Searching!AskWhere(s)
    PROVE  SearchInv'
<1>. DEFINE did == Searching!Did(s, "where")
            start == [did EXCEPT !.phase = "starting"]
            visit == Searching!Visit("search", search[s])
            again == [did EXCEPT !.phase = "scheduling", !.visit = visit]
<1>1. /\ client[s].phase = "asking"
      /\ \/ Searching!Become(s, start)
         \/ search[s] < Steps /\ Searching!Become(s, again)
         \/ Searching!Become(s, did)
      /\ UNCHANGED <<pending, search, loop, stalled>>
  BY DEF Searching!AskWhere
<1>2. /\ did \in Searchers /\ did.phase \in {"idle", "asking"} /\ did.visit = Searching!NoVisit
  BY DidPart
<1>. HIDE DEF did
<1>3. start \in Searchers /\ start.phase = "starting" /\ start.visit = Searching!NoVisit
  BY <1>2 DEF Searchers
<1>4. search[s] < Steps => visit \in Visits
  <2>1. search[s] \in 0..(Steps + 1)
    BY DEF SearchInv, SearchTyped
  <2>2. search[s] < Steps => search[s] \in 0..Steps
    BY <2>1, StepsAreNat
  <2>. QED
    BY <2>2, VisitsMade
<1>. HIDE DEF visit
<1>5. search[s] < Steps => again \in Searchers /\ again.phase = "scheduling"
  BY <1>2, <1>4 DEF Searchers
<1>. HIDE DEF start, again
<1>6. Settled(did) /\ Settled(start) /\ (search[s] < Steps => Settled(again))
  BY <1>2, <1>3, <1>5 DEF Settled
<1>. QED
  BY <1>1, <1>2, <1>3, <1>5, <1>6, Unsettled, ChatStep

LEMMA StartStep == ASSUME SearchInv, NEW s \in Chats, Searching!Start(s) PROVE SearchInv'
<1>. DEFINE to == [client[s] EXCEPT !.phase = "scheduling", !.visit = Searching!Visit("search", 0)]
<1>1. /\ client[s].phase = "starting" /\ Searching!Become(s, to)
      /\ search' = [search EXCEPT ![s] = 0]
      /\ UNCHANGED <<pending, loop, stalled>>
  BY DEF Searching!Start
<1>2. Searching!Visit("search", 0) \in Visits /\ Searching!Visit("search", 0).kind = "search"
  BY VisitsMade, StepsAreNat
<1>3. client[s] \in Searchers /\ search \in [Chats -> 0..(Steps + 1)] /\ 0 \in 0..(Steps + 1)
  BY StepsAreNat DEF SearchInv, SearchTyped
<1>4. to \in Searchers /\ to.phase = "scheduling" /\ to.visit.kind = "search"
  BY <1>2, <1>3 DEF Searchers
<1>. HIDE DEF to
<1>5. Settled(to)
  BY <1>4 DEF Settled
<1>6. /\ search' \in [Chats -> 0..(Steps + 1)]
      /\ \A x \in Chats : x # s => search'[x] = search[x]
  BY <1>1, <1>3
<1>. QED
  BY <1>1, <1>4, <1>5, <1>6, ChatStep

LEMMA ScheduleStep == ASSUME SearchInv, NEW s \in Chats, Searching!Schedule(s) PROVE SearchInv'
<1>. DEFINE to == [client[s] EXCEPT !.phase = "writing", !.read = pending]
<1>1. /\ Searching!Become(s, to) /\ UNCHANGED <<pending, search, loop, stalled>>
  BY DEF Searching!Schedule
<1>2. client[s] \in Searchers /\ pending \in [Chats -> Visits] /\ search \in [Chats -> 0..(Steps + 1)]
  BY DEF SearchInv, SearchTyped
<1>3. to \in Searchers /\ to.phase = "writing" /\ to.visit = client[s].visit
  BY <1>2 DEF Searchers
<1>. HIDE DEF to
<1>4. Settled(to)
  BY <1>3 DEF Settled
<1>. QED
  BY <1>1, <1>2, <1>3, <1>4, ChatStep

LEMMA CancelStep == ASSUME SearchInv, NEW s \in Chats, Searching!Cancel(s) PROVE SearchInv'
<1>. DEFINE did == Searching!Did(s, "cancel")
<1>1. /\ client[s].phase = "asking" /\ Searching!Become(s, did)
      /\ search' = [search EXCEPT ![s] = Searching!NoSearch]
      /\ UNCHANGED <<pending, loop, stalled>>
  BY DEF Searching!Cancel
<1>2. /\ did \in Searchers /\ did.phase \in {"idle", "asking"} /\ did.visit = Searching!NoVisit
  BY DidPart
<1>. HIDE DEF did
<1>3. Settled(did)
  BY <1>2 DEF Settled
<1>4. search \in [Chats -> 0..(Steps + 1)] /\ Searching!NoSearch \in 0..(Steps + 1)
  BY StepsAreNat DEF SearchInv, SearchTyped, Searching!NoSearch
<1>5. /\ search' \in [Chats -> 0..(Steps + 1)] /\ search'[s] = Searching!NoSearch
      /\ \A x \in Chats : x # s => search'[x] = search[x]
  BY <1>1, <1>4
<1>. QED
  BY <1>1, <1>2, <1>3, <1>5, ChatStep

LEMMA ScheduledStep == ASSUME SearchInv, NEW s \in Chats, Searching!Scheduled(s) PROVE SearchInv'
<1>. DEFINE did == Searching!Did(s, "none")
            v == [client[s].read EXCEPT ![s] = client[s].visit]
<1>1. /\ client[s].phase = "writing"
      /\ Searching!Put(v, s) /\ Searching!Become(s, did) /\ UNCHANGED <<search, loop>>
  BY DEF Searching!Scheduled
<1>2. client[s] \in Searchers
  BY DEF SearchInv, SearchTyped
<1>3. v \in [Chats -> Visits] /\ v[s] = client[s].visit
  BY <1>2 DEF Searchers
<1>4. /\ did \in Searchers /\ did.phase \in {"idle", "asking"} /\ did.visit = Searching!NoVisit
  BY DidPart
<1>. HIDE DEF did, v
<1>5. Settled(did)
  BY <1>4 DEF Settled
<1>6. /\ client' \in [Chats -> Searchers] /\ client'[s] = did
      /\ \A x \in Chats : x # s => client'[x] = client[x]
      /\ \A x \in Chats : Settled(client'[x])
  BY <1>1, <1>4, <1>5, ChatGoesOn
<1>7. /\ pending' \in [Chats -> Visits] /\ stalled' \subseteq Chats
      /\ \A x \in Chats : x # s /\ x \notin stalled' =>
           x \notin stalled /\ (pending[x].kind = "search" => pending'[x].kind = "search")
      /\ s \notin stalled' => \/ pending'[s].kind = "search"
                              \/ s \notin stalled /\ pending[s].kind # "search"
  BY <1>1, <1>3, PutStalls
<1>8. SearchTyped' /\ Located(loop')
  BY <1>1, <1>6, <1>7 DEF SearchInv, SearchTyped
<1>9. pending' = v
  BY <1>1 DEF Searching!Put
<1>10. SearchesGoOn'
  BY <1>1, <1>3, <1>6, <1>7, <1>9 DEF SearchInv, SearchesGoOn, Making
<1>. QED
  BY <1>6, <1>8, <1>10 DEF SearchInv

-----------------------------------------------------------------------------
(* Steps of the loop *)

\* A step of the loop that writes no visits: what it no longer makes is settled.
LEMMA LoopKeeps ==
    ASSUME SearchInv, loop' \in Loops, Located(loop'),
           search' \in [Chats -> 0..(Steps + 1)], stalled' \subseteq Chats,
           stalled \subseteq stalled',
           UNCHANGED <<pending, client>>,
           \A x \in Chats :
             search'[x] # Searching!NoSearch /\ x \notin stalled' =>
               \/ pending[x].kind = "search"
               \/ Making(loop', client[x], x)
               \/ search[x] # Searching!NoSearch /\ ~Making(loop, client[x], x)
    PROVE  SearchInv'
<1>1. SearchTyped'
  BY DEF SearchInv, SearchTyped
<1>2. SearchesGoOn'
  BY DEF SearchInv, SearchesGoOn
<1>. QED
  BY <1>1, <1>2 DEF SearchInv

\* The loop is with no search, before and after.
LEMMA LoopElsewhere ==
    ASSUME SearchInv, loop' \in Loops, Located(loop'),
           loop.phase \notin {"looking", "searching", "scheduling", "writing", "finishing"},
           UNCHANGED <<pending, search, client, stalled>>
    PROVE  SearchInv'
<1>1. search \in [Chats -> 0..(Steps + 1)] /\ stalled \subseteq Chats
  BY DEF SearchInv, SearchTyped
<1>2. \A x \in Chats : Making(loop, client[x], x) => Making(loop', client[x], x)
  BY DEF Making
<1>. QED
  BY <1>1, <1>2, LoopKeeps DEF SearchInv, SearchesGoOn

LEMMA LoopIs == ASSUME SearchInv
                PROVE  loop \in Loops /\ Located(loop) /\ pending \in [Chats -> Visits]
BY DEF SearchInv, SearchTyped

LEMMA AwayFromChats ==
    ASSUME NEW l, l.phase \in {"idle", "choosing"}
    PROVE  Located(l)
BY DEF Located

LEMMA BeginStep == ASSUME SearchInv, Searching!Begin PROVE SearchInv'
<1>. DEFINE todo == [s \in Chats |-> IF pending[s].ripe THEN pending[s] ELSE Searching!NoVisit]
<1>1. /\ loop.phase = "idle"
      /\ loop' = [Searching!Rest EXCEPT !.phase = "choosing", !.todo = todo]
      /\ UNCHANGED <<pending, search, client, stalled>>
  BY DEF Searching!Begin
<1>2. todo \in [Chats -> Visits]
  BY LoopIs, VisitsMade
<1>. HIDE DEF todo
<1>3. loop' \in Loops /\ loop'.phase = "choosing"
  <2>1. Searching!Rest \in Loops
    BY FreeAndRest
  <2>. QED
    BY <1>1, <1>2, <2>1 DEF Loops
<1>4. Located(loop')
  BY <1>3, AwayFromChats
<1>. QED
  BY <1>1, <1>3, <1>4, LoopElsewhere

LEMMA ChooseStep == ASSUME SearchInv, NEW s \in Chats, Searching!Choose(s) PROVE SearchInv'
<1>. DEFINE p == IF loop.todo[s].kind = "search" THEN "taking" ELSE "visiting"
            r == IF loop.todo[s].kind = "search" THEN pending ELSE Searching!None
            todo == [loop.todo EXCEPT ![s] = Searching!NoVisit]
<1>1. /\ loop.phase = "choosing"
      /\ loop' = [loop EXCEPT !.phase = p, !.todo = todo, !.scope = s, !.read = r]
      /\ UNCHANGED <<pending, search, client, stalled>>
  BY DEF Searching!Choose
<1>2. p \in {"taking", "visiting"} /\ r \in [Chats -> Visits]
  BY LoopIs, VisitsMade
<1>3. loop.todo \in [Chats -> Visits]
  BY LoopIs DEF Loops
<1>4. todo \in [Chats -> Visits]
  BY <1>3, VisitsMade
<1>. HIDE DEF p, r, todo
<1>5. loop' \in Loops /\ loop'.phase = p /\ loop'.scope = s
  BY <1>1, <1>2, <1>4, LoopIs DEF Loops
<1>6. Located(loop')
  BY <1>2, <1>5 DEF Located
<1>. QED
  BY <1>1, <1>5, <1>6, LoopElsewhere

LEMMA SkipStep == ASSUME SearchInv, NEW s \in Chats, Searching!Skip(s) PROVE SearchInv'
<1>. DEFINE todo == [loop.todo EXCEPT ![s] = Searching!NoVisit]
            l == [loop EXCEPT !.todo = todo]
<1>1. /\ loop.phase = "choosing"
      /\ loop' = Searching!Onward(l)
      /\ UNCHANGED <<pending, search, client, stalled>>
  BY DEF Searching!Skip
<1>2. loop.todo \in [Chats -> Visits]
  BY LoopIs DEF Loops
<1>3. todo \in [Chats -> Visits]
  BY <1>2, VisitsMade
<1>. HIDE DEF todo
<1>4. l \in Loops
  BY <1>3, LoopIs DEF Loops
<1>. HIDE DEF l
<1>5. loop' \in Loops /\ loop'.phase \in {"idle", "choosing"}
  BY <1>1, <1>4, OnwardGoes
<1>. QED
  BY <1>1, <1>5, AwayFromChats, LoopElsewhere

\* The steps that end a visit without a search.
LEMMA RestStep ==
    ASSUME SearchInv, Searching!Report \/ Searching!Visited \/ Searching!Abort
    PROVE  SearchInv'
<1>1. /\ loop.phase \in {"choosing", "reporting", "visiting"}
      /\ UNCHANGED <<pending, search, client, stalled>>
  BY DEF Searching!Report, Searching!Visited, Searching!Abort
<1>2. loop' \in Loops /\ Located(loop')
  <2>1. CASE Searching!Report
    <3>1. loop' \in Loops /\ loop'.phase \in {"idle", "choosing"}
      BY <2>1, LoopIs, OnwardGoes DEF Searching!Report, Searching!After
    <3>. QED
      BY <3>1, AwayFromChats
  <2>2. CASE Searching!Visited
    <3>1. loop.phase = "visiting" /\ loop' = [loop EXCEPT !.phase = "clearing", !.read = pending]
      BY <2>2 DEF Searching!Visited
    <3>2. loop' \in Loops /\ loop'.phase = "clearing" /\ loop'.scope = loop.scope
      BY <3>1, LoopIs DEF Loops
    <3>. QED
      BY <3>1, <3>2, LoopIs DEF Located
  <2>3. CASE Searching!Abort
    BY <2>3, FreeAndRest, AwayFromChats DEF Searching!Abort
  <2>. QED
    BY <2>1, <2>2, <2>3
<1>. QED
  BY <1>1, <1>2, LoopElsewhere

\* A visit of the chat is taken; its search, if it goes on, is looked at next.
LEMMA TakeStep == ASSUME SearchInv, Searching!Take PROVE SearchInv'
<1>. DEFINE s == loop.scope
            v == [loop.read EXCEPT ![s] = Searching!NoVisit]
<1>1. /\ loop.phase = "taking"
      /\ \/ UNCHANGED <<pending, stalled>>
         \/ pending' = v /\ stalled' = stalled \cup Searching!Undone(v, s)
      /\ loop' = [loop EXCEPT !.phase = "looking", !.read = Searching!None]
      /\ UNCHANGED <<search, client>>
  BY DEF Searching!Take
<1>2. s \in Chats
  BY <1>1, LoopIs DEF Located
<1>3. v \in [Chats -> Visits]
  BY <1>2, LoopIs, VisitsMade DEF Loops
<1>4. loop' \in Loops /\ loop'.phase = "looking" /\ loop'.scope = s
  BY <1>1, LoopIs, VisitsMade DEF Loops
<1>5. Located(loop')
  BY <1>2, <1>4 DEF Located
<1>. HIDE DEF v, s
<1>6. pending' \in [Chats -> Visits] /\ stalled' \subseteq Chats
  BY <1>1, <1>3 DEF SearchInv, SearchTyped, Searching!Undone
<1>7. SearchTyped'
  BY <1>1, <1>4, <1>6 DEF SearchInv, SearchTyped
<1>8. \A x \in Chats : x # s /\ x \notin stalled' =>
        x \notin stalled /\ (pending[x].kind = "search" => pending'[x].kind = "search")
  BY <1>1 DEF Searching!Undone
<1>9. Making(loop', client'[s], s)
  BY <1>4 DEF Making
<1>10. \A x \in Chats : Making(loop, client[x], x) => Making(loop', client'[x], x)
  BY <1>1 DEF Making
<1>11. SearchesGoOn'
  BY <1>1, <1>2, <1>8, <1>9, <1>10 DEF SearchInv, SearchesGoOn
<1>. QED
  BY <1>1, <1>5, <1>7, <1>11 DEF SearchInv

\* A container visit is over; a search visit it takes along is stalled.
LEMMA ClearVisitStep == ASSUME SearchInv, Searching!Clear PROVE SearchInv'
<1>. DEFINE s == loop.scope
            v == [loop.read EXCEPT ![s] = Searching!NoVisit]
<1>1. /\ loop.phase = "clearing"
      /\ UNCHANGED <<pending, stalled>> \/ Searching!Put(v, s)
      /\ loop' = Searching!Onward(loop)
      /\ UNCHANGED <<search, client>>
  BY DEF Searching!Clear, Searching!After
<1>2. s \in Chats
  BY <1>1, LoopIs DEF Located
<1>3. v \in [Chats -> Visits]
  BY <1>2, LoopIs, VisitsMade DEF Loops
<1>4. loop' \in Loops /\ Located(loop')
  BY <1>1, LoopIs, OnwardGoes, AwayFromChats
<1>. HIDE DEF v, s
<1>5. CASE UNCHANGED <<pending, stalled>>
  BY <1>1, <1>4, <1>5, LoopElsewhere
<1>6. CASE Searching!Put(v, s)
  <2>1. /\ pending' \in [Chats -> Visits] /\ stalled' \subseteq Chats
        /\ \A x \in Chats : x # s /\ x \notin stalled' =>
             x \notin stalled /\ (pending[x].kind = "search" => pending'[x].kind = "search")
        /\ s \notin stalled' => \/ pending'[s].kind = "search"
                                \/ s \notin stalled /\ pending[s].kind # "search"
    BY <1>2, <1>3, <1>6, PutStalls
  <2>2. SearchTyped'
    BY <1>1, <1>4, <2>1 DEF SearchInv, SearchTyped
  <2>3. \A x \in Chats : Making(loop, client[x], x) => Making(loop', client'[x], x)
    BY <1>1 DEF Making
  <2>4. SearchesGoOn'
    BY <1>1, <2>1, <2>3 DEF SearchInv, SearchesGoOn
  <2>. QED
    BY <1>1, <1>4, <2>2, <2>4 DEF SearchInv
<1>. QED
  BY <1>1, <1>5, <1>6

\* A look ends the search, or leaves it without a visit: then it is stalled.
LEMMA LookEndsStep ==
    ASSUME SearchInv,
           Searching!LookForNothing \/ Searching!LookTooLate \/ Searching!LookPaused
    PROVE  SearchInv'
<1>1. /\ loop.phase = "looking" /\ loop' = Searching!Onward(loop)
      /\ UNCHANGED <<pending, client>>
  BY DEF Searching!LookForNothing, Searching!LookTooLate, Searching!LookPaused, Searching!After
<1>2. loop.scope \in Chats
  BY <1>1, LoopIs DEF Located
<1>3. loop' \in Loops /\ Located(loop')
  BY <1>1, LoopIs, OnwardGoes, AwayFromChats
<1>4. search \in [Chats -> 0..(Steps + 1)] /\ Searching!NoSearch \in 0..(Steps + 1)
      /\ stalled \subseteq Chats
  BY StepsAreNat DEF SearchInv, SearchTyped, Searching!NoSearch
<1>5. /\ search' \in [Chats -> 0..(Steps + 1)] /\ stalled' \subseteq Chats
      /\ stalled \subseteq stalled'
      /\ \A x \in Chats : x # loop.scope => search'[x] = search[x]
      /\ \/ search'[loop.scope] = Searching!NoSearch
         \/ pending[loop.scope].kind = "search" \/ loop.scope \in stalled'
  BY <1>2, <1>4
     DEF Searching!LookForNothing, Searching!LookTooLate, Searching!LookPaused, Searching!Stays
<1>6. \A x \in Chats : x # loop.scope =>
        (Making(loop, client[x], x) => Making(loop', client[x], x))
  BY DEF Making
<1>. QED
  BY <1>1, <1>3, <1>5, <1>6, LoopKeeps DEF SearchInv, SearchesGoOn

LEMMA LookOnStep == ASSUME SearchInv, Searching!Look PROVE SearchInv'
<1>1. /\ loop.phase = "looking" /\ search[loop.scope] # Searching!NoSearch
      /\ loop' = IF search[loop.scope] = Steps THEN [loop EXCEPT !.phase = "finishing"]
                 ELSE [loop EXCEPT !.phase = "searching", !.at = search[loop.scope]]
      /\ UNCHANGED <<pending, search, client, stalled>>
  BY DEF Searching!Look
<1>2. loop.scope \in Chats
  BY <1>1, LoopIs DEF Located
<1>3. search \in [Chats -> 0..(Steps + 1)] /\ stalled \subseteq Chats
  BY DEF SearchInv, SearchTyped
<1>4. search[loop.scope] # Steps => search[loop.scope] \in 0..Steps /\ search[loop.scope] < Steps
  BY <1>1, <1>2, <1>3, StepsAreNat DEF Searching!NoSearch
<1>5. /\ loop' \in Loops /\ loop'.scope = loop.scope
      /\ loop'.phase \in {"finishing", "searching"}
      /\ loop'.phase = "searching" => loop'.at < Steps
  <2>1. CASE search[loop.scope] = Steps
    BY <1>1, <2>1, LoopIs DEF Loops
  <2>2. CASE search[loop.scope] # Steps
    BY <1>1, <1>4, <2>2, LoopIs DEF Loops
  <2>. QED
    BY <2>1, <2>2
<1>6. Located(loop')
  BY <1>2, <1>5 DEF Located
<1>7. \A x \in Chats : Making(loop, client[x], x) => Making(loop', client[x], x)
  BY <1>1, <1>5 DEF Making
<1>. QED
  BY <1>1, <1>3, <1>5, <1>6, <1>7, LoopKeeps DEF SearchInv, SearchesGoOn

\* A search ends.
LEMMA SearchEndsStep ==
    ASSUME SearchInv, Searching!Found \/ Searching!GiveUp
    PROVE  SearchInv'
<1>1. /\ loop.phase \in {"searching", "finishing"}
      /\ search' = [search EXCEPT ![loop.scope] = Searching!NoSearch]
      /\ loop' = [loop EXCEPT !.phase = "reporting"]
      /\ UNCHANGED <<pending, client, stalled>>
  BY DEF Searching!Found, Searching!GiveUp
<1>2. loop.scope \in Chats
  BY <1>1, LoopIs DEF Located
<1>3. search \in [Chats -> 0..(Steps + 1)] /\ Searching!NoSearch \in 0..(Steps + 1)
      /\ stalled \subseteq Chats
  BY StepsAreNat DEF SearchInv, SearchTyped, Searching!NoSearch
<1>4. loop' \in Loops /\ loop'.phase = "reporting" /\ loop'.scope = loop.scope
  BY <1>1, LoopIs DEF Loops
<1>5. Located(loop')
  BY <1>2, <1>4 DEF Located
<1>6. /\ search' \in [Chats -> 0..(Steps + 1)] /\ search'[loop.scope] = Searching!NoSearch
      /\ \A x \in Chats : x # loop.scope => search'[x] = search[x]
  BY <1>1, <1>2, <1>3
<1>7. \A x \in Chats : x # loop.scope =>
        (Making(loop, client[x], x) => Making(loop', client[x], x))
  BY DEF Making
<1>. QED
  BY <1>1, <1>3, <1>4, <1>5, <1>6, <1>7, LoopKeeps DEF SearchInv, SearchesGoOn

LEMMA MissStep == ASSUME SearchInv, Searching!Miss PROVE SearchInv'
<1>. DEFINE p == IF loop.at + 1 < Steps THEN "scheduling" ELSE "finishing"
<1>1. /\ loop.phase = "searching"
      /\ search' = [search EXCEPT ![loop.scope] = loop.at + 1]
      /\ loop' = [loop EXCEPT !.phase = p, !.at = loop.at + 1]
      /\ UNCHANGED <<pending, client, stalled>>
  BY DEF Searching!Miss
<1>2. loop.scope \in Chats /\ loop.at < Steps /\ loop.at \in 0..Steps
  BY <1>1, LoopIs DEF Located, Loops
<1>3. search \in [Chats -> 0..(Steps + 1)] /\ stalled \subseteq Chats
  BY DEF SearchInv, SearchTyped
<1>4. loop.at + 1 \in 0..Steps /\ loop.at + 1 \in 0..(Steps + 1)
  BY <1>2, StepsAreNat
<1>5. p \in {"scheduling", "finishing"}
  OBVIOUS
<1>. HIDE DEF p
<1>6. loop' \in Loops /\ loop'.phase = p /\ loop'.scope = loop.scope
  BY <1>1, <1>4, <1>5, LoopIs DEF Loops
<1>7. Located(loop')
  BY <1>2, <1>5, <1>6 DEF Located
<1>8. /\ search' \in [Chats -> 0..(Steps + 1)]
      /\ \A x \in Chats : x # loop.scope => search'[x] = search[x]
  BY <1>1, <1>2, <1>3, <1>4
<1>9. \A x \in Chats : Making(loop, client[x], x) => Making(loop', client[x], x)
  BY <1>5, <1>6 DEF Making
<1>10. Making(loop', client[loop.scope], loop.scope)
  BY <1>5, <1>6 DEF Making
<1>. QED
  BY <1>1, <1>3, <1>6, <1>7, <1>8, <1>9, <1>10, LoopKeeps DEF SearchInv, SearchesGoOn

LEMMA LoopScheduleStep == ASSUME SearchInv, Searching!LoopSchedule PROVE SearchInv'
<1>1. /\ loop.phase = "scheduling"
      /\ loop' = [loop EXCEPT !.phase = "writing", !.read = pending]
      /\ UNCHANGED <<pending, search, client, stalled>>
  BY DEF Searching!LoopSchedule
<1>2. loop' \in Loops /\ loop'.phase = "writing" /\ loop'.scope = loop.scope
  BY <1>1, LoopIs DEF Loops
<1>3. Located(loop')
  BY <1>1, <1>2, LoopIs DEF Located
<1>4. \A x \in Chats : Making(loop, client[x], x) => Making(loop', client[x], x)
  BY <1>2 DEF Making
<1>5. search \in [Chats -> 0..(Steps + 1)] /\ stalled \subseteq Chats
  BY DEF SearchInv, SearchTyped
<1>. QED
  BY <1>1, <1>2, <1>3, <1>4, <1>5, LoopKeeps DEF SearchInv, SearchesGoOn

LEMMA LoopScheduledStep == ASSUME SearchInv, Searching!LoopScheduled PROVE SearchInv'
<1>. DEFINE s == loop.scope
            v == [loop.read EXCEPT ![s] = Searching!Visit("search", loop.at)]
<1>1. /\ loop.phase = "writing"
      /\ Searching!Put(v, s)
      /\ loop' = Searching!Onward(loop)
      /\ UNCHANGED <<search, client>>
  BY DEF Searching!LoopScheduled, Searching!After
<1>2. s \in Chats /\ loop.at \in 0..Steps
  BY <1>1, LoopIs DEF Located, Loops
<1>3. v \in [Chats -> Visits] /\ v[s].kind = "search"
  BY <1>2, LoopIs, VisitsMade DEF Loops
<1>4. loop' \in Loops /\ Located(loop')
  BY <1>1, LoopIs, OnwardGoes, AwayFromChats
<1>. HIDE DEF v
<1>5. /\ pending' \in [Chats -> Visits] /\ stalled' \subseteq Chats
      /\ \A x \in Chats : x # s /\ x \notin stalled' =>
           x \notin stalled /\ (pending[x].kind = "search" => pending'[x].kind = "search")
  BY <1>1, <1>2, <1>3, PutStalls
<1>6. pending'[s].kind = "search"
  BY <1>1, <1>3 DEF Searching!Put
<1>7. SearchTyped'
  BY <1>1, <1>4, <1>5 DEF SearchInv, SearchTyped
<1>8. \A x \in Chats : x # s => (Making(loop, client[x], x) => Making(loop', client'[x], x))
  BY <1>1 DEF Making
<1>9. SearchesGoOn'
  BY <1>1, <1>5, <1>6, <1>8 DEF SearchInv, SearchesGoOn
<1>. QED
  BY <1>1, <1>4, <1>7, <1>9 DEF SearchInv

-----------------------------------------------------------------------------
(* Time, and the end of the process *)

LEMMA RipenStep == ASSUME SearchInv, NEW s \in Chats, Searching!Ripen(s) PROVE SearchInv'
<1>1. /\ pending' = [pending EXCEPT ![s].ripe = TRUE]
      /\ UNCHANGED <<search, client, loop, stalled>>
  BY DEF Searching!Ripen
<1>. DEFINE v == [pending[s] EXCEPT !.ripe = TRUE]
<1>2. pending \in [Chats -> Visits] /\ pending[s] \in Visits
  BY LoopIs
<1>3. v \in Visits /\ v.kind = pending[s].kind
  BY <1>2 DEF Visits, Searching!Visits
<1>4. pending' = [pending EXCEPT ![s] = v]
  BY <1>1
<1>. HIDE DEF v
<1>5. /\ pending' \in [Chats -> Visits]
      /\ \A x \in Chats : pending'[x].kind = pending[x].kind
  BY <1>2, <1>3, <1>4
<1>6. SearchTyped'
  BY <1>1, <1>5 DEF SearchInv, SearchTyped
<1>7. SearchesGoOn'
  BY <1>1, <1>5 DEF SearchInv, SearchesGoOn
<1>. QED
  BY <1>1, <1>6, <1>7 DEF SearchInv

LEMMA StopStep == ASSUME SearchInv, Searching!Restart PROVE SearchInv'
<1>1. /\ stalled' = stalled \cup {s \in Chats : /\ search[s] # Searching!NoSearch
                                                /\ pending[s].kind # "search"}
      /\ client' = [s \in Chats |-> Searching!Free]
      /\ loop' = Searching!Rest
      /\ UNCHANGED <<pending, search>>
  BY DEF Searching!Restart
<1>2. SearchTyped'
  BY <1>1, FreeAndRest DEF SearchInv, SearchTyped
<1>3. Located(loop')
  BY <1>1, FreeAndRest, AwayFromChats
<1>4. SearchesGoOn'
  BY <1>1 DEF SearchesGoOn
<1>5. \A s \in Chats : Settled(client'[s])
  BY <1>1, FreeAndRest DEF Settled
<1>. QED
  BY <1>2, <1>3, <1>4, <1>5 DEF SearchInv

LEMMA StutterSearch ==
    SearchInv /\ UNCHANGED <<pending, search, client, loop, stalled>> => SearchInv'
BY DEF SearchInv, SearchTyped, SearchesGoOn

LEMMA NextSearches == ASSUME SearchInv, [Next]_vars PROVE SearchInv'
<1>1. CASE NextSearch
  <2>1. CASE \E s \in Chats :
               \/ Searching!Ripen(s)
               \/ \E wants \in SUBSET {"container", "where", "cancel"} \ {{}} :
                    Searching!Message(s, wants)
               \/ \E c \in 0..(Steps - 1) : Searching!AskContainer(s, c)
               \/ Searching!AskWhere(s) \/ Searching!Start(s) \/ Searching!Schedule(s)
               \/ Searching!Scheduled(s) \/ Searching!Cancel(s)
    BY <2>1, RipenStep, MessageStep, AskContainerStep, AskWhereStep, StartStep, ScheduleStep,
       ScheduledStep, CancelStep
  <2>2. CASE Searching!LoopStep
    BY <2>2, BeginStep, TakeStep, LookEndsStep, LookOnStep, SearchEndsStep, MissStep,
       LoopScheduleStep, LoopScheduledStep, RestStep, ClearVisitStep, ChooseStep, SkipStep
       DEF Searching!LoopStep
  <2>3. CASE Searching!Abort \/ Searching!Restart
    BY <2>3, RestStep, StopStep
  <2>. QED
    BY <1>1, <2>1, <2>2, <2>3 DEF NextSearch, Searching!Next
<1>2. CASE ~NextSearch
  <2>1. UNCHANGED <<pending, search, client, loop, stalled>>
    BY <1>2 DEF Next, NextAppointments, NextSharing, NextSleep, NextPool, vars, searchVars
  <2>. QED
    BY <2>1, StutterSearch
<1>. QED
  BY <1>1, <1>2

LEMMA SearchMeans == SearchInv => Searching!SearchHasVisit
BY DEF SearchInv, SearchesGoOn, Making, Searching!SearchHasVisit, Searching!Underway

ReasonsSent == Reasons \cup {Generic}
Sharer == [phase : {"idle", "composing", "marking", "recording"}, scope : Scopes,
           reason : ReasonsSent, now : Nat, read : Shares!Records]
Talker == [phase : {"silent", "talking"}, reason : ReasonsSent, read : Shares!Records]
Message == [scope : Scopes, reason : ReasonsSent, now : Nat]

\* Of the first k messages of a log l: those of the day, and of the week, of t.
DayOf(l, k, t) == {j \in 1..k : Shares!Day(l[j].now) = Shares!Day(t)}
WeekOf(l, k, t) == {j \in 1..k : Shares!Week(l[j].now) = Shares!Week(t)}

\* After the first k messages the limits allow one to the chat s at t.
MaySend(l, k, s, t) ==
    /\ \A j \in 1..k : t - l[j].now >= Cooldown
    /\ Cardinality(DayOf(l, k, t)) < DailyCap[s]
    /\ Cardinality(WeekOf(l, k, t)) < PerWeek

\* None of the first k messages used the reason r on the day of t.
Unused(l, k, r, t) == \A j \in 1..k : Shares!Day(l[j].now) = Shares!Day(t) => l[j].reason # r

\* The record st counts the first k messages.
Counts(st, l, k) ==
    /\ st.daily = k /\ st.weekly = k
    /\ k > 0 => /\ st.last = l[k].now
                /\ st.day = Shares!Day(l[k].now) /\ st.week = Shares!Week(l[k].now)

\* The reasons m on its day cover the first k messages.
Covers(m, l, k) ==
    \A i \in 1..k : /\ Shares!Day(l[i].now) <= m.day
                    /\ Shares!Day(l[i].now) = m.day => l[i].reason \in m.reasons

\* The messages that are recorded, and whose reasons are marked; f is what the
\* drivers are doing.
Recorded(f, l) ==
    IF \E d \in Drivers : f[d].phase \in {"marking", "recording"} THEN Len(l) - 1 ELSE Len(l)
Marked(f, l) == IF \E d \in Drivers : f[d].phase = "marking" THEN Len(l) - 1 ELSE Len(l)

-----------------------------------------------------------------------------
(* The invariant *)

ShareTyped ==
    /\ clock \in Nat
    /\ state \in Shares!Records
    /\ sent \in [day : Int, reasons : SUBSET ReasonsSent]
    /\ driver \in [Drivers -> Sharer]
    /\ talker \in [Talkers -> Talker]
    /\ log \in Seq(Message)
    /\ slipped \in BOOLEAN /\ doubled \in BOOLEAN

\* Nothing is of the future.
Past ==
    /\ \A i \in 1..Len(log) : log[i].now <= clock
    /\ \A d \in Drivers : driver[d].now <= clock
    /\ sent.day <= Shares!Day(clock)

\* One driver works at a time, and on a message later than those of the log.
InTurn ==
    ~doubled =>
      /\ \A d, e \in Drivers : driver[d].phase # "idle" /\ driver[e].phase # "idle" => d = e
      /\ \A i, j \in 1..Len(log) : i <= j => log[i].now <= log[j].now
      /\ \A d \in Drivers : driver[d].phase # "idle" =>
           /\ \A i \in 1..Len(log) : log[i].now <= driver[d].now
           /\ sent.day <= Shares!Day(driver[d].now)
      /\ \A d \in Drivers : driver[d].phase \in {"marking", "recording"} =>
           /\ Len(log) > 0
           /\ log[Len(log)].now = driver[d].now /\ log[Len(log)].reason = driver[d].reason

Counted ==
    ~slipped /\ ~doubled =>
      /\ Counts(state, log, Recorded(driver, log))
      /\ \A d \in Drivers :
           driver[d].phase = "recording" => Counts(driver[d].read, log, Len(log) - 1)

Paced ==
    ~slipped /\ ~doubled =>
      /\ \A i \in 1..Len(log) : MaySend(log, i - 1, log[i].scope, log[i].now)
      /\ \A d \in Drivers : driver[d].phase = "composing" =>
           MaySend(log, Len(log), driver[d].scope, driver[d].now)

Varied ==
    ~doubled =>
      /\ Covers(sent, log, Marked(driver, log))
      /\ \A i \in 1..Len(log) : Unused(log, i - 1, log[i].reason, log[i].now)
      /\ \A d \in Drivers : driver[d].phase = "composing" =>
           Unused(log, Len(log), driver[d].reason, driver[d].now)

ShareInv == ShareTyped /\ Past /\ InTurn /\ Counted /\ Paced /\ Varied

-----------------------------------------------------------------------------
(* Lemmas *)

LEMMA Limits ==
    /\ DayLength \in Nat \ {0} /\ WeekLength \in Nat \ {0} /\ PerWeek \in Nat \ {0}
    /\ KeptReasons \in Nat \ {0} /\ Cooldown \in Nat
    /\ Scopes # {} /\ DailyCap \in [Scopes -> Nat \ {0}]
BY ConstantsAssumption DEF Shares!SharingAssumption

LEMMA SameCardinalityShares == \A S : Shares!Cardinality(S) = Cardinality(S)
BY DEF Shares!Cardinality, Cardinality

LEMMA Division == ASSUME NEW n \in Nat \ {0}, NEW a \in Nat, NEW b \in Nat, a <= b
                  PROVE  a \div n \in Nat /\ a \div n <= b \div n
OBVIOUS

\* Later times are of later days and weeks.
LEMMA DaysInOrder ==
    \A a, b \in Nat : /\ Shares!Day(a) \in Nat /\ Shares!Week(a) \in Nat
                      /\ a <= b => /\ Shares!Day(a) <= Shares!Day(b)
                                   /\ Shares!Week(a) <= Shares!Week(b)
<1>. SUFFICES ASSUME NEW a \in Nat, NEW b \in Nat
              PROVE  /\ Shares!Day(a) \in Nat /\ Shares!Week(a) \in Nat
                     /\ a <= b => /\ Shares!Day(a) <= Shares!Day(b)
                                  /\ Shares!Week(a) <= Shares!Week(b)
  OBVIOUS
<1>1. \A x \in Nat : x \div DayLength \in Nat /\ x \div WeekLength \in Nat
  BY Limits, Division
<1>2. a <= b => a \div DayLength <= b \div DayLength
  BY Limits, Division
<1>. DEFINE p == a \div DayLength
            q == b \div DayLength
<1>3. p \in Nat /\ q \in Nat
  BY <1>1
<1>. HIDE DEF p, q
<1>4. p <= q => p \div WeekLength <= q \div WeekLength
  BY <1>3, Limits, Division
<1>. QED
  BY <1>1, <1>2, <1>3, <1>4 DEF Shares!Day, Shares!Week, p, q

\* Of the first messages, at most as many are of a day.
LEMMA OfOneDay ==
    ASSUME NEW l, NEW k \in Nat, NEW t
    PROVE  /\ Cardinality(DayOf(l, k, t)) \in Nat /\ Cardinality(DayOf(l, k, t)) <= k
           /\ Cardinality(WeekOf(l, k, t)) \in Nat /\ Cardinality(WeekOf(l, k, t)) <= k
<1>1. IsFiniteSet(1..k) /\ Cardinality(1..k) = k
  BY FS_Interval
<1>2. DayOf(l, k, t) \subseteq 1..k /\ WeekOf(l, k, t) \subseteq 1..k
  BY DEF DayOf, WeekOf
<1>. QED
  BY <1>1, <1>2, FS_Subset, FS_CardinalityType

LEMMA MessagesOfLog ==
    ASSUME NEW l \in Seq(Message)
    PROVE  /\ Len(l) \in Nat
           /\ \A i \in 1..Len(l) : l[i] \in Message /\ l[i].now \in Nat
<1>1. \A i \in 1..Len(l) : l[i] \in Message
  BY ElementOfSeq
<1>. QED
  BY <1>1, LenProperties DEF Message

\* _eligible allows what the limits allow.
LEMMA EligibleMaySend ==
    ASSUME NEW l \in Seq(Message), NEW st \in Shares!Records, NEW t \in Nat, NEW s \in Scopes,
           Counts(st, l, Len(l)),
           \A i, j \in 1..Len(l) : i <= j => l[i].now <= l[j].now,
           \A i \in 1..Len(l) : l[i].now <= t,
           Shares!Eligible(s, st, t)
    PROVE  MaySend(l, Len(l), s, t)
<1>. DEFINE k == Len(l)
<1>1. k \in Nat /\ \A i \in 1..k : l[i] \in Message /\ l[i].now \in Nat
  BY MessagesOfLog
<1>2. /\ DailyCap[s] \in Nat /\ DailyCap[s] > 0 /\ PerWeek \in Nat /\ PerWeek > 0 /\ Cooldown \in Nat
  BY Limits
<1>. HIDE DEF k
<1>3. ASSUME k = 0 PROVE MaySend(l, k, s, t)
  <2>1. DayOf(l, k, t) = {} /\ WeekOf(l, k, t) = {} /\ 1..k = {}
    BY <1>3 DEF DayOf, WeekOf
  <2>2. Cardinality(DayOf(l, k, t)) = 0 /\ Cardinality(WeekOf(l, k, t)) = 0
    BY <2>1, FS_EmptySet
  <2>. QED
    BY <1>2, <2>1, <2>2 DEF MaySend
<1>4. ASSUME k > 0 PROVE MaySend(l, k, s, t)
  <2>. DEFINE last == l[k].now
  <2>1. k \in 1..k /\ last \in Nat /\ last <= t
    BY <1>1, <1>4 DEF k
  <2>2. st.daily = k /\ st.weekly = k /\ st.last = last
        /\ st.day = Shares!Day(last) /\ st.week = Shares!Week(last)
    BY <1>4 DEF Counts, k
  <2>3. \A j \in 1..k : l[j].now <= last
    BY <1>1, <2>1 DEF k
  <2>. HIDE DEF last
  <2>4. \A j \in 1..k : t - l[j].now >= Cooldown
    <3>1. t - last >= Cooldown
      BY <2>1, <2>2 DEF Shares!Eligible, Shares!Never
    <3>. QED
      BY <1>1, <1>2, <2>1, <2>3, <3>1
  <2>5. Cardinality(DayOf(l, k, t)) < DailyCap[s]
    <3>1. CASE Shares!Day(last) = Shares!Day(t)
      <4>1. ~(k >= DailyCap[s])
        BY <2>2, <3>1 DEF Shares!Eligible
      <4>. QED
        BY <1>1, <1>2, <4>1, OfOneDay
    <3>2. CASE Shares!Day(last) # Shares!Day(t)
      <4>1. ASSUME NEW j \in 1..k PROVE Shares!Day(l[j].now) # Shares!Day(t)
        <5>1. /\ Shares!Day(l[j].now) <= Shares!Day(last) /\ Shares!Day(last) <= Shares!Day(t)
              /\ Shares!Day(l[j].now) \in Nat /\ Shares!Day(last) \in Nat /\ Shares!Day(t) \in Nat
          BY <1>1, <2>1, <2>3, DaysInOrder
        <5>. QED
          BY <3>2, <5>1
      <4>2. DayOf(l, k, t) = {}
        BY <4>1 DEF DayOf
      <4>. QED
        BY <1>2, <4>2, FS_EmptySet
    <3>. QED
      BY <3>1, <3>2
  <2>6. Cardinality(WeekOf(l, k, t)) < PerWeek
    <3>1. CASE Shares!Week(last) = Shares!Week(t)
      <4>1. ~(k >= PerWeek)
        BY <2>2, <3>1 DEF Shares!Eligible
      <4>. QED
        BY <1>1, <1>2, <4>1, OfOneDay
    <3>2. CASE Shares!Week(last) # Shares!Week(t)
      <4>1. ASSUME NEW j \in 1..k PROVE Shares!Week(l[j].now) # Shares!Week(t)
        <5>1. /\ Shares!Week(l[j].now) <= Shares!Week(last) /\ Shares!Week(last) <= Shares!Week(t)
              /\ Shares!Week(l[j].now) \in Nat /\ Shares!Week(last) \in Nat /\ Shares!Week(t) \in Nat
          BY <1>1, <2>1, <2>3, DaysInOrder
        <5>. QED
          BY <3>2, <5>1
      <4>2. WeekOf(l, k, t) = {}
        BY <4>1 DEF WeekOf
      <4>. QED
        BY <1>2, <4>2, FS_EmptySet
    <3>. QED
      BY <3>1, <3>2
  <2>. QED
    BY <2>4, <2>5, <2>6 DEF MaySend
<1>. QED
  BY <1>1, <1>3, <1>4 DEF k

\* The first messages of two logs that begin alike are the same.
LEMMA SameBeginning ==
    ASSUME NEW l, NEW m, NEW k \in Nat, \A j \in 1..k : m[j] = l[j]
    PROVE  /\ \A s, t : MaySend(l, k, s, t) => MaySend(m, k, s, t)
           /\ \A r, t : Unused(l, k, r, t) => Unused(m, k, r, t)
           /\ \A st : Counts(st, l, k) => Counts(st, m, k)
           /\ \A st : Covers(st, l, k) => Covers(st, m, k)
<1>1. \A t : DayOf(m, k, t) = DayOf(l, k, t) /\ WeekOf(m, k, t) = WeekOf(l, k, t)
  BY DEF DayOf, WeekOf
<1>2. k > 0 => k \in 1..k
  OBVIOUS
<1>3. \A s, t : MaySend(l, k, s, t) => MaySend(m, k, s, t)
  BY <1>1 DEF MaySend
<1>4. \A st : Counts(st, l, k) => Counts(st, m, k)
  BY <1>2 DEF Counts
<1>. QED
  BY <1>3, <1>4 DEF Unused, Covers

-----------------------------------------------------------------------------
(* Lemmas about records and drivers *)

LEMMA FreshRecords ==
    /\ Shares!Fresh \in Shares!Records
    /\ Shares!Silent \in Talker /\ Shares!Silent.phase = "silent"
BY Limits DEF Shares!Fresh, Shares!Records, Shares!Never, Shares!Silent, Talker, ReasonsSent

LEMMA IdleSharer == Shares!Idle \in Sharer /\ Shares!Idle.phase = "idle" /\ Shares!Idle.now = 0
BY FreshRecords, Limits DEF Shares!Idle, Sharer, ReasonsSent

\* A conversation changes the reasons of a record and no counter.
LEMMA WithReasonKeeps ==
    ASSUME NEW st \in Shares!Records, NEW r \in Reasons
    PROVE  /\ Shares!WithReason(st, r) \in Shares!Records
           /\ \A l, k : Counts(st, l, k) => Counts(Shares!WithReason(st, r), l, k)
<1>. DEFINE all == Append(st.reasons, r)
            m == IF Len(all) > KeptReasons THEN Len(all) - KeptReasons + 1 ELSE 1
            kept == SubSeq(all, m, Len(all))
<1>1. st.reasons \in Seq(Reasons)
  BY DEF Shares!Records
<1>2. all \in Seq(Reasons) /\ Len(all) \in Nat
  BY <1>1, AppendProperties, LenProperties
<1>. HIDE DEF all
<1>3. m \in Int /\ m >= 1
  BY <1>2, Limits
<1>. HIDE DEF m
<1>4. \A i \in m..Len(all) : i \in 1..Len(all)
  BY <1>2, <1>3
<1>5. \A i \in m..Len(all) : all[i] \in Reasons
  BY <1>2, <1>4, ElementOfSeq
<1>6. kept \in Seq(Reasons)
  BY <1>2, <1>3, <1>5, SubSeqProperties
<1>7. \/ Shares!WithReason(st, r) = st
      \/ Shares!WithReason(st, r) = [st EXCEPT !.reasons = kept]
  BY DEF Shares!WithReason, all, m
<1>. HIDE DEF kept
<1>8. /\ [st EXCEPT !.reasons = kept] \in Shares!Records
      /\ \A l, k : Counts(st, l, k) => Counts([st EXCEPT !.reasons = kept], l, k)
  BY <1>6 DEF Shares!Records, Counts
<1>. QED
  BY <1>7, <1>8

LEMMA ReasonIsKnown ==
    ASSUME NEW st \in Shares!Records
    PROVE  Shares!Reason(st) \in ReasonsSent
<1>1. st.reasons \in Seq(Reasons)
  BY DEF Shares!Records
<1>2. CASE st.reasons = <<>>
  BY <1>2 DEF Shares!Reason, ReasonsSent
<1>3. CASE st.reasons # <<>>
  <2>1. Len(st.reasons) \in 1..Len(st.reasons)
    BY <1>1, <1>3, EmptySeq
  <2>2. st.reasons[Len(st.reasons)] \in Reasons
    BY <1>1, <2>1, ElementOfSeq
  <2>. QED
    BY <1>3, <2>2 DEF Shares!Reason, Shares!Last, ReasonsSent
<1>. QED
  BY <1>2, <1>3

\* The messages recorded and marked, when only d may be working.
LEMMA OnlyOne ==
    ASSUME NEW f, NEW l, NEW d \in Drivers, \A e \in Drivers : e # d => f[e].phase = "idle"
    PROVE  /\ Recorded(f, l) = IF f[d].phase \in {"marking", "recording"} THEN Len(l) - 1
                               ELSE Len(l)
           /\ Marked(f, l) = IF f[d].phase = "marking" THEN Len(l) - 1 ELSE Len(l)
<1>1. (\E e \in Drivers : f[e].phase \in {"marking", "recording"})
        <=> f[d].phase \in {"marking", "recording"}
  OBVIOUS
<1>2. (\E e \in Drivers : f[e].phase = "marking") <=> f[d].phase = "marking"
  OBVIOUS
<1>. QED
  BY <1>1, <1>2 DEF Recorded, Marked

LEMMA DriverGoes ==
    ASSUME ShareInv, NEW d \in Drivers, NEW to \in Sharer, driver' = [driver EXCEPT ![d] = to]
    PROVE  /\ driver' \in [Drivers -> Sharer] /\ driver'[d] = to
           /\ \A e \in Drivers : e # d => driver'[e] = driver[e]
           /\ ~doubled /\ driver[d].phase # "idle" =>
                \A e \in Drivers : e # d => driver[e].phase = "idle"
<1>1. driver \in [Drivers -> Sharer]
  BY DEF ShareInv, ShareTyped
<1>. QED
  BY <1>1 DEF ShareInv, InTurn

LEMMA ShareTypes ==
    ASSUME ShareInv
    PROVE  /\ clock \in Nat /\ state \in Shares!Records
           /\ sent.day \in Int /\ sent.reasons \subseteq ReasonsSent
           /\ \A d \in Drivers : driver[d] \in Sharer /\ driver[d].now \in Nat
           /\ log \in Seq(Message) /\ Len(log) \in Nat
           /\ \A i \in 1..Len(log) : log[i] \in Message /\ log[i].now \in Nat
<1>1. /\ clock \in Nat /\ state \in Shares!Records
      /\ sent.day \in Int /\ sent.reasons \subseteq ReasonsSent
      /\ \A d \in Drivers : driver[d] \in Sharer
      /\ log \in Seq(Message)
  BY DEF ShareInv, ShareTyped
<1>. QED
  BY <1>1, MessagesOfLog DEF Sharer

-----------------------------------------------------------------------------
(* The steps *)

LEMMA InitShares == Shares!Init => ShareInv
<1>. SUFFICES ASSUME Shares!Init PROVE ShareInv
  OBVIOUS
<1>1. /\ clock = 0 /\ state = Shares!Fresh
      /\ sent = [day |-> Shares!Never, reasons |-> {}]
      /\ driver = [d \in Drivers |-> Shares!Idle]
      /\ talker = [t \in Talkers |-> Shares!Silent]
      /\ log = <<>> /\ slipped = FALSE /\ doubled = FALSE
  BY DEF Shares!Init
<1>2. log \in Seq(Message) /\ Len(log) = 0 /\ 1..Len(log) = {}
  BY <1>1, EmptySeq
<1>3. \A d \in Drivers : driver[d].phase = "idle" /\ driver[d].now = 0
  BY <1>1, IdleSharer
<1>4. ShareTyped
  <2>1. sent \in [day : Int, reasons : SUBSET ReasonsSent] /\ sent.day = -1
    BY <1>1 DEF Shares!Never
  <2>2. slipped \in BOOLEAN /\ doubled \in BOOLEAN
    BY <1>1
  <2>3. /\ clock \in Nat /\ state \in Shares!Records
        /\ driver \in [Drivers -> Sharer] /\ talker \in [Talkers -> Talker]
    BY <1>1, FreshRecords, IdleSharer
  <2>. QED
    BY <1>2, <2>1, <2>2, <2>3 DEF ShareTyped
<1>5. Past
  <2>1. sent.day = -1 /\ Shares!Day(clock) \in Nat
    BY <1>1, DaysInOrder DEF Shares!Never
  <2>. QED
    BY <1>1, <1>2, <1>3, <2>1 DEF Past
<1>6. Recorded(driver, log) = 0 /\ Marked(driver, log) = 0
  BY <1>2, <1>3 DEF Recorded, Marked
<1>7. Counts(state, log, 0)
  BY <1>1 DEF Counts, Shares!Fresh
<1>8. InTurn /\ Counted /\ Paced /\ Varied
  BY <1>2, <1>3, <1>6, <1>7 DEF InTurn, Counted, Paced, Varied, Covers
<1>. QED
  BY <1>4, <1>5, <1>8 DEF ShareInv

LEMMA TickStep == ASSUME ShareInv, Shares!Tick PROVE ShareInv'
<1>1. /\ clock' = clock + 1
      /\ UNCHANGED <<state, sent, driver, talker, log, slipped, doubled>>
  BY DEF Shares!Tick
<1>2. ShareTyped'
  BY <1>1 DEF ShareInv, ShareTyped
<1>3. Past'
  <2>1. clock \in Nat /\ clock' \in Nat /\ clock <= clock'
    BY <1>1, ShareTypes
  <2>2. sent.day <= Shares!Day(clock')
    <3>1. /\ Shares!Day(clock) <= Shares!Day(clock') /\ sent.day <= Shares!Day(clock)
          /\ Shares!Day(clock) \in Nat /\ Shares!Day(clock') \in Nat /\ sent.day \in Int
      BY <2>1, DaysInOrder, ShareTypes DEF ShareInv, Past
    <3>. QED
      BY <3>1
  <2>3. /\ \A i \in 1..Len(log) : log[i].now <= clock'
        /\ \A d \in Drivers : driver[d].now <= clock'
    BY <2>1, ShareTypes DEF ShareInv, Past
  <2>. QED
    BY <1>1, <2>2, <2>3 DEF Past
<1>4. InTurn' /\ Counted' /\ Paced' /\ Varied'
  BY <1>1 DEF ShareInv, InTurn, Counted, Paced, Varied
<1>. QED
  BY <1>2, <1>3, <1>4 DEF ShareInv

LEMMA HearStep == ASSUME ShareInv, NEW t \in Talkers, Shares!Hear(t) PROVE ShareInv'
<1>1. PICK r \in Reasons \cup {Generic} :
         talker' = [talker EXCEPT ![t] = [phase |-> "talking", reason |-> r, read |-> state]]
  BY DEF Shares!Hear
<1>2. UNCHANGED <<clock, state, sent, driver, log, slipped, doubled>>
  BY DEF Shares!Hear
<1>. DEFINE to == [phase |-> "talking", reason |-> r, read |-> state]
<1>3. to \in Talker
  BY ShareTypes DEF Talker, ReasonsSent
<1>. HIDE DEF to
<1>4. talker' \in [Talkers -> Talker]
  BY <1>1, <1>3 DEF ShareInv, ShareTyped, to
<1>5. ShareTyped' /\ Past'
  BY <1>2, <1>4 DEF ShareInv, ShareTyped, Past
<1>6. InTurn' /\ Counted' /\ Paced' /\ Varied'
  BY <1>2 DEF ShareInv, InTurn, Counted, Paced, Varied
<1>. QED
  BY <1>5, <1>6 DEF ShareInv

\* A conversation writes over the record, or leaves its counters alone.
LEMMA SayStep == ASSUME ShareInv, NEW t \in Talkers, Shares!Say(t) PROVE ShareInv'
<1>1. /\ state' = IF talker[t].reason = Generic THEN talker[t].read
                  ELSE Shares!WithReason(talker[t].read, talker[t].reason)
      /\ slipped' = (slipped \/ state # talker[t].read)
      /\ talker' = [talker EXCEPT ![t] = Shares!Silent]
      /\ UNCHANGED <<clock, sent, driver, log, doubled>>
  BY DEF Shares!Say
<1>2. talker \in [Talkers -> Talker] /\ talker[t] \in Talker
  BY DEF ShareInv, ShareTyped
<1>3. talker[t].read \in Shares!Records /\ talker[t].reason \in Reasons \cup {Generic}
  BY <1>2 DEF Talker, ReasonsSent
<1>4. /\ state' \in Shares!Records
      /\ \A l, k : Counts(talker[t].read, l, k) => Counts(state', l, k)
  BY <1>1, <1>3, WithReasonKeeps
<1>5. talker' \in [Talkers -> Talker]
  BY <1>1, <1>2, FreshRecords
<1>6. slipped' \in BOOLEAN /\ (~slipped' => ~slipped /\ talker[t].read = state)
  BY <1>1, Zenon DEF ShareInv, ShareTyped
<1>7. ShareTyped' /\ Past'
  <2>1. Past'
    BY <1>1 DEF ShareInv, Past
  <2>. QED
    BY <1>1, <1>4, <1>5, <1>6, <2>1, Zenon DEF ShareInv, ShareTyped
<1>8. InTurn' /\ Varied'
  BY <1>1 DEF ShareInv, InTurn, Varied
<1>9. Counted'
  BY <1>1, <1>4, <1>6 DEF ShareInv, Counted
<1>10. Paced'
  BY <1>1, <1>6 DEF ShareInv, Paced
<1>. QED
  BY <1>7, <1>8, <1>9, <1>10 DEF ShareInv

\* Composing starts only where the limits allow the message.
LEMMA DriveStep ==
    ASSUME ShareInv, NEW d \in Drivers, NEW s \in Scopes, Shares!Drive(d, s)
    PROVE  ShareInv'
<1>. DEFINE to == [phase |-> "composing", scope |-> s, reason |-> Shares!Reason(state),
                   now |-> clock, read |-> Shares!Fresh]
<1>1. /\ Shares!Eligible(s, state, clock)
      /\ Shares!Reason(state) \notin Shares!SentOn(clock)
      /\ driver' = [driver EXCEPT ![d] = to]
      /\ doubled' = (doubled \/ \E e \in Drivers : driver[e].phase # "idle")
      /\ UNCHANGED <<clock, state, sent, talker, log, slipped>>
  BY DEF Shares!Drive
<1>2. /\ to \in Sharer /\ to.phase = "composing" /\ to.now = clock /\ to.scope = s
      /\ to.reason = Shares!Reason(state)
  <2>1. Shares!Reason(state) \in ReasonsSent /\ clock \in Nat /\ Shares!Fresh \in Shares!Records
    BY ShareTypes, ReasonIsKnown, FreshRecords
  <2>. QED
    BY <2>1 DEF Sharer
<1>. HIDE DEF to
<1>3. driver' \in [Drivers -> Sharer] /\ driver'[d] = to /\ \A e \in Drivers : e # d => driver'[e] = driver[e]
  BY <1>1, <1>2, DriverGoes
<1>4. doubled' \in BOOLEAN /\ (~doubled' => ~doubled /\ \A e \in Drivers : driver[e].phase = "idle")
  BY <1>1, Zenon DEF ShareInv, ShareTyped
<1>5. ShareTyped'
  BY <1>1, <1>3, <1>4, Zenon DEF ShareInv, ShareTyped
<1>6. Past'
  <2>1. \A e \in Drivers : driver'[e].now <= clock
    BY <1>2, <1>3, ShareTypes DEF ShareInv, Past
  <2>. QED
    BY <1>1, <2>1 DEF ShareInv, Past
<1>7. ASSUME ~doubled'
      PROVE  /\ ~doubled /\ \A e \in Drivers : e # d => driver'[e].phase = "idle"
             /\ Recorded(driver, log) = Len(log) /\ Recorded(driver', log) = Len(log)
             /\ Marked(driver, log) = Len(log) /\ Marked(driver', log) = Len(log)
             /\ \A i \in 1..Len(log) : log[i].now <= clock
             /\ \A i, j \in 1..Len(log) : i <= j => log[i].now <= log[j].now
  <2>1. ~doubled /\ \A e \in Drivers : driver[e].phase = "idle"
    BY <1>4, <1>7
  <2>2. \A e \in Drivers : e # d => driver'[e].phase = "idle"
    BY <1>3, <2>1
  <2>3. Recorded(driver', log) = Len(log) /\ Marked(driver', log) = Len(log)
    BY <1>2, <1>3, <2>2, OnlyOne
  <2>4. Recorded(driver, log) = Len(log) /\ Marked(driver, log) = Len(log)
    BY <2>1 DEF Recorded, Marked
  <2>. QED
    BY <2>1, <2>2, <2>3, <2>4 DEF ShareInv, Past, InTurn
<1>8. InTurn'
  <2>. SUFFICES ASSUME ~doubled' PROVE InTurn'
    BY DEF InTurn
  <2>1. /\ \A e, f \in Drivers : driver'[e].phase # "idle" /\ driver'[f].phase # "idle" => e = f
        /\ \A e \in Drivers : driver'[e].phase # "idle" => driver'[e].now = clock
        /\ \A e \in Drivers : driver'[e].phase \notin {"marking", "recording"}
    BY <1>2, <1>3, <1>7
  <2>2. sent.day <= Shares!Day(clock)
    BY DEF ShareInv, Past
  <2>. QED
    BY <1>1, <1>7, <2>1, <2>2 DEF InTurn
<1>9. Counted'
  <2>. SUFFICES ASSUME ~slipped', ~doubled' PROVE Counted'
    BY DEF Counted
  <2>1. Counts(state, log, Recorded(driver', log))
    BY <1>1, <1>7 DEF ShareInv, Counted
  <2>2. \A e \in Drivers : driver'[e].phase # "recording"
    BY <1>2, <1>3, <1>7
  <2>. QED
    BY <1>1, <2>1, <2>2 DEF Counted
<1>10. Paced'
  <2>. SUFFICES ASSUME ~slipped', ~doubled' PROVE Paced'
    BY DEF Paced
  <2>1. Counts(state, log, Len(log))
    BY <1>1, <1>7 DEF ShareInv, Counted
  <2>2. MaySend(log, Len(log), s, clock)
    BY <1>1, <1>7, <2>1, ShareTypes, EligibleMaySend
  <2>3. \A e \in Drivers : driver'[e].phase = "composing" =>
          driver'[e].scope = s /\ driver'[e].now = clock
    BY <1>2, <1>3, <1>7
  <2>4. \A i \in 1..Len(log) : MaySend(log, i - 1, log[i].scope, log[i].now)
    BY <1>1, <1>7 DEF ShareInv, Paced
  <2>5. \A e \in Drivers : driver'[e].phase = "composing" =>
          MaySend(log, Len(log), driver'[e].scope, driver'[e].now)
    BY <2>2, <2>3
  <2>. QED
    BY <1>1, <2>4, <2>5 DEF Paced
<1>11. Varied'
  <2>. SUFFICES ASSUME ~doubled' PROVE Varied'
    BY DEF Varied
  <2>1. Covers(sent, log, Len(log)) /\ \A i \in 1..Len(log) : Unused(log, i - 1, log[i].reason, log[i].now)
    BY <1>7 DEF ShareInv, Varied
  <2>2. ASSUME NEW j \in 1..Len(log), Shares!Day(log[j].now) = Shares!Day(clock)
        PROVE  log[j].reason # Shares!Reason(state)
    <3>1. /\ Shares!Day(log[j].now) <= sent.day /\ sent.day <= Shares!Day(clock)
          /\ Shares!Day(log[j].now) = sent.day => log[j].reason \in sent.reasons
      BY <2>1 DEF Covers, ShareInv, Past
    <3>2. sent.day = Shares!Day(clock)
      <4>1. sent.day \in Int /\ clock \in Nat /\ Shares!Day(clock) \in Nat
        BY ShareTypes, DaysInOrder
      <4>. QED
        BY <2>2, <3>1, <4>1
    <3>. QED
      BY <1>1, <2>2, <3>1, <3>2 DEF Shares!SentOn
  <2>3. Unused(log, Len(log), Shares!Reason(state), clock)
    BY <2>2 DEF Unused
  <2>4. \A e \in Drivers : driver'[e].phase = "composing" =>
          driver'[e].reason = Shares!Reason(state) /\ driver'[e].now = clock
    BY <1>2, <1>3, <1>7
  <2>. QED
    BY <1>1, <1>7, <2>1, <2>3, <2>4 DEF Varied
<1>. QED
  BY <1>5, <1>6, <1>8, <1>9, <1>10, <1>11 DEF ShareInv

LEMMA DropStep == ASSUME ShareInv, NEW d \in Drivers, Shares!Drop(d) PROVE ShareInv'
<1>1. /\ driver[d].phase = "composing"
      /\ driver' = [driver EXCEPT ![d] = Shares!Idle]
      /\ UNCHANGED <<clock, state, sent, talker, log, slipped, doubled>>
  BY DEF Shares!Drop
<1>2. /\ driver' \in [Drivers -> Sharer] /\ driver'[d] = Shares!Idle
      /\ \A e \in Drivers : e # d => driver'[e] = driver[e]
      /\ ~doubled => \A e \in Drivers : e # d => driver[e].phase = "idle"
  BY <1>1, IdleSharer, DriverGoes
<1>3. ShareTyped'
  BY <1>1, <1>2 DEF ShareInv, ShareTyped
<1>4. Past'
  <2>1. \A e \in Drivers : driver'[e].now <= clock
    BY <1>2, IdleSharer, ShareTypes DEF ShareInv, Past
  <2>. QED
    BY <1>1, <2>1 DEF ShareInv, Past
<1>5. ASSUME ~doubled
      PROVE  /\ \A e \in Drivers : driver'[e].phase = "idle"
             /\ Recorded(driver', log) = Recorded(driver, log)
             /\ Marked(driver', log) = Marked(driver, log)
  <2>1. \A e \in Drivers : driver'[e].phase = "idle"
    BY <1>2, <1>5, IdleSharer
  <2>2. \A e \in Drivers : driver[e].phase \in {"idle", "composing"}
    BY <1>1, <1>2, <1>5
  <2>. QED
    BY <2>1, <2>2 DEF Recorded, Marked
<1>6. InTurn' /\ Counted' /\ Paced' /\ Varied'
  BY <1>1, <1>5 DEF ShareInv, InTurn, Counted, Paced, Varied
<1>. QED
  BY <1>3, <1>4, <1>6 DEF ShareInv

\* What composing established holds for the message that is queued.
LEMMA PushStep == ASSUME ShareInv, NEW d \in Drivers, Shares!Push(d) PROVE ShareInv'
<1>. DEFINE n == Len(log)
            to == [driver[d] EXCEPT !.phase = "marking"]
            msg == [scope |-> driver[d].scope, reason |-> driver[d].reason, now |-> driver[d].now]
<1>1. /\ driver[d].phase = "composing"
      /\ log' = Append(log, msg)
      /\ driver' = [driver EXCEPT ![d] = to]
      /\ UNCHANGED <<clock, state, sent, talker, slipped, doubled>>
  BY DEF Shares!Push
<1>2. /\ n \in Nat /\ log \in Seq(Message) /\ driver[d] \in Sharer /\ driver[d].now \in Nat
      /\ \A i \in 1..n : log[i] \in Message /\ log[i].now \in Nat
  BY ShareTypes
<1>3. msg \in Message
  BY <1>2 DEF Sharer, Message
<1>4. /\ to \in Sharer /\ to.phase = "marking" /\ to.now = driver[d].now
      /\ to.reason = driver[d].reason
  BY <1>2 DEF Sharer
<1>5. msg.scope = driver[d].scope /\ msg.reason = driver[d].reason /\ msg.now = driver[d].now
  OBVIOUS
<1>. HIDE DEF to, msg
<1>6. /\ log' \in Seq(Message) /\ Len(log') = n + 1
      /\ \A i \in 1..n : log'[i] = log[i]
      /\ log'[n + 1] = msg
  BY <1>1, <1>2, <1>3, AppendProperties
<1>7. /\ driver' \in [Drivers -> Sharer] /\ driver'[d] = to
      /\ \A e \in Drivers : e # d => driver'[e] = driver[e]
      /\ ~doubled => \A e \in Drivers : e # d => driver[e].phase = "idle"
  BY <1>1, <1>4, DriverGoes
<1>. HIDE DEF n
<1>8. \A i \in 1..Len(log') : i \in 1..n \/ i = n + 1
  BY <1>2, <1>6
<1>9. ShareTyped'
  BY <1>1, <1>6, <1>7 DEF ShareInv, ShareTyped
<1>10. Past'
  <2>1. /\ \A i \in 1..n : log[i].now <= clock
        /\ \A e \in Drivers : driver[e].now <= clock
    BY DEF ShareInv, Past, n
  <2>2. \A e \in Drivers : driver'[e].now <= clock
    BY <1>4, <1>7, <2>1
  <2>3. \A i \in 1..Len(log') : log'[i].now <= clock
    BY <1>5, <1>6, <1>8, <2>1
  <2>. QED
    BY <1>1, <2>2, <2>3 DEF ShareInv, Past
<1>11. ASSUME ~doubled
       PROVE  /\ \A e \in Drivers : e # d => driver'[e].phase = "idle"
              /\ Recorded(driver, log) = n /\ Recorded(driver', log') = n
              /\ Marked(driver, log) = n /\ Marked(driver', log') = n
  <2>1. \A e \in Drivers : e # d => driver[e].phase = "idle" /\ driver'[e].phase = "idle"
    BY <1>7, <1>11
  <2>2. Recorded(driver, log) = n /\ Marked(driver, log) = n
    BY <1>1, <2>1, OnlyOne DEF n
  <2>3. Recorded(driver', log') = Len(log') - 1 /\ Marked(driver', log') = Len(log') - 1
    BY <1>4, <1>7, <2>1, OnlyOne
  <2>. QED
    BY <1>2, <1>6, <2>1, <2>2, <2>3
<1>12. InTurn'
  <2>. SUFFICES ASSUME ~doubled PROVE InTurn'
    BY <1>1 DEF InTurn
  <2>1. \A e, f \in Drivers : driver'[e].phase # "idle" /\ driver'[f].phase # "idle" => e = f
    BY <1>11
  <2>2. /\ \A i \in 1..n : log[i].now <= msg.now
        /\ \A i, j \in 1..n : i <= j => log[i].now <= log[j].now
        /\ sent.day <= Shares!Day(driver[d].now)
    BY <1>1, <1>5 DEF ShareInv, InTurn, n
  <2>3. \A i \in 1..Len(log') : log'[i].now <= msg.now
    BY <1>2, <1>3, <1>5, <1>6, <1>8, <2>2
  <2>4. ASSUME NEW i \in 1..Len(log'), NEW j \in 1..Len(log'), i <= j
        PROVE  log'[i].now <= log'[j].now
    <3>1. CASE j = n + 1
      BY <1>6, <2>3, <3>1
    <3>2. CASE j \in 1..n
      <4>1. i \in 1..n
        BY <1>2, <1>6, <2>4, <3>2
      <4>. QED
        BY <1>6, <2>2, <2>4, <3>2, <4>1
    <3>. QED
      BY <1>8, <3>1, <3>2
  <2>5. \A e \in Drivers : driver'[e].phase # "idle" => e = d
    BY <1>11
  <2>6. \A e \in Drivers : driver'[e].phase # "idle" =>
          /\ \A i \in 1..Len(log') : log'[i].now <= driver'[e].now
          /\ sent.day <= Shares!Day(driver'[e].now)
    BY <1>4, <1>5, <1>7, <2>2, <2>3, <2>5
  <2>7. \A e \in Drivers : driver'[e].phase \in {"marking", "recording"} =>
          /\ Len(log') > 0
          /\ log'[Len(log')].now = driver'[e].now /\ log'[Len(log')].reason = driver'[e].reason
    BY <1>2, <1>4, <1>5, <1>6, <1>7, <2>5
  <2>. QED
    BY <1>1, <2>1, <2>4, <2>6, <2>7 DEF InTurn
<1>13. Counted'
  <2>. SUFFICES ASSUME ~slipped, ~doubled PROVE Counted'
    BY <1>1 DEF Counted
  <2>1. Counts(state, log, n)
    BY <1>11 DEF ShareInv, Counted
  <2>2. Counts(state, log', n)
    BY <1>2, <1>6, <2>1, SameBeginning
  <2>3. \A e \in Drivers : driver'[e].phase # "recording"
    BY <1>4, <1>7, <1>11
  <2>. QED
    BY <1>1, <1>11, <2>2, <2>3 DEF Counted
<1>14. \A i \in 1..n : i - 1 \in Nat /\ \A j \in 1..(i - 1) : log'[j] = log[j]
  BY <1>2, <1>6
<1>15. Paced'
  <2>. SUFFICES ASSUME ~slipped, ~doubled PROVE Paced'
    BY <1>1 DEF Paced
  <2>1. /\ \A i \in 1..n : MaySend(log, i - 1, log[i].scope, log[i].now)
        /\ MaySend(log, n, msg.scope, msg.now)
    BY <1>1, <1>5 DEF ShareInv, Paced, n
  <2>2. \A i \in 1..n : MaySend(log', i - 1, log'[i].scope, log'[i].now)
    BY <1>6, <1>14, <2>1, SameBeginning
  <2>3. MaySend(log', n, msg.scope, msg.now)
    BY <1>2, <1>6, <2>1, SameBeginning
  <2>4. (n + 1) - 1 = n
    BY <1>2
  <2>5. \A i \in 1..Len(log') : MaySend(log', i - 1, log'[i].scope, log'[i].now)
    BY <1>6, <1>8, <2>2, <2>3, <2>4
  <2>6. \A e \in Drivers : driver'[e].phase # "composing"
    BY <1>4, <1>7, <1>11
  <2>. QED
    BY <2>5, <2>6 DEF Paced
<1>16. Varied'
  <2>. SUFFICES ASSUME ~doubled PROVE Varied'
    BY <1>1 DEF Varied
  <2>1. /\ Covers(sent, log, n)
        /\ \A i \in 1..n : Unused(log, i - 1, log[i].reason, log[i].now)
        /\ Unused(log, n, msg.reason, msg.now)
    BY <1>1, <1>5, <1>11 DEF ShareInv, Varied, n
  <2>2. \A i \in 1..n : Unused(log', i - 1, log'[i].reason, log'[i].now)
    BY <1>6, <1>14, <2>1, SameBeginning
  <2>3. Unused(log', n, msg.reason, msg.now) /\ Covers(sent, log', n)
    BY <1>2, <1>6, <2>1, SameBeginning
  <2>4. (n + 1) - 1 = n
    BY <1>2
  <2>5. \A i \in 1..Len(log') : Unused(log', i - 1, log'[i].reason, log'[i].now)
    BY <1>6, <1>8, <2>2, <2>3, <2>4
  <2>6. \A e \in Drivers : driver'[e].phase # "composing"
    BY <1>4, <1>7, <1>11
  <2>. QED
    BY <1>1, <1>11, <2>3, <2>5, <2>6 DEF Varied
<1>. QED
  BY <1>9, <1>10, <1>12, <1>13, <1>15, <1>16 DEF ShareInv

\* The reason is marked before the message is recorded, on the day of the message.
LEMMA MarkStep == ASSUME ShareInv, NEW d \in Drivers, Shares!Mark(d) PROVE ShareInv'
<1>. DEFINE n == Len(log)
            to == [driver[d] EXCEPT !.phase = "recording", !.read = state]
            day == Shares!Day(driver[d].now)
<1>1. /\ driver[d].phase = "marking"
      /\ sent' = [day |-> day, reasons |-> Shares!SentOn(driver[d].now) \cup {driver[d].reason}]
      /\ driver' = [driver EXCEPT ![d] = to]
      /\ UNCHANGED <<clock, state, talker, log, slipped, doubled>>
  BY DEF Shares!Mark, Shares!MarkSentReason
<1>2. /\ n \in Nat /\ log \in Seq(Message) /\ driver[d] \in Sharer /\ driver[d].now \in Nat
      /\ state \in Shares!Records /\ clock \in Nat /\ sent.day \in Int
      /\ sent.reasons \subseteq ReasonsSent
      /\ \A i \in 1..n : log[i] \in Message /\ log[i].now \in Nat
  BY ShareTypes
<1>3. /\ to \in Sharer /\ to.phase = "recording" /\ to.now = driver[d].now
      /\ to.reason = driver[d].reason /\ to.read = state
  BY <1>2 DEF Sharer
<1>4. day \in Nat /\ driver[d].reason \in ReasonsSent
  BY <1>2, DaysInOrder DEF Sharer
<1>. HIDE DEF to
<1>5. /\ driver' \in [Drivers -> Sharer] /\ driver'[d] = to
      /\ \A e \in Drivers : e # d => driver'[e] = driver[e]
      /\ ~doubled => \A e \in Drivers : e # d => driver[e].phase = "idle"
  BY <1>1, <1>3, DriverGoes
<1>6. /\ sent' \in [day : Int, reasons : SUBSET ReasonsSent] /\ sent'.day = day
      /\ driver[d].reason \in sent'.reasons
      /\ sent.day = day => sent.reasons \subseteq sent'.reasons
  <2>1. /\ Shares!SentOn(driver[d].now) \subseteq ReasonsSent
        /\ sent.day = day => Shares!SentOn(driver[d].now) = sent.reasons
    BY <1>2 DEF Shares!SentOn
  <2>. DEFINE r == Shares!SentOn(driver[d].now) \cup {driver[d].reason}
  <2>2. /\ r \in SUBSET ReasonsSent /\ driver[d].reason \in r
        /\ sent.day = day => sent.reasons \subseteq r
    BY <1>4, <2>1
  <2>3. sent' = [day |-> day, reasons |-> r]
    BY <1>1
  <2>. HIDE DEF r, day
  <2>. QED
    BY <1>4, <2>2, <2>3
<1>. HIDE DEF n, day
<1>7. ShareTyped'
  BY <1>1, <1>5, <1>6 DEF ShareInv, ShareTyped
<1>8. Past'
  <2>1. \A e \in Drivers : driver'[e].now <= clock
    BY <1>3, <1>5 DEF ShareInv, Past
  <2>2. day <= Shares!Day(clock)
    <3>1. driver[d].now <= clock
      BY DEF ShareInv, Past
    <3>. QED
      BY <1>2, <3>1, DaysInOrder DEF day
  <2>. QED
    BY <1>1, <1>6, <2>1, <2>2 DEF ShareInv, Past
<1>9. ASSUME ~doubled
      PROVE  /\ \A e \in Drivers : e # d => driver'[e].phase = "idle"
             /\ Recorded(driver, log) = n - 1 /\ Recorded(driver', log) = n - 1
             /\ Marked(driver, log) = n - 1 /\ Marked(driver', log) = n
             /\ n > 0 /\ n \in 1..n
             /\ log[n].now = driver[d].now /\ log[n].reason = driver[d].reason
             /\ \A i \in 1..n : log[i].now <= driver[d].now
  <2>1. \A e \in Drivers : e # d => driver[e].phase = "idle" /\ driver'[e].phase = "idle"
    BY <1>5, <1>9
  <2>2. Recorded(driver, log) = n - 1 /\ Marked(driver, log) = n - 1
    BY <1>1, <2>1, OnlyOne DEF n
  <2>3. Recorded(driver', log) = n - 1 /\ Marked(driver', log) = n
    BY <1>3, <1>5, <2>1, OnlyOne DEF n
  <2>4. /\ n > 0 /\ log[n].now = driver[d].now /\ log[n].reason = driver[d].reason
        /\ \A i \in 1..n : log[i].now <= driver[d].now
    BY <1>1, <1>9 DEF ShareInv, InTurn, n
  <2>. QED
    BY <1>2, <2>1, <2>2, <2>3, <2>4
<1>10. InTurn'
  <2>. SUFFICES ASSUME ~doubled PROVE InTurn'
    BY <1>1 DEF InTurn
  <2>1. \A i, j \in 1..Len(log) : i <= j => log[i].now <= log[j].now
    BY DEF ShareInv, InTurn
  <2>2. \A e \in Drivers : driver'[e].phase # "idle" => e = d
    BY <1>9
  <2>3. \A e \in Drivers : driver'[e].phase # "idle" =>
          /\ \A i \in 1..Len(log) : log[i].now <= driver'[e].now
          /\ sent'.day <= Shares!Day(driver'[e].now)
    BY <1>3, <1>4, <1>5, <1>6, <1>9, <2>2 DEF n, day
  <2>4. \A e \in Drivers : driver'[e].phase \in {"marking", "recording"} =>
          /\ Len(log) > 0
          /\ log[Len(log)].now = driver'[e].now /\ log[Len(log)].reason = driver'[e].reason
    BY <1>3, <1>5, <1>9, <2>2 DEF n
  <2>. QED
    BY <1>1, <2>1, <2>2, <2>3, <2>4 DEF InTurn
<1>11. Counted'
  <2>. SUFFICES ASSUME ~slipped, ~doubled PROVE Counted'
    BY <1>1 DEF Counted
  <2>1. Counts(state, log, n - 1)
    BY <1>9 DEF ShareInv, Counted
  <2>2. \A e \in Drivers : driver'[e].phase = "recording" => driver'[e].read = state
    BY <1>3, <1>5, <1>9
  <2>. QED
    BY <1>1, <1>9, <2>1, <2>2 DEF Counted, n
<1>12. Paced'
  <2>. SUFFICES ASSUME ~slipped, ~doubled PROVE Paced'
    BY <1>1 DEF Paced
  <2>1. \A i \in 1..Len(log) : MaySend(log, i - 1, log[i].scope, log[i].now)
    BY DEF ShareInv, Paced
  <2>2. \A e \in Drivers : driver'[e].phase # "composing"
    BY <1>3, <1>5, <1>9
  <2>. QED
    BY <1>1, <2>1, <2>2 DEF Paced
<1>13. Varied'
  <2>. SUFFICES ASSUME ~doubled PROVE Varied'
    BY <1>1 DEF Varied
  <2>1. \A i \in 1..Len(log) : Unused(log, i - 1, log[i].reason, log[i].now)
    BY DEF ShareInv, Varied
  <2>2. \A e \in Drivers : driver'[e].phase # "composing"
    BY <1>3, <1>5, <1>9
  <2>3. Covers(sent, log, n - 1) /\ sent.day <= day
    BY <1>1, <1>9 DEF ShareInv, Varied, InTurn, day
  <2>4. ASSUME NEW i \in 1..n
        PROVE  /\ Shares!Day(log[i].now) <= sent'.day
               /\ Shares!Day(log[i].now) = sent'.day => log[i].reason \in sent'.reasons
    <3>1. Shares!Day(log[i].now) \in Nat /\ Shares!Day(log[i].now) <= day
      BY <1>2, <1>9, DaysInOrder DEF day
    <3>2. ASSUME Shares!Day(log[i].now) = day PROVE log[i].reason \in sent'.reasons
      <4>1. CASE i = n
        BY <1>6, <1>9, <4>1
      <4>2. CASE i # n
        <5>1. i \in 1..(n - 1)
          BY <1>2, <4>2
        <5>2. /\ Shares!Day(log[i].now) <= sent.day
              /\ Shares!Day(log[i].now) = sent.day => log[i].reason \in sent.reasons
          BY <2>3, <5>1 DEF Covers
        <5>3. sent.day = day
          BY <1>2, <1>4, <2>3, <3>2, <5>2
        <5>. QED
          BY <1>6, <3>2, <5>2, <5>3
      <4>. QED
        BY <4>1, <4>2
    <3>. QED
      BY <1>6, <3>1, <3>2
  <2>5. Covers(sent', log, n)
    BY <2>4 DEF Covers
  <2>. QED
    BY <1>1, <1>9, <2>1, <2>2, <2>5 DEF Varied
<1>. QED
  BY <1>7, <1>8, <1>10, <1>11, <1>12, <1>13 DEF ShareInv

\* The record counts one message more, unless it was written meanwhile.
LEMMA RecordStep == ASSUME ShareInv, NEW d \in Drivers, Shares!Record(d) PROVE ShareInv'
<1>. DEFINE n == Len(log)
<1>1. /\ driver[d].phase = "recording"
      /\ state' = Shares!Counted(driver[d].read, driver[d].now)
      /\ slipped' = (slipped \/ state # driver[d].read)
      /\ driver' = [driver EXCEPT ![d] = Shares!Idle]
      /\ UNCHANGED <<clock, sent, talker, log, doubled>>
  BY DEF Shares!Record
<1>2. /\ n \in Nat /\ driver[d] \in Sharer /\ driver[d].now \in Nat
      /\ driver[d].read \in Shares!Records
  BY ShareTypes DEF Sharer
<1>3. /\ driver' \in [Drivers -> Sharer] /\ driver'[d] = Shares!Idle
      /\ \A e \in Drivers : e # d => driver'[e] = driver[e]
      /\ ~doubled => \A e \in Drivers : e # d => driver[e].phase = "idle"
  BY <1>1, IdleSharer, DriverGoes
<1>4. /\ state' \in Shares!Records
      /\ state'.daily = driver[d].read.daily + 1 /\ state'.weekly = driver[d].read.weekly + 1
      /\ state'.last = driver[d].now /\ state'.day = Shares!Day(driver[d].now)
      /\ state'.week = Shares!Week(driver[d].now)
  <2>1. Shares!Day(driver[d].now) \in Nat /\ Shares!Week(driver[d].now) \in Nat
    BY <1>2, DaysInOrder
  <2>2. driver[d].read.daily \in Nat /\ driver[d].read.weekly \in Nat /\ <<>> \in Seq(Reasons)
    BY <1>2 DEF Shares!Records
  <2>. DEFINE day == Shares!Day(driver[d].now)
              week == Shares!Week(driver[d].now)
              daily == driver[d].read.daily + 1
              weekly == driver[d].read.weekly + 1
              now == driver[d].now
  <2>3. /\ day \in Int /\ week \in Int /\ daily \in Nat /\ weekly \in Nat /\ now \in Int
        /\ state' = [last |-> now, day |-> day, daily |-> daily, week |-> week,
                     weekly |-> weekly, reasons |-> <<>>]
    <3>1. day \in Int /\ week \in Int /\ daily \in Nat /\ weekly \in Nat /\ now \in Int
      <4>1. \A k \in Nat : k \in Int /\ k + 1 \in Nat
        OBVIOUS
      <4>. QED
        BY <1>2, <2>1, <2>2, <4>1, Zenon
    <3>2. state' = [last |-> now, day |-> day, daily |-> daily, week |-> week,
                    weekly |-> weekly, reasons |-> <<>>]
      BY <1>1, Zenon DEF Shares!Counted
    <3>. QED
      BY <3>1, <3>2
  <2>. HIDE DEF day, week, daily, weekly, now
  <2>4. /\ state' \in Shares!Records
        /\ state'.daily = daily /\ state'.weekly = weekly /\ state'.last = now
        /\ state'.day = day /\ state'.week = week
    <3>1. <<>> \in Seq(Reasons)
      BY <2>2
    <3>. DEFINE st == [last |-> now, day |-> day, daily |-> daily, week |-> week,
                       weekly |-> weekly, reasons |-> <<>>]
    <3>2. st \in Shares!Records
      BY <2>3, <3>1 DEF Shares!Records
    <3>. QED
      BY <2>3, <3>2
  <2>. QED
    BY <2>4 DEF day, week, daily, weekly, now
<1>5. slipped' \in BOOLEAN /\ (~slipped' => ~slipped /\ driver[d].read = state)
  BY <1>1, Zenon DEF ShareInv, ShareTyped
<1>. HIDE DEF n
<1>6. ShareTyped'
  BY <1>1, <1>3, <1>4, <1>5, Zenon DEF ShareInv, ShareTyped
<1>7. Past'
  <2>1. \A e \in Drivers : driver'[e].now <= clock
    BY <1>3, IdleSharer, ShareTypes DEF ShareInv, Past
  <2>. QED
    BY <1>1, <2>1 DEF ShareInv, Past
<1>8. ASSUME ~doubled
      PROVE  /\ \A e \in Drivers : driver'[e].phase = "idle"
             /\ Recorded(driver, log) = n - 1 /\ Recorded(driver', log) = n
             /\ Marked(driver, log) = n /\ Marked(driver', log) = n
             /\ n > 0 /\ log[n].now = driver[d].now
  <2>1. \A e \in Drivers : driver'[e].phase = "idle" /\ (e # d => driver[e].phase = "idle")
    BY <1>3, <1>8, IdleSharer
  <2>2. Recorded(driver, log) = n - 1 /\ Marked(driver, log) = n
    BY <1>1, <2>1, OnlyOne DEF n
  <2>3. Recorded(driver', log) = n /\ Marked(driver', log) = n
    BY <2>1 DEF Recorded, Marked, n
  <2>4. n > 0 /\ log[n].now = driver[d].now
    BY <1>1, <1>8 DEF ShareInv, InTurn, n
  <2>. QED
    BY <2>1, <2>2, <2>3, <2>4
<1>9. InTurn' /\ Varied'
  BY <1>1, <1>8 DEF ShareInv, InTurn, Varied, n
<1>10. Counted'
  <2>. SUFFICES ASSUME ~slipped', ~doubled PROVE Counted'
    BY <1>1 DEF Counted
  <2>1. Counts(state, log, n - 1) /\ driver[d].read = state
    BY <1>5, <1>8 DEF ShareInv, Counted
  <2>2. Counts(state', log, n)
    BY <1>2, <1>4, <1>8, <2>1 DEF Counts
  <2>3. \A e \in Drivers : driver'[e].phase # "recording"
    BY <1>8
  <2>. QED
    BY <1>1, <1>8, <2>2, <2>3 DEF Counted
<1>11. Paced'
  <2>. SUFFICES ASSUME ~slipped', ~doubled PROVE Paced'
    BY <1>1 DEF Paced
  <2>1. \A i \in 1..Len(log) : MaySend(log, i - 1, log[i].scope, log[i].now)
    BY <1>5 DEF ShareInv, Paced
  <2>2. \A e \in Drivers : driver'[e].phase # "composing"
    BY <1>8
  <2>. QED
    BY <1>1, <2>1, <2>2 DEF Paced
<1>. QED
  BY <1>6, <1>7, <1>9, <1>10, <1>11 DEF ShareInv

\* A restart that cuts off no marking and no record ends no message's course.
LEMMA ShareRestartStep == ASSUME ShareInv, Shares!Restart PROVE ShareInv'
<1>1. /\ slipped' = (slipped \/ \E d \in Drivers : driver[d].phase \in {"marking", "recording"})
      /\ doubled' = (doubled \/ \E d \in Drivers : driver[d].phase = "marking")
      /\ driver' = [d \in Drivers |-> Shares!Idle]
      /\ talker' = [t \in Talkers |-> Shares!Silent]
      /\ UNCHANGED <<clock, state, sent, log>>
  BY DEF Shares!Restart
<1>2. /\ slipped' \in BOOLEAN
      /\ ~slipped' => ~slipped /\ \A d \in Drivers : driver[d].phase \notin {"marking", "recording"}
  BY <1>1, Zenon DEF ShareInv, ShareTyped
<1>3. /\ doubled' \in BOOLEAN
      /\ ~doubled' => ~doubled /\ \A d \in Drivers : driver[d].phase # "marking"
  BY <1>1, Zenon DEF ShareInv, ShareTyped
<1>4. /\ driver' \in [Drivers -> Sharer] /\ talker' \in [Talkers -> Talker]
      /\ \A d \in Drivers : driver'[d].phase = "idle" /\ driver'[d].now = 0
  BY <1>1, FreshRecords, IdleSharer
<1>5. ShareTyped'
  BY <1>1, <1>2, <1>3, <1>4, Zenon DEF ShareInv, ShareTyped
<1>6. Past'
  BY <1>1, <1>4, ShareTypes DEF ShareInv, Past
<1>7. InTurn'
  BY <1>1, <1>3, <1>4 DEF ShareInv, InTurn
<1>8. Recorded(driver', log) = Len(log) /\ Marked(driver', log) = Len(log)
  BY <1>4 DEF Recorded, Marked
<1>9. Counted'
  <2>. SUFFICES ASSUME ~slipped', ~doubled' PROVE Counted'
    BY DEF Counted
  <2>1. Recorded(driver, log) = Len(log)
    BY <1>2 DEF Recorded
  <2>2. Counts(state, log, Len(log))
    BY <1>2, <1>3, <2>1 DEF ShareInv, Counted
  <2>. QED
    BY <1>1, <1>4, <1>8, <2>2 DEF Counted
<1>10. Paced'
  BY <1>1, <1>2, <1>3, <1>4 DEF ShareInv, Paced
<1>11. Varied'
  <2>. SUFFICES ASSUME ~doubled' PROVE Varied'
    BY DEF Varied
  <2>1. Marked(driver, log) = Len(log)
    BY <1>3 DEF Marked
  <2>. QED
    BY <1>1, <1>3, <1>4, <1>8, <2>1 DEF ShareInv, Varied
<1>. QED
  BY <1>5, <1>6, <1>7, <1>9, <1>10, <1>11 DEF ShareInv

LEMMA StutterShares == ASSUME ShareInv, UNCHANGED sharingVars PROVE ShareInv'
BY DEF ShareInv, ShareTyped, Past, InTurn, Counted, Paced, Varied, sharingVars

LEMMA NextShares == ShareInv /\ Shares!Next => ShareInv'
BY TickStep, HearStep, SayStep, DriveStep, DropStep, PushStep, MarkStep, RecordStep,
   ShareRestartStep DEF Shares!Next

LEMMA SharesMean == ShareInv => Shares!RateKept /\ Shares!NotRepeated
<1>. SUFFICES ASSUME ShareInv PROVE Shares!RateKept /\ Shares!NotRepeated
  OBVIOUS
<1>1. \A i : /\ Shares!OfDay(i) = DayOf(log, i - 1, log[i].now)
             /\ Shares!OfWeek(i) = WeekOf(log, i - 1, log[i].now)
  BY DEF Shares!OfDay, Shares!OfWeek, DayOf, WeekOf
<1>2. Shares!RateKept
  <2>. SUFFICES ASSUME ~slipped, ~doubled, NEW i \in 1..Len(log)
                PROVE  /\ \A j \in 1..(i - 1) : log[i].now - log[j].now >= Cooldown
                       /\ Shares!Cardinality(Shares!OfDay(i)) < DailyCap[log[i].scope]
                       /\ Shares!Cardinality(Shares!OfWeek(i)) < PerWeek
    BY DEF Shares!RateKept
  <2>1. MaySend(log, i - 1, log[i].scope, log[i].now)
    BY DEF ShareInv, Paced
  <2>. QED
    BY <1>1, <2>1, SameCardinalityShares DEF MaySend
<1>3. Shares!NotRepeated
  <2>1. ASSUME ~doubled, NEW i \in 1..Len(log), NEW j \in 1..Len(log), i < j,
               Shares!Day(log[i].now) = Shares!Day(log[j].now)
        PROVE  log[i].reason # log[j].reason
    <3>1. Unused(log, j - 1, log[j].reason, log[j].now)
      BY <2>1 DEF ShareInv, Varied
    <3>2. i \in 1..(j - 1)
      BY <2>1, ShareTypes
    <3>. QED
      BY <2>1, <3>1, <3>2 DEF Unused
  <2>2. \A i, j \in 1..Len(log) : i # j => i < j \/ j < i
    BY ShareTypes
  <2>. QED
    BY <2>1, <2>2 DEF Shares!NotRepeated
<1>. QED
  BY <1>2, <1>3

-----------------------------------------------------------------------------
(* The theorem *)

LEMMA SearchAlways == Spec => []SearchInv
<1>1. Init => SearchInv
  BY InitSearch DEF Init
<1>2. SearchInv /\ [Next]_vars => SearchInv'
  BY NextSearches
<1>. QED
  BY <1>1, <1>2, PTL DEF Spec

LEMMA ShareAlways == Spec => []ShareInv
<1>1. Init => ShareInv
  BY InitShares DEF Init
<1>2. ASSUME ShareInv, [Next]_vars PROVE ShareInv'
  <2>1. CASE NextSharing
    BY <1>2, <2>1, NextShares DEF NextSharing
  <2>2. CASE ~NextSharing
    <3>1. UNCHANGED sharingVars
      BY <1>2, <2>2 DEF Next, NextAppointments, NextSleep, NextPool, NextSearch, vars
    <3>. QED
      BY <1>2, <3>1, StutterShares
  <2>. QED
    BY <2>1, <2>2
<1>. QED
  BY <1>1, <1>2, PTL DEF Spec

\* For any number of appointments, chats, drivers, conversations and checkers,
\* any caps, and in one process or in several: each poke the list counts was
\* notified once or lost in a way the code has; messages sent unasked keep
\* their cooldown, their day, their week and their reason; and a search has
\* its next visit or lost it in a way the code has.
THEOREM PromisesAreKept == Spec => []PromisesKept
<1>1. ApptInv /\ SearchInv /\ ShareInv => PromisesKept
  BY ApptMeans, SearchMeans, SharesMean DEF PromisesKept
<1>. QED
  BY <1>1, ApptAlways, SearchAlways, ShareAlways, PTL
=============================================================================
