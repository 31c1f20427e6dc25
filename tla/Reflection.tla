------------------------------ MODULE Reflection ------------------------------
(***************************************************************************)
(* What she believes (scope "ai", key "belief"): beliefs are written by    *)
(* the night (backfill.consolidate), each is judged by a model against     *)
(* evidence (advisor.reflect_beliefs), every verdict is logged, and an     *)
(* entry of the log can be taken back (rollback_belief). A night can be    *)
(* started from the bot, the console and the command line: two may run at  *)
(* once, and each judges the beliefs as it has read them.                  *)
(***************************************************************************)
EXTENDS Integers, Sequences, FiniteSets

CONSTANTS
    Nights,   \* nights under way
    Beliefs,  \* texts
    Trusts,   \* confidences a model gives, in hundredths
    MaxNights, MaxEntries \* bounds: nights, entries of the log

\* What is assumed of the constants.
ReflectionAssumption == Trusts \subseteq 0..100

VARIABLES
    beliefs,  \* memories of scope "ai", key "belief"
    log,      \* belief_log
    said,     \* the last verdict since a belief was written (not in the code)
    night,    \* a night under way
    undo,     \* rollback_belief under way
    nights

vars == <<beliefs, log, said, night, undo, nights>>

NoRow == [there |-> FALSE, conf |-> 0]
Awake == [phase |-> "awake", todo |-> {}, read |-> [b \in Beliefs |-> 0], entry |-> {}, then |-> {}]
NoUndo == [phase |-> "idle", entry |-> {}]

Init ==
    /\ beliefs = [b \in Beliefs |-> NoRow]
    /\ log = <<>> /\ said = [b \in Beliefs |-> "none"]
    /\ night = [n \in Nights |-> Awake] /\ undo = NoUndo /\ nights = 0

Larger(a, b) == IF a > b THEN a ELSE b
Goes(n, to) == night' = [night EXCEPT ![n] = to]

-----------------------------------------------------------------------------
(* The tables. *)

\* memory_add writes the whole row.
MemoryAdd(b, conf) ==
    /\ beliefs' = [beliefs EXCEPT ![b] = [there |-> TRUE, conf |-> conf]]
    /\ said' = [said EXCEPT ![b] = "none"]
\* memory_set_confidence: of a row that is there.
SetConfidence(b, conf, verdict) ==
    /\ beliefs' = [beliefs EXCEPT ![b].conf = IF beliefs[b].there THEN conf ELSE @]
    /\ said' = [said EXCEPT ![b] = verdict]
LogAdd(entry) == log' = Append(log, entry)

\* ai_memory_block: those that are trusted, if they are among the latest.
Shown == {b \in Beliefs : beliefs[b].there /\ beliefs[b].conf >= 35}

-----------------------------------------------------------------------------
(* A night. *)

NightBegins(n) ==
    /\ night[n].phase = "awake" /\ nights < MaxNights /\ nights' = nights + 1
    /\ Goes(n, [Awake EXCEPT !.phase = "consolidating"])
    /\ UNCHANGED <<beliefs, log, said, undo>>
\* consolidate: what the model says of the events of a type is a belief, be it
\* new or not.
Consolidate(n, b) ==
    /\ night[n].phase = "consolidating"
    /\ MemoryAdd(b, 50)
    /\ Goes(n, [night[n] EXCEPT !.phase = "reading"])
    /\ UNCHANGED <<log, undo, nights>>
ConsolidateNothing(n) ==
    /\ night[n].phase = "consolidating"
    /\ Goes(n, [night[n] EXCEPT !.phase = "reading"])
    /\ UNCHANGED <<beliefs, log, said, undo, nights>>

ReadBeliefs(n) ==
    /\ night[n].phase = "reading"
    /\ Goes(n, [night[n] EXCEPT !.phase = "judging",
                                !.todo = {b \in Beliefs : beliefs[b].there},
                                !.read = [b \in Beliefs |-> beliefs[b].conf]])
    /\ UNCHANGED <<beliefs, log, said, undo, nights>>

Entry(content, action, conf, old) ==
    [content |-> content, action |-> action, conf |-> conf, old |-> old]
\* The next belief: entry is to be logged, after then is written.
Judged(n, b, entry, then) ==
    Goes(n, [night[n] EXCEPT !.phase = "logging", !.todo = @ \ {b}, !.entry = {entry},
                             !.then = then])

\* policy.update with "confirm": odds are doubled.
Confirmed(conf) == LET p == (200 * conf) \div (100 + conf)
                   IN  IF p > 99 THEN 99 ELSE Larger(5, p)
Accept(n, b) ==
    LET conf == Confirmed(night[n].read[b])
    IN  /\ SetConfidence(b, conf, "kept")
        /\ Judged(n, b, Entry(b, "accept", conf, b), {})
\* Seeded fault: a doubted belief has no floor.
DoubtedToNothing(conf, percent) == (conf * percent) \div 100
Doubted(conf, percent) == Larger(20, (conf * percent) \div 100)
Revise(n, b) ==
    LET conf == Doubted(night[n].read[b], 70)
    IN  /\ SetConfidence(b, conf, "kept")
        /\ Judged(n, b, Entry(b, "revise", conf, b), {})
\* The model words it anew: the new one is written, then the old one doubted.
Rewrite(n, b, new, trust) ==
    /\ new # b
    /\ MemoryAdd(new, trust)
    /\ Judged(n, b, Entry(new, "revise", trust, b), {b})
\* Seeded fault: what is rejected is halved.
HalvedOf(conf) == conf \div 2
RejectedOf(conf) == 5
Reject(n, b) ==
    LET conf == RejectedOf(night[n].read[b])
    IN  /\ SetConfidence(b, conf, "rejected")
        /\ Judged(n, b, Entry(b, "reject", conf, b), {})
\* The rules reject, doubt or accept (_rule_review); the model may word anew
\* (_llm_review). What the evidence is, is left open.
Judge(n, b) ==
    /\ night[n].phase = "judging" /\ b \in night[n].todo /\ Len(log) < MaxEntries
    /\ \/ Accept(n, b) \/ Revise(n, b) \/ Reject(n, b)
       \/ \E new \in Beliefs, trust \in Trusts : Rewrite(n, b, new, trust)
    /\ UNCHANGED <<log, undo, nights>>
DoubtOld(n) ==
    /\ night[n].phase = "logging"
    /\ \E b \in night[n].then : SetConfidence(b, Doubted(night[n].read[b], 50), "kept")
    /\ Goes(n, [night[n] EXCEPT !.then = {}])
    /\ UNCHANGED <<log, undo, nights>>
LogVerdict(n) ==
    /\ night[n].phase = "logging" /\ night[n].then = {}
    /\ \E entry \in night[n].entry : LogAdd(entry)
    /\ Goes(n, [night[n] EXCEPT !.phase = "judging", !.entry = {}])
    /\ UNCHANGED <<beliefs, said, undo, nights>>
NightEnds(n) ==
    /\ night[n].phase = "judging" /\ (night[n].todo = {} \/ Len(log) >= MaxEntries)
    /\ Goes(n, Awake)
    /\ UNCHANGED <<beliefs, log, said, undo, nights>>

-----------------------------------------------------------------------------
(* rollback_belief, of any entry. *)

Rollback(i) ==
    /\ undo.phase = "idle" /\ i \in DOMAIN log /\ Len(log) < MaxEntries
    /\ MemoryAdd(log[i].old, Larger(log[i].conf, 50))
    /\ undo' = [phase |-> IF log[i].action \in {"revise", "reject"} THEN "lowering" ELSE "logging",
                entry |-> {log[i]}]
    /\ UNCHANGED <<log, night, nights>>
RollbackLower ==
    /\ undo.phase = "lowering"
    /\ \E entry \in undo.entry : SetConfidence(entry.content, 5, "rejected")
    /\ undo' = [undo EXCEPT !.phase = "logging"]
    /\ UNCHANGED <<log, night, nights>>
RollbackLog ==
    /\ undo.phase = "logging"
    /\ \E e \in undo.entry : LogAdd(Entry(e.old, "rollback", e.conf, e.content))
    /\ undo' = NoUndo
    /\ UNCHANGED <<beliefs, said, night, nights>>

Next ==
    \/ \E n \in Nights :
           \/ NightBegins(n) \/ ConsolidateNothing(n) \/ ReadBeliefs(n) \/ DoubtOld(n)
           \/ LogVerdict(n) \/ NightEnds(n)
           \/ \E b \in Beliefs : Consolidate(n, b) \/ Judge(n, b)
    \/ \E i \in DOMAIN log : Rollback(i)
    \/ RollbackLower \/ RollbackLog

Spec == Init /\ [][Next]_vars

-----------------------------------------------------------------------------
(* Properties *)

Entries == [content : Beliefs, action : {"accept", "revise", "reject", "rollback"},
            conf : 0..100, old : Beliefs]

\* Beliefs, the log and the verdicts have their types.
TypeOK ==
    /\ beliefs \in [Beliefs -> [there : BOOLEAN, conf : 0..100]]
    /\ log \in Seq(Entries)
    /\ said \in [Beliefs -> {"none", "kept", "rejected"}]

\* Whatever was read before the verdict of another night, a belief that the
\* prompt shows was not rejected since it was written (ai_memory_block).
ShownNotRejected == \A b \in Shown : said[b] # "rejected"

\* Trust is never lost unseen: for a belief that is hardly trusted the log has an
\* entry that says so, or one is about to be written. However often it is
\* doubted, doubt alone does not do it (reflect_beliefs, belief_log_add).
DoubtLogged ==
    \A b \in Beliefs : beliefs[b].there /\ beliefs[b].conf < 20 =>
        \/ \E i \in DOMAIN log : log[i].conf < 20 /\ log[i].content = b
        \/ \E i \in DOMAIN log : log[i].action = "rollback" /\ log[i].old = b
        \/ \E n \in Nights : \E e \in night[n].entry : e.conf < 20 /\ e.content = b
        \/ \E e \in undo.entry : e.content = b /\ e.action \in {"revise", "reject"}
================================================================================
