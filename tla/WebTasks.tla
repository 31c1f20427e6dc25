------------------------------- MODULE WebTasks -------------------------------
(***************************************************************************)
(* Tasks of the console (web/app.py): evaluations and ablations run in     *)
(* threads, a few at a time. An evaluation appends its result to the       *)
(* history and compares it (the regression gate); an ablation switches     *)
(* parts of the configuration off, one after the other, measures, and puts *)
(* the configuration back (tools.core.run_ablation), while an operator may *)
(* switch parts of it for good (apply_switch).                             *)
(***************************************************************************)
EXTENDS Integers, Sequences, FiniteSets

CONSTANTS
    Tasks,      \* threads
    Kinds,      \* kinds of evaluation
    Switches,   \* what can be switched off
    Concurrent, \* MAX_CONCURRENT
    HistoryLength,       \* 200 entries
    MaxTasks, MaxToggles \* bounds: tasks, switches by the operator

\* What is assumed of the constants.
WebTasksAssumption == Concurrent \in Nat \ {0} /\ HistoryLength \in Nat \ {0}

VARIABLES
    config,   \* what is switched off in the console's process
    disk,     \* what is switched off in config.json
    chosen,   \* what the operator switched off (not in the code)
    disturbed, \* an ablation met another, the operator, or an error (not in the code)
    history,  \* baseline_history
    ended,    \* the evaluations that have written their entry, in order (not in the code)
    mixed,    \* two have written at the same time (not in the code)
    log,      \* experiment_log: the last entry, and whether it says regression
    task,     \* a task
    tasks, toggles

vars == <<config, disk, chosen, disturbed, history, ended, mixed, log, task, tasks, toggles>>

NoTask == [phase |-> "none", kind |-> "none", id |-> 0, score |-> 0, hist |-> <<>>, base |-> {},
           left |-> {}]
Ablation == "ablation"

Init ==
    /\ config = {} /\ disk = {} /\ chosen = {} /\ disturbed = FALSE
    /\ history = <<>> /\ ended = <<>> /\ mixed = FALSE /\ log = [kind |-> "none", regression |-> FALSE]
    /\ task = [t \in Tasks |-> NoTask] /\ tasks = 0 /\ toggles = 0

Goes(t, to) == task' = [task EXCEPT ![t] = to]
In(t, phase) == task[t].phase = phase
\* The semaphore.
Running == {t \in Tasks : task[t].phase \notin {"none", "waiting", "done", "error"}}
Ablating == {t \in Tasks : task[t].phase \in {"measuring", "switching"}}

\* submit
Submit(t, kind) ==
    /\ task[t].phase \in {"none", "done", "error"} /\ tasks < MaxTasks /\ tasks' = tasks + 1
    /\ Goes(t, [NoTask EXCEPT !.phase = "waiting", !.kind = kind, !.id = tasks'])
    /\ UNCHANGED <<config, disk, chosen, disturbed, history, ended, mixed, log, toggles>>
\* run_task: an ablation copies the configuration.
Start(t) ==
    /\ In(t, "waiting") /\ Cardinality(Running) < Concurrent
    /\ IF task[t].kind = Ablation
       THEN /\ Goes(t, [task[t] EXCEPT !.phase = "measuring", !.base = config, !.left = Switches])
            /\ disturbed' = (disturbed \/ Ablating # {})
       ELSE Goes(t, [task[t] EXCEPT !.phase = "evaluating"]) /\ UNCHANGED disturbed
    /\ UNCHANGED <<config, disk, chosen, history, ended, mixed, log, tasks, toggles>>

-----------------------------------------------------------------------------
(* An evaluation. *)

\* The result is the task's, which is done; its entry is still to be written.
Evaluate(t, score) ==
    /\ In(t, "evaluating")
    /\ Goes(t, [task[t] EXCEPT !.phase = "evaluated", !.score = score])
    /\ UNCHANGED <<config, disk, chosen, disturbed, history, ended, mixed, log, tasks, toggles>>
EvaluateFails(t) ==
    /\ In(t, "evaluating")
    /\ Goes(t, [NoTask EXCEPT !.phase = "error"])
    /\ UNCHANGED <<config, disk, chosen, disturbed, history, ended, mixed, log, tasks, toggles>>

ReadHistory(t) ==
    /\ In(t, "evaluated")
    /\ Goes(t, [task[t] EXCEPT !.phase = "appending", !.hist = history])
    /\ UNCHANGED <<config, disk, chosen, disturbed, history, ended, mixed, log, tasks, toggles>>
HistoryEntry(t) == [kind |-> task[t].kind, id |-> task[t].id, score |-> task[t].score]
\* Seeded fault: the first entries are kept.
Earliest(s) == SubSeq(s, 1, IF Len(s) > HistoryLength THEN HistoryLength ELSE Len(s))
\* hist[-200:]
Latest(s) == IF Len(s) > HistoryLength THEN SubSeq(s, Len(s) - HistoryLength + 1, Len(s)) ELSE s
Appended(t) == Append(task[t].hist, HistoryEntry(t))
WriteHistory(t) ==
    /\ In(t, "appending")
    /\ history' = Latest(Appended(t))
    /\ ended' = Append(ended, HistoryEntry(t))
    /\ mixed' = (mixed \/ \E i \in Tasks \ {t} : In(i, "appending"))
    /\ Goes(t, [task[t] EXCEPT !.phase = "comparing", !.hist = Appended(t)])
    /\ UNCHANGED <<config, disk, chosen, disturbed, log, tasks, toggles>>

\* The metrics of two kinds have no name in common: nothing is compared then.
Regression(before, after) == before.kind = after.kind /\ after.score < before.score
Compare(t) ==
    LET hist == task[t].hist
    IN  /\ In(t, "comparing")
        /\ log' = IF Len(hist) < 2 THEN log
                  ELSE [kind |-> task[t].kind,
                        regression |-> Regression(hist[Len(hist) - 1], HistoryEntry(t))]
        /\ Goes(t, [NoTask EXCEPT !.phase = "done"])
        /\ UNCHANGED <<config, disk, chosen, disturbed, history, ended, mixed, tasks, toggles>>

-----------------------------------------------------------------------------
(* An ablation. *)

\* The configuration is the copy, less one switch.
SwitchOff(t, switch) ==
    /\ In(t, "measuring") /\ switch \in task[t].left
    /\ config' = task[t].base \cup {switch}
    /\ Goes(t, [task[t] EXCEPT !.phase = "switching", !.left = @ \ {switch}])
    /\ UNCHANGED <<disk, chosen, disturbed, history, ended, mixed, log, tasks, toggles>>
\* Measured, and logged.
Measure(t) ==
    /\ In(t, "switching")
    /\ \E regression \in BOOLEAN : log' = [kind |-> Ablation, regression |-> regression]
    /\ Goes(t, [task[t] EXCEPT !.phase = "measuring"])
    /\ UNCHANGED <<config, disk, chosen, disturbed, history, ended, mixed, tasks, toggles>>
\* An error of the log ends the task, which puts nothing back.
MeasureFails(t) ==
    /\ In(t, "switching") /\ disturbed' = TRUE
    /\ Goes(t, [NoTask EXCEPT !.phase = "error"])
    /\ UNCHANGED <<config, disk, chosen, history, ended, mixed, log, tasks, toggles>>
\* Seeded fault: what the last one switched off stays off.
PutNothingBack(t) == config
PutBack(t) == task[t].base
Restore(t) ==
    /\ In(t, "measuring") /\ task[t].left = {}
    /\ config' = PutBack(t)
    /\ Goes(t, [NoTask EXCEPT !.phase = "done"])
    /\ UNCHANGED <<disk, chosen, disturbed, history, ended, mixed, log, tasks, toggles>>

\* apply_switch: the whole configuration is saved, which the bot then loads.
ApplySwitch(switch) ==
    /\ toggles < MaxToggles /\ toggles' = toggles + 1
    /\ config' = (config \ {switch}) \cup ({switch} \ config)
    /\ disk' = config'
    /\ chosen' = (chosen \ {switch}) \cup ({switch} \cap config')
    /\ disturbed' = (disturbed \/ Ablating # {})
    /\ UNCHANGED <<history, ended, mixed, log, task, tasks>>

Next ==
    \/ \E t \in Tasks : \/ \E kind \in Kinds \cup {Ablation} : Submit(t, kind)
                        \/ Start(t) \/ \E score \in {1, 2} : Evaluate(t, score)
                        \/ EvaluateFails(t) \/ ReadHistory(t) \/ WriteHistory(t) \/ Compare(t)
                        \/ \E switch \in Switches : SwitchOff(t, switch)
                        \/ Measure(t) \/ MeasureFails(t) \/ Restore(t)
    \/ \E switch \in Switches : ApplySwitch(switch)

Spec == Init /\ [][Next]_vars

-----------------------------------------------------------------------------
(* Properties *)

\* The configuration, the history and the tasks have their types, and no more
\* tasks run than may.
TypeOK ==
    /\ config \subseteq Switches /\ disk \subseteq Switches
    /\ Len(history) <= HistoryLength
    /\ \A i \in DOMAIN history : history[i].kind \in Kinds /\ history[i].id \in 1..MaxTasks
    /\ Cardinality(Running) <= Concurrent

\* When no ablation runs, the console has the configuration the operator chose,
\* which is the one on disk, unless ablations overlapped, the operator switched
\* during one, or one ended with an error (run_ablation, apply_switch).
ConfigPutBack == Ablating = {} /\ ~disturbed => config = chosen /\ disk = chosen

\* As long as no two evaluations write at the same time, the history is the
\* latest of them, in the order they wrote; no evaluation is ever in it twice
\* (run_task).
HistoryInOrder ==
    /\ ~mixed => LET n == Len(history)
                 IN  /\ history = SubSeq(ended, Len(ended) - n + 1, Len(ended))
                     /\ n = HistoryLength \/ n = Len(ended)
    /\ \A i, j \in DOMAIN history : i # j => history[i].id # history[j].id
===============================================================================
