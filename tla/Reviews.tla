-------------------------------- MODULE Reviews --------------------------------
(***************************************************************************)
(* The scores people give to traces (memory/trace.py) and conversations    *)
(* (memory/convreview.py), the adjustments operators derive from them and  *)
(* roll back, and the behaviour the bot takes from both, by way of two     *)
(* caches of ten minutes in two processes. Both data layers.               *)
(* One dimension of each kind of score, the last score instead of an       *)
(* average.                                                                *)
(***************************************************************************)
EXTENDS Integers

CONSTANTS
    Backends,    \* "sqlite", "postgres"
    Ttl,         \* the caches of adjustments and of the report, 600 s
    MaxReviews,  \* bound: scores, applications and rollbacks
    MaxTime      \* bound: the clock

\* What is assumed of the constants.
ReviewsAssumption == Ttl \in Nat \ {0}

VARIABLES
    backend,   \* YUNO_DB_BACKEND
    now,       \* the clock
    given,     \* the last score of the traces, as a reviewer gave it
    scores,    \* trace_review.scores, as they can be read again
    convs,     \* conv_review: the last score
    audited,   \* rows of audit that ask for a look at a score
    report,    \* _report_cache of the operators' process
    adj,       \* kv conv_adjustments
    cache,     \* _adjust_cache of the bot
    asking,    \* a call of adjustments() that has not stored its result
    used,      \* the last result of adjustments()
    changed,   \* when scores or conv_adjustments last changed
    reviews

vars == <<backend, now, given, scores, convs, audited, report, adj, cache, asking, used,
          changed, reviews>>

botVars == <<cache, asking, used>>
reviewVars == <<given, scores, convs, audited, report, adj, changed, reviews>>

Default == [strict |-> FALSE, params |-> FALSE]
Empty == [at |-> 0, data |-> Default, empty |-> TRUE]
NoReport == [at |-> 0, low |-> FALSE, empty |-> TRUE]

Init ==
    /\ backend \in Backends
    /\ now = 0
    /\ given = "none" /\ scores = "none" /\ convs = "none" /\ audited = {}
    /\ report = NoReport
    /\ adj = "none"
    /\ cache = Empty /\ asking = Empty /\ used = Empty
    /\ changed = 0 /\ reviews = 0

-----------------------------------------------------------------------------
(* Scores, and what follows from them. *)

Review == reviews < MaxReviews /\ reviews' = reviews + 1

\* trace_review_add: PostgreSQL stores str(scores), which is no JSON.
SqliteTraceReview(score) == score
PgTraceReview(score) == "unreadable"
TraceReview(score) ==
    IF backend = "sqlite" THEN SqliteTraceReview(score) ELSE PgTraceReview(score)
SqliteConvReview(score) == score
PgConvReview(score) == score
ConvReview(score) ==
    IF backend = "sqlite" THEN SqliteConvReview(score) ELSE PgConvReview(score)

\* score(): the score is stored; a low one is put before the operators (audit).
Audit(kind, low) == audited' = IF low THEN audited \cup {kind} ELSE audited
ScoreTrace(score) ==
    /\ Review
    /\ given' = score /\ scores' = TraceReview(score)
    /\ Audit("trace", score = "low")
    /\ changed' = now
    /\ UNCHANGED <<backend, now, convs, report, adj, botVars>>
ScoreConv(score) ==
    /\ Review
    /\ convs' = ConvReview(score)
    /\ Audit("conv", score = "low")
    /\ UNCHANGED <<backend, now, given, scores, report, adj, changed, botVars>>

\* report(): the low dimensions, cached in the process of the operators, which
\* ends with the command (ToolsEnd) or stays (the SDK).
Report ==
    IF ~report.empty /\ now - report.at < Ttl THEN report
    ELSE [at |-> now, low |-> convs = "low", empty |-> FALSE]
ToolsEnd ==
    /\ ~report.empty
    /\ report' = NoReport
    /\ UNCHANGED <<backend, now, given, scores, convs, audited, adj, changed,
                   reviews, botVars>>

\* apply_adjustments with auto_adjust on or off, and rollback_adjustments.
Apply(auto) ==
    /\ Review
    /\ report' = Report
    /\ adj' = IF ~auto THEN "dry" ELSE IF Report.low THEN "params" ELSE "none"
    /\ Audit("adjust", auto /\ Report.low)
    /\ changed' = now
    /\ UNCHANGED <<backend, now, given, scores, convs, botVars>>
Rollback ==
    /\ Review
    /\ adj' = "none"
    /\ changed' = now
    /\ UNCHANGED <<backend, now, given, scores, convs, audited, report, botVars>>

\* Seeded fault: the cache is not looked at for its age.
ForEver(result) == ~result.empty
Fresh(result) == ~result.empty /\ now - result.at < Ttl

\* adjustments() of the bot: from the cache; or computed, and stored later.
Compute == [strict |-> scores = "low", params |-> adj = "params"]
UseCached ==
    /\ Fresh(cache)
    /\ used' = [at |-> now, data |-> cache.data, empty |-> FALSE]
    /\ UNCHANGED <<backend, now, reviewVars, cache, asking>>
Ask ==
    /\ asking.empty /\ ~Fresh(cache)
    /\ asking' = [at |-> now, data |-> Compute, empty |-> FALSE]
    /\ UNCHANGED <<backend, now, reviewVars, cache, used>>
Store ==
    /\ ~asking.empty
    /\ cache' = asking /\ used' = asking /\ asking' = Empty
    /\ UNCHANGED <<backend, now, reviewVars>>

Tick ==
    /\ now < MaxTime
    /\ now' = now + 1
    /\ UNCHANGED <<backend, reviewVars, botVars>>

Next ==
    \/ \E score \in {"low", "high"} : ScoreTrace(score) \/ ScoreConv(score)
    \/ \E auto \in BOOLEAN : Apply(auto)
    \/ Rollback \/ ToolsEnd
    \/ UseCached \/ Ask \/ Store
    \/ Tick

Spec == Init /\ [][Next]_vars

-----------------------------------------------------------------------------
(* Properties *)

\* Scores and caches have their types.
TypeOK ==
    /\ given \in {"none", "low", "high"} /\ scores \in {"none", "low", "high", "unreadable"}
    /\ adj \in {"none", "dry", "params"}
    /\ cache.data \in [strict : BOOLEAN, params : BOOLEAN]
    /\ cache.at <= now /\ changed <= now

\* The bot behaves as scores and commands say, or said less than the life of
\* the cache ago: a rollback takes effect (trace.adjustments). The scores of
\* traces count on SQLite only.
AdjustmentsCurrent ==
    ~used.empty /\ used.at >= changed + Ttl =>
        /\ used.data.params = (adj = "params")
        /\ backend = "sqlite" => used.data.strict = (given = "low")
===============================================================================
