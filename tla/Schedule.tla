-------------------------------- MODULE Schedule --------------------------------
(***************************************************************************)
(* The plan of her week (memory/schedule.py). It is drawn with the week as *)
(* the seed, slot by slot; a tiring day loses an activity, and chains put  *)
(* a rehearsal before a performance and a rest after it. The plan is kept  *)
(* in a table and in each process; processes restart, and a table may hold *)
(* a plan an older version of the program drew.                            *)
(***************************************************************************)
EXTENDS Integers, FiniteSets, FiniteSetsExt

CONSTANTS Processes,
          Days,         \* the days of the week, from 0 on
          Pool,         \* activities a slot is drawn from
          Fixed,        \* Fixed[d]: what the profile names slots of d for, "" for a draw
          AtHome,       \* activities at home, "home_rest" among them
          Tiring,       \* activities a tiring day may lose
          Energy,       \* [activities -> Int]: energy used, in tenths
          Budget,       \* the energy of a day
          Before, After, \* [activities -> activities or ""]: the chains of the persona
          Yielding,     \* evening activities a rehearsal may take the place of
          MaxWeek, MaxStarts

Slots == 0..3
Morning == 0
Evening == 2
Night == 3
NoPlan == <<>>
Nothing == [week |-> -1, plan |-> NoPlan]
Activities == DOMAIN Energy

\* What is assumed of the constants: what tires is not done at home, and what a chain puts on an
\* evening asks for no morning.
WeekAssumption ==
    /\ IsFiniteSet(Days) /\ Days = 0..(Cardinality(Days) - 1) /\ Days # {}
    /\ "home_rest" \in AtHome \cap Activities /\ Pool \cup Tiring \subseteq Activities
    /\ Tiring # {} /\ Tiring \cap AtHome = {}
    /\ \A d \in Days : \A s \in DOMAIN Fixed[d] : Fixed[d][s] \in Activities \cup {""}
    /\ {Before, After} \subseteq [Activities -> Activities \cup {""}]
    /\ \A a \in Activities : Before[a] # "" => After[Before[a]] = ""
    /\ MaxWeek \in Nat /\ MaxStarts \in Nat

VARIABLES week,
          draw,         \* what the seed of this week draws for every slot
          table,        \* kv schedule_week
          cache,        \* cache[p]: the plan the process p keeps
          drawn,        \* drawn[p]: a plan p has drawn and not written yet
          starts

vars == <<week, draw, table, cache, drawn, starts>>

(***************************************************************************)
(* generate_week                                                           *)
(***************************************************************************)
\* As DrawnFrom, but the night is drawn like any slot.
DrawnFromAll(s) == Pool

\* At night only what is done at home, or rest.
DrawnFrom(s) ==
    IF s # Night THEN Pool
    ELSE IF Pool \cap AtHome = {} THEN {"home_rest"} ELSE Pool \cap AtHome

Given(d, s) == s \in DOMAIN Fixed[d] /\ Fixed[d][s] # ""

Draws == {x \in [Days -> [Slots -> Pool \cup {"home_rest"}]] :
              \A d \in Days, s \in Slots :
                  x[d][s] \in (IF Given(d, s) THEN {"home_rest"} ELSE DrawnFrom(s))}

Filled(x) == [d \in Days |-> [s \in Slots |-> IF Given(d, s) THEN Fixed[d][s] ELSE x[d][s]]]

\* A day over budget loses the first tiring activity among the slots the profile does not name.
Rested(plan) ==
    [d \in Days |->
        LET spent == MapThenSumSet(LAMBDA s : Energy[plan[d][s]], Slots)
            tiring == {s \in Slots \ DOMAIN Fixed[d] : plan[d][s] \in Tiring}
        IN IF spent > Budget /\ tiring # {}
           THEN [plan[d] EXCEPT ![Min(tiring)] = "home_rest"] ELSE plan[d]]

\* Sunday is followed by Monday.
Following(d) == IF d + 1 \in Days THEN d + 1 ELSE 0
Previous(d) == IF d = 0 THEN Cardinality(Days) - 1 ELSE d - 1

\* The morning after what is done in a slot is what the chain of it says.
MorningAfter(plan, d, s) ==
    LET after == After[plan[d][s]]
    IN IF after = "" THEN plan ELSE [plan EXCEPT ![Following(d)][Morning] = after]

\* The evening before an activity is, if it may yield.
EveningBefore(plan, d, act) ==
    IF Before[act] # "" /\ plan[Previous(d)][Evening] \in Yielding
    THEN [plan EXCEPT ![Previous(d)][Evening] = Before[act]] ELSE plan

\* Evening and night of each day in turn; a later day reads what an earlier one wrote.
ChainsOf(plan, d) ==
    MorningAfter(EveningBefore(MorningAfter(plan, d, Evening), d, plan[d][Evening]), d, Night)

Chained(plan) ==
    LET upTo[n \in 0..Cardinality(Days)] ==
            IF n = 0 THEN plan ELSE ChainsOf(upTo[n - 1], n - 1)
    IN upTo[Cardinality(Days)]

GenerateWeek == Chained(Rested(Filled(draw)))

\* A plan is dropped when it has a night away from home (_plan_night_ok).
NightOk(plan) == \A d \in Days : plan[d][Night] \in AtHome

(***************************************************************************)
(* get_week_plan                                                           *)
(***************************************************************************)
\* An older version may have left a plan of this week with nights out.
Init ==
    /\ week = 0 /\ draw \in Draws
    /\ table \in {Nothing, [week |-> 0, plan |-> [d \in Days |-> [s \in Slots |->
                      IF d = 0 /\ s = Night THEN CHOOSE a \in Tiring : TRUE ELSE "home_rest"]]]}
    /\ cache = [p \in Processes |-> Nothing]
    /\ drawn = [p \in Processes |-> NoPlan]
    /\ starts = 0

InTable == table.week = week /\ NightOk(table.plan)

\* A plan of this week in the table is taken over.
TakeOver(p) ==
    /\ cache[p].week # week /\ drawn[p] = NoPlan
    /\ InTable
    /\ cache' = [cache EXCEPT ![p] = table]
    /\ UNCHANGED <<week, draw, table, drawn, starts>>

Draw(p) ==
    /\ cache[p].week # week /\ drawn[p] = NoPlan
    /\ ~InTable
    /\ drawn' = [drawn EXCEPT ![p] = GenerateWeek]
    /\ UNCHANGED <<week, draw, table, cache, starts>>

\* The plan goes to the table and to the cache, under the week it was drawn for.
Keep(p) ==
    /\ drawn[p] # NoPlan
    /\ table' = [week |-> week, plan |-> drawn[p]]
    /\ cache' = [cache EXCEPT ![p] = table']
    /\ drawn' = [drawn EXCEPT ![p] = NoPlan]
    /\ UNCHANGED <<week, draw, starts>>

Restart(p) ==
    /\ starts < MaxStarts /\ starts' = starts + 1
    /\ cache' = [cache EXCEPT ![p] = Nothing]
    /\ drawn' = [drawn EXCEPT ![p] = NoPlan]
    /\ UNCHANGED <<week, draw, table>>

\* Monday: the week changes for everyone; no plan is being drawn in that instant. Its seed
\* draws the same again, or the same for other days: the bound on the weeks looked at.
NewWeek ==
    /\ week < MaxWeek /\ week' = week + 1
    /\ \A p \in Processes : drawn[p] = NoPlan
    /\ draw' \in {[d \in Days |-> draw[Following(d)]], draw}
    /\ draw' \in Draws
    /\ UNCHANGED <<table, cache, drawn, starts>>

Next ==
    \/ NewWeek
    \/ \E p \in Processes : TakeOver(p) \/ Draw(p) \/ Keep(p) \/ Restart(p)

Spec == Init /\ [][Next]_vars

(***************************************************************************)
(* Properties                                                              *)
(***************************************************************************)
Plans == [Days -> [Slots -> Activities]]

TypeOK ==
    /\ week \in 0..MaxWeek /\ draw \in Draws
    /\ \A e \in {table} \cup {cache[p] : p \in Processes} :
           e = Nothing \/ (e.week \in 0..MaxWeek /\ e.plan \in Plans)
    /\ \A p \in Processes : drawn[p] = NoPlan \/ drawn[p] \in Plans
    /\ starts \in 0..MaxStarts

\* The plans processes go by this week.
Current == {cache[p].plan : p \in {q \in Processes : cache[q].week = week}}

\* Processes that have a plan for this week have the same one, restarts, a race to draw it and
\* a plan of an older version in the table notwithstanding (get_week_plan).
OnePlan == Cardinality(Current) <= 1

\* Nobody is out at night, except where the profile says so; and the morning after an evening
\* or night that asks for it is what its chain says, in the plan as it came out after days were
\* rested and evenings given to rehearsals (generate_week).
PlanHolds ==
    \A plan \in Current, d \in Days :
        /\ Given(d, Night) \/ plan[d][Night] \in AtHome
        /\ LET asked == IF After[plan[d][Night]] # "" THEN Night ELSE Evening
           IN After[plan[d][asked]] \in {"", plan[Following(d)][Morning]}

WeekIsSound == OnePlan /\ PlanHolds
================================================================================
