---------------------------------- MODULE Dates ----------------------------------
(***************************************************************************)
(* Dates in what is said: a phrase such as "last Wednesday" becomes a      *)
(* range of days (memory/time_extract.py), which dates the event told or   *)
(* narrows the memories a question is about; "on the 30th" becomes the day *)
(* of an appointment (memory/appointment.py); and an event that is recalled *)
(* is shown with how long ago it was. A day is a number, 0 the first of    *)
(* the first month; how dates are spelled and times of day are left out.   *)
(***************************************************************************)
EXTENDS Integers, Sequences, FiniteSets, FiniteSetsExt

CONSTANTS
    First,        \* the first day of each month of the calendar, and the day after the last
    FirstWeekday, \* weekday of day 0, Monday being 0
    Today,        \* days something may be said on
    Numbers,      \* days of the month a phrase may name
    MaxLater      \* bound: days until the event is recalled

\* What is assumed of the constants.
CalendarAssumption ==
    /\ First \in Seq(Nat) /\ Len(First) > 1 /\ First[1] = 0
    /\ \A m \in 1..(Len(First) - 1) : First[m + 1] - First[m] \in 28..31
    /\ FirstWeekday \in 0..6 /\ Numbers \subseteq 1..31
    \* The calendar goes on before and after what is said.
    /\ \A d \in Today : d \in First[2]..(First[Len(First) - 1] - 1)

VARIABLES
    today,
    told,         \* {<<phrase, day it was said, start, end>>}, or {}
    booked,       \* {<<phrase, day it was said, result>>}: result {} if none, {day}, or failed
    shown,        \* {<<day of the event, today, label>>}
    later

vars == <<today, told, booked, shown, later>>

-----------------------------------------------------------------------------
(* The calendar. *)

Months == 1..(Len(First) - 1)
LengthOf(m) == First[m + 1] - First[m]
MonthOf(d) == CHOOSE m \in Months : First[m] <= d /\ d < First[m + 1]
Horizon == First[Len(First)] - 1
Weekday(d) == (d + FirstWeekday) % 7

\* _month_end, and the first weekday wd from start on, if there is one up to end.
MonthEnd(m) == First[m + 1] - 1
FindWeekday(start, end, wd) ==
    LET d == start + ((wd - Weekday(start)) % 7) IN IF d <= end THEN {d} ELSE {}

-----------------------------------------------------------------------------
(* extract: what is tested for first comes first; a phrase is its kind and *)
(* the weekday or day it names, -1 if it names none.                       *)

Weeks == {"last_week", "week_after_next", "next_week"}
Phrases ==
    ({"today", "yesterday", "day_before", "next_weekend", "weekend", "this_week",
      "last_month", "some_days_ago"} \X {-1})
    \cup ((Weeks \cup {"month_end"}) \X (-1..6))
    \cup ({"next_month"} \X (Numbers \cup {-1}))

DayRange(d) == <<d, d + 1>>
Monday(d) == d - Weekday(d)

\* As WeekRange, but a week begins seven days before the day it is said on.
WeekRangeFromToday(d, ahead, wd) ==
    LET monday == d + ahead
    IN IF wd >= 0 THEN DayRange(monday + wd) ELSE <<monday, monday + 7>>

WeekRange(d, ahead, wd) ==
    LET monday == Monday(d) + ahead
    IN IF wd >= 0 THEN DayRange(monday + wd) ELSE <<monday, monday + 7>>

\* A day the next month does not have becomes its last.
NextMonth(d, number) ==
    LET m == MonthOf(d) + 1
    IN IF number > 0 THEN DayRange(First[m] + Min({number, LengthOf(m)}) - 1)
       ELSE <<First[m], MonthEnd(m) + 1>>

\* The last seven days, or the weekday among them.
MonthEndRange(d, wd) ==
    LET end == MonthEnd(MonthOf(d))
        found == IF wd >= 0 THEN FindWeekday(end - 6, end, wd) ELSE {}
    IN IF found = {} THEN <<end - 6, end + 1>> ELSE DayRange(CHOOSE x \in found : TRUE)

DaysOf(kind, n, d) ==
    CASE kind = "today" -> DayRange(d)
      [] kind = "yesterday" -> DayRange(d - 1)
      [] kind = "day_before" -> DayRange(d - 2)
      [] kind = "last_week" -> WeekRange(d, -7, n)
      [] kind = "week_after_next" -> WeekRange(d, 14, n)
      [] kind = "next_weekend" -> <<Monday(d) + 12, Monday(d) + 14>>
      [] kind = "next_week" -> WeekRange(d, 7, n)
      [] kind = "weekend" -> <<Monday(d) + 5, Monday(d) + 7>>
      [] kind = "this_week" -> WeekRange(d, 0, -1)
      [] kind = "next_month" -> NextMonth(d, n)
      [] kind = "last_month" -> <<First[MonthOf(First[MonthOf(d)] - 1)], First[MonthOf(d)]>>
      [] kind = "month_end" -> MonthEndRange(d, n)
      [] kind = "some_days_ago" -> <<d - 7, d>>

-----------------------------------------------------------------------------
(* _parse_dt. *)

Failed == {-1}

\* A day of this month, or of the next when it is over; a month that does not have the day
\* raises a ValueError nobody expects.
OnThe(d, number) ==
    LET m == MonthOf(d)
        same == First[m] + number - 1
        next == MonthOf(First[m] + 32)
    IN IF number > LengthOf(m) THEN Failed
       ELSE IF same >= d THEN {same}
       ELSE IF number > LengthOf(next) THEN Failed ELSE {First[next] + number - 1}

\* As NextWeekday, but a weekday that is today means today.
NextWeekdayOrToday(d, wd) == {d + ((wd - Weekday(d)) % 7)}

\* The weekday that comes, in a week when it is today.
NextWeekday(d, wd) ==
    LET ahead == (wd - Weekday(d)) % 7 IN {d + IF ahead = 0 THEN 7 ELSE ahead}

\* The end of the month is no day.
ParseDt(kind, n, d) ==
    CASE kind = "on_the" -> OnThe(d, n)
      [] kind = "on_weekday" -> NextWeekday(d, n)
      [] kind = "in_days" -> {d + n}
      [] kind = "at_the_end_of_the_month" -> {}

Appointments == ({"on_the"} \X Numbers) \cup ({"on_weekday"} \X (0..6))
                \cup ({"in_days"} \X (0..2)) \cup {<<"at_the_end_of_the_month", 0>>}

-----------------------------------------------------------------------------
(* label_for, of an event whose day is known: the number of days, that it  *)
(* was last week, or its date.                                             *)

LabelFor(event, d) ==
    LET days == d - event
    IN CASE days < 0 -> <<"none", 0>>
         [] days \in 0..7 -> <<"days_ago", days>>
         [] days \in 8..14 -> <<"last_week", 0>>
         [] days > 14 -> <<"date", event>>

-----------------------------------------------------------------------------
Init ==
    /\ today \in Today
    /\ told = {} /\ booked = {} /\ shown = {} /\ later = 0

Tell(p) ==
    LET r == DaysOf(p[1], p[2], today)
    IN /\ told = {} /\ booked = {}
       /\ told' = {<<p, today, r[1], r[2]>>}
       /\ UNCHANGED <<today, booked, shown, later>>

Book(p) ==
    /\ told = {} /\ booked = {}
    /\ booked' = {<<p, today, ParseDt(p[1], p[2], today)>>}
    /\ UNCHANGED <<today, told, shown, later>>

NextDay ==
    /\ told # {} /\ later < MaxLater
    /\ today' = today + 1 /\ later' = later + 1
    /\ UNCHANGED <<told, booked, shown>>

\* The event has the day its range begins with.
Recall(event) ==
    /\ event \in told /\ shown = {}
    /\ shown' = {<<event[3], today, LabelFor(event[3], today)>>}
    /\ UNCHANGED <<today, told, booked, later>>

Next ==
    \/ \E p \in Phrases : Tell(p)
    \/ \E p \in Appointments : Book(p)
    \/ \E event \in told : Recall(event)
    \/ NextDay

Spec == Init /\ [][Next]_vars

-----------------------------------------------------------------------------
(* Properties *)

TypeOK ==
    /\ today \in 0..Horizon
    /\ \A e \in told : e[1] \in Phrases /\ e[3] \in 0..Horizon /\ e[4] \in 1..(Horizon + 1)
    /\ \A b \in booked : b[1] \in Appointments /\ b[3] \subseteq (0..Horizon) \cup Failed
    /\ later \in 0..MaxLater

\* What a phrase means, by the week and the month its days are in: the reference.
WeekOf(d) == (d + FirstWeekday) \div 7
NumberOf(d) == d - First[MonthOf(d)] + 1
LastOf(m) == {d \in (First[m] + 20)..MonthEnd(m) : MonthOf(d + 7) # m}

Meant(kind, n, d) ==
    {x \in 0..Horizon :
        CASE kind = "today" -> x = d
          [] kind = "yesterday" -> x = d - 1
          [] kind = "day_before" -> x = d - 2
          [] kind = "last_week" -> WeekOf(x) + 1 = WeekOf(d) /\ n \in {-1, Weekday(x)}
          [] kind = "this_week" -> WeekOf(x) = WeekOf(d)
          [] kind = "weekend" -> WeekOf(x) = WeekOf(d) /\ Weekday(x) \in {5, 6}
          [] kind = "next_week" -> WeekOf(x) = WeekOf(d) + 1 /\ n \in {-1, Weekday(x)}
          [] kind = "next_weekend" -> WeekOf(x) = WeekOf(d) + 1 /\ Weekday(x) \in {5, 6}
          [] kind = "week_after_next" -> WeekOf(x) = WeekOf(d) + 2 /\ n \in {-1, Weekday(x)}
          [] kind = "last_month" -> MonthOf(x) + 1 = MonthOf(d)
          [] kind = "next_month" ->
                 MonthOf(x) = MonthOf(d) + 1
                 /\ (n = -1 \/ NumberOf(x) = n \/ (x = MonthEnd(MonthOf(x)) /\ n > NumberOf(x)))
          [] kind = "month_end" -> x \in LastOf(MonthOf(d)) /\ n \in {-1, Weekday(x)}
          [] kind = "some_days_ago" -> x \in (d - 7)..(d - 1)}

\* The range of a phrase is the days it means, wherever in week and month it is said, also across
\* the ends of months and in months without the day it names (extract).
MeansWhatItSays == \A e \in told : e[3]..(e[4] - 1) = Meant(e[1][1], e[1][2], e[2])

\* An appointment is on the next day that has the weekday or number said, and never over
\* (_parse_dt).
AppointmentIsNext ==
    \A b \in booked :
        LET n == b[1][2]
            fits(x) == IF b[1][1] = "on_the" THEN NumberOf(x) = n ELSE Weekday(x) = n
            from == IF b[1][1] = "on_the" THEN b[2] ELSE b[2] + 1
        IN b[1][1] \in {"on_the", "on_weekday"} /\ b[3] # Failed =>
               b[3] = {Min({x \in from..(from + 70) : fits(x)})}

\* An event shown as days ago was as many days ago; one shown as last week was in the last week or
\* the one before (label_for).
LabelIsTrue ==
    \A s \in shown :
        /\ s[3][1] = "days_ago" => s[1] + s[3][2] = s[2]
        /\ s[3][1] = "last_week" => WeekOf(s[2]) - WeekOf(s[1]) \in {1, 2}
        /\ s[3][1] = "none" => s[1] > s[2]

DatesAreRight == MeansWhatItSays /\ AppointmentIsNext /\ LabelIsTrue
================================================================================
