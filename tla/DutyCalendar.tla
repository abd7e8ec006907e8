--------------------------- MODULE DutyCalendar ---------------------------
(***************************************************************************)
(* From a deadline to a date (execute/calendar.py, execute/engine.py), and *)
(* the dates on which a duty comes round (execute/applicability.py and     *)
(* analyse/calendar.py, which work them out separately).                   *)
(*                                                                         *)
(* A day is a number, counted from the first day of the first month of     *)
(* MonthLengths.  No operator here has state.                              *)
(***************************************************************************)
EXTENDS Integers, Sequences, FiniteSetsExt

CONSTANTS
  MonthLengths,  \* the lengths of consecutive months
  FirstMonth,    \* the number, 1 to 12, of the first of them
  FirstWeekday,  \* date.weekday() of day 0, Monday being 0
  Holidays,      \* days the exchange was shut, empty when none were loaded
  None

Months == 1..Len(MonthLengths)
NumberOf(m) == ((FirstMonth + m - 2) % 12) + 1  \* 1 for a January

ASSUME CalendarAssumption ==
  /\ MonthLengths \in Seq(28..31) /\ Len(MonthLengths) > 0
  /\ FirstMonth \in 1..12 /\ FirstWeekday \in 0..6
  /\ \A m \in Months :
       MonthLengths[m] \in CASE NumberOf(m) = 2 -> {28, 29}
                             [] NumberOf(m) \in {4, 6, 9, 11} -> {30}
                             [] OTHER -> {31}
  /\ None \notin Int

-----------------------------------------------------------------------------
(* datetime.date.                                                          *)

FirstDay[m \in 1..(Len(MonthLengths) + 1)] ==
  IF m = 1 THEN 0 ELSE FirstDay[m - 1] + MonthLengths[m - 1]
LastDay == [m \in Months |-> FirstDay[m + 1] - 1]
TableEnd == LastDay[Len(MonthLengths)]
Days == 0..TableEnd
MonthOf == [d \in Days |-> CHOOSE m \in Months : d \in FirstDay[m]..LastDay[m]]
DayOfMonth(d) == d - FirstDay[MonthOf[d]] + 1
MonthNumber(d) == NumberOf(MonthOf[d])
Weekday(d) == (FirstWeekday + d) % 7

-----------------------------------------------------------------------------
(* TradingCalendar.                                                        *)

Weekend == {5, 6}
IsWorkingDay(d) == Weekday(d) \notin Weekend /\ d \notin Holidays

CoversDate(d) == Holidays # {} /\ Min(Holidays) <= d /\ d <= Max(Holidays)

\* The anchor is day zero, open or not; a day is counted when it is open.  A
\* count that runs off the table stops at its end.
AddWorkingDays(start, days) ==
  LET From[d \in Days] ==
        [remaining \in 0..days |->
           IF remaining = 0 \/ d = TableEnd THEN d
           ELSE From[d + 1][IF IsWorkingDay(d + 1) THEN remaining - 1 ELSE remaining]]
  IN  From[start][days]

\* Mutant: roll over into the next month.
AddMonthsRolled(start, months) ==
  FirstDay[MonthOf[start] + months] + DayOfMonth(start) - 1

\* Clamped to the end of the month it lands in.
AddMonths(start, months) ==
  LET m == MonthOf[start] + months
  IN  FirstDay[m] + Min({DayOfMonth(start), MonthLengths[m]}) - 1

\* The number of the month that closes the period of month n.
ClosingMonth(n, period) ==
  CASE period = "MONTH"     -> n
    [] period = "QUARTER"   -> ((n - 1) \div 3 + 1) * 3
    [] period = "HALF_YEAR" -> IF n <= 6 THEN 6 ELSE 12
    [] period = "YEAR"      -> 12

EndOfPeriod(d, period) ==
  CASE period = "DAY"  -> d
    [] period = "WEEK" -> d + (6 - Weekday(d))
    [] OTHER -> LastDay[MonthOf[d] + ClosingMonth(MonthNumber(d), period) - MonthNumber(d)]

-----------------------------------------------------------------------------
(* Deadlines.  At most one of days, hours and months is set except on      *)
(* END_OF_PERIOD, where the schema does not care.                          *)

Periods == {"DAY", "WEEK", "MONTH", "QUARTER", "HALF_YEAR", "YEAR"}
DeadlineKinds == {"ABSOLUTE", "RELATIVE", "END_OF_PERIOD", "ON_DEMAND"}
DayCounts == {"CALENDAR", "BUSINESS", "UNSPECIFIED"}

Unset == [kind |-> "ON_DEMAND", date |-> None, period |-> None, days |-> None,
          hours |-> None, months |-> None, count |-> "UNSPECIFIED"]
Relative(days, count) ==
  [Unset EXCEPT !.kind = "RELATIVE", !.days = days, !.count = count]
Closing(period) == [Unset EXCEPT !.kind = "END_OF_PERIOD", !.period = period]

\* Deadline._check_shape.
IsDeadline(dl) ==
  LET offsets == {f \in {"days", "hours", "months"} : dl[f] # None}
  IN  /\ {dl.date, dl.days, dl.hours, dl.months} \subseteq Int \cup {None}
      /\ dl.kind \in DeadlineKinds /\ dl.count \in DayCounts
      /\ dl.kind = "ABSOLUTE" => dl.date # None /\ offsets = {}
      /\ dl.kind = "RELATIVE" => Cardinality(offsets) = 1
      /\ dl.kind = "END_OF_PERIOD" => dl.period \in Periods
      /\ dl.kind = "ON_DEMAND" => offsets = {} /\ dl.date = None
      /\ dl.count # "UNSPECIFIED" => dl.days # None
      /\ dl.hours # None => dl.hours >= 0
      /\ dl.months # None => dl.months >= 0

\* None stands for DayCountUnresolved and ValueError, which _check treats alike.
Offset(start, dl) ==
  CASE dl.months # None             -> AddMonths(start, dl.months)
    [] dl.months = None /\ dl.hours # None -> start + dl.hours \div 24
    [] dl.months = None /\ dl.hours = None /\ dl.days \in {None, 0} -> start
    [] OTHER -> IF dl.count = "UNSPECIFIED" \/ dl.days < 0 THEN None
                ELSE IF dl.count = "BUSINESS" THEN AddWorkingDays(start, dl.days)
                ELSE start + dl.days

DueDate(dl, occurred) ==
  CASE dl.kind = "ABSOLUTE" -> dl.date
    [] dl.kind = "RELATIVE" -> Offset(occurred, dl)
    [] dl.kind = "END_OF_PERIOD" ->
         LET end == EndOfPeriod(occurred, dl.period)
         IN  IF dl.days \notin {None, 0} THEN Offset(end, dl) ELSE end
    [] OTHER -> None

\* The table of months reaches as far as the deadline does from this day.
OffsetInTable(d, dl) ==
  CASE dl.months # None                    -> MonthOf[d] + dl.months \in Months
    [] dl.months = None /\ dl.hours # None -> d + dl.hours \div 24 \in Days
    [] dl.months = None /\ dl.hours = None /\ dl.days # None ->
         IF dl.count = "BUSINESS"
         THEN Cardinality({k \in (d + 1)..TableEnd : IsWorkingDay(k)}) >= dl.days
         ELSE d + dl.days <= TableEnd
    [] OTHER -> TRUE
InTable(d, dl) ==
  /\ dl.kind = "RELATIVE" => OffsetInTable(d, dl)
  /\ dl.kind = "END_OF_PERIOD" /\ dl.days \notin {None, 0} =>
       OffsetInTable(EndOfPeriod(d, dl.period), dl)

-----------------------------------------------------------------------------
(* The dates in a window on which a period closes.                         *)

\* The month a pass looks at ends at this day; None when its end closes nothing.
Closes(day, period) ==
  LET end == LastDay[MonthOf[day]]
  IN  CASE period = "MONTH" -> end
        [] period = "QUARTER" /\ MonthNumber(day) % 3 = 0 -> end
        [] period = "HALF_YEAR" /\ MonthNumber(day) \in {6, 12} -> end
        [] period = "YEAR" /\ MonthNumber(day) = 12 -> end
        [] OTHER -> None

\* The first day of the next week or month.
NextPass(period, day) ==
  (IF period = "WEEK" THEN day + (6 - Weekday(day)) ELSE LastDay[MonthOf[day]]) + 1

\* The weeks and the months a window touches, one pass of the loop for each.  A
\* week may end after the table.
Passes(period, start, end) ==
  LET From[day \in 0..(TableEnd + 7)] ==
        IF day > end THEN {} ELSE {day} \cup From[NextPass(period, day)]
  IN  From[start]

WeekEnds(start, end) ==
  {d + (6 - Weekday(d)) : d \in Passes("WEEK", start, end)} \cap start..end
MonthEnds(period, start, end) ==
  {Closes(d, period) : d \in Passes(period, start, end)} \cap start..end

\* applicability._period_ends: a daily duty is one of weekdays, holidays or not.
OccasionsIn(period, start, end) ==
  CASE period = "DAY"  -> {d \in start..end : Weekday(d) < 5}
    [] period = "WEEK" -> WeekEnds(start, end)
    [] OTHER           -> MonthEnds(period, start, end)

\* Mutant: the day the diary is opened on is left out.
DiaryDatesAhead(period, start, end) ==
  CASE period = "DAY"  -> (start + 1)..end
    [] period = "WEEK" -> WeekEnds(start + 1, end)
    [] OTHER           -> MonthEnds(period, start + 1, end)

\* calendar._period_ends of analyse/, written out a second time there.
DiaryDates(period, start, end) ==
  CASE period = "DAY"  -> start..end
    [] period = "WEEK" -> WeekEnds(start, end)
    [] OTHER           -> MonthEnds(period, start, end)
=============================================================================
