--------------------------- MODULE BankingCalendar ---------------------------
(***************************************************************************)
(* The days on which the bank settles, and the effective date of a file    *)
(* (core/business_dates.py, its use in services/nacha_service.py and the   *)
(* calendar api/v1/nacha.py serves to the browser).  A date is its number  *)
(* in the proleptic Gregorian calendar, as Python's date.toordinal.        *)
(***************************************************************************)
EXTENDS Integers, FiniteSets, FiniteSetsExt, Sequences, SequencesExt

CONSTANTS
    Years,   \* the years the calendar is evaluated for (a bound)
    NoDate   \* the operator gave no effective date

ASSUME YearsAssumption == Years \subseteq Nat /\ IsFiniteSet(Years)
ASSUME NoDateAssumption ==
    NoDate \notin [yearDigits : {2, 4}, year : Nat, month : 1..12, day : 1..31]

-----------------------------------------------------------------------------
(* datetime.date.                                                           *)

IsLeap(y) == y % 4 = 0 /\ (y % 100 # 0 \/ y % 400 = 0)
MonthDays(y, m) == CASE m = 2 -> IF IsLeap(y) THEN 29 ELSE 28
                     [] m \in {4, 6, 9, 11} -> 30
                     [] OTHER -> 31
Date(y, m, d) ==
    LET before == y - 1
    IN  365 * before + before \div 4 - before \div 100 + before \div 400
        + SumFunction([k \in 1..(m - 1) |-> MonthDays(y, k)]) + d
NewYear == [y \in Years |-> Date(y, 1, 1)]
Days(y) == NewYear[y]..(NewYear[y] + (IF IsLeap(y) THEN 365 ELSE 364))
YearOf(n) == CHOOSE y \in Years : n \in Days(y)
Weekday(n) == (n - 1) % 7   \* Monday is 0

-----------------------------------------------------------------------------
(* The days on which the Reserve Banks are closed.                          *)

NthWeekday(y, m, weekday, n) ==
    LET first == Date(y, m, 1) IN first + ((weekday - Weekday(first)) % 7) + 7 * (n - 1)
LastWeekday(y, m, weekday) ==
    LET last == Date(y, m, MonthDays(y, m)) IN last - ((Weekday(last) - weekday) % 7)

Fixed(y) == {Date(y, 1, 1), Date(y, 6, 19), Date(y, 7, 4), Date(y, 11, 11), Date(y, 12, 25)}
Floating(y) == {NthWeekday(y, 1, 0, 3), NthWeekday(y, 2, 0, 3), LastWeekday(y, 5, 0),
                NthWeekday(y, 9, 0, 1), NthWeekday(y, 10, 0, 2), NthWeekday(y, 11, 3, 4)}

\* A holiday on a Sunday is observed on Monday, one on a Saturday is not.
\* Mutant: a Sunday is not moved.
ObservedWhereItFalls(holidays) == {h \in holidays : Weekday(h) # 5}
Observed(holidays) ==
    {h + 1 : h \in {x \in holidays : Weekday(x) = 6}} \cup {h \in holidays : Weekday(h) \notin {5, 6}}

Holidays == [y \in Years |-> Observed(Fixed(y)) \cup Floating(y)]

IsBankingDay(n) == Weekday(n) < 5 /\ n \notin Holidays[YearOf(n)]

\* The first banking day from n on, and the one `left` banking days after n:
\* walks of one day at a time.
FirstFrom[n \in Nat] == IF IsBankingDay(n) THEN n ELSE FirstFrom[n + 1]
After[at \in Nat \X Nat] ==
    LET n == at[1]
        left == at[2]
    IN  IF left = 0 THEN n ELSE After[<<n + 1, IF IsBankingDay(n + 1) THEN left - 1 ELSE left>>]

NextBankingDay(start, lead) == IF lead <= 0 THEN FirstFrom[start] ELSE After[<<start, lead>>]

DefaultDate(today) == NextBankingDay(today, 1)

-----------------------------------------------------------------------------
(* The effective date of a file.                                            *)

MaxDaysAhead == 60

\* Mutant: only weekends are refused.
AcceptedOnHolidays(n, today) == n \in today..(today + MaxDaysAhead) /\ Weekday(n) < 5
Accepted(n, today) == n \in today..(today + MaxDaysAhead) /\ IsBankingDay(n)

\* What the operator typed: four digits of the year, or two, which Python
\* takes for 1969 to 2068.
IsDate(y, m, d) == m \in 1..12 /\ d \in 1..MonthDays(y, m)
FullYear(typed) == CASE typed.yearDigits = 4 -> typed.year
                     [] typed.yearDigits = 2 /\ typed.year >= 69 -> 1900 + typed.year
                     [] OTHER -> 2000 + typed.year

\* The effective date a file made today bears, NoDate if it is refused.
EffectiveDate(typed, today) ==
    LET y == FullYear(typed)
        n == IF typed = NoDate THEN DefaultDate(today) ELSE Date(y, typed.month, typed.day)
    IN  IF (typed # NoDate => IsDate(y, typed.month, typed.day)) /\ Accepted(n, today)
        THEN n ELSE NoDate

\* What the browser is told, to fill in and to restrict its date field.
Calendar(today) ==
    [default |-> DefaultDate(today), min |-> today, max |-> today + MaxDaysAhead,
     closed  |-> {n \in today..(today + MaxDaysAhead) : ~IsBankingDay(n)}]

-----------------------------------------------------------------------------
\* A date the calendar lets the browser choose is one that generation accepts,
\* and the other way round; the date filled in is the first of them after
\* today, and a file made without a date gets it; a date typed with two digits
\* of the year is the same date as with four, and today's is taken exactly if
\* the bank settles today.  The banking day some days ahead has exactly as many
\* banking days up to it.
CalendarAgrees(y, m, d) ==
    LET today == Date(y, m, d)
        c == Calendar(today)
        chosen == (c.min..c.max) \ c.closed
        Ahead(n) == Cardinality({k \in (today + 1)..n : IsBankingDay(k)})
        Typed(digits) == [yearDigits |-> digits, year |-> IF digits = 2 THEN y % 100 ELSE y,
                          month |-> m, day |-> d]
    IN  /\ \A n \in (today - 7)..(today + MaxDaysAhead + 7) : Accepted(n, today) <=> n \in chosen
        /\ c.default = Min(chosen \ {today})
        /\ EffectiveDate(NoDate, today) = c.default
        /\ \A digits \in {2, 4} :
              EffectiveDate(Typed(digits), today) = IF today \in chosen THEN today ELSE NoDate
        /\ \A lead \in 1..3 : IsBankingDay(NextBankingDay(today, lead))
                           /\ Ahead(NextBankingDay(today, lead)) = lead

\* The Reserve Banks are never closed for more than three days running, and
\* in a year on exactly the eleven holidays less those that fall on a Saturday:
\* no two of them are observed on one day, and none is lost at a new year.
HolidaysObserved(y) ==
    LET days == Days(y)
        saturdays == {h \in Fixed(y) : Weekday(h) = 5}
    IN  /\ Cardinality({n \in days : Weekday(n) < 5 /\ ~IsBankingDay(n)}) = 11 - Cardinality(saturdays)
        /\ \A n \in days : n + 3 \in days => \E k \in 0..3 : IsBankingDay(n + k)
        /\ \A h \in Fixed(y) : Weekday(h) = 6 => h + 1 \in days /\ ~IsBankingDay(h + 1)
=============================================================================
