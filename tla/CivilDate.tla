------------------------------ MODULE CivilDate ------------------------------
(***************************************************************************)
(* days_from_civil of http.rs against the Gregorian calendar itself: a     *)
(* clock that turns the calendar one day at a time, forwards or backwards, *)
(* and counts the days.                                                    *)
(***************************************************************************)
EXTENDS HttpDate

CONSTANTS FirstYear, LastYear  \* the years the clock visits

VARIABLES year, month, day,  \* the calendar's date
          days               \* days since 1970-01-01, by counting

clockVars == <<year, month, day, days>>

ClockInit == year = 1970 /\ month = 1 /\ day = 1 /\ days = 0

NextDay ==
  /\ days' = days + 1
  /\ \/ /\ day < DaysInMonth(year, month)
        /\ day' = day + 1 /\ UNCHANGED <<year, month>>
     \/ /\ day = DaysInMonth(year, month) /\ month < 12
        /\ day' = 1 /\ month' = month + 1 /\ UNCHANGED year
     \/ /\ day = DaysInMonth(year, month) /\ month = 12 /\ year < LastYear
        /\ day' = 1 /\ month' = 1 /\ year' = year + 1

PreviousDay ==
  /\ days' = days - 1
  /\ \/ /\ day > 1
        /\ day' = day - 1 /\ UNCHANGED <<year, month>>
     \/ /\ day = 1 /\ month > 1
        /\ month' = month - 1 /\ day' = DaysInMonth(year, month') /\ UNCHANGED year
     \/ /\ day = 1 /\ month = 1 /\ year > FirstYear
        /\ month' = 12 /\ day' = 31 /\ year' = year - 1

ClockNext == NextDay \/ PreviousDay

ClockSpec == ClockInit /\ [][ClockNext]_clockVars

------------------------------------------------------------------------------
\* days_from_civil counts days: on every date of the calendar, across leap
\* years, the exceptions of the centuries and year 0, it gives the number of
\* days since 1970-01-01 ("Correct for every year representable in i64,
\* including the 100/400 leap-year exceptions").
CountsDays == days = DaysFromCivil(year, month, day)
==============================================================================
