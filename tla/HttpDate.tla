------------------------------- MODULE HttpDate -------------------------------
(***************************************************************************)
(* days_from_civil of http.rs, and the Gregorian calendar it has to agree  *)
(* with.                                                                   *)
(***************************************************************************)
EXTENDS Integers

\* Rust's `/`: division that truncates towards zero.
Quotient(a, b) == IF a >= 0 THEN a \div b ELSE -((-a) \div b)

\* The 400-year era, and the year in it, of a year that starts in March.
Era(y) == Quotient(IF y >= 0 THEN y ELSE y - 399, 400)
YearOfEra(y) == y - Era(y) * 400

\* The slip of starting the year in January.
JanuaryYear(y, m) == y

\* The year, if years started in March.
MarchYear(y, m) == IF m <= 2 THEN y - 1 ELSE y

DayOfYear(m, d) == (153 * ((m + 9) % 12) + 2) \div 5 + d - 1

\* Days from 0000-03-01 to 1970-01-01.
EpochDay == 719468

DaysFromCivil(y, m, d) ==
  LET yoe == YearOfEra(MarchYear(y, m))
      doe == yoe * 365 + yoe \div 4 - yoe \div 100 + DayOfYear(m, d)
  IN  Era(MarchYear(y, m)) * 146097 + doe - EpochDay

------------------------------------------------------------------------------
\* The Gregorian calendar.
LeapYear(y) == y % 4 = 0 /\ (y % 100 # 0 \/ y % 400 = 0)

DaysInMonth(y, m) ==
  CASE m = 2 -> IF LeapYear(y) THEN 29 ELSE 28
    [] m \in {4, 6, 9, 11} -> 30
    [] OTHER -> 31
==============================================================================
