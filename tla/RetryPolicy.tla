----------------------------- MODULE RetryPolicy -----------------------------
(***************************************************************************)
(* retry.rs and the Retry-After parsing of http.rs: how long a request     *)
(* sleeps before each retry.  The arithmetic is that of unsigned words of  *)
(* Width bits (u64 in the code), saturating where the code saturates.      *)
(*                                                                         *)
(* The state is one sequence of retries under one policy, every answer     *)
(* carrying whatever Retry-After header the server likes.                  *)
(***************************************************************************)
EXTENDS HttpDate, Powers

CONSTANTS
  Width,             \* bits of the word
  NanosPerMilli,     \* ticks of a Duration per millisecond
  MillisPerSec,
  SecsPerMin, MinsPerHour, HoursPerDay,
  Policy,            \* the policies considered
  Header,            \* the Retry-After headers considered
  Now,               \* the dates and times of the local clock at each parse
  NoHeader           \* no header, or one that parses as neither form

MaxWord == Pow2[Width] - 1

\* A Retry-After value: delta-seconds, or an IMF-fixdate, whose fields have
\* two digits (the year four).
TwoDigits == 99
FourDigits == 9999

Seconds == [form : {"seconds"}, secs : Nat]
Fixdate == [form : {"date"}, year : 0..FourDigits, month : 1..12, day : 0..TwoDigits,
            hour : 0..TwoDigits, min : 0..TwoDigits, sec : 0..TwoDigits]

ASSUME PolicyAssumption ==
  /\ Width \in Nat \ {0} /\ NanosPerMilli \in Nat \ {0} /\ MillisPerSec \in Nat \ {0}
  /\ SecsPerMin \in Nat \ {0} /\ MinsPerHour \in Nat \ {0} /\ HoursPerDay \in Nat \ {0}
  /\ Policy \subseteq [max_retries : Nat, base_backoff : Nat, max_backoff : Nat,
                       honor_retry_after : BOOLEAN, jitter : BOOLEAN]
  /\ NoHeader \notin Nat
  /\ NoHeader \in Header
  /\ Header \ {NoHeader} \subseteq Seconds \cup Fixdate
  /\ Now \subseteq Fixdate

VARIABLES
  policy,    \* the client's retry policy
  asked,     \* the latest answer's Retry-After as received, and the clock then
  attempt,   \* retries done so far
  header,    \* the Retry-After, in milliseconds, of the latest answer
  delay      \* the latest sleep, in milliseconds

policyVars == <<policy, asked, attempt, header, delay>>

AtMost(a, b) == IF a <= b THEN a ELSE b

\* The slip of a plain product, which wraps in a release build.
WrappingMul(a, b) == (a * b) % Pow2[Width]

\* u64::saturating_mul
SaturatingMul(a, b) == AtMost(a * b, MaxWord)

\* The slip of a shift that wraps its distance.
WrappingShl(n) == Pow2[n % Width]

\* 1u64.checked_shl(n).unwrap_or(u64::MAX)
CheckedShl(n) == IF n < Width THEN Pow2[n] ELSE MaxWord

\* A Duration in whole milliseconds, saturating.
AsMillis(d) == AtMost(d \div NanosPerMilli, MaxWord)

\* The fields parse_http_date_unix_secs accepts, the month by its number: any
\* day up to 31 in any month, and leap seconds.
ValidDate(h) ==
  /\ h.day \in 1..31 /\ h.hour \in 0..(HoursPerDay - 1)
  /\ h.min \in 0..(MinsPerHour - 1) /\ h.sec \in 0..SecsPerMin

\* The local clock shows dates of the calendar, from the epoch on: a clock
\* before it makes parse_retry_after_ms ignore every date.
ASSUME ClockAssumption ==
  \A now \in Now : /\ ValidDate(now) /\ now.year >= 1970
                   /\ now.day <= DaysInMonth(now.year, now.month)

SecsOfDay(h) == (h.hour * MinsPerHour + h.min) * SecsPerMin + h.sec
SecsPerDay == HoursPerDay * MinsPerHour * SecsPerMin

UnixSecs(h) == DaysFromCivil(h.year, h.month, h.day) * SecsPerDay + SecsOfDay(h)

\* parse_retry_after_ms: a date in the past means "retry at once"; a number
\* that does not fit the word is no date either, and a header that parses as
\* neither is as good as none.
ParseRetryAfter(h, now) ==
  LET wait == UnixSecs(h) - UnixSecs(now)
  IN  IF h = NoHeader THEN NoHeader
      ELSE IF h.form = "seconds"
      THEN IF h.secs <= MaxWord THEN SaturatingMul(h.secs, MillisPerSec) ELSE NoHeader
      ELSE IF ~ValidDate(h) THEN NoHeader
      ELSE (IF wait > 0 THEN wait ELSE 0) * MillisPerSec

\* The back-off of attempt n before jitter.
Capped(p, n) ==
  AtMost(SaturatingMul(AsMillis(p.base_backoff), CheckedShl(n)),
         AsMillis(p.max_backoff))

\* Equal jitter: half of the interval fixed, half random.
Jittered(p, capped) ==
  IF p.jitter /\ capped # 0
  THEN {capped \div 2 + r : r \in 0..(capped \div 2)}
  ELSE {capped}

\* delay_for: the delays it may return.  A server's Retry-After is capped but
\* not jittered.
DelayFor(p, n, h) ==
  IF p.honor_retry_after /\ h # NoHeader
  THEN {AtMost(h, AsMillis(p.max_backoff))}
  ELSE Jittered(p, Capped(p, n))

------------------------------------------------------------------------------
PolicyInit ==
  /\ policy \in Policy
  /\ asked = <<>>
  /\ attempt = 0
  /\ header = NoHeader
  /\ delay = 0

\* One retryable answer of the request loop: parse its header, sleep, try again.
Retry ==
  /\ attempt < policy.max_retries
  /\ \E h \in Header, now \in Now :
       /\ header' = ParseRetryAfter(h, now)
       /\ asked' = IF h # NoHeader THEN <<h, now>> ELSE <<>>
  /\ delay' \in DelayFor(policy, attempt, header')
  /\ attempt' = attempt + 1
  /\ UNCHANGED policy

\* A new request starts counting from zero.
Restart ==
  /\ attempt > 0
  /\ attempt' = 0 /\ header' = NoHeader /\ asked' = <<>> /\ delay' = 0
  /\ UNCHANGED policy

PolicyNext == Retry \/ Restart

PolicySpec == PolicyInit /\ [][PolicyNext]_policyVars

------------------------------------------------------------------------------
\* The documented back-off, in unbounded arithmetic: base * 2^n, capped.
ExactBackoff ==
  AtMost(AsMillis(policy.base_backoff) * Pow2[attempt], AsMillis(policy.max_backoff))

\* delay_for never wraps: for every attempt number, also past the width of the
\* word, the delay lies in the upper half of the documented interval (it is
\* the documented delay when jitter is off).
BackoffIsExact ==
  [][attempt' = attempt + 1 /\ (header' = NoHeader \/ ~policy.honor_retry_after) =>
       /\ ExactBackoff \div 2 <= delay' /\ delay' <= ExactBackoff
       /\ ~policy.jitter => delay' = ExactBackoff]_policyVars

\* The days of the first months of a year, and of the first n years from 1970.
DaysOfMonths(y) ==
  LET days[m \in Nat] == IF m = 0 THEN 0 ELSE days[m - 1] + DaysInMonth(y, m) IN days

DaysOfYears[n \in Nat] ==
  IF n = 0 THEN 0 ELSE DaysOfYears[n - 1] + DaysOfMonths(1969 + n)[12]

\* Days from the end of 1969 to a date, counted month by month; no day of an
\* earlier year is counted.
CountedDays(h) ==
  IF h.year < 1970 THEN 0
  ELSE DaysOfYears[h.year - 1970] + DaysOfMonths(h.year)[h.month - 1] + h.day

CountedSecs(h) == CountedDays(h) * SecsPerDay + SecsOfDay(h)

\* Milliseconds from the clock now to the date h by the calendar, none if past.
WaitUntil(h, now) ==
  LET wait == CountedSecs(h) - CountedSecs(now)
  IN  MillisPerSec * (IF wait > 0 THEN wait ELSE 0)

\* A date of the calendar, in the fields of an IMF-fixdate.
CalendarDate(h) ==
  h.form = "date" /\ ValidDate(h) /\ h.day <= DaysInMonth(h.year, h.month)

\* A Retry-After date is waited for to the second: the wait parsed from it is
\* the time from the local clock to that date, as the calendar counts it,
\* across leap days and the ends of months, years and centuries; a date that
\* is past means no wait.
DateWaitIsExact ==
  asked # <<>> /\ CalendarDate(asked[1]) => header = WaitUntil(asked[1], asked[2])

\* The headers a client that honours them must understand, and the wait each
\* asks for, in unbounded milliseconds.
Understood(h) == CalendarDate(h) \/ (h.form = "seconds" /\ h.secs <= MaxWord)
WaitAsked(h, now) ==
  IF h.form = "seconds" THEN h.secs * MillisPerSec ELSE WaitUntil(h, now)

\* From the Retry-After header as received to the sleep: no conversion, product
\* or jitter on the way shortens or stretches the wait the server asked for,
\* however many seconds or whatever date it names, except that max_backoff
\* bounds every sleep.
ServerWaitKept ==
  [][attempt' = attempt + 1 =>
       /\ delay' <= AsMillis(policy.max_backoff)
       /\ policy.honor_retry_after /\ asked' # <<>> /\ Understood(asked'[1]) =>
            delay' = AtMost(WaitAsked(asked'[1], asked'[2]), AsMillis(policy.max_backoff))]_policyVars
==============================================================================
