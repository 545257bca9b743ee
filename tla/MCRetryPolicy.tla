---------------------------- MODULE MCRetryPolicy ----------------------------
(***************************************************************************)
(* RetryPolicy with 3-bit words, so that every saturation happens, and     *)
(* days of two hours of two minutes of two seconds (TLC counts to 2^31).   *)
(***************************************************************************)
EXTENDS RetryPolicy

\* Durations of a fraction of a millisecond up to more than a word holds.
SmallPolicies ==
  [max_retries : {5}, base_backoff : {1, 2, 6}, max_backoff : {0, 3, 9, 20},
   honor_retry_after : BOOLEAN, jitter : BOOLEAN]

At(y, m, d, hour, sec) ==
  [form |-> "date", year |-> y, month |-> m, day |-> d, hour |-> hour, min |-> 0, sec |-> sec]

\* Around the leap days there are and are not, and the end of a year; leap
\* seconds, one of them before the epoch; a 31st of April, which parses, and fields that do not.
SmallDates ==
  {At(2000, 2, 29, 1, 1), At(2000, 3, 1, 0, 0), At(2023, 12, 31, 1, 1),
   At(2024, 1, 1, 0, 1), At(2024, 2, 29, 1, 0), At(2100, 2, 28, 1, 1), At(2100, 3, 1, 0, 0),
   At(2100, 4, 31, 0, 0), At(2024, 2, 0, 0, 0), At(2024, 2, 32, 0, 0), At(2024, 1, 1, 2, 0),
   At(2023, 12, 31, 1, 2), At(2024, 1, 1, 0, 3), At(1969, 12, 31, 1, 2)}

\* Numbers of seconds that fit the word in milliseconds, that do not, and one
\* that does not fit it at all.
SmallHeaders == {NoHeader} \cup [form : {"seconds"}, secs : {0, 1, 5, 9}] \cup SmallDates

Clocks == {At(2000, 2, 29, 1, 1), At(2024, 1, 1, 0, 0), At(2100, 2, 28, 1, 0)}
==============================================================================
