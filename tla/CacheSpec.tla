------------------------------ MODULE CacheSpec ------------------------------
(***************************************************************************)
(* What a coalescing cache promises its callers, without locks, tokens,    *)
(* channels or generations.  A call is answered at one instant, together   *)
(* with every call that shares its fetch, and what it is answered is what  *)
(* the cache holds at that instant; only a caller whose fetch was          *)
(* cancelled while it ran may get a value the cache does not hold, and     *)
(* gets it alone.                                                          *)
(***************************************************************************)
EXTENDS Naturals, FiniteSets

CONSTANTS
  Task, Key, Value,
  MaxEntries,            \* capacity
  None,                  \* no value cached, or no answer yet
  Failed, Cancelled      \* answers that are errors

VARIABLES
  cached,  \* per key, the cached value
  call,    \* per task, its call: the key asked for and the answer
  cut      \* tasks whose own fetch was cancelled and has not ended yet

vars == <<cached, call, cut>>

Out == [key |-> None, answer |-> None]   \* not in a call
Pending(t, k) == call[t] = [key |-> k, answer |-> None]

\* Some of the calls that ask for k are answered a, and no others.
Answered(k, a) ==
  /\ DOMAIN call' = Task
  /\ \A t \in Task : call'[t] = call[t] \/ (Pending(t, k) /\ call'[t].answer = a
                                                      /\ call'[t].key = k)

\* A value is put under key k, and others may have to go for it.
Put(k) ==
  /\ cached' \in [Key -> Value \cup {None}]
  /\ cached'[k] # None
  /\ \A j \in Key \ {k} : cached'[j] \in {cached[j], None}
  /\ Cardinality({j \in Key : cached'[j] # None}) <= MaxEntries

Init ==
  /\ cached = [k \in Key |-> None]
  /\ call = [t \in Task |-> Out]
  /\ cut = {}

\* A call begins; with a value at hand it is answered at once.
Ask(t, k) ==
  /\ call[t] = Out
  /\ call' = [call EXCEPT ![t] = [key |-> k, answer |-> cached[k]]]
  /\ UNCHANGED cached

\* A value is there, has come in meanwhile, or comes in now: a fetch of k
\* ends with it, for everyone who shares the fetch.
Land(k) ==
  /\ IF cached[k] = None THEN Put(k) ELSE UNCHANGED cached
  /\ Answered(k, cached'[k])

\* A fetch of k fails, for everyone who shares it; nothing is cached.
Fail(k) == Answered(k, Failed) /\ UNCHANGED cached

\* The fetch of t was cancelled, but has ended: its value is t's alone.
KeepToSelf(t, k) ==
  /\ t \in cut
  /\ Pending(t, k)
  /\ call'[t].answer \in Value
  /\ call' = [call EXCEPT ![t].answer = call'[t].answer]
  /\ UNCHANGED cached

\* A cancelled fetch stays so until its call is answered or left.
StillCut == {t \in cut : call'[t] = call[t]}

\* The calls that share a fetch are told that it was cancelled.
CancelCalls ==
  /\ DOMAIN call' = Task
  /\ \A t \in Task : call'[t] = call[t] \/ \E k \in Key : Pending(t, k)
                       /\ call'[t] = [key |-> k, answer |-> Cancelled]
  /\ UNCHANGED cached

\* Fetches are cancelled by an invalidation, or by the loss of their leader;
\* a leader that an invalidation overtakes goes on with its own.
Cancel ==
  /\ CancelCalls
  /\ StillCut \subseteq cut' /\ cut' \subseteq Task
  /\ \A t \in cut' \ cut : call'[t] = call[t] /\ \E k \in Key : Pending(t, k)

\* A call returns its answer, or its future is dropped.
Leave(t) ==
  /\ call[t] # Out
  /\ call' = [call EXCEPT ![t] = Out]
  /\ UNCHANGED cached

\* A value fetched elsewhere is put into the cache.
Insert(k) == UNCHANGED call /\ Put(k)

\* The keys of S are dropped.
Forget(S) ==
  /\ UNCHANGED call
  /\ cached' = [k \in Key |-> IF k \in S THEN None ELSE cached[k]]

\* What cancels nothing.
Step ==
  \/ \E k \in Key : Insert(k) \/ Fail(k) \/ Land(k)
  \/ \E S \in SUBSET Key : Forget(S)
  \/ \E t \in Task : Leave(t) \/ \E k \in Key : Ask(t, k) \/ KeepToSelf(t, k)

Next == Cancel \/ (Step /\ cut' = StillCut)

Spec == Init /\ [][Next]_vars
==============================================================================
