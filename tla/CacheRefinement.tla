--------------------------- MODULE CacheRefinement ---------------------------
(***************************************************************************)
(* InMemoryCache implements CacheSpec.  The outcome a call will return is  *)
(* settled before its task hears of it: when the leader, the drop guard or *)
(* the invalidation that holds its sender has an outcome to send.          *)
(***************************************************************************)
EXTENDS InMemoryCache

Holders(w) == {t \in Task : w \in task[t].held}

\* What waiter w has been told, or what is on its way to it.
Heard(w) ==
  IF task[w].outcome # None THEN task[w].outcome
  ELSE IF \E t \in Holders(w) : task[t].pc = "drop" THEN Cancelled
  ELSE IF \E t \in Holders(w) : task[t].pc = "reply"
  THEN task[CHOOSE t \in Holders(w) : task[t].pc = "reply"].outcome
  ELSE None

Settled(t) ==
  CASE task[t].pc = "reply" -> task[t].outcome
    [] task[t].pc = "wait" -> Heard(t)
    [] OTHER -> None

\* Invalidations and insertions are no calls of get_or_fetch; they have no key.
Calls == [t \in Task |->
  [key |-> task[t].key, answer |-> IF task[t].key = None THEN None ELSE Settled(t)]]

\* Leaders whose fetch runs on after an invalidation took its slot.
Overtaken == {t \in Task : task[t].pc = "fetch" /\ ~OwnsSlot(t)}

Promise == INSTANCE CacheSpec WITH cached <- entries, call <- Calls, cut <- Overtaken

\* get_or_fetch, its coalescing, its cancellation and every invalidation do
\* what CacheSpec says and nothing else: every critical section and every
\* message of cache_inner.rs is a step of that specification or changes
\* nothing in it.
KeepsPromise == Promise!Spec
==============================================================================
