---------------------------- MODULE InMemoryCache ----------------------------
(***************************************************************************)
(* The bounded, coalescing cache of cache_inner.rs, at the granularity of  *)
(* its critical sections: every acquisition of `store` or `in_flight`, and *)
(* every access to an atomic counter, is one step of the calling task, so  *)
(* any other task may run between two of them.                             *)
(*                                                                         *)
(* A task makes one call at a time.  Its futures may be dropped where the  *)
(* code awaits: a leader inside fetch(), a waiter on its oneshot receiver, *)
(* the caller of insert_if_current during its own fetch.                   *)
(*                                                                         *)
(* A cached value is abstracted to what predicates tell apart (its tag)    *)
(* and to the invalidation generation at which its fetch began (born),     *)
(* which the program does not keep: it says how old the value is.          *)
(***************************************************************************)
EXTENDS Naturals, Sequences, FiniteSets

CONSTANTS
  Task,           \* tasks that call into the cache
  Key,            \* cache keys
  Tag,            \* what invalidate_matching can tell apart in a value
  Predicate,      \* the predicates it is called with, each a set of tags
  MaxEntries,     \* max_entries; every construction site in the crate bounds it
  MaxGeneration,  \* bound on the number of invalidations in a behaviour
  MaxToken,       \* bound on the number of backend fetches in a behaviour
  Invalidator,    \* the tasks that invalidate,
  Inserter,       \* and those that insert what they fetched themselves
  None,           \* "no value": an absent entry, no key, no outcome yet
  Failed,         \* the outcome of a fetch that returned an error
  Cancelled       \* the outcome make_cancelled_error builds

Value == [tag : Tag, born : Nat]

ASSUME SetAssumption ==
  /\ IsFiniteSet(Key)
  /\ None \notin Key
  /\ Invalidator \subseteq Task /\ Inserter \subseteq Task
  /\ \A p \in Predicate : p \subseteq Tag

ASSUME BoundAssumption ==
  /\ MaxEntries \in Nat \ {0}
  /\ MaxGeneration \in Nat
  /\ MaxToken \in Nat

ASSUME OutcomeAssumption ==
  /\ None \notin Value /\ Failed \notin Value /\ Cancelled \notin Value
  /\ None # Failed /\ None # Cancelled

VARIABLES
  entries,                  \* store.entries, None where a key is absent
  order,                    \* store.order, oldest key first
  next_token,               \* tokens handed out to leaders
  invalidation_generation,  \* invalidations begun
  in_flight,                \* the fetch registered for each key
  task,                     \* the locals of each task's current call
  cancelled                 \* history: per key, the generation of the newest
                            \* invalidation that has cancelled its fetches

store == <<entries, order>>
vars == <<entries, order, next_token, invalidation_generation, in_flight,
          task, cancelled>>

(***************************************************************************)
(* Where a task is in its call: what it does next.                         *)
(***************************************************************************)
PC == {"idle",     \* between calls
       "slow",     \* get_or_fetch: missed, about to lock in_flight
       "fetch",    \* get_or_fetch: leader, awaiting fetch()
       "store",    \* get_or_fetch: leader, slot claimed, about to lock store
       "wait",     \* get_or_fetch: waiter, awaiting its receiver
       "gone",     \* a waiter whose future was dropped
       "reply",    \* outcome known: sending it to `held`, then returning
       "cancel",   \* invalidate, clear: about to lock in_flight
       "drop",     \* invalidate, clear: about to lock store
       "match",    \* invalidate_matching: about to lock store
       "match_cancel",  \* invalidate_matching: about to lock in_flight
       "sampled"}  \* generation() read, awaiting a fetch of its own

\* A slot of in_flight; tokens start at 1, so token 0 stands for "no slot".
InFlight == [token : Nat, waiters : SUBSET Task]
NoSlot == [token |-> 0, waiters |-> {}]

Outcome == Value \cup {None, Failed, Cancelled}

Locals ==
  [pc      : PC,
   key     : Key \cup {None},  \* argument of get_or_fetch
   token   : Nat,              \* LeaderGuard.token
   seen    : Nat,              \* generation when the call's fetch, or its
                               \* invalidation, began
   held    : SUBSET Task,      \* senders taken out of in_flight
   outcome : Outcome,          \* the result to return and to send
   doomed  : SUBSET Key]       \* keys the invalidation is dropping

Idle == [pc |-> "idle", key |-> None, token |-> 0, seen |-> 0,
         held |-> {}, outcome |-> None, doomed |-> {}]

TypeOK ==
  /\ entries \in [Key -> Value \cup {None}]
  /\ order \in Seq(Key)
  /\ next_token \in Nat
  /\ invalidation_generation \in Nat
  /\ in_flight \in [Key -> InFlight]
  /\ task \in [Task -> Locals]
  /\ cancelled \in [Key -> Nat]

Init ==
  /\ entries = [k \in Key |-> None]
  /\ order = <<>>
  /\ next_token = 0
  /\ invalidation_generation = 0
  /\ in_flight = [k \in Key |-> NoSlot]
  /\ task = [t \in Task |-> Idle]
  /\ cancelled = [k \in Key |-> 0]

------------------------------------------------------------------------------
(***************************************************************************)
(* The store.                                                              *)
(***************************************************************************)
Cached(k) == entries[k] # None
CachedKeys == {k \in Key : Cached(k)}

\* VecDeque::retain: the elements of o that are in S, in their order.  The
\* n-th kept element is the one at the kept position of rank n.
KeptPositions(o, S) == {i \in DOMAIN o : o[i] \in S}
Rank(I, i) == Cardinality({j \in I : j <= i})
Retain(o, S) ==
  LET I == KeptPositions(o, S)
  IN  [n \in 1..Cardinality(I) |-> o[CHOOSE i \in I : Rank(I, i) = n]]

RemoveEntries(S) ==
  /\ entries' = [k \in Key |-> IF k \in S THEN None ELSE entries[k]]
  /\ order' = Retain(order, Key \ S)

\* How often the loop of insert_locked pops the queue after adding key k.
EvictionCount(k) ==
  LET size == Cardinality(CachedKeys \cup {k})
  IN  IF size > MaxEntries THEN size - MaxEntries ELSE 0

\* insert_locked: replacing a value keeps its place in the queue; adding one
\* queues it last and evicts from the front while the store is over capacity.
InsertLocked(k, v) ==
  LET queue   == Append(order, k)
      n       == EvictionCount(k)
      evicted == {queue[i] : i \in 1..n}
  IN  IF Cached(k)
      THEN /\ entries' = [entries EXCEPT ![k] = v]
           /\ order' = order
      ELSE /\ entries' = [j \in Key |-> IF j \in evicted THEN None
                                        ELSE IF j = k THEN v ELSE entries[j]]
           /\ order' = SubSeq(queue, n + 1, Len(queue))

------------------------------------------------------------------------------
(***************************************************************************)
(* get_or_fetch.                                                           *)
(***************************************************************************)
\* Bound on the backend fetches of a behaviour: a call starts only if the
\* callers already past the fast path leave it a token.
TokenLeft ==
  next_token + Cardinality({t \in Task : task[t].pc = "slow"}) < MaxToken

\* The fast path: under a read lock, return a cached value at once.
GetOrFetch(t, k) ==
  /\ task[t].pc = "idle"
  /\ TokenLeft
  /\ task' = [task EXCEPT ![t] =
       IF Cached(k) THEN [Idle EXCEPT !.pc = "reply", !.key = k,
                                      !.outcome = entries[k]]
                    ELSE [Idle EXCEPT !.pc = "slow", !.key = k]]
  /\ UNCHANGED <<entries, order, next_token, invalidation_generation,
                 in_flight, cancelled>>

\* The slow path under the in_flight lock: a value stored meanwhile is
\* returned.
Recheck(t) ==
  LET k == task[t].key IN
  /\ task[t].pc = "slow"
  /\ Cached(k)
  /\ task' = [task EXCEPT ![t].pc = "reply", ![t].outcome = entries[k]]
  /\ UNCHANGED <<entries, order, next_token, invalidation_generation,
                 in_flight, cancelled>>

\* The slow path: a fetch is registered, so wait for it.
Join(t) ==
  LET k == task[t].key IN
  /\ task[t].pc = "slow"
  /\ ~Cached(k)
  /\ in_flight[k] # NoSlot
  /\ in_flight' = [in_flight EXCEPT ![k].waiters = @ \cup {t}]
  /\ task' = [task EXCEPT ![t].pc = "wait"]
  /\ UNCHANGED <<entries, order, next_token, invalidation_generation,
                 cancelled>>

\* The slow path: no fetch is registered, so register one and lead it.
Lead(t) ==
  LET k == task[t].key IN
  /\ task[t].pc = "slow"
  /\ ~Cached(k)
  /\ in_flight[k] = NoSlot
  /\ next_token' = next_token + 1
  /\ in_flight' = [in_flight EXCEPT ![k] = [token |-> next_token',
                                            waiters |-> {}]]
  /\ task' = [task EXCEPT ![t].pc = "fetch", ![t].token = next_token',
                          ![t].seen = invalidation_generation]
  /\ UNCHANGED <<entries, order, invalidation_generation, cancelled>>

\* The slip of claiming whatever slot the key has now.
OwnsAnySlot(t) == in_flight[task[t].key].token # 0

\* take_in_flight succeeds iff the registered fetch is this leader's.
OwnsSlot(t) == in_flight[task[t].key].token = task[t].token

\* take_in_flight: remove the slot and take its waiters, or get nothing.
TakeInFlight(t) ==
  in_flight' = IF OwnsSlot(t) THEN [in_flight EXCEPT ![task[t].key] = NoSlot]
                              ELSE in_flight

TakenWaiters(t) == IF OwnsSlot(t) THEN in_flight[task[t].key].waiters ELSE {}

\* fetch() has returned r; claim the slot.  Only a value, and only with the
\* slot claimed, goes on to the store.
FetchDone(t, r) ==
  /\ task[t].pc = "fetch"
  /\ TakeInFlight(t)
  /\ task' = [task EXCEPT
       ![t].pc = IF r \in Value /\ OwnsSlot(t) THEN "store" ELSE "reply",
       ![t].outcome = r,
       ![t].held = TakenWaiters(t)]
  /\ UNCHANGED <<entries, order, next_token, invalidation_generation,
                 cancelled>>

\* What fetch() can return to this leader.
FetchResult(t) == {Failed} \cup {[tag |-> g, born |-> task[t].seen] : g \in Tag}

\* The slip of telling everyone the value that was fetched, although another
\* one has been stored.
StoreFirstTellOwn(t) ==
  LET k == task[t].key IN
  /\ task[t].pc = "store"
  /\ task' = [task EXCEPT ![t].pc = "reply"]
  /\ IF Cached(k) THEN UNCHANGED store ELSE InsertLocked(k, task[t].outcome)
  /\ UNCHANGED <<next_token, invalidation_generation, in_flight, cancelled>>

\* The claimed value is stored unless another writer was first: then the
\* stored value is shared.
StoreFetched(t) ==
  LET k == task[t].key IN
  /\ task[t].pc = "store"
  /\ IF Cached(k)
     THEN /\ task' = [task EXCEPT ![t].pc = "reply", ![t].outcome = entries[k]]
          /\ UNCHANGED store
     ELSE /\ task' = [task EXCEPT ![t].pc = "reply"]
          /\ InsertLocked(k, task[t].outcome)
  /\ UNCHANGED <<next_token, invalidation_generation, in_flight, cancelled>>

\* The slip of a drop guard that forgets the waiters it has taken.
SilentDropLeader(t) ==
  /\ task[t].pc = "fetch"
  /\ TakeInFlight(t)
  /\ task' = [task EXCEPT ![t].pc = "reply", ![t].outcome = Cancelled]
  /\ UNCHANGED <<entries, order, next_token, invalidation_generation,
                 cancelled>>

\* LeaderGuard::drop: the leader's future is dropped inside fetch().
DropLeader(t) ==
  /\ task[t].pc = "fetch"
  /\ TakeInFlight(t)
  /\ task' = [task EXCEPT ![t].pc = "reply", ![t].outcome = Cancelled,
                          ![t].held = TakenWaiters(t)]
  /\ UNCHANGED <<entries, order, next_token, invalidation_generation,
                 cancelled>>

\* A waiter's future is dropped; its sender stays wherever it is.
DropWaiter(t) ==
  /\ task[t].pc = "wait"
  /\ task' = [task EXCEPT ![t] = [Idle EXCEPT !.pc = "gone"]]
  /\ UNCHANGED <<entries, order, next_token, invalidation_generation,
                 in_flight, cancelled>>

\* A new task takes the name of a dropped waiter once no sender of the old
\* one is left, so that senders need no name of their own.
Respawn(t) ==
  /\ task[t].pc = "gone"
  /\ \A k \in Key : t \notin in_flight[k].waiters
  /\ \A u \in Task : t \notin task[u].held
  /\ task' = [task EXCEPT ![t] = Idle]
  /\ UNCHANGED <<entries, order, next_token, invalidation_generation,
                 in_flight, cancelled>>

------------------------------------------------------------------------------
(***************************************************************************)
(* Waking waiters and returning.                                           *)
(***************************************************************************)
\* One oneshot send (notify_cancelled, or the leader's loop); to a dropped
\* receiver it has no effect.  The order of the sends is left open.
Notify(t, w) ==
  /\ task[t].pc = "reply"
  /\ w \in task[t].held
  /\ task' = [u \in Task |->
       IF u = t THEN [task[t] EXCEPT !.held = @ \ {w}]
       ELSE IF u = w /\ task[w].pc = "wait"
       THEN [task[w] EXCEPT !.outcome = task[t].outcome]
       ELSE task[u]]
  /\ UNCHANGED <<entries, order, next_token, invalidation_generation,
                 in_flight, cancelled>>

\* The call returns: to a caller that has told every waiter, or to a waiter
\* that has been told.
Return(t) ==
  /\ \/ task[t].pc = "reply" /\ task[t].held = {}
     \/ task[t].pc = "wait" /\ task[t].outcome # None
  /\ task' = [task EXCEPT ![t] = Idle]
  /\ UNCHANGED <<entries, order, next_token, invalidation_generation,
                 in_flight, cancelled>>

------------------------------------------------------------------------------
(***************************************************************************)
(* Invalidation.                                                           *)
(***************************************************************************)
\* Every invalidation first bumps the generation.
BeginInvalidation(t, step, S) ==
  /\ t \in Invalidator /\ task[t].pc = "idle"
  /\ invalidation_generation < MaxGeneration
  /\ invalidation_generation' = invalidation_generation + 1
  /\ task' = [task EXCEPT ![t] = [Idle EXCEPT !.pc = step, !.doomed = S,
                                    !.seen = invalidation_generation']]
  /\ UNCHANGED <<entries, order, next_token, in_flight, cancelled>>

Invalidate(t, k) == BeginInvalidation(t, "cancel", {k})
Clear(t) == BeginInvalidation(t, "cancel", Key)
InvalidateMatching(t) == BeginInvalidation(t, "match", {})

\* Remove the doomed keys' slots, taking every waiter on them.
RemoveSlots(t) ==
  in_flight' = [k \in Key |-> IF k \in task[t].doomed THEN NoSlot
                                                      ELSE in_flight[k]]

SlotWaiters(t) == UNION {in_flight[k].waiters : k \in task[t].doomed}

\* The newest invalidation to have cancelled the doomed keys' fetches.
NoteCancelled(t) ==
  cancelled' = [k \in Key |->
    IF k \in task[t].doomed /\ task[t].seen > cancelled[k]
    THEN task[t].seen ELSE cancelled[k]]

\* The slip of leaving a cancelled fetch registered.
KeepSlots(t) ==
  /\ task[t].pc = "cancel"
  /\ task' = [task EXCEPT ![t].pc = "drop"]
  /\ NoteCancelled(t)
  /\ UNCHANGED <<entries, order, next_token, invalidation_generation,
                 in_flight>>

\* invalidate and clear, under the in_flight lock.
CancelFetches(t) ==
  /\ task[t].pc = "cancel"
  /\ RemoveSlots(t)
  /\ task' = [task EXCEPT ![t].pc = "drop", ![t].held = SlotWaiters(t)]
  /\ NoteCancelled(t)
  /\ UNCHANGED <<entries, order, next_token, invalidation_generation>>

\* The slip of removing an entry but not its place in the queue.
LeaveQueued(t) ==
  /\ task[t].pc = "drop"
  /\ entries' = [k \in Key |-> IF k \in task[t].doomed THEN None ELSE entries[k]]
  /\ order' = order
  /\ task' = [task EXCEPT ![t].pc = "reply", ![t].outcome = Cancelled]
  /\ UNCHANGED <<next_token, invalidation_generation, in_flight, cancelled>>

\* invalidate and clear, under the store lock.
DropEntries(t) ==
  /\ task[t].pc = "drop"
  /\ RemoveEntries(task[t].doomed)
  /\ task' = [task EXCEPT ![t].pc = "reply", ![t].outcome = Cancelled]
  /\ UNCHANGED <<next_token, invalidation_generation, in_flight, cancelled>>

\* invalidate_matching, under the store lock: nothing matched.
NothingMatches(t, p) ==
  /\ task[t].pc = "match"
  /\ \A k \in CachedKeys : entries[k].tag \notin p
  /\ task' = [task EXCEPT ![t].pc = "reply", ![t].outcome = Cancelled]
  /\ UNCHANGED <<entries, order, next_token, invalidation_generation,
                 in_flight, cancelled>>

\* invalidate_matching, under the store lock: drop what matches.
DropMatching(t, p) ==
  LET matching == {k \in CachedKeys : entries[k].tag \in p} IN
  /\ task[t].pc = "match"
  /\ matching # {}
  /\ RemoveEntries(matching)
  /\ task' = [task EXCEPT ![t].pc = "match_cancel", ![t].doomed = matching]
  /\ UNCHANGED <<next_token, invalidation_generation, in_flight, cancelled>>

\* invalidate_matching, under the in_flight lock.
CancelMatching(t) ==
  /\ task[t].pc = "match_cancel"
  /\ RemoveSlots(t)
  /\ task' = [task EXCEPT ![t].pc = "reply", ![t].outcome = Cancelled,
                          ![t].held = SlotWaiters(t)]
  /\ NoteCancelled(t)
  /\ UNCHANGED <<entries, order, next_token, invalidation_generation>>

------------------------------------------------------------------------------
(***************************************************************************)
(* A value fetched outside the coalescer.                                  *)
(***************************************************************************)
\* generation(), before the caller's own fetch.
SampleGeneration(t) ==
  /\ t \in Inserter /\ task[t].pc = "idle"
  /\ task' = [task EXCEPT ![t] = [Idle EXCEPT !.pc = "sampled",
                                    !.seen = invalidation_generation]]
  /\ UNCHANGED <<entries, order, next_token, invalidation_generation,
                 in_flight, cancelled>>

\* The slip of not looking at the generation again.
InsertAnyway(t, k, g) ==
  /\ task[t].pc = "sampled"
  /\ InsertLocked(k, [tag |-> g, born |-> task[t].seen])
  /\ task' = [task EXCEPT ![t] = Idle]
  /\ UNCHANGED <<next_token, invalidation_generation, in_flight, cancelled>>

\* insert_if_current: the generation is compared under the store lock.
InsertIfCurrent(t, k, g) ==
  /\ task[t].pc = "sampled"
  /\ IF invalidation_generation = task[t].seen
     THEN InsertLocked(k, [tag |-> g, born |-> task[t].seen])
     ELSE UNCHANGED store
  /\ task' = [task EXCEPT ![t] = Idle]
  /\ UNCHANGED <<next_token, invalidation_generation, in_flight, cancelled>>

\* The caller's own fetch failed, or its future was dropped.
AbandonInsert(t) ==
  /\ task[t].pc = "sampled"
  /\ task' = [task EXCEPT ![t] = Idle]
  /\ UNCHANGED <<entries, order, next_token, invalidation_generation,
                 in_flight, cancelled>>

------------------------------------------------------------------------------
\* Calls a task may make, and drops it may suffer.
Call(t) ==
  \/ \E k \in Key : GetOrFetch(t, k) \/ Invalidate(t, k)
  \/ Clear(t)
  \/ Predicate # {} /\ InvalidateMatching(t)
  \/ SampleGeneration(t)

Drop(t) == DropLeader(t) \/ DropWaiter(t) \/ AbandonInsert(t)

\* Steps the runtime takes for a task that is in a call.
Progress(t) ==
  \/ Recheck(t) \/ Join(t) \/ Lead(t)
  \/ \E r \in FetchResult(t) : FetchDone(t, r)
  \/ StoreFetched(t)
  \/ \E w \in Task : Notify(t, w)
  \/ Return(t)
  \/ CancelFetches(t) \/ DropEntries(t)
  \/ \E p \in Predicate : NothingMatches(t, p) \/ DropMatching(t, p)
  \/ CancelMatching(t)
  \/ \E k \in Key, g \in Tag : InsertIfCurrent(t, k, g)

Next == \E t \in Task : Call(t) \/ Drop(t) \/ Respawn(t) \/ Progress(t)

Spec == Init /\ [][Next]_vars

\* A task in a call keeps being polled, and every fetch ends (its HTTP
\* requests and retries are bounded in time and number).  Nothing obliges a
\* task to make a call, and nothing obliges anyone to drop a future.
Fairness == \A t \in Task : WF_vars(Progress(t))
FairSpec == Spec /\ Fairness

------------------------------------------------------------------------------
(***************************************************************************)
(* What holds.                                                             *)
(***************************************************************************)
\* The queue and the map agree (the comment on Store): the queue lists the
\* cached keys, each once, and their number stays within max_entries, through
\* every mix of insertions, replacements, evictions and removals.
StoreConsistent ==
  /\ \A k \in Key : Cached(k) <=> \E i \in DOMAIN order : order[i] = k
  /\ \A i, j \in DOMAIN order : order[i] = order[j] => i = j
  /\ Len(order) <= MaxEntries

\* Task t leads the fetch that is registered for key k.
Leads(t, k) ==
  /\ task[t].pc = "fetch"
  /\ task[t].key = k
  /\ task[t].token = in_flight[k].token

\* No waiter of get_or_fetch is parked forever: while it has no answer, its
\* sender is in a slot whose leader is still fetching, or in the hands of a
\* task that has yet to send (leader, drop guard or invalidation).
WaiterIsOwed ==
  \A w \in Task :
    task[w].pc = "wait" /\ task[w].outcome = None =>
      \/ \E k \in Key : /\ w \in in_flight[k].waiters
                        /\ \E t \in Task : Leads(t, k)
      \/ \E t \in Task : /\ w \in task[t].held
                         /\ task[t].pc \in {"store", "reply", "drop"}

\* Coalescing and cancellation are per key: a leader that is still fetching
\* loses its registration only in the critical section of an invalidation of
\* its own key.  So without one, a key has at most one fetch under way, and
\* invalidating one key never disturbs the fetch of another.
LosesSlotToOwnKey ==
  [][\A t \in Task, k \in Key :
       Leads(t, k) /\ task'[t].pc = "fetch" /\ ~Leads(t, k)' =>
         \E u \in Task : /\ task[u].pc \in {"cancel", "match_cancel"}
                         /\ k \in task[u].doomed
                         /\ task'[u].pc # task[u].pc]_vars

\* The token comparison of take_in_flight is exact: a leader goes on to store
\* its value only if no invalidation that began after its fetch began has
\* cancelled its key, even if another fetch of the key has been registered
\* since.
FreshClaim ==
  [][\A t \in Task :
       task[t].pc = "fetch" /\ task'[t].pc = "store" =>
         task[t].seen >= cancelled[task[t].key]]_vars

\* A value fetched before an invalidation of its key can come back after that
\* invalidation in one way only: through a leader that had claimed its slot
\* before.  insert_if_current never brings one back.
OnlyClaimedComesBack ==
  [][\A k \in Key :
       entries'[k] \notin {None, entries[k]} /\ entries'[k].born < cancelled[k]
         => \E t \in Task : /\ task[t].pc = "store" /\ task[t].key = k
                            /\ task'[t].pc = "reply"]_vars

\* Every call of the cache returns (or its future is dropped): a waiter, in
\* particular, hears from its leader or from whoever cancelled the fetch.
CallsReturn ==
  \A t \in Task :
    task[t].pc \notin {"idle", "gone"} ~> task[t].pc \in {"idle", "gone"}

==============================================================================
