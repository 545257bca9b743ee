------------------------- MODULE InMemoryCacheProofs -------------------------
(***************************************************************************)
(* Proofs about InMemoryCache, and that it implements CacheSpec, for any   *)
(* sets of tasks, keys and tags, any capacity and any bounds.              *)
(***************************************************************************)
EXTENDS CacheRefinement, FiniteSetTheorems, FunctionTheorems, SequenceTheorems,
        TLAPS

------------------------------------------------------------------------------
(***************************************************************************)
(* The queue.                                                              *)
(***************************************************************************)
\* The kept positions of a queue are numbered 1, 2, ... by their rank.
LEMMA RankNumbers ==
  ASSUME NEW m \in Nat, NEW I \in SUBSET (1..m)
  PROVE  /\ IsFiniteSet(I)
         /\ Cardinality(I) \in Nat
         /\ Cardinality(I) <= m
         /\ \A i \in I : Rank(I, i) \in 1..Cardinality(I)
         /\ \A i, j \in I : Rank(I, i) = Rank(I, j) => i = j
         /\ \A n \in 1..Cardinality(I) : \E i \in I : Rank(I, i) = n
<1>1. IsFiniteSet(1..m) /\ Cardinality(1..m) = m
  BY FS_Interval
<1>2. IsFiniteSet(I) /\ Cardinality(I) <= m
  BY <1>1, FS_Subset
<1>3. Cardinality(I) \in Nat
  BY <1>2, FS_CardinalityType
<1> DEFINE Upto(i) == {j \in I : j <= i}
<1>4. ASSUME NEW i \in I
      PROVE  /\ Upto(i) \in SUBSET I
             /\ IsFiniteSet(Upto(i))
             /\ Cardinality(Upto(i)) \in 1..Cardinality(I)
  <2>1. Upto(i) \in SUBSET I /\ i \in Upto(i)
    OBVIOUS
  <2>2. IsFiniteSet(Upto(i)) /\ Cardinality(Upto(i)) <= Cardinality(I)
    BY <2>1, <1>2, FS_Subset
  <2>3. Cardinality(Upto(i)) \in Nat
    BY <2>2, FS_CardinalityType
  <2>4. Cardinality(Upto(i)) # 0
    BY <2>1, <2>2, FS_EmptySet
  <2> HIDE DEF Upto
  <2>5. QED
    BY <2>1, <2>2, <2>3, <2>4, <1>3
<1>5. \A i \in I : Rank(I, i) = Cardinality(Upto(i))
  BY DEF Rank
<1>6. ASSUME NEW i \in I, NEW j \in I, i < j
      PROVE  Rank(I, i) # Rank(I, j)
  <2>0. \A x \in I : x \in Int
    OBVIOUS
  <2>1. Upto(i) \in SUBSET Upto(j) /\ j \in Upto(j) /\ j \notin Upto(i)
    <3>1. \A x \in I : x <= i => x <= j
      BY <2>0, <1>6
    <3>2. j <= j /\ ~(j <= i)
      BY <2>0, <1>6
    <3>3. QED
      BY <3>1, <3>2
  <2>2. Cardinality(Upto(i)) # Cardinality(Upto(j))
    <3> HIDE DEF Upto
    <3>1. QED
      BY <2>1, <1>4, FS_Subset
  <2>3. QED
    BY <2>2, <1>5
<1>7. \A i, j \in I : Rank(I, i) = Rank(I, j) => i = j
  <2> SUFFICES ASSUME NEW i \in I, NEW j \in I, i # j
               PROVE  Rank(I, i) # Rank(I, j)
    OBVIOUS
  <2>1. i < j \/ j < i
    OBVIOUS
  <2>2. QED
    BY <2>1, <1>6
<1>8. \A i \in I : Rank(I, i) \in 1..Cardinality(I)
  BY <1>4, <1>5
<1> DEFINE rank == [i \in I |-> Rank(I, i)]
<1>9. rank \in Injection(I, 1..Cardinality(I))
  <2>1. rank \in [I -> 1..Cardinality(I)]
    BY <1>8
  <2>2. \A a, b \in I : rank[a] = rank[b] => a = b
    BY <1>7
  <2> HIDE DEF rank
  <2>3. QED
    BY <2>1, <2>2, Fun_IsInj
<1>10. rank \in Surjection(I, 1..Cardinality(I))
  <2>1. /\ IsFiniteSet(1..Cardinality(I))
        /\ Cardinality(1..Cardinality(I)) = Cardinality(I)
    BY <1>3, FS_Interval
  <2> HIDE DEF rank
  <2>2. QED
    BY <2>1, <1>9, FS_Injection
<1>11. \A n \in 1..Cardinality(I) : \E i \in I : rank[i] = n
  <2> HIDE DEF rank
  <2>1. QED
    BY <1>10, Fun_SurjectionProperties
<1>12. \A n \in 1..Cardinality(I) : \E i \in I : Rank(I, i) = n
  BY <1>11
<1>13. QED
  BY <1>2, <1>3, <1>7, <1>8, <1>12

\* VecDeque::retain returns the queue of the kept elements: nothing else is in
\* it, nothing kept is lost, nothing is repeated, and it is no longer.
LEMMA RetainKeeps ==
  ASSUME NEW o \in Seq(Key), NEW S
  PROVE  LET r == Retain(o, S) IN
         /\ r \in Seq(Key)
         /\ Len(r) <= Len(o)
         /\ \A n \in DOMAIN r : r[n] \in S /\ \E i \in DOMAIN o : o[i] = r[n]
         /\ \A i \in DOMAIN o : o[i] \in S => \E n \in DOMAIN r : r[n] = o[i]
         /\ (\A i, j \in DOMAIN o : o[i] = o[j] => i = j)
              => \A m, n \in DOMAIN r : r[m] = r[n] => m = n
<1> DEFINE I == KeptPositions(o, S)
           N == Cardinality(I)
           at(n) == CHOOSE i \in I : Rank(I, i) = n
           r == Retain(o, S)
<1>1. Len(o) \in Nat /\ DOMAIN o = 1..Len(o)
  OBVIOUS
<1>2. I \in SUBSET (1..Len(o)) /\ \A i \in I : o[i] \in S /\ o[i] \in Key
  BY <1>1 DEF KeptPositions
<1>3. /\ N \in Nat
      /\ N <= Len(o)
      /\ \A i \in I : Rank(I, i) \in 1..N
      /\ \A n \in 1..N : \E i \in I : Rank(I, i) = n
  <2> HIDE DEF I
  <2>1. QED
    BY <1>1, <1>2, RankNumbers
<1>4. r = [n \in 1..N |-> o[at(n)]]
  BY DEF Retain
<1>5. \A n \in 1..N : at(n) \in I /\ Rank(I, at(n)) = n
  <2> HIDE DEF I, N
  <2>1. QED
    BY <1>3
<1>6. \A i \in I : at(Rank(I, i)) = i
  <2> HIDE DEF N
  <2>1. \A i, j \in I : Rank(I, i) = Rank(I, j) => i = j
    <3> HIDE DEF I
    <3>1. QED
      BY <1>1, <1>2, RankNumbers
  <2> HIDE DEF I
  <2>2. QED
    BY <2>1, <1>3, <1>5
<1>7. I \subseteq DOMAIN o /\ \A i \in DOMAIN o : o[i] \in S => i \in I
  BY DEF KeptPositions
<1> HIDE DEF I, N, at, r
<1>8. r \in Seq(Key) /\ Len(r) = N /\ DOMAIN r = 1..N
  <2>1. r \in [1..N -> Key]
    BY <1>2, <1>4, <1>5
  <2>2. r \in Seq(Key)
    BY <2>1, <1>3, SeqDef
  <2>3. QED
    BY <2>1, <2>2, <1>3, LenProperties
<1>9. \A n \in 1..N : r[n] = o[at(n)]
  BY <1>4
<1>10. \A n \in DOMAIN r : r[n] \in S /\ \E i \in DOMAIN o : o[i] = r[n]
  BY <1>2, <1>5, <1>7, <1>8, <1>9
<1>11. \A i \in DOMAIN o : o[i] \in S => \E n \in DOMAIN r : r[n] = o[i]
  BY <1>3, <1>6, <1>7, <1>8, <1>9
<1>12. (\A i, j \in DOMAIN o : o[i] = o[j] => i = j)
         => \A m, n \in DOMAIN r : r[m] = r[n] => m = n
  BY <1>5, <1>7, <1>8, <1>9
<1>13. QED
  BY <1>3, <1>8, <1>10, <1>11, <1>12 DEF r

------------------------------------------------------------------------------
(***************************************************************************)
(* Types.                                                                  *)
(***************************************************************************)
StoreType == entries \in [Key -> Value \cup {None}] /\ order \in Seq(Key)

LEMMA EvictionCountType ==
  ASSUME NEW k \in Key
  PROVE  EvictionCount(k) \in Nat /\ Cardinality(CachedKeys \cup {k}) \in Nat
<1>1. IsFiniteSet(CachedKeys \cup {k})
  BY SetAssumption, FS_Subset DEF CachedKeys
<1>2. Cardinality(CachedKeys \cup {k}) \in Nat
  BY <1>1, FS_CardinalityType
<1>3. QED
  BY <1>2, BoundAssumption DEF EvictionCount

LEMMA RemoveEntriesType ==
  ASSUME StoreType, NEW S, RemoveEntries(S)
  PROVE  StoreType'
<1>1. entries' \in [Key -> Value \cup {None}]
  BY DEF StoreType, RemoveEntries
<1>2. order' \in Seq(Key)
  BY RetainKeeps DEF StoreType, RemoveEntries
<1>3. QED
  BY <1>1, <1>2 DEF StoreType

LEMMA InsertLockedType ==
  ASSUME StoreType, NEW k \in Key, NEW v \in Value, InsertLocked(k, v)
  PROVE  StoreType'
<1>1. entries' \in [Key -> Value \cup {None}]
  BY DEF StoreType, InsertLocked
<1>2. order' \in Seq(Key)
  <2> DEFINE queue == Append(order, k)
             n == EvictionCount(k)
  <2>1. queue \in Seq(Key) /\ Len(queue) \in Nat
    BY DEF StoreType
  <2>2. n \in Nat
    BY EvictionCountType
  <2>3. order' \in {order, SubSeq(queue, n + 1, Len(queue))}
    BY DEF InsertLocked
  <2>4. SubSeq(queue, n + 1, Len(queue)) \in Seq(Key)
    <3> HIDE DEF queue, n
    <3>1. QED
      BY <2>1, <2>2, SubSeqProperties
  <2>5. QED
    BY <2>3, <2>4 DEF StoreType
<1>3. QED
  BY <1>1, <1>2 DEF StoreType

\* What a task's locals hold at each point of its call: a caller past the fast
\* path has a key, a leader about to store has a value, and a task that wakes
\* others has something to tell them.
LocalOK(l) ==
  /\ l.pc \in {"slow", "fetch", "store", "wait"} => l.key \in Key
  /\ l.pc = "store" => l.outcome \in Value
  /\ l.pc = "reply" => l.outcome # None

TypeInv == TypeOK /\ \A t \in Task : LocalOK(task[t])

\* A step that changes one task's locals, and only to well-formed ones.
LEMMA StepLocals ==
  ASSUME TypeInv, NEW t \in Task, NEW l \in Locals, LocalOK(l),
         task' = [task EXCEPT ![t] = l]
  PROVE  task' \in [Task -> Locals] /\ \A u \in Task : LocalOK(task'[u])
BY DEF TypeInv, TypeOK

LEMMA Constants ==
  /\ Idle \in Locals /\ LocalOK(Idle)
  /\ Idle.pc = "idle" /\ Idle.held = {} /\ Idle.outcome = None
  /\ NoSlot \in InFlight /\ NoSlot.token = 0 /\ NoSlot.waiters = {}
  /\ {None, Failed, Cancelled} \subseteq Outcome /\ Value \subseteq Outcome
<1>1. Idle \in Locals
  BY DEF Idle, Locals, PC, Outcome
<1>2. QED
  BY <1>1 DEF Idle, LocalOK, NoSlot, InFlight, Outcome

LEMMA TypeInvInit == Init => TypeInv
BY Constants DEF Init, TypeInv, TypeOK

LEMMA TypeInvStep == TypeInv /\ [Next]_vars => TypeInv'
<1> SUFFICES ASSUME TypeInv, [Next]_vars PROVE TypeInv'
  OBVIOUS
<1>t. task \in [Task -> Locals] /\ \A t \in Task : LocalOK(task[t])
  BY DEF TypeInv, TypeOK
<1>e. \A k \in Key : Cached(k) => entries[k] \in Value
  BY DEF TypeInv, TypeOK, Cached
<1>o. None \notin Value /\ Failed # None /\ Cancelled # None
  BY OutcomeAssumption
<1>1. ASSUME NEW t \in Task, NEW k \in Key, GetOrFetch(t, k) PROVE TypeInv'
  <2> DEFINE hit == [Idle EXCEPT !.pc = "reply", !.key = k, !.outcome = entries[k]]
             miss == [Idle EXCEPT !.pc = "slow", !.key = k]
  <2>1. CASE Cached(k)
    <3>0. entries[k] \in Outcome /\ entries[k] # None
      BY <2>1, <1>e, <1>o, Constants
    <3>1. hit \in Locals /\ LocalOK(hit)
      <4>2. hit \in Locals
        BY <3>0 DEF Locals, PC, Idle, Outcome
      <4>3. LocalOK(hit)
        BY <3>0 DEF LocalOK, Locals, Idle
      <4>4. QED
        BY <4>2, <4>3
    <3>2. task' = [task EXCEPT ![t] = hit]
      BY <1>1, <2>1 DEF GetOrFetch
    <3> HIDE DEF hit
    <3>3. QED
      BY <1>1, <3>1, <3>2, StepLocals DEF GetOrFetch, TypeInv, TypeOK
  <2>2. CASE ~Cached(k)
    <3>1. miss \in Locals /\ LocalOK(miss)
      <4>2. miss \in Locals
        BY DEF Locals, PC, Idle, Outcome
      <4>3. LocalOK(miss)
        BY DEF LocalOK, Locals, Idle
      <4>4. QED
        BY <4>2, <4>3
    <3>2. task' = [task EXCEPT ![t] = miss]
      BY <1>1, <2>2 DEF GetOrFetch
    <3> HIDE DEF miss
    <3>3. QED
      BY <1>1, <3>1, <3>2, StepLocals DEF GetOrFetch, TypeInv, TypeOK
  <2>3. QED
    BY <2>1, <2>2
<1>2. ASSUME NEW t \in Task, Recheck(t) PROVE TypeInv'
  <2> DEFINE k == task[t].key
             l == [task[t] EXCEPT !.pc = "reply", !.outcome = entries[k]]
  <2>1. k \in Key /\ entries[k] \in Outcome /\ entries[k] # None
    BY <1>2, <1>t, <1>e, <1>o, Constants DEF Recheck, LocalOK
  <2>2. l \in Locals /\ LocalOK(l)
    <3>1. task[t] \in Locals /\ LocalOK(task[t])
      BY <1>t
    <3>2. l \in Locals
      BY <3>1, <2>1 DEF Locals, PC
    <3>3. LocalOK(l)
      BY <3>1, <2>1 DEF LocalOK, Locals
    <3>4. QED
      BY <3>2, <3>3
  <2>3. task' = [task EXCEPT ![t] = l]
    BY <1>2, <1>t DEF Recheck
  <2> HIDE DEF l
  <2>4. QED
    BY <1>2, <2>2, <2>3, StepLocals DEF Recheck, TypeInv, TypeOK
<1>3. ASSUME NEW t \in Task, Join(t) PROVE TypeInv'
  <2> DEFINE l == [task[t] EXCEPT !.pc = "wait"]
  <2>0. task[t].pc = "slow"
    BY <1>3 DEF Join
  <2>1. l \in Locals /\ LocalOK(l)
    <3>1. task[t] \in Locals /\ LocalOK(task[t])
      BY <1>t
    <3>2. l \in Locals
      BY <3>1, <2>0 DEF Locals, PC
    <3>3. LocalOK(l)
      BY <3>1, <2>0 DEF LocalOK, Locals
    <3>4. QED
      BY <3>2, <3>3
  <2>2. task' = [task EXCEPT ![t] = l]
    BY <1>3, <1>t DEF Join
  <2>3. in_flight' \in [Key -> InFlight]
    BY <1>3 DEF Join, InFlight, TypeInv, TypeOK
  <2> HIDE DEF l
  <2>4. QED
    BY <1>3, <2>1, <2>2, <2>3, StepLocals DEF Join, TypeInv, TypeOK
<1>4. ASSUME NEW t \in Task, Lead(t) PROVE TypeInv'
  <2> DEFINE l == [task[t] EXCEPT !.pc = "fetch", !.token = next_token',
                                  !.seen = invalidation_generation]
  <2>1. /\ next_token' \in Nat /\ invalidation_generation \in Nat
        /\ task[t].pc = "slow"
    BY <1>4 DEF Lead, TypeInv, TypeOK
  <2>2. l \in Locals /\ LocalOK(l)
    <3>1. task[t] \in Locals /\ LocalOK(task[t])
      BY <1>t
    <3>2. l \in Locals
      BY <3>1, <2>1 DEF Locals, PC
    <3>3. LocalOK(l)
      BY <3>1, <2>1 DEF LocalOK, Locals
    <3>4. QED
      BY <3>2, <3>3
  <2>3. task' = [task EXCEPT ![t] = l]
    BY <1>4, <1>t DEF Lead
  <2>4. in_flight' \in [Key -> InFlight]
    BY <1>4, <2>1 DEF Lead, InFlight, TypeInv, TypeOK
  <2> HIDE DEF l
  <2>5. QED
    BY <1>4, <2>1, <2>2, <2>3, <2>4, StepLocals DEF Lead, TypeInv, TypeOK
<1>5. ASSUME NEW t \in Task, NEW r \in FetchResult(t), FetchDone(t, r)
      PROVE TypeInv'
  <2> DEFINE p == IF r \in Value /\ OwnsSlot(t) THEN "store" ELSE "reply"
             l == [task[t] EXCEPT !.pc = p, !.outcome = r, !.held = TakenWaiters(t)]
  <2>1. r \in Outcome /\ r # None
    BY <1>t, <1>o, Constants DEF FetchResult, Value, Locals
  <2>2. /\ task[t].key \in Key /\ TakenWaiters(t) \in SUBSET Task
        /\ p = "store" => r \in Value
        /\ p \in {"store", "reply"}
    BY <1>5, <1>t DEF FetchDone, LocalOK, TakenWaiters, InFlight, TypeInv, TypeOK
  <2>3. task' = [task EXCEPT ![t] = l]
    BY <1>5, <1>t DEF FetchDone
  <2> HIDE DEF p
  <2>4. l \in Locals /\ LocalOK(l)
    <3>1. task[t] \in Locals /\ LocalOK(task[t])
      BY <1>t
    <3>2. l \in Locals
      BY <3>1, <2>1, <2>2 DEF Locals, PC
    <3>3. LocalOK(l)
      BY <3>1, <2>1, <2>2 DEF LocalOK, Locals
    <3>4. QED
      BY <3>2, <3>3
  <2>5. in_flight' \in [Key -> InFlight]
    BY <1>5, Constants DEF FetchDone, TakeInFlight, TypeInv, TypeOK
  <2> HIDE DEF l
  <2>6. QED
    BY <1>5, <2>3, <2>4, <2>5, StepLocals DEF FetchDone, TypeInv, TypeOK
<1>6. ASSUME NEW t \in Task, StoreFetched(t) PROVE TypeInv'
  <2> DEFINE k == task[t].key
             o == IF Cached(k) THEN entries[k] ELSE task[t].outcome
             l == [task[t] EXCEPT !.pc = "reply", !.outcome = o]
  <2>1. /\ k \in Key /\ task[t].outcome \in Value
        /\ o \in Outcome /\ o # None
    BY <1>6, <1>t, <1>e, <1>o, Constants DEF StoreFetched, LocalOK
  <2>2. StoreType'
    BY <1>6, <2>1, InsertLockedType
       DEF StoreFetched, StoreType, store, TypeInv, TypeOK
  <2>3. task' = [task EXCEPT ![t] = l]
    BY <1>6, <1>t DEF StoreFetched, Locals
  <2> HIDE DEF o
  <2>4. l \in Locals /\ LocalOK(l)
    <3>1. task[t] \in Locals /\ LocalOK(task[t])
      BY <1>t
    <3>2. l \in Locals
      BY <3>1, <2>1 DEF Locals, PC
    <3>3. LocalOK(l)
      BY <3>1, <2>1 DEF LocalOK, Locals
    <3>4. QED
      BY <3>2, <3>3
  <2> HIDE DEF l
  <2>5. QED
    BY <1>6, <2>2, <2>3, <2>4, StepLocals DEF StoreFetched, StoreType, TypeInv, TypeOK
<1>7. ASSUME NEW t \in Task, DropLeader(t) PROVE TypeInv'
  <2> DEFINE l == [task[t] EXCEPT !.pc = "reply", !.outcome = Cancelled,
                                  !.held = TakenWaiters(t)]
  <2>1. /\ task[t].key \in Key /\ TakenWaiters(t) \in SUBSET Task
        /\ Cancelled \in Outcome /\ Cancelled # None
    BY <1>7, <1>t, <1>o, Constants
       DEF DropLeader, LocalOK, TakenWaiters, InFlight, TypeInv, TypeOK
  <2>2. l \in Locals /\ LocalOK(l)
    <3>1. task[t] \in Locals /\ LocalOK(task[t])
      BY <1>t
    <3>2. l \in Locals
      BY <3>1, <2>1 DEF Locals, PC
    <3>3. LocalOK(l)
      BY <3>1, <2>1 DEF LocalOK, Locals
    <3>4. QED
      BY <3>2, <3>3
  <2>3. task' = [task EXCEPT ![t] = l]
    BY <1>7, <1>t DEF DropLeader
  <2>4. in_flight' \in [Key -> InFlight]
    BY <1>7, Constants DEF DropLeader, TakeInFlight, TypeInv, TypeOK
  <2> HIDE DEF l
  <2>5. QED
    BY <1>7, <2>2, <2>3, <2>4, StepLocals DEF DropLeader, TypeInv, TypeOK
<1>8. ASSUME NEW t \in Task, DropWaiter(t) PROVE TypeInv'
  <2> DEFINE l == [Idle EXCEPT !.pc = "gone"]
  <2>1. l \in Locals /\ LocalOK(l)
    <3>2. l \in Locals
      BY DEF Locals, PC, Idle, Outcome
    <3>3. LocalOK(l)
      BY DEF LocalOK, Locals, Idle
    <3>4. QED
      BY <3>2, <3>3
  <2>2. task' = [task EXCEPT ![t] = l]
    BY <1>8 DEF DropWaiter
  <2> HIDE DEF l
  <2>3. QED
    BY <1>8, <2>1, <2>2, StepLocals DEF DropWaiter, TypeInv, TypeOK
<1>9. ASSUME NEW t \in Task, Respawn(t) \/ Return(t) \/ AbandonInsert(t)
      PROVE TypeInv'
  BY <1>9, Constants, StepLocals DEF Respawn, Return, AbandonInsert, TypeInv, TypeOK
<1>10. ASSUME NEW t \in Task, NEW w \in Task, Notify(t, w) PROVE TypeInv'
  <2> DEFINE told == [task[w] EXCEPT !.outcome = task[t].outcome]
             telling == [task[t] EXCEPT !.held = @ \ {w}]
  <2>0. task[t].held \ {w} \in SUBSET Task /\ task[t].outcome \in Outcome
    BY <1>t DEF Locals
  <2>1. telling \in Locals /\ LocalOK(telling)
    <3>1. task[t] \in Locals /\ LocalOK(task[t])
      BY <1>t
    <3>2. telling \in Locals
      BY <3>1, <2>0 DEF Locals, PC
    <3>3. LocalOK(telling)
      BY <3>1, <2>0 DEF LocalOK, Locals
    <3>4. QED
      BY <3>2, <3>3
  <2>2. ASSUME task[w].pc = "wait" PROVE told \in Locals /\ LocalOK(told)
    <3>1. task[w] \in Locals /\ LocalOK(task[w])
      BY <1>t
    <3>2. told \in Locals
      BY <3>1, <2>0 DEF Locals
    <3>3. LocalOK(told)
      BY <3>1, <2>2 DEF LocalOK, Locals
    <3>4. QED
      BY <3>2, <3>3
  <2>3. \A u \in Task : \/ u = t /\ task'[u] = telling
                        \/ u = w /\ task[w].pc = "wait" /\ task'[u] = told
                        \/ task'[u] = task[u]
    BY <1>10 DEF Notify
  <2> HIDE DEF told, telling
  <2>4. \A u \in Task : task'[u] \in Locals /\ LocalOK(task'[u])
    BY <2>1, <2>2, <2>3, <1>t
  <2>5. task' \in [Task -> Locals]
    BY <1>10, <2>4 DEF Notify
  <2>6. QED
    BY <1>10, <2>4, <2>5 DEF Notify, TypeInv, TypeOK
<1>11. ASSUME NEW t \in Task, NEW S \in SUBSET Key, NEW step \in {"cancel", "match"},
              BeginInvalidation(t, step, S)
       PROVE TypeInv'
  <2> DEFINE l == [Idle EXCEPT !.pc = step, !.doomed = S,
                               !.seen = invalidation_generation']
  <2>1. invalidation_generation' \in Nat
    BY <1>11 DEF BeginInvalidation, TypeInv, TypeOK
  <2>2. l \in Locals /\ LocalOK(l)
    <3>2. l \in Locals
      BY <2>1 DEF Locals, PC, Idle, Outcome
    <3>3. LocalOK(l)
      BY <2>1 DEF LocalOK, Locals, Idle
    <3>4. QED
      BY <3>2, <3>3
  <2>3. task' = [task EXCEPT ![t] = l]
    BY <1>11 DEF BeginInvalidation
  <2> HIDE DEF l
  <2>4. QED
    BY <1>11, <2>1, <2>2, <2>3, StepLocals DEF BeginInvalidation, TypeInv, TypeOK
<1>12. ASSUME NEW t \in Task, CancelFetches(t) \/ CancelMatching(t) PROVE TypeInv'
  <2> DEFINE c == [task[t] EXCEPT !.pc = "drop", !.held = SlotWaiters(t)]
             m == [task[t] EXCEPT !.pc = "reply", !.outcome = Cancelled,
                                  !.held = SlotWaiters(t)]
  <2>1. /\ SlotWaiters(t) \in SUBSET Task
        /\ Cancelled \in Outcome /\ Cancelled # None
    BY <1>t, <1>o, Constants DEF SlotWaiters, InFlight, Locals, TypeInv, TypeOK
  <2>2. c \in Locals /\ LocalOK(c)
    <3>1. task[t] \in Locals /\ LocalOK(task[t])
      BY <1>t
    <3>2. c \in Locals
      BY <3>1, <2>1 DEF Locals, PC
    <3>3. LocalOK(c)
      BY <3>1, <2>1 DEF LocalOK, Locals
    <3>4. QED
      BY <3>2, <3>3
  <2>3. m \in Locals /\ LocalOK(m)
    <3>1. task[t] \in Locals /\ LocalOK(task[t])
      BY <1>t
    <3>2. m \in Locals
      BY <3>1, <2>1 DEF Locals, PC
    <3>3. LocalOK(m)
      BY <3>1, <2>1 DEF LocalOK, Locals
    <3>4. QED
      BY <3>2, <3>3
  <2>4. task' = [task EXCEPT ![t] = c] \/ task' = [task EXCEPT ![t] = m]
    BY <1>12, <1>t DEF CancelFetches, CancelMatching
  <2>5. in_flight' \in [Key -> InFlight]
    BY <1>12, Constants DEF CancelFetches, CancelMatching, RemoveSlots, TypeInv, TypeOK
  <2>6. cancelled' \in [Key -> Nat]
    <3>1. task[t].seen \in Nat
      BY <1>t DEF Locals
    <3>2. QED
      BY <3>1, <1>12 DEF CancelFetches, CancelMatching, NoteCancelled, TypeInv, TypeOK
  <2> HIDE DEF c, m
  <2>7. QED
    BY <1>12, <2>2, <2>3, <2>4, <2>5, <2>6, StepLocals
       DEF CancelFetches, CancelMatching, TypeInv, TypeOK
<1>13. ASSUME NEW t \in Task, DropEntries(t) PROVE TypeInv'
  <2> DEFINE l == [task[t] EXCEPT !.pc = "reply", !.outcome = Cancelled]
  <2>1. StoreType'
    BY <1>13, RemoveEntriesType DEF DropEntries, StoreType, TypeInv, TypeOK
  <2>2. l \in Locals /\ LocalOK(l)
    <3>1. task[t] \in Locals /\ LocalOK(task[t])
      BY <1>t
    <3>2. l \in Locals
      BY <3>1, <1>o, Constants DEF Locals, PC
    <3>3. LocalOK(l)
      BY <3>1, <1>o, Constants DEF LocalOK, Locals
    <3>4. QED
      BY <3>2, <3>3
  <2>3. task' = [task EXCEPT ![t] = l]
    BY <1>13, <1>t DEF DropEntries
  <2> HIDE DEF l
  <2>4. QED
    BY <1>13, <2>1, <2>2, <2>3, StepLocals DEF DropEntries, StoreType, TypeInv, TypeOK
<1>14. ASSUME NEW t \in Task, NEW p \in Predicate, NothingMatches(t, p)
       PROVE TypeInv'
  <2> DEFINE l == [task[t] EXCEPT !.pc = "reply", !.outcome = Cancelled]
  <2>1. l \in Locals /\ LocalOK(l)
    <3>1. task[t] \in Locals /\ LocalOK(task[t])
      BY <1>t
    <3>2. l \in Locals
      BY <3>1, <1>o, Constants DEF Locals, PC
    <3>3. LocalOK(l)
      BY <3>1, <1>o, Constants DEF LocalOK, Locals
    <3>4. QED
      BY <3>2, <3>3
  <2>2. task' = [task EXCEPT ![t] = l]
    BY <1>14, <1>t DEF NothingMatches
  <2> HIDE DEF l
  <2>3. QED
    BY <1>14, <2>1, <2>2, StepLocals DEF NothingMatches, TypeInv, TypeOK
<1>15. ASSUME NEW t \in Task, NEW p \in Predicate, DropMatching(t, p)
       PROVE TypeInv'
  <2> DEFINE matching == {k \in CachedKeys : entries[k].tag \in p}
             l == [task[t] EXCEPT !.pc = "match_cancel", !.doomed = matching]
  <2>1. StoreType'
    BY <1>15, RemoveEntriesType DEF DropMatching, StoreType, TypeInv, TypeOK
  <2>2. matching \in SUBSET Key
    BY DEF CachedKeys
  <2>3. task' = [task EXCEPT ![t] = l]
    BY <1>15, <1>t DEF DropMatching
  <2> HIDE DEF matching
  <2>4. l \in Locals /\ LocalOK(l)
    <3>1. task[t] \in Locals /\ LocalOK(task[t])
      BY <1>t
    <3>2. l \in Locals
      BY <3>1, <2>2 DEF Locals, PC
    <3>3. LocalOK(l)
      BY <3>1, <2>2 DEF LocalOK, Locals
    <3>4. QED
      BY <3>2, <3>3
  <2> HIDE DEF l
  <2>5. QED
    BY <1>15, <2>1, <2>3, <2>4, StepLocals DEF DropMatching, StoreType, TypeInv, TypeOK
<1>16. ASSUME NEW t \in Task, SampleGeneration(t) PROVE TypeInv'
  <2> DEFINE l == [Idle EXCEPT !.pc = "sampled", !.seen = invalidation_generation]
  <2>0. invalidation_generation \in Nat
    BY DEF TypeInv, TypeOK
  <2>1. l \in Locals /\ LocalOK(l)
    <3>2. l \in Locals
      BY <2>0 DEF Locals, PC, Idle, Outcome
    <3>3. LocalOK(l)
      BY <2>0 DEF LocalOK, Locals, Idle
    <3>4. QED
      BY <3>2, <3>3
  <2>2. task' = [task EXCEPT ![t] = l]
    BY <1>16 DEF SampleGeneration
  <2> HIDE DEF l
  <2>3. QED
    BY <1>16, <2>1, <2>2, StepLocals DEF SampleGeneration, TypeInv, TypeOK
<1>17. ASSUME NEW t \in Task, NEW k \in Key, NEW g \in Tag, InsertIfCurrent(t, k, g)
       PROVE TypeInv'
  <2>1. [tag |-> g, born |-> task[t].seen] \in Value
    BY <1>t DEF Value, Locals
  <2>2. StoreType'
    BY <1>17, <2>1, InsertLockedType
       DEF InsertIfCurrent, StoreType, store, TypeInv, TypeOK
  <2>3. QED
    BY <1>17, <2>2, Constants, StepLocals DEF InsertIfCurrent, StoreType, TypeInv, TypeOK
<1>18. ASSUME UNCHANGED vars PROVE TypeInv'
  BY <1>18 DEF vars, TypeInv, TypeOK
<1>19. QED
  <2>1. SUFFICES ASSUME NEW t \in Task,
                        Call(t) \/ Drop(t) \/ Respawn(t) \/ Progress(t)
                 PROVE  TypeInv'
    BY <1>18 DEF Next
  <2>2. CASE Call(t)
    BY <2>2, <1>1, <1>11, <1>16 DEF Call, Invalidate, Clear, InvalidateMatching
  <2>3. CASE Drop(t)
    BY <2>3, <1>7, <1>8, <1>9 DEF Drop
  <2>4. CASE Respawn(t)
    BY <2>4, <1>9
  <2>5. CASE Progress(t)
    BY <2>5, <1>2, <1>3, <1>4, <1>5, <1>6, <1>9, <1>10, <1>12, <1>13, <1>14,
       <1>15, <1>17 DEF Progress
  <2>6. QED
    BY <2>1, <2>2, <2>3, <2>4, <2>5

\* Every reachable state of the cache is well typed; in particular an error is
\* never cached (get_or_fetch stores Ok values only).
THEOREM TypeCorrect == Spec => []TypeOK
<1>1. TypeInv => TypeOK
  BY DEF TypeInv
<1>2. QED
  BY <1>1, TypeInvInit, TypeInvStep, PTL DEF Spec

------------------------------------------------------------------------------
(***************************************************************************)
(* The queue and the map.                                                  *)
(***************************************************************************)
\* entries.len() and order.len() are one number.
LEMMA CachedCount ==
  ASSUME StoreType, StoreConsistent
  PROVE  /\ IsFiniteSet(CachedKeys)
         /\ Cardinality(CachedKeys) = Len(order)
<1>1. IsFiniteSet(CachedKeys)
  BY SetAssumption, FS_Subset DEF CachedKeys
<1>2. Len(order) \in Nat /\ DOMAIN order = 1..Len(order) /\ order \in [1..Len(order) -> Key]
  BY DEF StoreType
<1>3. \A i \in 1..Len(order) : order[i] \in CachedKeys
  BY <1>2 DEF StoreConsistent, CachedKeys
<1>4. order \in [1..Len(order) -> CachedKeys]
  BY <1>2, <1>3
<1>5. order \in Bijection(1..Len(order), CachedKeys)
  <2>1. \A i, j \in 1..Len(order) : order[i] = order[j] => i = j
    BY <1>2 DEF StoreConsistent
  <2>2. \A k \in CachedKeys : \E i \in 1..Len(order) : order[i] = k
    BY <1>2 DEF StoreConsistent, CachedKeys
  <2>3. QED
    BY <1>4, <2>1, <2>2, Fun_IsBij
<1>6. ExistsBijection(1..Len(order), CachedKeys)
  BY <1>5 DEF ExistsBijection
<1>7. QED
  BY <1>1, <1>2, <1>6, FS_CountingElements

LEMMA RemoveEntriesConsistent ==
  ASSUME StoreType, StoreConsistent, NEW S, RemoveEntries(S)
  PROVE  StoreConsistent'
<1> DEFINE r == Retain(order, Key \ S)
<1>1. /\ order \in Seq(Key) /\ Len(order) \in Nat
      /\ \A i, j \in DOMAIN order : order[i] = order[j] => i = j
      /\ Len(order) <= MaxEntries
  BY DEF StoreType, StoreConsistent
<1>2. /\ r \in Seq(Key) /\ Len(r) \in Nat
      /\ Len(r) <= Len(order)
      /\ \A n \in DOMAIN r : r[n] \in Key \ S /\ \E i \in DOMAIN order : order[i] = r[n]
      /\ \A i \in DOMAIN order : order[i] \in Key \ S => \E n \in DOMAIN r : r[n] = order[i]
      /\ \A m, n \in DOMAIN r : r[m] = r[n] => m = n
  <2> DEFINE T == Key \ S
  <2>1. r = Retain(order, T)
    OBVIOUS
  <2> HIDE DEF T, r
  <2>2. /\ r \in Seq(Key)
        /\ Len(r) <= Len(order)
        /\ \A n \in DOMAIN r : r[n] \in T /\ \E i \in DOMAIN order : order[i] = r[n]
        /\ \A i \in DOMAIN order : order[i] \in T => \E n \in DOMAIN r : r[n] = order[i]
        /\ \A m, n \in DOMAIN r : r[m] = r[n] => m = n
    BY <1>1, <2>1, RetainKeeps
  <2>3. QED
    BY <2>2 DEF T
<1>3. order' = r /\ \A k \in Key : entries'[k] = IF k \in S THEN None ELSE entries[k]
  BY DEF RemoveEntries
<1> HIDE DEF r
<1>4. \A k \in Key : Cached(k)' <=> Cached(k) /\ k \notin S
  BY <1>3 DEF Cached
<1>5. \A k \in Key : Cached(k)' <=> \E n \in DOMAIN r : r[n] = k
  BY <1>2, <1>4 DEF StoreConsistent
<1>6. QED
  BY <1>1, <1>2, <1>3, <1>5, BoundAssumption DEF StoreConsistent

LEMMA InsertLockedConsistent ==
  ASSUME StoreType, StoreConsistent, NEW k \in Key, NEW v \in Value,
         InsertLocked(k, v)
  PROVE  StoreConsistent'
<1>v. v # None
  BY OutcomeAssumption
<1>1. CASE Cached(k)
  <2>1. order' = order /\ \A j \in Key : Cached(j)' <=> Cached(j)
    BY <1>1, <1>v DEF InsertLocked, Cached, StoreType
  <2>2. QED
    BY <2>1 DEF StoreConsistent
<1>2. CASE ~Cached(k)
  <2> DEFINE queue == Append(order, k)
             n == EvictionCount(k)
             L == Len(order)
             evicted == {queue[i] : i \in 1..n}
  <2>1. /\ L \in Nat /\ L <= MaxEntries /\ DOMAIN order = 1..L
        /\ MaxEntries \in Nat /\ MaxEntries >= 1
    BY BoundAssumption DEF StoreType, StoreConsistent
  <2>2. Cardinality(CachedKeys \cup {k}) = L + 1
    <3>1. k \notin CachedKeys
      BY <1>2 DEF CachedKeys
    <3>2. QED
      BY <3>1, CachedCount, FS_AddElement
  <2>3. n \in {0, 1} /\ L + 1 - n <= MaxEntries /\ (n = 1 => L >= 1)
    BY <2>1, <2>2 DEF EvictionCount
  <2>4. /\ queue \in Seq(Key) /\ Len(queue) = L + 1
        /\ \A i \in 1..L : queue[i] = order[i]
        /\ queue[L + 1] = k
    BY DEF StoreType
  <2>5. \A i, j \in 1..(L + 1) : queue[i] = queue[j] => i = j
    <3>1. \A i \in 1..L : order[i] # k
      BY <1>2, <2>1 DEF StoreConsistent
    <3>2. \A i \in 1..(L + 1) : i \in 1..L \/ i = L + 1
      BY <2>1
    <3>3. QED
      BY <3>1, <3>2, <2>1, <2>4 DEF StoreConsistent
  <2>6. \A j \in Key : (\E i \in 1..(L + 1) : queue[i] = j) <=> Cached(j) \/ j = k
    <3>1. \A i \in 1..(L + 1) : i \in 1..L \/ i = L + 1
      BY <2>1
    <3>2. \A i \in 1..L : i \in 1..(L + 1)
      BY <2>1
    <3>3. L + 1 \in 1..(L + 1)
      BY <2>1
    <3>4. QED
      BY <3>1, <3>2, <3>3, <2>1, <2>4 DEF StoreConsistent
  <2>7. /\ order' = SubSeq(queue, n + 1, Len(queue))
        /\ \A j \in Key : entries'[j] = IF j \in evicted THEN None
                                        ELSE IF j = k THEN v ELSE entries[j]
    BY <1>2 DEF InsertLocked
  <2> HIDE DEF queue, n, L
  <2>8. /\ order' \in Seq(Key) /\ Len(order') = L + 1 - n
        /\ \A i \in 1..(L + 1 - n) : order'[i] = queue[i + n]
    <3>1. \A i \in (n + 1)..(L + 1) : queue[i] \in Key
      BY <2>1, <2>3, <2>4
    <3>2. n + 1 <= L + 1 /\ (L + 1) - (n + 1) + 1 = L + 1 - n
      BY <2>1, <2>3
    <3>3. /\ SubSeq(queue, n + 1, L + 1) \in Seq(Key)
          /\ Len(SubSeq(queue, n + 1, L + 1)) = L + 1 - n
          /\ \A i \in 1..(L + 1 - n) : SubSeq(queue, n + 1, L + 1)[i] = queue[n + 1 + i - 1]
      <4>1. n + 1 \in Int /\ L + 1 \in Int
        BY <2>1, <2>3
      <4>2. QED
        BY <3>1, <3>2, <4>1, SubSeqProperties
    <3>4. \A i \in 1..(L + 1 - n) : n + 1 + i - 1 = i + n
      BY <2>1, <2>3
    <3>5. QED
      BY <2>4, <2>7, <3>3, <3>4
  <2>9. DOMAIN order' = 1..(L + 1 - n)
    BY <2>8
  <2>10. \A i \in 1..(L + 1 - n) : i + n \in 1..(L + 1)
    BY <2>1, <2>3
  <2>11. \A i \in 1..(L + 1) : i > n => i - n \in 1..(L + 1 - n) /\ (i - n) + n = i
    BY <2>1, <2>3
  <2>12. \A j \in Key : j \in evicted <=> \E i \in 1..(L + 1) : i <= n /\ queue[i] = j
    <3>1. \A i \in 1..n : i \in 1..(L + 1) /\ i <= n
      BY <2>1, <2>3
    <3>2. \A i \in 1..(L + 1) : i <= n => i \in 1..n
      BY <2>1, <2>3
    <3>3. QED
      BY <3>1, <3>2
  <2> HIDE DEF evicted
  <2>13. \A i \in 1..(L + 1) : i > n \/ i <= n
    BY <2>1, <2>3
  <2>14. \A j \in Key : Cached(j)' <=> (Cached(j) \/ j = k) /\ j \notin evicted
    BY <2>7, <1>v DEF Cached
  <2>15. \A j \in Key : Cached(j)' <=> \E i \in DOMAIN order' : order'[i] = j
    <3> SUFFICES ASSUME NEW j \in Key
                 PROVE  Cached(j)' <=> \E i \in DOMAIN order' : order'[i] = j
      OBVIOUS
    <3>1. ASSUME Cached(j)' PROVE \E i \in DOMAIN order' : order'[i] = j
      <4>1. PICK i \in 1..(L + 1) : queue[i] = j
        BY <3>1, <2>6, <2>14
      <4>2. i > n
        BY <3>1, <4>1, <2>12, <2>13, <2>14
      <4>3. i - n \in DOMAIN order' /\ order'[i - n] = j
        BY <4>1, <4>2, <2>8, <2>9, <2>11
      <4>4. QED
        BY <4>3
    <3>2. ASSUME NEW i \in DOMAIN order', order'[i] = j PROVE Cached(j)'
      <4>0. i \in 1..(L + 1 - n)
        BY <2>9
      <4>1. i + n \in 1..(L + 1) /\ queue[i + n] = j /\ ~(i + n <= n)
        <5>1. ~(i + n <= n)
          BY <4>0, <2>1, <2>3
        <5>2. QED
          BY <5>1, <4>0, <3>2, <2>8, <2>10
      <4>2. j \notin evicted
        BY <4>1, <2>5, <2>12
      <4>3. QED
        BY <4>1, <4>2, <2>6, <2>14
    <3>3. QED
      BY <3>1, <3>2
  <2>16. \A i, j \in DOMAIN order' : order'[i] = order'[j] => i = j
    <3> SUFFICES ASSUME NEW i \in DOMAIN order', NEW j \in DOMAIN order',
                        order'[i] = order'[j]
                 PROVE  i = j
      OBVIOUS
    <3>1. i + n = j + n
      BY <2>5, <2>8, <2>9, <2>10
    <3>2. QED
      BY <3>1, <2>1, <2>3, <2>9
  <2>17. Len(order') <= MaxEntries
    BY <2>3, <2>8
  <2>18. QED
    BY <2>15, <2>16, <2>17, BoundAssumption DEF StoreConsistent
<1>3. QED
  BY <1>1, <1>2

LEMMA StoreConsistentStep ==
  TypeInv /\ StoreConsistent /\ [Next]_vars => StoreConsistent'
<1> SUFFICES ASSUME TypeInv, StoreConsistent, [Next]_vars
             PROVE  StoreConsistent'
  OBVIOUS
<1>s. StoreType
  BY DEF StoreType, TypeInv, TypeOK
<1>0. ASSUME UNCHANGED store PROVE StoreConsistent'
  BY <1>0 DEF store, StoreConsistent, Cached
<1>1. ASSUME NEW t \in Task, StoreFetched(t) PROVE StoreConsistent'
  <2>1. task[t].key \in Key /\ task[t].outcome \in Value
    BY <1>1 DEF StoreFetched, LocalOK, TypeInv
  <2>2. QED
    BY <1>1, <2>1, <1>s, <1>0, InsertLockedConsistent DEF StoreFetched
<1>2. ASSUME NEW t \in Task, DropEntries(t) PROVE StoreConsistent'
  BY <1>2, <1>s, RemoveEntriesConsistent DEF DropEntries
<1>3. ASSUME NEW t \in Task, NEW p \in Predicate, DropMatching(t, p)
      PROVE StoreConsistent'
  BY <1>3, <1>s, RemoveEntriesConsistent DEF DropMatching
<1>4. ASSUME NEW t \in Task, NEW k \in Key, NEW g \in Tag, InsertIfCurrent(t, k, g)
      PROVE StoreConsistent'
  <2>1. [tag |-> g, born |-> task[t].seen] \in Value
    BY DEF Value, Locals, TypeInv, TypeOK
  <2>2. QED
    BY <1>4, <2>1, <1>s, <1>0, InsertLockedConsistent DEF InsertIfCurrent
<1>5. ASSUME NEW t \in Task, Call(t) \/ Drop(t) \/ Respawn(t) PROVE StoreConsistent'
  BY <1>5, <1>0 DEF Call, GetOrFetch, Invalidate, Clear, InvalidateMatching,
     BeginInvalidation, SampleGeneration, Drop, DropLeader, DropWaiter,
     AbandonInsert, Respawn, store
<1>6. ASSUME NEW t \in Task, Progress(t) PROVE StoreConsistent'
  <2>1. CASE \/ Recheck(t) \/ Join(t) \/ Lead(t)
             \/ \E r \in FetchResult(t) : FetchDone(t, r)
             \/ \E w \in Task : Notify(t, w)
             \/ Return(t) \/ CancelFetches(t)
             \/ \E p \in Predicate : NothingMatches(t, p)
             \/ CancelMatching(t)
    BY <2>1, <1>0 DEF Recheck, Join, Lead, FetchDone, Notify, Return,
       CancelFetches, NothingMatches, CancelMatching, store
  <2>2. QED
    BY <1>6, <2>1, <1>1, <1>2, <1>3, <1>4 DEF Progress
<1>7. ASSUME UNCHANGED vars PROVE StoreConsistent'
  BY <1>7, <1>0 DEF vars, store
<1>8. QED
  BY <1>5, <1>6, <1>7 DEF Next

\* The queue and the map of the store always agree, and the capacity holds.
THEOREM StoreStaysConsistent == Spec => []StoreConsistent
<1>1. Init => StoreConsistent
  BY BoundAssumption DEF Init, StoreConsistent, Cached
<1>2. QED
  BY <1>1, TypeInvInit, TypeInvStep, StoreConsistentStep, PTL DEF Spec

------------------------------------------------------------------------------
(***************************************************************************)
(* Leaders, waiters and freshness.                                         *)
(***************************************************************************)
\* A registered fetch has a leader, and only a registered one has waiters.
SlotInv ==
  \A k \in Key :
    /\ in_flight[k].token = 0 => in_flight[k].waiters = {}
    /\ in_flight[k].token # 0 => \E t \in Task : Leads(t, k)

\* A leader's token was handed out to it alone.
TokenInv ==
  /\ \A t \in Task : task[t].pc = "fetch" => task[t].token \in 1..next_token
  /\ \A t, u \in Task :
       task[t].pc = "fetch" /\ task[u].pc = "fetch" /\ task[t].token = task[u].token
         => t = u

\* A registered fetch is not older than the newest invalidation of its key.
FreshInv ==
  /\ \A t \in Task : task[t].seen <= invalidation_generation
  /\ \A k \in Key : cancelled[k] <= invalidation_generation
  /\ \A t \in Task, k \in Key : Leads(t, k) => task[t].seen >= cancelled[k]

CacheInv == TypeInv /\ SlotInv /\ TokenInv /\ FreshInv /\ WaiterIsOwed

Sending == {"store", "reply", "drop"}

\* A step of task t that concerns neither leaders nor slots, and that loses
\* no sender it still has to use.
Quiet(t) ==
  /\ \A u \in Task \ {t} : task'[u] = task[u]
  /\ task[t].pc # "fetch" /\ task'[t].pc \notin {"fetch", "wait"}
  /\ task[t].pc \in Sending =>
       IF task'[t].pc \in Sending THEN task'[t].held = task[t].held
                                  ELSE task[t].held = {}
  /\ task'[t].seen <= invalidation_generation'
  /\ invalidation_generation <= invalidation_generation'
  /\ UNCHANGED <<in_flight, next_token, cancelled>>

\* No leader that is still fetching loses its registration.
LeadersKept ==
  \A t \in Task, k \in Key : Leads(t, k) /\ task'[t].pc = "fetch" => Leads(t, k)'

LEMMA QuietStep ==
  ASSUME CacheInv, TypeInv', NEW t \in Task, Quiet(t)
  PROVE  CacheInv' /\ LeadersKept
<1>t. /\ task \in [Task -> Locals] /\ task' \in [Task -> Locals]
      /\ in_flight \in [Key -> InFlight] /\ in_flight' = in_flight
      /\ cancelled \in [Key -> Nat] /\ cancelled' = cancelled
      /\ invalidation_generation \in Nat /\ invalidation_generation' \in Nat
  BY DEF CacheInv, TypeInv, TypeOK, Quiet
<1>1. \A u \in Task, k \in Key : Leads(u, k)' <=> Leads(u, k)
  BY <1>t DEF Leads, Quiet
<1>2. SlotInv'
  BY <1>1, <1>t DEF CacheInv, SlotInv
<1>3. TokenInv'
  BY DEF CacheInv, TokenInv, Quiet
<1>4. FreshInv'
  <2>1. \A u \in Task : task'[u].seen <= invalidation_generation'
    <3> SUFFICES ASSUME NEW u \in Task, u # t
                 PROVE  task'[u].seen <= invalidation_generation'
      BY DEF Quiet
    <3>1. task[u].seen \in Nat /\ task[u].seen <= invalidation_generation
      BY <1>t DEF CacheInv, FreshInv, Locals
    <3>2. QED
      BY <3>1, <1>t DEF Quiet
  <2>2. \A k \in Key : cancelled'[k] <= invalidation_generation'
    BY <1>t DEF CacheInv, FreshInv, Quiet
  <2>3. \A u \in Task, k \in Key : Leads(u, k)' => task'[u].seen >= cancelled'[k]
    BY <1>1, <1>t DEF CacheInv, FreshInv, Quiet, Leads
  <2>4. QED
    BY <2>1, <2>2, <2>3 DEF FreshInv
<1>5. WaiterIsOwed'
  <2> SUFFICES ASSUME NEW w \in Task, task'[w].pc = "wait", task'[w].outcome = None
               PROVE  \/ \E k \in Key : /\ w \in in_flight'[k].waiters
                                        /\ \E u \in Task : Leads(u, k)'
                      \/ \E u \in Task : /\ w \in task'[u].held
                                         /\ task'[u].pc \in Sending
    BY DEF WaiterIsOwed, Sending
  <2>1. task[w].pc = "wait" /\ task[w].outcome = None
    BY DEF Quiet
  <2>2. CASE \E k \in Key : /\ w \in in_flight[k].waiters
                            /\ \E u \in Task : Leads(u, k)
    BY <2>2, <1>1, <1>t
  <2>3. CASE \E u \in Task : w \in task[u].held /\ task[u].pc \in Sending
    BY <2>3 DEF Quiet
  <2>4. QED
    BY <2>1, <2>2, <2>3 DEF CacheInv, WaiterIsOwed, Sending
<1>6. QED
  BY <1>1, <1>2, <1>3, <1>4, <1>5 DEF CacheInv, LeadersKept

\* The steps that are quiet.
LEMMA QuietSteps ==
  ASSUME CacheInv, NEW t \in Task,
         \/ \E k \in Key : GetOrFetch(t, k)
         \/ \E S \in SUBSET Key, step \in {"cancel", "match"} :
              BeginInvalidation(t, step, S)
         \/ SampleGeneration(t)
         \/ DropWaiter(t) \/ AbandonInsert(t) \/ Respawn(t)
         \/ Recheck(t) \/ StoreFetched(t) \/ Return(t) \/ DropEntries(t)
         \/ \E p \in Predicate : NothingMatches(t, p) \/ DropMatching(t, p)
         \/ \E k \in Key, g \in Tag : InsertIfCurrent(t, k, g)
  PROVE  Quiet(t)
<1>t. task \in [Task -> Locals] /\ invalidation_generation \in Nat
  BY DEF CacheInv, TypeInv, TypeOK
<1>l. task[t] \in Locals /\ task[t].seen <= invalidation_generation
  BY <1>t DEF CacheInv, FreshInv
<1>i. Idle.seen = 0 /\ Idle.pc = "idle"
  BY DEF Idle
<1>1. CASE \E k \in Key : GetOrFetch(t, k)
  <2>1. PICK k \in Key : GetOrFetch(t, k)
    BY <1>1
  <2>2. task'[t].pc \in {"reply", "slow"} /\ task'[t].seen = 0
    BY <2>1, <1>t DEF GetOrFetch, Idle
  <2>3. /\ task[t].pc = "idle"
        /\ \A u \in Task \ {t} : task'[u] = task[u]
        /\ UNCHANGED <<in_flight, next_token, cancelled, invalidation_generation>>
    BY <2>1, <1>t DEF GetOrFetch
  <2>4. QED
    BY <2>2, <2>3, <1>t DEF Quiet, Sending
<1>2. CASE \E S \in SUBSET Key, step \in {"cancel", "match"} :
              BeginInvalidation(t, step, S)
  <2>1. PICK S \in SUBSET Key, step \in {"cancel", "match"} :
              BeginInvalidation(t, step, S)
    BY <1>2
  <2>2. /\ task'[t].pc = step /\ task'[t].seen = invalidation_generation'
        /\ task[t].pc = "idle"
        /\ \A u \in Task \ {t} : task'[u] = task[u]
        /\ UNCHANGED <<in_flight, next_token, cancelled>>
        /\ invalidation_generation' = invalidation_generation + 1
    BY <2>1, <1>t DEF BeginInvalidation, Idle
  <2>3. /\ task'[t].seen <= invalidation_generation'
        /\ invalidation_generation <= invalidation_generation'
    BY <2>2, <1>t
  <2>4. QED
    BY <2>1, <2>2, <2>3 DEF Quiet, Sending
<1>3. CASE SampleGeneration(t) \/ DropWaiter(t)
  <2>1. task'[t].pc \in {"sampled", "gone"} /\ task'[t].seen \in {0, invalidation_generation}
    BY <1>3, <1>t DEF SampleGeneration, DropWaiter, Idle
  <2>2. QED
    BY <1>3, <2>1, <1>t DEF SampleGeneration, DropWaiter, Quiet, Sending
<1>4. CASE AbandonInsert(t) \/ Respawn(t) \/ Return(t)
  <2>1. task'[t] = Idle
    BY <1>4, <1>t DEF AbandonInsert, Respawn, Return
  <2>2. QED
    BY <1>4, <2>1, <1>t, <1>i DEF AbandonInsert, Respawn, Return, Quiet, Sending
<1>5. CASE Recheck(t) \/ StoreFetched(t) \/ DropEntries(t)
           \/ \E p \in Predicate : NothingMatches(t, p)
  <2>1. /\ task'[t].pc = "reply" /\ task'[t].held = task[t].held
        /\ task'[t].seen = task[t].seen
    BY <1>5, <1>t, <1>l DEF Recheck, StoreFetched, DropEntries, NothingMatches, Locals
  <2>2. QED
    BY <1>5, <2>1, <1>t, <1>l
       DEF Recheck, StoreFetched, DropEntries, NothingMatches, Quiet, Sending
<1>6. CASE \E p \in Predicate : DropMatching(t, p)
  <2>1. PICK p \in Predicate : DropMatching(t, p)
    BY <1>6
  <2> DEFINE matching == {k \in CachedKeys : entries[k].tag \in p}
  <2>2. /\ task[t].pc = "match"
        /\ task' = [task EXCEPT ![t].pc = "match_cancel", ![t].doomed = matching]
        /\ UNCHANGED <<in_flight, next_token, cancelled, invalidation_generation>>
    BY <2>1 DEF DropMatching
  <2> HIDE DEF matching
  <2>3. /\ task'[t].pc = "match_cancel" /\ task'[t].seen = task[t].seen
        /\ \A u \in Task \ {t} : task'[u] = task[u]
    BY <2>2, <1>t, <1>l DEF Locals
  <2>4. QED
    BY <2>2, <2>3, <1>t, <1>l DEF Quiet, Sending
<1>7. CASE \E k \in Key, g \in Tag : InsertIfCurrent(t, k, g)
  <2>1. task'[t] = Idle
    BY <1>7, <1>t DEF InsertIfCurrent
  <2>2. QED
    BY <1>7, <2>1, <1>t, <1>i DEF InsertIfCurrent, Quiet, Sending
<1>8. QED
  BY <1>1, <1>2, <1>3, <1>4, <1>5, <1>6, <1>7

\* What every leader, waiter and slot argument below needs of the types.
LEMMA CacheTypes ==
  ASSUME CacheInv
  PROVE  /\ task \in [Task -> Locals] /\ in_flight \in [Key -> InFlight]
         /\ cancelled \in [Key -> Nat] /\ next_token \in Nat
         /\ invalidation_generation \in Nat
         /\ \A t \in Task : LocalOK(task[t])
         /\ \A t \in Task : task[t].pc = "fetch" => task[t].token # 0
<1>1. \A t \in Task : task[t].pc = "fetch" => task[t].token # 0
  <2> SUFFICES ASSUME NEW t \in Task, task[t].pc = "fetch"
               PROVE  task[t].token # 0
    OBVIOUS
  <2>1. task[t].token \in 1..next_token /\ next_token \in Nat
    BY DEF CacheInv, TokenInv, TypeInv, TypeOK
  <2>2. QED
    BY <2>1
<1>2. QED
  BY <1>1 DEF CacheInv, TypeInv, TypeOK

\* A step that hands out no token and starts no fetch keeps tokens unique.
LEMMA TokensKept ==
  ASSUME TokenInv, next_token' = next_token,
         \A u \in Task : task'[u].pc = "fetch" =>
           task[u].pc = "fetch" /\ task'[u].token = task[u].token
  PROVE  TokenInv'
BY DEF TokenInv

\* One answer sent: the waiter it reaches is no longer owed one, and the
\* other waiters keep their senders.
LEMMA NotifyStep ==
  ASSUME CacheInv, TypeInv', NEW t \in Task, NEW w \in Task, Notify(t, w)
  PROVE  CacheInv' /\ LeadersKept
<1>t. /\ task \in [Task -> Locals] /\ in_flight \in [Key -> InFlight]
      /\ \A u \in Task : LocalOK(task[u])
  BY CacheTypes
<1>n. /\ task[t].pc = "reply"
      /\ UNCHANGED <<in_flight, next_token, cancelled, invalidation_generation>>
  BY DEF Notify
<1>1. /\ task'[t] = [task[t] EXCEPT !.held = @ \ {w}]
      /\ \A u \in Task \ {t} :
           \/ task'[u] = task[u] /\ (u = w => task[w].pc # "wait")
           \/ u = w /\ task'[u] = [task[w] EXCEPT !.outcome = task[t].outcome]
  BY DEF Notify
<1>2. \A u \in Task :
        /\ task'[u].pc = task[u].pc /\ task'[u].key = task[u].key
        /\ task'[u].token = task[u].token /\ task'[u].seen = task[u].seen
        /\ task[u].held \ {w} \subseteq task'[u].held
  <2> SUFFICES ASSUME NEW u \in Task
               PROVE  /\ task'[u].pc = task[u].pc /\ task'[u].key = task[u].key
                      /\ task'[u].token = task[u].token /\ task'[u].seen = task[u].seen
                      /\ task[u].held \ {w} \subseteq task'[u].held
    OBVIOUS
  <2>1. task[u] \in Locals
    BY <1>t
  <2>2. QED
    BY <2>1, <1>1 DEF Locals
<1>3. \A u \in Task : \/ u # w /\ (task'[u].pc = "wait" => task'[u].outcome = task[u].outcome)
                      \/ u = w /\ (task'[u].pc = "wait" => task'[u].outcome # None)
  <2> SUFFICES ASSUME NEW u \in Task, task'[u].pc = "wait"
               PROVE  \/ u # w /\ task'[u].outcome = task[u].outcome
                      \/ u = w /\ task'[u].outcome # None
    OBVIOUS
  <2>1. task[u].pc = "wait" /\ u # t /\ task[u] \in Locals
    BY <1>2, <1>n, <1>t
  <2>2. task[t].outcome # None
    BY <1>n, <1>t DEF LocalOK
  <2>3. QED
    BY <2>1, <2>2, <1>1 DEF Locals
<1>4. \A u \in Task, k \in Key : Leads(u, k)' <=> Leads(u, k)
  BY <1>2, <1>n DEF Leads
<1>5. SlotInv'
  BY <1>4, <1>n DEF CacheInv, SlotInv
<1>6. TokenInv'
  BY <1>2, <1>n, TokensKept DEF CacheInv
<1>7. FreshInv'
  BY <1>2, <1>4, <1>n DEF CacheInv, FreshInv
<1>8. WaiterIsOwed'
  <2> SUFFICES ASSUME NEW v \in Task, task'[v].pc = "wait", task'[v].outcome = None
               PROVE  \/ \E k \in Key : /\ v \in in_flight'[k].waiters
                                        /\ \E u \in Task : Leads(u, k)'
                      \/ \E u \in Task : /\ v \in task'[u].held
                                         /\ task'[u].pc \in Sending
    BY DEF WaiterIsOwed, Sending
  <2>1. v # w /\ task[v].pc = "wait" /\ task[v].outcome = None
    BY <1>2, <1>3
  <2>2. CASE \E k \in Key : /\ v \in in_flight[k].waiters
                            /\ \E u \in Task : Leads(u, k)
    BY <2>2, <1>4, <1>n
  <2>3. CASE \E u \in Task : v \in task[u].held /\ task[u].pc \in Sending
    BY <2>1, <2>3, <1>2
  <2>4. QED
    BY <2>1, <2>2, <2>3 DEF CacheInv, WaiterIsOwed, Sending
<1>9. QED
  BY <1>4, <1>5, <1>6, <1>7, <1>8 DEF CacheInv, LeadersKept

\* A caller joins a registered fetch: that fetch has a leader.
LEMMA JoinStep ==
  ASSUME CacheInv, TypeInv', NEW t \in Task, Join(t)
  PROVE  CacheInv' /\ LeadersKept
<1>t. /\ task \in [Task -> Locals] /\ in_flight \in [Key -> InFlight]
      /\ LocalOK(task[t])
  BY CacheTypes
<1>k. PICK k \in Key : k = task[t].key
  BY <1>t DEF Join, LocalOK
<1>1. /\ task[t].pc = "slow" /\ in_flight[k] # NoSlot
      /\ in_flight' = [in_flight EXCEPT ![k].waiters = @ \cup {t}]
      /\ task' = [task EXCEPT ![t].pc = "wait"]
      /\ UNCHANGED <<next_token, cancelled, invalidation_generation>>
  BY <1>k DEF Join
<1>2. \A j \in Key : /\ in_flight'[j].token = in_flight[j].token
                     /\ in_flight[j].waiters \subseteq in_flight'[j].waiters
                     /\ j # k => in_flight'[j] = in_flight[j]
  BY <1>1, <1>t DEF InFlight
<1>3. t \in in_flight'[k].waiters
  BY <1>1, <1>t DEF InFlight
<1>4. in_flight[k].token # 0
  <2>1. SUFFICES ASSUME in_flight[k].token = 0
                 PROVE  FALSE
    OBVIOUS
  <2>2. in_flight[k].waiters = {} /\ in_flight[k] \in InFlight
    BY <2>1, <1>1, <1>t DEF CacheInv, SlotInv
  <2>3. QED
    BY <2>1, <2>2, <1>1 DEF InFlight, NoSlot
<1>5. /\ task'[t].pc = "wait" /\ task'[t].seen = task[t].seen
      /\ \A u \in Task \ {t} : task'[u] = task[u]
  BY <1>1, <1>t DEF Locals
<1>6. \A u \in Task, j \in Key : Leads(u, j)' <=> Leads(u, j)
  BY <1>1, <1>2, <1>5 DEF Leads
<1>7. SlotInv'
  BY <1>1, <1>2, <1>4, <1>6 DEF CacheInv, SlotInv
<1>8. TokenInv'
  BY <1>1, <1>5, TokensKept DEF CacheInv
<1>9. FreshInv'
  BY <1>1, <1>5, <1>6 DEF CacheInv, FreshInv, Leads
<1>10. WaiterIsOwed'
  <2> SUFFICES ASSUME NEW v \in Task, task'[v].pc = "wait", task'[v].outcome = None
               PROVE  \/ \E j \in Key : /\ v \in in_flight'[j].waiters
                                        /\ \E u \in Task : Leads(u, j)'
                      \/ \E u \in Task : /\ v \in task'[u].held
                                         /\ task'[u].pc \in Sending
    BY DEF WaiterIsOwed, Sending
  <2>1. CASE v = t
    BY <2>1, <1>1, <1>3, <1>4, <1>6 DEF CacheInv, SlotInv
  <2>2. CASE v # t /\ \E j \in Key : /\ v \in in_flight[j].waiters
                                     /\ \E u \in Task : Leads(u, j)
    BY <2>2, <1>2, <1>6
  <2>3. CASE v # t /\ \E u \in Task : v \in task[u].held /\ task[u].pc \in Sending
    BY <2>3, <1>1, <1>5 DEF Sending
  <2>4. QED
    BY <2>1, <2>2, <2>3, <1>5 DEF CacheInv, WaiterIsOwed, Sending
<1>11. QED
  BY <1>6, <1>7, <1>8, <1>9, <1>10 DEF CacheInv, LeadersKept

\* A caller registers a fetch: its token is new, and it begins after every
\* invalidation so far.
LEMMA LeadStep ==
  ASSUME CacheInv, TypeInv', NEW t \in Task, Lead(t)
  PROVE  CacheInv' /\ LeadersKept
<1>t. /\ task \in [Task -> Locals] /\ in_flight \in [Key -> InFlight]
      /\ cancelled \in [Key -> Nat] /\ next_token \in Nat
      /\ invalidation_generation \in Nat /\ LocalOK(task[t])
  BY CacheTypes
<1>k. PICK k \in Key : k = task[t].key
  BY <1>t DEF Lead, LocalOK
<1>1. /\ task[t].pc = "slow" /\ in_flight[k] = NoSlot
      /\ next_token' = next_token + 1
      /\ in_flight' = [in_flight EXCEPT ![k] = [token |-> next_token', waiters |-> {}]]
      /\ task' = [task EXCEPT ![t].pc = "fetch", ![t].token = next_token',
                              ![t].seen = invalidation_generation]
      /\ UNCHANGED <<cancelled, invalidation_generation>>
  BY <1>k DEF Lead
<1>2. /\ task'[t].pc = "fetch" /\ task'[t].token = next_token + 1
      /\ task'[t].seen = invalidation_generation /\ task'[t].key = k
      /\ \A u \in Task \ {t} : task'[u] = task[u]
  BY <1>1, <1>k, <1>t DEF Locals
<1>3. /\ in_flight'[k].token = next_token + 1
      /\ \A j \in Key \ {k} : in_flight'[j] = in_flight[j]
  BY <1>1, <1>t
<1>4. \A u \in Task : task[u].pc = "fetch" => task[u].token \in 1..next_token
  BY DEF CacheInv, TokenInv
<1>5. \A u \in Task \ {t}, j \in Key :
        /\ Leads(u, j)' => j # k /\ Leads(u, j)
        /\ j # k /\ Leads(u, j) => Leads(u, j)'
  <2> SUFFICES ASSUME NEW u \in Task \ {t}, NEW j \in Key
               PROVE  /\ Leads(u, j)' => j # k /\ Leads(u, j)
                      /\ j # k /\ Leads(u, j) => Leads(u, j)'
    OBVIOUS
  <2>1. task[u].pc = "fetch" => task[u].token # next_token + 1
    BY <1>4, <1>t
  <2>2. task'[u] = task[u] /\ (j # k => in_flight'[j] = in_flight[j])
    BY <1>2, <1>3
  <2>3. QED
    BY <2>1, <2>2, <1>3 DEF Leads
<1>6. /\ Leads(t, k)'
      /\ \A j \in Key : ~Leads(t, j) /\ (Leads(t, j)' => j = k)
  <2>1. Leads(t, k)'
    BY <1>2, <1>3 DEF Leads
  <2>2. \A j \in Key : ~Leads(t, j) /\ (Leads(t, j)' => j = k)
    <3>1. task[t].pc = "slow"
      BY <1>1
    <3>2. QED
      BY <1>2, <3>1 DEF Leads
  <2>3. QED
    BY <2>1, <2>2
<1>7. SlotInv'
  <2> SUFFICES ASSUME NEW j \in Key
               PROVE  /\ in_flight'[j].token = 0 => in_flight'[j].waiters = {}
                      /\ in_flight'[j].token # 0 => \E u \in Task : Leads(u, j)'
    BY DEF SlotInv
  <2>1. CASE j = k
    <3>1. in_flight'[j].token # 0
      BY <2>1, <1>3, <1>t
    <3>2. QED
      BY <2>1, <3>1, <1>6 DEF Leads
  <2>2. CASE j # k
    BY <2>2, <1>3, <1>5, <1>6 DEF CacheInv, SlotInv
  <2>3. QED
    BY <2>1, <2>2
<1>8. TokenInv'
  <2>1. \A u \in Task : task'[u].pc = "fetch" => task'[u].token \in 1..next_token'
    BY <1>1, <1>2, <1>4, <1>t
  <2>2. \A u, v \in Task :
          task'[u].pc = "fetch" /\ task'[v].pc = "fetch" /\ task'[u].token = task'[v].token
            => u = v
    BY <1>2, <1>4, <1>t DEF CacheInv, TokenInv
  <2>3. QED
    BY <2>1, <2>2 DEF TokenInv
<1>9. FreshInv'
  <2>1. \A u \in Task : task'[u].seen <= invalidation_generation'
    BY <1>1, <1>2, <1>t DEF CacheInv, FreshInv
  <2>2. \A j \in Key : cancelled'[j] <= invalidation_generation'
    BY <1>1 DEF CacheInv, FreshInv
  <2>3. \A u \in Task, j \in Key : Leads(u, j)' => task'[u].seen >= cancelled'[j]
    BY <1>1, <1>2, <1>5, <1>6, <1>t DEF CacheInv, FreshInv
  <2>4. QED
    BY <2>1, <2>2, <2>3 DEF FreshInv
<1>10. WaiterIsOwed'
  <2> SUFFICES ASSUME NEW v \in Task, task'[v].pc = "wait", task'[v].outcome = None
               PROVE  \/ \E j \in Key : /\ v \in in_flight'[j].waiters
                                        /\ \E u \in Task : Leads(u, j)'
                      \/ \E u \in Task : /\ v \in task'[u].held
                                         /\ task'[u].pc \in Sending
    BY DEF WaiterIsOwed, Sending
  <2>1. v # t /\ task[v].pc = "wait" /\ task[v].outcome = None
    BY <1>2
  <2>2. CASE \E j \in Key : /\ v \in in_flight[j].waiters
                            /\ \E u \in Task : Leads(u, j)
    BY <2>2, <1>1, <1>3, <1>5, <1>6 DEF NoSlot
  <2>3. CASE \E u \in Task : v \in task[u].held /\ task[u].pc \in Sending
    BY <2>3, <1>1, <1>2 DEF Sending
  <2>4. QED
    BY <2>1, <2>2, <2>3 DEF CacheInv, WaiterIsOwed, Sending
<1>11. LeadersKept
  <2> SUFFICES ASSUME NEW u \in Task, NEW j \in Key, Leads(u, j)
               PROVE  Leads(u, j)'
    BY DEF LeadersKept
  <2>1. u # t
    BY <1>6
  <2>2. j # k
    <3>1. task[u].token # 0
      BY CacheTypes DEF Leads
    <3>2. QED
      BY <3>1, <1>1 DEF Leads, NoSlot
  <2>3. QED
    BY <2>1, <2>2, <1>5
<1>12. QED
  BY <1>7, <1>8, <1>9, <1>10, <1>11 DEF CacheInv

\* A leader stops fetching and takes what is its own.
Claim(t) ==
  /\ task[t].pc = "fetch" /\ task'[t].pc \in {"store", "reply"}
  /\ task'[t].pc = "store" => OwnsSlot(t)
  /\ task'[t].seen = task[t].seen
  /\ task'[t].held = TakenWaiters(t)
  /\ TakeInFlight(t)
  /\ \A u \in Task \ {t} : task'[u] = task[u]
  /\ UNCHANGED <<next_token, cancelled, invalidation_generation>>

\* A leader that stops takes its own slot or none: tokens are unique, so no
\* other leader's registration is touched, and the waiters it takes are owed
\* an answer by it.
LEMMA ClaimStep ==
  ASSUME CacheInv, TypeInv', NEW t \in Task, Claim(t)
  PROVE  CacheInv' /\ LeadersKept
<1>t. /\ task \in [Task -> Locals] /\ in_flight \in [Key -> InFlight]
      /\ LocalOK(task[t])
      /\ \A u \in Task : task[u].pc = "fetch" => task[u].token # 0
  BY CacheTypes
<1>k. PICK k \in Key : k = task[t].key
  BY <1>t DEF Claim, LocalOK
<1>1. \/ /\ in_flight[k].token = task[t].token
         /\ in_flight' = [in_flight EXCEPT ![k] = NoSlot]
         /\ task'[t].held = in_flight[k].waiters
      \/ /\ in_flight[k].token # task[t].token
         /\ in_flight' = in_flight
  BY <1>k DEF Claim, TakeInFlight, TakenWaiters, OwnsSlot
<1>2. \A j \in Key : in_flight'[j] = in_flight[j]
                     \/ /\ j = k /\ in_flight'[j] = NoSlot
                        /\ in_flight[k].token = task[t].token
                        /\ task'[t].held = in_flight[k].waiters
  BY <1>1, <1>t
<1>3. NoSlot.token = 0 /\ NoSlot.waiters = {}
  BY DEF NoSlot
<1>4. \A u \in Task, j \in Key : Leads(u, j)' => Leads(u, j)
  BY <1>2, <1>3, <1>t DEF Claim, Leads
<1>5. \A u \in Task, j \in Key :
        Leads(u, j) => Leads(u, j)' \/ u = t
  <2> SUFFICES ASSUME NEW u \in Task \ {t}, NEW j \in Key, Leads(u, j)
               PROVE  Leads(u, j)'
    OBVIOUS
  <2>1. ~(j = k /\ in_flight[k].token = task[t].token)
    BY <1>t DEF CacheInv, TokenInv, Leads, Claim
  <2>2. in_flight'[j] = in_flight[j] /\ task'[u] = task[u]
    BY <2>1, <1>2 DEF Claim
  <2>3. QED
    BY <2>2 DEF Leads
<1>6. \A j \in Key : Leads(t, j) => j = k /\ in_flight[k].token = task[t].token
  BY <1>k DEF Leads
<1>7. \A j \in Key : (\E u \in Task : Leads(u, j)) =>
         \/ \E u \in Task : Leads(u, j)'
         \/ j = k /\ in_flight' = [in_flight EXCEPT ![k] = NoSlot]
            /\ task'[t].held = in_flight[k].waiters
  BY <1>1, <1>5, <1>6
<1>8. SlotInv'
  <2> SUFFICES ASSUME NEW j \in Key
               PROVE  /\ in_flight'[j].token = 0 => in_flight'[j].waiters = {}
                      /\ in_flight'[j].token # 0 => \E u \in Task : Leads(u, j)'
    BY DEF SlotInv
  <2>1. CASE in_flight'[j] = NoSlot
    BY <2>1, <1>3
  <2>2. CASE in_flight'[j] # NoSlot
    <3>1. in_flight'[j] = in_flight[j]
      BY <2>2, <1>2
    <3>2. ~(j = k /\ in_flight' = [in_flight EXCEPT ![k] = NoSlot])
      BY <2>2, <1>t
    <3>3. QED
      BY <3>1, <3>2, <1>7 DEF CacheInv, SlotInv
  <2>3. QED
    BY <2>1, <2>2
<1>9. TokenInv'
  BY TokensKept DEF CacheInv, Claim
<1>10. FreshInv'
  BY <1>4 DEF CacheInv, FreshInv, Claim
<1>11. WaiterIsOwed'
  <2> SUFFICES ASSUME NEW v \in Task, task'[v].pc = "wait", task'[v].outcome = None
               PROVE  \/ \E j \in Key : /\ v \in in_flight'[j].waiters
                                        /\ \E u \in Task : Leads(u, j)'
                      \/ \E u \in Task : /\ v \in task'[u].held
                                         /\ task'[u].pc \in Sending
    BY DEF WaiterIsOwed, Sending
  <2>1. v # t /\ task[v].pc = "wait" /\ task[v].outcome = None
    BY DEF Claim
  <2>2. CASE \E j \in Key : /\ v \in in_flight[j].waiters
                            /\ \E u \in Task : Leads(u, j)
    <3>1. PICK j \in Key : /\ v \in in_flight[j].waiters
                           /\ \E u \in Task : Leads(u, j)
      BY <2>2
    <3>2. CASE in_flight'[j] = in_flight[j] /\ \E u \in Task : Leads(u, j)'
      BY <3>1, <3>2
    <3>3. CASE j = k /\ task'[t].held = in_flight[k].waiters
      BY <3>1, <3>3 DEF Claim, Sending
    <3>4. QED
      BY <3>1, <3>2, <3>3, <1>2, <1>7
  <2>3. CASE \E u \in Task : v \in task[u].held /\ task[u].pc \in Sending
    BY <2>3 DEF Sending, Claim
  <2>4. QED
    BY <2>1, <2>2, <2>3 DEF CacheInv, WaiterIsOwed, Sending
<1>12. LeadersKept
  BY <1>5 DEF LeadersKept, Claim
<1>13. QED
  BY <1>8, <1>9, <1>10, <1>11, <1>12 DEF CacheInv

\* An invalidation is in its in_flight critical section.
Cancel(t) ==
  /\ task[t].pc \in {"cancel", "match_cancel"} /\ task'[t].pc \in {"drop", "reply"}
  /\ task'[t].seen = task[t].seen
  /\ task'[t].held = SlotWaiters(t)
  /\ RemoveSlots(t) /\ NoteCancelled(t)
  /\ \A u \in Task \ {t} : task'[u] = task[u]
  /\ UNCHANGED <<next_token, invalidation_generation>>

\* An invalidation takes the slots and the waiters of its own keys, and those
\* waiters are then owed an answer by it.
LEMMA CancelStep ==
  ASSUME CacheInv, TypeInv', NEW t \in Task, Cancel(t)
  PROVE  /\ CacheInv'
         /\ \A u \in Task, k \in Key :
              Leads(u, k) => Leads(u, k)' \/ k \in task[t].doomed
<1>t. /\ task \in [Task -> Locals] /\ in_flight \in [Key -> InFlight]
      /\ cancelled \in [Key -> Nat] /\ invalidation_generation \in Nat
      /\ \A u \in Task : task[u].pc = "fetch" => task[u].token # 0
  BY CacheTypes
<1>d. PICK D \in SUBSET Key : D = task[t].doomed
  BY <1>t DEF Locals
<1>1. \A j \in Key : in_flight'[j] = IF j \in D THEN NoSlot ELSE in_flight[j]
  BY <1>d DEF Cancel, RemoveSlots
<1>2. \A j \in Key : j \in D => in_flight[j].waiters \subseteq task'[t].held
  BY <1>d DEF Cancel, SlotWaiters
<1>3. NoSlot.token = 0 /\ NoSlot.waiters = {}
  BY DEF NoSlot
<1>4. \A u \in Task, j \in Key : Leads(u, j)' => Leads(u, j) /\ j \notin D
  BY <1>1, <1>3, <1>t DEF Cancel, Leads
<1>5. \A u \in Task, j \in Key : Leads(u, j) /\ j \notin D => Leads(u, j)'
  BY <1>1, <1>t DEF Cancel, Leads
<1>6. SlotInv'
  BY <1>1, <1>3, <1>5 DEF CacheInv, SlotInv
<1>7. TokenInv'
  BY TokensKept DEF CacheInv, Cancel
<1>8. FreshInv'
  <2>1. \A u \in Task : task'[u].seen <= invalidation_generation'
    BY DEF CacheInv, FreshInv, Cancel
  <2>2. \A j \in Key : \/ cancelled'[j] = cancelled[j]
                       \/ j \in D /\ cancelled'[j] = task[t].seen
    BY <1>d DEF Cancel, NoteCancelled
  <2>3. \A j \in Key : cancelled'[j] <= invalidation_generation'
    BY <2>2 DEF CacheInv, FreshInv, Cancel
  <2>4. \A u \in Task, j \in Key : Leads(u, j)' => task'[u].seen >= cancelled'[j]
    BY <2>2, <1>4 DEF CacheInv, FreshInv, Cancel
  <2>5. QED
    BY <2>1, <2>3, <2>4 DEF FreshInv
<1>9. WaiterIsOwed'
  <2> SUFFICES ASSUME NEW v \in Task, task'[v].pc = "wait", task'[v].outcome = None
               PROVE  \/ \E j \in Key : /\ v \in in_flight'[j].waiters
                                        /\ \E u \in Task : Leads(u, j)'
                      \/ \E u \in Task : /\ v \in task'[u].held
                                         /\ task'[u].pc \in Sending
    BY DEF WaiterIsOwed, Sending
  <2>1. v # t /\ task[v].pc = "wait" /\ task[v].outcome = None
    BY DEF Cancel
  <2>2. CASE \E j \in Key : /\ v \in in_flight[j].waiters
                            /\ \E u \in Task : Leads(u, j)
    <3>1. PICK j \in Key : /\ v \in in_flight[j].waiters
                           /\ \E u \in Task : Leads(u, j)
      BY <2>2
    <3>2. CASE j \in D
      BY <3>1, <3>2, <1>2 DEF Cancel, Sending
    <3>3. CASE j \notin D
      BY <3>1, <3>3, <1>1, <1>5
    <3>4. QED
      BY <3>2, <3>3
  <2>3. CASE \E u \in Task : v \in task[u].held /\ task[u].pc \in Sending
    BY <2>3 DEF Sending, Cancel
  <2>4. QED
    BY <2>1, <2>2, <2>3 DEF CacheInv, WaiterIsOwed, Sending
<1>10. QED
  BY <1>d, <1>5, <1>6, <1>7, <1>8, <1>9 DEF CacheInv

\* Every step is of one of these kinds.
LEMMA StepKinds ==
  ASSUME CacheInv, Next
  PROVE  \E t \in Task : \/ Quiet(t) \/ Join(t) \/ Lead(t) \/ Claim(t)
                         \/ Cancel(t) /\ (CancelFetches(t) \/ CancelMatching(t))
                         \/ \E w \in Task : Notify(t, w)
<1>t. task \in [Task -> Locals]
  BY CacheTypes
<1>1. PICK t \in Task : Call(t) \/ Drop(t) \/ Respawn(t) \/ Progress(t)
  BY DEF Next
<1>2. CASE \/ \E k \in Key : GetOrFetch(t, k)
           \/ \E k \in Key : Invalidate(t, k)
           \/ Clear(t) \/ InvalidateMatching(t)
           \/ SampleGeneration(t)
           \/ DropWaiter(t) \/ AbandonInsert(t) \/ Respawn(t)
           \/ Recheck(t) \/ StoreFetched(t) \/ Return(t) \/ DropEntries(t)
           \/ \E p \in Predicate : NothingMatches(t, p) \/ DropMatching(t, p)
           \/ \E k \in Key, g \in Tag : InsertIfCurrent(t, k, g)
  <2>1. (\E k \in Key : Invalidate(t, k)) \/ Clear(t) \/ InvalidateMatching(t) =>
          \E S \in SUBSET Key, step \in {"cancel", "match"} : BeginInvalidation(t, step, S)
    <3>1. ASSUME NEW k \in Key, Invalidate(t, k)
          PROVE  BeginInvalidation(t, "cancel", {k}) /\ {k} \in SUBSET Key
      BY <3>1 DEF Invalidate
    <3>2. Clear(t) => BeginInvalidation(t, "cancel", Key) /\ Key \in SUBSET Key
      BY DEF Clear
    <3>3. InvalidateMatching(t) => BeginInvalidation(t, "match", {}) /\ {} \in SUBSET Key
      BY DEF InvalidateMatching
    <3>4. QED
      BY <3>1, <3>2, <3>3
  <2>2. Quiet(t)
    BY <1>2, <2>1, QuietSteps
  <2>3. QED
    BY <2>2
<1>3. CASE \E r \in FetchResult(t) : FetchDone(t, r)
  <2>1. PICK r \in FetchResult(t) : FetchDone(t, r)
    BY <1>3
  <2>2. /\ task[t] \in Locals /\ task[t].pc = "fetch" /\ TakeInFlight(t)
        /\ task' = [task EXCEPT
             ![t].pc = IF r \in Value /\ OwnsSlot(t) THEN "store" ELSE "reply",
             ![t].outcome = r, ![t].held = TakenWaiters(t)]
        /\ UNCHANGED <<next_token, cancelled, invalidation_generation>>
    BY <2>1, <1>t DEF FetchDone
  <2>3. /\ task'[t].pc = IF r \in Value /\ OwnsSlot(t) THEN "store" ELSE "reply"
        /\ task'[t].seen = task[t].seen /\ task'[t].held = TakenWaiters(t)
        /\ \A u \in Task \ {t} : task'[u] = task[u]
    BY <2>2, <1>t DEF Locals
  <2>4. /\ task'[t].pc \in {"store", "reply"}
        /\ task'[t].pc = "store" => OwnsSlot(t)
    BY <2>3
  <2>5. /\ task[t].pc = "fetch" /\ TakeInFlight(t)
        /\ UNCHANGED <<next_token, cancelled, invalidation_generation>>
    BY <2>2
  <2>6. Claim(t)
    BY <2>3, <2>4, <2>5 DEF Claim
  <2>7. QED
    BY <2>6
<1>4. CASE DropLeader(t)
  <2>1. /\ task[t] \in Locals /\ task[t].pc = "fetch" /\ TakeInFlight(t)
        /\ task' = [task EXCEPT ![t].pc = "reply", ![t].outcome = Cancelled,
                                ![t].held = TakenWaiters(t)]
        /\ UNCHANGED <<next_token, cancelled, invalidation_generation>>
    BY <1>4, <1>t DEF DropLeader
  <2>2. /\ task'[t].pc = "reply"
        /\ task'[t].seen = task[t].seen /\ task'[t].held = TakenWaiters(t)
        /\ \A u \in Task \ {t} : task'[u] = task[u]
    BY <2>1, <1>t DEF Locals
  <2>3. Claim(t)
    BY <2>1, <2>2 DEF Claim
  <2>4. QED
    BY <2>3
<1>5. CASE CancelFetches(t) \/ CancelMatching(t)
  <2>1. /\ task[t] \in Locals /\ task[t].pc \in {"cancel", "match_cancel"}
        /\ RemoveSlots(t) /\ NoteCancelled(t)
        /\ UNCHANGED <<next_token, invalidation_generation>>
    BY <1>5, <1>t DEF CancelFetches, CancelMatching
  <2>2. /\ task'[t].pc \in {"drop", "reply"}
        /\ task'[t].seen = task[t].seen /\ task'[t].held = SlotWaiters(t)
        /\ \A u \in Task \ {t} : task'[u] = task[u]
    BY <1>5, <2>1, <1>t DEF CancelFetches, CancelMatching, Locals
  <2>3. Cancel(t)
    BY <2>1, <2>2 DEF Cancel
  <2>4. QED
    BY <1>5, <2>3
<1>6. CASE Join(t) \/ Lead(t) \/ \E w \in Task : Notify(t, w)
  BY <1>6
<1>7. QED
  BY <1>1, <1>2, <1>3, <1>4, <1>5, <1>6 DEF Call, Drop, Progress

LEMMA CacheInvInit == Init => CacheInv
<1> SUFFICES ASSUME Init PROVE CacheInv
  OBVIOUS
<1>1. \A t \in Task : task[t].pc = "idle" /\ task[t].seen = 0
  BY DEF Init, Idle
<1>2. \A k \in Key : in_flight[k].token = 0 /\ in_flight[k].waiters = {} /\ cancelled[k] = 0
  BY DEF Init, NoSlot
<1>3. invalidation_generation = 0
  BY DEF Init
<1>4. QED
  BY <1>1, <1>2, <1>3, TypeInvInit
     DEF CacheInv, SlotInv, TokenInv, FreshInv, WaiterIsOwed, Leads

LEMMA CacheInvStep == CacheInv /\ [Next]_vars => CacheInv'
<1> SUFFICES ASSUME CacheInv, [Next]_vars PROVE CacheInv'
  OBVIOUS
<1>1. TypeInv'
  BY TypeInvStep DEF CacheInv
<1>2. CASE Next
  BY <1>1, <1>2, StepKinds, QuietStep, JoinStep, LeadStep, ClaimStep, CancelStep,
     NotifyStep
<1>3. CASE UNCHANGED vars
  BY <1>1, <1>3 DEF vars, CacheInv, SlotInv, TokenInv, FreshInv, WaiterIsOwed, Leads
<1>4. QED
  BY <1>2, <1>3

\* Whatever the interleaving of callers, leaders, drops and invalidations, and
\* for any number of them, a parked waiter of get_or_fetch is always owed an
\* answer by somebody who is able to send it.
THEOREM WaitersAreOwed == Spec => []WaiterIsOwed
<1>1. CacheInv => WaiterIsOwed
  BY DEF CacheInv
<1>2. QED
  BY <1>1, CacheInvInit, CacheInvStep, PTL DEF Spec

\* For any number of tasks and keys, take_in_flight and the per-key removals of
\* invalidate, clear and invalidate_matching never deregister the fetch of a
\* leader that is still fetching, except by invalidating its own key.
THEOREM SlotsAreLostToOwnKey == Spec => LosesSlotToOwnKey
<1> DEFINE Act == \A t \in Task, k \in Key :
       Leads(t, k) /\ task'[t].pc = "fetch" /\ ~Leads(t, k)' =>
         \E u \in Task : /\ task[u].pc \in {"cancel", "match_cancel"}
                         /\ k \in task[u].doomed
                         /\ task'[u].pc # task[u].pc
<1>1. CacheInv /\ [Next]_vars => [Act]_vars
  <2> SUFFICES ASSUME CacheInv, Next
               PROVE  Act
    OBVIOUS
  <2>1. TypeInv'
    BY TypeInvStep DEF CacheInv
  <2>2. LeadersKept => Act
    BY DEF LeadersKept
  <2>3. ASSUME NEW t \in Task, Cancel(t)
        PROVE  Act
    BY <2>1, <2>3, CancelStep DEF Cancel
  <2> HIDE DEF Act
  <2>4. QED
    BY <2>1, <2>2, <2>3, StepKinds, QuietStep, JoinStep, LeadStep, ClaimStep, NotifyStep
<1>2. QED
  BY <1>1, CacheInvInit, CacheInvStep, PTL DEF Spec, LosesSlotToOwnKey

\* For any number of tasks, keys and invalidations, a leader that goes on to
\* store its value was not cancelled by an invalidation younger than its fetch.
THEOREM ClaimsAreFresh == Spec => FreshClaim
<1> DEFINE Act == \A t \in Task : task[t].pc = "fetch" /\ task'[t].pc = "store" =>
                    task[t].seen >= cancelled[task[t].key]
<1>1. CacheInv /\ [Next]_vars => [Act]_vars
  <2> SUFFICES ASSUME CacheInv, Next,
                      NEW t \in Task, task[t].pc = "fetch", task'[t].pc = "store"
               PROVE  task[t].seen >= cancelled[task[t].key]
    OBVIOUS
  <2>t. task \in [Task -> Locals] /\ LocalOK(task[t])
    BY CacheTypes
  <2>1. PICK u \in Task : \/ Quiet(u) \/ Join(u) \/ Lead(u) \/ Claim(u) \/ Cancel(u)
                          \/ \E w \in Task : Notify(u, w)
    BY StepKinds
  <2>2. CASE Claim(u)
    <3>1. u = t /\ OwnsSlot(t)
      BY <2>2 DEF Claim
    <3>2. task[t].key \in Key /\ Leads(t, task[t].key)
      BY <3>1, <2>t DEF LocalOK, OwnsSlot, Leads
    <3>3. QED
      BY <3>2 DEF CacheInv, FreshInv
  <2>3. CASE Quiet(u)
    BY <2>3 DEF Quiet
  <2>4. CASE Join(u)
    <3>1. task'[t].pc \in {task[t].pc, "wait"}
      BY <2>4, <2>t DEF Join, Locals
    <3>2. QED
      BY <3>1
  <2>5. CASE Lead(u)
    <3>1. task'[t].pc \in {task[t].pc, "fetch"}
      BY <2>5, <2>t DEF Lead, Locals
    <3>2. QED
      BY <3>1
  <2>6. CASE Cancel(u)
    BY <2>6 DEF Cancel
  <2>7. CASE \E w \in Task : Notify(u, w)
    <3>1. task[t] \in Locals
      BY <2>t
    <3>2. PICK w \in Task : Notify(u, w)
      BY <2>7
    <3>3. \/ task'[t] = [task[t] EXCEPT !.held = @ \ {w}]
          \/ \E o : task'[t] = [task[t] EXCEPT !.outcome = o]
          \/ task'[t] = task[t]
      BY <3>2 DEF Notify
    <3>4. task'[t].pc = task[t].pc
      BY <3>1, <3>3 DEF Locals
    <3>5. QED
      BY <3>4
  <2>8. QED
    BY <2>1, <2>2, <2>3, <2>4, <2>5, <2>6, <2>7
<1>2. QED
  BY <1>1, CacheInvInit, CacheInvStep, PTL DEF Spec, FreshClaim

\* An insertion puts its own value under its own key, and no value elsewhere.
LEMMA InsertLockedPuts ==
  ASSUME TypeOK, NEW k \in Key, NEW v, InsertLocked(k, v), NEW j \in Key
  PROVE  entries'[j] \in {None, entries[j]} \/ (j = k /\ entries'[j] = v)
<1>1. entries \in [Key -> Value \cup {None}]
  BY DEF TypeOK
<1>2. CASE Cached(k)
  BY <1>1, <1>2 DEF InsertLocked
<1>3. CASE ~Cached(k)
  <2> DEFINE evicted == {Append(order, k)[i] : i \in 1..EvictionCount(k)}
  <2>1. entries' = [l \in Key |-> IF l \in evicted THEN None
                                  ELSE IF l = k THEN v ELSE entries[l]]
    BY <1>3 DEF InsertLocked
  <2> HIDE DEF evicted
  <2>2. QED
    BY <2>1
<1>4. QED
  BY <1>2, <1>3

\* For any number of tasks and keys, insert_if_current never brings a value
\* back across an invalidation of its key; only a leader that claimed its slot
\* before the invalidation can.
THEOREM OnlyClaimsComeBack == Spec => OnlyClaimedComesBack
<1> DEFINE Act == \A k \in Key :
       entries'[k] \notin {None, entries[k]} /\ entries'[k].born < cancelled[k]
         => \E t \in Task : /\ task[t].pc = "store" /\ task[t].key = k
                            /\ task'[t].pc = "reply"
<1>1. CacheInv /\ [Next]_vars => [Act]_vars
  <2> SUFFICES ASSUME CacheInv, Next, NEW k \in Key,
                      entries'[k] \notin {None, entries[k]},
                      entries'[k].born < cancelled[k]
               PROVE  \E t \in Task : /\ task[t].pc = "store" /\ task[t].key = k
                                      /\ task'[t].pc = "reply"
    OBVIOUS
  <2>t. /\ TypeOK /\ task \in [Task -> Locals] /\ \A t \in Task : LocalOK(task[t])
        /\ cancelled \in [Key -> Nat] /\ invalidation_generation \in Nat
    BY CacheTypes DEF CacheInv, TypeInv
  <2>1. PICK t \in Task : Call(t) \/ Drop(t) \/ Respawn(t) \/ Progress(t)
    BY DEF Next
  <2>2. CASE StoreFetched(t)
    <3>1. task[t].pc = "store" /\ task'[t].pc = "reply"
      BY <2>2, <2>t DEF StoreFetched, Locals
    <3>2. task[t].key \in Key
      BY <3>1, <2>t DEF LocalOK
    <3>3. InsertLocked(task[t].key, task[t].outcome)
      BY <2>2 DEF StoreFetched, store
    <3>4. task[t].key = k
      BY <3>2, <3>3, <2>t, InsertLockedPuts
    <3>5. QED
      BY <3>1, <3>4
  <2>3. CASE \E j \in Key, g \in Tag : InsertIfCurrent(t, j, g)
    <3>1. PICK j \in Key, g \in Tag : InsertIfCurrent(t, j, g)
      BY <2>3
    <3>2. /\ invalidation_generation = task[t].seen
          /\ InsertLocked(j, [tag |-> g, born |-> task[t].seen])
      BY <3>1 DEF InsertIfCurrent, store
    <3>3. j = k /\ entries'[k] = [tag |-> g, born |-> task[t].seen]
      BY <3>2, <2>t, InsertLockedPuts
    <3>4. entries'[k].born = invalidation_generation
      BY <3>2, <3>3
    <3>5. cancelled[k] <= invalidation_generation
      BY DEF CacheInv, FreshInv
    <3>6. QED
      BY <3>4, <3>5, <2>t
  <2>4. CASE DropEntries(t) \/ \E p \in Predicate : DropMatching(t, p)
    <3>1. \E S : RemoveEntries(S)
      BY <2>4 DEF DropEntries, DropMatching
    <3>2. entries'[k] \in {None, entries[k]}
      BY <3>1 DEF RemoveEntries
    <3>3. QED
      BY <3>2
  <2>5. CASE \/ Call(t) \/ Drop(t) \/ Respawn(t)
             \/ Recheck(t) \/ Join(t) \/ Lead(t)
             \/ \E r \in FetchResult(t) : FetchDone(t, r)
             \/ \E w \in Task : Notify(t, w)
             \/ Return(t) \/ CancelFetches(t)
             \/ \E p \in Predicate : NothingMatches(t, p)
             \/ CancelMatching(t)
    <3>1. entries' = entries
      <4>1. Call(t) => entries' = entries
        BY DEF Call, GetOrFetch, Invalidate, Clear, InvalidateMatching,
               BeginInvalidation, SampleGeneration
      <4>2. Drop(t) \/ Respawn(t) => entries' = entries
        BY DEF Drop, DropLeader, DropWaiter, AbandonInsert, Respawn
      <4>3. Recheck(t) \/ Join(t) \/ Lead(t) => entries' = entries
        BY DEF Recheck, Join, Lead
      <4>4. (\E r \in FetchResult(t) : FetchDone(t, r)) => entries' = entries
        BY DEF FetchDone
      <4>5. (\E w \in Task : Notify(t, w)) \/ Return(t) => entries' = entries
        BY DEF Notify, Return
      <4>6. CancelFetches(t) \/ CancelMatching(t) => entries' = entries
        BY DEF CancelFetches, CancelMatching
      <4>7. (\E p \in Predicate : NothingMatches(t, p)) => entries' = entries
        BY DEF NothingMatches
      <4>8. QED
        BY <2>5, <4>1, <4>2, <4>3, <4>4, <4>5, <4>6, <4>7
    <3>2. QED
      BY <3>1
  <2>6. QED
    BY <2>1, <2>2, <2>3, <2>4, <2>5 DEF Progress
<1>2. QED
  BY <1>1, CacheInvInit, CacheInvStep, PTL DEF Spec, OnlyClaimedComesBack

------------------------------------------------------------------------------
(***************************************************************************)
(* Every step of cache_inner.rs is a step of CacheSpec under the mapping   *)
(* of CacheRefinement, or stutters.  The inductive invariant: on top of    *)
(* CacheInv, what a call holds and where the one sender of each waiter is. *)
(***************************************************************************)
CallOK(l) ==
  /\ l.pc \in {"idle", "gone", "cancel", "drop", "match", "match_cancel", "sampled"}
       => l.key = None
  /\ l.pc = "slow" => l.outcome = None
  /\ l.pc = "reply" /\ l.key = None => l.outcome = Cancelled
  /\ l.pc \notin Sending => l.held = {}

CallInv == \A t \in Task : CallOK(task[t])

\* Waiter w is where its sender is: registered under its own key, or held by
\* one task, which leads a fetch of that key or invalidates.
Registered(w, k) ==
  /\ task[w].pc \in {"wait", "gone"}
  /\ task[w].pc = "wait" => /\ task[w].key = k /\ task[w].outcome = None
                            /\ \A t \in Task : w \notin task[t].held
HeldBy(w, t) ==
  /\ task[w].pc \in {"wait", "gone"}
  /\ task[w].pc = "wait" => /\ task[w].outcome = None
                            /\ task[t].key \in {None, task[w].key}
                            /\ \A u \in Task : w \in task[u].held => u = t

SenderInv ==
  \A w \in Task :
    /\ \A k \in Key : w \in in_flight[k].waiters => Registered(w, k)
    /\ \A t \in Task : w \in task[t].held => HeldBy(w, t)

RefInv == CacheInv /\ StoreConsistent /\ CallInv /\ SenderInv

------------------------------------------------------------------------------
(***************************************************************************)
(* The mapping, as a function of the tasks' locals.                        *)
(***************************************************************************)
HeardOf(T, w) ==
  IF T[w].outcome # None THEN T[w].outcome
  ELSE IF \E t \in {u \in Task : w \in T[u].held} : T[t].pc = "drop" THEN Cancelled
  ELSE IF \E t \in {u \in Task : w \in T[u].held} : T[t].pc = "reply"
  THEN T[CHOOSE t \in {u \in Task : w \in T[u].held} : T[t].pc = "reply"].outcome
  ELSE None

CallOf(T, t) ==
  [key |-> T[t].key,
   answer |-> IF T[t].key = None THEN None
              ELSE CASE T[t].pc = "reply" -> T[t].outcome
                     [] T[t].pc = "wait" -> HeardOf(T, t)
                     [] OTHER -> None]

Ask(k, a) == [key |-> k, answer |-> a]

LEMMA CallsAre ==
  /\ Calls = [t \in Task |-> CallOf(task, t)]
  /\ Calls' = [t \in Task |-> CallOf(task', t)]
  BY DEF Calls, CallOf, Settled, Heard, Holders, HeardOf

\* What the holder of a sender is about to say.
Says(l) == IF l.pc = "drop" THEN Cancelled ELSE IF l.pc = "reply" THEN l.outcome ELSE None

LEMMA HeardFromNobody ==
  ASSUME NEW T, NEW w \in Task, T[w].outcome = None,
         \A u \in Task : w \notin T[u].held
  PROVE  HeardOf(T, w) = None
  BY DEF HeardOf

LEMMA HeardFromHolder ==
  ASSUME NEW T, NEW w \in Task, T[w].outcome = None,
         NEW t \in Task, w \in T[t].held, \A u \in Task : w \in T[u].held => u = t
  PROVE  HeardOf(T, w) = Says(T[t])
<1> DEFINE H == {u \in Task : w \in T[u].held}
<1>1. H = {t}
  OBVIOUS
<1>2. HeardOf(T, w) =
        IF \E u \in H : T[u].pc = "drop" THEN Cancelled
        ELSE IF \E u \in H : T[u].pc = "reply"
        THEN T[CHOOSE u \in H : T[u].pc = "reply"].outcome
        ELSE None
  BY DEF HeardOf
<1> HIDE DEF H
<1>3. CASE T[t].pc = "reply"
  <2>1. (CHOOSE u \in H : T[u].pc = "reply") = t
    BY <1>1, <1>3
  <2>2. T[t].pc # "drop"
    BY <1>3
  <2>3. QED
    BY <1>1, <1>2, <1>3, <2>1, <2>2 DEF Says
<1>4. CASE T[t].pc # "reply"
  BY <1>1, <1>2, <1>4 DEF Says
<1>5. QED
  BY <1>3, <1>4

LEMMA CallIs ==
  ASSUME NEW T, NEW t
  PROVE  /\ T[t].key = None => CallOf(T, t) = Ask(None, None)
         /\ T[t].key # None /\ T[t].pc = "reply" => CallOf(T, t) = Ask(T[t].key, T[t].outcome)
         /\ T[t].key # None /\ T[t].pc = "wait" => CallOf(T, t) = Ask(T[t].key, HeardOf(T, t))
         /\ T[t].pc \notin {"reply", "wait"} => CallOf(T, t) = Ask(T[t].key, None)
<1>1. T[t].pc = "wait" => T[t].pc # "reply"
  OBVIOUS
<1>2. QED
  BY <1>1 DEF CallOf, Ask

\* Who is neither t nor held by t has nothing to do with a step of t.
LEMMA Bystander ==
  ASSUME SenderInv, SenderInv', NEW t \in Task,
         \A u \in Task \ {t} : task'[u] = task[u],
         NEW w \in Task \ {t}, w \notin task[t].held, w \notin task'[t].held
  PROVE  CallOf(task', w) = CallOf(task, w)
<1>0. task'[w] = task[w]
  OBVIOUS
<1>1. CASE task[w].pc # "wait"
  BY <1>0, <1>1 DEF CallOf
<1>2. CASE task[w].pc = "wait" /\ task[w].outcome # None
  BY <1>0, <1>2 DEF CallOf, HeardOf
<1>3. CASE task[w].pc = "wait" /\ task[w].outcome = None
  <2>1. HeardOf(task', w) = HeardOf(task, w)
    <3>1. CASE \A u \in Task : w \notin task[u].held
      <4>1. \A u \in Task : w \notin task'[u].held
        BY <3>1
      <4>2. QED
        BY <3>1, <4>1, <1>0, <1>3, HeardFromNobody
    <3>2. ASSUME NEW u \in Task, w \in task[u].held
          PROVE  HeardOf(task', w) = HeardOf(task, w)
      <4>1. u # t /\ task'[u] = task[u]
        BY <3>2
      <4>2. \A v \in Task : w \in task[v].held => v = u
        BY <3>2, <1>3 DEF SenderInv, HeldBy
      <4>3. \A v \in Task : w \in task'[v].held => v = u
        BY <4>1, <4>2
      <4>4. HeardOf(task, w) = Says(task[u])
        BY <3>2, <4>2, <1>3, HeardFromHolder
      <4>5. HeardOf(task', w) = Says(task'[u])
        BY <3>2, <4>1, <4>3, <1>0, <1>3, HeardFromHolder
      <4>6. QED
        BY <4>1, <4>4, <4>5
    <3>3. QED
      BY <3>1, <3>2
  <2>2. QED
    BY <2>1, <1>0, <1>3, CallIs DEF CallOf
<1>4. QED
  BY <1>1, <1>2, <1>3

\* A waiter is answered by what its holder says, in this state ...
LEMMA HeldCall ==
  ASSUME RefInv, NEW t \in Task, NEW w \in Task, w \in task[t].held,
         task[w].pc = "wait"
  PROVE  CallOf(task, w) = Ask(task[w].key, Says(task[t]))
<1>1. task[w].key \in Key /\ task[w].key # None
  BY CacheTypes, SetAssumption DEF RefInv, LocalOK
<1>2. HeardOf(task, w) = Says(task[t])
  BY HeardFromHolder DEF RefInv, SenderInv, HeldBy
<1>3. QED
  BY <1>1, <1>2, CallIs

\* ... and in the next.
LEMMA HeldCallNext ==
  ASSUME SenderInv', NEW t \in Task, NEW w \in Task, w \in task'[t].held,
         task'[w].pc = "wait", task'[w].key \in Key
  PROVE  CallOf(task', w) = Ask(task'[w].key, Says(task'[t]))
<1>1. task'[w].key # None
  BY SetAssumption
<1>2. /\ task'[w].outcome = None
      /\ \A u \in Task : w \in task'[u].held => u = t
  BY DEF SenderInv, HeldBy
<1>3. HeardOf(task', w) = Says(task'[t])
  BY <1>2, HeardFromHolder
<1>4. QED
  BY <1>1, <1>3, CallIs

\* A registered waiter has heard nothing.
LEMMA RegisteredCall ==
  ASSUME RefInv, NEW k \in Key, NEW w \in Task, w \in in_flight[k].waiters,
         task[w].pc = "wait"
  PROVE  CallOf(task, w) = Ask(k, None)
<1>1. /\ task[w].key = k /\ k # None /\ task[w].outcome = None
      /\ \A t \in Task : w \notin task[t].held
  BY SetAssumption DEF RefInv, SenderInv, Registered
<1>2. HeardOf(task, w) = None
  BY <1>1, HeardFromNobody
<1>3. QED
  BY <1>1, <1>2, CallIs

------------------------------------------------------------------------------
(***************************************************************************)
(* Where senders go.                                                       *)
(***************************************************************************)
\* Nobody has a sender of t.
Unsent(t) ==
  /\ \A k \in Key : t \notin in_flight[k].waiters
  /\ \A u \in Task : t \notin task[u].held

LEMMA Outside ==
  ASSUME SenderInv, NEW t \in Task,
         task[t].pc \notin {"wait", "gone"} \/ (task[t].pc = "wait" /\ task[t].outcome # None)
  PROVE  Unsent(t)
  BY DEF SenderInv, Registered, HeldBy, Unsent

\* A step that moves no sender: t keeps the ones it holds.
LEMMA SendersStay ==
  ASSUME SenderInv, NEW t \in Task,
         \A u \in Task \ {t} : task'[u] = task[u],
         \A k \in Key : in_flight'[k].waiters = in_flight[k].waiters,
         task'[t].held = task[t].held,
         task[t].held # {} => task'[t].key = task[t].key,
         Unsent(t) \/ task'[t].pc = "gone"
  PROVE  SenderInv'
<1>1. \A u \in Task : task'[u].held = task[u].held
  OBVIOUS
<1>2. ASSUME NEW w \in Task, NEW k \in Key, w \in in_flight'[k].waiters
      PROVE  Registered(w, k)'
  <2>1. Registered(w, k)
    BY <1>2 DEF SenderInv
  <2>2. w # t \/ task'[w].pc = "gone"
    BY <1>2 DEF Unsent
  <2>3. QED
    BY <1>1, <2>1, <2>2 DEF Registered
<1>3. ASSUME NEW w \in Task, NEW u \in Task, w \in task'[u].held
      PROVE  HeldBy(w, u)'
  <2>1. HeldBy(w, u)
    BY <1>1, <1>3 DEF SenderInv
  <2>2. w # t \/ task'[w].pc = "gone"
    BY <1>1, <1>3 DEF Unsent
  <2>3. task'[u].key = task[u].key
    BY <1>1, <1>3
  <2>4. QED
    BY <1>1, <2>1, <2>2, <2>3 DEF HeldBy
<1>4. QED
  BY <1>2, <1>3 DEF SenderInv

\* A step in which t takes the senders out of the slots of the keys D.
Takes(t, D) ==
  /\ \A u \in Task \ {t} : task'[u] = task[u]
  /\ \A k \in Key : in_flight'[k].waiters = IF k \in D THEN {} ELSE in_flight[k].waiters
  /\ \A w : w \in task'[t].held <=> \E k \in D : w \in in_flight[k].waiters
  /\ task'[t].key = None \/ D \subseteq {task'[t].key}

LEMMA SendersTaken ==
  ASSUME RefInv, NEW t \in Task, NEW D \in SUBSET Key, Takes(t, D),
         task[t].held = {}, Unsent(t)
  PROVE  SenderInv'
<1>0. SenderInv
  BY DEF RefInv
<1>1. ASSUME NEW w \in Task, NEW k \in Key, w \in in_flight'[k].waiters
      PROVE  Registered(w, k)'
  <2>1. k \notin D /\ w \in in_flight[k].waiters /\ Registered(w, k)
    BY <1>0, <1>1 DEF SenderInv, Takes
  <2>2. w # t /\ task'[w] = task[w]
    BY <2>1 DEF Unsent, Takes
  <2>3. ASSUME task[w].pc = "wait" PROVE w \notin task'[t].held
    <3> SUFFICES ASSUME NEW j \in D, w \in in_flight[j].waiters PROVE FALSE
      BY DEF Takes
    <3>1. Registered(w, j)
      BY <1>0 DEF SenderInv
    <3>2. QED
      BY <2>1, <2>3, <3>1 DEF Registered
  <2>4. QED
    BY <2>1, <2>2, <2>3 DEF Registered, Takes
<1>2. ASSUME NEW w \in Task, NEW u \in Task, w \in task'[u].held
      PROVE  HeldBy(w, u)'
  <2>1. CASE u = t
    <3>1. PICK k \in D : w \in in_flight[k].waiters
      BY <1>2, <2>1 DEF Takes
    <3>2. Registered(w, k) /\ w # t /\ task'[w] = task[w]
      BY <1>0, <3>1 DEF SenderInv, Unsent, Takes
    <3>3. QED
      BY <2>1, <3>1, <3>2 DEF Registered, HeldBy, Takes
  <2>2. CASE u # t
    <3>1. task'[u] = task[u] /\ HeldBy(w, u)
      BY <1>0, <1>2, <2>2 DEF SenderInv, Takes
    <3>2. w # t /\ task'[w] = task[w]
      BY <1>2, <3>1 DEF Unsent, Takes
    <3>3. ASSUME task[w].pc = "wait" PROVE w \notin task'[t].held
      <4> SUFFICES ASSUME NEW j \in D, w \in in_flight[j].waiters PROVE FALSE
        BY DEF Takes
      <4>1. Registered(w, j)
        BY <1>0 DEF SenderInv
      <4>2. QED
        BY <1>2, <3>1, <3>3, <4>1 DEF Registered
    <3>4. QED
      BY <3>1, <3>2, <3>3 DEF HeldBy, Takes
  <2>3. QED
    BY <2>1, <2>2
<1>3. QED
  BY <1>1, <1>2 DEF SenderInv

------------------------------------------------------------------------------
(***************************************************************************)
(* Each step is a step of the specification, or changes nothing in it.     *)
(***************************************************************************)
RefStep == \/ Promise!Step \/ Promise!CancelCalls
           \/ UNCHANGED entries /\ Calls' = Calls
Kept == CallInv' /\ SenderInv' /\ RefStep

LEMMA RefTypes ==
  ASSUME RefInv
  PROVE  /\ task \in [Task -> Locals] /\ in_flight \in [Key -> InFlight]
         /\ entries \in [Key -> Value \cup {None}] /\ StoreType
         /\ \A t \in Task : task[t] \in Locals /\ LocalOK(task[t]) /\ CallOK(task[t])
         /\ SenderInv
  BY CacheTypes DEF RefInv, CallInv, CacheInv, TypeInv, TypeOK, StoreType

LEMMA CallInvOne ==
  ASSUME RefInv, NEW t \in Task, \A u \in Task \ {t} : task'[u] = task[u],
         CallOK(task'[t])
  PROVE  CallInv'
<1>1. \A u \in Task : CallOK(task'[u])
  BY RefTypes
<1>2. QED
  BY <1>1 DEF CallInv, CallOK

\* A step of a task that holds no sender changes no call but its own.
LEMMA Alone ==
  ASSUME RefInv, SenderInv', NEW t \in Task, \A u \in Task \ {t} : task'[u] = task[u],
         task[t].held = {}, task'[t].held = {}
  PROVE  /\ Calls[t] = CallOf(task, t)
         /\ Calls' = [Calls EXCEPT ![t] = CallOf(task', t)]
<1>1. \A w \in Task \ {t} : CallOf(task', w) = CallOf(task, w)
  BY Bystander DEF RefInv
<1>2. QED
  BY <1>1, CallsAre

\* The same, where its own call stays as it is.
LEMMA AloneStutters ==
  ASSUME RefInv, SenderInv', NEW t \in Task, \A u \in Task \ {t} : task'[u] = task[u],
         task[t].held = {}, task'[t].held = {}, CallOf(task', t) = CallOf(task, t)
  PROVE  Calls' = Calls
<1>1. Calls' = [Calls EXCEPT ![t] = Calls[t]]
  BY Alone
<1>2. QED
  BY <1>1, CallsAre

\* A step that answers calls for k with a.
LEMMA AnsweredBy ==
  ASSUME NEW k \in Key, NEW a,
         \A w \in Task : \/ CallOf(task', w) = CallOf(task, w)
                         \/ CallOf(task, w) = Ask(k, None) /\ CallOf(task', w) = Ask(k, a)
  PROVE  Promise!Answered(k, a)
<1>1. /\ DOMAIN Calls' = Task
      /\ \A w \in Task : Calls[w] = CallOf(task, w) /\ Calls'[w] = CallOf(task', w)
  BY CallsAre
<1>2. \A w \in Task : \/ Calls'[w] = Calls[w]
                      \/ /\ Calls[w] = [key |-> k, answer |-> None]
                         /\ Calls'[w].answer = a /\ Calls'[w].key = k
  BY <1>1 DEF Ask
<1>3. QED
  BY <1>1, <1>2 DEF Promise!Answered, Promise!Pending

\* A step that cancels calls.
LEMMA CancelledBy ==
  ASSUME UNCHANGED entries,
         \A w \in Task : \/ CallOf(task', w) = CallOf(task, w)
                         \/ \E k \in Key : /\ CallOf(task, w) = Ask(k, None)
                                           /\ CallOf(task', w) = Ask(k, Cancelled)
  PROVE  Promise!CancelCalls
<1>1. /\ DOMAIN Calls' = Task
      /\ \A w \in Task : Calls[w] = CallOf(task, w) /\ Calls'[w] = CallOf(task', w)
  BY CallsAre
<1>2. QED
  BY <1>1 DEF Promise!CancelCalls, Promise!Pending, Ask

LEMMA StoreBound ==
  StoreType /\ StoreConsistent => Cardinality({j \in Key : entries[j] # None}) <= MaxEntries
<1> SUFFICES ASSUME StoreType, StoreConsistent
             PROVE  Cardinality({j \in Key : entries[j] # None}) <= MaxEntries
  OBVIOUS
<1>1. CachedKeys = {j \in Key : entries[j] # None}
  BY DEF CachedKeys, Cached
<1>2. QED
  BY <1>1, CachedCount DEF StoreConsistent

LEMMA StoreBoundNext ==
  (StoreType /\ StoreConsistent)'
    => (Cardinality({j \in Key : entries[j] # None}) <= MaxEntries)'
  BY StoreBound, PTL

\* The specification counts as the implementation does.
LEMMA SameSize == \A S : Promise!Cardinality(S) = Cardinality(S)
  BY DEF Promise!Cardinality, Cardinality

\* insert_locked puts the value into the cache: the key just queued is not
\* the one that is evicted.
LEMMA InsertIsPut ==
  ASSUME RefInv, NEW k \in Key, NEW v \in Value, InsertLocked(k, v)
  PROVE  Promise!Put(k) /\ entries'[k] = v
<1>0. /\ StoreType /\ StoreConsistent /\ v # None
      /\ entries \in [Key -> Value \cup {None}]
      /\ order \in Seq(Key) /\ Len(order) \in Nat /\ DOMAIN order = 1..Len(order)
      /\ MaxEntries \in Nat \ {0}
  BY RefTypes, OutcomeAssumption, BoundAssumption DEF RefInv, StoreType
<1>1. StoreType'
  BY <1>0, InsertLockedType
<1>2. StoreConsistent'
  BY <1>0, InsertLockedConsistent
<1>3. Cardinality({j \in Key : entries'[j] # None}) <= MaxEntries
  BY <1>1, <1>2, StoreBoundNext
<1>4. \A j \in Key : entries'[j] \in {None, entries[j]} \/ (j = k /\ entries'[j] = v)
  BY InsertLockedPuts DEF RefInv, CacheInv, TypeInv
<1>5. entries'[k] = v
  <2>1. CASE Cached(k)
    BY <2>1, <1>0 DEF InsertLocked
  <2>2. CASE ~Cached(k)
    <3> DEFINE queue == Append(order, k)
               n == EvictionCount(k)
               evicted == {queue[i] : i \in 1..n}
    <3>1. entries' = [j \in Key |-> IF j \in evicted THEN None
                                    ELSE IF j = k THEN v ELSE entries[j]]
      BY <2>2 DEF InsertLocked
    <3>2. n \in Nat /\ n <= Len(order)
      <4>1. k \notin CachedKeys
        BY <2>2 DEF CachedKeys
      <4>2. Cardinality(CachedKeys \cup {k}) = Len(order) + 1
        BY <4>1, <1>0, CachedCount, FS_AddElement
      <4>3. Len(order) <= MaxEntries
        BY <1>0 DEF StoreConsistent
      <4>4. QED
        BY <4>2, <4>3, <1>0 DEF EvictionCount
    <3>3. \A i \in 1..n : queue[i] = order[i] /\ i \in DOMAIN order
      BY <3>2, <1>0
    <3>4. \A i \in DOMAIN order : order[i] # k
      BY <2>2, <1>0 DEF StoreConsistent
    <3>5. k \notin evicted
      <4> HIDE DEF queue, n
      <4>1. QED
        BY <3>3, <3>4
    <3> HIDE DEF evicted
    <3>6. QED
      BY <3>1, <3>5
  <2>3. QED
    BY <2>1, <2>2
<1>6. Promise!Cardinality({j \in Key : entries'[j] # None}) <= MaxEntries
  BY <1>3, SameSize
<1>7. QED
  BY <1>0, <1>1, <1>4, <1>5, <1>6 DEF Promise!Put, StoreType

------------------------------------------------------------------------------
(***************************************************************************)
(* Steps of a task that holds no sender.                                   *)
(***************************************************************************)
LEMMA BeginsKept ==
  ASSUME RefInv, NEW t \in Task,
         \/ \E k \in Key : GetOrFetch(t, k)
         \/ \E S \in SUBSET Key, step \in {"cancel", "match"} : BeginInvalidation(t, step, S)
         \/ SampleGeneration(t) \/ AbandonInsert(t) \/ Respawn(t)
  PROVE  Kept
<1>t. /\ task \in [Task -> Locals] /\ SenderInv
      /\ task[t] \in Locals /\ CallOK(task[t])
  BY RefTypes
<1>i. /\ Idle.pc = "idle" /\ Idle.key = None /\ Idle.held = {} /\ Idle.outcome = None
      /\ task[t].pc \in {"idle", "sampled", "gone"}
      /\ UNCHANGED <<entries, in_flight>> /\ \A u \in Task \ {t} : task'[u] = task[u]
  BY <1>t DEF Idle, GetOrFetch, BeginInvalidation, SampleGeneration, AbandonInsert, Respawn
<1>1. Unsent(t) /\ task[t].held = {} /\ task[t].key = None
  <2>1. task[t].held = {} /\ task[t].key = None
    BY <1>t, <1>i DEF CallOK, Sending
  <2>2. CASE task[t].pc # "gone"
    BY <2>1, <2>2, <1>t, <1>i, Outside
  <2>3. CASE task[t].pc = "gone"
    <3>1. Respawn(t)
      BY <2>3 DEF GetOrFetch, BeginInvalidation, SampleGeneration, AbandonInsert
    <3>2. QED
      BY <2>1, <3>1 DEF Respawn, Unsent
  <2>4. QED
    BY <2>2, <2>3
<1>2. task'[t].held = {} => SenderInv'
  BY <1>t, <1>i, <1>1, SendersStay
<1>3. CASE \E k \in Key : GetOrFetch(t, k)
  <2>1. PICK k \in Key : GetOrFetch(t, k)
    BY <1>3
  <2>2. /\ task'[t].key = k /\ task'[t].held = {} /\ k # None
        /\ \/ task'[t].pc = "reply" /\ entries[k] # None /\ task'[t].outcome = entries[k]
           \/ task'[t].pc = "slow" /\ entries[k] = None /\ task'[t].outcome = None
    BY <2>1, <1>t, SetAssumption DEF GetOrFetch, Idle, Cached
  <2>3. CallOK(task'[t])
    BY <2>2 DEF CallOK, Sending
  <2>4. CallOf(task, t) = Ask(None, None) /\ CallOf(task', t) = Ask(k, entries[k])
    BY <2>2, <1>1, CallIs
  <2>5. SenderInv'
    BY <1>2, <2>2
  <2>6. Calls[t] = Ask(None, None) /\ Calls' = [Calls EXCEPT ![t] = Ask(k, entries[k])]
    BY <2>2, <2>4, <2>5, <1>1, <1>i, Alone
  <2>7. Promise!Ask(t, k)
    BY <2>6, <1>i DEF Promise!Ask, Promise!Out, Ask
  <2>8. QED
    BY <2>3, <2>5, <2>7, <1>i, CallInvOne DEF Kept, RefStep, Promise!Step
<1>4. CASE ~\E k \in Key : GetOrFetch(t, k)
  <2>1. /\ task'[t].key = None /\ task'[t].held = {}
        /\ task'[t].pc \in {"cancel", "match", "sampled", "idle"}
    <3>1. ASSUME NEW S \in SUBSET Key, NEW step \in {"cancel", "match"},
                 BeginInvalidation(t, step, S)
          PROVE  task'[t].key = None /\ task'[t].held = {} /\ task'[t].pc = step
      BY <3>1, <1>t DEF BeginInvalidation, Idle
    <3>2. ASSUME SampleGeneration(t)
          PROVE  task'[t].key = None /\ task'[t].held = {} /\ task'[t].pc = "sampled"
      BY <3>2, <1>t DEF SampleGeneration, Idle
    <3>3. ASSUME AbandonInsert(t) \/ Respawn(t)
          PROVE  task'[t] = Idle
      BY <3>3, <1>t DEF AbandonInsert, Respawn
    <3>4. QED
      BY <1>4, <1>i, <3>1, <3>2, <3>3
  <2>2. CallOK(task'[t])
    BY <2>1 DEF CallOK
  <2>3. CallOf(task, t) = Ask(None, None) /\ CallOf(task', t) = Ask(None, None)
    BY <2>1, <1>1, CallIs
  <2>4. SenderInv'
    BY <1>2, <2>1
  <2>5. Calls' = Calls
    BY <2>1, <2>3, <2>4, <1>1, <1>i, AloneStutters
  <2>6. QED
    BY <2>2, <2>4, <2>5, <1>i, CallInvOne DEF Kept, RefStep
<1>5. QED
  BY <1>3, <1>4

\* What such a step leaves to show: its own locals, and its own call.
LEMMA Solo ==
  ASSUME RefInv, NEW t \in Task, \A u \in Task \ {t} : task'[u] = task[u],
         \A k \in Key : in_flight'[k].waiters = in_flight[k].waiters,
         task[t].held = {}, task'[t].held = {},
         Unsent(t) \/ task'[t].pc = "gone", CallOK(task'[t])
  PROVE  /\ CallInv' /\ SenderInv'
         /\ \A w \in Task \ {t} : CallOf(task', w) = CallOf(task, w)
         /\ Calls[t] = CallOf(task, t)
         /\ Calls' = [Calls EXCEPT ![t] = CallOf(task', t)]
         /\ CallOf(task', t) = CallOf(task, t) => Calls' = Calls
<1>1. SenderInv'
  BY SendersStay DEF RefInv
<1>2. \A w \in Task \ {t} : CallOf(task', w) = CallOf(task, w)
  BY <1>1, Bystander DEF RefInv
<1>3. QED
  BY <1>1, <1>2, CallInvOne, Alone, AloneStutters

LEMMA DropWaiterKept ==
  ASSUME RefInv, NEW t \in Task, DropWaiter(t)
  PROVE  Kept
<1>t. /\ task \in [Task -> Locals] /\ task[t] \in Locals /\ LocalOK(task[t]) /\ CallOK(task[t])
      /\ task[t].pc = "wait" /\ UNCHANGED <<entries, in_flight>>
  BY RefTypes DEF DropWaiter
<1>1. /\ \A u \in Task \ {t} : task'[u] = task[u]
      /\ task'[t].pc = "gone" /\ task'[t].key = None /\ task'[t].held = {}
  BY <1>t DEF DropWaiter, Idle
<1>2. task[t].held = {} /\ task[t].key # None /\ CallOK(task'[t])
  BY <1>t, <1>1, SetAssumption DEF CallOK, LocalOK, Sending
<1>3. /\ CallInv' /\ SenderInv' /\ Calls[t] = CallOf(task, t)
      /\ Calls' = [Calls EXCEPT ![t] = CallOf(task', t)]
  BY <1>t, <1>1, <1>2, Solo
<1>4. CallOf(task', t) = Ask(None, None) /\ CallOf(task, t).key # None
  BY <1>1, <1>2, CallIs DEF CallOf
<1>5. Promise!Leave(t)
  BY <1>t, <1>3, <1>4 DEF Promise!Leave, Promise!Out, Ask
<1>6. QED
  BY <1>3, <1>5 DEF Kept, RefStep, Promise!Step

LEMMA ReturnKept ==
  ASSUME RefInv, NEW t \in Task, Return(t)
  PROVE  Kept
<1>t. /\ task \in [Task -> Locals] /\ task[t] \in Locals /\ LocalOK(task[t]) /\ CallOK(task[t])
      /\ SenderInv /\ UNCHANGED <<entries, in_flight>>
      /\ \/ task[t].pc = "reply" /\ task[t].held = {}
         \/ task[t].pc = "wait" /\ task[t].outcome # None
  BY RefTypes DEF Return
<1>1. /\ \A u \in Task \ {t} : task'[u] = task[u]
      /\ task'[t].pc = "idle" /\ task'[t].key = None /\ task'[t].held = {}
  BY <1>t DEF Return, Idle
<1>2. task[t].held = {} /\ Unsent(t) /\ CallOK(task'[t])
  BY <1>t, <1>1, Outside DEF CallOK, Sending
<1>3. /\ CallInv' /\ SenderInv' /\ Calls[t] = CallOf(task, t)
      /\ Calls' = [Calls EXCEPT ![t] = CallOf(task', t)]
      /\ CallOf(task', t) = CallOf(task, t) => Calls' = Calls
  BY <1>t, <1>1, <1>2, Solo
<1>4. CallOf(task', t) = Ask(None, None)
  BY <1>1, CallIs
<1>5. CASE task[t].key = None
  <2>1. Calls' = Calls
    BY <1>3, <1>4, <1>5, CallIs
  <2>2. QED
    BY <1>t, <1>3, <2>1 DEF Kept, RefStep
<1>6. CASE task[t].key # None
  <2>1. CallOf(task, t).key # None
    BY <1>6 DEF CallOf
  <2>2. Promise!Leave(t)
    BY <1>t, <1>3, <1>4, <2>1 DEF Promise!Leave, Promise!Out, Ask
  <2>3. QED
    BY <1>3, <2>2 DEF Kept, RefStep, Promise!Step
<1>7. QED
  BY <1>5, <1>6

LEMMA RecheckKept ==
  ASSUME RefInv, NEW t \in Task, Recheck(t)
  PROVE  Kept
<1>t. /\ task \in [Task -> Locals] /\ task[t] \in Locals /\ LocalOK(task[t]) /\ CallOK(task[t])
      /\ SenderInv /\ task[t].pc = "slow" /\ UNCHANGED <<entries, in_flight>>
  BY RefTypes DEF Recheck
<1> DEFINE k == task[t].key
<1>0. k \in Key /\ k # None /\ entries[k] # None
  BY <1>t, SetAssumption DEF LocalOK, Recheck, Cached
<1>1. /\ \A u \in Task \ {t} : task'[u] = task[u]
      /\ task'[t].pc = "reply" /\ task'[t].key = k /\ task'[t].held = task[t].held
      /\ task'[t].outcome = entries[k]
  BY <1>t DEF Recheck, Locals
<1> HIDE DEF k
<1>2. task[t].held = {} /\ Unsent(t) /\ CallOK(task'[t])
  BY <1>t, <1>0, <1>1, Outside DEF CallOK, Sending
<1>3. /\ CallInv' /\ SenderInv'
      /\ \A w \in Task \ {t} : CallOf(task', w) = CallOf(task, w)
  BY <1>t, <1>1, <1>2, Solo
<1>4. CallOf(task, t) = Ask(k, None) /\ CallOf(task', t) = Ask(k, entries[k])
  BY <1>t, <1>0, <1>1, CallIs DEF k
<1>5. Promise!Answered(k, entries[k])
  BY <1>0, <1>3, <1>4, AnsweredBy
<1>6. Promise!Land(k)
  BY <1>t, <1>0, <1>5 DEF Promise!Land
<1>7. QED
  BY <1>0, <1>3, <1>6 DEF Kept, RefStep, Promise!Step

LEMMA LeadKept ==
  ASSUME RefInv, NEW t \in Task, Lead(t)
  PROVE  Kept
<1>t. /\ task \in [Task -> Locals] /\ task[t] \in Locals /\ LocalOK(task[t]) /\ CallOK(task[t])
      /\ in_flight \in [Key -> InFlight]
      /\ SenderInv /\ task[t].pc = "slow" /\ UNCHANGED entries
  BY RefTypes DEF Lead
<1>1. /\ \A u \in Task \ {t} : task'[u] = task[u]
      /\ task'[t].pc = "fetch" /\ task'[t].key = task[t].key /\ task'[t].held = task[t].held
  BY <1>t DEF Lead, Locals
<1>2. \A k \in Key : in_flight'[k].waiters = in_flight[k].waiters
  <2>1. /\ in_flight[task[t].key].waiters = {}
        /\ in_flight' = [in_flight EXCEPT ![task[t].key] = [token |-> next_token',
                                                            waiters |-> {}]]
    BY Constants DEF Lead
  <2>2. QED
    BY <1>t, <2>1
<1>3. task[t].held = {} /\ Unsent(t) /\ CallOK(task'[t])
  BY <1>t, <1>1, Outside DEF CallOK, Sending
<1>4. CallOf(task', t) = CallOf(task, t)
  BY <1>t, <1>1, CallIs
<1>5. CallInv' /\ SenderInv' /\ Calls' = Calls
  BY <1>t, <1>1, <1>2, <1>3, <1>4, Solo
<1>6. QED
  BY <1>t, <1>5 DEF Kept, RefStep

\* Insertion, and the first half of invalidate_matching.
LEMMA KeylessKept ==
  ASSUME RefInv, NEW t \in Task,
         \/ \E p \in Predicate : NothingMatches(t, p) \/ DropMatching(t, p)
         \/ \E k \in Key, g \in Tag : InsertIfCurrent(t, k, g)
  PROVE  Kept
<1>t. /\ task \in [Task -> Locals] /\ task[t] \in Locals /\ CallOK(task[t])
      /\ entries \in [Key -> Value \cup {None}]
      /\ SenderInv /\ task[t].pc \in {"match", "sampled"} /\ UNCHANGED in_flight
  BY RefTypes DEF NothingMatches, DropMatching, InsertIfCurrent
<1>0. task[t].held = {} /\ task[t].key = None /\ Unsent(t)
  BY <1>t, Outside DEF CallOK, Sending
<1>1. /\ \A u \in Task \ {t} : task'[u] = task[u]
      /\ task'[t].key = None /\ task'[t].held = {}
      /\ CallOK(task'[t])
  <2>1. ASSUME NEW p \in Predicate, NothingMatches(t, p)
        PROVE  /\ \A u \in Task \ {t} : task'[u] = task[u]
               /\ task'[t].key = task[t].key /\ task'[t].held = task[t].held
               /\ task'[t].pc = "reply" /\ task'[t].outcome = Cancelled
    BY <2>1, <1>t DEF NothingMatches, Locals
  <2>2. ASSUME NEW p \in Predicate, DropMatching(t, p)
        PROVE  /\ \A u \in Task \ {t} : task'[u] = task[u]
               /\ task'[t].key = task[t].key /\ task'[t].held = task[t].held
               /\ task'[t].pc = "match_cancel"
    BY <2>2, <1>t DEF DropMatching, Locals
  <2>3. ASSUME NEW k \in Key, NEW g \in Tag, InsertIfCurrent(t, k, g)
        PROVE  /\ \A u \in Task \ {t} : task'[u] = task[u]
               /\ task'[t].key = None /\ task'[t].held = {} /\ task'[t].pc = "idle"
    BY <2>3, <1>t DEF InsertIfCurrent, Idle
  <2>4. QED
    BY <1>0, <2>1, <2>2, <2>3 DEF CallOK
<1>2. CallOf(task', t) = CallOf(task, t)
  BY <1>0, <1>1, CallIs
<1>3. CallInv' /\ SenderInv' /\ Calls' = Calls
  BY <1>t, <1>0, <1>1, <1>2, Solo
<1>4. RefStep
  <2>1. ASSUME NEW p \in Predicate, NothingMatches(t, p)
        PROVE  RefStep
    BY <2>1, <1>3 DEF NothingMatches, RefStep
  <2>2. ASSUME NEW p \in Predicate, DropMatching(t, p)
        PROVE  RefStep
    <3>1. PICK S \in SUBSET Key : entries' = [k \in Key |-> IF k \in S THEN None ELSE entries[k]]
      BY <2>2 DEF DropMatching, RemoveEntries, CachedKeys
    <3>2. Promise!Forget(S)
      BY <1>3, <3>1 DEF Promise!Forget
    <3>3. QED
      BY <3>2 DEF RefStep, Promise!Step
  <2>3. ASSUME NEW k \in Key, NEW g \in Tag, InsertIfCurrent(t, k, g)
        PROVE  RefStep
    <3>1. CASE invalidation_generation = task[t].seen
      <4> DEFINE v == [tag |-> g, born |-> task[t].seen]
      <4>1. v \in Value
        BY <1>t DEF Value, Locals
      <4>2. InsertLocked(k, v)
        BY <2>3, <3>1 DEF InsertIfCurrent
      <4>3. Promise!Put(k)
        BY <4>1, <4>2, InsertIsPut
      <4>4. Promise!Insert(k)
        BY <1>3, <4>3 DEF Promise!Insert
      <4>5. QED
        BY <4>4 DEF RefStep, Promise!Step
    <3>2. CASE invalidation_generation # task[t].seen
      BY <2>3, <3>2, <1>3 DEF InsertIfCurrent, RefStep, store
    <3>3. QED
      BY <3>1, <3>2
  <2>4. QED
    BY <2>1, <2>2, <2>3
<1>5. QED
  BY <1>3, <1>4 DEF Kept

\* Join registers the task's own sender.
LEMMA JoinKept ==
  ASSUME RefInv, NEW t \in Task, Join(t)
  PROVE  Kept
<1>t. /\ task \in [Task -> Locals] /\ task[t] \in Locals /\ LocalOK(task[t]) /\ CallOK(task[t])
      /\ in_flight \in [Key -> InFlight]
      /\ SenderInv /\ task[t].pc = "slow" /\ UNCHANGED entries
  BY RefTypes DEF Join
<1> DEFINE k == task[t].key
<1>0. k \in Key /\ k # None
  BY <1>t, SetAssumption DEF LocalOK
<1>1. /\ \A u \in Task \ {t} : task'[u] = task[u]
      /\ task'[t].pc = "wait" /\ task'[t].key = k /\ task'[t].held = task[t].held
      /\ task'[t].outcome = task[t].outcome
      /\ in_flight'[k].waiters = in_flight[k].waiters \cup {t}
      /\ \A j \in Key \ {k} : in_flight'[j] = in_flight[j]
  BY <1>t, <1>0 DEF Join, Locals, InFlight
<1> HIDE DEF k
<1>2. task[t].held = {} /\ Unsent(t) /\ task[t].outcome = None
  BY <1>t, Outside DEF CallOK, Sending
<1>3. CallOK(task'[t])
  BY <1>1, <1>2 DEF CallOK
<1>4. \A u \in Task : task'[u].held = task[u].held /\ task'[u].key = task[u].key
  BY <1>1 DEF k
<1>5. SenderInv'
  <2>1. ASSUME NEW w \in Task, NEW j \in Key, w \in in_flight'[j].waiters
        PROVE  Registered(w, j)'
    <3>1. CASE w = t
      <4>1. j = k
        BY <2>1, <3>1, <1>1, <1>2 DEF Unsent
      <4>2. QED
        BY <4>1, <3>1, <1>1, <1>2, <1>4 DEF Registered, Unsent
    <3>2. CASE w # t
      <4>1. Registered(w, j)
        BY <2>1, <3>2, <1>1, <1>t DEF SenderInv
      <4>2. QED
        BY <4>1, <3>2, <1>1, <1>4 DEF Registered
    <3>3. QED
      BY <3>1, <3>2
  <2>2. ASSUME NEW w \in Task, NEW u \in Task, w \in task'[u].held
        PROVE  HeldBy(w, u)'
    <3>1. w # t /\ HeldBy(w, u)
      BY <2>2, <1>2, <1>4, <1>t DEF Unsent, SenderInv
    <3>2. QED
      BY <3>1, <1>1, <1>4 DEF HeldBy
  <2>3. QED
    BY <2>1, <2>2 DEF SenderInv
<1>6. HeardOf(task', t) = None
  BY <1>1, <1>2, <1>4, HeardFromNobody DEF Unsent
<1>7. CallOf(task', t) = Ask(k, None) /\ CallOf(task, t) = Ask(k, None)
  BY <1>t, <1>0, <1>1, <1>6, CallIs DEF k
<1>8. Calls' = Calls
  BY <1>1, <1>2, <1>5, <1>7, AloneStutters
<1>9. QED
  BY <1>t, <1>1, <1>3, <1>5, <1>8, CallInvOne DEF Kept, RefStep

------------------------------------------------------------------------------
(***************************************************************************)
(* Steps that take, hold or use senders.                                   *)
(***************************************************************************)
\* Whose sender t takes hears from t, everybody else is left alone.
LEMMA TakenCalls ==
  ASSUME RefInv, SenderInv', NEW t \in Task, NEW D \in SUBSET Key, Takes(t, D),
         task[t].held = {}, Unsent(t)
  PROVE  \A w \in Task \ {t} :
           \/ CallOf(task', w) = CallOf(task, w)
           \/ \E k \in D : /\ CallOf(task, w) = Ask(k, None)
                           /\ CallOf(task', w) = Ask(k, Says(task'[t]))
<1> SUFFICES ASSUME NEW w \in Task \ {t}
             PROVE  \/ CallOf(task', w) = CallOf(task, w)
                    \/ \E k \in D : /\ CallOf(task, w) = Ask(k, None)
                                    /\ CallOf(task', w) = Ask(k, Says(task'[t]))
  OBVIOUS
<1>0. SenderInv /\ task'[w] = task[w]
  BY DEF RefInv, Takes
<1>1. CASE w \notin task'[t].held
  <2>1. \A u \in Task \ {t} : task'[u] = task[u]
    BY DEF Takes
  <2>2. CallOf(task', w) = CallOf(task, w)
    BY <1>0, <1>1, <2>1, Bystander
  <2>3. QED
    BY <2>2
<1>2. CASE w \in task'[t].held
  <2>1. PICK k \in D : w \in in_flight[k].waiters
    BY <1>2 DEF Takes
  <2>2. Registered(w, k)
    BY <1>0, <2>1 DEF SenderInv
  <2>3. CASE task[w].pc = "wait"
    <3>1. CallOf(task, w) = Ask(k, None)
      BY <2>1, <2>3, RegisteredCall
    <3>2. task'[w].pc = "wait" /\ task'[w].key = k /\ k \in Key
      BY <1>0, <2>2, <2>3 DEF Registered
    <3>3. CallOf(task', w) = Ask(k, Says(task'[t]))
      BY <1>2, <3>2, HeldCallNext
    <3>4. QED
      BY <3>1, <3>3
  <2>4. CASE task[w].pc = "gone"
    BY <1>0, <2>4, CallIs
  <2>5. QED
    BY <2>2, <2>3, <2>4 DEF Registered
<1>3. QED
  BY <1>1, <1>2

\* take_in_flight.
LEMMA ClaimCalls ==
  ASSUME RefInv, NEW t \in Task, task[t].pc = "fetch", TakeInFlight(t),
         \A u \in Task \ {t} : task'[u] = task[u],
         task'[t].held = TakenWaiters(t), task'[t].key = task[t].key
  PROVE  /\ SenderInv' /\ task[t].key \in Key /\ task[t].key # None
         /\ CallOf(task, t) = Ask(task[t].key, None)
         /\ \A w \in Task \ {t} :
              \/ CallOf(task', w) = CallOf(task, w)
              \/ /\ OwnsSlot(t)
                 /\ CallOf(task, w) = Ask(task[t].key, None)
                 /\ CallOf(task', w) = Ask(task[t].key, Says(task'[t]))
<1>t. /\ task[t] \in Locals /\ LocalOK(task[t]) /\ CallOK(task[t])
      /\ in_flight \in [Key -> InFlight] /\ SenderInv
  BY RefTypes
<1> DEFINE k == task[t].key
           D == IF OwnsSlot(t) THEN {k} ELSE {}
<1>0. k \in Key /\ k # None /\ task[t].held = {} /\ Unsent(t)
  BY <1>t, SetAssumption, Outside DEF LocalOK, CallOK, Sending
<1>1. CallOf(task, t) = Ask(k, None)
  BY CallIs
<1>2. Takes(t, D)
  <2>1. CASE OwnsSlot(t)
    <3>1. in_flight' = [in_flight EXCEPT ![k] = NoSlot] /\ task'[t].held = in_flight[k].waiters
      BY <2>1 DEF TakeInFlight, TakenWaiters
    <3>2. D = {k}
      BY <2>1
    <3> HIDE DEF D, k
    <3>3. task'[t].key = k
      BY DEF k
    <3>4. QED
      BY <1>t, <1>0, <3>1, <3>2, <3>3, Constants DEF Takes
  <2>2. CASE ~OwnsSlot(t)
    BY <2>2 DEF Takes, TakeInFlight, TakenWaiters
  <2>3. QED
    BY <2>1, <2>2
<1>3. D \in SUBSET Key /\ \A j \in D : OwnsSlot(t) /\ j = k
  BY <1>0
<1> HIDE DEF D
<1>4. SenderInv'
  BY <1>0, <1>2, <1>3, SendersTaken
<1>5. \A w \in Task \ {t} :
           \/ CallOf(task', w) = CallOf(task, w)
           \/ \E j \in D : /\ CallOf(task, w) = Ask(j, None)
                           /\ CallOf(task', w) = Ask(j, Says(task'[t]))
  BY <1>0, <1>2, <1>3, <1>4, TakenCalls
<1>6. QED
  BY <1>0, <1>1, <1>3, <1>4, <1>5

LEMMA FetchDoneKept ==
  ASSUME RefInv, NEW t \in Task, NEW r \in FetchResult(t), FetchDone(t, r)
  PROVE  Kept
<1>t. /\ task \in [Task -> Locals] /\ task[t] \in Locals /\ task[t].pc = "fetch"
      /\ TakeInFlight(t) /\ UNCHANGED entries
  BY RefTypes DEF FetchDone
<1>r. r \in Value \/ (r = Failed /\ r \notin Value)
  BY <1>t, OutcomeAssumption DEF FetchResult, Locals, Value
<1> DEFINE k == task[t].key
<1>1. /\ \A u \in Task \ {t} : task'[u] = task[u]
      /\ task'[t].pc = IF r \in Value /\ OwnsSlot(t) THEN "store" ELSE "reply"
      /\ task'[t].key = k /\ task'[t].held = TakenWaiters(t) /\ task'[t].outcome = r
  BY <1>t DEF FetchDone, Locals
<1>2. /\ SenderInv' /\ k \in Key /\ k # None
      /\ CallOf(task, t) = Ask(k, None)
      /\ \A w \in Task \ {t} :
              \/ CallOf(task', w) = CallOf(task, w)
              \/ /\ OwnsSlot(t)
                 /\ CallOf(task, w) = Ask(k, None)
                 /\ CallOf(task', w) = Ask(k, Says(task'[t]))
  BY <1>t, <1>1, ClaimCalls
<1> HIDE DEF k
<1>3. CallInv'
  <2>1. CallOK(task'[t])
    BY <1>1, <1>2 DEF CallOK, Sending
  <2>2. QED
    BY <1>1, <2>1, CallInvOne
<1>4. CASE r \in Value /\ OwnsSlot(t)
  <2>1. task'[t].pc = "store" /\ Says(task'[t]) = None
    BY <1>1, <1>4 DEF Says
  <2>2. CallOf(task', t) = Ask(k, None)
    BY <2>1, <1>1, CallIs
  <2>3. \A w \in Task : CallOf(task', w) = CallOf(task, w)
    BY <1>2, <2>1, <2>2
  <2>4. Calls' = Calls
    BY <2>3, CallsAre
  <2>5. QED
    BY <1>t, <1>2, <1>3, <2>4 DEF Kept, RefStep
<1>5. CASE ~(r \in Value /\ OwnsSlot(t))
  <2>1. task'[t].pc = "reply" /\ Says(task'[t]) = r /\ CallOf(task', t) = Ask(k, r)
    <3>1. task'[t].pc = "reply"
      BY <1>1, <1>5
    <3>2. QED
      BY <1>1, <1>2, <3>1, CallIs DEF Says
  <2>2. CASE r = Failed
    <3>1. Promise!Answered(k, Failed)
      BY <1>2, <2>1, <2>2, AnsweredBy
    <3>2. Promise!Fail(k)
      BY <1>t, <3>1 DEF Promise!Fail
    <3>3. QED
      BY <1>2, <1>3, <3>2 DEF Kept, RefStep, Promise!Step
  <2>3. CASE r \in Value
    <3>1. ~OwnsSlot(t)
      BY <1>5, <2>3
    <3>2. \A w \in Task \ {t} : CallOf(task', w) = CallOf(task, w)
      BY <1>2, <3>1
    <3>3. /\ Calls[t] = Ask(k, None) /\ Calls'[t] = Ask(k, r)
          /\ Calls' = [Calls EXCEPT ![t] = Ask(k, r)]
      BY <1>2, <2>1, <3>2, CallsAre
    <3>4. /\ Calls'[t].answer = r /\ [Ask(k, None) EXCEPT !.answer = r] = Ask(k, r)
          /\ Calls[t] = [key |-> k, answer |-> None]
      BY <3>3 DEF Ask
    <3>5. Calls' = [Calls EXCEPT ![t].answer = r]
      BY <3>3, <3>4
    <3>6. Promise!KeepToSelf(t, k)
      BY <1>t, <2>3, <3>1, <3>4, <3>5 DEF Promise!KeepToSelf, Promise!Pending, Overtaken
    <3>7. QED
      BY <1>2, <1>3, <3>6 DEF Kept, RefStep, Promise!Step
  <2>4. QED
    BY <1>r, <2>2, <2>3
<1>6. QED
  BY <1>4, <1>5

LEMMA DropLeaderKept ==
  ASSUME RefInv, NEW t \in Task, DropLeader(t)
  PROVE  Kept
<1>t. /\ task \in [Task -> Locals] /\ task[t] \in Locals /\ task[t].pc = "fetch"
      /\ TakeInFlight(t) /\ UNCHANGED entries
  BY RefTypes DEF DropLeader
<1> DEFINE k == task[t].key
<1>1. /\ \A u \in Task \ {t} : task'[u] = task[u]
      /\ task'[t].pc = "reply" /\ task'[t].key = k
      /\ task'[t].held = TakenWaiters(t) /\ task'[t].outcome = Cancelled
  BY <1>t DEF DropLeader, Locals
<1>2. /\ SenderInv' /\ k \in Key /\ k # None
      /\ CallOf(task, t) = Ask(k, None)
      /\ \A w \in Task \ {t} :
              \/ CallOf(task', w) = CallOf(task, w)
              \/ /\ OwnsSlot(t)
                 /\ CallOf(task, w) = Ask(k, None)
                 /\ CallOf(task', w) = Ask(k, Says(task'[t]))
  BY <1>t, <1>1, ClaimCalls
<1> HIDE DEF k
<1>3. CallInv'
  <2>1. CallOK(task'[t])
    BY <1>1 DEF CallOK, Sending
  <2>2. QED
    BY <1>1, <2>1, CallInvOne
<1>4. Says(task'[t]) = Cancelled /\ CallOf(task', t) = Ask(k, Cancelled)
  BY <1>1, <1>2, CallIs DEF Says
<1>5. Promise!CancelCalls
  BY <1>t, <1>2, <1>4, CancelledBy
<1>6. QED
  BY <1>2, <1>3, <1>5 DEF Kept, RefStep

\* The critical sections of an invalidation under the in_flight lock.
LEMMA CancelKept ==
  ASSUME RefInv, NEW t \in Task, CancelFetches(t) \/ CancelMatching(t)
  PROVE  Kept /\ Promise!CancelCalls
<1>t. /\ task \in [Task -> Locals] /\ task[t] \in Locals /\ CallOK(task[t])
      /\ task[t].pc \in {"cancel", "match_cancel"} /\ in_flight \in [Key -> InFlight]
      /\ SenderInv /\ RemoveSlots(t) /\ UNCHANGED entries
  BY RefTypes DEF CancelFetches, CancelMatching
<1> DEFINE D == task[t].doomed
<1>0. D \in SUBSET Key /\ task[t].held = {} /\ task[t].key = None /\ Unsent(t)
  BY <1>t, Outside DEF CallOK, Sending, Locals
<1>1. /\ \A u \in Task \ {t} : task'[u] = task[u]
      /\ task'[t].key = None /\ task'[t].held = SlotWaiters(t)
      /\ task'[t].pc = "drop" \/ (task'[t].pc = "reply" /\ task'[t].outcome = Cancelled)
  <2>1. CASE CancelFetches(t)
    BY <2>1, <1>t, <1>0 DEF CancelFetches, Locals
  <2>2. CASE CancelMatching(t)
    BY <2>2, <1>t, <1>0 DEF CancelMatching, Locals
  <2>3. QED
    BY <2>1, <2>2
<1>2. \A w : w \in SlotWaiters(t) <=> \E k \in D : w \in in_flight[k].waiters
  BY DEF SlotWaiters
<1>3. in_flight' = [k \in Key |-> IF k \in D THEN NoSlot ELSE in_flight[k]]
  BY <1>t DEF RemoveSlots
<1> HIDE DEF D
<1>4. Takes(t, D)
  BY <1>0, <1>1, <1>2, <1>3, Constants DEF Takes
<1>5. SenderInv'
  BY <1>0, <1>4, SendersTaken
<1>6. CallInv'
  <2>1. CallOK(task'[t])
    BY <1>1 DEF CallOK, Sending
  <2>2. QED
    BY <1>1, <2>1, CallInvOne
<1>7. Says(task'[t]) = Cancelled /\ CallOf(task', t) = CallOf(task, t)
  BY <1>0, <1>1, CallIs DEF Says
<1>8. \A w \in Task \ {t} :
           \/ CallOf(task', w) = CallOf(task, w)
           \/ \E k \in D : /\ CallOf(task, w) = Ask(k, None)
                           /\ CallOf(task', w) = Ask(k, Says(task'[t]))
  BY <1>0, <1>4, <1>5, TakenCalls
<1>9. Promise!CancelCalls
  BY <1>t, <1>0, <1>7, <1>8, CancelledBy
<1>10. QED
  BY <1>5, <1>6, <1>9 DEF Kept, RefStep

\* Whose sender t holds hears what t says now.
LEMMA HeldCalls ==
  ASSUME RefInv, SenderInv', NEW t \in Task, \A u \in Task \ {t} : task'[u] = task[u],
         task'[t].held = task[t].held
  PROVE  \A w \in Task \ {t} :
           \/ CallOf(task', w) = CallOf(task, w)
           \/ /\ task[t].key \in {None, task[w].key}
              /\ CallOf(task, w) = Ask(task[w].key, Says(task[t]))
              /\ CallOf(task', w) = Ask(task[w].key, Says(task'[t]))
<1> SUFFICES ASSUME NEW w \in Task \ {t}
             PROVE  \/ CallOf(task', w) = CallOf(task, w)
                    \/ /\ task[t].key \in {None, task[w].key}
                       /\ CallOf(task, w) = Ask(task[w].key, Says(task[t]))
                       /\ CallOf(task', w) = Ask(task[w].key, Says(task'[t]))
  OBVIOUS
<1>0. SenderInv /\ task'[w] = task[w] /\ LocalOK(task[w])
  BY RefTypes
<1>1. CASE w \notin task[t].held
  BY <1>0, <1>1, Bystander
<1>2. CASE w \in task[t].held
  <2>1. HeldBy(w, t)
    BY <1>0, <1>2 DEF SenderInv
  <2>2. CASE task[w].pc = "wait"
    <3>1. task[w].key \in Key /\ task[t].key \in {None, task[w].key}
      BY <1>0, <2>1, <2>2 DEF HeldBy, LocalOK
    <3>2. CallOf(task, w) = Ask(task[w].key, Says(task[t]))
      BY <1>2, <2>2, HeldCall
    <3>3. CallOf(task', w) = Ask(task[w].key, Says(task'[t]))
      BY <1>0, <1>2, <2>2, <3>1, HeldCallNext
    <3>4. QED
      BY <3>1, <3>2, <3>3
  <2>3. CASE task[w].pc = "gone"
    BY <1>0, <2>3, CallIs
  <2>4. QED
    BY <2>1, <2>2, <2>3 DEF HeldBy
<1>3. QED
  BY <1>1, <1>2

\* The leader's value lands, for it and for all whose senders it took.
LEMMA StoreFetchedKept ==
  ASSUME RefInv, NEW t \in Task, StoreFetched(t)
  PROVE  Kept
<1>t. /\ task \in [Task -> Locals] /\ task[t] \in Locals /\ LocalOK(task[t])
      /\ task[t].pc = "store" /\ SenderInv /\ UNCHANGED in_flight
  BY RefTypes DEF StoreFetched
<1> DEFINE k == task[t].key
<1>0. k \in Key /\ k # None /\ Unsent(t) /\ task[t].outcome \in Value
  BY <1>t, SetAssumption, Outside DEF LocalOK
<1>1. /\ \A u \in Task \ {t} : task'[u] = task[u]
      /\ task'[t].pc = "reply" /\ task'[t].key = k /\ task'[t].held = task[t].held
      /\ task'[t].outcome = IF Cached(k) THEN entries[k] ELSE task[t].outcome
      /\ IF Cached(k) THEN UNCHANGED entries ELSE InsertLocked(k, task[t].outcome)
  <2>1. CASE Cached(k)
    BY <2>1, <1>t DEF StoreFetched, Locals, store
  <2>2. CASE ~Cached(k)
    BY <2>2, <1>t DEF StoreFetched, Locals
  <2>3. QED
    BY <2>1, <2>2
<1>2. SenderInv'
  BY <1>t, <1>0, <1>1, SendersStay
<1>3. \A w \in Task \ {t} :
           \/ CallOf(task', w) = CallOf(task, w)
           \/ /\ k \in {None, task[w].key}
              /\ CallOf(task, w) = Ask(task[w].key, Says(task[t]))
              /\ CallOf(task', w) = Ask(task[w].key, Says(task'[t]))
  BY <1>1, <1>2, HeldCalls
<1>4. CallOf(task, t) = Ask(k, None) /\ Says(task[t]) = None
  BY <1>t, CallIs DEF Says
<1> HIDE DEF k
<1>5. CallOf(task', t) = Ask(k, task'[t].outcome) /\ Says(task'[t]) = task'[t].outcome
  BY <1>0, <1>1, CallIs DEF Says
<1>6. CallInv'
  <2>1. CallOK(task'[t])
    BY <1>0, <1>1 DEF CallOK, Sending
  <2>2. QED
    BY <1>1, <2>1, CallInvOne
<1>7. Promise!Answered(k, task'[t].outcome)
  BY <1>0, <1>3, <1>4, <1>5, AnsweredBy
<1>8. Promise!Land(k)
  <2>1. CASE Cached(k)
    BY <2>1, <1>1, <1>7 DEF Promise!Land, Cached
  <2>2. CASE ~Cached(k)
    <3>1. Promise!Put(k) /\ entries'[k] = task'[t].outcome
      BY <2>2, <1>0, <1>1, InsertIsPut
    <3>2. QED
      BY <2>2, <3>1, <1>7 DEF Promise!Land, Cached
  <2>3. QED
    BY <2>1, <2>2
<1>9. QED
  BY <1>0, <1>2, <1>6, <1>8 DEF Kept, RefStep, Promise!Step

LEMMA DropEntriesKept ==
  ASSUME RefInv, NEW t \in Task, DropEntries(t)
  PROVE  Kept
<1>t. /\ task \in [Task -> Locals] /\ task[t] \in Locals /\ CallOK(task[t])
      /\ task[t].pc = "drop" /\ SenderInv /\ UNCHANGED in_flight
  BY RefTypes DEF DropEntries
<1>0. task[t].doomed \in SUBSET Key /\ task[t].key = None /\ Unsent(t)
  BY <1>t, Outside DEF CallOK, Locals
<1>1. /\ \A u \in Task \ {t} : task'[u] = task[u]
      /\ task'[t].pc = "reply" /\ task'[t].key = None /\ task'[t].held = task[t].held
      /\ task'[t].outcome = Cancelled
  BY <1>t, <1>0 DEF DropEntries, Locals
<1>2. SenderInv'
  BY <1>t, <1>0, <1>1, SendersStay
<1>3. Says(task[t]) = Says(task'[t]) /\ CallOf(task', t) = CallOf(task, t)
  BY <1>t, <1>0, <1>1, CallIs DEF Says
<1>4. \A w \in Task : CallOf(task', w) = CallOf(task, w)
  BY <1>1, <1>2, <1>3, HeldCalls
<1>5. CallInv'
  <2>1. CallOK(task'[t])
    BY <1>1 DEF CallOK, Sending
  <2>2. QED
    BY <1>1, <2>1, CallInvOne
<1>6. Calls' = Calls
  BY <1>4, CallsAre
<1>7. Promise!Forget(task[t].doomed)
  BY <1>6 DEF Promise!Forget, DropEntries, RemoveEntries
<1>8. QED
  BY <1>0, <1>2, <1>5, <1>7 DEF Kept, RefStep, Promise!Step

\* One send: the waiter has now been told what was on its way to it.
LEMMA NotifyKept ==
  ASSUME RefInv, NEW t \in Task, NEW w \in Task, Notify(t, w)
  PROVE  Kept
<1>t. /\ task \in [Task -> Locals] /\ \A u \in Task : CallOK(task[u])
      /\ LocalOK(task[t]) /\ LocalOK(task[w]) /\ task[t] \in Locals /\ task[w] \in Locals
      /\ task[t].pc = "reply" /\ w \in task[t].held /\ SenderInv
      /\ UNCHANGED <<entries, in_flight>>
  BY RefTypes DEF Notify
<1>0. HeldBy(w, t) /\ w # t
  BY <1>t DEF SenderInv, HeldBy
<1>1. /\ task'[t] = [task[t] EXCEPT !.held = task[t].held \ {w}]
      /\ task'[w] = IF task[w].pc = "wait" THEN [task[w] EXCEPT !.outcome = task[t].outcome]
                                           ELSE task[w]
      /\ \A u \in Task \ {t, w} : task'[u] = task[u]
  BY <1>0 DEF Notify
<1>2. /\ task'[t].pc = "reply" /\ task'[t].key = task[t].key
      /\ task'[t].outcome = task[t].outcome /\ task'[t].held = task[t].held \ {w}
  BY <1>t, <1>1 DEF Locals
<1>3. /\ task'[w].pc = task[w].pc /\ task'[w].key = task[w].key /\ task'[w].held = task[w].held
      /\ task'[w].outcome = IF task[w].pc = "wait" THEN task[t].outcome ELSE task[w].outcome
  BY <1>t, <1>1 DEF Locals
<1>4. \A u \in Task : /\ task'[u].pc = task[u].pc /\ task'[u].key = task[u].key
                      /\ task'[u].held = IF u = t THEN task[u].held \ {w} ELSE task[u].held
                      /\ (u # w \/ task[u].pc # "wait") => task'[u].outcome = task[u].outcome
  <2> SUFFICES ASSUME NEW u \in Task
               PROVE  /\ task'[u].pc = task[u].pc /\ task'[u].key = task[u].key
                      /\ task'[u].held = IF u = t THEN task[u].held \ {w} ELSE task[u].held
                      /\ (u # w \/ task[u].pc # "wait") => task'[u].outcome = task[u].outcome
    OBVIOUS
  <2>1. CASE u = t
    BY <2>1, <1>t, <1>0, <1>2
  <2>2. CASE u = w
    BY <2>2, <1>0, <1>3
  <2>3. CASE u \notin {t, w}
    <3>1. task'[u] = task[u]
      BY <2>3, <1>1
    <3>2. QED
      BY <2>3, <3>1
  <2>4. QED
    BY <2>1, <2>2, <2>3
<1>5. CallInv'
  <2>1. \A u \in Task : task[u].pc = "wait" => task[u].held = {}
    BY <1>t DEF CallOK, Sending
  <2>2. \A u \in Task : CallOK(task'[u])
    BY <1>t, <1>4 DEF CallOK
  <2>3. QED
    BY <2>2 DEF CallInv, CallOK
<1>6. SenderInv'
  <2>1. ASSUME NEW x \in Task, NEW k \in Key, x \in in_flight'[k].waiters
        PROVE  Registered(x, k)'
    <3>1. Registered(x, k)
      BY <2>1, <1>t DEF SenderInv
    <3>2. task[x].pc = "wait" => x # w
      BY <1>t, <3>1 DEF Registered
    <3>3. QED
      BY <3>1, <3>2, <1>4 DEF Registered
  <2>2. ASSUME NEW x \in Task, NEW u \in Task, x \in task'[u].held
        PROVE  HeldBy(x, u)'
    <3>1. HeldBy(x, u)
      BY <2>2, <1>t, <1>4 DEF SenderInv
    <3>2. task[x].pc = "wait" => x # w
      BY <2>2, <1>t, <1>4, <3>1 DEF HeldBy
    <3>3. QED
      BY <3>1, <3>2, <1>4 DEF HeldBy
  <2>3. QED
    BY <2>1, <2>2 DEF SenderInv
<1>7. \A x \in Task : CallOf(task', x) = CallOf(task, x)
  <2> SUFFICES ASSUME NEW x \in Task PROVE CallOf(task', x) = CallOf(task, x)
    OBVIOUS
  <2>1. CASE task[x].pc # "wait"
    BY <2>1, <1>4 DEF CallOf
  <2>2. CASE task[x].pc = "wait" /\ x = w
    <3>1. CallOf(task, w) = Ask(task[w].key, task[t].outcome)
      BY <2>2, <1>t, HeldCall DEF Says
    <3>2. task[w].key # None /\ task[t].outcome # None
      BY <2>2, <1>t, SetAssumption DEF LocalOK
    <3>3. HeardOf(task', w) = task[t].outcome
      BY <2>2, <1>3, <3>2 DEF HeardOf
    <3>4. CallOf(task', w) = Ask(task[w].key, task[t].outcome)
      BY <2>2, <1>3, <3>2, <3>3, CallIs
    <3>5. QED
      BY <2>2, <3>1, <3>4
  <2>3. CASE task[x].pc = "wait" /\ x # w
    <3>0. task'[x].outcome = task[x].outcome
      BY <2>3, <1>4
    <3>1. HeardOf(task', x) = HeardOf(task, x)
      <4>1. CASE task[x].outcome # None
        BY <4>1, <3>0 DEF HeardOf
      <4>2. CASE task[x].outcome = None /\ \A u \in Task : x \notin task[u].held
        <5>1. \A u \in Task : x \notin task'[u].held
          BY <4>2, <1>4
        <5>2. QED
          BY <4>2, <5>1, <3>0, HeardFromNobody
      <4>3. ASSUME task[x].outcome = None, NEW u \in Task, x \in task[u].held
            PROVE  HeardOf(task', x) = HeardOf(task, x)
        <5>1. \A v \in Task : x \in task[v].held => v = u
          BY <2>3, <4>3, <1>t DEF SenderInv, HeldBy
        <5>2. /\ x \in task'[u].held
              /\ \A v \in Task : x \in task'[v].held => v = u
          BY <2>3, <4>3, <5>1, <1>4
        <5>3. u # w \/ task[u].pc # "wait"
          BY <4>3, <1>t DEF CallOK, Sending
        <5>4. Says(task'[u]) = Says(task[u])
          BY <5>3, <1>4 DEF Says
        <5>5. HeardOf(task, x) = Says(task[u])
          BY <4>3, <5>1, HeardFromHolder
        <5>6. HeardOf(task', x) = Says(task'[u])
          BY <4>3, <5>2, <3>0, HeardFromHolder
        <5>7. QED
          BY <5>4, <5>5, <5>6
      <4>4. QED
        BY <4>1, <4>2, <4>3
    <3>2. QED
      BY <2>3, <3>1, <1>4 DEF CallOf
  <2>4. QED
    BY <2>1, <2>2, <2>3
<1>8. Calls' = Calls
  BY <1>7, CallsAre
<1>9. QED
  BY <1>t, <1>5, <1>6, <1>8 DEF Kept, RefStep

------------------------------------------------------------------------------
(***************************************************************************)
(* The refinement.                                                         *)
(***************************************************************************)
LEMMA RefInvInit == Init => RefInv /\ Promise!Init
<1> SUFFICES ASSUME Init PROVE RefInv /\ Promise!Init
  OBVIOUS
<1>1. /\ \A t \in Task : task[t] = Idle
      /\ \A k \in Key : in_flight[k].waiters = {}
      /\ Idle.pc = "idle" /\ Idle.key = None /\ Idle.held = {}
      /\ entries = [k \in Key |-> None] /\ order = <<>>
  BY Constants DEF Init, Idle
<1>2. StoreConsistent
  BY <1>1, BoundAssumption DEF StoreConsistent, Cached
<1>3. CallInv /\ SenderInv
  BY <1>1 DEF CallInv, CallOK, SenderInv
<1>4. \A t \in Task : CallOf(task, t) = [key |-> None, answer |-> None]
  BY <1>1, CallIs DEF Ask
<1>5. Calls = [t \in Task |-> Promise!Out]
  BY <1>4, CallsAre DEF Promise!Out
<1>6. Overtaken = {}
  BY <1>1 DEF Overtaken
<1>7. QED
  BY <1>1, <1>2, <1>3, <1>5, <1>6, CacheInvInit DEF RefInv, Promise!Init

LEMMA RefNext ==
  ASSUME RefInv, Next
  PROVE  Kept
<1>1. PICK t \in Task : Call(t) \/ Drop(t) \/ Respawn(t) \/ Progress(t)
  BY DEF Next
<1>2. CASE Call(t) \/ Respawn(t)
  BY <1>2, BeginsKept DEF Call, Invalidate, Clear, InvalidateMatching
<1>3. CASE Drop(t)
  BY <1>3, DropLeaderKept, DropWaiterKept, BeginsKept DEF Drop
<1>4. CASE Progress(t)
  BY <1>4, RecheckKept, JoinKept, LeadKept, FetchDoneKept, StoreFetchedKept, NotifyKept,
     ReturnKept, CancelKept, DropEntriesKept, KeylessKept DEF Progress
<1>5. QED
  BY <1>1, <1>2, <1>3, <1>4

\* Which leaders are overtaken changes only as the specification says: in the
\* critical section of an invalidation, or with the call itself.
CutStep ==
  \/ Overtaken' = Promise!StillCut
  \/ /\ Promise!CancelCalls
     /\ Promise!StillCut \subseteq Overtaken' /\ Overtaken' \subseteq Task
     /\ \A t \in Overtaken' \ Overtaken :
          Calls'[t] = Calls[t] /\ \E k \in Key : Promise!Pending(t, k)

\* A leader that goes on fetching keeps its call.
LEMMA FetchingCall ==
  ASSUME RefInv, NEW u \in Task, task[u].pc = "fetch"
  PROVE  /\ Calls[u] = Ask(task[u].key, None) /\ task[u].key \in Key
         /\ task'[u] = task[u] => Calls'[u] = Calls[u]
<1>1. LocalOK(task[u]) /\ task[u].pc \notin {"reply", "wait"}
  BY RefTypes
<1>2. CallOf(task, u) = Ask(task[u].key, None) /\ task[u].key \in Key
  BY <1>1, CallIs DEF LocalOK
<1>3. task'[u] = task[u] => CallOf(task', u) = Ask(task[u].key, None)
  BY <1>1, CallIs
<1>4. QED
  BY <1>2, <1>3, CallsAre

\* A step that starts and ends no fetch, and leaves the fetches' slots alone.
LEMMA CutStays ==
  ASSUME RefInv,
         \A u \in Task : task[u].pc = "fetch" => task'[u] = task[u],
         \A u \in Task : task'[u].pc = "fetch" => task[u].pc = "fetch",
         \A u \in Task : task[u].pc = "fetch" =>
           in_flight'[task[u].key].token = in_flight[task[u].key].token
  PROVE  CutStep
<1>1. \A u \in Overtaken : Calls'[u] = Calls[u]
  BY FetchingCall DEF Overtaken
<1>2. Overtaken' = Overtaken
  BY DEF Overtaken, OwnsSlot
<1>3. QED
  BY <1>1, <1>2 DEF CutStep, Promise!StillCut

\* A new leader owns its slot, and its token is nobody else's.
LEMMA LeadCut ==
  ASSUME RefInv, NEW t \in Task, Lead(t)
  PROVE  CutStep
<1>t. /\ task \in [Task -> Locals] /\ in_flight \in [Key -> InFlight] /\ next_token \in Nat
      /\ LocalOK(task[t]) /\ task[t] \in Locals /\ task[t].pc = "slow"
      /\ \A u \in Task : task[u].pc = "fetch" => task[u].token \in 1..next_token
  BY RefTypes, CacheTypes DEF RefInv, CacheInv, TokenInv, Lead
<1>k. PICK k \in Key : k = task[t].key
  BY <1>t DEF LocalOK
<1>1. /\ \A u \in Task \ {t} : task'[u] = task[u]
      /\ task'[t].pc = "fetch" /\ task'[t].key = k /\ task'[t].token = next_token + 1
      /\ in_flight[k].token = 0 /\ in_flight'[k].token = next_token + 1
      /\ \A j \in Key \ {k} : in_flight'[j] = in_flight[j]
  BY <1>t, <1>k, Constants DEF Lead, Locals
<1>2. \A u \in Task : task[u].pc = "fetch" =>
        u # t /\ task[u].token # 0 /\ task[u].token # next_token + 1
  BY <1>t
<1>3. \A u \in Task : u \in Overtaken' <=> u \in Overtaken
  <2> SUFFICES ASSUME NEW u \in Task PROVE u \in Overtaken' <=> u \in Overtaken
    OBVIOUS
  <2>1. CASE u = t
    BY <2>1, <1>t, <1>1 DEF Overtaken, OwnsSlot
  <2>2. CASE u # t /\ task[u].pc = "fetch" /\ task[u].key = k
    BY <2>2, <1>1, <1>2 DEF Overtaken, OwnsSlot
  <2>3. CASE u # t /\ task[u].pc = "fetch" /\ task[u].key # k
    <3>1. task[u].key \in Key \ {k}
      BY <2>3, FetchingCall
    <3>2. QED
      BY <2>3, <3>1, <1>1 DEF Overtaken, OwnsSlot
  <2>4. CASE u # t /\ task[u].pc # "fetch"
    BY <2>4, <1>1 DEF Overtaken
  <2>5. QED
    BY <2>1, <2>2, <2>3, <2>4
<1>4. \A u \in Overtaken : Calls'[u] = Calls[u]
  BY <1>1, <1>2, FetchingCall DEF Overtaken
<1>5. Overtaken' = Overtaken
  BY <1>3 DEF Overtaken
<1>6. QED
  BY <1>4, <1>5 DEF CutStep, Promise!StillCut

\* A leader that stops takes nobody else's slot; had it been overtaken, its call
\* is answered by this step.
LEMMA ClaimCut ==
  ASSUME RefInv, TypeInv', NEW t \in Task, Claim(t)
  PROVE  CutStep
<1>t. /\ in_flight \in [Key -> InFlight] /\ LocalOK(task'[t])
      /\ \A u \in Task : task[u].pc = "fetch" => task[u].token # 0
      /\ TokenInv
  BY RefTypes, CacheTypes DEF RefInv, CacheInv, TypeInv, LocalOK
<1>k. PICK k \in Key : k = task[t].key
  BY FetchingCall DEF Claim
<1>1. /\ task[t].pc = "fetch" /\ task'[t].pc # "fetch"
      /\ \A u \in Task \ {t} : task'[u] = task[u]
  BY DEF Claim
<1>2. \/ in_flight' = in_flight
      \/ /\ in_flight[k].token = task[t].token /\ in_flight'[k].token = 0
         /\ \A j \in Key \ {k} : in_flight'[j] = in_flight[j]
  BY <1>t, <1>k, Constants DEF Claim, TakeInFlight, OwnsSlot
<1>3. \A u \in Task \ {t} : task[u].pc = "fetch" =>
        (in_flight'[task[u].key].token = task[u].token
           <=> in_flight[task[u].key].token = task[u].token)
  <2> SUFFICES ASSUME NEW u \in Task \ {t}, task[u].pc = "fetch"
               PROVE  in_flight'[task[u].key].token = task[u].token
                        <=> in_flight[task[u].key].token = task[u].token
    OBVIOUS
  <2>1. task[u].token # task[t].token /\ task[u].token # 0 /\ task[u].key \in Key
    BY <1>t, <1>1, FetchingCall DEF TokenInv
  <2>2. QED
    BY <1>2, <2>1
<1>4. t \in Overtaken => Calls'[t] # Calls[t]
  <2> SUFFICES ASSUME t \in Overtaken PROVE Calls'[t] # Calls[t]
    OBVIOUS
  <2>1. task'[t].pc = "reply" /\ task'[t].outcome # None
    BY <1>t DEF Overtaken, Claim, LocalOK
  <2>2. CallOf(task', t) \in {Ask(None, None), Ask(task'[t].key, task'[t].outcome)}
    BY <2>1, CallIs
  <2>3. CallOf(task', t) # Ask(k, None)
    BY <2>1, <2>2, <1>k, SetAssumption DEF Ask
  <2>4. Calls[t] = Ask(k, None) /\ Calls'[t] = CallOf(task', t)
    BY <1>1, <1>k, FetchingCall, CallsAre
  <2>5. QED
    BY <2>3, <2>4
<1>5. t \notin Overtaken'
  BY <1>1 DEF Overtaken
<1>6. \A u \in Task \ {t} : u \in Overtaken' <=> u \in Overtaken
  BY <1>1, <1>3 DEF Overtaken, OwnsSlot
<1>7. \A u \in Overtaken \ {t} : Calls'[u] = Calls[u]
  BY <1>1, FetchingCall DEF Overtaken
<1>8. \A u \in Task : u \in Overtaken' <=> u \in Overtaken /\ Calls'[u] = Calls[u]
  BY <1>4, <1>5, <1>6, <1>7
<1>9. Overtaken \subseteq Task /\ Overtaken' \subseteq Task
  BY DEF Overtaken
<1>10. Overtaken' = {u \in Overtaken : Calls'[u] = Calls[u]}
  BY <1>8, <1>9
<1>11. QED
  BY <1>10 DEF CutStep, Promise!StillCut

\* An invalidation overtakes leaders, and gives none its slot back.
LEMMA CancelCut ==
  ASSUME RefInv, NEW t \in Task, Cancel(t), CancelFetches(t) \/ CancelMatching(t)
  PROVE  CutStep
<1>1. \A u \in Task : task[u].pc = "fetch" => u # t /\ task'[u] = task[u]
  BY DEF Cancel
<1>2. \A u \in Task : task'[u].pc = "fetch" => task[u].pc = "fetch"
  BY DEF Cancel
<1>3. \A u \in Task : task[u].pc = "fetch" => task[u].token # 0
  BY CacheTypes DEF RefInv
<1>4. \A u \in Overtaken : u \in Overtaken'
  <2> SUFFICES ASSUME NEW u \in Overtaken PROVE u \in Overtaken'
    OBVIOUS
  <2>1. u \in Task /\ task[u].pc = "fetch" /\ in_flight[task[u].key].token # task[u].token
    BY DEF Overtaken, OwnsSlot
  <2>2. task[u].key \in Key /\ task'[u] = task[u] /\ task[u].token # 0
    BY <1>1, <1>3, <2>1, FetchingCall
  <2>3. in_flight'[task[u].key].token \in {0, in_flight[task[u].key].token}
    BY <2>2, Constants DEF Cancel, RemoveSlots
  <2>4. QED
    BY <2>1, <2>2, <2>3 DEF Overtaken, OwnsSlot
<1>5. \A u \in Overtaken' : Calls'[u] = Calls[u] /\ \E k \in Key : Promise!Pending(u, k)
  <2> SUFFICES ASSUME NEW u \in Overtaken'
               PROVE  Calls'[u] = Calls[u] /\ \E k \in Key : Promise!Pending(u, k)
    OBVIOUS
  <2>1. u \in Task /\ task[u].pc = "fetch" /\ task'[u] = task[u]
    BY <1>1, <1>2 DEF Overtaken
  <2>2. QED
    BY <2>1, FetchingCall DEF Promise!Pending, Ask
<1>6. Promise!StillCut \subseteq Overtaken' /\ Overtaken' \subseteq Task
  BY <1>4 DEF Promise!StillCut, Overtaken
<1>7. QED
  BY <1>5, <1>6, CancelKept DEF CutStep

LEMMA CutNext ==
  ASSUME RefInv, TypeInv', Next
  PROVE  CutStep
<1>t. /\ task \in [Task -> Locals] /\ in_flight \in [Key -> InFlight] /\ CacheInv
  BY RefTypes DEF RefInv
<1>1. PICK t \in Task : \/ Quiet(t) \/ Join(t) \/ Lead(t) \/ Claim(t)
                        \/ Cancel(t) /\ (CancelFetches(t) \/ CancelMatching(t))
                        \/ \E w \in Task : Notify(t, w)
  BY <1>t, StepKinds
<1>2. CASE Quiet(t)
  BY <1>2, CutStays DEF Quiet
<1>3. CASE Join(t)
  <2>1. /\ task[t].pc = "slow" /\ task'[t].pc = "wait"
        /\ \A u \in Task \ {t} : task'[u] = task[u]
    BY <1>3, <1>t DEF Join, Locals
  <2>2. \A k \in Key : in_flight'[k].token = in_flight[k].token
    BY <1>3, <1>t DEF Join, InFlight
  <2>3. \A u \in Task : task[u].pc = "fetch" => task[u].key \in Key
    BY FetchingCall
  <2>4. QED
    BY <2>1, <2>2, <2>3, CutStays
<1>4. CASE \E w \in Task : Notify(t, w)
  <2>1. PICK w \in Task : Notify(t, w)
    BY <1>4
  <2>2. in_flight' = in_flight /\ task[t].pc = "reply"
    BY <2>1 DEF Notify
  <2>3. \A u \in Task : task'[u].pc = task[u].pc /\ (task[u].pc = "fetch" => task'[u] = task[u])
    <3> SUFFICES ASSUME NEW u \in Task
                 PROVE  task'[u].pc = task[u].pc /\ (task[u].pc = "fetch" => task'[u] = task[u])
      OBVIOUS
    <3>1. task[u] \in Locals
      BY <1>t
    <3>2. \/ task'[u] = task[u]
          \/ u = t /\ task'[u] = [task[u] EXCEPT !.held = @ \ {w}]
          \/ u = w /\ task[w].pc = "wait" /\ task'[u] = [task[u] EXCEPT !.outcome = task[t].outcome]
      BY <2>1 DEF Notify
    <3>3. QED
      BY <2>2, <3>1, <3>2 DEF Locals
  <2>4. QED
    BY <2>2, <2>3, CutStays
<1>5. QED
  BY <1>1, <1>2, <1>3, <1>4, LeadCut, ClaimCut, CancelCut

LEMMA RefInvStep == RefInv /\ [Next]_vars => RefInv' /\ [Promise!Next]_Promise!vars
<1> SUFFICES ASSUME RefInv, [Next]_vars
             PROVE  RefInv' /\ [Promise!Next]_Promise!vars
  OBVIOUS
<1>1. CacheInv' /\ StoreConsistent'
  BY CacheInvStep, StoreConsistentStep DEF RefInv, CacheInv
<1>2. CASE Next
  <2>1. Kept /\ CutStep
    BY <1>1, <1>2, RefNext, CutNext DEF CacheInv
  <2>2. RefInv'
    BY <1>1, <2>1 DEF Kept, RefInv
  <2>3. CASE Overtaken' = Promise!StillCut
    <3>1. CASE Promise!Step
      BY <2>2, <2>3, <3>1 DEF Promise!Next
    <3>2. CASE Promise!CancelCalls
      <4>1. Overtaken' \subseteq Task /\ Promise!StillCut \subseteq Overtaken'
            /\ Overtaken' \ Overtaken = {}
        BY <2>3 DEF Overtaken, Promise!StillCut
      <4>2. QED
        BY <2>2, <3>2, <4>1 DEF Promise!Next, Promise!Cancel
    <3>3. CASE UNCHANGED entries /\ Calls' = Calls
      <4>1. Overtaken' = Overtaken
        BY <2>3, <3>3 DEF Promise!StillCut
      <4>2. QED
        BY <3>3, <4>1, <2>2 DEF Promise!vars
    <3>4. QED
      BY <2>1, <2>2, <3>1, <3>2, <3>3 DEF Kept, RefStep
  <2>4. CASE Overtaken' # Promise!StillCut
    BY <2>1, <2>2, <2>4 DEF CutStep, Promise!Next, Promise!Cancel
  <2>5. QED
    BY <2>3, <2>4
<1>3. CASE UNCHANGED vars
  <2>1. UNCHANGED <<task, in_flight, entries>>
    BY <1>3 DEF vars
  <2>2. CallInv' /\ SenderInv'
    BY <2>1 DEF RefInv, CallInv, SenderInv, Registered, HeldBy
  <2>3. Calls' = Calls /\ Overtaken' = Overtaken
    BY <2>1, CallsAre DEF Overtaken, OwnsSlot
  <2>4. QED
    BY <1>1, <2>1, <2>2, <2>3 DEF RefInv, Promise!vars
<1>4. QED
  BY <1>2, <1>3

\* For any number of tasks, keys and tags and any capacity, get_or_fetch with
\* its coalescing, its cancellation and its drop guard, every invalidation and
\* insert_if_current do what CacheSpec promises and nothing else: all calls
\* that share a fetch are answered at one instant, with what the cache holds
\* at that instant.
THEOREM CacheIsCacheSpec == Spec => KeepsPromise
<1>1. QED
  BY RefInvInit, RefInvStep, PTL DEF Spec, KeepsPromise, Promise!Spec

==============================================================================
