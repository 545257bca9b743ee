---------------------- MODULE CachedSchemaRegistryProofs ----------------------
(***************************************************************************)
(* What a deletion makes of the two caches, and what a lookup leaves in    *)
(* them, for any number of tasks, schemas, invalidations and deletions.    *)
(***************************************************************************)
EXTENDS CachedSchemaRegistry, TLAPS

------------------------------------------------------------------------------
(***************************************************************************)
(* Types, and what the place of a call says about its locals.              *)
(***************************************************************************)
PC == {"idle", "sample", "lookup", "wait", "fetch", "answered", "store", "index",
       "delete", "bump", "drop", "cancel"}
Invalidating == {"bump", "drop", "cancel"}
Todos == {<<>>, <<"id">>, <<"guid">>, <<"id", "guid">>}

Locals ==
  [pc : PC, op : Ops \cup {None}, item : Item \cup {None}, at : [Side -> Nat],
   leader : Task \cup {None}, outcome : Value \cup {None, Failed}, todo : Todos,
   doomed : SUBSET Item, ordinal : Nat, quiet : BOOLEAN]

LocalOK(l) ==
  /\ l.pc \in {"lookup", "wait", "store"} => l.op \in ByIdentifier
  /\ l.pc \in {"sample", "fetch", "answered"} => l.op \in ByIdentifier \cup {"latest"}
  /\ l.op \in ByIdentifier => l.item \in Item
  /\ l.op \in ByIdentifier /\ l.outcome \in Value => l.outcome.item = l.item
  /\ l.pc = "answered" => l.outcome \in Value \cup {Failed}
  /\ l.pc = "store" => l.outcome \in Value
  /\ l.pc = "index" => /\ l.op \in {"id", "guid", "latest"}
                       /\ l.outcome \in Value /\ l.todo # <<>>
  /\ l.pc \in Invalidating => l.op \in Ops \ Reads /\ l.todo # <<>>
  /\ l.pc \notin Invalidating => l.ordinal = 0 /\ ~l.quiet
  /\ l.pc = "delete" => l.op = "delete"
  /\ l.pc = "idle" => l.op = None
  /\ l.quiet => l.op = "delete"

TypeInv ==
  /\ entries \in [Side -> [Item -> Value \cup {None}]]
  /\ generation \in [Side -> Nat]
  /\ slot \in [Side -> [Item -> Task \cup {None}]]
  /\ task \in [Task -> Locals]
  /\ registered \in BOOLEAN /\ deletions \in Nat
  /\ dropped \in [Side -> Nat] /\ returned \in Nat /\ evicted \in [Side -> SUBSET Item]
  /\ \A t \in Task : LocalOK(task[t])

\* Samples and ordinals are not ahead of what they were taken from.
CountOK(l) == l.ordinal <= deletions /\ \A s \in Side : l.at[s] <= generation[s]
CountInv ==
  /\ \A t \in Task : CountOK(task[t])
  /\ \A s \in Side : dropped[s] <= deletions
  /\ returned <= deletions

------------------------------------------------------------------------------
(***************************************************************************)
(* Deletions: a value read by subject whose generations still hold is not  *)
(* older than any deletion that has bumped them.                           *)
(***************************************************************************)
Left(todo) == {todo[i] : i \in DOMAIN todo}

\* The invalidation of call l has bumped the generation of cache s, or is
\* not going to; it has dropped what it had to from s.
Bumped(l, s) == /\ l.pc \in Invalidating
                /\ s \notin Left(l.todo) \/ (s = Head(l.todo) /\ l.pc # "bump")
Cleared(l, s) == s \notin Left(l.todo) \/ (s = Head(l.todo) /\ l.pc = "cancel")

Reading(l) == l.op = "latest" /\ l.pc \in {"answered", "index"} /\ l.outcome \in Value

ReadInv ==
  \A t \in Task, s \in Side :
    Reading(task[t]) /\ generation[s] = task[t].at[s] =>
      /\ task[t].outcome.born >= dropped[s]
      /\ \A u \in Task : Bumped(task[u], s) => task[t].outcome.born >= task[u].ordinal

\* A deletion that no lookup by identifier has met: the caches it has cleared
\* hold nothing older that names the subject.
NotOlder(v, n) == v \in Value /\ v.subject => v.born >= n

QuietInv ==
  \A u \in Task : task[u].quiet =>
    /\ \A t \in Task : task[t].op \notin ByIdentifier
    /\ \A s \in Side, x \in Item :
         Cleared(task[u], s) => NotOlder(entries[s][x], task[u].ordinal)

\* Nothing that is cached, or may still be, names the subject and is older
\* than the newest such deletion that has returned.
ReturnInv ==
  /\ \A s \in Side, x \in Item : NotOlder(entries[s][x], returned)
  /\ \A t \in Task : task[t].op \in ByIdentifier => NotOlder(task[t].outcome, returned)
  /\ \A t \in Task, s \in Side :
       Reading(task[t]) /\ generation[s] = task[t].at[s] => task[t].outcome.born >= returned

------------------------------------------------------------------------------
(***************************************************************************)
(* Fetches: who leads them, who waits for them, and what they leave.       *)
(***************************************************************************)
Looks(l, s, x) == l.op \in ByIdentifier /\ LookupSide(l.op) = s /\ l.item = x
Fetches(l, s, x) == l.pc \in {"fetch", "answered"} /\ Looks(l, s, x)
Stores(l, s, x) == l.pc = "store" /\ Looks(l, s, x)

SlotInv ==
  \A s \in Side, x \in Item : slot[s][x] # None => Fetches(task[slot[s][x]], s, x)

WaitInv ==
  \A w \in Task, s \in Side, x \in Item :
    task[w].pc = "wait" /\ Looks(task[w], s, x) =>
      /\ task[w].leader \in Task
      /\ slot[s][x] = task[w].leader \/ Stores(task[task[w].leader], s, x)

\* Schema x is in cache s, or an insertion has evicted it; the same, one step on.
HeldNow(s, x) == entries[s][x] # None \/ x \in evicted[s]
HeldNext(s, x) == entries'[s][x] # None \/ x \in evicted'[s]

\* While a cache has not been invalidated, a leader keeps its slot, and what a
\* call has had to index there is there, or has been evicted.
FillInv ==
  /\ \A s \in Side, x \in Item : entries[s][x] # None => entries[s][x].item = x
  /\ \A t \in Task : task[t].pc \in {"drop", "cancel"} => generation[Head(task[t].todo)] > 0
  /\ \A t \in Task, s \in Side, x \in Item :
       Fetches(task[t], s, x) /\ generation[s] = 0 => slot[s][x] = t
  /\ \A t \in Task, s \in Side :
       task[t].pc = "index" /\ generation[s] = 0 /\ s \notin Left(task[t].todo)
         /\ Has(task[t].outcome, s) => HeldNow(s, task[t].outcome.item)

RegInv == TypeInv /\ CountInv /\ ReadInv /\ QuietInv /\ ReturnInv /\ SlotInv /\ WaitInv /\ FillInv

------------------------------------------------------------------------------
(***************************************************************************)
(* Operators.                                                              *)
(***************************************************************************)
LEMMA TodoFacts ==
  /\ Left(<<>>) = {} /\ Left(<<"id">>) = {"id"} /\ Left(<<"guid">>) = {"guid"}
  /\ Left(<<"id", "guid">>) = Side
  /\ \A todo \in Todos \ {<<>>} :
       /\ Head(todo) \in Side /\ Head(todo) \in Left(todo)
       /\ Len(todo) = 1 => Left(todo) = {Head(todo)}
       /\ Len(todo) # 1 => /\ Tail(todo) \in Todos \ {<<>>}
                           /\ Left(Tail(todo)) = Left(todo) \ {Head(todo)}
<1>1. /\ Left(<<>>) = {} /\ Left(<<"id">>) = {"id"} /\ Left(<<"guid">>) = {"guid"}
      /\ Left(<<"id", "guid">>) = {"id", "guid"}
  BY DEF Left
<1>2. ASSUME NEW todo \in Todos \ {<<>>}
      PROVE  /\ Head(todo) \in Side /\ Head(todo) \in Left(todo)
             /\ Len(todo) = 1 => Left(todo) = {Head(todo)}
             /\ Len(todo) # 1 => /\ Tail(todo) \in Todos \ {<<>>}
                                 /\ Left(Tail(todo)) = Left(todo) \ {Head(todo)}
  <2>1. CASE todo = <<"id">>
    BY <2>1, <1>1 DEF Side
  <2>2. CASE todo = <<"guid">>
    BY <2>2, <1>1 DEF Side
  <2>3. CASE todo = <<"id", "guid">>
    <3>1. Head(todo) = "id" /\ Len(todo) = 2 /\ Tail(todo) = <<"guid">>
      BY <2>3
    <3>2. QED
      BY <2>3, <3>1, <1>1 DEF Side, Todos
  <2>4. QED
    BY <2>1, <2>2, <2>3 DEF Todos
<1>3. QED
  BY <1>1, <1>2 DEF Side

LEMMA Constants ==
  /\ Idle \in Locals /\ LocalOK(Idle) /\ Idle.pc = "idle" /\ Idle.op = None
  /\ Idle.outcome = None /\ Idle.ordinal = 0 /\ Idle.quiet = FALSE /\ Idle.todo = <<>>
  /\ Idle.at = [s \in Side |-> 0] /\ Idle.item = None /\ Idle.doomed = {} /\ Idle.leader = None
  /\ None \notin ByIdentifier /\ None # "latest" /\ None \notin Item /\ None \notin Task
  /\ None \notin Value /\ Failed \notin Value /\ Failed # None
  /\ "latest" \notin ByIdentifier /\ ByIdentifier \subseteq Ops
<1>1. /\ None \notin ByIdentifier /\ None # "latest" /\ None \notin Item /\ None \notin Task
      /\ "latest" \notin ByIdentifier /\ ByIdentifier \subseteq Ops
  BY RegistryAssumption DEF ByIdentifier, Ops, Reads
<1>2. Idle \in Locals
  BY DEF Idle, Locals, PC, Todos
<1>3. QED
  BY <1>1, <1>2, ValueAssumption DEF Idle, LocalOK, Invalidating

LEMMA LookupSides == \A op : LookupSide(op) \in Side
  BY DEF LookupSide, Side

\* What a call is once it has a value.
LEMMA IndexingIs ==
  ASSUME NEW l \in Locals, NEW v \in Value, l.op \in ByIdentifier \cup {"latest"},
         l.op \in ByIdentifier => l.item \in Item /\ v.item = l.item,
         l.ordinal = 0, ~l.quiet
  PROVE  /\ Indexing(l, v) \in Locals /\ LocalOK(Indexing(l, v))
         /\ l.op = "warm" => Indexing(l, v) = Idle
         /\ l.op # "warm" =>
              /\ Indexing(l, v).pc = "index" /\ Indexing(l, v).op = l.op
              /\ Indexing(l, v).item = l.item /\ Indexing(l, v).at = l.at
              /\ Indexing(l, v).outcome = v
              /\ Indexing(l, v).ordinal = 0 /\ Indexing(l, v).quiet = FALSE
              /\ Side \ Left(Indexing(l, v).todo)
                   = IF l.op = "latest" THEN {} ELSE {LookupSide(l.op)}
<1>1. CASE l.op = "warm"
  BY <1>1, Constants DEF Indexing, IndexSides
<1>2. CASE l.op # "warm"
  <2>0. l.op \in {"id", "guid", "latest"}
    BY <1>2 DEF ByIdentifier
  <2>1. PICK todo \in Todos \ {<<>>} : todo = IndexSides(l.op)
    BY <2>0 DEF IndexSides, Todos
  <2>2. Indexing(l, v) = [l EXCEPT !.pc = "index", !.outcome = v, !.todo = todo]
    BY <2>1 DEF Indexing
  <2>3. Side \ Left(todo) = IF l.op = "latest" THEN {} ELSE {LookupSide(l.op)}
    BY <2>0, <2>1, TodoFacts DEF IndexSides, LookupSide, Side
  <2> DEFINE k == Indexing(l, v)
  <2>4. /\ k.pc = "index" /\ k.op = l.op /\ k.item = l.item /\ k.at = l.at
        /\ k.outcome = v /\ k.todo = todo /\ k.ordinal = 0 /\ k.quiet = FALSE
        /\ k \in Locals
    BY <2>2 DEF Locals, PC
  <2> HIDE DEF k
  <2>5. LocalOK(k)
    BY <2>0, <2>4 DEF LocalOK, Invalidating, ByIdentifier
  <2>6. QED
    BY <1>2, <2>3, <2>4, <2>5 DEF k
<1>3. QED
  BY <1>1, <1>2

------------------------------------------------------------------------------
(***************************************************************************)
(* Each part of the invariant, for a step described by what it does to it. *)
(***************************************************************************)
\* The locals a are those of b, but for the history of a deletion's quiet.
SameCall(a, b) ==
  /\ a.pc = b.pc /\ a.op = b.op /\ a.item = b.item /\ a.at = b.at /\ a.leader = b.leader
  /\ a.outcome = b.outcome /\ a.todo = b.todo /\ a.ordinal = b.ordinal
  /\ a.quiet => b.quiet

\* What happens to the others in a step: nothing, or their fetch is over.
Others(t) ==
  \A u \in Task \ {t} : /\ task'[u] \in Locals
                        /\ \/ SameCall(task'[u], task[u])
                           \/ task[u].pc = "wait" /\ task'[u] = Idle

LEMMA OthersTypes ==
  ASSUME TypeInv, NEW t \in Task, Others(t), DOMAIN task' = Task,
         task' = [u \in Task |-> task'[u]], task'[t] \in Locals, LocalOK(task'[t])
  PROVE  task' \in [Task -> Locals] /\ \A u \in Task : LocalOK(task'[u])
<1>1. \A u \in Task : task'[u] \in Locals
  BY DEF Others
<1>2. ASSUME NEW u \in Task PROVE LocalOK(task'[u])
  <2>1. CASE u = t
    BY <2>1
  <2>2. CASE u # t /\ task'[u] = Idle
    BY <2>2, Constants
  <2>3. CASE u # t /\ SameCall(task'[u], task[u])
    <3>1. LocalOK(task[u])
      BY DEF TypeInv
    <3>2. QED
      BY <2>3, <3>1 DEF LocalOK, SameCall
  <2>4. QED
    BY <2>1, <2>2, <2>3 DEF Others
<1>3. QED
  BY <1>1, <1>2

LEMMA ReadStays ==
  ASSUME RegInv, TypeInv', CountInv',
         \A s \in Side : generation'[s] >= generation[s],
         \A t \in Task : Reading(task'[t]) =>
           \/ Reading(task[t]) /\ task'[t].at = task[t].at /\ task'[t].outcome = task[t].outcome
           \/ task'[t].outcome.born = deletions',
         \A u \in Task, s \in Side : Bumped(task'[u], s) =>
           \/ Bumped(task[u], s) /\ task'[u].ordinal = task[u].ordinal
           \/ generation'[s] > generation[s]
           \/ task'[u].ordinal = 0,
         \A s \in Side : \/ dropped'[s] = dropped[s]
                         \/ \E u \in Task : Bumped(task[u], s) /\ dropped'[s] = task[u].ordinal
  PROVE  ReadInv'
<1> DEFINE Old(t, s) == /\ task'[t].outcome.born >= dropped'[s]
                        /\ \A u \in Task : Bumped(task'[u], s) =>
                             task'[t].outcome.born >= task'[u].ordinal
<1>1. ASSUME NEW t \in Task, NEW s \in Side, Reading(task'[t]), generation'[s] = task'[t].at[s]
      PROVE  Old(t, s)
  <2>t. /\ task'[t].outcome \in Value /\ task'[t].outcome.born \in Nat
        /\ generation \in [Side -> Nat] /\ generation' \in [Side -> Nat]
        /\ dropped'[s] \in Nat /\ deletions' \in Nat
        /\ \A u \in Task : task'[u].ordinal \in Nat /\ task[t].at[s] \in Nat
    BY <1>1 DEF RegInv, TypeInv, Locals, Value, Reading
  <2>c. /\ dropped'[s] <= deletions' /\ \A u \in Task : task'[u].ordinal <= deletions'
        /\ task[t].at[s] <= generation[s]
    BY DEF RegInv, CountInv, CountOK
  <2>1. CASE task'[t].outcome.born = deletions'
    BY <2>1, <2>c
  <2>2. CASE Reading(task[t]) /\ task'[t].at = task[t].at /\ task'[t].outcome = task[t].outcome
    <3>1. generation'[s] = generation[s] /\ generation[s] = task[t].at[s]
      BY <1>1, <2>2, <2>t, <2>c
    <3>2. /\ task'[t].outcome.born >= dropped[s]
          /\ \A u \in Task : Bumped(task[u], s) => task'[t].outcome.born >= task[u].ordinal
      BY <2>2, <3>1 DEF RegInv, ReadInv
    <3>3. ASSUME NEW u \in Task, Bumped(task'[u], s)
          PROVE  task'[t].outcome.born >= task'[u].ordinal
      BY <3>1, <3>2, <3>3, <2>t
    <3>4. task'[t].outcome.born >= dropped'[s]
      BY <3>2
    <3>5. QED
      BY <3>3, <3>4
  <2>3. QED
    BY <1>1, <2>1, <2>2
<1>2. QED
  BY <1>1 DEF ReadInv, Reading, Bumped

LEMMA QuietStays ==
  ASSUME RegInv,
         \A u \in Task : task'[u].quiet =>
           \/ /\ task[u].quiet /\ task'[u].ordinal = task[u].ordinal
              /\ \A v \in Task : task'[v].op \in ByIdentifier => task[v].op \in ByIdentifier
              /\ \A s \in Side, x \in Item : Cleared(task'[u], s) =>
                   \/ Cleared(task[u], s) /\ entries'[s][x] \in {None, entries[s][x]}
                   \/ NotOlder(entries'[s][x], task[u].ordinal)
           \/ /\ \A v \in Task : task'[v].op \notin ByIdentifier
              /\ \A s \in Side : ~Cleared(task'[u], s)
  PROVE  QuietInv'
<1>1. ASSUME NEW u \in Task, task'[u].quiet
      PROVE  /\ \A v \in Task : task'[v].op \notin ByIdentifier
             /\ \A s \in Side, x \in Item :
                  Cleared(task'[u], s) => NotOlder(entries'[s][x], task'[u].ordinal)
  <2>1. CASE /\ \A v \in Task : task'[v].op \notin ByIdentifier
             /\ \A s \in Side : ~Cleared(task'[u], s)
    BY <2>1
  <2>2. CASE /\ task[u].quiet /\ task'[u].ordinal = task[u].ordinal
             /\ \A v \in Task : task'[v].op \in ByIdentifier => task[v].op \in ByIdentifier
             /\ \A s \in Side, x \in Item : Cleared(task'[u], s) =>
                   \/ Cleared(task[u], s) /\ entries'[s][x] \in {None, entries[s][x]}
                   \/ NotOlder(entries'[s][x], task[u].ordinal)
    <3>1. /\ \A v \in Task : task[v].op \notin ByIdentifier
          /\ \A s \in Side, x \in Item :
               Cleared(task[u], s) => NotOlder(entries[s][x], task[u].ordinal)
      BY <2>2 DEF RegInv, QuietInv
    <3>2. NotOlder(None, task[u].ordinal)
      BY Constants DEF NotOlder
    <3>3. QED
      BY <2>2, <3>1, <3>2
  <2>3. QED
    BY <1>1, <2>1, <2>2
<1>2. QED
  BY <1>1 DEF QuietInv, Cleared, NotOlder

\* The return of a deletion aside.
LEMMA ReturnStays ==
  ASSUME RegInv, TypeInv', CountInv', returned' = returned,
         \A s \in Side : generation'[s] >= generation[s],
         \A s \in Side, x \in Item : \/ entries'[s][x] \in {None, entries[s][x]}
                                     \/ NotOlder(entries'[s][x], returned),
         \A t \in Task : task'[t].op \in ByIdentifier => NotOlder(task'[t].outcome, returned),
         \A t \in Task : Reading(task'[t]) =>
           \/ Reading(task[t]) /\ task'[t].at = task[t].at /\ task'[t].outcome = task[t].outcome
           \/ task'[t].outcome.born = deletions'
  PROVE  ReturnInv'
<1>1. \A s \in Side, x \in Item : NotOlder(entries'[s][x], returned')
  <2>1. NotOlder(None, returned)
    BY Constants DEF NotOlder
  <2>2. QED
    BY <2>1 DEF RegInv, ReturnInv
<1>2. ASSUME NEW t \in Task, NEW s \in Side, Reading(task'[t]), generation'[s] = task'[t].at[s]
      PROVE  task'[t].outcome.born >= returned'
  <2>1. CASE task'[t].outcome.born = deletions'
    BY <2>1 DEF CountInv
  <2>2. CASE Reading(task[t]) /\ task'[t].at = task[t].at /\ task'[t].outcome = task[t].outcome
    <3>1. /\ generation'[s] \in Nat /\ generation[s] \in Nat /\ task[t].at[s] \in Nat
          /\ task[t].at[s] <= generation[s]
      BY DEF RegInv, TypeInv, CountInv, CountOK, Locals
    <3>2. generation[s] = task[t].at[s]
      BY <1>2, <2>2, <3>1
    <3>3. QED
      BY <2>2, <3>2 DEF RegInv, ReturnInv
  <2>3. QED
    BY <1>2, <2>1, <2>2
<1>3. QED
  BY <1>1, <1>2 DEF ReturnInv, NotOlder, Reading

\* For the others, a step keeps their calls or ends their waiting.
KeepsOrWakes(t) ==
  \A u \in Task \ {t} : \/ SameCall(task'[u], task[u])
                        \/ task[u].pc = "wait" /\ task'[u].pc \in {"idle", "index"}

\* What a step of t may do to the slots: leave one, take a free one, or clear
\* its own or one that is being invalidated, together with its waiters.
SlotMoves(t) ==
  \A s \in Side, x \in Item :
    \/ slot'[s][x] = slot[s][x] /\ (slot[s][x] = t => Fetches(task'[t], s, x))
    \/ slot[s][x] = None /\ slot'[s][x] = t /\ Fetches(task'[t], s, x)
    \/ /\ slot'[s][x] = None /\ (slot[s][x] = t \/ generation[s] > 0)
       /\ \A w \in Task \ {t} :
            task[w].pc = "wait" /\ task[w].leader = slot[s][x] /\ slot[s][x] # None =>
              \/ task'[w].pc # "wait"
              \/ slot[s][x] = t /\ Stores(task'[t], s, x)

LEMMA SlotStays ==
  ASSUME RegInv, NEW t \in Task, KeepsOrWakes(t), SlotMoves(t)
  PROVE  SlotInv'
<1>1. ASSUME NEW s \in Side, NEW x \in Item, slot'[s][x] # None
      PROVE  Fetches(task'[slot'[s][x]], s, x)
  <2>1. CASE slot'[s][x] = t
    BY <1>1, <2>1, Constants DEF SlotMoves
  <2>2. CASE slot'[s][x] # t
    <3>1. slot'[s][x] = slot[s][x]
      BY <1>1, <2>2 DEF SlotMoves
    <3>2. PICK u \in Task : u = slot[s][x]
      BY <1>1, <3>1 DEF RegInv, TypeInv
    <3>3. Fetches(task[u], s, x)
      BY <1>1, <3>1, <3>2 DEF RegInv, SlotInv
    <3>4. SameCall(task'[u], task[u])
      BY <2>2, <3>1, <3>2, <3>3 DEF KeepsOrWakes, Fetches
    <3>5. QED
      BY <3>1, <3>2, <3>3, <3>4 DEF Fetches, Looks, SameCall
  <2>3. QED
    BY <2>1, <2>2
<1>2. QED
  BY <1>1 DEF SlotInv, Fetches, Looks

LEMMA WaitStays ==
  ASSUME RegInv, NEW t \in Task, KeepsOrWakes(t), SlotMoves(t),
         \A s \in Side, x \in Item : task'[t].pc = "wait" /\ Looks(task'[t], s, x) =>
           /\ task'[t].leader \in Task
           /\ slot'[s][x] = task'[t].leader \/ Stores(task'[task'[t].leader], s, x),
         task[t].pc = "store" => \A w \in Task \ {t} : task'[w].pc = "wait" => task'[w].leader # t
  PROVE  WaitInv'
<1>1. ASSUME NEW w \in Task, NEW s \in Side, NEW x \in Item,
             task'[w].pc = "wait", Looks(task'[w], s, x)
      PROVE  /\ task'[w].leader \in Task
             /\ slot'[s][x] = task'[w].leader \/ Stores(task'[task'[w].leader], s, x)
  <2>1. CASE w = t
    BY <1>1, <2>1
  <2>2. CASE w # t
    <3>1. SameCall(task'[w], task[w])
      BY <1>1, <2>2 DEF KeepsOrWakes
    <3>2. task[w].pc = "wait" /\ Looks(task[w], s, x) /\ task'[w].leader = task[w].leader
      BY <1>1, <3>1 DEF SameCall, Looks
    <3>3. PICK u \in Task : u = task[w].leader
      BY <3>2 DEF RegInv, WaitInv
    <3>4. u # None
      BY Constants
    <3>5. CASE slot[s][x] = u
      BY <1>1, <2>2, <3>2, <3>3, <3>4, <3>5 DEF SlotMoves
    <3>6. CASE Stores(task[u], s, x)
      <4>1. u # t
        BY <1>1, <2>2, <3>2, <3>3, <3>6 DEF Stores
      <4>2. SameCall(task'[u], task[u])
        BY <3>6, <4>1 DEF KeepsOrWakes, Stores
      <4>3. QED
        BY <3>2, <3>3, <3>6, <4>2 DEF Stores, Looks, SameCall
    <3>7. QED
      BY <3>2, <3>3, <3>5, <3>6 DEF RegInv, WaitInv
  <2>3. QED
    BY <2>1, <2>2
<1>2. QED
  BY <1>1 DEF WaitInv, Looks, Stores

LEMMA FillStays ==
  ASSUME RegInv, TypeInv', NEW t \in Task, KeepsOrWakes(t), SlotMoves(t),
         \A s \in Side : generation'[s] >= generation[s],
         \A s \in Side, x \in Item : \/ entries'[s][x] \in {None, entries[s][x]}
                                     \/ entries'[s][x].item = x,
         \A s \in Side, x \in Item :
           HeldNow(s, x) => HeldNext(s, x) \/ generation'[s] > 0,
         task'[t].pc \in {"drop", "cancel"} => generation'[Head(task'[t].todo)] > 0,
         \A s \in Side, x \in Item :
           Fetches(task'[t], s, x) /\ generation'[s] = 0 => slot'[s][x] = t,
         \A u \in Task, s \in Side :
           task'[u].pc = "index" /\ generation'[s] = 0 /\ s \notin Left(task'[u].todo)
             /\ Has(task'[u].outcome, s) =>
             \/ /\ task[u].pc = "index" /\ task'[u].outcome = task[u].outcome
                /\ s \notin Left(task[u].todo)
             \/ HeldNext(s, task'[u].outcome.item)
  PROVE  FillInv'
<1>g. /\ \A s \in Side : generation[s] \in Nat /\ generation'[s] \in Nat
      /\ \A s \in Side : generation'[s] = 0 => /\ generation[s] = 0 /\ ~(generation[s] > 0)
                                               /\ ~(generation'[s] > 0)
  <2>1. \A s \in Side : generation[s] \in Nat /\ generation'[s] \in Nat
    BY DEF RegInv, TypeInv
  <2>2. QED
    BY <2>1
<1>1. \A s \in Side, x \in Item : entries'[s][x] # None => entries'[s][x].item = x
  BY DEF RegInv, FillInv
<1>2. ASSUME NEW u \in Task, task'[u].pc \in {"drop", "cancel"}
      PROVE  generation'[Head(task'[u].todo)] > 0
  <2>1. CASE u = t
    BY <1>2, <2>1
  <2>2. CASE u # t
    <3>1. SameCall(task'[u], task[u])
      BY <1>2, <2>2 DEF KeepsOrWakes
    <3>2. task[u].pc \in {"drop", "cancel"} /\ task'[u].todo = task[u].todo
      BY <1>2, <3>1 DEF SameCall
    <3>3. Head(task[u].todo) \in Side
      BY <3>2, TodoFacts DEF RegInv, TypeInv, LocalOK, Invalidating, Locals
    <3>4. generation[Head(task[u].todo)] > 0
      BY <3>2 DEF RegInv, FillInv
    <3>5. QED
      BY <1>g, <3>2, <3>3, <3>4
  <2>3. QED
    BY <2>1, <2>2
<1>3. ASSUME NEW u \in Task, NEW s \in Side, NEW x \in Item,
             Fetches(task'[u], s, x), generation'[s] = 0
      PROVE  slot'[s][x] = u
  <2>1. CASE u = t
    BY <1>3, <2>1
  <2>2. CASE u # t
    <3>1. SameCall(task'[u], task[u])
      BY <1>3, <2>2 DEF KeepsOrWakes, Fetches
    <3>2. Fetches(task[u], s, x)
      BY <1>3, <3>1 DEF SameCall, Fetches, Looks
    <3>3. slot[s][x] = u /\ ~(generation[s] > 0)
      BY <1>g, <1>3, <3>2 DEF RegInv, FillInv
    <3>4. u # None
      BY Constants
    <3>5. QED
      BY <2>2, <3>3, <3>4 DEF SlotMoves
  <2>3. QED
    BY <2>1, <2>2
<1>4. ASSUME NEW u \in Task, NEW s \in Side,
             task'[u].pc = "index", generation'[s] = 0, s \notin Left(task'[u].todo),
             Has(task'[u].outcome, s)
      PROVE  HeldNext(s, task'[u].outcome.item)
  <2>1. CASE /\ task[u].pc = "index" /\ task'[u].outcome = task[u].outcome
             /\ s \notin Left(task[u].todo)
    <3>1. task[u].outcome.item \in Item
      BY <2>1 DEF RegInv, TypeInv, LocalOK, Value
    <3>2. HeldNow(s, task[u].outcome.item) /\ ~(generation'[s] > 0)
      BY <1>g, <1>4, <2>1 DEF RegInv, FillInv
    <3>3. QED
      BY <2>1, <3>1, <3>2
  <2>2. QED
    BY <1>4, <2>1
<1>5. QED
  BY <1>1, <1>2, <1>3, <1>4 DEF FillInv, Fetches, Looks, Has, HeldNow, HeldNext

------------------------------------------------------------------------------
(***************************************************************************)
(* Steps that change neither the entries nor any counter.                  *)
(***************************************************************************)
Only(t) == task' = [u \in Task |-> task'[u]] /\ DOMAIN task' = Task

\* The calls of the others in such a step.
LEMMA OthersKeep ==
  ASSUME NEW t \in Task, Others(t)
  PROVE  /\ KeepsOrWakes(t)
         /\ \A u \in Task \ {t} :
              /\ task'[u].quiet => SameCall(task'[u], task[u])
              /\ \/ SameCall(task'[u], task[u])
                 \/ /\ task'[u].pc = "idle" /\ task'[u].op = None
                    /\ task'[u].ordinal = 0 /\ ~task'[u].quiet
                    /\ task'[u].at = [s \in Side |-> 0]
  BY Constants DEF Others, KeepsOrWakes

LEMMA CountStays ==
  ASSUME RegInv, NEW t \in Task, Others(t), CountOK(task[t])',
         \A s \in Side : generation'[s] \in Nat /\ generation'[s] >= generation[s],
         deletions' \in Nat, deletions' >= deletions,
         \A s \in Side : dropped'[s] <= deletions', returned' <= deletions'
  PROVE  CountInv'
<1>t. /\ \A s \in Side : generation[s] \in Nat /\ \A u \in Task : task[u].at[s] \in Nat
      /\ deletions \in Nat /\ \A u \in Task : task[u].ordinal \in Nat
  BY DEF RegInv, TypeInv, Locals
<1>1. ASSUME NEW u \in Task \ {t}
      PROVE  task'[u].ordinal <= deletions' /\ \A s \in Side : task'[u].at[s] <= generation'[s]
  <2>1. CASE SameCall(task'[u], task[u])
    <3>1. CountOK(task[u]) /\ task'[u].ordinal = task[u].ordinal /\ task'[u].at = task[u].at
      BY <2>1 DEF RegInv, CountInv, SameCall
    <3>2. QED
      BY <1>t, <3>1 DEF CountOK
  <2>2. CASE task'[u].ordinal = 0 /\ task'[u].at = [s \in Side |-> 0]
    BY <2>2
  <2>3. QED
    BY <2>1, <2>2, OthersKeep
<1>2. QED
  BY <1>1 DEF CountInv, CountOK

\* A step that is not one of a deletion's invalidation.
LEMMA CallStep ==
  ASSUME RegInv, NEW t \in Task, Others(t), Only(t),
         UNCHANGED <<entries, generation, registry, history>>,
         slot' \in [Side -> [Item -> Task \cup {None}]], SlotMoves(t),
         task[t].pc # "store",
         task'[t] \in Locals, LocalOK(task'[t]), CountOK(task[t])',
         task'[t].pc \notin {"drop", "cancel"}, task'[t].ordinal = 0, ~task'[t].quiet,
         Reading(task'[t]) =>
           \/ Reading(task[t]) /\ task'[t].at = task[t].at /\ task'[t].outcome = task[t].outcome
           \/ task'[t].outcome.born = deletions,
         task'[t].op \in ByIdentifier =>
           /\ NotOlder(task'[t].outcome, returned)
           /\ task[t].op \in ByIdentifier \/ \A u \in Task : ~task'[u].quiet,
         \A s \in Side, x \in Item : task'[t].pc = "wait" /\ Looks(task'[t], s, x) =>
           /\ task'[t].leader \in Task
           /\ slot'[s][x] = task'[t].leader \/ Stores(task'[task'[t].leader], s, x),
         \A s \in Side, x \in Item :
           Fetches(task'[t], s, x) /\ generation[s] = 0 => slot'[s][x] = t,
         \A s \in Side : task'[t].pc = "index" /\ s \notin Left(task'[t].todo) /\ generation[s] = 0
           => HeldNow(s, task'[t].outcome.item)
  PROVE  RegInv'
<1>0. TypeInv /\ UNCHANGED <<entries, generation, registered, deletions, dropped, returned, evicted>>
  BY DEF RegInv, registry, history
<1>1. TypeInv'
  <2>1. task' \in [Task -> Locals] /\ \A u \in Task : LocalOK(task'[u])
    BY <1>0, OthersTypes DEF Only
  <2>2. QED
    BY <1>0, <2>1 DEF TypeInv, LocalOK
<1>g. \A s \in Side : generation[s] \in Nat /\ generation'[s] >= generation[s]
  BY <1>0 DEF TypeInv
<1>k. /\ KeepsOrWakes(t)
      /\ \A u \in Task \ {t} :
              /\ task'[u].quiet => SameCall(task'[u], task[u])
              /\ \/ SameCall(task'[u], task[u])
                 \/ /\ task'[u].pc = "idle" /\ task'[u].op = None
                    /\ task'[u].ordinal = 0 /\ ~task'[u].quiet
  BY OthersKeep
<1>n. None \notin ByIdentifier /\ None # "latest"
  BY Constants
<1>2. CountInv'
  <2>1. deletions \in Nat /\ \A s \in Side : dropped[s] <= deletions
    BY DEF RegInv, TypeInv, CountInv
  <2>2. returned <= deletions
    BY DEF RegInv, CountInv
  <2>3. QED
    BY <1>0, <1>g, <2>1, <2>2, CountStays
<1>3. \A u \in Task : Reading(task'[u]) =>
           \/ Reading(task[u]) /\ task'[u].at = task[u].at /\ task'[u].outcome = task[u].outcome
           \/ task'[u].outcome.born = deletions'
  <2>1. ASSUME NEW u \in Task \ {t}, Reading(task'[u])
        PROVE  Reading(task[u]) /\ task'[u].at = task[u].at /\ task'[u].outcome = task[u].outcome
    BY <2>1, <1>k, <1>n DEF Reading, SameCall
  <2>2. QED
    BY <1>0, <2>1
<1>4. ReadInv'
  <2>1. \A u \in Task, s \in Side : Bumped(task'[u], s) =>
           \/ Bumped(task[u], s) /\ task'[u].ordinal = task[u].ordinal
           \/ task'[u].ordinal = 0
    <3>1. ASSUME NEW u \in Task \ {t}, NEW s \in Side, Bumped(task'[u], s)
          PROVE  \/ Bumped(task[u], s) /\ task'[u].ordinal = task[u].ordinal
                 \/ task'[u].ordinal = 0
      BY <3>1, <1>k DEF Bumped, SameCall
    <3>2. QED
      BY <3>1
  <2>2. QED
    BY <1>0, <1>1, <1>2, <1>3, <1>g, <2>1, ReadStays
<1>5. QuietInv'
  <2>1. ASSUME NEW u \in Task, task'[u].quiet
        PROVE  /\ task[u].quiet /\ task'[u].ordinal = task[u].ordinal
               /\ \A v \in Task : task'[v].op \in ByIdentifier => task[v].op \in ByIdentifier
               /\ \A s \in Side : Cleared(task'[u], s) => Cleared(task[u], s)
    <3>1. u # t /\ SameCall(task'[u], task[u])
      BY <2>1, <1>k
    <3>2. \A v \in Task \ {t} : task'[v].op \in ByIdentifier => task[v].op \in ByIdentifier
      BY <1>k, <1>n DEF SameCall
    <3>3. QED
      BY <2>1, <3>1, <3>2 DEF SameCall, Cleared
  <2>2. QED
    BY <1>0, <2>1, QuietStays
<1>6. ReturnInv'
  <2>1. ASSUME NEW u \in Task, task'[u].op \in ByIdentifier
        PROVE  NotOlder(task'[u].outcome, returned)
    BY <2>1, <1>k, <1>n DEF SameCall, RegInv, ReturnInv
  <2>2. QED
    BY <1>0, <1>1, <1>2, <1>3, <1>g, <2>1, ReturnStays
<1>7. SlotInv' /\ WaitInv'
  BY <1>k, SlotStays, WaitStays
<1>8. FillInv'
  <2>1. \A u \in Task, s \in Side :
           task'[u].pc = "index" /\ generation'[s] = 0 /\ s \notin Left(task'[u].todo) =>
             \/ /\ task[u].pc = "index" /\ task'[u].outcome = task[u].outcome
                /\ s \notin Left(task[u].todo)
             \/ HeldNext(s, task'[u].outcome.item)
    <3>1. ASSUME NEW u \in Task \ {t}, task'[u].pc = "index"
          PROVE  /\ task[u].pc = "index" /\ task'[u].outcome = task[u].outcome
                 /\ task'[u].todo = task[u].todo
      BY <3>1, <1>k DEF SameCall
    <3>2. QED
      BY <3>1, <1>0 DEF HeldNow, HeldNext
  <2>2. \A s \in Side, x \in Item : HeldNow(s, x) => HeldNext(s, x)
    BY <1>0 DEF HeldNow, HeldNext
  <2>3. QED
    BY <1>0, <1>1, <1>g, <1>k, <2>1, <2>2, FillStays
<1>9. QED
  BY <1>1, <1>2, <1>4, <1>5, <1>6, <1>7, <1>8 DEF RegInv

LEMMA StateFacts ==
  ASSUME RegInv, NEW t \in Task
  PROVE  /\ task \in [Task -> Locals] /\ task[t] \in Locals /\ LocalOK(task[t]) /\ CountOK(task[t])
         /\ entries \in [Side -> [Item -> Value \cup {None}]] /\ generation \in [Side -> Nat]
         /\ slot \in [Side -> [Item -> Task \cup {None}]] /\ deletions \in Nat
         /\ \A s \in Side, x \in Item : slot[s][x] = t => Fetches(task[t], s, x)
         /\ task[t].op \in ByIdentifier => NotOlder(task[t].outcome, returned)
         /\ \A s \in Side, x \in Item : NotOlder(entries[s][x], returned)
<1>1. t # None
  BY Constants
<1>2. QED
  BY <1>1 DEF RegInv, TypeInv, CountInv, SlotInv, ReturnInv

\* A step of t alone.
LEMMA OneTask ==
  ASSUME RegInv, NEW t \in Task, NEW l \in Locals, task' = [task EXCEPT ![t] = l]
  PROVE  Others(t) /\ Only(t) /\ task'[t] = l
  BY StateFacts DEF Others, Only, SameCall, RegInv, TypeInv

\* A lookup that begins.
LEMMA StartsOne ==
  ASSUME RegInv, NEW t \in Task, NEW l \in Locals, Starts(t, l)
  PROVE  /\ Others(t) /\ Only(t) /\ task'[t] = l
         /\ l.op \in ByIdentifier => \A u \in Task \ {t} : ~task'[u].quiet
<1>1. ASSUME NEW u \in Task \ {t}
      PROVE  /\ task'[u] \in Locals /\ SameCall(task'[u], task[u])
             /\ l.op \in ByIdentifier => ~task'[u].quiet
  <2>1. task[u] \in Locals
    BY StateFacts
  <2>2. PICK b \in BOOLEAN : b = (task[u].quiet /\ l.op \notin ByIdentifier)
    OBVIOUS
  <2>3. task'[u] = [task[u] EXCEPT !.quiet = b]
    BY <2>2 DEF Starts
  <2>4. QED
    BY <2>1, <2>2, <2>3 DEF Locals, SameCall
<1>2. QED
  BY <1>1 DEF Starts, Others, Only

LEMMA SlotsKept ==
  ASSUME RegInv, NEW t \in Task, slot' = slot,
         \/ task[t].pc \notin {"fetch", "answered"} \/ task[t].op \notin ByIdentifier
         \/ /\ task'[t].pc \in {"fetch", "answered"} /\ task'[t].op = task[t].op
            /\ task'[t].item = task[t].item
  PROVE  SlotMoves(t) /\ slot' \in [Side -> [Item -> Task \cup {None}]]
<1>1. \A s \in Side, x \in Item : slot[s][x] = t => Fetches(task'[t], s, x)
  BY StateFacts DEF Fetches, Looks
<1>2. QED
  BY <1>1, StateFacts DEF SlotMoves

LEMMA SampleIdStep ==
  ASSUME RegInv, NEW t \in Task, NEW op, NEW x \in Item \cup {None}, SampleId(t, op, x)
  PROVE  RegInv'
<1>t. /\ task[t].pc = "idle" /\ op \in {"id", "guid", "latest"}
      /\ x = None <=> op = "latest"
      /\ UNCHANGED <<entries, generation, registry, history>> /\ slot' = slot
      /\ generation \in [Side -> Nat]
  BY StateFacts DEF SampleId
<1> DEFINE l == [Idle EXCEPT !.pc = "sample", !.op = op, !.item = x,
                             !.at["id"] = generation["id"]]
<1>1. /\ l \in Locals /\ l.pc = "sample" /\ l.op = op /\ l.item = x
      /\ l.at["id"] = generation["id"] /\ l.at["guid"] = 0
      /\ l.outcome = None /\ l.ordinal = 0 /\ l.quiet = FALSE
  <2> DEFINE at == [Idle.at EXCEPT !["id"] = generation["id"]]
  <2>1. at \in [Side -> Nat] /\ at["id"] = generation["id"] /\ at["guid"] = 0
    <3>1. "id" \in Side /\ "guid" \in Side /\ "id" # "guid"
      BY DEF Side
    <3>2. Idle.at \in [Side -> Nat] /\ Idle.at["guid"] = 0
      BY <3>1, Constants
    <3>3. QED
      BY <1>t, <3>1, <3>2
  <2>2. l = [Idle EXCEPT !.pc = "sample", !.op = op, !.item = x, !.at = at]
    OBVIOUS
  <2> HIDE DEF l, at
  <2>3. op \in Ops
    BY <1>t DEF Ops, Reads
  <2>4. QED
    BY <2>1, <2>2, <2>3, Constants DEF Locals, PC
<1>2. Starts(t, l)
  BY DEF SampleId
<1> HIDE DEF l
<1>3. /\ Others(t) /\ Only(t) /\ task'[t] = l
      /\ l.op \in ByIdentifier => \A u \in Task \ {t} : ~task'[u].quiet
  BY <1>1, <1>2, StartsOne
<1>4. LocalOK(l)
  BY <1>t, <1>1, Constants DEF LocalOK, Invalidating, ByIdentifier
<1>5. CountOK(task[t])'
  BY <1>t, <1>1, <1>3, StateFacts DEF CountOK, Side, registry
<1>6. SlotMoves(t) /\ slot' \in [Side -> [Item -> Task \cup {None}]]
  BY <1>t, SlotsKept
<1>7. ~Reading(l) /\ NotOlder(l.outcome, returned)
  BY <1>1, Constants DEF Reading, NotOlder
<1>8. \A s \in Side, y \in Item : ~Fetches(l, s, y)
  BY <1>1 DEF Fetches
<1>9. QED
  BY <1>t, <1>1, <1>3, <1>4, <1>5, <1>6, <1>7, <1>8, CallStep

LEMMA WarmStep ==
  ASSUME RegInv, NEW t \in Task, NEW x \in Item, Warm(t, x)
  PROVE  RegInv'
<1>t. /\ task[t].pc = "idle" /\ slot' = slot /\ generation \in [Side -> Nat]
      /\ UNCHANGED <<entries, generation, registry, history>>
  BY StateFacts DEF Warm
<1> DEFINE l == [Idle EXCEPT !.pc = "lookup", !.op = "warm", !.item = x]
<1>1. /\ l \in Locals /\ l.pc = "lookup" /\ l.op = "warm" /\ l.item = x
      /\ l.at = [s \in Side |-> 0]
      /\ l.outcome = None /\ l.ordinal = 0 /\ l.quiet = FALSE
  BY Constants DEF Locals, PC, Ops, Reads
<1>2. Starts(t, l)
  BY DEF Warm
<1> HIDE DEF l
<1>3. /\ Others(t) /\ Only(t) /\ task'[t] = l
      /\ l.op \in ByIdentifier => \A u \in Task \ {t} : ~task'[u].quiet
  BY <1>1, <1>2, StartsOne
<1>4. LocalOK(l)
  BY <1>1, Constants DEF LocalOK, Invalidating, ByIdentifier
<1>5. CountOK(task[t])'
  BY <1>t, <1>1, <1>3, StateFacts DEF CountOK, registry
<1>6. SlotMoves(t) /\ slot' \in [Side -> [Item -> Task \cup {None}]]
  BY <1>t, SlotsKept
<1>7. ~Reading(l) /\ NotOlder(l.outcome, returned)
  BY <1>1, Constants DEF Reading, NotOlder
<1>8. \A s \in Side, y \in Item : ~Fetches(l, s, y)
  BY <1>1 DEF Fetches
<1>9. QED
  BY <1>t, <1>1, <1>3, <1>4, <1>5, <1>6, <1>7, <1>8, CallStep

LEMMA SampleGuidStep ==
  ASSUME RegInv, NEW t \in Task, SampleGuid(t)
  PROVE  RegInv'
<1>t. /\ task[t].pc = "sample" /\ slot' = slot /\ generation \in [Side -> Nat]
      /\ UNCHANGED <<entries, generation, registry, history>>
      /\ task[t] \in Locals /\ LocalOK(task[t]) /\ CountOK(task[t])
      /\ task[t].op \in ByIdentifier => NotOlder(task[t].outcome, returned)
  BY StateFacts DEF SampleGuid
<1> DEFINE k == task[t]
           pc == IF k.op = "latest" THEN "fetch" ELSE "lookup"
           l == [k EXCEPT !.at["guid"] = generation["guid"], !.pc = pc]
<1>1. /\ l \in Locals /\ l.pc = pc /\ l.op = k.op /\ l.item = k.item /\ l.outcome = k.outcome
      /\ l.at["id"] = k.at["id"] /\ l.at["guid"] = generation["guid"]
      /\ l.ordinal = k.ordinal /\ l.quiet = k.quiet
  <2>0. k \in Locals
    BY <1>t
  <2> HIDE DEF k
  <2> DEFINE at == [k.at EXCEPT !["guid"] = generation["guid"]]
  <2>1. at \in [Side -> Nat] /\ at["guid"] = generation["guid"] /\ at["id"] = k.at["id"]
    <3>1. "id" \in Side /\ "guid" \in Side /\ "id" # "guid"
      BY DEF Side
    <3>2. k.at \in [Side -> Nat]
      BY <2>0 DEF Locals
    <3>3. QED
      BY <1>t, <3>1, <3>2
  <2>2. l = [k EXCEPT !.at = at, !.pc = pc]
    OBVIOUS
  <2>3. pc \in PC
    BY DEF PC
  <2> HIDE DEF l, pc, at
  <2>4. QED
    BY <2>0, <2>1, <2>2, <2>3 DEF Locals
<1>2. task' = [task EXCEPT ![t] = l]
  BY StateFacts DEF SampleGuid
<1>p. \/ k.op = "latest" /\ pc = "fetch"
      \/ k.op \in ByIdentifier /\ k.op # "latest" /\ pc = "lookup"
  BY <1>t, Constants DEF LocalOK
<1>o. k.ordinal = 0 /\ ~k.quiet
  BY <1>t DEF LocalOK, Invalidating
<1> HIDE DEF l, pc
<1>3. Others(t) /\ Only(t) /\ task'[t] = l
  BY <1>1, <1>2, OneTask
<1>4. LocalOK(l)
  BY <1>t, <1>1, <1>p, <1>o, Constants DEF LocalOK, Invalidating
<1>5. CountOK(task[t])'
  BY <1>t, <1>1, <1>3 DEF CountOK, Side, registry
<1>6. SlotMoves(t) /\ slot' \in [Side -> [Item -> Task \cup {None}]]
  BY <1>t, SlotsKept
<1>7. ~Reading(l) /\ (l.op \in ByIdentifier => NotOlder(l.outcome, returned))
  BY <1>t, <1>1, <1>p DEF Reading
<1>8. \A s \in Side, y \in Item : ~Fetches(l, s, y)
  BY <1>1, <1>p, Constants DEF Fetches, Looks
<1>9. QED
  BY <1>t, <1>1, <1>3, <1>4, <1>5, <1>6, <1>7, <1>8, <1>o, <1>p, CallStep

LEMMA AnswerStep ==
  ASSUME RegInv, NEW t \in Task, NEW v \in Answers(t) \cup {Failed}, Answer(t, v)
  PROVE  RegInv'
<1>t. /\ task[t].pc = "fetch" /\ slot' = slot
      /\ UNCHANGED <<entries, generation, registry, history>>
      /\ task[t] \in Locals /\ LocalOK(task[t]) /\ CountOK(task[t]) /\ deletions \in Nat
  BY StateFacts DEF Answer
<1> DEFINE k == task[t]
<1>v. \/ v = Failed /\ v \notin Value
      \/ /\ v \in Value /\ v.born = deletions
         /\ k.op \in ByIdentifier => v.item = k.item
  <2>1. CASE v = Failed
    BY <2>1, Constants
  <2>2. CASE v # Failed /\ k.op = "latest"
    <3>1. PICK x \in Item :
            v = [item |-> x, by |-> "subject", subject |-> TRUE, born |-> deletions]
      BY <2>2 DEF Answers
    <3>2. QED
      BY <1>t, <2>2, <3>1, Constants DEF Value
  <2>3. CASE v # Failed /\ k.op # "latest"
    <3>1. k.item \in Item /\ LookupSide(k.op) \in {"id", "guid"}
      BY <1>t, <2>3, LookupSides DEF LocalOK, Side
    <3>2. PICK b \in BOOLEAN :
            v = [item |-> k.item, by |-> LookupSide(k.op), subject |-> b, born |-> deletions]
      BY <2>3 DEF Answers
    <3>3. QED
      BY <1>t, <3>1, <3>2 DEF Value
  <2>4. QED
    BY <2>1, <2>2, <2>3
<1> DEFINE l == [k EXCEPT !.pc = "answered", !.outcome = v]
<1>1. /\ l \in Locals /\ l.pc = "answered" /\ l.op = k.op /\ l.item = k.item /\ l.outcome = v
      /\ l.at = k.at /\ l.ordinal = k.ordinal /\ l.quiet = k.quiet
  BY <1>t, <1>v DEF Locals, PC
<1>2. task' = [task EXCEPT ![t] = l]
  BY StateFacts DEF Answer
<1>o. k.ordinal = 0 /\ ~k.quiet
  BY <1>t DEF LocalOK, Invalidating
<1> HIDE DEF l
<1>3. Others(t) /\ Only(t) /\ task'[t] = l
  BY <1>1, <1>2, OneTask
<1>4. LocalOK(l)
  BY <1>t, <1>1, <1>v, <1>o, Constants DEF LocalOK, Invalidating
<1>5. CountOK(task[t])'
  BY <1>t, <1>1, <1>3 DEF CountOK, registry
<1>6. SlotMoves(t) /\ slot' \in [Side -> [Item -> Task \cup {None}]]
  BY <1>t, <1>1, <1>3, SlotsKept
<1>7. (Reading(l) => l.outcome.born = deletions) /\ NotOlder(l.outcome, returned)
  BY <1>1, <1>v DEF Reading, NotOlder, RegInv, CountInv
<1>8. ASSUME NEW s \in Side, NEW y \in Item, Fetches(l, s, y), generation[s] = 0
      PROVE  slot'[s][y] = t
  <2>1. Fetches(task[t], s, y)
    BY <1>t, <1>1, <1>8 DEF Fetches, Looks
  <2>2. QED
    BY <1>t, <1>8, <2>1 DEF RegInv, FillInv
<1>9. QED
  BY <1>t, <1>1, <1>3, <1>4, <1>5, <1>6, <1>7, <1>8, <1>o, CallStep

LEMMA PopulateStep ==
  ASSUME RegInv, NEW t \in Task, Populate(t)
  PROVE  RegInv'
<1>t. /\ task[t].pc = "answered" /\ task[t].op = "latest" /\ slot' = slot
      /\ UNCHANGED <<entries, generation, registry, history>>
      /\ task[t] \in Locals /\ LocalOK(task[t]) /\ CountOK(task[t])
      /\ deletions \in Nat /\ generation \in [Side -> Nat]
  BY StateFacts DEF Populate
<1> DEFINE k == task[t]
           l == IF k.outcome = Failed THEN Idle ELSE Indexing(k, k.outcome)
<1>o. k.ordinal = 0 /\ ~k.quiet /\ k.op # "warm" /\ k.op \notin ByIdentifier
  BY <1>t, Constants DEF LocalOK, Invalidating
<1>1. \/ l = Idle
      \/ /\ l \in Locals /\ LocalOK(l) /\ Reading(k) /\ l.outcome = k.outcome
         /\ l.pc = "index" /\ l.op = k.op /\ l.at = k.at /\ l.ordinal = 0 /\ l.quiet = FALSE
         /\ Side \ Left(l.todo) = {}
  <2>1. CASE k.outcome # Failed
    <3>1. k.outcome \in Value
      BY <1>t, <2>1 DEF LocalOK
    <3>2. QED
      BY <1>t, <1>o, <2>1, <3>1, IndexingIs DEF Reading
  <2>2. QED
    BY <2>1
<1>2. task' = [task EXCEPT ![t] = l]
  BY DEF Populate
<1> HIDE DEF l
<1>3. l \in Locals /\ LocalOK(l)
  BY <1>1, Constants
<1>4. Others(t) /\ Only(t) /\ task'[t] = l
  BY <1>2, <1>3, OneTask
<1>5. CountOK(task[t])'
  BY <1>t, <1>1, <1>4, Constants DEF CountOK, registry
<1>6. SlotMoves(t) /\ slot' \in [Side -> [Item -> Task \cup {None}]]
  BY <1>t, <1>o, SlotsKept
<1>7. /\ l.pc \in {"idle", "index"} /\ l.ordinal = 0 /\ ~l.quiet /\ l.op \notin ByIdentifier
      /\ Reading(l) => Reading(k) /\ l.at = k.at /\ l.outcome = k.outcome
      /\ l.pc = "index" => Side \ Left(l.todo) = {}
  BY <1>1, <1>o, Constants DEF Reading
<1>8. \A s \in Side, y \in Item : ~Fetches(l, s, y)
  BY <1>7 DEF Fetches
<1>9. QED
  BY <1>t, <1>3, <1>4, <1>5, <1>6, <1>7, <1>8, CallStep

\* Steps by which a call begins, or ends without having done anything.
LEMMA CallBoundaries ==
  ASSUME RegInv, NEW t \in Task,
         \/ Delete(t) \/ DeleteFails(t)
         \/ \E op \in Op, X \in SUBSET Item : Invalidate(t, op, X)
  PROVE  RegInv'
<1>t. /\ task[t].pc \in {"idle", "delete"} /\ slot' = slot
      /\ UNCHANGED <<entries, generation, registry, history>>
      /\ deletions \in Nat /\ generation \in [Side -> Nat]
  BY StateFacts DEF Delete, DeleteFails, Invalidate
<1>1. PICK l \in Locals : /\ task' = [task EXCEPT ![t] = l] /\ LocalOK(l)
                          /\ l.pc \in {"idle", "delete", "bump"} /\ l.op \notin Reads
                          /\ l.at = [s \in Side |-> 0] /\ l.ordinal = 0 /\ ~l.quiet
  <2>0. None \notin Reads /\ "delete" \in Ops \ Reads
    BY RegistryAssumption DEF Ops, Reads
  <2>1. CASE Delete(t)
    <3> DEFINE l == [Idle EXCEPT !.pc = "delete", !.op = "delete"]
    <3>1. /\ l \in Locals /\ l.pc = "delete" /\ l.op = "delete" /\ l.outcome = None
          /\ l.at = [s \in Side |-> 0] /\ l.ordinal = 0 /\ l.quiet = FALSE
      BY <2>0, Constants DEF Locals, PC
    <3>2. task' = [task EXCEPT ![t] = l]
      BY <2>1 DEF Delete
    <3> HIDE DEF l
    <3>3. LocalOK(l)
      BY <3>1, Constants DEF LocalOK, Invalidating, ByIdentifier
    <3>4. QED
      BY <2>0, <3>1, <3>2, <3>3
  <2>2. CASE DeleteFails(t)
    BY <2>0, <2>2, Constants DEF DeleteFails
  <2>3. ASSUME NEW op \in Op, NEW X \in SUBSET Item, Invalidate(t, op, X)
        PROVE  \E l \in Locals : /\ task' = [task EXCEPT ![t] = l] /\ LocalOK(l)
                          /\ l.pc \in {"idle", "delete", "bump"} /\ l.op \notin Reads
                          /\ l.at = [s \in Side |-> 0] /\ l.ordinal = 0 /\ ~l.quiet
    <3>0. op \in {"clear", "subject", "invalidate", "invalidate_guid"}
      BY <2>3 DEF Invalidate
    <3>1. PICK todo \in Todos \ {<<>>} : todo = Sides(op)
      BY <3>0 DEF Sides, Todos
    <3>2. op \in Ops \ Reads /\ op \notin ByIdentifier
      BY <3>0 DEF Ops, Reads, ByIdentifier
    <3> DEFINE l == [Idle EXCEPT !.pc = "bump", !.op = op, !.doomed = X, !.todo = todo]
    <3>3. /\ l \in Locals /\ l.pc = "bump" /\ l.op = op /\ l.todo = todo /\ l.outcome = None
          /\ l.at = [s \in Side |-> 0] /\ l.ordinal = 0 /\ l.quiet = FALSE
      BY <3>2, Constants DEF Locals, PC
    <3>4. task' = [task EXCEPT ![t] = l]
      BY <2>3, <3>1 DEF Invalidate
    <3> HIDE DEF l
    <3>5. LocalOK(l)
      BY <3>1, <3>2, <3>3 DEF LocalOK, Invalidating
    <3>6. QED
      BY <3>2, <3>3, <3>4, <3>5
  <2>4. QED
    BY <2>1, <2>2, <2>3
<1>2. Others(t) /\ Only(t) /\ task'[t] = l
  BY <1>1, OneTask
<1>3. CountOK(task[t])'
  BY <1>t, <1>1, <1>2 DEF CountOK, registry
<1>4. SlotMoves(t) /\ slot' \in [Side -> [Item -> Task \cup {None}]]
  BY <1>t, SlotsKept
<1>5. l.op \notin ByIdentifier /\ ~Reading(l)
  BY <1>1 DEF Reads, ByIdentifier, Reading
<1>6. \A s \in Side, y \in Item : ~Fetches(l, s, y)
  BY <1>1 DEF Fetches
<1>7. QED
  BY <1>t, <1>1, <1>2, <1>3, <1>4, <1>5, <1>6, CallStep

LEMMA LookupStep ==
  ASSUME RegInv, NEW t \in Task, Lookup(t)
  PROVE  RegInv'
<1>t. /\ task[t].pc = "lookup"
      /\ UNCHANGED <<entries, generation, registry, history>>
      /\ task[t] \in Locals /\ LocalOK(task[t]) /\ CountOK(task[t])
      /\ entries \in [Side -> [Item -> Value \cup {None}]]
      /\ slot \in [Side -> [Item -> Task \cup {None}]]
      /\ NotOlder(task[t].outcome, returned) /\ task[t].op \in ByIdentifier
      /\ deletions \in Nat /\ generation \in [Side -> Nat]
      /\ \A s \in Side, x \in Item : NotOlder(entries[s][x], returned)
      /\ \A s \in Side, x \in Item : slot[s][x] # t
  <2>1. task[t].pc = "lookup" /\ UNCHANGED <<entries, generation, registry, history>>
    BY DEF Lookup
  <2>2. QED
    BY <2>1, StateFacts DEF LocalOK, Fetches
<1> DEFINE k == task[t]
           s == LookupSide(k.op)
           v == entries[s][k.item]
           u == slot[s][k.item]
<1>o. /\ k.ordinal = 0 /\ ~k.quiet /\ k.op # "latest" /\ k.item \in Item /\ s \in Side
      /\ k.item # None
  BY <1>t, LookupSides, Constants DEF LocalOK, Invalidating
<1>1. CASE v # None
  <2> DEFINE l == Indexing(k, v)
  <2>1. task' = [task EXCEPT ![t] = l] /\ slot' = slot
    BY <1>1 DEF Lookup
  <2>2. v \in Value /\ v.item = k.item /\ NotOlder(v, returned) /\ entries[s][k.item] = v
    BY <1>t, <1>o, <1>1 DEF RegInv, FillInv
  <2> HIDE DEF v
  <2>3. /\ l \in Locals /\ LocalOK(l)
        /\ \/ l = Idle
           \/ /\ l.pc = "index" /\ l.op = k.op /\ l.at = k.at /\ l.outcome = v
              /\ l.ordinal = 0 /\ l.quiet = FALSE /\ Side \ Left(l.todo) = {s}
    <3>1. /\ l \in Locals /\ LocalOK(l)
          /\ k.op = "warm" => l = Idle
          /\ k.op # "warm" =>
              /\ l.pc = "index" /\ l.op = k.op /\ l.at = k.at /\ l.outcome = v
              /\ l.ordinal = 0 /\ l.quiet = FALSE
              /\ Side \ Left(l.todo) = IF k.op = "latest" THEN {} ELSE {LookupSide(k.op)}
      BY <1>t, <1>o, <2>2, IndexingIs
    <3>2. QED
      BY <1>o, <3>1
  <2> HIDE DEF l, s
  <2>4. Others(t) /\ Only(t) /\ task'[t] = l
    BY <2>1, <2>3, OneTask
  <2>5. CountOK(task[t])'
    BY <1>t, <2>3, <2>4, Constants DEF CountOK, registry
  <2>6. SlotMoves(t) /\ slot' \in [Side -> [Item -> Task \cup {None}]]
    BY <1>t, <2>1, SlotsKept
  <2>7. /\ l.pc \in {"idle", "index"} /\ l.ordinal = 0 /\ ~l.quiet /\ ~Reading(l)
        /\ l.op \in ByIdentifier => l.outcome = v
        /\ l.pc = "index" => Side \ Left(l.todo) = {s} /\ l.outcome = v
    BY <2>3, <1>o, Constants DEF Reading
  <2>8. \A r \in Side, y \in Item : ~Fetches(l, r, y)
    BY <2>7 DEF Fetches
  <2>9. \A r \in Side : l.pc = "index" /\ r \notin Left(l.todo) => HeldNow(r, l.outcome.item)
    BY <2>2, <2>7, Constants DEF HeldNow
  <2>10. QED
    BY <1>t, <2>2, <2>3, <2>4, <2>5, <2>6, <2>7, <2>8, <2>9, CallStep
<1>2. CASE v = None /\ u # None
  <2> DEFINE l == [k EXCEPT !.pc = "wait", !.leader = u]
  <2>1. task' = [task EXCEPT ![t] = l] /\ slot' = slot
    BY <1>2 DEF Lookup
  <2>2. u \in Task /\ slot[s][k.item] = u
    BY <1>t, <1>o, <1>2
  <2> HIDE DEF u
  <2>3. /\ l \in Locals /\ l.pc = "wait" /\ l.leader = u /\ l.op = k.op /\ l.item = k.item
        /\ l.at = k.at /\ l.outcome = k.outcome /\ l.ordinal = 0 /\ l.quiet = FALSE
    BY <1>t, <1>o, <2>2 DEF Locals, PC
  <2>4. LocalOK(l)
    BY <1>t, <1>o, <2>3 DEF LocalOK, Invalidating
  <2>5. \A r \in Side, y \in Item : Looks(l, r, y) => r = s /\ y = k.item
    BY <2>3 DEF Looks
  <2> HIDE DEF l, s, v
  <2>6. Others(t) /\ Only(t) /\ task'[t] = l
    BY <2>1, <2>3, OneTask
  <2>7. CountOK(task[t])'
    BY <1>t, <2>3, <2>6, Constants DEF CountOK, registry
  <2>8. SlotMoves(t) /\ slot' \in [Side -> [Item -> Task \cup {None}]]
    BY <1>t, <2>1, SlotsKept
  <2>9. ~Reading(l) /\ NotOlder(l.outcome, returned)
    BY <1>t, <2>3 DEF Reading
  <2>10. \A r \in Side, y \in Item : ~Fetches(l, r, y)
    BY <2>3 DEF Fetches
  <2>11. \A r \in Side, y \in Item : Looks(l, r, y) => slot'[r][y] = l.leader
    BY <2>1, <2>2, <2>3, <2>5
  <2>12. QED
    BY <1>t, <2>2, <2>3, <2>4, <2>6, <2>7, <2>8, <2>9, <2>10, <2>11, CallStep
<1>3. CASE v = None /\ u = None
  <2> DEFINE l == [k EXCEPT !.pc = "fetch"]
  <2>1. task' = [task EXCEPT ![t] = l] /\ slot' = [slot EXCEPT ![s][k.item] = t]
    BY <1>3 DEF Lookup
  <2>2. /\ l \in Locals /\ l.pc = "fetch" /\ l.op = k.op /\ l.item = k.item
        /\ l.at = k.at /\ l.outcome = k.outcome /\ l.ordinal = 0 /\ l.quiet = FALSE
    BY <1>t, <1>o DEF Locals, PC
  <2>3. LocalOK(l)
    BY <1>t, <1>o, <2>2 DEF LocalOK, Invalidating
  <2>4. \A r \in Side, y \in Item : Fetches(l, r, y) <=> r = s /\ y = k.item
    BY <1>t, <2>2 DEF Fetches, Looks
  <2>5. slot[s][k.item] = None
    BY <1>3
  <2> HIDE DEF l, s, v, u
  <2>6. /\ slot' \in [Side -> [Item -> Task \cup {None}]]
        /\ \A r \in Side, y \in Item :
             slot'[r][y] = IF r = s /\ y = k.item THEN t ELSE slot[r][y]
    BY <1>t, <1>o, <2>1
  <2>7. Others(t) /\ Only(t) /\ task'[t] = l
    BY <2>1, <2>2, OneTask
  <2>8. CountOK(task[t])'
    BY <1>t, <2>2, <2>7, Constants DEF CountOK, registry
  <2>9. SlotMoves(t)
    BY <1>t, <2>4, <2>5, <2>6, <2>7 DEF SlotMoves
  <2>10. ~Reading(l) /\ NotOlder(l.outcome, returned)
    BY <1>t, <2>2 DEF Reading
  <2>11. \A r \in Side, y \in Item : Fetches(l, r, y) => slot'[r][y] = t
    BY <2>4, <2>6
  <2>12. QED
    BY <1>t, <2>2, <2>3, <2>6, <2>7, <2>8, <2>9, <2>10, <2>11, CallStep
<1>4. QED
  BY <1>1, <1>2, <1>3

\* The one slot a task can have.
LEMMA OwnSlot ==
  ASSUME RegInv, NEW t \in Task, NEW s \in Side, NEW x \in Item, slot[s][x] = t
  PROVE  /\ s = LookupSide(task[t].op) /\ x = task[t].item
         /\ task[t].op \in ByIdentifier /\ task[t].pc \in {"fetch", "answered"}
  BY StateFacts DEF Fetches, Looks

\* A task gives up its slot, if it has one, and its waiters with it.
LEMMA SlotGivenUp ==
  ASSUME RegInv, NEW t \in Task, NEW s \in Side, NEW x, s = LookupSide(task[t].op),
         x = task[t].item, NEW owns \in BOOLEAN,
         owns <=> x \in Item /\ slot[s][x] = t,
         slot' = IF owns THEN [slot EXCEPT ![s][x] = None] ELSE slot,
         owns => \/ \A w \in Waiters(t) \ {t} : task'[w] = Idle
                 \/ Stores(task'[t], s, x)
  PROVE  SlotMoves(t) /\ slot' \in [Side -> [Item -> Task \cup {None}]]
<1>t. slot \in [Side -> [Item -> Task \cup {None}]] /\ t # None /\ Idle.pc # "wait"
  BY StateFacts, Constants
<1>1. CASE owns
  <2>1. /\ slot' \in [Side -> [Item -> Task \cup {None}]]
        /\ \A r \in Side, y \in Item :
             slot'[r][y] = IF r = s /\ y = x THEN None ELSE slot[r][y]
    BY <1>t, <1>1
  <2>2. ASSUME NEW r \in Side, NEW y \in Item
        PROVE  \/ slot'[r][y] = slot[r][y] /\ slot[r][y] # t
               \/ r = s /\ y = x /\ slot'[r][y] = None /\ slot[r][y] = t
    BY <1>1, <2>1, OwnSlot
  <2>3. ASSUME NEW w \in Task \ {t}, task[w].pc = "wait", task[w].leader = t
        PROVE  task'[w].pc # "wait" \/ Stores(task'[t], s, x)
    BY <1>t, <1>1, <2>3 DEF Waiters
  <2>4. QED
    BY <2>1, <2>2, <2>3 DEF SlotMoves
<1>2. CASE ~owns
  <2>1. slot' = slot
    BY <1>2
  <2>2. \A r \in Side, y \in Item : slot[r][y] # t
    BY <1>2, OwnSlot
  <2>3. QED
    BY <1>t, <2>1, <2>2 DEF SlotMoves
<1>3. QED
  BY <1>1, <1>2

LEMMA DropStep ==
  ASSUME RegInv, NEW t \in Task, Drop(t)
  PROVE  RegInv'
<1>t. /\ task[t].pc \in {"wait", "fetch", "answered", "delete"}
      /\ UNCHANGED <<entries, generation, registry, history>>
      /\ task \in [Task -> Locals]
      /\ deletions \in Nat /\ generation \in [Side -> Nat]
  BY StateFacts DEF Drop
<1> DEFINE s == LookupSide(task[t].op)
           x == task[t].item
<1>1. PICK owns \in BOOLEAN : owns = (task[t].op # "latest" /\ x # None /\ slot[s][x] = t)
  OBVIOUS
<1>2. /\ slot' = IF owns THEN [slot EXCEPT ![s][x] = None] ELSE slot
      /\ task' = [u \in Task |-> IF u = t \/ (owns /\ u \in Waiters(t)) THEN Idle ELSE task[u]]
  BY <1>1 DEF Drop
<1>3. s \in Side /\ (owns <=> x \in Item /\ slot[s][x] = t)
  <2>1. s \in Side
    BY LookupSides
  <2>2. x \in Item \cup {None}
    BY <1>t DEF Locals
  <2>3. x \in Item /\ slot[s][x] = t => task[t].op # "latest" /\ x # None
    BY <2>1, OwnSlot, Constants
  <2>4. QED
    BY <1>1, <2>1, <2>2, <2>3
<1>4. task'[t] = Idle /\ Only(t) /\ Others(t)
  <2>1. \A u \in Task \ {t} : task'[u] = task[u] \/ (task[u].pc = "wait" /\ task'[u] = Idle)
    BY <1>2 DEF Waiters
  <2>2. QED
    BY <1>t, <1>2, <2>1, Constants DEF Only, Others, SameCall
<1>5. owns => \A w \in Waiters(t) \ {t} : task'[w] = Idle
  BY <1>2 DEF Waiters
<1>6. SlotMoves(t) /\ slot' \in [Side -> [Item -> Task \cup {None}]]
  BY <1>2, <1>3, <1>5, SlotGivenUp
<1>7. CountOK(task[t])'
  BY <1>t, <1>4, Constants DEF CountOK, registry
<1>8. ~Reading(Idle) /\ \A r \in Side, y \in Item : ~Fetches(Idle, r, y)
  BY Constants DEF Reading, Fetches
<1>9. QED
  BY <1>t, <1>4, <1>6, <1>7, <1>8, Constants, CallStep

LEMMA ClaimStep ==
  ASSUME RegInv, NEW t \in Task, Claim(t)
  PROVE  RegInv'
<1>t. /\ task[t].pc = "answered" /\ task[t].op # "latest"
      /\ UNCHANGED <<entries, generation, registry, history>>
      /\ task \in [Task -> Locals] /\ task[t] \in Locals /\ LocalOK(task[t]) /\ CountOK(task[t])
      /\ deletions \in Nat /\ generation \in [Side -> Nat]
      /\ task[t].op \in ByIdentifier => NotOlder(task[t].outcome, returned)
  BY StateFacts DEF Claim
<1> DEFINE k == task[t]
           s == LookupSide(k.op)
           x == k.item
<1>o. /\ k.op \in ByIdentifier /\ x \in Item /\ s \in Side /\ k.ordinal = 0 /\ ~k.quiet
      /\ k.outcome \in Value => k.outcome.item = x
      /\ k.outcome \in Value \cup {Failed}
  BY <1>t, LookupSides DEF LocalOK, Invalidating
<1>1. PICK owns \in BOOLEAN : owns = (slot[s][x] = t)
  OBVIOUS
<1> DEFINE l == IF k.outcome = Failed THEN Idle
                ELSE IF owns THEN [k EXCEPT !.pc = "store"] ELSE Indexing(k, k.outcome)
<1>2. /\ slot' = IF owns THEN [slot EXCEPT ![s][x] = None] ELSE slot
      /\ task' = [u \in Task |-> IF u = t THEN l
                                 ELSE IF u \in Waiters(t) /\ k.outcome = Failed THEN Idle
                                 ELSE task[u]]
  BY <1>1 DEF Claim
<1>3. /\ l \in Locals /\ LocalOK(l) /\ l.ordinal = 0 /\ l.quiet = FALSE
      /\ \/ k.outcome = Failed /\ l = Idle
         \/ /\ k.outcome # Failed /\ owns /\ l.pc = "store" /\ l.op = k.op /\ l.item = x
            /\ l.at = k.at /\ l.outcome = k.outcome
         \/ k.outcome # Failed /\ ~owns /\ l = Idle
         \/ /\ k.outcome # Failed /\ ~owns /\ l.pc = "index" /\ l.op = k.op
            /\ l.at = k.at /\ l.outcome = k.outcome /\ Side \ Left(l.todo) = {s}
  <2>1. CASE k.outcome = Failed
    BY <2>1, Constants
  <2>2. CASE k.outcome # Failed /\ owns
    <3>1. l = [k EXCEPT !.pc = "store"]
      BY <2>2
    <3>2. /\ l \in Locals /\ l.pc = "store" /\ l.op = k.op /\ l.item = x /\ l.at = k.at
          /\ l.outcome = k.outcome /\ l.ordinal = 0 /\ l.quiet = FALSE
      BY <1>t, <1>o, <3>1 DEF Locals, PC
    <3> HIDE DEF l
    <3>3. LocalOK(l)
      BY <1>o, <2>2, <3>2 DEF LocalOK, Invalidating
    <3>4. QED
      BY <2>2, <3>2, <3>3
  <2>3. CASE k.outcome # Failed /\ ~owns
    <3>1. PICK v \in Value : v = k.outcome /\ l = Indexing(k, v)
      BY <2>3, <1>o
    <3> HIDE DEF l
    <3>2. /\ l \in Locals /\ LocalOK(l)
          /\ k.op = "warm" => l = Idle
          /\ k.op # "warm" =>
              /\ l.pc = "index" /\ l.op = k.op /\ l.at = k.at /\ l.outcome = v
              /\ l.ordinal = 0 /\ l.quiet = FALSE
              /\ Side \ Left(l.todo) = IF k.op = "latest" THEN {} ELSE {LookupSide(k.op)}
      BY <1>t, <1>o, <3>1, IndexingIs
    <3>3. QED
      BY <1>t, <2>3, <3>1, <3>2, Constants
  <2>4. QED
    BY <2>1, <2>2, <2>3
<1> HIDE DEF l
<1>4. task'[t] = l /\ Only(t) /\ Others(t)
  <2>1. \A u \in Task \ {t} : task'[u] = task[u] \/ (task[u].pc = "wait" /\ task'[u] = Idle)
    BY <1>2 DEF Waiters
  <2>2. QED
    BY <1>t, <1>2, <2>1, Constants DEF Only, Others, SameCall
<1>5. owns => \/ \A w \in Waiters(t) \ {t} : task'[w] = Idle
              \/ Stores(task'[t], s, x)
  <2>1. CASE k.outcome = Failed
    BY <1>2, <2>1 DEF Waiters
  <2>2. CASE owns /\ k.outcome # Failed
    BY <1>3, <1>4, <1>o, <2>2 DEF Stores, Looks
  <2>3. QED
    BY <2>1, <2>2
<1>6. SlotMoves(t) /\ slot' \in [Side -> [Item -> Task \cup {None}]]
  <2>1. owns <=> x \in Item /\ slot[s][x] = t
    BY <1>1, <1>o
  <2>2. QED
    BY <1>2, <1>o, <1>5, <2>1, SlotGivenUp
<1>7. CountOK(task[t])'
  BY <1>t, <1>3, <1>4, Constants DEF CountOK, registry
<1>8. /\ ~Reading(l) /\ l.pc \in {"idle", "store", "index"}
      /\ l.op \in ByIdentifier => NotOlder(l.outcome, returned)
      /\ \A r \in Side, y \in Item : ~Fetches(l, r, y)
  BY <1>t, <1>o, <1>3, Constants DEF Reading, Fetches
<1>9. ASSUME NEW r \in Side, l.pc = "index", r \notin Left(l.todo), generation[r] = 0
      PROVE  FALSE
  <2>1. r = s /\ ~owns
    BY <1>3, <1>9, Constants
  <2>2. Fetches(task[t], s, x)
    BY <1>t, <1>o DEF Fetches, Looks
  <2>3. slot[s][x] = t
    BY <1>9, <1>o, <2>1, <2>2 DEF RegInv, FillInv
  <2>4. QED
    BY <1>1, <2>1, <2>3
<1>10. QED
  BY <1>t, <1>o, <1>3, <1>4, <1>6, <1>7, <1>8, <1>9, CallStep

------------------------------------------------------------------------------
(***************************************************************************)
(* Steps that change the entries, or a counter.                            *)
(***************************************************************************)
\* What a step leaves to show of the others.
LEMMA OthersFrame ==
  ASSUME RegInv, NEW t \in Task, Others(t), NEW u \in Task \ {t}
  PROVE  /\ Reading(task'[u]) =>
              Reading(task[u]) /\ task'[u].at = task[u].at /\ task'[u].outcome = task[u].outcome
         /\ \A s \in Side : Bumped(task'[u], s) =>
              Bumped(task[u], s) /\ task'[u].ordinal = task[u].ordinal
         /\ task'[u].quiet => /\ task[u].quiet /\ task'[u].ordinal = task[u].ordinal
                              /\ \A s \in Side : Cleared(task'[u], s) => Cleared(task[u], s)
         /\ task'[u].op \in ByIdentifier =>
              task[u].op \in ByIdentifier /\ NotOlder(task'[u].outcome, returned)
         /\ task'[u].pc = "index" => /\ task[u].pc = "index" /\ task'[u].todo = task[u].todo
                                     /\ task'[u].outcome = task[u].outcome
<1>1. CASE SameCall(task'[u], task[u])
  BY <1>1 DEF SameCall, Reading, Bumped, Cleared, RegInv, ReturnInv
<1>2. CASE task'[u] = Idle
  BY <1>2, Constants DEF Reading, Bumped, Invalidating
<1>3. QED
  BY <1>1, <1>2 DEF Others

\* What an insertion changes.
LEMMA Inserted ==
  ASSUME TypeInv, NEW s \in Side, NEW x \in Item, NEW v \in Value, Insert(s, x, v)
  PROVE  /\ entries' \in [Side -> [Item -> Value \cup {None}]]
         /\ evicted' \in [Side -> SUBSET Item]
         /\ entries'[s][x] = v /\ HeldNext(s, x)
         /\ \A r \in Side, y \in Item :
              /\ entries'[r][y] \in {None, entries[r][y]} \/ (r = s /\ y = x)
              /\ HeldNow(r, y) => HeldNext(r, y) \/ generation[r] > 0
<1>t. /\ entries \in [Side -> [Item -> Value \cup {None}]] /\ generation \in [Side -> Nat]
      /\ evicted \in [Side -> SUBSET Item] /\ v # None
  BY Constants DEF TypeInv
<1>1. PICK gone \in SUBSET Item :
        /\ entries' = [entries EXCEPT ![s] =
             [y \in Item |-> IF y = x THEN v ELSE IF y \in gone THEN None ELSE entries[s][y]]]
        /\ evicted' = [evicted EXCEPT ![s] =
             IF generation[s] = 0 THEN (evicted[s] \cup gone) \ {x} ELSE {}]
  BY <1>t DEF Insert
<1>2. /\ entries' \in [Side -> [Item -> Value \cup {None}]]
      /\ \A y \in Item : entries'[s][y] =
           IF y = x THEN v ELSE IF y \in gone THEN None ELSE entries[s][y]
      /\ \A r \in Side \ {s} : entries'[r] = entries[r]
  BY <1>t, <1>1
<1>3. /\ evicted' \in [Side -> SUBSET Item]
      /\ evicted'[s] = IF generation[s] = 0 THEN (evicted[s] \cup gone) \ {x} ELSE {}
      /\ \A r \in Side \ {s} : evicted'[r] = evicted[r]
  BY <1>t, <1>1
<1>4. ASSUME NEW r \in Side, NEW y \in Item, HeldNow(r, y), ~(generation[r] > 0)
      PROVE  HeldNext(r, y)
  <2>1. CASE r # s
    BY <1>2, <1>3, <1>4, <2>1 DEF HeldNow, HeldNext
  <2>2. CASE r = s
    <3>1. generation[s] = 0
      BY <1>t, <1>4, <2>2
    <3>2. QED
      BY <1>t, <1>2, <1>3, <1>4, <2>2, <3>1 DEF HeldNow, HeldNext
  <2>3. QED
    BY <2>1, <2>2
<1>5. QED
  BY <1>t, <1>2, <1>3, <1>4 DEF HeldNext

\* A step that may change entries and counters.
LEMMA CacheStep ==
  ASSUME RegInv, NEW t \in Task, Others(t), TypeInv', CountInv', SlotMoves(t),
         returned' = returned \/ ReturnInv', task[t].pc \notin {"fetch", "answered", "store"},
         task'[t].pc \notin {"wait", "fetch", "answered", "store"}, task'[t].op \in ByIdentifier =>
           task[t].op \in ByIdentifier /\ NotOlder(task'[t].outcome, returned),
         \A s \in Side : generation'[s] >= generation[s],
         Reading(task'[t]) =>
           Reading(task[t]) /\ task'[t].at = task[t].at /\ task'[t].outcome = task[t].outcome,
         \A s \in Side : Bumped(task'[t], s) =>
           \/ Bumped(task[t], s) /\ task'[t].ordinal = task[t].ordinal
           \/ generation'[s] > generation[s],
         \A s \in Side : \/ dropped'[s] = dropped[s]
                         \/ Bumped(task[t], s) /\ dropped'[s] = task[t].ordinal,
         \A s \in Side, x \in Item :
           entries'[s][x] \in {None, entries[s][x]}
           \/ /\ entries'[s][x].item = x /\ NotOlder(entries'[s][x], returned)
              /\ \A u \in Task : task[u].quiet /\ Cleared(task[u], s) =>
                   NotOlder(entries'[s][x], task[u].ordinal),
         \A s \in Side, x \in Item :
           HeldNow(s, x) => HeldNext(s, x) \/ generation'[s] > 0,
         task'[t].quiet =>
           \/ /\ task[t].quiet /\ task'[t].ordinal = task[t].ordinal
              /\ \A s \in Side, x \in Item : Cleared(task'[t], s) =>
                      \/ Cleared(task[t], s)
                      \/ NotOlder(entries'[s][x], task[t].ordinal)
           \/ /\ \A v \in Task : task'[v].op \notin ByIdentifier
              /\ \A s \in Side : ~Cleared(task'[t], s),
         task'[t].pc \in {"drop", "cancel"} => generation'[Head(task'[t].todo)] > 0,
         \A s \in Side :
           task'[t].pc = "index" /\ generation'[s] = 0 /\ s \notin Left(task'[t].todo)
             /\ Has(task'[t].outcome, s) =>
             \/ /\ task[t].pc = "index" /\ task'[t].outcome = task[t].outcome
                /\ s \notin Left(task[t].todo)
             \/ HeldNext(s, task'[t].outcome.item)
  PROVE  RegInv'
<1>1. \A u \in Task : Reading(task'[u]) =>
           Reading(task[u]) /\ task'[u].at = task[u].at /\ task'[u].outcome = task[u].outcome
  BY OthersFrame
<1>2. \A u \in Task, s \in Side : Bumped(task'[u], s) =>
           \/ Bumped(task[u], s) /\ task'[u].ordinal = task[u].ordinal
           \/ generation'[s] > generation[s]
  BY OthersFrame
<1>3. ReadInv'
  BY <1>1, <1>2, ReadStays
<1>4. \A v \in Task : task'[v].op \in ByIdentifier =>
        task[v].op \in ByIdentifier /\ NotOlder(task'[v].outcome, returned)
  BY OthersFrame
<1>5. QuietInv'
  <2>1. ASSUME NEW u \in Task, task'[u].quiet,
               ~(/\ \A v \in Task : task'[v].op \notin ByIdentifier
                 /\ \A s \in Side : ~Cleared(task'[u], s))
        PROVE  /\ task[u].quiet /\ task'[u].ordinal = task[u].ordinal
               /\ \A s \in Side, x \in Item : Cleared(task'[u], s) =>
                     \/ Cleared(task[u], s) /\ entries'[s][x] \in {None, entries[s][x]}
                     \/ NotOlder(entries'[s][x], task[u].ordinal)
    <3>1. /\ task[u].quiet /\ task'[u].ordinal = task[u].ordinal
          /\ \A s \in Side, x \in Item : Cleared(task'[u], s) =>
               Cleared(task[u], s) \/ NotOlder(entries'[s][x], task[u].ordinal)
      BY <2>1, OthersFrame
    <3>2. \A s \in Side, x \in Item : Cleared(task[u], s) =>
                     \/ entries'[s][x] \in {None, entries[s][x]}
                     \/ NotOlder(entries'[s][x], task[u].ordinal)
      BY <3>1
    <3>3. QED
      BY <3>1, <3>2
  <2>2. QED
    BY <1>4, <2>1, QuietStays
<1>6. ReturnInv'
  BY <1>1, <1>4, ReturnStays
<1>7. KeepsOrWakes(t)
  BY OthersKeep
<1>8. SlotInv' /\ WaitInv'
  BY <1>7, SlotStays, WaitStays
<1>9. FillInv'
  <2>1. \A u \in Task, s \in Side :
           task'[u].pc = "index" /\ generation'[s] = 0 /\ s \notin Left(task'[u].todo)
             /\ Has(task'[u].outcome, s) =>
             \/ /\ task[u].pc = "index" /\ task'[u].outcome = task[u].outcome
                /\ s \notin Left(task[u].todo)
             \/ HeldNext(s, task'[u].outcome.item)
    BY OthersFrame
  <2>2. \A s \in Side, x \in Item : ~Fetches(task'[t], s, x)
    BY DEF Fetches
  <2>3. \A s \in Side, x \in Item :
          entries'[s][x] \in {None, entries[s][x]} \/ entries'[s][x].item = x
    OBVIOUS
  <2>4. QED
    BY <1>7, <2>1, <2>2, <2>3, FillStays
<1>10. QED
  BY <1>3, <1>5, <1>6, <1>8, <1>9 DEF RegInv

LEMMA IndexStep ==
  ASSUME RegInv, NEW t \in Task, Index(t)
  PROVE  RegInv'
<1>t. /\ task[t].pc = "index" /\ task \in [Task -> Locals] /\ task[t] \in Locals
      /\ LocalOK(task[t]) /\ CountOK(task[t])
      /\ entries \in [Side -> [Item -> Value \cup {None}]] /\ generation \in [Side -> Nat]
      /\ slot' = slot /\ UNCHANGED <<generation, registered, deletions, dropped, returned>>
      /\ deletions \in Nat
  BY StateFacts DEF Index, registry, history
<1> DEFINE k == task[t]
           s == Head(k.todo)
           v == k.outcome
           l == IF Len(k.todo) = 1 THEN Idle ELSE [k EXCEPT !.todo = Tail(k.todo)]
           puts == Has(v, s) /\ generation[s] = k.at[s]
<1>o. /\ v \in Value /\ v.item \in Item /\ k.todo \in Todos \ {<<>>}
      /\ k.op \in {"id", "guid", "latest"} /\ k.ordinal = 0 /\ ~k.quiet
  BY <1>t DEF LocalOK, Locals, Value, Invalidating
<1>s. /\ s \in Side /\ s \in Left(k.todo)
      /\ Len(k.todo) # 1 => /\ Tail(k.todo) \in Todos \ {<<>>}
                            /\ Left(Tail(k.todo)) = Left(k.todo) \ {s}
  BY <1>o, TodoFacts
<1>1. /\ task' = [task EXCEPT ![t] = l]
      /\ IF puts THEN Insert(s, v.item, v) ELSE UNCHANGED <<entries, evicted>>
  BY DEF Index
<1>2. /\ l \in Locals /\ LocalOK(l) /\ l.ordinal = 0 /\ l.quiet = FALSE
      /\ \/ l = Idle
         \/ /\ l.pc = "index" /\ l.op = k.op /\ l.at = k.at /\ l.outcome = v
            /\ Left(l.todo) = Left(k.todo) \ {s}
  <2>1. CASE Len(k.todo) = 1
    BY <2>1, Constants
  <2>2. CASE Len(k.todo) # 1
    <3>1. PICK todo \in Todos \ {<<>>} : todo = Tail(k.todo) /\ Left(todo) = Left(k.todo) \ {s}
      BY <1>s, <2>2
    <3>2. l = [k EXCEPT !.todo = todo]
      BY <2>2, <3>1
    <3> HIDE DEF l, s, v
    <3>3. /\ l \in Locals /\ l.pc = "index" /\ l.op = k.op /\ l.at = k.at
          /\ l.outcome = k.outcome /\ l.item = k.item /\ l.todo = todo
          /\ l.ordinal = 0 /\ l.quiet = FALSE
      BY <1>t, <1>o, <3>2 DEF Locals
    <3>4. LocalOK(l)
      BY <1>t, <1>o, <3>1, <3>3 DEF LocalOK, Invalidating, v
    <3>5. QED
      BY <3>1, <3>3, <3>4 DEF v
  <2>3. QED
    BY <2>1, <2>2
<1>n. NotOlder(v, returned) \/ ~puts
  <2>1. CASE k.op \in ByIdentifier
    BY <2>1 DEF RegInv, ReturnInv
  <2>2. CASE k.op = "latest" /\ puts
    BY <1>t, <1>o, <1>s, <2>2 DEF RegInv, ReturnInv, NotOlder, Reading
  <2>3. QED
    BY <1>o, <2>1, <2>2 DEF ByIdentifier
<1>q. ASSUME puts, NEW u \in Task, task[u].quiet, Cleared(task[u], s)
      PROVE  NotOlder(v, task[u].ordinal)
  <2>1. k.op = "latest"
    BY <1>o, <1>q DEF RegInv, QuietInv, ByIdentifier
  <2>2. Bumped(task[u], s)
    BY <1>q DEF Cleared, Bumped, RegInv, TypeInv, LocalOK
  <2>3. QED
    BY <1>t, <1>o, <1>s, <1>q, <2>1, <2>2 DEF RegInv, ReadInv, NotOlder, Reading
<1>f. generation[s] = 0 /\ Has(v, s) => puts
  BY <1>t, <1>s DEF CountOK, Locals
<1> HIDE DEF l, s, v
<1>3. Others(t) /\ Only(t) /\ task'[t] = l
  BY <1>1, <1>2, OneTask
<1>4. /\ entries' \in [Side -> [Item -> Value \cup {None}]]
      /\ evicted' \in [Side -> SUBSET Item]
      /\ puts => entries'[s][v.item] = v /\ HeldNext(s, v.item)
      /\ \A r \in Side, y \in Item :
           /\ entries'[r][y] \in {None, entries[r][y]} \/ (puts /\ r = s /\ y = v.item)
           /\ HeldNow(r, y) => HeldNext(r, y) \/ generation[r] > 0
  <2> HIDE DEF puts
  <2>1. v \in Value /\ v.item \in Item /\ s \in Side /\ TypeInv
    BY <1>o, <1>s DEF RegInv, v
  <2>2. CASE puts
    <3>1. Insert(s, v.item, v)
      BY <1>1, <2>2
    <3>2. QED
      BY <2>1, <2>2, <3>1, Inserted
  <2>3. CASE ~puts
    BY <1>1, <2>1, <2>3 DEF TypeInv, HeldNow, HeldNext
  <2>4. QED
    BY <2>2, <2>3
<1>5. TypeInv'
  <2>1. task' \in [Task -> Locals] /\ \A u \in Task : LocalOK(task'[u])
    BY <1>2, <1>3, OthersTypes DEF Only, RegInv
  <2>2. QED
    BY <1>t, <1>4, <2>1 DEF TypeInv, RegInv, LocalOK
<1>6. CountInv'
  <2>1. CountOK(task[t])'
    BY <1>t, <1>2, <1>3, Constants DEF CountOK
  <2>2. QED
    BY <1>t, <1>3, <2>1, CountStays DEF RegInv, CountInv
<1>7. SlotMoves(t)
  BY <1>t, SlotsKept
<1>8. /\ l.pc \in {"idle", "index"} /\ ~l.quiet
      /\ l.op \in ByIdentifier => k.op \in ByIdentifier /\ NotOlder(l.outcome, returned)
      /\ Reading(l) => Reading(k) /\ l.at = k.at /\ l.outcome = k.outcome
      /\ \A r \in Side : ~Bumped(l, r)
  <2>1. k.op \in ByIdentifier => NotOlder(v, returned)
    BY DEF RegInv, ReturnInv, v
  <2>2. QED
    BY <1>t, <1>2, <2>1, Constants DEF Reading, Bumped, Invalidating, v
<1>9. \A r \in Side, y \in Item :
        \/ entries'[r][y] \in {None, entries[r][y]}
        \/ /\ entries'[r][y].item = y /\ NotOlder(entries'[r][y], returned)
           /\ \A u \in Task : task[u].quiet /\ Cleared(task[u], r) =>
                   NotOlder(entries'[r][y], task[u].ordinal)
  <2> HIDE DEF puts
  <2>1. QED
    BY <1>4, <1>n, <1>q
<1>10. \A r \in Side, y \in Item : HeldNow(r, y) => HeldNext(r, y) \/ generation'[r] > 0
  BY <1>t, <1>4
<1>11. \A r \in Side : l.pc = "index" /\ generation[r] = 0 /\ r \notin Left(l.todo)
                         /\ Has(l.outcome, r) =>
             \/ /\ task[t].pc = "index" /\ l.outcome = task[t].outcome
                /\ r \notin Left(task[t].todo)
             \/ HeldNext(r, l.outcome.item)
  <2> SUFFICES ASSUME NEW r \in Side, l.pc = "index", generation[r] = 0, r \notin Left(l.todo),
                      Has(l.outcome, r)
               PROVE  \/ /\ task[t].pc = "index" /\ l.outcome = task[t].outcome
                         /\ r \notin Left(task[t].todo)
                      \/ HeldNext(r, l.outcome.item)
    OBVIOUS
  <2>1. l.outcome = v /\ Left(l.todo) = Left(k.todo) \ {s}
    BY <1>2, Constants
  <2>2. CASE r = s
    <3>1. puts
      BY <1>f, <2>1, <2>2
    <3> HIDE DEF puts
    <3>2. v # None /\ v.item \in Item
      BY <1>o, Constants DEF v
    <3>3. QED
      BY <1>4, <2>1, <2>2, <3>1, <3>2
  <2>3. CASE r # s
    BY <1>t, <2>1, <2>3 DEF v
  <2>4. QED
    BY <2>2, <2>3
<1>12. QED
  BY <1>t, <1>3, <1>5, <1>6, <1>7, <1>8, <1>9, <1>10, <1>11, CacheStep

LEMMA BumpStep ==
  ASSUME RegInv, NEW t \in Task, Bump(t)
  PROVE  RegInv'
<1>t. /\ task[t].pc = "bump" /\ task \in [Task -> Locals] /\ task[t] \in Locals
      /\ LocalOK(task[t]) /\ CountOK(task[t])
      /\ generation \in [Side -> Nat] /\ deletions \in Nat
      /\ slot' = slot /\ UNCHANGED <<entries, registered, deletions, dropped, returned>>
      /\ evicted \in [Side -> SUBSET Item]
  BY StateFacts DEF Bump, registry, RegInv, TypeInv
<1> DEFINE k == task[t]
           s == Head(k.todo)
           pc == IF BySubject(t) THEN "drop" ELSE "cancel"
           l == [k EXCEPT !.pc = pc]
<1>s. s \in Side /\ s \in Left(k.todo)
  BY <1>t, TodoFacts DEF LocalOK, Invalidating, Locals
<1>1. /\ task' = [task EXCEPT ![t] = l] /\ generation' = [generation EXCEPT ![s] = generation[s] + 1]
      /\ evicted' = [evicted EXCEPT ![s] = {}]
  BY <1>t DEF Bump
<1>2. /\ l \in Locals /\ l.pc = pc /\ l.op = k.op /\ l.item = k.item /\ l.at = k.at
      /\ l.outcome = k.outcome /\ l.todo = k.todo /\ l.ordinal = k.ordinal /\ l.quiet = k.quiet
      /\ pc \in {"drop", "cancel"} /\ (k.op = "delete" => pc = "drop")
  BY <1>t DEF Locals, PC, BySubject
<1> HIDE DEF l, s, pc
<1>3. Others(t) /\ Only(t) /\ task'[t] = l
  BY <1>1, <1>2, OneTask
<1>4. LocalOK(l) /\ l.op \notin ByIdentifier /\ ~Reading(l)
  BY <1>t, <1>2 DEF LocalOK, Invalidating, Reading, Reads, ByIdentifier
<1>5. /\ \A r \in Side : generation'[r] \in Nat /\ generation'[r] >= generation[r]
      /\ generation' \in [Side -> Nat] /\ generation'[s] > generation[s] /\ generation'[s] > 0
  BY <1>t, <1>s, <1>1
<1>e. evicted' \in [Side -> SUBSET Item] /\ \A r \in Side \ {s} : evicted'[r] = evicted[r]
  BY <1>t, <1>s, <1>1
<1>6. TypeInv'
  <2>1. task' \in [Task -> Locals] /\ \A u \in Task : LocalOK(task'[u])
    BY <1>2, <1>3, <1>4, OthersTypes DEF Only, RegInv
  <2>2. QED
    BY <1>t, <1>5, <1>e, <2>1 DEF TypeInv, RegInv, LocalOK
<1>7. CountInv'
  <2>1. CountOK(task[t])'
    <3>1. \A r \in Side : k.at[r] \in Nat /\ generation[r] \in Nat
      BY <1>t DEF Locals
    <3>2. QED
      BY <1>t, <1>2, <1>3, <1>5, <3>1 DEF CountOK
  <2>2. QED
    BY <1>t, <1>3, <1>5, <2>1, CountStays DEF RegInv, CountInv
<1>8. SlotMoves(t)
  BY <1>t, SlotsKept
<1>9. \A r \in Side : Bumped(l, r) =>
        \/ Bumped(k, r) /\ l.ordinal = k.ordinal
        \/ generation'[r] > generation[r]
  BY <1>t, <1>2, <1>5 DEF Bumped, Invalidating, s
<1>10. l.quiet => /\ k.quiet /\ l.ordinal = k.ordinal
                  /\ \A r \in Side : Cleared(l, r) => Cleared(k, r)
  BY <1>t, <1>2 DEF Cleared, LocalOK
<1>11. generation'[Head(l.todo)] > 0
  BY <1>2, <1>5 DEF s
<1>12. \A r \in Side, x \in Item : HeldNow(r, x) => HeldNext(r, x) \/ generation'[r] > 0
  BY <1>t, <1>5, <1>e DEF HeldNow, HeldNext
<1>13. QED
  BY <1>t, <1>2, <1>3, <1>4, <1>5, <1>6, <1>7, <1>8, <1>9, <1>10, <1>11, <1>12, CacheStep

LEMMA DeletionStep ==
  ASSUME RegInv, NEW t \in Task, DeleteDone(t) \/ DeleteLost(t)
  PROVE  RegInv'
<1>t. /\ task[t].pc = "delete" /\ task \in [Task -> Locals] /\ task[t] \in Locals
      /\ LocalOK(task[t]) /\ CountOK(task[t])
      /\ generation \in [Side -> Nat] /\ deletions \in Nat
      /\ slot' = slot /\ UNCHANGED <<entries, generation, dropped, returned, evicted>>
      /\ registered' = FALSE
  BY StateFacts DEF DeleteDone, DeleteLost, history
<1>d. PICK n \in Nat : n = deletions + 1 /\ deletions' = n /\ n >= deletions
  BY <1>t DEF DeleteDone, DeleteLost
<1> DEFINE k == task[t]
<1>1. PICK l \in Locals : /\ task' = [task EXCEPT ![t] = l] /\ LocalOK(l)
                          /\ l.pc \in {"bump", "idle"} /\ l.op \in {"delete", None}
                          /\ l.ordinal <= n /\ l.at \in {k.at, Idle.at}
                          /\ \A s \in Side : ~Bumped(l, s)
                          /\ l.quiet => /\ \A u \in Task : task[u].op \notin ByIdentifier
                                        /\ \A s \in Side : ~Cleared(l, s)
  <2>1. CASE DeleteLost(t)
    <3>1. task' = [task EXCEPT ![t] = Idle]
      BY <2>1 DEF DeleteLost
    <3>2. \A s \in Side : ~Bumped(Idle, s)
      BY Constants DEF Bumped, Invalidating
    <3>3. /\ Idle \in Locals /\ LocalOK(Idle) /\ Idle.pc = "idle" /\ Idle.op = None
          /\ Idle.ordinal <= n /\ ~Idle.quiet
      BY <1>d, Constants
    <3>4. QED
      BY <3>1, <3>2, <3>3
  <2>2. CASE DeleteDone(t)
    <3>1. PICK b \in BOOLEAN : b = (\A u \in Task : task[u].op \notin ByIdentifier)
      OBVIOUS
    <3>2. PICK todo \in Todos \ {<<>>} : todo = <<"id", "guid">> /\ Left(todo) = Side
                                         /\ Head(todo) = "id"
      BY TodoFacts DEF Todos
    <3> DEFINE l == [k EXCEPT !.pc = "bump", !.todo = todo, !.ordinal = n, !.quiet = b]
    <3>3. task' = [task EXCEPT ![t] = l]
      BY <2>2, <3>1, <3>2, <1>d DEF DeleteDone
    <3>4. /\ l \in Locals /\ l.pc = "bump" /\ l.op = k.op /\ l.item = k.item /\ l.at = k.at
          /\ l.outcome = k.outcome /\ l.todo = todo /\ l.ordinal = n /\ l.quiet = b
      BY <1>t DEF Locals, PC
    <3> HIDE DEF l
    <3>5. k.op = "delete" /\ "delete" \in Ops \ Reads /\ "delete" \notin ByIdentifier
      BY <1>t DEF LocalOK, Ops, Reads, ByIdentifier
    <3>6. LocalOK(l)
      BY <1>t, <3>2, <3>4, <3>5 DEF LocalOK, Invalidating
    <3>7. \A s \in Side : ~Bumped(l, s) /\ ~Cleared(l, s)
      BY <3>2, <3>4 DEF Bumped, Cleared
    <3>8. l.quiet => \A u \in Task : task[u].op \notin ByIdentifier
      BY <3>1, <3>4
    <3>9. l.ordinal <= n
      BY <1>d, <3>4
    <3>10. QED
      BY <3>3, <3>4, <3>5, <3>6, <3>7, <3>8, <3>9
  <2>3. QED
    BY <2>1, <2>2
<1>2. Others(t) /\ Only(t) /\ task'[t] = l
  BY <1>1, OneTask
<1>3. l.op \notin ByIdentifier /\ ~Reading(l)
  BY <1>1, Constants DEF ByIdentifier, Reading
<1>4. TypeInv'
  <2>1. task' \in [Task -> Locals] /\ \A u \in Task : LocalOK(task'[u])
    BY <1>1, <1>2, OthersTypes DEF Only, RegInv
  <2>2. QED
    BY <1>t, <1>d, <2>1 DEF TypeInv, RegInv, LocalOK
<1>5. CountInv'
  <2>1. CountOK(task[t])'
    BY <1>t, <1>d, <1>1, <1>2, Constants DEF CountOK
  <2>2. /\ \A s \in Side : dropped[s] \in Nat /\ dropped[s] <= deletions
        /\ returned \in Nat /\ returned <= deletions
    BY DEF RegInv, TypeInv, CountInv
  <2>3. /\ \A s \in Side : dropped'[s] <= deletions'
        /\ returned' <= deletions'
    BY <1>t, <1>d, <2>2
  <2>4. QED
    BY <1>t, <1>d, <1>2, <2>1, <2>3, CountStays
<1>6. SlotMoves(t)
  BY <1>t, SlotsKept
<1>7. l.quiet => \A u \in Task : task'[u].op \notin ByIdentifier
  BY <1>1, <1>2, <1>3, OthersFrame
<1>8. \A s \in Side, x \in Item :
        entries'[s][x] = entries[s][x] /\ (HeldNow(s, x) => HeldNext(s, x))
  BY <1>t DEF HeldNow, HeldNext
<1>9. \A s \in Side : generation'[s] >= generation[s] /\ dropped'[s] = dropped[s]
  BY <1>t
<1>10. QED
  BY <1>t, <1>1, <1>2, <1>3, <1>4, <1>5, <1>6, <1>7, <1>8, <1>9, CacheStep

\* A deletion that no lookup by identifier has met returns.
LEMMA ReturnsNow ==
  ASSUME RegInv, NEW t \in Task, Others(t), task[t].quiet, returned' = task[t].ordinal,
         generation' = generation, \A s \in Side : Bumped(task[t], s),
         \A s \in Side, x \in Item : NotOlder(entries'[s][x], task[t].ordinal),
         task'[t].op \notin ByIdentifier, ~Reading(task'[t])
  PROVE  ReturnInv'
<1>1. \A u \in Task : task'[u].op \notin ByIdentifier
  BY OthersFrame DEF RegInv, QuietInv
<1>2. ASSUME NEW u \in Task, NEW s \in Side, Reading(task'[u]), generation'[s] = task'[u].at[s]
      PROVE  task'[u].outcome.born >= returned'
  <2>1. Reading(task[u]) /\ task'[u].at = task[u].at /\ task'[u].outcome = task[u].outcome
    BY <1>2, OthersFrame
  <2>2. QED
    BY <1>2, <2>1 DEF RegInv, ReadInv
<1>3. QED
  BY <1>1, <1>2 DEF ReturnInv, NotOlder, Reading

\* The call goes on with its next cache, or returns.
LEMMA NextSideIs ==
  ASSUME RegInv, NEW t \in Task, task[t].pc \in {"drop", "cancel"}
  PROVE  LET k == task[t]
             l == NextSide(t)
             s == Head(k.todo)
         IN  /\ s \in Side /\ k.todo \in Todos \ {<<>>} /\ k.op \notin ByIdentifier
             /\ generation[s] > 0 /\ \A r \in Side : Bumped(k, r) <=> r \notin Left(k.todo) \ {s}
             /\ l \in Locals /\ LocalOK(l) /\ l.op \notin ByIdentifier /\ ~Reading(l)
             /\ l.pc \in {"idle", "bump"} /\ CountOK(l)
             /\ \A r \in Side : Bumped(l, r) => Bumped(k, r) /\ l.ordinal = k.ordinal
             /\ l.quiet => /\ k.quiet /\ l.ordinal = k.ordinal
                           /\ \A r \in Side : Cleared(l, r) => Cleared(k, r) \/ r = s
             /\ Len(k.todo) = 1 => Left(k.todo) = {s}
<1> DEFINE k == task[t]
           l == NextSide(t)
           s == Head(k.todo)
<1>t. /\ k \in Locals /\ LocalOK(k) /\ CountOK(k) /\ deletions \in Nat
      /\ generation \in [Side -> Nat] /\ k.pc \in Invalidating
  BY StateFacts DEF Invalidating
<1>o. /\ k.todo \in Todos \ {<<>>} /\ k.op \notin ByIdentifier /\ k.op # "latest"
      /\ k.op \in Ops \ Reads
  BY <1>t DEF LocalOK, Locals, Reads, ByIdentifier
<1>s. /\ s \in Side /\ s \in Left(k.todo)
      /\ Len(k.todo) = 1 => Left(k.todo) = {s}
      /\ Len(k.todo) # 1 => /\ Tail(k.todo) \in Todos \ {<<>>}
                            /\ Left(Tail(k.todo)) = Left(k.todo) \ {s}
  BY <1>o, TodoFacts
<1>1. generation[s] > 0
  BY DEF RegInv, FillInv
<1>2. \A r \in Side : Bumped(k, r) <=> r \notin Left(k.todo) \ {s}
  BY <1>t, <1>s DEF Bumped
<1>3. CASE Len(k.todo) = 1
  <2>1. l = Idle
    BY <1>3 DEF NextSide
  <2>2. ~Reading(Idle) /\ CountOK(Idle) /\ \A r \in Side : ~Bumped(Idle, r)
    BY <1>t, Constants DEF Reading, CountOK, Bumped, Invalidating
  <2> HIDE DEF l, s
  <2>3. QED
    BY <1>o, <1>s, <1>1, <1>2, <2>1, <2>2, Constants DEF l, s
<1>4. CASE Len(k.todo) # 1
  <2>1. PICK todo \in Todos \ {<<>>} : todo = Tail(k.todo) /\ Left(todo) = Left(k.todo) \ {s}
    BY <1>s, <1>4
  <2>2. l = [k EXCEPT !.pc = "bump", !.todo = todo]
    BY <1>4, <2>1 DEF NextSide
  <2> HIDE DEF l, s
  <2>3. /\ l \in Locals /\ l.pc = "bump" /\ l.op = k.op /\ l.at = k.at /\ l.item = k.item
        /\ l.outcome = k.outcome /\ l.todo = todo /\ l.ordinal = k.ordinal /\ l.quiet = k.quiet
    BY <1>t, <2>2 DEF Locals, PC
  <2>4. LocalOK(l)
    BY <1>t, <1>o, <2>1, <2>3 DEF LocalOK, Invalidating
  <2>5. ~Reading(l) /\ CountOK(l)
    BY <1>t, <1>o, <2>3 DEF Reading, CountOK
  <2>6. \A r \in Side : /\ Bumped(l, r) => Bumped(k, r)
                        /\ Cleared(l, r) => Cleared(k, r) \/ r = s
    BY <1>2, <2>1, <2>3 DEF Bumped, Cleared
  <2>7. QED
    BY <1>o, <1>s, <1>1, <1>2, <2>3, <2>4, <2>5, <2>6 DEF l, s
<1>5. QED
  BY <1>3, <1>4

LEMMA CancelStep ==
  ASSUME RegInv, NEW t \in Task, Cancel(t)
  PROVE  RegInv'
<1>t. /\ task[t].pc = "cancel" /\ task \in [Task -> Locals] /\ task[t] \in Locals
      /\ LocalOK(task[t]) /\ CountOK(task[t])
      /\ generation \in [Side -> Nat] /\ deletions \in Nat
      /\ slot \in [Side -> [Item -> Task \cup {None}]]
      /\ UNCHANGED <<entries, generation, registered, deletions, dropped, evicted>>
  BY StateFacts DEF Cancel, registry
<1> DEFINE k == task[t]
           s == Head(k.todo)
           leaders == {slot[s][x] : x \in k.doomed} \ {None}
           l == IF BySubject(t) THEN NextSide(t) ELSE [k EXCEPT !.pc = "drop"]
<1>1. /\ slot' = [slot EXCEPT ![s] = [x \in Item |-> IF x \in k.doomed THEN None ELSE slot[s][x]]]
      /\ task' = [u \in Task |-> IF u = t THEN l
                                 ELSE IF \E v \in leaders : u \in Waiters(v) THEN Idle
                                 ELSE task[u]]
      /\ IF BySubject(t) THEN NoteReturn(t) ELSE returned' = returned
  BY DEF Cancel
<1>n. /\ s \in Side /\ k.op \notin ByIdentifier /\ generation[s] > 0
      /\ Len(k.todo) = 1 => Left(k.todo) = {s}
      /\ \A r \in Side : Bumped(k, r) <=> r \notin Left(k.todo) \ {s}
  BY <1>t, NextSideIs
<1>2. /\ l \in Locals /\ LocalOK(l) /\ l.op \notin ByIdentifier /\ ~Reading(l)
      /\ l.pc \in {"idle", "bump", "drop"} /\ CountOK(l)
      /\ \A r \in Side : Bumped(l, r) => Bumped(k, r) /\ l.ordinal = k.ordinal
      /\ l.quiet => /\ k.quiet /\ l.ordinal = k.ordinal
                    /\ \A r \in Side : Cleared(l, r) => Cleared(k, r)
      /\ l.pc = "drop" => Head(l.todo) = s
  <2>1. CASE BySubject(t)
    <3>1. l = NextSide(t)
      BY <2>1
    <3> HIDE DEF l
    <3>2. /\ l \in Locals /\ LocalOK(l) /\ l.op \notin ByIdentifier /\ ~Reading(l)
          /\ l.pc \in {"idle", "bump"} /\ CountOK(l)
          /\ \A r \in Side : Bumped(l, r) => Bumped(k, r) /\ l.ordinal = k.ordinal
          /\ l.quiet => /\ k.quiet /\ l.ordinal = k.ordinal
                        /\ \A r \in Side : Cleared(l, r) => Cleared(k, r) \/ r = s
      BY <1>t, <3>1, NextSideIs
    <3>3. Cleared(k, s)
      BY <1>t DEF Cleared
    <3>4. QED
      BY <3>2, <3>3
  <2>2. CASE ~BySubject(t)
    <3>1. l = [k EXCEPT !.pc = "drop"]
      BY <2>2
    <3> HIDE DEF l, s
    <3>2. /\ l \in Locals /\ l.pc = "drop" /\ l.op = k.op /\ l.at = k.at /\ l.item = k.item
          /\ l.outcome = k.outcome /\ l.todo = k.todo /\ l.ordinal = k.ordinal
          /\ l.quiet = k.quiet
      BY <1>t, <3>1 DEF Locals, PC
    <3>3. LocalOK(l) /\ ~l.quiet
      BY <1>t, <2>2, <3>2 DEF LocalOK, Invalidating, BySubject
    <3>4. ~Reading(l) /\ CountOK(l) /\ \A r \in Side : Bumped(l, r) => Bumped(k, r)
      BY <1>t, <3>2 DEF Reading, CountOK, Bumped, Invalidating
    <3>5. QED
      BY <1>n, <3>2, <3>3, <3>4 DEF s
  <2>3. QED
    BY <2>1, <2>2
<1> HIDE DEF l
<1>3. task'[t] = l /\ Only(t) /\ Others(t)
  <2>1. \A u \in Task \ {t} : task'[u] = task[u] \/ (task[u].pc = "wait" /\ task'[u] = Idle)
    BY <1>1 DEF Waiters
  <2>2. QED
    BY <1>t, <1>1, <2>1, Constants DEF Only, Others, SameCall
<1>4. /\ slot' \in [Side -> [Item -> Task \cup {None}]]
      /\ \A r \in Side, x \in Item :
           slot'[r][x] = IF r = s /\ x \in k.doomed THEN None ELSE slot[r][x]
  <2> HIDE DEF s
  <2>1. QED
    BY <1>t, <1>n, <1>1
<1>5. SlotMoves(t)
  <2>1. \A r \in Side, x \in Item : slot[r][x] # t
    BY <1>t, OwnSlot
  <2>2. ASSUME NEW x \in Item, x \in k.doomed, slot[s][x] # None,
               NEW w \in Task \ {t}, task[w].pc = "wait", task[w].leader = slot[s][x]
        PROVE  task'[w].pc # "wait"
    <3>1. slot[s][x] \in leaders /\ w \in Waiters(slot[s][x])
      BY <2>2 DEF Waiters
    <3>2. task'[w] = Idle
      BY <1>1, <2>2, <3>1
    <3>3. QED
      BY <3>2, Constants
  <2> HIDE DEF s, leaders
  <2>3. QED
    BY <1>n, <1>4, <2>1, <2>2 DEF SlotMoves
<1>6. TypeInv' /\ CountInv'
  <2>1. task' \in [Task -> Locals] /\ \A u \in Task : LocalOK(task'[u])
    BY <1>2, <1>3, OthersTypes DEF Only, RegInv
  <2>2. returned' \in Nat /\ returned' <= deletions
    <3>1. /\ returned \in Nat /\ returned <= deletions
          /\ k.ordinal \in Nat /\ k.ordinal <= deletions
      BY <1>t DEF RegInv, TypeInv, CountInv, CountOK, Locals
    <3>2. QED
      BY <1>1, <3>1 DEF NoteReturn
  <2>3. TypeInv'
    BY <1>t, <1>4, <2>1, <2>2 DEF TypeInv, RegInv, LocalOK
  <2>4. CountOK(task[t])'
    BY <1>t, <1>2, <1>3 DEF CountOK
  <2>5. QED
    BY <1>t, <1>3, <2>2, <2>3, <2>4, CountStays DEF RegInv, CountInv
<1>7. returned' = returned \/ ReturnInv'
  <2> SUFFICES ASSUME returned' # returned PROVE ReturnInv'
    OBVIOUS
  <2>1. returned' = k.ordinal /\ k.quiet /\ Len(k.todo) = 1
    BY <1>1 DEF NoteReturn
  <2>2. \A r \in Side : Bumped(k, r) /\ Cleared(k, r)
    BY <1>t, <1>n, <2>1 DEF Cleared
  <2>3. \A r \in Side, x \in Item : NotOlder(entries'[r][x], k.ordinal)
    BY <1>t, <2>1, <2>2 DEF RegInv, QuietInv
  <2>4. QED
    BY <1>t, <1>2, <1>3, <2>1, <2>2, <2>3, ReturnsNow
<1>8. \A r \in Side, x \in Item :
        entries'[r][x] = entries[r][x] /\ (HeldNow(r, x) => HeldNext(r, x))
  BY <1>t DEF HeldNow, HeldNext
<1>9. \A r \in Side : generation'[r] >= generation[r] /\ dropped'[r] = dropped[r]
  BY <1>t
<1>10. l.pc = "drop" => generation'[Head(l.todo)] > 0
  BY <1>t, <1>2, <1>n
<1>11. QED
  BY <1>t, <1>2, <1>3, <1>5, <1>6, <1>7, <1>8, <1>9, <1>10, CacheStep

LEMMA DropEntriesStep ==
  ASSUME RegInv, NEW t \in Task, DropEntries(t)
  PROVE  RegInv'
<1>t. /\ task[t].pc = "drop" /\ task \in [Task -> Locals] /\ task[t] \in Locals
      /\ LocalOK(task[t]) /\ CountOK(task[t])
      /\ generation \in [Side -> Nat] /\ deletions \in Nat
      /\ entries \in [Side -> [Item -> Value \cup {None}]]
      /\ slot' = slot /\ UNCHANGED <<generation, registered, deletions, evicted>>
      /\ dropped \in [Side -> Nat] /\ \A s \in Side : dropped[s] <= deletions
      /\ returned \in Nat /\ returned <= deletions
  BY StateFacts DEF DropEntries, registry, RegInv, TypeInv, CountInv
<1> DEFINE k == task[t]
           s == Head(k.todo)
           D == IF BySubject(t) THEN {x \in Item : entries[s][x] # None /\ entries[s][x].subject}
                                ELSE k.doomed
           l == IF BySubject(t) /\ D # {} THEN [k EXCEPT !.pc = "cancel", !.doomed = D]
                                          ELSE NextSide(t)
<1>1. /\ entries' = [entries EXCEPT ![s] = [x \in Item |-> IF x \in D THEN None ELSE entries[s][x]]]
      /\ task' = [task EXCEPT ![t] = l]
      /\ dropped' = [dropped EXCEPT ![s] = IF k.ordinal > dropped[s] THEN k.ordinal ELSE dropped[s]]
      /\ IF BySubject(t) /\ D # {} THEN returned' = returned ELSE NoteReturn(t)
  BY <1>t DEF DropEntries
<1>n. /\ s \in Side /\ k.op \notin ByIdentifier /\ generation[s] > 0
      /\ Len(k.todo) = 1 => Left(k.todo) = {s}
      /\ \A r \in Side : Bumped(k, r) <=> r \notin Left(k.todo) \ {s}
  BY <1>t, NextSideIs
<1>2. /\ l \in Locals /\ LocalOK(l) /\ l.op \notin ByIdentifier /\ ~Reading(l)
      /\ l.pc \in {"idle", "bump", "cancel"} /\ CountOK(l)
      /\ \A r \in Side : Bumped(l, r) => Bumped(k, r) /\ l.ordinal = k.ordinal
      /\ l.quiet => /\ k.quiet /\ l.ordinal = k.ordinal
                    /\ \A r \in Side : Cleared(l, r) => Cleared(k, r) \/ r = s
      /\ l.pc = "cancel" => Head(l.todo) = s
  <2>1. CASE ~(BySubject(t) /\ D # {})
    <3>1. l = NextSide(t)
      BY <2>1
    <3> HIDE DEF l, D
    <3>2. /\ l \in Locals /\ LocalOK(l) /\ l.op \notin ByIdentifier /\ ~Reading(l)
          /\ l.pc \in {"idle", "bump"} /\ CountOK(l)
          /\ \A r \in Side : Bumped(l, r) => Bumped(k, r) /\ l.ordinal = k.ordinal
          /\ l.quiet => /\ k.quiet /\ l.ordinal = k.ordinal
                        /\ \A r \in Side : Cleared(l, r) => Cleared(k, r) \/ r = s
      BY <1>t, <3>1, NextSideIs
    <3>3. QED
      BY <3>2
  <2>2. CASE BySubject(t) /\ D # {}
    <3>0. PICK E \in SUBSET Item : E = D
      BY <2>2
    <3>1. l = [k EXCEPT !.pc = "cancel", !.doomed = E]
      BY <2>2, <3>0
    <3> HIDE DEF l, s, D
    <3>2. /\ l \in Locals /\ l.pc = "cancel" /\ l.op = k.op /\ l.at = k.at /\ l.item = k.item
          /\ l.outcome = k.outcome /\ l.todo = k.todo /\ l.ordinal = k.ordinal
          /\ l.quiet = k.quiet
      BY <1>t, <3>1 DEF Locals, PC
    <3>3. LocalOK(l)
      BY <1>t, <3>2 DEF LocalOK, Invalidating
    <3>4. /\ ~Reading(l) /\ CountOK(l)
          /\ \A r \in Side : /\ Bumped(l, r) => Bumped(k, r)
                             /\ Cleared(l, r) => Cleared(k, r) \/ r = s
      BY <1>t, <3>2 DEF Reading, CountOK, Bumped, Invalidating, Cleared, s
    <3>5. QED
      BY <1>n, <3>2, <3>3, <3>4 DEF s
  <2>3. QED
    BY <2>1, <2>2
<1>e. /\ entries' \in [Side -> [Item -> Value \cup {None}]]
      /\ \A r \in Side, x \in Item :
           entries'[r][x] = IF r = s /\ x \in D THEN None ELSE entries[r][x]
  <2> HIDE DEF s, D
  <2>1. QED
    BY <1>t, <1>n, <1>1
<1>q. k.quiet => \A m : \A x \in Item : NotOlder(entries'[s][x], m)
  <2> SUFFICES ASSUME k.quiet, NEW x \in Item, NEW m, entries'[s][x] \in Value,
                      entries'[s][x].subject
               PROVE  FALSE
    BY DEF NotOlder
  <2>1. BySubject(t)
    BY <1>t DEF LocalOK, BySubject
  <2>2. x \notin D /\ entries[s][x] = entries'[s][x]
    BY <1>n, <1>e, Constants
  <2>3. QED
    BY <2>1, <2>2, Constants
<1>d. /\ dropped' \in [Side -> Nat]
      /\ \A r \in Side : \/ dropped'[r] = dropped[r]
                         \/ r = s /\ dropped'[r] = k.ordinal
  <2>1. k.ordinal \in Nat
    BY <1>t DEF Locals
  <2> HIDE DEF s
  <2>2. QED
    BY <1>t, <1>n, <1>1, <2>1
<1> HIDE DEF l, D
<1>3. Others(t) /\ Only(t) /\ task'[t] = l
  BY <1>1, <1>2, OneTask
<1>4. SlotMoves(t)
  BY <1>t, SlotsKept
<1>5. TypeInv' /\ CountInv'
  <2>1. task' \in [Task -> Locals] /\ \A u \in Task : LocalOK(task'[u])
    BY <1>2, <1>3, OthersTypes DEF Only, RegInv
  <2>2. k.ordinal \in Nat /\ k.ordinal <= deletions
    BY <1>t DEF CountOK, Locals
  <2>3. returned' \in Nat /\ returned' <= deletions
    BY <1>t, <1>1, <2>2 DEF NoteReturn
  <2>4. TypeInv'
    BY <1>t, <1>e, <1>d, <2>1, <2>3 DEF TypeInv, RegInv, LocalOK
  <2>5. CountOK(task[t])'
    BY <1>t, <1>2, <1>3 DEF CountOK
  <2>6. \A r \in Side : dropped'[r] <= deletions'
    BY <1>t, <1>d, <2>2
  <2>7. QED
    BY <1>t, <1>3, <2>3, <2>4, <2>5, <2>6, CountStays
<1>6. returned' = returned \/ ReturnInv'
  <2> SUFFICES ASSUME returned' # returned PROVE ReturnInv'
    OBVIOUS
  <2>1. returned' = k.ordinal /\ k.quiet /\ Len(k.todo) = 1
    BY <1>1 DEF NoteReturn
  <2>2. \A r \in Side : Bumped(k, r) /\ (Cleared(k, r) \/ r = s)
    BY <1>t, <1>n, <2>1 DEF Cleared
  <2>3. ASSUME NEW r \in Side, NEW x \in Item
        PROVE  NotOlder(entries'[r][x], k.ordinal)
    <3>1. CASE r = s
      BY <1>q, <2>1, <3>1
    <3>2. CASE r # s
      BY <1>e, <2>1, <2>2, <3>2 DEF RegInv, QuietInv
    <3>3. QED
      BY <3>1, <3>2
  <2>4. QED
    BY <1>t, <1>2, <1>3, <2>1, <2>2, <2>3, ReturnsNow
<1>7. \A r \in Side, x \in Item :
        /\ entries'[r][x] \in {None, entries[r][x]}
        /\ HeldNow(r, x) => HeldNext(r, x) \/ generation'[r] > 0
  BY <1>t, <1>e, <1>n DEF HeldNow, HeldNext
<1>8. l.quiet => /\ k.quiet /\ l.ordinal = k.ordinal
                 /\ \A r \in Side, x \in Item : Cleared(l, r) =>
                      Cleared(k, r) \/ NotOlder(entries'[r][x], k.ordinal)
  BY <1>2, <1>q
<1>9. /\ \A r \in Side : /\ generation'[r] >= generation[r]
                         /\ dropped'[r] = dropped[r] \/ (Bumped(k, r) /\ dropped'[r] = k.ordinal)
      /\ l.pc = "cancel" => generation'[Head(l.todo)] > 0
  BY <1>t, <1>2, <1>d, <1>n
<1>10. QED
  BY <1>t, <1>2, <1>3, <1>4, <1>5, <1>6, <1>7, <1>8, <1>9, CacheStep

------------------------------------------------------------------------------
(***************************************************************************)
(* A leader stores its value and shares it with its waiters.               *)
(***************************************************************************)
LEMMA StoreStep ==
  ASSUME RegInv, NEW t \in Task, Store(t)
  PROVE  RegInv'
<1>t. /\ task[t].pc = "store" /\ task \in [Task -> Locals] /\ task[t] \in Locals
      /\ LocalOK(task[t]) /\ CountOK(task[t])
      /\ generation \in [Side -> Nat] /\ deletions \in Nat
      /\ entries \in [Side -> [Item -> Value \cup {None}]]
      /\ slot' = slot /\ UNCHANGED <<generation, registered, deletions, dropped, returned>>
  BY StateFacts DEF Store, registry, history
<1> DEFINE k == task[t]
           s == LookupSide(k.op)
           x == k.item
           v == IF entries[s][x] = None THEN k.outcome ELSE entries[s][x]
           Woken(u) == u = t \/ u \in Waiters(t)
<1>o. /\ k.op \in ByIdentifier /\ x \in Item /\ s \in Side
      /\ k.outcome \in Value /\ k.outcome.item = x
  BY <1>t, LookupSides DEF LocalOK
<1>v. v \in Value /\ v # None /\ v.item = x /\ NotOlder(v, returned)
  <2>1. CASE entries[s][x] = None
    BY <1>o, <2>1, StateFacts, Constants
  <2>2. CASE entries[s][x] # None
    <3>1. entries[s][x] \in Value
      BY <1>t, <1>o, <2>2
    <3>2. entries[s][x].item = x /\ NotOlder(entries[s][x], returned)
      BY <1>o, <2>2 DEF RegInv, FillInv, ReturnInv
    <3>3. QED
      BY <2>2, <3>1, <3>2
  <2>3. QED
    BY <2>1, <2>2
<1>1. /\ IF entries[s][x] = None THEN Insert(s, x, v) ELSE UNCHANGED <<entries, evicted>>
      /\ task' = [u \in Task |->
           IF u = t THEN Indexing(k, v)
           ELSE IF u \in Waiters(t) THEN Indexing([task[u] EXCEPT !.leader = None], v)
           ELSE task[u]]
  BY DEF Store
<1>s. \A r \in Side, y \in Item : slot[r][y] # t
  BY <1>t, StateFacts DEF Fetches
<1> HIDE DEF s, v
<1>2. ASSUME NEW u \in Task, Woken(u)
      PROVE  /\ task[u].pc \in {"wait", "store"} /\ task[u].op \in ByIdentifier
             /\ ~task[u].quiet
             /\ task'[u] \in Locals /\ LocalOK(task'[u])
             /\ \/ task'[u] = Idle
                \/ /\ task'[u].pc = "index" /\ task'[u].op = task[u].op
                   /\ task'[u].at = task[u].at /\ task'[u].outcome = v
                   /\ task'[u].ordinal = 0 /\ task'[u].quiet = FALSE
                   /\ \A r \in Side : r \notin Left(task'[u].todo) => r = s
  <2> DEFINE l == IF u = t THEN k ELSE [task[u] EXCEPT !.leader = None]
  <2>0. /\ task[u] \in Locals /\ LocalOK(task[u]) /\ task[u].pc \in {"wait", "store"}
        /\ task'[u] = Indexing(l, v)
    BY <1>t, <1>1, <1>2, StateFacts DEF Waiters
  <2>1. /\ task[u].op \in ByIdentifier /\ task[u].item \in Item
        /\ task[u].ordinal = 0 /\ ~task[u].quiet
    BY <2>0 DEF LocalOK, Invalidating
  <2>2. LookupSide(task[u].op) = s /\ task[u].item = x
    <3>1. CASE u = t
      BY <3>1 DEF s
    <3>2. CASE u # t
      <4>1. task[u].pc = "wait" /\ task[u].leader = t
        BY <1>2, <3>2 DEF Waiters
      <4>2. LookupSide(task[u].op) \in Side
        BY LookupSides
      <4>3. Looks(task[u], LookupSide(task[u].op), task[u].item)
        BY <2>1 DEF Looks
      <4>4. \/ slot[LookupSide(task[u].op)][task[u].item] = t
            \/ Stores(k, LookupSide(task[u].op), task[u].item)
        BY <2>1, <4>1, <4>2, <4>3 DEF RegInv, WaitInv
      <4>5. Stores(k, LookupSide(task[u].op), task[u].item)
        BY <1>s, <2>1, <4>2, <4>4
      <4>6. QED
        BY <4>5 DEF Stores, Looks, s
    <3>3. QED
      BY <3>1, <3>2
  <2>3. /\ l \in Locals /\ l.op = task[u].op /\ l.item = task[u].item /\ l.at = task[u].at
        /\ l.ordinal = 0 /\ ~l.quiet
    BY <2>0, <2>1 DEF Locals
  <2> HIDE DEF l
  <2>4. /\ Indexing(l, v) \in Locals /\ LocalOK(Indexing(l, v))
        /\ l.op = "warm" => Indexing(l, v) = Idle
        /\ l.op # "warm" =>
              /\ Indexing(l, v).pc = "index" /\ Indexing(l, v).op = l.op
              /\ Indexing(l, v).at = l.at /\ Indexing(l, v).outcome = v
              /\ Indexing(l, v).ordinal = 0 /\ Indexing(l, v).quiet = FALSE
              /\ Side \ Left(Indexing(l, v).todo)
                   = IF l.op = "latest" THEN {} ELSE {LookupSide(l.op)}
    BY <1>v, <2>1, <2>2, <2>3, IndexingIs
  <2>5. task[u].op # "latest"
    BY <2>1, Constants
  <2>6. QED
    BY <2>0, <2>1, <2>2, <2>3, <2>4, <2>5
<1>3. \A u \in Task : ~Woken(u) => task'[u] = task[u]
  BY <1>1
<1>p. Woken(t)
  OBVIOUS
<1>w. \A u \in Task \ {t} : Woken(u) <=> task[u].pc = "wait" /\ task[u].leader = t
  BY DEF Waiters
<1> HIDE DEF Woken
<1>4. /\ entries' \in [Side -> [Item -> Value \cup {None}]]
      /\ evicted' \in [Side -> SUBSET Item]
      /\ entries'[s][x] = v /\ HeldNext(s, x)
      /\ \A r \in Side, y \in Item :
           /\ entries'[r][y] \in {None, entries[r][y]} \/ (r = s /\ y = x)
           /\ HeldNow(r, y) => HeldNext(r, y) \/ generation[r] > 0
  <2>1. TypeInv /\ s \in Side
    BY <1>o DEF RegInv
  <2>2. CASE entries[s][x] = None
    BY <1>o, <1>v, <1>1, <2>1, <2>2, Inserted
  <2>3. CASE entries[s][x] # None
    <3>1. UNCHANGED <<entries, evicted>> /\ v = entries[s][x]
      BY <1>1, <2>3 DEF v
    <3>2. QED
      BY <1>v, <2>1, <3>1 DEF TypeInv, HeldNow, HeldNext
  <2>4. QED
    BY <2>2, <2>3
<1>5. TypeInv'
  <2>1. \A u \in Task : task'[u] \in Locals /\ LocalOK(task'[u])
    BY <1>2, <1>3, StateFacts
  <2>2. task' \in [Task -> Locals]
    BY <1>1, <2>1
  <2>3. QED
    BY <1>t, <1>4, <2>1, <2>2 DEF TypeInv, RegInv, LocalOK
<1>6. CountInv'
  <2>1. ASSUME NEW u \in Task
        PROVE  task'[u].ordinal <= deletions /\ \A r \in Side : task'[u].at[r] <= generation[r]
    <3>1. CASE Woken(u)
      <4>1. /\ task'[u].ordinal = 0
            /\ task'[u].at = task[u].at \/ task'[u].at = [r \in Side |-> 0]
        BY <1>2, <3>1, Constants
      <4>2. QED
        BY <1>t, <4>1, StateFacts DEF CountOK
    <3>2. CASE ~Woken(u)
      BY <1>3, <3>2, StateFacts DEF CountOK
    <3>3. QED
      BY <3>1, <3>2
  <2>2. QED
    BY <1>t, <2>1 DEF RegInv, CountInv, CountOK
<1>7. /\ \A u \in Task : /\ Reading(task'[u]) => task'[u] = task[u]
                         /\ task'[u].quiet => task'[u] = task[u]
      /\ \A u \in Task, r \in Side : Bumped(task'[u], r) => task'[u] = task[u]
      /\ \A u \in Task : task'[u].op \in ByIdentifier => NotOlder(task'[u].outcome, returned)
  <2>1. ASSUME NEW u \in Task, Woken(u)
        PROVE  /\ ~Reading(task'[u]) /\ ~task'[u].quiet
               /\ \A r \in Side : ~Bumped(task'[u], r)
               /\ task'[u].op \in ByIdentifier => NotOlder(task'[u].outcome, returned)
    BY <1>2, <1>v, <2>1, Constants DEF Reading, Bumped, Invalidating
  <2>2. QED
    BY <1>3, <2>1, StateFacts
<1>8. ReadInv'
  <2>1. \A r \in Side : generation'[r] >= generation[r]
    BY <1>t
  <2>2. QED
    BY <1>t, <1>5, <1>6, <1>7, <2>1, ReadStays
<1>9. QuietInv'
  <2>1. \A u \in Task : ~task'[u].quiet
    BY <1>o, <1>7 DEF RegInv, QuietInv
  <2>2. QED
    BY <2>1, QuietStays
<1>10. ReturnInv'
  <2>1. \A r \in Side : generation'[r] >= generation[r]
    BY <1>t
  <2>2. \A r \in Side, y \in Item :
          entries'[r][y] \in {None, entries[r][y]} \/ NotOlder(entries'[r][y], returned)
    BY <1>4, <1>v
  <2>3. QED
    BY <1>t, <1>5, <1>6, <1>7, <2>1, <2>2, ReturnStays
<1>11. KeepsOrWakes(t)
  <2>1. ASSUME NEW u \in Task \ {t}
        PROVE  \/ SameCall(task'[u], task[u])
               \/ task[u].pc = "wait" /\ task'[u].pc \in {"idle", "index"}
    BY <1>2, <1>3, <1>w, Constants DEF SameCall
  <2>2. QED
    BY <2>1 DEF KeepsOrWakes
<1>12. SlotMoves(t)
  BY <1>t, SlotsKept
<1>13. task'[t].pc \in {"idle", "index"}
  BY <1>2, <1>p, Constants
<1>14. SlotInv' /\ WaitInv'
  <2>1. ASSUME NEW u \in Task \ {t}, task'[u].pc = "wait" PROVE task'[u].leader # t
    <3>1. ~Woken(u)
      BY <1>2, <2>1, Constants
    <3>2. QED
      BY <1>3, <1>w, <2>1, <3>1
  <2>2. QED
    BY <1>11, <1>12, <1>13, <2>1, SlotStays, WaitStays
<1>15. FillInv'
  <2>1. /\ \A r \in Side : generation'[r] >= generation[r]
        /\ \A r \in Side, y \in Item : Fetches(task'[t], r, y) => FALSE
    BY <1>t, <1>13 DEF Fetches
  <2>2. \A r \in Side, y \in Item :
          /\ entries'[r][y] \in {None, entries[r][y]} \/ entries'[r][y].item = y
          /\ HeldNow(r, y) => HeldNext(r, y) \/ generation'[r] > 0
    BY <1>t, <1>4, <1>v
  <2>3. ASSUME NEW u \in Task, NEW r \in Side, task'[u].pc = "index", r \notin Left(task'[u].todo)
        PROVE  \/ /\ task[u].pc = "index" /\ task'[u].outcome = task[u].outcome
                  /\ r \notin Left(task[u].todo)
               \/ HeldNext(r, task'[u].outcome.item)
    <3>1. CASE Woken(u)
      <4>1. task'[u].outcome = v /\ r = s
        BY <1>2, <2>3, <3>1, Constants
      <4>2. QED
        BY <1>o, <1>v, <1>4, <4>1
    <3>2. CASE ~Woken(u)
      BY <1>3, <2>3, <3>2
    <3>3. QED
      BY <3>1, <3>2
  <2>4. QED
    BY <1>t, <1>5, <1>11, <1>12, <1>13, <2>1, <2>2, <2>3, FillStays
<1>16. QED
  BY <1>5, <1>6, <1>8, <1>9, <1>10, <1>14, <1>15 DEF RegInv

LEMMA RegisterStep ==
  ASSUME RegInv, Register
  PROVE  RegInv'
<1>1. /\ registered' = TRUE
      /\ UNCHANGED <<entries, generation, slot, task, deletions, dropped, returned, evicted>>
  BY DEF Register, history
<1>2. TypeInv'
  BY <1>1 DEF RegInv, TypeInv, LocalOK
<1>3. CountInv' /\ ReadInv' /\ QuietInv' /\ ReturnInv'
  BY <1>1 DEF RegInv, CountInv, CountOK, ReadInv, QuietInv, ReturnInv, Reading, Bumped,
              Cleared, NotOlder
<1>4. SlotInv' /\ WaitInv' /\ FillInv'
  BY <1>1 DEF RegInv, SlotInv, WaitInv, FillInv, Fetches, Looks, Stores, Has, HeldNow
<1>5. QED
  BY <1>2, <1>3, <1>4 DEF RegInv

------------------------------------------------------------------------------
(***************************************************************************)
(* The invariant.                                                          *)
(***************************************************************************)
LEMMA RegInvInit == Init => RegInv
<1> SUFFICES ASSUME Init PROVE RegInv
  OBVIOUS
<1>t. /\ \A t \in Task : task[t] = Idle
      /\ \A s \in Side, x \in Item : entries[s][x] = None /\ slot[s][x] = None
      /\ \A s \in Side : generation[s] = 0 /\ dropped[s] = 0
      /\ deletions = 0 /\ returned = 0
  BY DEF Init
<1>1. TypeInv
  BY <1>t, Constants DEF Init, TypeInv
<1>2. CountInv
  BY <1>t, Constants DEF CountInv, CountOK
<1>3. ReadInv /\ QuietInv /\ ReturnInv
  BY <1>t, Constants DEF ReadInv, QuietInv, ReturnInv, Reading, NotOlder
<1>4. SlotInv /\ WaitInv /\ FillInv
  BY <1>t, Constants DEF SlotInv, WaitInv, FillInv, Fetches
<1>5. QED
  BY <1>1, <1>2, <1>3, <1>4 DEF RegInv

LEMMA RegInvStep == RegInv /\ [Next]_vars => RegInv'
<1> SUFFICES ASSUME RegInv, [Next]_vars PROVE RegInv'
  OBVIOUS
<1>1. CASE UNCHANGED vars
  BY <1>1 DEF vars, RegInv, TypeInv, LocalOK, CountInv, CountOK, ReadInv, QuietInv, ReturnInv,
              SlotInv, WaitInv, FillInv, Reading, Bumped, Cleared, NotOlder, Fetches, Looks,
              Stores, Has, HeldNow
<1>2. CASE Register
  BY <1>2, RegisterStep
<1>3. ASSUME NEW t \in Task, NEW op \in Op, NEW x \in Item \cup {None}, SampleId(t, op, x)
      PROVE  RegInv'
  BY <1>3, SampleIdStep
<1>4. ASSUME NEW t \in Task,
             SampleGuid(t) \/ Lookup(t) \/ Populate(t) \/ Claim(t) \/ Store(t) \/ Index(t)
      PROVE  RegInv'
  BY <1>4, SampleGuidStep, LookupStep, PopulateStep, ClaimStep, StoreStep, IndexStep
<1>5. ASSUME NEW t \in Task, NEW x \in Item, Warm(t, x)
      PROVE  RegInv'
  BY <1>5, WarmStep
<1>6. ASSUME NEW t \in Task, NEW v \in Answers(t) \cup {Failed}, Answer(t, v)
      PROVE  RegInv'
  BY <1>6, AnswerStep
<1>7. ASSUME NEW t \in Task,
             \/ Delete(t) \/ DeleteFails(t)
             \/ \E op \in Op, X \in SUBSET Item : Invalidate(t, op, X)
      PROVE  RegInv'
  BY <1>7, CallBoundaries
<1>8. ASSUME NEW t \in Task,
             Drop(t) \/ DeleteDone(t) \/ DeleteLost(t) \/ Bump(t) \/ Cancel(t) \/ DropEntries(t)
      PROVE  RegInv'
  BY <1>8, DropStep, DeletionStep, BumpStep, CancelStep, DropEntriesStep
<1>9. Known \subseteq Item
  BY RegistryAssumption
<1>10. QED
  BY <1>1, <1>2, <1>3, <1>4, <1>5, <1>6, <1>7, <1>8, <1>9 DEF Next

\* Every state of the two caches, of the fetches and of the calls under way
\* satisfies the invariant.
THEOREM RegistryInvariant == Spec => []RegInv
  BY RegInvInit, RegInvStep, PTL DEF Spec

------------------------------------------------------------------------------
(***************************************************************************)
(* What follows from it.                                                   *)
(***************************************************************************)
\* delete_subject and delete_version: once a deletion that no lookup by ID or
\* GUID overlapped has returned Ok, neither cache holds a value that names the
\* subject and was read before the deletion, whatever reads by subject,
\* invalidations and other deletions ran meanwhile.
THEOREM DeletionsAreDropped == Spec => []DeletedIsDropped
<1>1. RegInv => DeletedIsDropped
  <2> SUFFICES ASSUME RegInv, NEW s \in Side, NEW x \in Item,
                      entries[s][x] # None, entries[s][x].subject
               PROVE  entries[s][x].born >= returned
    BY DEF DeletedIsDropped
  <2>1. entries[s][x] \in Value
    BY DEF RegInv, TypeInv
  <2>2. NotOlder(entries[s][x], returned)
    BY DEF RegInv, ReturnInv
  <2>3. QED
    BY <2>1, <2>2 DEF NotOlder
<1>2. QED
  BY <1>1, RegistryInvariant, PTL

\* Which steps change the entries, and whose locals a step changes.
LEMMA EntriesChange ==
  ASSUME Next, entries' # entries
  PROVE  \E t \in Task : Store(t) \/ Index(t) \/ DropEntries(t)
<1>1. Register => entries' = entries
  BY DEF Register
<1>2. ASSUME NEW t \in Task
      PROVE  /\ \A op \in Op : \A x \in Item \cup {None} : SampleId(t, op, x) => entries' = entries
             /\ SampleGuid(t) \/ Lookup(t) \/ Populate(t) \/ Claim(t) => entries' = entries
             /\ \A x \in Item : Warm(t, x) => entries' = entries
             /\ \A v \in Answers(t) \cup {Failed} : Answer(t, v) => entries' = entries
  BY DEF SampleId, SampleGuid, Lookup, Populate, Claim, Warm, Answer
<1>3. ASSUME NEW t \in Task
      PROVE  /\ Drop(t) \/ Delete(t) \/ DeleteDone(t) \/ DeleteLost(t) \/ DeleteFails(t)
                  => entries' = entries
             /\ \A op \in Op, X \in SUBSET Item : Invalidate(t, op, X) => entries' = entries
             /\ Bump(t) \/ Cancel(t) => entries' = entries
  BY DEF Drop, Delete, DeleteDone, DeleteLost, DeleteFails, Invalidate, Bump, Cancel
<1>4. Known \subseteq Item
  BY RegistryAssumption
<1>5. QED
  BY <1>1, <1>2, <1>3, <1>4 DEF Next

\* get_latest_schema and get_schema_by_version: what they have read before a
\* deletion is never put into a cache that the deletion has already dropped
\* the subject from, since insert_if_current compares generations that were
\* sampled before the read.
THEOREM SubjectReadsAreCurrent == Spec => SubjectReadsStayCurrent
<1> DEFINE A == \A t \in Task, s \in Side, x \in Item :
                  /\ task[t].op = "latest" /\ task'[t] # task[t]
                  /\ entries'[s][x] \notin {None, entries[s][x]}
                  => entries'[s][x].born >= dropped[s]
<1>1. RegInv /\ [Next]_vars => [A]_vars
  <2> SUFFICES ASSUME RegInv, Next, NEW t \in Task, NEW s \in Side, NEW x \in Item,
                      task[t].op = "latest", task'[t] # task[t],
                      entries'[s][x] \notin {None, entries[s][x]}
               PROVE  entries'[s][x].born >= dropped[s]
    OBVIOUS
  <2>t. task[t] \in Locals /\ LocalOK(task[t]) /\ task[t].op \notin ByIdentifier
        /\ entries \in [Side -> [Item -> Value \cup {None}]]
    BY StateFacts, Constants
  <2>1. PICK u \in Task : Store(u) \/ Index(u) \/ DropEntries(u)
    <3>1. entries' # entries
      OBVIOUS
    <3>2. QED
      BY <3>1, EntriesChange
  <2>u. LocalOK(task[u]) /\ task[u] \in Locals /\ task \in [Task -> Locals]
    BY StateFacts
  <2>2. CASE Store(u)
    <3>1. t # u /\ t \notin Waiters(u)
      BY <2>t, <2>2 DEF Store, Waiters, LocalOK
    <3>2. task'[t] = task[t]
      BY <2>2, <3>1 DEF Store
    <3>3. QED
      BY <3>2
  <2>3. CASE Index(u)
    <3> DEFINE v == task[t].outcome
               r == Head(task[t].todo)
    <3>1. t = u
      BY <2>3, <2>u DEF Index
    <3>2. task[t].pc = "index" /\ v \in Value /\ v.item \in Item /\ r \in Side
      BY <2>3, <2>t, <3>1, TodoFacts DEF Index, LocalOK, Locals, Value
    <3>3. /\ generation[r] = task[t].at[r] /\ Insert(r, v.item, v)
      BY <2>3, <3>1 DEF Index
    <3> HIDE DEF v, r
    <3>4. generation[r] = task[t].at[r] /\ s = r /\ entries'[s][x] = v
      <4>1. TypeInv
        BY DEF RegInv
      <4>2. QED
        BY <3>2, <3>3, <4>1, Inserted
    <3>5. Reading(task[t])
      BY <3>2 DEF Reading, v
    <3>6. QED
      BY <3>4, <3>5 DEF RegInv, ReadInv, v
  <2>4. CASE DropEntries(u)
    <3> DEFINE r == Head(task[u].todo)
    <3>1. r \in Side
      BY <2>4, <2>u, TodoFacts DEF DropEntries, LocalOK, Invalidating, Locals
    <3>2. PICK D : entries' =
             [entries EXCEPT ![r] = [y \in Item |-> IF y \in D THEN None ELSE entries[r][y]]]
      BY <2>4, <2>t, <3>1 DEF DropEntries
    <3> HIDE DEF r
    <3>3. QED
      BY <2>t, <3>1, <3>2
  <2>5. QED
    BY <2>1, <2>2, <2>3, <2>4
<1>2. QED
  BY <1>1, RegistryInvariant, PTL DEF Spec, SubjectReadsStayCurrent

\* Only a step of its own takes a call that indexes to another place.
LEMMA IndexesAlone ==
  ASSUME RegInv, Next, NEW t \in Task, task[t].pc = "index", task'[t].pc # "index"
  PROVE  Index(t)
<1>t. task \in [Task -> Locals]
  BY StateFacts
<1>1. Register => task'[t] = task[t]
  BY DEF Register
<1>2. ASSUME NEW u \in Task, NEW l, Starts(u, l), task[u].pc = "idle"
      PROVE  task'[t].pc = task[t].pc
  <2>1. u # t /\ task[t] \in Locals
    BY <1>t, <1>2
  <2>2. PICK b : b = (task[t].quiet /\ l.op \notin ByIdentifier)
    OBVIOUS
  <2>3. task'[t] = [task[t] EXCEPT !.quiet = b]
    BY <1>2, <2>1, <2>2 DEF Starts
  <2>4. QED
    BY <2>1, <2>3 DEF Locals
<1>3. ASSUME NEW u \in Task
      PROVE  /\ \A op \in Op : \A x \in Item \cup {None} :
                  SampleId(u, op, x) => task'[t].pc = task[t].pc
             /\ \A x \in Item : Warm(u, x) => task'[t].pc = task[t].pc
  BY <1>2 DEF SampleId, Warm
<1>4. ASSUME NEW u \in Task
      PROVE  /\ SampleGuid(u) \/ Lookup(u) \/ Populate(u) => task'[t] = task[t]
             /\ \A v \in Answers(u) \cup {Failed} : Answer(u, v) => task'[t] = task[t]
             /\ Claim(u) \/ Store(u) \/ Drop(u) => task'[t] = task[t]
  BY <1>t DEF SampleGuid, Lookup, Populate, Answer, Claim, Store, Drop, Waiters
<1>5. ASSUME NEW u \in Task
      PROVE  /\ Delete(u) \/ DeleteDone(u) \/ DeleteLost(u) \/ DeleteFails(u) => task'[t] = task[t]
             /\ \A op \in Op, X \in SUBSET Item : Invalidate(u, op, X) => task'[t] = task[t]
             /\ Bump(u) \/ Cancel(u) \/ DropEntries(u) => task'[t] = task[t]
  BY <1>t DEF Delete, DeleteDone, DeleteLost, DeleteFails, Invalidate, Bump, Cancel, DropEntries,
              Waiters
<1>6. ASSUME NEW u \in Task, Index(u), u # t
      PROVE  task'[t] = task[t]
  BY <1>t, <1>6 DEF Index
<1>7. Known \subseteq Item
  BY RegistryAssumption
<1>8. QED
  BY <1>1, <1>3, <1>4, <1>5, <1>6, <1>7 DEF Next

\* "One round-trip fills both indexes": where nothing has been invalidated, a
\* lookup by ID, GUID or subject that returns a schema leaves it cached under
\* every identifier its answer had, also when another task fetched it, unless
\* the insertion of another schema has evicted it since.
THEOREM CallsFillBothIndexes == Spec => CallFillsBothIndexes
<1> DEFINE A == \A t \in Task :
                  /\ task[t].pc = "index" /\ task'[t].pc = "idle"
                  /\ \A s \in Side : generation[s] = 0
                  => \A s \in Side : Has(task[t].outcome, s) =>
                       \/ entries'[s][task[t].outcome.item] # None
                       \/ task[t].outcome.item \in evicted'[s]
<1>1. RegInv /\ [Next]_vars => [A]_vars
  <2> SUFFICES ASSUME RegInv, Next, NEW t \in Task, task[t].pc = "index", task'[t].pc = "idle",
                      \A s \in Side : generation[s] = 0,
                      NEW s \in Side, Has(task[t].outcome, s)
               PROVE  HeldNext(s, task[t].outcome.item)
    BY DEF HeldNext
  <2>1. Index(t)
    BY IndexesAlone
  <2>t. /\ task \in [Task -> Locals] /\ task[t] \in Locals /\ LocalOK(task[t])
        /\ CountOK(task[t]) /\ entries \in [Side -> [Item -> Value \cup {None}]]
    BY StateFacts
  <2> DEFINE v == task[t].outcome
             r == Head(task[t].todo)
  <2>2. v \in Value /\ v # None /\ v.item \in Item /\ task[t].todo \in Todos \ {<<>>}
    BY <2>t, Constants DEF LocalOK, Locals, Value
  <2>3. Len(task[t].todo) = 1
    <3> SUFFICES ASSUME Len(task[t].todo) # 1 PROVE FALSE
      OBVIOUS
    <3>1. task'[t] = [task[t] EXCEPT !.todo = Tail(task[t].todo)]
      BY <2>1, <2>t DEF Index
    <3>2. PICK q : q = Tail(task[t].todo)
      OBVIOUS
    <3>3. task'[t].pc = task[t].pc
      BY <2>t, <3>1, <3>2 DEF Locals
    <3>4. QED
      BY <3>3
  <2>4. r \in Side /\ Left(task[t].todo) = {r}
    BY <2>2, <2>3, TodoFacts
  <2>5. generation[r] = task[t].at[r]
    BY <2>t, <2>4 DEF CountOK, Locals
  <2>6. IF Has(v, r) THEN Insert(r, v.item, v) ELSE UNCHANGED <<entries, evicted>>
    BY <2>1, <2>5 DEF Index
  <2>i. TypeInv
    BY DEF RegInv
  <2> HIDE DEF r
  <2>7. CASE s = r
    <3> HIDE DEF v
    <3>1. Has(v, r)
      BY <2>7 DEF v
    <3>2. HeldNext(s, v.item)
      BY <2>i, <2>2, <2>4, <2>6, <2>7, <3>1, Inserted
    <3>3. QED
      BY <3>2 DEF v
  <2>8. CASE s # r
    <3>1. HeldNow(s, v.item) /\ ~(generation[s] > 0)
      <4>1. HeldNow(s, v.item)
        BY <2>4, <2>8 DEF RegInv, FillInv
      <4>2. QED
        BY <4>1
    <3> HIDE DEF v
    <3>2. CASE Has(v, r)
      BY <2>i, <2>2, <2>4, <2>6, <3>1, <3>2, Inserted DEF v
    <3>3. CASE ~Has(v, r)
      BY <2>6, <3>1, <3>3 DEF HeldNow, HeldNext, v
    <3>4. QED
      BY <3>2, <3>3
  <2>9. QED
    BY <2>7, <2>8
<1>2. QED
  BY <1>1, RegistryInvariant, PTL DEF Spec, CallFillsBothIndexes

==============================================================================
