------------------------ MODULE CachedSchemaRegistry ------------------------
(***************************************************************************)
(* cache.rs: an ID cache and a GUID cache over one registry, each feeding  *)
(* the other, and what deletions make of them.                             *)
(*                                                                         *)
(* Both caches are of the type of module InMemoryCache and keep its        *)
(* critical sections: one step each for a counter, for the fetches under   *)
(* way and for the entries.  What that module shows is used to leave out   *)
(* tokens (a registered fetch has exactly one leader, so the slot is that  *)
(* leader) and the sending loop (a waiter that hears late is one that runs *)
(* late).  The queue of evictions is left out: a new key in a full cache   *)
(* evicts some other one, not always the oldest.                           *)
(*                                                                         *)
(* The registry (external) has one subject, which is registered or not.    *)
(* Deletion is soft: a schema stays resolvable by identifier.              *)
(***************************************************************************)
EXTENDS Naturals, Sequences, FiniteSets

CONSTANTS
  Task,                \* tasks sharing the client
  Item,                \* schemas; each has one ID and one GUID
  Known,               \* the schemas that are looked up by identifier
  Op,                  \* the operations called, out of Ops
  Guids,               \* the registry reports GUIDs (Confluent Platform 8)
  SubjectInIdAnswers,  \* answers to lookups by identifier may name a subject
  MaxEntries,          \* max_entries, at least 1 in each cache
  MaxGeneration,       \* bound on the invalidations of each cache
  MaxDeletions,        \* bound on the deletions that take effect
  None, Failed

Reads == {"id", "guid", "latest", "warm"}
Ops == Reads \cup {"delete", "subject", "clear", "invalidate", "invalidate_guid"}

ASSUME RegistryAssumption ==
  /\ Op \subseteq Ops /\ Known \subseteq Item
  /\ Guids \in BOOLEAN /\ SubjectInIdAnswers \in BOOLEAN
  /\ ~Guids => "guid" \notin Op
  /\ None \notin Ops \cup Item \cup Task
  /\ MaxEntries \in Nat \ {0} /\ MaxGeneration \in Nat /\ MaxDeletions \in Nat

Side == {"id", "guid"}   \* the fields `cache` and `guid_cache`

\* A Schema: how it was fetched, which says what identifiers it has, whether
\* it names the subject, and how many deletions the registry had seen.
Value == [item : Item, by : {"id", "guid", "subject"}, subject : BOOLEAN, born : Nat]
ASSUME ValueAssumption == None \notin Value /\ Failed \notin Value /\ None # Failed

\* An answer to a lookup by GUID carries no ID; others carry a GUID if the
\* registry has them.
Has(v, s) == IF s = "id" THEN v.by # "guid" ELSE v.by = "guid" \/ Guids

VARIABLES
  entries,     \* per cache and schema, the cached value
  generation,  \* per cache, invalidations begun
  slot,        \* per cache and schema, the leader of the registered fetch
  task,        \* the locals of each task's call
  registered,  \* registry: the subject has a version
  deletions,   \* registry: deletions that have taken effect
  dropped,     \* history: per cache, the newest deletion dropped from it
  returned,    \* history: the newest deletion that has returned Ok, met by no lookup
  evicted      \* history: per cache, before it is invalidated, the schemas evicted
               \* and not inserted since

vars == <<entries, generation, slot, task, registered, deletions, dropped, returned, evicted>>
registry == <<registered, deletions>>
history == <<dropped, returned, evicted>>

\* The locals of a call, between calls.
Idle ==
  [pc      |-> "idle",
   op      |-> None,
   item    |-> None,
   at      |-> [s \in Side |-> 0],  \* Generations
   leader  |-> None,                \* of the fetch a waiter waits for
   outcome |-> None,                \* a Value or Failed
   todo    |-> <<>>,                \* caches still to index in, or to invalidate
   doomed  |-> {},                  \* schemas being invalidated
   ordinal |-> 0,                   \* history: which deletion this call made
   quiet   |-> FALSE]               \* history: no lookup by identifier has met it

Init ==
  /\ entries = [s \in Side |-> [x \in Item |-> None]]
  /\ generation = [s \in Side |-> 0]
  /\ slot = [s \in Side |-> [x \in Item |-> None]]
  /\ task = [t \in Task |-> Idle]
  /\ registered = TRUE /\ deletions = 0
  /\ dropped = [s \in Side |-> 0] /\ returned = 0
  /\ evicted = [s \in Side |-> {}]

------------------------------------------------------------------------------
(***************************************************************************)
(* Lookups.                                                                *)
(***************************************************************************)
ByIdentifier == {"id", "guid", "warm"}

\* History: a lookup by identifier that begins meets the deletions under way.
Starts(t, l) ==
  task' = [u \in Task |->
    IF u = t THEN l
    ELSE [task[u] EXCEPT !.quiet = @ /\ l.op \notin ByIdentifier]]

\* generations() reads the ID cache's counter ...
SampleId(t, op, x) ==
  /\ task[t].pc = "idle" /\ op \in Op \cap {"id", "guid", "latest"}
  /\ op = "latest" <=> x = None
  /\ Starts(t, [Idle EXCEPT !.pc = "sample", !.op = op, !.item = x,
                            !.at["id"] = generation["id"]])
  /\ UNCHANGED <<entries, generation, slot, registry, history>>

\* ... and then the GUID cache's.  get_latest_schema and get_schema_by_version
\* go to the registry, lookups by identifier to their cache.
SampleGuid(t) ==
  /\ task[t].pc = "sample"
  /\ task' = [task EXCEPT ![t].at["guid"] = generation["guid"],
                          ![t].pc = IF task[t].op = "latest" THEN "fetch" ELSE "lookup"]
  /\ UNCHANGED <<entries, generation, slot, registry, history>>

\* warm_cache looks each ID up in the ID cache and does nothing else with it.
Warm(t, x) ==
  /\ task[t].pc = "idle" /\ "warm" \in Op
  /\ Starts(t, [Idle EXCEPT !.pc = "lookup", !.op = "warm", !.item = x])
  /\ UNCHANGED <<entries, generation, slot, registry, history>>

\* The cache a lookup goes to.
LookupSide(op) == IF op = "guid" THEN "guid" ELSE "id"

\* The slip of a populate that indexes by ID only.
IdOnly(op) == CASE op = "id" -> <<"guid">>
                [] op = "warm" -> <<>>
                [] OTHER -> <<"id">>

\* The caches an answer is indexed in.
IndexSides(op) == CASE op = "id" -> <<"guid">>
                    [] op = "guid" -> <<"id">>
                    [] op = "latest" -> <<"id", "guid">>
                    [] op = "warm" -> <<>>

\* What a call does once it has value v: index it, or return at once.
Indexing(l, v) ==
  IF IndexSides(l.op) = <<>> THEN Idle
  ELSE [l EXCEPT !.pc = "index", !.outcome = v, !.todo = IndexSides(l.op)]

\* get_or_fetch: a hit, or joining a fetch under way, or leading one.
Lookup(t) ==
  LET l == task[t]
      s == LookupSide(l.op)
      v == entries[s][l.item]
      u == slot[s][l.item]
  IN
  /\ l.pc = "lookup"
  /\ task' = [task EXCEPT ![t] =
       IF v # None THEN Indexing(l, v)
       ELSE IF u # None THEN [l EXCEPT !.pc = "wait", !.leader = u]
       ELSE [l EXCEPT !.pc = "fetch"]]
  /\ slot' = IF v = None /\ u = None THEN [slot EXCEPT ![s][l.item] = t] ELSE slot
  /\ UNCHANGED <<entries, generation, registry, history>>

\* The registry answers: by identifier always, by subject if it has a version.
Answers(t) ==
  LET l == task[t] IN
  IF l.op = "latest"
  THEN {[item |-> x, by |-> "subject", subject |-> TRUE, born |-> deletions] :
          x \in IF registered THEN Item ELSE {}}
  ELSE {[item |-> l.item, by |-> LookupSide(l.op), subject |-> b, born |-> deletions] :
          b \in IF SubjectInIdAnswers /\ registered THEN BOOLEAN ELSE {FALSE}}

Answer(t, v) ==
  /\ task[t].pc = "fetch"
  /\ v \in Answers(t) \cup {Failed}
  /\ task' = [task EXCEPT ![t].pc = "answered", ![t].outcome = v]
  /\ UNCHANGED <<entries, generation, slot, registry, history>>

\* The slip of sampling the generations again after the fetch.
LatePopulate(t) ==
  LET l == [task[t] EXCEPT !.at = generation] IN
  /\ l.pc = "answered" /\ l.op = "latest"
  /\ task' = [task EXCEPT ![t] = IF l.outcome = Failed THEN Idle ELSE Indexing(l, l.outcome)]
  /\ UNCHANGED <<entries, generation, slot, registry, history>>

\* The registry's answer to get_latest_schema has arrived: `?`, or populate.
Populate(t) ==
  LET l == task[t] IN
  /\ l.pc = "answered" /\ l.op = "latest"
  /\ task' = [task EXCEPT ![t] = IF l.outcome = Failed THEN Idle ELSE Indexing(l, l.outcome)]
  /\ UNCHANGED <<entries, generation, slot, registry, history>>

Waiters(t) == {w \in Task : task[w].pc = "wait" /\ task[w].leader = t}

\* get_or_fetch, leader: claim the slot.  Without it, or with an error, there
\* is nothing to store, and an error goes to every waiter.
Claim(t) ==
  LET l == task[t]
      s == LookupSide(l.op)
      owns == slot[s][l.item] = t
  IN
  /\ l.pc = "answered" /\ l.op # "latest"
  /\ slot' = IF owns THEN [slot EXCEPT ![s][l.item] = None] ELSE slot
  /\ task' = [u \in Task |->
       IF u = t THEN IF l.outcome = Failed THEN Idle
                     ELSE IF owns THEN [l EXCEPT !.pc = "store"] ELSE Indexing(l, l.outcome)
       ELSE IF u \in Waiters(t) /\ l.outcome = Failed THEN Idle
       ELSE task[u]]
  /\ UNCHANGED <<entries, generation, registry, history>>

\* insert_locked: a new key that leaves the cache over its bound evicts others.
Insert(s, x, v) ==
  LET others == {y \in Item \ {x} : entries[s][y] # None}
  IN \E gone \in SUBSET others :
       /\ Cardinality(gone) = IF entries[s][x] = None /\ Cardinality(others) >= MaxEntries
                              THEN 1 ELSE 0
       /\ entries' = [entries EXCEPT ![s] =
            [y \in Item |-> IF y = x THEN v ELSE IF y \in gone THEN None ELSE @[y]]]
       /\ evicted' = [evicted EXCEPT ![s] =
            IF generation[s] = 0 THEN (@ \cup gone) \ {x} ELSE {}]

\* get_or_fetch, leader: store the value unless there is one, and share it.
Store(t) ==
  LET l == task[t]
      s == LookupSide(l.op)
      v == IF entries[s][l.item] = None THEN l.outcome ELSE entries[s][l.item]
  IN
  /\ l.pc = "store"
  /\ IF entries[s][l.item] = None THEN Insert(s, l.item, v) ELSE UNCHANGED <<entries, evicted>>
  /\ task' = [u \in Task |->
       IF u = t THEN Indexing(l, v)
       ELSE IF u \in Waiters(t) THEN Indexing([task[u] EXCEPT !.leader = None], v)
       ELSE task[u]]
  /\ UNCHANGED <<generation, slot, registry, dropped, returned>>

\* index_by_id, index_by_guid: insert_if_current under the other identifier,
\* if there is one; after the last one the call returns.
Index(t) ==
  LET l == task[t]
      s == Head(l.todo)
      v == l.outcome
  IN
  /\ l.pc = "index"
  /\ IF Has(v, s) /\ generation[s] = l.at[s]
     THEN Insert(s, v.item, v) ELSE UNCHANGED <<entries, evicted>>
  /\ task' = [task EXCEPT ![t] = IF Len(l.todo) = 1 THEN Idle
                                 ELSE [l EXCEPT !.todo = Tail(l.todo)]]
  /\ UNCHANGED <<generation, slot, registry, dropped, returned>>

\* A future is dropped: a leader's guard frees its slot and its waiters; a
\* deletion may or may not have taken effect, see DeleteLost.
Drop(t) ==
  LET l == task[t]
      s == LookupSide(l.op)
      owns == l.op # "latest" /\ l.item # None /\ slot[s][l.item] = t
  IN
  /\ l.pc \in {"wait", "fetch", "answered", "delete"}
  /\ slot' = IF owns THEN [slot EXCEPT ![s][l.item] = None] ELSE slot
  /\ task' = [u \in Task |-> IF u = t \/ (owns /\ u \in Waiters(t)) THEN Idle ELSE task[u]]
  /\ UNCHANGED <<entries, generation, registry, history>>

------------------------------------------------------------------------------
(***************************************************************************)
(* Writes.                                                                 *)
(***************************************************************************)
\* register_schema is forwarded, so that a deleted subject may come back.
Register ==
  /\ ~registered
  /\ registered' = TRUE
  /\ UNCHANGED <<entries, generation, slot, task, deletions, history>>

\* Bound on invalidations: a call that invalidates starts only if the ones
\* under way leave it a generation.
GenerationLeft ==
  LET busy == {u \in Task : task[u].pc \in {"delete", "bump", "cancel", "drop"}}
  IN  \A s \in Side : generation[s] + Cardinality(busy) < MaxGeneration

\* delete_subject and delete_version ask the registry first.
Delete(t) ==
  /\ task[t].pc = "idle" /\ "delete" \in Op /\ GenerationLeft
  /\ task' = [task EXCEPT ![t] = [Idle EXCEPT !.pc = "delete", !.op = "delete"]]
  /\ UNCHANGED <<entries, generation, slot, registry, history>>

\* The slip of dropping what is cached by ID only.
DeleteDropsIds(t) ==
  /\ task[t].pc = "delete"
  /\ registered /\ deletions < MaxDeletions
  /\ registered' = FALSE /\ deletions' = deletions + 1
  /\ task' = [task EXCEPT ![t].pc = "bump", ![t].todo = <<"id">>,
                          ![t].ordinal = deletions',
                          ![t].quiet = \A u \in Task : task[u].op \notin ByIdentifier]
  /\ UNCHANGED <<entries, generation, slot, history>>

\* The deletion takes effect and its answer arrives: go on to invalidate.
DeleteDone(t) ==
  /\ task[t].pc = "delete"
  /\ registered /\ deletions < MaxDeletions
  /\ registered' = FALSE /\ deletions' = deletions + 1
  /\ task' = [task EXCEPT ![t].pc = "bump", ![t].todo = <<"id", "guid">>,
                          ![t].ordinal = deletions',
                          ![t].quiet = \A u \in Task : task[u].op \notin ByIdentifier]
  /\ UNCHANGED <<entries, generation, slot, history>>

\* The deletion takes effect, and its answer is lost: `?` returns the error.
DeleteLost(t) ==
  /\ task[t].pc = "delete"
  /\ registered /\ deletions < MaxDeletions
  /\ registered' = FALSE /\ deletions' = deletions + 1
  /\ task' = [task EXCEPT ![t] = Idle]
  /\ UNCHANGED <<entries, generation, slot, history>>

\* The registry refuses, or the subject is not there.
DeleteFails(t) ==
  /\ task[t].pc = "delete"
  /\ task' = [task EXCEPT ![t] = Idle]
  /\ UNCHANGED <<entries, generation, slot, registry, history>>

------------------------------------------------------------------------------
(***************************************************************************)
(* Invalidation, one cache after the other.                                *)
(***************************************************************************)
\* clear_cache, invalidate_subject, invalidate and invalidate_guid begin.
Sides(op) == CASE op \in {"clear", "subject"} -> <<"id", "guid">>
               [] op = "invalidate" -> <<"id">>
               [] op = "invalidate_guid" -> <<"guid">>

Invalidate(t, op, X) ==
  /\ task[t].pc = "idle" /\ GenerationLeft
  /\ op \in Op \cap {"clear", "subject", "invalidate", "invalidate_guid"}
  /\ CASE op = "clear" -> X = Item
       [] op = "subject" -> X = {}
       [] OTHER -> \E x \in Item : X = {x}
  /\ task' = [task EXCEPT ![t] = [Idle EXCEPT !.pc = "bump", !.op = op, !.doomed = X,
                                              !.todo = Sides(op)]]
  /\ UNCHANGED <<entries, generation, slot, registry, history>>

\* invalidate_matching drops before it cancels; invalidate and clear after.
BySubject(t) == task[t].op \in {"delete", "subject"}

\* The next cache, or return.
NextSide(t) ==
  IF Len(task[t].todo) = 1 THEN Idle
  ELSE [task[t] EXCEPT !.pc = "bump", !.todo = Tail(@)]

\* A deletion is done with once its call has invalidated both caches.
NoteReturn(t) ==
  returned' = IF Len(task[t].todo) = 1 /\ task[t].quiet /\ task[t].ordinal > returned
              THEN task[t].ordinal ELSE returned

\* Every invalidation of a cache first bumps its generation.
Bump(t) ==
  LET s == Head(task[t].todo) IN
  /\ task[t].pc = "bump"
  /\ generation' = [generation EXCEPT ![s] = @ + 1]
  /\ task' = [task EXCEPT ![t].pc = IF BySubject(t) THEN "drop" ELSE "cancel"]
  /\ evicted' = [evicted EXCEPT ![s] = {}]
  /\ UNCHANGED <<entries, slot, registry, dropped, returned>>

\* Remove the doomed schemas' slots; their waiters get an error.
Cancel(t) ==
  LET l == task[t]
      s == Head(l.todo)
      leaders == {slot[s][x] : x \in l.doomed} \ {None}
  IN
  /\ l.pc = "cancel"
  /\ slot' = [slot EXCEPT ![s] = [x \in Item |-> IF x \in l.doomed THEN None ELSE @[x]]]
  /\ task' = [u \in Task |->
       IF u = t THEN IF BySubject(t) THEN NextSide(t) ELSE [l EXCEPT !.pc = "drop"]
       ELSE IF \E v \in leaders : u \in Waiters(v) THEN Idle
       ELSE task[u]]
  /\ IF BySubject(t) THEN NoteReturn(t) ELSE UNCHANGED returned
  /\ UNCHANGED <<entries, generation, registry, dropped, evicted>>

\* Remove entries: the doomed ones, or the ones that name the subject.  With
\* none of those invalidate_matching returns.
DropEntries(t) ==
  LET l == task[t]
      s == Head(l.todo)
      doomed == IF BySubject(t)
                THEN {x \in Item : entries[s][x] # None /\ entries[s][x].subject}
                ELSE l.doomed
  IN
  /\ l.pc = "drop"
  /\ entries' = [entries EXCEPT ![s] = [x \in Item |-> IF x \in doomed THEN None ELSE @[x]]]
  /\ task' = [task EXCEPT ![t] =
       IF BySubject(t) /\ doomed # {} THEN [l EXCEPT !.pc = "cancel", !.doomed = doomed]
       ELSE NextSide(t)]
  /\ dropped' = [dropped EXCEPT ![s] = IF l.ordinal > @ THEN l.ordinal ELSE @]
  /\ IF BySubject(t) /\ doomed # {} THEN UNCHANGED returned ELSE NoteReturn(t)
  /\ UNCHANGED <<generation, slot, registry, evicted>>

------------------------------------------------------------------------------
Next ==
  \/ \E t \in Task :
       \/ \E op \in Op : \E x \in Known \cup {None} : SampleId(t, op, x)
       \/ SampleGuid(t) \/ Lookup(t) \/ Populate(t) \/ Claim(t) \/ Store(t) \/ Index(t)
       \/ \E x \in Known : Warm(t, x)
       \/ \E v \in Answers(t) \cup {Failed} : Answer(t, v)
       \/ Drop(t)
       \/ Delete(t) \/ DeleteDone(t) \/ DeleteLost(t) \/ DeleteFails(t)
       \/ \E op \in Op, X \in SUBSET Item : Invalidate(t, op, X)
       \/ Bump(t) \/ Cancel(t) \/ DropEntries(t)
  \/ Register

Spec == Init /\ [][Next]_vars

------------------------------------------------------------------------------
\* What get_latest_schema or get_schema_by_version has read before a deletion
\* is never put into a cache from which that deletion has already dropped the
\* subject: the generations are sampled before the read.
SubjectReadsStayCurrent ==
  [][\A t \in Task, s \in Side, x \in Item :
       /\ task[t].op = "latest" /\ task'[t] # task[t]
       /\ entries'[s][x] \notin {None, entries[s][x]}
       => entries'[s][x].born >= dropped[s]]_vars

\* "One round-trip fills both indexes": where nothing has been invalidated, a
\* lookup by ID, GUID or subject returns with its schema cached under every
\* identifier the answer had, whoever fetched it, unless another schema's
\* insertion has evicted it since.
CallFillsBothIndexes ==
  [][\A t \in Task :
       /\ task[t].pc = "index" /\ task'[t].pc = "idle"
       /\ \A s \in Side : generation[s] = 0
       => \A s \in Side : Has(task[t].outcome, s) =>
            \/ entries'[s][task[t].outcome.item] # None
            \/ task[t].outcome.item \in evicted'[s]]_vars

\* "Delete a subject, then drop everything cached under it": once a deletion
\* has returned Ok, no value that names the subject and was read before the
\* deletion is in either cache.  It is so for a deletion that no lookup by ID
\* or GUID overlaps (one that does may put its value back, from the cache
\* still to be dropped or from a fetch nobody cancels): reads by subject and
\* invalidations may overlap it as they please.
DeletedIsDropped ==
  \A s \in Side, x \in Item :
    entries[s][x] # None /\ entries[s][x].subject => entries[s][x].born >= returned
==============================================================================
