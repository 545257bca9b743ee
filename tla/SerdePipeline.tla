---------------------------- MODULE SerdePipeline ----------------------------
(***************************************************************************)
(* A record's way through the codecs: an encoder resolves the subject to   *)
(* an identifier (resolver.rs) through its bounded, coalescing key cache,  *)
(* frames the payload with it, and a decoder elsewhere finds the writer's  *)
(* schema by that identifier; meanwhile other clients evolve, delete and   *)
(* recreate the subject in a Confluent registry.                           *)
(*                                                                         *)
(* The key cache is of the type of module InMemoryCache.  Kept of it: the  *)
(* separate critical sections for the fetches under way and for the        *)
(* entries, and eviction.  The frame's bytes are module WireFormat's,      *)
(* references those of AvroSchemaSet and JsonReferences.                   *)
(***************************************************************************)
EXTENDS Naturals, Sequences, FiniteSets, SequencesExt

CONSTANTS
  Task,         \* tasks sharing the encoder
  Config,       \* encoder and registry configurations, see ConfigAssumption
  Text,         \* schema texts
  Own,          \* the encoder's own schema
  Capacity,     \* max_subject_cache_entries
  MaxIds,       \* bound on the identifiers the registry assigns
  MaxRecords,   \* bound on the records in the topic
  None, NotFound

SchemaResolution == {"AutoRegister", "LookupOnly", "UseLatestVersion"}
Framing == {"SchemaId", "SchemaGuid"}
SubjectNameStrategy ==
  {"TopicName", "RecordName", "TopicRecordName", "ApicurioGroupRecordName"}

\* What the builders of an encoder and a decoder are given, and the registry.
Configuration ==
  [codec : {"raw", "avro", "json", "protobuf"},
   resolution : SchemaResolution,
   framing : Framing,
   strategy : SubjectNameStrategy,
   name : {"record", None},   \* the record name, if the codec has one
   guids : BOOLEAN,           \* the registry reports GUIDs
   validate : BOOLEAN]        \* validate_on_encode, validate_on_decode

ASSUME ConfigAssumption ==
  /\ Config \subseteq Configuration
  /\ \A c \in Config : c.codec = "protobuf" => c.name # None
  /\ Own \in Text /\ None \notin Task \cup Text
  /\ Capacity \in Nat \ {0} /\ MaxIds \in Nat /\ MaxRecords \in Nat

VARIABLES
  config,    \* what the builders were given
  text,      \* registry: the text of each identifier, in the order assigned
  live,      \* registry: per subject, the identifiers of its versions
  soft,      \* registry: per subject, the identifiers soft-deleted in it
  keys,      \* encoder: its key cache, the oldest entry first
  slot,      \* encoder: per subject, the leader of the registered resolution
  task,      \* encoder: the locals of each task's call
  dropping,  \* encoder: the subject invalidate_subject is about to drop
  topic,     \* the records written
  parsed,    \* decoder: its schema cache
  seen       \* history: per subject, the key framed since it was last dropped

registry == <<text, live, soft>>
encoder == <<keys, slot, task, dropping, seen>>
vars == <<config, registry, encoder, topic, parsed>>

------------------------------------------------------------------------------
(***************************************************************************)
(* Subjects and keys.                                                      *)
(***************************************************************************)
Target == {"key", "value"}

\* SubjectNameStrategy::subject_name; None is the configuration error.
SubjectName(target) ==
  CASE config.strategy = "TopicName" -> <<"topic", target>>
    [] config.name = None -> None
    [] config.strategy = "RecordName" -> <<config.name>>
    [] config.strategy = "TopicRecordName" -> <<"topic", config.name>>
    [] config.strategy = "ApicurioGroupRecordName" -> <<"group", config.name>>

Subject == {SubjectName(g) : g \in Target} \ {None}

\* Bound: nobody else touches the subjects of record keys, and they are not
\* invalidated.
Busy == Subject \ {<<"topic", "key">>}

\* A SchemaKey: a registry's counter, or a fingerprint of the text.
Id(n) == [kind |-> "id", of |-> n]
Guid(x) == [kind |-> "guid", of |-> x]

------------------------------------------------------------------------------
(***************************************************************************)
(* The registry (external).  A text has one identifier at a time, in all   *)
(* subjects; a soft deletion keeps it resolvable, a permanent one does not *)
(* and the number is not used again.                                       *)
(***************************************************************************)
Resolvable(n) == \E s \in Subject : n \in soft[s] \/ n \in ToSet(live[s])
IdsOf(x) == {n \in DOMAIN text : text[n] = x /\ Resolvable(n)}
AssignedId(x) == IF IdsOf(x) = {} THEN Len(text) + 1 ELSE CHOOSE n \in IdsOf(x) : TRUE

\* Registering text x under s: an existing version is answered as it is.
StoreVersion(s, x) ==
  LET n == AssignedId(x) IN
  /\ n <= MaxIds
  /\ text' = IF n > Len(text) THEN Append(text, x) ELSE text
  /\ live' = IF n \in ToSet(live[s]) THEN live ELSE [live EXCEPT ![s] = Append(@, n)]
  /\ UNCHANGED soft

\* A Schema of the answer, with the identifiers the registry reports.
Described(n) == [id |-> n, guid |-> IF config.guids THEN text[n] ELSE None, text |-> text[n]]

\* What a read request is answered.
ReadAnswer(q) ==
  CASE q.op = "lookup" ->
         LET found == IdsOf(Own) \cap ToSet(live[q.subject])
         IN  IF found = {} THEN NotFound ELSE Described(CHOOSE n \in found : TRUE)
    [] q.op = "latest" ->
         IF live[q.subject] = <<>> THEN NotFound ELSE Described(Last(live[q.subject]))
    [] q.op = "id" -> IF Resolvable(q.of) THEN Described(q.of) ELSE NotFound
    [] q.op = "guid" ->
         IF config.guids /\ IdsOf(q.of) # {}
         THEN Described(CHOOSE n \in IdsOf(q.of) : TRUE) ELSE NotFound

\* Another client registers a version.
Evolve(s, x) ==
  /\ StoreVersion(s, x)
  /\ UNCHANGED <<config, encoder, topic, parsed>>

\* delete_subject(s, false): the versions are hidden.
SoftDelete(s) ==
  /\ live[s] # <<>>
  /\ live' = [live EXCEPT ![s] = <<>>]
  /\ soft' = [soft EXCEPT ![s] = @ \cup ToSet(live[s])]
  /\ UNCHANGED <<config, text, encoder, topic, parsed>>

\* delete_subject(s, true): refused unless s is soft-deleted (40405).
PermanentDelete(s) ==
  /\ soft[s] # {} /\ live[s] = <<>>
  /\ soft' = [soft EXCEPT ![s] = {}]
  /\ UNCHANGED <<config, text, live, encoder, topic, parsed>>

------------------------------------------------------------------------------
(***************************************************************************)
(* encode and encode_with_header: the subject, then the key cache.         *)
(***************************************************************************)
Idle == [pc |-> "idle", subject |-> None, ask |-> None, answer |-> None, key |-> None,
         read |-> FALSE, stale |-> FALSE, late |-> FALSE, before |-> FALSE, current |-> FALSE]

Cached(s) == \E i \in DOMAIN keys : keys[i].subject = s
Entry(s) == CHOOSE e \in ToSet(keys) : e.subject = s
Without(s) ==
  IF Cached(s) THEN RemoveAt(keys, CHOOSE i \in DOMAIN keys : keys[i].subject = s) ELSE keys

\* The call has its key from cache entry e.
Resolved(l, e) == [l EXCEPT !.pc = "frame", !.key = e.key, !.stale = e.stale,
                            !.late = e.late, !.current = TRUE, !.read = FALSE]

\* The slip of a lookup-only encoder that registers what it does not find.
AlwaysRegister == "register"

\* resolve_schema_key: the request each mode makes.
FirstRequest ==
  CASE config.resolution = "AutoRegister" -> "register"
    [] config.resolution = "LookupOnly" -> "lookup"
    [] config.resolution = "UseLatestVersion" -> "latest"

\* get_or_fetch: a hit, or joining the resolution under way, or leading one.
Lookup(t, s) ==
  LET l == [Idle EXCEPT !.subject = s] IN
  /\ task' = [task EXCEPT ![t] =
       IF Cached(s) THEN Resolved(l, Entry(s))
       ELSE IF slot[s] # None THEN [l EXCEPT !.pc = "wait"]
       ELSE [l EXCEPT !.pc = "request", !.ask = [op |-> FirstRequest, subject |-> s]]]
  /\ slot' = IF ~Cached(s) /\ slot[s] = None THEN [slot EXCEPT ![s] = t] ELSE slot
  /\ UNCHANGED <<config, registry, keys, dropping, seen, topic, parsed>>

\* A call begins.  Naming the subject reads nothing that others change; without
\* a subject the call returns the error at once.
Encode(t, target) ==
  /\ task[t].pc = "idle"
  /\ SubjectName(target) # None
  /\ Lookup(t, SubjectName(target))

\* The registry handles the request.  The call has now read the subject.
Serve(t) ==
  LET q == task[t].ask IN
  /\ task[t].pc = "request"
  /\ IF q.op = "register"
     THEN /\ StoreVersion(q.subject, Own)
          /\ task' = [task EXCEPT ![t].pc = "answered", ![t].read = TRUE,
                        ![t].answer = [id |-> AssignedId(Own), guid |-> None, text |-> Own]]
     ELSE /\ task' = [task EXCEPT ![t].pc = "answered", ![t].answer = ReadAnswer(q),
                                  ![t].read = TRUE]
          /\ UNCHANGED registry
  /\ UNCHANGED <<config, keys, slot, dropping, seen, topic, parsed>>

\* The answer is lost and the request sent again.
Retry(t) ==
  /\ task[t].pc = "answered"
  /\ task' = [task EXCEPT ![t].pc = "request", ![t].answer = None]
  /\ UNCHANGED <<config, registry, keys, slot, dropping, seen, topic, parsed>>

\* Those whose sender is in the slot of t; an answer says who has taken it out.
Waiters(t) ==
  {u \in Task : task[u].pc = "wait" /\ task[u].answer = None /\ slot[task[u].subject] = t}

\* The resolution of t ends in an error: nothing is cached, and whoever waits
\* for it gets the error (a cancelled leader has no slot and no waiters).
Fails(t) ==
  /\ slot' = [s \in Subject |-> IF slot[s] = t THEN None ELSE slot[s]]
  /\ task' = [u \in Task |-> IF u \in {t} \cup Waiters(t) THEN Idle ELSE task[u]]

\* The request fails for good, or its future is dropped, and so the leader
\* guard is; the registry may have handled it or not.
GiveUp(t) ==
  /\ task[t].pc \in {"request", "answered"}
  /\ Fails(t)
  /\ UNCHANGED <<config, registry, keys, dropping, seen, topic, parsed>>

\* A waiter's future is dropped.
DropWaiter(t) ==
  /\ task[t].pc = "wait"
  /\ task' = [task EXCEPT ![t] = Idle]
  /\ UNCHANGED <<config, registry, keys, slot, dropping, seen, topic, parsed>>

\* v1 framing of an answer without a GUID: ask for the schema by its ID.
NeedsGuid(a) == a # NotFound /\ config.framing = "SchemaGuid" /\ a.guid = None

FetchGuid(t) ==
  LET l == task[t] IN
  /\ l.pc = "answered" /\ NeedsGuid(l.answer) /\ l.ask.op # "id"
  /\ task' = [task EXCEPT ![t].pc = "request", ![t].answer = None,
                          ![t].ask = [op |-> "id", of |-> l.answer.id]]
  /\ UNCHANGED <<config, registry, keys, slot, dropping, seen, topic, parsed>>

\* The slip of framing with the newest identifier there is.
FramesNewest(a) == Id(Len(text))

\* Framing::select.
Select(a) == IF config.framing = "SchemaId" THEN Id(a.id) ELSE Guid(a.guid)

\* An answer no key can be taken from: nothing is registered, the schema is
\* gone, or there is no GUID to be had.
NoKey(l) == l.answer = NotFound \/ (NeedsGuid(l.answer) /\ l.ask.op = "id")

Refused(t) ==
  /\ task[t].pc = "answered" /\ NoKey(task[t])
  /\ Fails(t)
  /\ UNCHANGED <<config, registry, keys, dropping, seen, topic, parsed>>

\* get_or_fetch, leader: claim the slot.  A leader that has been cancelled
\* keeps its key to itself.
Claim(t) ==
  LET l == task[t]
      owns == slot[l.subject] = t
  IN
  /\ l.pc = "answered" /\ ~NoKey(l) /\ ~NeedsGuid(l.answer)
  /\ slot' = IF owns THEN [slot EXCEPT ![l.subject] = None] ELSE slot
  /\ task' = [u \in Task |->
       IF u = t THEN [l EXCEPT !.pc = IF owns THEN "store" ELSE "frame",
                               !.key = Select(l.answer), !.answer = None, !.ask = None,
                               !.read = owns]
       ELSE IF u \in Waiters(t) /\ owns THEN [task[u] EXCEPT !.answer = t]
       ELSE task[u]]
  /\ UNCHANGED <<config, registry, keys, dropping, seen, topic, parsed>>

\* The slip of storing whatever was fetched over what is there.
Overwrites(s, e) ==
  IF Cached(s) THEN Append(Without(s), e)
  ELSE SubSeq(Append(keys, e), IF Len(keys) = Capacity THEN 2 ELSE 1, Len(keys) + 1)

\* insert_locked: an entry that is there stays; the oldest one makes room.
Inserted(s, e) ==
  IF Cached(s) THEN keys
  ELSE SubSeq(Append(keys, e), IF Len(keys) = Capacity THEN 2 ELSE 1, Len(keys) + 1)

\* History: the subjects that are cached no longer have a key of their own.
Forgotten(S) ==
  seen' = [s \in Subject |-> IF s \in S THEN None ELSE seen[s]]

\* get_or_fetch, leader: store the key unless there is one, and share it.
Store(t) ==
  LET l == task[t]
      s == l.subject
      e == [subject |-> s, key |-> l.key, stale |-> l.stale, late |-> l.late]
      shared == CHOOSE f \in ToSet(keys') : f.subject = s
      evicted == {k.subject : k \in ToSet(keys) \ ToSet(keys')} \ {s}
  IN
  /\ l.pc = "store"
  /\ keys' = Inserted(s, e)
  /\ task' = [u \in Task |->
       IF u = t \/ (task[u].pc = "wait" /\ task[u].answer = t)
       THEN [Resolved(task[u], shared) EXCEPT !.answer = None]
       ELSE IF task[u].pc = "frame" /\ task[u].subject \in evicted
       THEN [task[u] EXCEPT !.current = FALSE] ELSE task[u]]
  /\ Forgotten(evicted)
  /\ UNCHANGED <<config, registry, slot, dropping, topic, parsed>>

\* The schemas that what a codec serialises may conform to.  Avro serialises
\* with the encoder's own schema and fails for anything else; JSON validates
\* against it, unless told not to; a Protobuf message and a raw payload are
\* taken as they come.
AvroSerialises == {Own}
JsonSerialises == IF config.validate THEN {Own} ELSE Text
ProtobufSerialises == Text
RawSerialises == Text

Serialises ==
  CASE config.codec = "avro" -> AvroSerialises
    [] config.codec = "json" -> JsonSerialises
    [] config.codec = "protobuf" -> ProtobufSerialises
    [] config.codec = "raw" -> RawSerialises

\* The call serialises, returns the frame, in front of the payload or as a
\* header, and the caller writes it to the topic or loses it.  A payload that
\* is refused is refused only now, when the schema may have been registered.
Frame(t) ==
  LET l == task[t] IN
  /\ l.pc = "frame"
  /\ task' = [task EXCEPT ![t] = Idle]
  /\ topic' \in {topic} \cup {topic \cup {[key |-> l.key, text |-> x]} : x \in Serialises}
  /\ Cardinality(topic') <= MaxRecords
  /\ seen' = IF l.current THEN [seen EXCEPT ![l.subject] = l.key] ELSE seen
  /\ UNCHANGED <<config, registry, keys, slot, dropping, parsed>>

\* The slip of an invalidation that leaves the resolution registered.
KeepsResolving(s) ==
  /\ dropping = None
  /\ dropping' = s
  /\ slot' = slot
  /\ task' = [u \in Task |->
       IF task[u].subject = s /\ task[u].read
       THEN [task[u] EXCEPT !.stale = TRUE, !.late = @ \/ task[u].pc = "store"]
       ELSE task[u]]
  /\ keys' = [i \in DOMAIN keys |-> IF keys[i].subject = s
                                    THEN [keys[i] EXCEPT !.stale = TRUE] ELSE keys[i]]
  /\ UNCHANGED <<config, registry, seen, topic, parsed>>

\* invalidate_subject: forget the resolution under way; its waiters get an
\* error.  History: what has been read by now is stale, and late if claimed.
InvalidateSubject(s) ==
  /\ dropping = None
  /\ dropping' = s
  /\ slot' = [slot EXCEPT ![s] = None]
  /\ task' = [u \in Task |->
       IF task[u].pc = "wait" /\ task[u].subject = s /\ task[u].answer = None THEN Idle
       ELSE IF task[u].subject = s /\ task[u].read
       THEN [task[u] EXCEPT !.stale = TRUE, !.late = @ \/ task[u].pc = "store"]
       ELSE task[u]]
  /\ keys' = [i \in DOMAIN keys |-> IF keys[i].subject = s
                                    THEN [keys[i] EXCEPT !.stale = TRUE] ELSE keys[i]]
  /\ UNCHANGED <<config, registry, seen, topic, parsed>>

\* ... and drop the entry.  History: calls under way began before this, and
\* for those about to return it no longer matters what they know.
DropEntry ==
  /\ dropping # None
  /\ keys' = Without(dropping)
  /\ task' = [u \in Task |->
       IF task[u].subject = dropping
       THEN [task[u] EXCEPT !.before = TRUE, !.current = FALSE,
                            !.stale = @ /\ task[u].pc # "frame",
                            !.late = @ /\ task[u].pc # "frame"] ELSE task[u]]
  /\ Forgotten({dropping})
  /\ dropping' = None
  /\ UNCHANGED <<config, registry, slot, topic, parsed>>

\* The producer's process dies and starts again with an empty cache.
Restart ==
  /\ keys' = <<>>
  /\ slot' = [s \in Subject |-> None]
  /\ task' = [t \in Task |-> Idle]
  /\ dropping' = None
  /\ Forgotten(Subject)
  /\ UNCHANGED <<config, registry, topic, parsed>>

------------------------------------------------------------------------------
(***************************************************************************)
(* The decoder.  What an identifier names never changes, so that a decode  *)
(* is one step: nothing it reads on the way can differ later.              *)
(***************************************************************************)
CachedSchemas(k) == {p \in parsed : p.key = k}

\* get_schema_by_key: by ID or by GUID, as the frame says.
ByKey(k) == ReadAnswer([op |-> k.kind, of |-> k.of])

\* The schema a record is decoded with: none if it is not to be had.
WriterSchema(k) ==
  IF CachedSchemas(k) # {} THEN {p.text : p \in CachedSchemas(k)}
  ELSE IF ByKey(k) = NotFound THEN {} ELSE {ByKey(k).text}

\* Whether decoding goes to the registry, and whether it caches what it gets:
\* Avro always, JSON to validate; Protobuf for schema_for alone, uncached.
CachesSchema == config.codec = "avro" \/ (config.codec = "json" /\ config.validate)

\* decode.  The schema fetched is kept; a schema that is not there, a failed
\* request, or a fetch cancelled by clear_cache leave the cache as it is.
Decode(r) ==
  /\ CachesSchema /\ CachedSchemas(r.key) = {} /\ WriterSchema(r.key) # {}
  /\ parsed' = {[key |-> r.key, text |-> x] : x \in WriterSchema(r.key)}
  /\ UNCHANGED <<config, registry, encoder, topic>>

ClearCache ==
  /\ parsed # {}
  /\ parsed' = {}
  /\ UNCHANGED <<config, registry, encoder, topic>>

------------------------------------------------------------------------------
Init ==
  /\ config \in Config
  /\ text = <<>>
  /\ live = [s \in Subject |-> <<>>] /\ soft = [s \in Subject |-> {}]
  /\ keys = <<>>
  /\ slot = [s \in Subject |-> None]
  /\ task = [t \in Task |-> Idle]
  /\ dropping = None
  /\ topic = {}
  /\ parsed = {}
  /\ seen = [s \in Subject |-> None]

Next ==
  \/ \E t \in Task :
       \/ \E g \in Target : Encode(t, g)
       \/ Serve(t) \/ Retry(t) \/ GiveUp(t) \/ DropWaiter(t)
       \/ FetchGuid(t) \/ Refused(t) \/ Claim(t) \/ Store(t) \/ Frame(t)
  \/ \E s \in Busy :
       \/ \E x \in Text : Evolve(s, x)
       \/ SoftDelete(s) \/ PermanentDelete(s) \/ InvalidateSubject(s)
  \/ DropEntry \/ Restart
  \/ \E r \in topic : Decode(r)
  \/ ClearCache

Spec == Init /\ [][Next]_vars

------------------------------------------------------------------------------
\* What the frame says is what the payload is: a consumer decodes a record of
\* an AutoRegister or LookupOnly encoder with the very schema that encoder was
\* built with, whatever has been registered, deleted and recreated in between,
\* by ID (never used twice) as by GUID; and where the codec checks, that is
\* the schema the payload conforms to.
DecodesAsWritten ==
  config.resolution # "UseLatestVersion" =>
    \A r \in topic :
      /\ WriterSchema(r.key) \subseteq {Own}
      /\ CachesSchema => WriterSchema(r.key) \subseteq {r.text}

\* "invalidate_subject ... the way to pick up a newer version": a call that
\* begins after invalidate_subject has returned frames with an identifier the
\* registry reported after it was called, unless a resolution had already
\* been claimed then and was about to be stored.
PicksUpNewer ==
  \A t \in Task :
    /\ task[t].pc = "frame" /\ task[t].stale
    /\ task[t].subject # dropping
    => task[t].before \/ task[t].late

\* All records of a subject carry the same identifier until its entry is
\* dropped, even while the subject's latest version changes and two calls
\* resolve it at once (one has left the slot and not yet stored its key).
OneKeyPerSubject ==
  \A t \in Task :
    task[t].pc = "frame" /\ task[t].current =>
      seen[task[t].subject] \in {None, task[t].key}

\* An encoder writes to the registry only to register its own schema, and
\* only in AutoRegister mode ("needs only read access").
NeverWritesUnasked ==
  [][\A t \in Task : task'[t] # task[t] /\ live' # live =>
       /\ config.resolution = "AutoRegister"
       /\ \A s \in Subject : live'[s] # live[s] =>
            live'[s] # <<>> /\ text'[Last(live'[s])] = Own]_vars
==============================================================================
