# schemreg in TLA+

TLA+ models, TLC runs and TLAPS proofs for `schemreg`, a Rust client for schema
registries (Confluent, Apicurio, AWS Glue) with codecs for Avro, JSON Schema and
Protobuf. Paths below are relative to the crate (`src/` is its source directory).
`PROJECT.json` lists components, runs, mutants, hazards and theorems, and maps
each definition to the lines it models.

## The system

| Component | State it keeps | Operations | Hard behaviour | What makes it correct |
|---|---|---|---|---|
| `InMemoryCache` (`cache_inner.rs`), the one cache type of the crate | entries and their queue (one lock), registered fetches (another lock), two atomic counters | `get_or_fetch`, `invalidate`, `clear`, `invalidate_matching`, `generation`, `insert_if_current` | callers interleave between the locks; futures are dropped inside a fetch; invalidations race fetches | no waiter is forgotten; cancellation is exact and per key; no stale value is stored; bound and queue kept |
| `CachedSchemaRegistry` (`cache.rs`) | an ID cache and a GUID cache over one backend | lookups by ID, GUID, version, latest; `clear_cache`, `invalidate*`, `delete_*`, `warm_cache` | the two caches are invalidated one after the other and feed each other | what a deletion swept stays away; both indexes filled |
| HTTP client (`http.rs`) | a semaphore; per call an attempt counter | `request`, `request_once` | lost answers, late attempts, dropped futures, retries | permits conserved; attempts and their effects bounded; every call returns |
| Retry policy (`retry.rs`, `http.rs`) | none | `delay_for`, `parse_retry_after_ms`, `days_from_civil` | saturation, clock skew, calendar edges | documented delay, never wrapped, never above the cap; dates waited for to the second |
| Schema resolution (`resolver.rs`, encoders) | subject-to-key caches | `resolve_schema_key`, `encode` | coalesced registrations, framing with a GUID that needs a second request | a record names its writer's schema; one key per subject; `LookupOnly` never writes |
| Reference closure, schema sets (`avro/`, `json/`) | visited set, output list | `collect_reference_closure`, `order_schemata` | cycles, diamonds, limits | every reference is there, before its users or under its name; ends |
| Wire formats (`wire.rs`, `decoder.rs`) | none | prefix, message indexes, header, detection | varint overflow, ambiguous prefixes | decode inverts encode; nothing is taken for another message; the parsers agree |
| Glue (`glue/`) | a version cache | `register_schema`, `wait_for_available` | polling a status that changes; falling from lookup to register to create | an ID is returned only when available |
| Confluent (`confluent/`) | base URL, credentials | one request per operation | error bodies | errors classified |
| Apicurio (`apicurio/`) | base URL, credentials | two-request reads, pagination, PUT-then-POST | changes between two requests | an ID names its text (except where the latest version is read while it changes: `IdNamesText` says when); lists complete; deletions and rules done when reported |
| Codecs, subject names, traits, types | schema caches of the decoders | `encode`, `decode`, `subject_name` | what may change between resolving and framing | as schema resolution |

How they interact: an encoder asks its subject cache (an `InMemoryCache`), which on
a miss calls `resolve_schema_key`, which calls the registry client, usually a
`CachedSchemaRegistry` (two more `InMemoryCache`s), whose fetches are
`HttpClient::request` calls. A decoder goes the same way from the identifier in
the record. Everything is shared between the tasks of a tokio runtime.

## Modules

| Module | Models | Notes |
|---|---|---|
| `InMemoryCache` | `cache_inner.rs` | one action per critical section |
| `CacheSpec` | what the cache promises | abstract specification: no locks, tokens or channels |
| `CacheRefinement` | | `InMemoryCache` implements `CacheSpec` |
| `InMemoryCacheProofs` | | the theorems of both |
| `CachedSchemaRegistry` | `cache.rs` | two caches over one registry; `InMemoryCache` abstracted |
| `CachedSchemaRegistryProofs` | | its theorems |
| `SerdePipeline` | `resolver.rs`, `subject.rs`, the encoders and decoders of `confluent/`, `avro/`, `json/`, `protobuf/` | encoder, key cache, registry, topic and decoder together |
| `SerdePipelineProofs` | | its theorems |
| `WireFormat` | `wire.rs`, the framing of `glue/mod.rs`, `decoder.rs` | byte for byte, words of any width |
| `AvroSchemaSet` | `collect_reference_closure`, `dedupe_dependencies`, `order_schemata` | `avro/`; Avro parser external |
| `AvroSchemaSetProofs` | | its theorems |
| `JsonReferences` | `collect_reference_closure`, `ReferenceSet` of `json/mod.rs` | jsonschema compiler external |
| `JsonReferencesProofs` | | its theorems |
| `Apicurio` | `apicurio/mod.rs` | request by request; registry external |
| `ApicurioProofs` | | its theorems |
| `GlueRegistration` | `register_schema`, `wait_for_available` of `glue/client.rs` | Glue external |
| `GlueRegistrationProofs` | | its theorems |
| `HttpClient` | `HttpClient::request`, `request_once`, `SchemaRegError::is_retryable` | registry and network external |
| `RetryPolicy` | `delay_for`, `parse_retry_after_ms`, `parse_http_date_unix_secs` | words of `Width` bits |
| `HttpDate` | `days_from_civil`, and the calendar | used by `RetryPolicy` and `CivilDate` |
| `CivilDate` | | a calendar turned day by day, for a theorem |
| `Powers` | shifts | powers of two as a recursive function, used by `RetryPolicy` and `WireFormat` |
| `TransportProofs` | | the theorems of `HttpClient`, `RetryPolicy`, `CivilDate` and `WireFormat`, which share their lemmas on induction and powers of two |
| `MC*` | | sets for TLC |

How they compose: `CachedSchemaRegistry` and `SerdePipeline` build on caches whose
behaviour `InMemoryCache` establishes, and keep the windows between its critical sections
in which other components run. `SerdePipeline` puts encoder, cache,
resolution, registry and decoder together; its frame is one value, whose bytes are
`WireFormat`'s, and its schemas are whole, their references being the subject of
`AvroSchemaSet` and `JsonReferences`. `Apicurio` retries as `HttpClient` does.

**InMemoryCache.** `entries` and `order` are the fields of `Store`, `None` marking
an absent key; `in_flight`, `next_token` and `invalidation_generation` are the
fields of the cache; `task[t]` holds the locals of task `t`'s call, `pc` saying
which critical section comes next. The oneshot senders a task has taken out of
`in_flight` are its `held`. A value is its `tag` (what a predicate can see) and
`born`, the generation at which its fetch began. `born` and `cancelled`, the
generation of the newest invalidation to have cancelled a key's fetches, are
history: no guard reads them. Futures can be dropped where the code awaits:
`DropLeader` is `LeaderGuard::drop`, `DropWaiter` a dropped receiver,
`AbandonInsert` a dropped or failed fetch before `insert_if_current`. Dropped
waiters are renamed (`Respawn`) once no sender of theirs is left, so that a sender
can be identified with its task. Calls by one task are sequential; a program
with more concurrent calls is one with more tasks. `Invalidator` and `Inserter` are the
tasks that call the invalidations and `insert_if_current`; the theorems hold for any. `max_entries` is always
`Some(n)` with `n >= 1`: `with_max_entries` clamps, and every construction site
bounds its cache.

**CacheSpec, CacheRefinement.** A call is answered at one instant, with what the cache
holds then, together with the calls that share its fetch; only a caller whose own fetch was
cancelled while it ran may get a value the cache does not hold, and gets it alone. The
variable `cut` has these callers (`Cancel` puts them there, `KeepToSelf` needs it) and is
mapped to `Overtaken`, the leaders that fetch without owning their slot. The mapping takes a
call as answered as
soon as its outcome is settled: when the task that holds its sender (the leader, the
drop guard or an invalidation) has something to send, which is before the waiter hears
of it (`Heard`). Dropped futures leave (`Leave`); invalidation, eviction and
`insert_if_current` are `Forget`, `Put` and `Insert`.

**CachedSchemaRegistry.** The ID cache and the GUID cache of `cache.rs`, indexed by
`Side`. Each keeps the critical sections of `InMemoryCache` (generation, slots,
entries), but not its tokens: by `WaitersAreOwed` and `SlotsAreLostToOwnKey` a
registered fetch belongs to one leader, so `slot` names that leader. The eviction queue is
left out: a new key in a full cache evicts some other one, not always the oldest (`Insert`).
The limit of `warm_cache` is left out too. `Known` are the schemas looked up by identifier;
reads by subject may yield any. A lookup samples both generations in two steps (`SampleId`,
`SampleGuid`), goes to its cache or to the registry, and indexes the answer under
the other identifier (`Index`). `delete_subject` and `delete_version` are one
action each for the request and its outcomes (`DeleteDone`, `DeleteLost`,
`DeleteFails`), then sweep one cache after the other as `invalidate_subject` does.
The registry is external and has one subject; `Guids` and `SubjectInIdAnswers` say
what its answers carry. `born`, `dropped` and `returned` count deletions, `evicted` has what
a cache has evicted and not taken in since; they are history.

**AvroSchemaSet.** One call of `get_avro_schema`. `stack` is the recursion of
`collect_reference_closure`, innermost call first; `out` holds the documents whose
texts the code pushes. A text is what `names_of` and `name_of` find in it, so two
texts are equal when they define and refer to the same names. `Dedupe` is one turn of
the loop of `dedupe_dependencies`, `Prepare` the checks and tables of
`order_schemata`, `Take` one turn of its Kahn loop. `parse_list` is external: it may
refuse what `order_schemata` would refuse. `Registries` are the contents the
registry may have; versions are immutable, so `registry` never changes.

**HttpClient.** `permits` and `queue` are tokio's fair semaphore; `call[c]` holds
the locals of `request`. The network may lose a request, lose its answer, or
deliver an attempt its caller has given up on (`late`, per call): in the middle of the
retries that follow it, or after the call has returned or was dropped. A caller begins its
next call when nothing of the last one is under way, so that `removed` counts what one call
did, late arrivals included; a program that does not wait is one with more callers. A gateway may answer 5xx
although the registry has acted. The registry keeps the versions of one subject:
enough to count what a retry does. `Ceiling = 0` is the
`filter(|n| *n > 0)` of `with_config`: no semaphore.

**GlueRegistration.** `task[c]` is one call of `register_schema`: `pc` names the SDK
request it makes next, `polls` is the loop's `attempt`. Request and answer are one
step, because a client decides from the answer alone: what happens between the two
might as well happen before the next request. Glue keeps one version per definition
unless the old one failed or was deleted; every request may fail, with or without
effect. `troubled` is history.

**SerdePipeline.** One encoder shared by `Task`s, one Confluent-style registry
(external), one topic and a decoder. `Encode` names the subject and goes on to `Lookup`,
the fast path, joining or leading of `get_or_fetch`; `Serve`, `FetchGuid` and `Refused` are
`resolve_schema_key`, `Claim` and `Store` the two critical sections that end a fetch,
`Frame` serialisation and framing. `InvalidateSubject` and `DropEntry` are the two halves of
`invalidate`. Others evolve the subject, delete it softly or permanently and recreate it;
an ID is never used twice, a GUID is a fingerprint of the text. `Restart` is a producer
that dies: its cache is gone, the records stay. `stale`, `late`, `before`, `current` and
`seen` are history. Codecs differ in which payloads they serialise under which schema.

**WireFormat.** A byte has `GroupBits + 1` bits, a varint `WordBits`, so that the last
group overhangs the word as the tenth byte of a `u64` does. One record is framed or comes
from a stranger, may be cut at any byte, and is decoded by a `WireFormatDecoder` with
none, one or both backends attached, by a Protobuf decoder for any or for a certain message,
or as a header. `write_varint` is given by its digits (`VarintLen` groups, the last without
the continuation bit), `read_varint` by the first byte without that bit and by what the
groups up to it spell; the loop over the indexes is a recursive function of its turns
(`IndexesFrom`). Zlib is external: a mark before the payload; a stream that lost its end
inflates to a beginning of the payload, or to nothing.

**JsonReferences.** A name, or a URI, is a directory and a file: what `last_segment` can
tell apart. The decoder walks the registry (`stack` is the recursion), the encoder takes a
list of pairs; both index documents in `by_key`, from which the compiler asks for each
`$ref`, resolved against the URI of the document that holds it. What must be found is
`Closure`, the least set of documents that is closed under the references of the root and
its own.

**Apicurio.** `call[c]` holds the locals of one call of the client trait, `pc` the request
it sends next; a request and its answer are one step. A request may be lost, or
take effect and have its answer lost, and is sent again up to `MaxRetries` times. `OnAnswer`
and its parts are the code's reactions. Subjects are pairs of group and name, the default
group being implied by a bare name. `watch` is history: what others did to the
registry during the call. A listing has the artifacts that are there in a fixed `Order`
(`Listing`: the n-th entry is the one with n present artifacts up to it). A version may have
a name that is no number: `parse_version` rejects it, `list_versions` skips it, and the
offset counts it all the same (`Reads`, `Collected`, `OnPage`). A registry may leave out
the total of a listing (`counts`).

**RetryPolicy.** A `Duration` counts ticks of which `NanosPerMilli` make a
millisecond; words have `Width` bits. Jitter is the set of values
`random_u64_below` can yield. A `Retry-After` header is absent, a number of seconds or a
date; a date passes the checks of `parse_http_date_unix_secs` (which accepts a 31st of any
month and a leap second) and is turned into a wait with the local clock; a number of
seconds beyond the word does not parse and counts as no header. `asked` keeps the header as
received and the clock it was read by. The factor of an
HTTP-date is not saturating in the code and not in the model; four-digit years keep it far
from overflow.

`PolicySpec` is its specification. `ServerWaitKept` compares the sleep with the wait the
header asks for in unbounded numbers, across parsing, conversion and cap.
`DateWaitIsExact` compares the wait with `CountedDays`, a count of the days year by year and
month by month that shares nothing with the code's formula.

**HttpDate, CivilDate.** `DaysFromCivil` follows `days_from_civil` line by line, with Rust's
truncating division. `NextDay` and `PreviousDay` of `CivilDate` are the Gregorian calendar.

## Runs

| Run | Question | Result |
|---|---|---|
| `cache` | Is any waiter forgotten, any slot lost or claimed wrongly, any stale value stored; do map and queue ever disagree; does the cache implement `CacheSpec`; does every call return? | no; it does; yes |
| `retry_policy` | Does any delay wrap or exceed the cap; is a server's wait changed between its header and the sleep; is a date waited for to the second? | no, no, yes |
| `http_requests` | Are permits lost; are too many or too few attempts sent; has a call more effects than attempts, late ones counted; does every request return? | no, no, no, yes |
| `registry_safety` | Is anything of a deleted subject cached once a deletion that no lookup by identifier overlaps has returned; does a lookup by subject undo a sweep; is a schema left under one identifier only, though it was not evicted? | no |
| `pipeline` | Is any record read with another schema than its writer's; is an invalidated subject framed with an old identifier; do records of a subject disagree; does an encoder write unasked? | no |
| `wire_format` | Does decoding invert framing; is a damaged record ever taken for another; do the two parsers of a format disagree? | yes, no, no |
| `wire_overflow` | Is a count of message indexes beyond their domain an error? | no: see below |
| `avro_set` | Is a reference lost, a table unreadable, a set refused without reason; does every resolution end? | no, no, no, yes |
| `json_references` | Does a compiled validator follow every `$ref` to the version its schema names; is one refused without cause? | yes, except for shared file names; no |
| `json_unsupplied` | Is a `$ref` to a URL nobody supplied an error? | no: see below |
| `apicurio` | Does every ID name its text; does a walk over pages name all it can read; is a deletion, or a rule, done when reported? | yes, except under the changes the properties name |
| `glue_registration` | Is an ID returned that is another's or not available; do racing clients fail each other; does every call return? | no, no, yes |

Each property has a mutant in `PROJECT.json`: a plausible slip in one definition under which
the run finds the property violated.

### Where docs and code differ

`json_unsupplied` ends in a counterexample. `ReferenceSet::lookup` falls back to the final
path segment of any URI, so that `$ref: "https://x/common.json"` compiles against a
supplied `https://y/common.json`, where the comment on `compile_schema_with_refs` promises
a compile error.

`wire_overflow` ends in another. `decode_protobuf_message_indexes` promises an error if a
value overflows the 32-bit ZigZag domain (`wire.rs:475-476`), but `read_varint` shifts the
group of the tenth byte by 63 bits and keeps one of its seven (`wire.rs:215`): a count with
bits above the word is taken for what its low bits spell. In the run a count of three groups
whose last lies above the 5-bit word is read as 0, the path `[0]`. No encoder writes such a
count, and `ReadUndoesWrite` says that numbers of the word's width are read as they were
written.

Other sentences that the code does not keep to the letter; the
properties state what it does keep:

- `cache_inner.rs:26`, an `invalidate()` during a fetch must not be undone. A leader's
  `take_in_flight` and its `store.write()` are two critical sections; an invalidation that
  runs in between finds neither slot nor entry, and the old value is stored after it.
  `OnlyClaimedComesBack` says that this window is the only way back; `PicksUpNewer` has
  the same exception for encoders.
- `cache.rs:363`, a deletion drops everything cached under the subject. A lookup by GUID
  between the two sweeps copies the schema back into the ID cache, and a fetch by ID that
  has no entry yet is not cancelled. `DeletedIsDropped` is about deletions that no lookup
  by ID or GUID overlaps.
- `http.rs:243`, retrying is safe for every request. `DELETE .../versions/latest` sent again
  after a lost answer deletes another version. `EffectsBounded` bounds the damage.
- `error.rs:349`, `is_retryable` matches the retry loop. The loop's error arm does not look
  at the error, so a body too big to send is retried too. `FailsOnlyWhenSpent` says the
  converse: what is retryable is retried.
- `decoder.rs:143`, without backends the header is stripped. The code reports an error.
- `json/mod.rs:612`, the order of dependencies does not matter. It does for bare names:
  the first document with a file name keeps it.
- Apicurio's `branch=latest` is read in two requests, so that ID and text may be those of
  different versions; `IdNamesText` says when.
- `list_versions` leaves out versions whose name is no 32-bit number, without a word in its
  comment; `WalkIsComplete` is about the others.

### Bounds

Cache: three tasks are a leader, a waiter (or second leader) and an invalidation,
all on one key, with a second key to show that keys do not disturb each other; one
invalidation and two fetches let a slot be cancelled and registered again before the first
leader returns. With one invalidation it does not matter which task makes it
(`Invalidator`); another one inserts. The keys compete for one place, so that every second
store evicts. `MaxToken` and `MaxGeneration` bound the length of behaviours only through the
number of fetches and invalidations. There is no symmetry, because liveness is checked in
the same run; the six safety properties are theorems for every bound.
HTTP: two callers with all four kinds of request, one permit, one retry and two late
attempts per call, that is all it sends, so that a caller queues, sleeps and is dropped
while the other waits. `MaxVersions` caps registrations.
Caching registry: two tasks are a lookup and an invalidation, or two lookups that share
a fetch, with GUIDs and with answers that name their subject; two invalidations and one
deletion let one sweep follow another. `clear_cache` stands for the unconditional
invalidations, a deletion for the sweep by subject. Two schemas compete for one place in
each cache, so that a schema is evicted between a lookup's fetch and its return; deletions
concern a subject and not a schema, so that one schema to look up by identifier suffices.
Pipeline: two tasks share a cache with one place; two identifiers, so that a subject's latest
version changes; one record, because properties of two records compare a record with `seen`;
eight configurations have every resolution with every framing and every codec and strategy
with some. Only the subjects of record values are changed by others (`Busy`).
Wire: 3-bit bytes and a 5-bit word make three groups of which the last overhangs; all
foreign records up to five bytes are longer than every header; three indexes and three bytes
of payload exceed the decoders' limits of two.
Avro sets: references among four documents (a diamond needs four) with a depth limit
and a count limit of three, which chains of four and closures that contain the root
exceed; and pairs of dependencies that repeat, contradict or nest definitions.
JSON: three documents of which the root has up to two references, under every combination of two
directories (or none) and two files: chains, cycles, diamonds, shared file names, second names.
Apicurio: two clients, three calls, pages of two entries, one retry, three registries, of
which one has an artifact with three versions, the first without a numeric name, and one
gives no totals; global IDs run past the largest that fits the wire format. `PageSize <= ServerLimit`
is assumed: a server whose own cap is below the page size ends the walk early.
Glue: two callers race for one new schema, with two definitions and two versions, so
that a version is deleted and registered again; two rounds of polling have one sleep.
Retry: words of 3 bits and 5 retries pass the width of the word, as 64 retries
would with `u64`. Dates lie around the leap days of 2000, 2024 and 2100 and the ends of
years, with days of two hours of two minutes of two seconds, because TLC counts to 2^31.

### Fairness

`FairSpec` of `InMemoryCache`, `HttpClient`, `AvroSchemaSet` and `GlueRegistration` assumes that a task inside a call
keeps being polled (the runtime's promise) and that what it awaits ends: a fetch
ends because its HTTP attempts are bounded in number (`EffectsBounded`) and in
time (a 30 s request timeout by default), a sleep because `delay_for` is capped
(`ServerWaitKept`). Calling and dropping are never forced. Weak fairness suffices:
tokio's semaphore serves its queue in order, and no lock is held across an await.
The other modules state safety only.

## Proofs

TLAPS checks, for every value of the constants allowed by the `ASSUME`s of the
modules. These say that sets of keys, callers and clients are finite where something
is counted, that bounds are natural numbers, that a cache has room for one entry
(every builder clamps with `.max(1)`), and that `None` and the marks for failure are
none of the values they stand beside (they are variants of an `Option` or a `Result` in the
code). For Apicurio they say that calls have arguments of the types of the client trait, and
that the registry first holds versions in the order of their numbers, each under a global
ID of its own (`WellFormed`). A walk over subjects asks for at least one (with
`max_results = 0` nothing is sent), and the server's `Order` lists no
artifact twice (`OrderAssumption`). The local clock shows a date that exists, not before 1970
(`ClockAssumption`: with an earlier clock the code drops the header, which is `NoHeader`). For the wire
formats, bytes have at least three bits, so that the magic numbers are bytes; a ZigZag index
fits a raw varint; keys have the length of their kind; paths are shorter than the largest index (their
count is a `u32`); `MAX_MESSAGE_INDEX_COUNT` is at least 1 and a `u32`. The numbers of tasks,
texts, identifiers, retries, permits, versions, documents and pages, and the widths of bytes,
words and indexes, are arbitrary. Where a run checks the same property, the theorem has its name in
`PROJECT.json`:

| Theorem | States |
|---|---|
| `TypeCorrect` | `Spec => []TypeOK` |
| `StoreStaysConsistent` | `Spec => []StoreConsistent` |
| `WaitersAreOwed` | `Spec => []WaiterIsOwed` |
| `SlotsAreLostToOwnKey` | `Spec => LosesSlotToOwnKey` |
| `ClaimsAreFresh` | `Spec => FreshClaim` |
| `OnlyClaimsComeBack` | `Spec => OnlyClaimedComesBack` |
| `DaysAreCounted` | `ClockSpec => []CountsDays` |
| `TypeCorrect` (Avro) | `Spec => []TypeOK` |
| `ClosureStaysExact` | `Spec => []ClosureIsExact` |
| `DefinitionsComeFirst` | `Spec => []DefinitionsFirst` |
| `CyclesAreReal` | `Spec => []CycleIsReal` |
| `OrderIsStable` | `Spec => []OrderedStaysPut` |
| `NoSchemaIsLost` | `Spec => []NothingIsLost` |
| `CacheIsCacheSpec` | `Spec => KeepsPromise`: `InMemoryCache` implements `CacheSpec` |
| `PermitsAreConserved` | `Spec => []PermitsConserved` |
| `EffectsAreBounded` | `Spec => []EffectsBounded` |
| `FailuresAreSpent` | `Spec => FailsOnlyWhenSpent` |
| `DeletionsAreDropped` | `Spec => []DeletedIsDropped` |
| `SubjectReadsAreCurrent` | `Spec => SubjectReadsStayCurrent` |
| `CallsFillBothIndexes` | `Spec => CallFillsBothIndexes` |
| `RecordsDecodeAsWritten` | `Spec => []DecodesAsWritten` |
| `InvalidationPicksUpNewer` | `Spec => []PicksUpNewer` |
| `SubjectsKeepOneKey` | `Spec => []OneKeyPerSubject` |
| `WritesOnlyWhenAsked` | `Spec => NeverWritesUnasked` |
| `ReturnedIsOwnAvailable` | `Spec => []ReturnsOwnAvailable` |
| `RacersRegister` | `Spec => []RacersAllRegister` |
| `ApicurioInvariant` | `Spec => []ApicurioInv` |
| `IdsNameTheirText` | `Spec => []IdNamesText` |
| `DeletesAreDone` | `Spec => []DeleteIsDone` |
| `RulesAreSet` | `Spec => []RuleIsSet` |
| `WalksAreComplete` | `Spec => []WalkIsComplete` |
| `ReferencesResolveAsNamed` | `Spec => []ResolvesAsNamed` |
| `FailuresHaveReasons` | `Spec => []FailsForAReason` |
| `BackoffsAreExact` | `PolicySpec => BackoffIsExact` |
| `DateWaitsAreExact` | `PolicySpec => []DateWaitIsExact` |
| `ServerWaitsAreKept` | `PolicySpec => ServerWaitKept` |
| `RecordsRoundTrip` | `WireSpec => []RoundTrip` |
| `MessagesAreNotConfused` | `WireSpec => []NeverAnotherMessage` |
| `DetectionIsExact` | `WireSpec => []DetectionAgrees` |
| `VarintsReadBack` | `WireSpec => []ReadUndoesWrite` |

The cache's inductive invariant is `CacheInv`, the conjunction of

- `TypeInv`: a sharper type correctness that ties `pc` to the other locals (a leader
  about to store holds a value, a caller past the fast path has a key), without
  which `TypeOK` is not inductive;
- `SlotInv`: an empty slot has no waiters, and a registered one has a leader that is
  still fetching;
- `TokenInv`: a leader's token has been handed out, and to it alone, which is what
  makes the comparison in `take_in_flight` exact;
- `FreshInv`: a leader that still owns its slot began its fetch no earlier than the
  newest cancellation of its key;
- `WaiterIsOwed` itself.

Actions are first shown to be of one of six kinds (quiet, joining, leading,
claiming, cancelling, notifying) and each part is preserved by each kind, so the
parts are proved once per kind and not once per action. `StoreConsistent` is proved
from lemmas on `Retain` (what `VecDeque::retain` keeps, and in which order) and on
`InsertLocked`, whose loop evicts at most one key when the invariant holds before.
`DaysAreCounted` rests on `DateInv` (the date exists, and `CountsDays`) and on the
lemma `Consecutive`: the day after a date is one more, within a month, into the next
month and into the next year. It needs that the truncating division rounds eras down
for negative years too (`EraRoundsDown`) and that consecutive March-to-March years
differ by their length (`YearLength`).

The Avro theorems rest on three invariants, each used by the next.

- `ClosureInv`: every document visited has been pushed or belongs to a call that will
  push it, once (`Accounted`); the references of a pushed document have all been
  visited, those of a pending one have been or are still to do (`Followed`); nothing
  else is visited (`OnlyReachable`). When the outermost call returns, what was pushed
  is closed under references, and reachability is the least such set.
- `OrderInv`: while the schemas are being ordered, `ready` is exactly the set of those
  that are not in the order and whose prerequisites all are, `remaining` counts the
  missing ones, and the order has each schema once, after its prerequisites
  (`Underway`). An empty heap before the end thus leaves schemas that wait for each
  other; a schema is never its own prerequisite because what it defines it does not
  need from others.
- `TableInv`: the schemas kept, with the root's, are those of the documents met so far.

**Refinement.** `RefInv` adds to `CacheInv` and `StoreConsistent` where every sender is:
`CallInv` says what a call's place tells about its key and its outcome, `SenderInv` that a
waiter's sender is registered under the waiter's own key or held by one task, which leads
that key's fetch or invalidates. A waiter is thus answered by one task and with one
outcome, which makes `Heard` a function. Each action is then shown to be a step of
`CacheSpec` or to leave `entries`, `Calls` and `Overtaken` as they are. A leader is overtaken
only in the step of an invalidation that takes its slot (`CancelCut`) and stays so
until its fetch ends, which is the step that answers its call (`CutStays`, `ClaimCut`).

**HttpClient.** `HttpInv` is `TypeInv` and

- `CountInv`: `sends` follows the loop's counter, and the versions a call has removed and its
  attempts that may still arrive are no more than the attempts it has sent;
- `QueueInv`: a caller is in the semaphore's queue exactly while it waits, and once, so that
  a permit is handed to one caller and a dropped one leaves no trace;
- `PermitInv`: permits left and permits held add up to the ceiling.

The actions fall into the six ways a call can move with respect to permit and queue; the
cardinality of the holders is reasoned about once per way.

**CachedSchemaRegistry.** `RegInv` has three groups. `TypeInv` and `CountInv` (samples and
ordinals are not ahead of the counters). For deletions, `ReadInv`: a value read by
subject whose sampled generation still holds is no older than any deletion that has bumped
that generation; `QuietInv`: while a deletion that no lookup by identifier overlaps is
under way, the caches it has cleared hold nothing older; and `ReturnInv`, the same after it
has returned, for what is cached and for what is about to be. For filling, `SlotInv` and
`WaitInv` (a slot is its leader's; a waiter's leader is in the slot or is storing) and
`FillInv`: before the first invalidation a leader keeps its slot, and what a call has had to
index is there or has been evicted since: an insertion adds its own key and accounts for the
one that goes.

**SerdePipeline.** `PipeInv` is `TypeInv` and

- `CacheInv`: a subject has one entry; a call whose key is `current`, and the key last
  framed, agree with it;
- `SlotInv`, `WaitInv`: a registered resolution is its leader's and has read nothing that
  was invalidated since; a waiter whose sender was taken out hears from a leader about to
  store a key of the waiter's own subject;
- `StaleInv`: what was read before an invalidation that is over is cached only if it had
  been claimed, and is otherwise in the hands of calls that began before;
- `AskInv`: a resolution asks what its mode asks first, or for a schema by ID;
- `OwnInv`: unless the encoder follows the latest version, every identifier in an answer,
  a call, the key cache, the topic or the decoder's cache names the schema it is used for.
  It survives deletions because texts are only added under new identifiers (`Grows`).

The proof found that a waiter already taken out of one slot must not count among the
waiters of the next leader of its subject, which needs three tasks to show (`Waiters`).

**GlueRegistration.** `GlueInv` is `TypeInv` and, per call, `Fits`: the version it polls is
of its own definition; the schema exists before the second attempt unless another client
deleted it; a version returned has been available. Glue's steps only add versions and keep
settled ones settled.

**Apicurio.** `ApicurioInv` says that the registry is `WellFormed` and, per call, `Knows`:

- `MetaOK`: between metadata and content the version named is still there, and still the
  newest if the latest was asked for, or the call's `watch` says that the artifact shrank or
  grew; with numbers that differ, the content then belongs to the same version;
- `SchemaOK`: a schema returned has its text under its ID, with the same exceptions;
- `DeleteOK`: the versions a deletion found are in no other artifact, ever after, because a
  version that is new has a new global ID; at its end they are nowhere;
- `RuleOK`: before the first POST nobody but another client has made a rule.

Every request takes the registry from `s` to `t` with `Evolves(s, t)`: texts stay under their
IDs, and an artifact gains only IDs that are new. What a waiting call knows and what a
finished one reported survive any such step of another client (`KnowsStill`,
`ReturnedStays`); what a call makes of its own answer is shown once per request (`MetaGood`
to `PostGood`). The conjunct of `RuleOK` on the POST is claimed for the first attempt only:
after a lost answer the rule may be the caller's own, which is why a conflict may be.

Walks have an invariant of their own, `WalkInv`. In the middle of a walk (`PageOK`), what has
been there all the time is on a page already read or ahead of the offset, unless an
entry was removed; and what is ahead has not been read, unless one was added. At its end
(`EndOK`) nothing is ahead, or the limit is reached. The step of another client
shifts entries in one direction only: additions move them away from the start, removals
towards it. For versions that is a fact about `Append` and `RemoveAt`; for artifacts it
is one about ranks, how many present artifacts precede one (`Ranks` and the lemmas after it).

**JsonReferences.** `JsonInv` says of a walk over the registry

- `StackInv`, `DepthInv`: what is on the recursion's stack, and that each level has added a
  document, so that a walk refused for its depth has met `MaxDepth` documents;
- `VisitedInv`: only documents of the `Closure` are visited; each reference of a visited one
  leads to a visited one or is still on some list; when the walk is over, `visited` is
  closed, and thus the `Closure`;
- `IndexInv`: a visited document is being walked or is indexed under a name that led to it
  and under its final segment; a key is such a name or such a segment, so that a conflict
  shows two documents with one file name;
- `CompileInv`: what is loaded belongs to the `Closure`, a compilation that ended
  found all it asked for, and one that did not met a document under two file names.

**RetryPolicy.** `PolicyInv` is little more than types: the parsed wait is what the header
received gives by the clock remembered with it. The work is in the arithmetic.
`ServerWaitsAreKept` needs that a saturated product is above every cap, and
`DateWaitsAreExact` for headers that are dates. `BackoffsAreExact` needs that powers of two
grow (`Pow2Grows`), so that a shift past the word's width stands for a delay above the cap.
`DateWaitsAreExact` needs that the days counted year by year and month by month are those of
`days_from_civil` (`CivilCounted`), for which `Consecutive` is summed over months and years.

**WireFormat.** `WireInv` says that the bytes under way are a beginning of what was framed, or a
stranger's (`Carried`), and that what a consumer reports is what it makes of them (`Made`);
decoding is a function, so that the theorems are about cuts of encodings (`IsCut`).

- A varint's digits sum to its value (`DigitsSum`), `MaxGroups` groups hold every word
  (`WordFits`), and the first byte without the continuation bit ends it: a whole varint is
  read, one that was cut is refused (`VarintIsRead`). Conversely digits determine the
  number's own varint unless it was padded, or spells more than a word holds (`VarintReadsBack`).
- By induction on the turns of the loop, an array of indexes is read back, and is refused
  when it was cut or has more than `MaxIndexCount` entries (`LoopReads`, `IndexesAreRead`).
- A prefix, a Glue header and a payload are read from a cut that holds them, and the rest is
  a cut of what followed (`PrefixIsRead`, `GlueDetected`, `BodyIsRead`, `PayloadOpened`).
  These make up `FrameDecoded`, `FrameUnframed`, `HeaderRead` and `GlueDecoded`, one for
  each consumer and framing, which the four theorems combine.

**Induction.** The library's induction rules take an operator and cannot be used. The proofs
apply `WFMin` to the set of counterexamples instead: `Least` and `Induction` are stated for a
set of numbers. That a recursive function satisfies its equation is proved from the same:
prefixes of it exist and agree (`PrefixExists`, `PrefixUnique`, `Recursion`), for
`Pow2`, `Weight`, the sums of the calendar, `Spelled`, `Written` and `IndexesFrom`.

Only model-checked: the liveness properties (`CallsReturn` of the cache and of Glue,
`RequestsReturn`, `Terminates`), because fairness and `ENABLED` are beyond this prover. Every
safety property of a passing run is a theorem.

## Not modelled, and what is left

- `CachedGlueSchemaRegistry` is one `InMemoryCache`; what holds of the one holds of the other.
- A caching registry over Apicurio, where one artifact has two spellings: invalidating one
  leaves what is cached under the other.
- `ResolvedAvroSchema::from_parsed`: its duplicates are told by equality of parsed schemas,
  which a library defines.
- Compatibility checks, health checks, configuration requests of the Confluent backend: one
  request each, no state.
- An Apicurio version sent as a JSON number beyond 32 bits, which `parse_version` would cut
  (`n as i32`): the registry sends strings.
- Serialisation, parsing and compression (third-party crates), builders, TLS and
  connection-pool configuration, URL escaping, identifiers' string forms, logging: no
  behaviour over time, covered by unit tests.
