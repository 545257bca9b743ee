------------------------------ MODULE Apicurio ------------------------------
(***************************************************************************)
(* The Apicurio backend of apicurio/mod.rs: calls that take several HTTP   *)
(* requests, against a registry that other clients change in between.      *)
(*                                                                         *)
(* A request and its answer are one step: a client decides from the answer *)
(* alone.  Between two requests of a call anything may happen.  Requests   *)
(* get lost, before or after the registry has acted; HttpClient::request   *)
(* sends them again, at most MaxRetries times.                             *)
(*                                                                         *)
(* The registry itself is external: artifacts with numbered versions under *)
(* global IDs that are never reused, and one compatibility rule per scope. *)
(***************************************************************************)
EXTENDS Integers, Sequences, FiniteSets, SequencesExt

CONSTANTS
  Client,
  Subject,        \* the subject strings callers use, as [group, name]
  Invalid,        \* the name of a subject that validate_subject rejects
  DefaultGroup,
  Global,         \* the scope of the registry-wide rule: the empty subject
  Order,          \* every artifact, in the order in which searches list them
  Text,           \* schema texts
  Level,          \* compatibility levels
  Latest,         \* the version expression branch=latest
  Call,           \* the calls clients make, as [op, subject, arg]
  Registry,       \* what the registry may hold at first
  PageSize,       \* PAGE_SIZE
  ServerLimit,    \* the registry's own cap on a page
  MaxSchemaId,    \* u32::MAX, the largest ID the wire format carries
  MaxRetries,     \* RetryPolicy::max_retries
  MaxGlobalId,    \* bound on the versions ever created
  MaxCalls,       \* bound on the calls made
  None

ASSUME PageAssumption ==
  /\ PageSize \in Nat \ {0} /\ ServerLimit \in Nat /\ PageSize <= ServerLimit
  /\ MaxSchemaId \in Nat /\ MaxRetries \in Nat
  /\ MaxGlobalId \in Nat /\ MaxCalls \in Nat

VARIABLES
  server,   \* the registry: versions per artifact, rules, texts by global ID
  call,     \* the locals of each client's call
  calls,    \* calls begun so far
  watch     \* history: what happened to the registry during each call

vars == <<server, call, calls, watch>>

------------------------------------------------------------------------------
(***************************************************************************)
(* Addresses.                                                              *)
(***************************************************************************)
Artifacts == ToSet(Order)
Scopes == Artifacts \cup {Global}

\* A search lists every artifact once.
ASSUME OrderAssumption == Order \in Seq(Artifacts) /\ IsInjective(Order)

\* ArtifactId::from_subject: a bare name means the default group.
FromSubject(s) ==
  [group |-> IF s.group = None THEN DefaultGroup ELSE s.group, name |-> s.name]

\* artifact_id: from_subject between two rounds of validation.
ArtifactId(s) == IF s.name = Invalid THEN None ELSE FromSubject(s)

\* rule_scope: the empty subject is the registry-wide default.
RuleScope(s) == IF s = Global THEN Global ELSE ArtifactId(s)

\* What a call works on, None if its subject is rejected.
Target(k) == IF k.op \in {"set_rule", "get_rule"} THEN RuleScope(k.subject)
             ELSE IF k.op \in {"by_id", "subjects"} THEN Global
             ELSE ArtifactId(k.subject)

------------------------------------------------------------------------------
(***************************************************************************)
(* The registry.  Each operator gives its answer to a request and its      *)
(* state afterwards.                                                       *)
(***************************************************************************)
Reply(s, status, body) == [server |-> s, status |-> status, body |-> body]
NotFound(s) == Reply(s, 404, None)

Exists(s, a) == a = Global \/ s.versions[a] # <<>>
Gids(s, a) == {v.gid : v \in ToSet(s.versions[a])}
TextOf(s, v) == s.texts[v.gid]

\* What the registry holds: an artifact's versions in their order, under global
\* IDs of their own; a rule needs its artifact.  A version is called by its number,
\* or has a name that is none and is not `numeric`.  A registry may `count` what it lists.
Version == [number : Nat, gid : Nat, numeric : BOOLEAN]

WellFormed(s) ==
  /\ s \in [versions : [Artifacts -> Seq(Version)],
            rules : [Scopes -> Level \cup {None}], texts : Seq(Text), counts : BOOLEAN]
  /\ \A a \in Artifacts :
       /\ Gids(s, a) \subseteq DOMAIN s.texts
       /\ \A b \in Artifacts : b # a => Gids(s, a) \cap Gids(s, b) = {}
       /\ \A i, j \in DOMAIN s.versions[a] :
            i < j => s.versions[a][i].number < s.versions[a][j].number
       /\ ~Exists(s, a) => s.rules[a] = None

\* The versions that a version expression names: one or none.
Named(s, a, e) ==
  {v \in ToSet(s.versions[a]) :
     IF e = Latest THEN v = Last(s.versions[a]) ELSE v.numeric /\ v.number = e}

GetVersion(s, a, e) ==
  IF Named(s, a, e) = {} THEN NotFound(s)
  ELSE Reply(s, 200, CHOOSE v \in Named(s, a, e) : TRUE)

GetById(s, id) ==
  IF \E a \in Artifacts : id \in Gids(s, a)
  THEN Reply(s, 200, [number |-> 1, gid |-> id, numeric |-> TRUE]) ELSE NotFound(s)

\* ifExists=FIND_OR_CREATE_VERSION
Holding(s, a, x) == {v \in ToSet(s.versions[a]) : TextOf(s, v) = x}

FindOrCreate(s, a, x) ==
  LET old == s.versions[a]
      new == [number |-> IF old = <<>> THEN 1 ELSE Last(old).number + 1,
              gid |-> Len(s.texts) + 1, numeric |-> TRUE]
  IN  IF Holding(s, a, x) # {}
      THEN Reply(s, 200, CHOOSE v \in Holding(s, a, x) : TRUE)
      ELSE Reply([s EXCEPT !.versions[a] = Append(old, new),
                           !.texts = Append(@, x)], 200, new)

\* POST /search/versions: a hit, or an empty list.
Search(s, a, x) ==
  IF ~Exists(s, a) THEN NotFound(s)
  ELSE Reply(s, 200, IF Holding(s, a, x) = {} THEN None
                     ELSE CHOOSE v \in Holding(s, a, x) : TRUE)

DeleteArtifact(s, a) ==
  IF ~Exists(s, a) THEN NotFound(s)
  ELSE Reply([s EXCEPT !.versions[a] = <<>>, !.rules[a] = None], 204, None)

\* The last version takes its artifact with it.
DeleteOne(s, a, e) ==
  IF Named(s, a, e) = {} THEN NotFound(s)
  ELSE IF Len(s.versions[a]) = 1 THEN DeleteArtifact(s, a)
  ELSE LET i == CHOOSE j \in DOMAIN s.versions[a] : s.versions[a][j] \in Named(s, a, e)
       IN  Reply([s EXCEPT !.versions[a] = RemoveAt(s.versions[a], i)], 204, None)

\* What a sequence has at some of its places, in their order.
Rank(places, i) == Cardinality({j \in places : j <= i})
AtPlaces(q, places) ==
  [n \in 1..Cardinality(places) |-> q[CHOOSE i \in places : Rank(places, i) = n]]

\* What a walk lists: the artifacts that are there, in their order, or the versions of one.
Present(s) == {i \in DOMAIN Order : Exists(s, Order[i])}
Listing(s, a) == IF a # Global THEN s.versions[a] ELSE AtPlaces(Order, Present(s))

\* A page of the listing, with the total count if the registry gives one.
Page(s, a, offset, limit) ==
  LET all == Listing(s, a)
      n   == IF limit <= ServerLimit THEN limit ELSE ServerLimit
      end == IF offset + n <= Len(all) THEN offset + n ELSE Len(all)
  IN  IF ~Exists(s, a) THEN NotFound(s)
      ELSE Reply(s, 200, [entries |-> SubSeq(all, offset + 1, end),
                          count |-> IF s.counts THEN Len(all) ELSE None])

\* PUT updates a rule, POST creates one.
PutRule(s, a, level) ==
  IF Exists(s, a) /\ s.rules[a] # None
  THEN Reply([s EXCEPT !.rules[a] = level], 200, level) ELSE NotFound(s)

PostRule(s, a, level) ==
  IF ~Exists(s, a) THEN NotFound(s)
  ELSE IF s.rules[a] # None THEN Reply(s, 409, None)
  ELSE Reply([s EXCEPT !.rules[a] = level], 204, None)

GetRule(s, a) ==
  IF Exists(s, a) /\ s.rules[a] # None THEN Reply(s, 200, s.rules[a])
  ELSE NotFound(s)

------------------------------------------------------------------------------
(***************************************************************************)
(* The client.  A call's pc is the request it sends next.                  *)
(***************************************************************************)
\* The first request of each operation.
FirstRequest ==
  [version |-> "meta", by_id |-> "by_id",
   register |-> "create", lookup |-> "search", subjects |-> "page",
   versions |-> "page", delete_subject |-> "page",
   delete_version |-> "delete_version", set_rule |-> "put",
   get_rule |-> "get_rule"]

\* The calls there are, and that their subjects are among the artifacts or rejected.
ASSUME CallAssumption ==
  /\ \A s \in Registry : WellFormed(s)
  /\ Global \notin Artifacts /\ None \notin Scopes /\ Latest \notin Nat
  /\ \A k \in Call :
       /\ k.op \in DOMAIN FirstRequest
       /\ Target(k) \in Scopes \cup {None}
       /\ k.op \notin {"set_rule", "get_rule", "by_id", "subjects"} => Target(k) # Global
       /\ k.op \in {"register", "lookup"} => k.arg \in Text
       /\ k.op \in {"version", "delete_version"} => k.arg \in Int
       /\ k.op = "set_rule" => k.arg \in Level
       /\ k.op = "subjects" => k.arg \in Nat \ {0}   \* max_results; with 0 nothing is sent

Idle == [pc |-> "idle", args |-> None, target |-> None, meta |-> None,
         out |-> <<>>, offset |-> 0, tries |-> 0, result |-> None]

\* Outcomes of a call.
Schema(gid, text) == [kind |-> "schema", gid |-> gid, text |-> text]
Plain(kind) == [kind |-> kind, gid |-> 0, text |-> None]

\* Errors by status, as handle_json_response and its siblings map them.
ErrorOf(status) ==
  CASE status = 404 -> Plain("not_found")
    [] status = 409 -> Plain("conflict")
    [] OTHER -> Plain("http")

Ok2xx(status) == status \in 200..299

\* version_expression: a negative version means the latest, which is also what
\* get_latest_schema asks for.
VersionExpression(version) == IF version < 0 THEN Latest ELSE version

\* global_id_to_schema_id: an ID the wire format cannot carry is an error.
GlobalIdToSchemaId(gid, text) ==
  IF gid > MaxSchemaId THEN Plain("invalid_state") ELSE Schema(gid, text)

\* The entries the next page may hold: list_subjects stops at max_results.
Limit(k) ==
  IF k.args.op # "subjects" THEN PageSize
  ELSE LET left == k.args.arg - Len(k.out)
       IN  IF left <= PageSize THEN left ELSE PageSize

\* The slip of stopping at the first full page.
StopsAfterOnePage(k, page) == Len(page.entries) <= Limit(k)

\* Whether a page is the last one: it is empty or short, the cap is reached
\* (list_subjects), or as many entries as the registry counts have been seen
\* (list_versions).
LastPage(k, page) ==
  LET returned == Len(page.entries) IN
  \/ returned = 0
  \/ returned < Limit(k)
  \/ k.args.op = "subjects" /\ Len(k.out) + returned >= k.args.arg
  \/ /\ k.args.op # "subjects" /\ page.count # None
     /\ k.offset + returned >= page.count

Done(k, r) == [k EXCEPT !.pc = "done", !.result = r]
Send(k, request) == [k EXCEPT !.pc = request, !.tries = 0]

\* What a walk does when it ends: delete_subject goes on to delete.
AfterWalk(k) ==
  IF k.args.op = "delete_subject" THEN Send(k, "delete") ELSE Done(k, Plain("list"))

\* parse_version: list_versions can read the versions that are called by a number.
Reads(k, x) == k.args.op = "subjects" \/ x.numeric

\* The entries of a page that list_subjects or list_versions collects.
Collected(k, entries) ==
  AtPlaces(entries, {i \in DOMAIN entries : Reads(k, entries[i])})

\* One turn of the loops of list_subjects and list_versions: the entries that
\* are skipped count towards the offset.
OnPage(k, page) ==
  LET walked == [k EXCEPT !.out = @ \o Collected(k, page.entries),
                          !.offset = @ + Len(page.entries)]
  IN  IF LastPage(k, page) THEN AfterWalk(walked) ELSE Send(walked, "page")

\* The slip of reporting a deletion that was never asked for.
NoDeleteOnError(k, r) == Done(k, IF k.args.op = "delete_subject" /\ k.pc = "page"
                                 THEN Plain("ok") ELSE r)

\* A request of the call ended in error r.  delete_subject goes on without its
\* list (unwrap_or_default); every other call ends.
OnError(k, r) ==
  IF k.args.op = "delete_subject" /\ k.pc = "page"
  THEN Send([k EXCEPT !.out = <<>>], "delete")
  ELSE Done(k, r)

\* The slip of creating a rule that has just been updated.
PostAnyway(k, status) ==
  IF status \in {200, 404} THEN Send(k, "post") ELSE OnError(k, ErrorOf(status))

\* set_compatibility: a PUT that is answered 404 is followed by a POST.
OnPut(k, status) ==
  IF Ok2xx(status) THEN Done(k, Plain("ok"))
  ELSE IF status = 404 THEN Send(k, "post")
  ELSE OnError(k, ErrorOf(status))

\* lookup_schema: not found is an answer, and a hit carries the caller's text.
OnSearch(k, status, body) ==
  IF status = 404 \/ (Ok2xx(status) /\ body = None) THEN Done(k, Plain("none"))
  ELSE IF Ok2xx(status) THEN Done(k, GlobalIdToSchemaId(body.gid, k.args.arg))
  ELSE OnError(k, ErrorOf(status))

\* version_schema: the metadata first, then the content.
OnMeta(k, body) == Send([k EXCEPT !.meta = body], "content")
OnContent(k, text) == Done(k, GlobalIdToSchemaId(k.meta.gid, text))

\* get_schema_by_id: the ID is the caller's own.
OnSchemaById(k, text) == Done(k, Schema(k.args.arg, text))

\* register_schema: the ID of the version found or created.
OnCreate(k, body) == Done(k, GlobalIdToSchemaId(body.gid, k.args.arg))

OnRule(k, level) == Done(k, [Plain("level") EXCEPT !.text = level])

\* What the call does with an answer.
OnAnswer(k, s, status, body) ==
  CASE k.pc = "put" -> OnPut(k, status)
    [] k.pc = "search" -> OnSearch(k, status, body)
    [] k.pc \notin {"put", "search"} /\ ~Ok2xx(status) -> OnError(k, ErrorOf(status))
    [] k.pc = "meta" /\ Ok2xx(status) -> OnMeta(k, body)
    [] k.pc = "content" /\ Ok2xx(status) -> OnContent(k, TextOf(s, body))
    [] k.pc = "by_id" /\ Ok2xx(status) -> OnSchemaById(k, TextOf(s, body))
    [] k.pc = "create" /\ Ok2xx(status) -> OnCreate(k, body)
    [] k.pc = "page" /\ Ok2xx(status) -> OnPage(k, body)
    [] k.pc = "get_rule" /\ Ok2xx(status) -> OnRule(k, body)
    [] k.pc \in {"delete", "delete_version", "post"} /\ Ok2xx(status) ->
         Done(k, Plain("ok"))

\* The slip of asking for the content of whatever is the latest version now.
ContentOfLatest(s, k) == GetVersion(s, k.target, Latest)

\* GET .../versions/{expr}/content, with the expression of the first request.
ContentRequest(s, k) == GetVersion(s, k.target, VersionExpression(k.args.arg))

\* The registry's answer to the request a call sends.
Answer(s, k) ==
  CASE k.pc = "meta" -> GetVersion(s, k.target, VersionExpression(k.args.arg))
    [] k.pc = "content" -> ContentRequest(s, k)
    [] k.pc = "by_id" -> GetById(s, k.args.arg)
    [] k.pc = "create" -> FindOrCreate(s, k.target, k.args.arg)
    [] k.pc = "search" -> Search(s, k.target, k.args.arg)
    [] k.pc = "page" -> Page(s, k.target, k.offset, Limit(k))
    [] k.pc = "delete" -> DeleteArtifact(s, k.target)
    [] k.pc = "delete_version" -> DeleteOne(s, k.target, VersionExpression(k.args.arg))
    [] k.pc = "put" -> PutRule(s, k.target, k.args.arg)
    [] k.pc = "post" -> PostRule(s, k.target, k.args.arg)
    [] k.pc = "get_rule" -> GetRule(s, k.target)

------------------------------------------------------------------------------
(***************************************************************************)
(* History.  While a call walks a listing or reads a version, `steady` are *)
(* the entries that have been there all the time, `shrunk` and `grown` say *)
(* whether any was removed or added; `began` are the versions there at the *)
(* start.  `levels` are those the call's scope has had, and `meddled` says *)
(* whether another client has changed it.                                  *)
(***************************************************************************)
NoWatch == [steady |-> {}, shrunk |-> FALSE, grown |-> FALSE, began |-> {},
            levels |-> {}, meddled |-> FALSE]

Reading == {"meta", "content", "page"}
Entries(s, a) == ToSet(Listing(s, a))

StartWatch(s, a) ==
  [NoWatch EXCEPT !.steady = Entries(s, a),
                  !.began = IF a = Global THEN {} ELSE Gids(s, a),
                  !.levels = {s.rules[a]}]

\* The registry goes from server to s by a request of client c.
Watch(c, s) ==
  watch' = [d \in Client |->
    LET k == call[d]
        w == watch[d]
        old == Entries(server, k.target)
        new == Entries(s, k.target)
    IN  IF k.pc \in {"idle", "done"} THEN w
        ELSE [w EXCEPT
          !.steady = IF k.pc \in Reading THEN @ \cap new ELSE @,
          !.shrunk = @ \/ (k.pc \in Reading /\ ~(old \subseteq new)),
          !.grown  = @ \/ (k.pc \in Reading /\ ~(new \subseteq old)),
          !.levels = @ \cup {s.rules[k.target]},
          !.meddled = @ \/ (d # c /\ s.rules[k.target] # server.rules[k.target])]]

------------------------------------------------------------------------------
Init ==
  /\ server \in Registry
  /\ call = [c \in Client |-> Idle]
  /\ calls = 0
  /\ watch = [c \in Client |-> NoWatch]

\* A client makes a call.  A subject that validation rejects sends nothing.
Begin(c, k) ==
  /\ call[c].pc = "idle"
  /\ calls < MaxCalls
  /\ calls' = calls + 1
  /\ call' = [call EXCEPT ![c] =
       [Idle EXCEPT !.args = k, !.target = Target(k),
                    !.pc = IF Target(k) = None THEN "done" ELSE FirstRequest[k.op],
                    !.result = IF Target(k) = None THEN Plain("config") ELSE None]]
  /\ watch' = [watch EXCEPT ![c] =
       IF Target(k) = None THEN NoWatch ELSE StartWatch(server, Target(k))]
  /\ UNCHANGED server

InCall(c) == call[c].pc \notin {"idle", "done"}

\* Bound on the versions ever created.
RoomLeft(s) == Len(s.texts) <= MaxGlobalId

\* A request is served and its answer arrives.
Serve(c) ==
  LET a == Answer(server, call[c]) IN
  /\ InCall(c)
  /\ RoomLeft(a.server)
  /\ server' = a.server
  /\ call' = [call EXCEPT ![c] = OnAnswer(call[c], a.server, a.status, a.body)]
  /\ Watch(c, a.server)
  /\ UNCHANGED calls

\* An attempt fails: HttpClient::request sends it again, or gives up.
Again(c) ==
  call' = [call EXCEPT ![c] =
    IF call[c].tries < MaxRetries THEN [call[c] EXCEPT !.tries = @ + 1]
    ELSE OnError(call[c], Plain("network"))]

\* A request is served and its answer is lost.
AnswerLost(c) ==
  LET a == Answer(server, call[c]) IN
  /\ InCall(c)
  /\ RoomLeft(a.server)
  /\ a.server # server
  /\ server' = a.server
  /\ Again(c)
  /\ Watch(c, a.server)
  /\ UNCHANGED calls

\* A request is lost, or answered without effect by a gateway.
RequestLost(c) ==
  /\ InCall(c)
  /\ Again(c)
  /\ UNCHANGED <<server, calls, watch>>

Return(c) ==
  /\ call[c].pc = "done"
  /\ call' = [call EXCEPT ![c] = Idle]
  /\ watch' = [watch EXCEPT ![c] = NoWatch]
  /\ UNCHANGED <<server, calls>>

Next ==
  \E c \in Client :
    \/ \E k \in Call : Begin(c, k)
    \/ Serve(c) \/ AnswerLost(c) \/ RequestLost(c) \/ Return(c)

Spec == Init /\ [][Next]_vars

------------------------------------------------------------------------------
(***************************************************************************)
(* What holds.                                                             *)
(***************************************************************************)
Finished(c, ops, kind) ==
  call[c].pc = "done" /\ call[c].args.op \in ops /\ call[c].result.kind = kind

\* The ID of a schema that any call returns names its text, so that records
\* framed with the ID are read with that text.  version_schema asks for
\* metadata and content in two requests: registrations in between cannot
\* tear a numbered version apart, only a deletion can; the latest version
\* can be torn by either.
IdNamesText ==
  \A c \in Client :
    Finished(c, DOMAIN FirstRequest, "schema") =>
      LET k == call[c] w == watch[c] IN
      \/ server.texts[k.result.gid] = k.result.text
      \/ k.args.op = "version" /\ w.shrunk
      \/ k.args.op = "version" /\ k.args.arg < 0 /\ w.grown

\* list_subjects and list_versions follow the pages of a listing that other
\* clients change: they stay within the cap, miss an entry that is there all
\* the time only if another was removed meanwhile, and name one twice only if
\* another was added.  Versions whose name is no number are skipped, and cost
\* no other its place.
WalkIsComplete ==
  \A c \in Client :
    Finished(c, {"subjects", "versions"}, "list") =>
      LET k == call[c]
          w == watch[c]
          capped == k.args.op = "subjects" /\ Len(k.out) >= k.args.arg
      IN  /\ k.args.op = "subjects" => Len(k.out) <= k.args.arg
          /\ capped \/ w.shrunk \/ {x \in w.steady : Reads(k, x)} \subseteq ToSet(k.out)
          /\ w.grown \/ IsInjective(k.out)

\* When delete_subject returns Ok, no version that was there when it was
\* called is left, whether or not its list could be read and however often
\* its requests were sent.
DeleteIsDone ==
  \A c \in Client :
    Finished(c, {"delete_subject"}, "ok") =>
      watch[c].began \cap UNION {Gids(server, a) : a \in Artifacts} = {}

\* set_compatibility takes effect if it returns Ok.  A caller need not know
\* whether the scope had a rule: a conflict is reported only if another client
\* changed the rule during the call, or the POST was sent more than once.
RuleIsSet ==
  \A c \in Client :
    /\ Finished(c, {"set_rule"}, "ok") => call[c].args.arg \in watch[c].levels
    /\ Finished(c, {"set_rule"}, "conflict") => watch[c].meddled \/ call[c].tries > 0
==============================================================================
