----------------------------- MODULE HttpClient -----------------------------
(***************************************************************************)
(* HttpClient::request of http.rs: the concurrency ceiling, the retry loop *)
(* and what unreliable delivery makes of it.  The registry is external: it *)
(* is the versions of one subject, changed by the requests that reach it.  *)
(*                                                                         *)
(* An attempt may be lost on its way, its answer may be lost, and one that *)
(* has timed out may still reach the registry later.  A caller may drop    *)
(* its future wherever the code awaits: in acquire, send or sleep.  How    *)
(* long a caller sleeps is the business of module RetryPolicy.             *)
(***************************************************************************)
EXTENDS Naturals, Sequences, FiniteSets

CONSTANTS
  Caller,       \* concurrent callers of one client
  Kind,         \* kinds of request issued, out of Kinds
  Content,      \* schema contents
  MaxRetries,   \* retry_policy.max_retries
  Ceiling,      \* max_concurrent_requests; 0 is the same as none
  MaxVersions,  \* bound: past it no registration starts
  MaxLate,      \* bound on the given-up attempts of a call under way at once
  None

Kinds == {"get", "register", "delete_latest", "too_big"}

\* Requests: read the latest version, register content, delete the latest
\* version (version_path_segment of a negative version), and one whose body
\* exceeds MAX_REQUEST_BODY_BYTES.
Request == {r \in [kind : Kind, content : Content \cup {None}] :
              r.kind = "register" <=> r.content # None}

\* What request_once returns: a response, by the class of its status ...
Response == {"ok", "not_found", "denied", "unavailable"}
\* ... or an error: transport, body too big to send, answer too big to read.
Error == {"network", "config", "invalid_state"}

ASSUME HttpAssumption ==
  /\ IsFiniteSet(Caller)
  /\ Kind \subseteq Kinds
  /\ {MaxRetries, Ceiling, MaxVersions, MaxLate} \subseteq Nat
  /\ None \notin Content \cup Response \cup Error

VARIABLES
  permits,   \* permits left in the semaphore
  queue,     \* callers in sem.acquire(), first come first served
  call,      \* each caller's call of request()
  late,      \* per caller, attempts its call has given up and the network has not
  versions,  \* registry: the subject's versions, oldest first
  removed    \* history: per caller, versions its call has deleted

vars == <<permits, queue, call, late, versions, removed>>

\* The locals of a call, before the first.  A call that has returned or was
\* dropped leaves its own behind until the next one.
Idle ==
  [pc      |-> "idle",
   request |-> None,
   attempt |-> 0,
   sends   |-> 0,       \* history: attempts sent by this call
   arrived |-> FALSE,   \* the registry has handled the attempt under way
   answer  |-> None]    \* of the latest attempt: a Response or an Error

Init ==
  /\ permits = Ceiling
  /\ queue = <<>>
  /\ call = [c \in Caller |-> Idle]
  /\ late = [c \in Caller |-> 0]
  /\ \E x \in Content : versions = [i \in 1..2 |-> [content |-> x, live |-> TRUE]]
  /\ removed = [c \in Caller |-> 0]

------------------------------------------------------------------------------
(***************************************************************************)
(* The registry (external).                                                *)
(***************************************************************************)
Live == {i \in DOMAIN versions : versions[i].live}
Latest == CHOOSE i \in Live : \A j \in Live : j <= i

\* Registering content that a live version has changes nothing.
Apply(r) ==
  versions' =
    IF r.kind = "delete_latest" /\ Live # {}
    THEN [versions EXCEPT ![Latest].live = FALSE]
    ELSE IF r.kind = "register" /\ \A i \in Live : versions[i].content # r.content
    THEN Append(versions, [content |-> r.content, live |-> TRUE])
    ELSE versions

Outcome(r) == IF Live = {} /\ r.kind \in {"get", "delete_latest"}
              THEN "not_found" ELSE "ok"

Removes(r) == IF r.kind = "delete_latest" /\ Live # {} THEN 1 ELSE 0

------------------------------------------------------------------------------
(***************************************************************************)
(* The semaphore.                                                          *)
(***************************************************************************)
\* request(): queue for a permit, if there is a ceiling.  A caller is the name
\* of one call: it is free for another when nothing of the last is under way.
Begin(c, r) ==
  /\ call[c].pc = "idle" /\ late[c] = 0
  /\ r.kind = "register" => Len(versions) < MaxVersions
  /\ call' = [call EXCEPT ![c] =
       [Idle EXCEPT !.pc = IF Ceiling > 0 THEN "queued" ELSE "send", !.request = r]]
  /\ queue' = IF Ceiling > 0 THEN Append(queue, c) ELSE queue
  /\ removed' = [removed EXCEPT ![c] = 0]
  /\ UNCHANGED <<permits, late, versions>>

\* The slip of a queue served last come, first served.
LifoAcquire(c) ==
  /\ call[c].pc = "queued"
  /\ permits > 0
  /\ queue[Len(queue)] = c
  /\ permits' = permits - 1
  /\ queue' = SubSeq(queue, 1, Len(queue) - 1)
  /\ call' = [call EXCEPT ![c].pc = "send"]
  /\ UNCHANGED <<late, versions, removed>>

\* sem.acquire() gives a permit to the first in the queue.
Acquire(c) ==
  /\ call[c].pc = "queued"
  /\ permits > 0
  /\ Head(queue) = c
  /\ permits' = permits - 1
  /\ queue' = Tail(queue)
  /\ call' = [call EXCEPT ![c].pc = "send"]
  /\ UNCHANGED <<late, versions, removed>>

\* A dropped acquire() takes its waiter out of the queue, wherever it is.
LeaveQueue(c) ==
  \E i \in DOMAIN queue :
    /\ queue[i] = c
    /\ queue' = SubSeq(queue, 1, i - 1) \o SubSeq(queue, i + 1, Len(queue))

\* Callers that hold a permit, where there is a ceiling.
Holders == {c \in Caller : call[c].pc \in {"send", "sent", "sleep"}}

\* The permit is released when request() ends, however it ends.
Release == permits' = IF Ceiling > 0 THEN permits + 1 ELSE permits

------------------------------------------------------------------------------
(***************************************************************************)
(* The retry loop.                                                         *)
(***************************************************************************)
\* is_retryable_status: 429 and 5xx.
IsRetryableStatus(a) == a = "unavailable"

\* SchemaRegError::is_retryable of what request_once can return.
IsRetryable(a) == a \in {"network", "unavailable"}

\* The slip of letting go of the permit for the time of the sleep.
CarelessEndAttempt(c, a) ==
  /\ Release
  /\ call' = [call EXCEPT ![c] =
       IF (IsRetryableStatus(a) \/ a \in Error) /\ call[c].attempt < MaxRetries
       THEN [call[c] EXCEPT !.pc = "sleep", !.answer = a]
       ELSE [call[c] EXCEPT !.pc = "idle", !.answer = a]]

\* The slip of counting retries from one.
OneMoreEndAttempt(c, a) ==
  IF (IsRetryableStatus(a) \/ a \in Error) /\ call[c].attempt <= MaxRetries
  THEN /\ call' = [call EXCEPT ![c].pc = "sleep", ![c].answer = a]
       /\ UNCHANGED permits
  ELSE /\ call' = [call EXCEPT ![c].pc = "idle", ![c].answer = a]
       /\ Release

\* The slip of counting the first attempt as a retry.
OneLessEndAttempt(c, a) ==
  IF (IsRetryableStatus(a) \/ a \in Error) /\ call[c].attempt + 1 < MaxRetries
  THEN /\ call' = [call EXCEPT ![c].pc = "sleep", ![c].answer = a]
       /\ UNCHANGED permits
  ELSE /\ call' = [call EXCEPT ![c].pc = "idle", ![c].answer = a]
       /\ Release

\* request_once has returned a: sleep before another attempt, or return.  A
\* response is retried for its status, an error whatever it is.
EndAttempt(c, a) ==
  IF (IsRetryableStatus(a) \/ a \in Error) /\ call[c].attempt < MaxRetries
  THEN /\ call' = [call EXCEPT ![c].pc = "sleep", ![c].answer = a]
       /\ UNCHANGED permits
  ELSE /\ call' = [call EXCEPT ![c].pc = "idle", ![c].answer = a]
       /\ Release

Send(c) ==
  /\ call[c].pc = "send"
  /\ call[c].request.kind # "too_big"
  /\ call' = [call EXCEPT ![c].pc = "sent", ![c].arrived = FALSE, ![c].sends = @ + 1]
  /\ UNCHANGED <<permits, queue, late, versions, removed>>

\* The body is over the limit: request_once fails without sending.
RejectBody(c) ==
  /\ call[c].pc = "send"
  /\ call[c].request.kind = "too_big"
  /\ EndAttempt(c, "config")
  /\ UNCHANGED <<queue, late, versions, removed>>

\* The registry handles the attempt under way, and its answer arrives.  What
\* arrives may be a gateway's error, or more than MAX_BODY_BYTES.
Answer(c, a) ==
  LET r == call[c].request IN
  /\ call[c].pc = "sent" /\ ~call[c].arrived
  /\ a \in {Outcome(r), "unavailable", "invalid_state"}
  /\ Apply(r)
  /\ removed' = [removed EXCEPT ![c] = @ + Removes(r)]
  /\ EndAttempt(c, a)
  /\ UNCHANGED <<queue, late>>

\* The registry handles it, and the answer is lost.
LoseAnswer(c) ==
  LET r == call[c].request IN
  /\ call[c].pc = "sent" /\ ~call[c].arrived
  /\ Apply(r)
  /\ removed' = [removed EXCEPT ![c] = @ + Removes(r)]
  /\ call' = [call EXCEPT ![c].arrived = TRUE]
  /\ UNCHANGED <<permits, queue, late>>

\* The registry, or a proxy, turns the attempt down.
Refuse(c, a) ==
  /\ call[c].pc = "sent" /\ ~call[c].arrived
  /\ a \in {"denied", "unavailable"}
  /\ EndAttempt(c, a)
  /\ UNCHANGED <<queue, late, versions, removed>>

\* An attempt that is given up while under way is lost or late.
GiveUp(c) ==
  \/ UNCHANGED late
  \/ /\ call[c].pc = "sent" /\ ~call[c].arrived /\ late[c] < MaxLate
     /\ late' = [late EXCEPT ![c] = @ + 1]

\* The connection fails, or the client's request timeout expires.
NetworkError(c) ==
  /\ call[c].pc = "sent"
  /\ GiveUp(c)
  /\ EndAttempt(c, "network")
  /\ UNCHANGED <<queue, versions, removed>>

\* sleep() is over.
Wake(c) ==
  /\ call[c].pc = "sleep"
  /\ call' = [call EXCEPT ![c].pc = "send", ![c].attempt = @ + 1]
  /\ UNCHANGED <<permits, queue, late, versions, removed>>

\* The caller drops its future.
Drop(c) ==
  /\ call[c].pc \in {"queued", "sent", "sleep"}
  /\ IF call[c].pc = "queued"
     THEN LeaveQueue(c) /\ UNCHANGED permits
     ELSE UNCHANGED queue /\ Release
  /\ GiveUp(c)
  /\ call' = [call EXCEPT ![c].pc = "idle", ![c].answer = None]
  /\ UNCHANGED <<versions, removed>>

\* An attempt given up reaches the registry late, during the call or after it;
\* nobody waits for its answer.
ArriveLate(c) ==
  LET r == call[c].request IN
  /\ late[c] > 0
  /\ late' = [late EXCEPT ![c] = @ - 1]
  /\ Apply(r)
  /\ removed' = [removed EXCEPT ![c] = @ + Removes(r)]
  /\ UNCHANGED <<permits, queue, call>>

------------------------------------------------------------------------------
Progress(c) ==
  \/ Acquire(c) \/ Send(c) \/ RejectBody(c) \/ Wake(c)
  \/ \E a \in Response \cup Error : Answer(c, a) \/ Refuse(c, a)
  \/ NetworkError(c)

Next ==
  \E c \in Caller : \/ \E r \in Request : Begin(c, r)
                    \/ Progress(c) \/ LoseAnswer(c) \/ Drop(c) \/ ArriveLate(c)

Spec == Init /\ [][Next]_vars

\* A caller inside request() keeps being polled; an attempt ends at the latest
\* when the request timeout (30 s unless configured) expires; sleeps end.
FairSpec == Spec /\ \A c \in Caller : WF_vars(Progress(c))

------------------------------------------------------------------------------
\* No permit is lost or made up by retries, errors, late answers and dropped
\* futures, and the queue lists the callers that wait for one, each once: so
\* at most max_concurrent_requests calls are past acquire(), sleeping included.
PermitsConserved ==
  Ceiling > 0 =>
    /\ permits + Cardinality(Holders) = Ceiling
    /\ \A c \in Caller :
         Cardinality({i \in DOMAIN queue : queue[i] = c}) =
           IF call[c].pc = "queued" THEN 1 ELSE 0

\* Retrying multiplies a request that is not idempotent, and no further: a
\* call that deletes the latest version deletes at most one version for each
\* attempt it has sent, and sends at most max_retries + 1, whatever is lost or
\* refused on the way and however late an attempt given up arrives: during the
\* retries that follow it, or after the call has returned or was dropped.
EffectsBounded ==
  \A c \in Caller :
    removed[c] <= call[c].sends /\ call[c].sends <= MaxRetries + 1

\* A call that fails with what is_retryable says a retry might cure has spent every attempt
\* it may send: it returns no such failure early, whatever it met before.
FailsOnlyWhenSpent ==
  [][\A c \in Caller :
       /\ call[c].pc = "sent" /\ call'[c].pc = "idle"
       /\ IsRetryable(call'[c].answer)
       => call[c].sends = MaxRetries + 1]_vars

\* Every call of request() returns or is dropped: the queue for permits is
\* served, however many attempts are lost.
RequestsReturn ==
  \A c \in Caller : call[c].pc # "idle" ~> call[c].pc = "idle"

==============================================================================
