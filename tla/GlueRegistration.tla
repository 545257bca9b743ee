-------------------------- MODULE GlueRegistration --------------------------
(***************************************************************************)
(* AwsGlueSchemaRegistry::register_schema of glue/client.rs: look the      *)
(* definition up, register a version, create the schema, register again,   *)
(* and poll until the version is available.                                *)
(*                                                                         *)
(* Clients register definitions under one schema name.  Glue is external:  *)
(* a request may fail without effect, or take effect and lose its answer,  *)
(* and versions change status and are deleted at any time.                 *)
(***************************************************************************)
EXTENDS Integers, Sequences, FiniteSets

CONSTANTS
  Client,       \* concurrent callers, each with a client of its own
  Definition,
  Patience,     \* poll_max_attempts
  MaxVersions,  \* bound on the versions Glue accepts
  None

\* map_sdk_error: the schema or version does not exist, the schema exists, and
\* any other error (transport, throttling, credentials, input).
Error == {"not_found", "exists", "other"}
\* The other ends of a call: an answer whose version ID is missing or malformed,
\* and those of wait_for_available.
End == {"malformed", "failure", "deleting", "timeout"}

ASSUME GlueAssumption ==
  /\ IsFiniteSet(Client)
  /\ Patience \in Nat /\ MaxVersions \in Nat
  /\ None \notin Definition \cup Error \cup End \cup {"ok"}

VARIABLES
  schema,    \* Glue: the schema exists
  versions,  \* Glue: its versions, by ID
  task       \* each client's call of register_schema

vars == <<schema, versions, task>>

\* A call, before it starts and after it has returned.
Idle ==
  [pc       |-> "idle",
   auto     |-> FALSE,   \* the client was built with auto_register(true)
   def      |-> None,
   id       |-> 0,       \* the version registered, or found
   polls    |-> 0,       \* attempt of wait_for_available
   result   |-> None,    \* "ok", an Error or an End
   troubled |-> FALSE]   \* history: Glue failed this call, or deleted under it

Init ==
  /\ schema \in BOOLEAN
  /\ versions = <<>>
  /\ task = [c \in Client |-> Idle]

\* The versions of a definition that Glue would find.
Live(d) == {v \in DOMAIN versions :
              versions[v].def = d /\ versions[v].status \in {"pending", "available"}}

------------------------------------------------------------------------------
(***************************************************************************)
(* Steps of a call.                                                        *)
(***************************************************************************)
Goto(c, pc, trouble) ==
  task' = [task EXCEPT ![c].pc = pc, ![c].troubled = @ \/ trouble]

\* Of a call that has returned only what the properties speak of is left.
Finish(c, result, trouble) ==
  task' = [task EXCEPT ![c] = [Idle EXCEPT !.auto = task[c].auto, !.result = result,
                                           !.troubled = task[c].troubled \/ trouble]]

Found(c, v) ==
  task' = [task EXCEPT ![c] = [Idle EXCEPT !.def = task[c].def, !.id = v, !.result = "ok"]]

\* wait_for_available begins.
Await(c, v) ==
  task' = [task EXCEPT ![c].pc = "poll", ![c].id = v, ![c].polls = 0]

Start(c) ==
  /\ task[c].pc = "idle"
  /\ \E d \in Definition, a \in BOOLEAN :
       task' = [task EXCEPT ![c] = [Idle EXCEPT !.pc = "lookup", !.auto = a, !.def = d]]
  /\ UNCHANGED <<schema, versions>>

\* The slip of not looking at the status of the version that was found.
AnyStatusLookup(c) ==
  /\ task[c].pc = "lookup"
  /\ \/ \E v \in Live(task[c].def) : Found(c, v)
     \/ Live(task[c].def) = {} /\ Goto(c, "register", FALSE)
     \/ Goto(c, "register", TRUE)
  /\ UNCHANGED <<schema, versions>>

\* GetSchemaByDefinition: an available version is the answer; anything else,
\* an error included, leads to registration.
Lookup(c) ==
  /\ task[c].pc = "lookup"
  /\ \/ \E v \in Live(task[c].def) :
          IF versions[v].status = "available"
          THEN Found(c, v) \/ Finish(c, "malformed", TRUE)
          ELSE Goto(c, "register", FALSE)
     \/ Live(task[c].def) = {} /\ Goto(c, "register", FALSE)
     \/ Goto(c, "register", TRUE)
  /\ UNCHANGED <<schema, versions>>

\* Glue takes a definition: the version that has it, or a new one.
Submit(d, v) ==
  \/ v \in Live(d) /\ UNCHANGED versions
  \/ /\ Live(d) = {} /\ Len(versions) < MaxVersions /\ v = Len(versions) + 1
     /\ versions' = Append(versions, [def |-> d, status |-> "pending"])

\* RegisterSchemaVersion; OnError is what the client does with an error.
RegisterVersion(c, OnError(_, _)) ==
  /\ \/ /\ schema
        /\ \E v \in 1..MaxVersions :
             /\ Submit(task[c].def, v)
             /\ Await(c, v) \/ Finish(c, "malformed", TRUE) \/ OnError("other", TRUE)
     \/ OnError("other", TRUE) /\ UNCHANGED versions
     \/ ~schema /\ OnError("not_found", FALSE) /\ UNCHANGED versions
  /\ UNCHANGED schema

\* A first attempt; its errors, whatever they are, lead to CreateSchema if the
\* client may create schemas.
Register(c) ==
  LET OnError(e, trouble) == IF task[c].auto THEN Goto(c, "create", trouble)
                                             ELSE Finish(c, e, trouble) IN
  task[c].pc = "register" /\ RegisterVersion(c, OnError)

\* CreateSchema with the definition as its first version; OnError as above.
CreateVersion(c, OnError(_, _)) ==
  \/ /\ ~schema /\ schema' = TRUE
     /\ \E v \in 1..MaxVersions :
          /\ Submit(task[c].def, v)
          /\ Await(c, v) \/ Finish(c, "malformed", TRUE) \/ OnError("other", TRUE)
  \/ OnError("other", TRUE) /\ UNCHANGED <<schema, versions>>
  \/ schema /\ OnError("exists", FALSE) /\ UNCHANGED <<schema, versions>>

\* The slip of passing CreateSchema's error on.
CreateOnce(c) ==
  LET OnError(e, trouble) == Finish(c, e, trouble) IN
  task[c].pc = "create" /\ CreateVersion(c, OnError)

\* Its errors lead to a second RegisterSchemaVersion: another client may have
\* created the schema in between.
Create(c) ==
  LET OnError(e, trouble) == Goto(c, "fallback", trouble) IN
  task[c].pc = "create" /\ CreateVersion(c, OnError)

\* The slip of trying to create the schema again.
FallbackAgain(c) ==
  LET OnError(e, trouble) == Goto(c, "create", trouble) IN
  task[c].pc = "fallback" /\ RegisterVersion(c, OnError)

\* Errors of the second attempt are final.
Fallback(c) ==
  LET OnError(e, trouble) == Finish(c, e, trouble) IN
  task[c].pc = "fallback" /\ RegisterVersion(c, OnError)

\* One round of wait_for_available: GetSchemaVersion, and no sleep after the
\* last round.
Poll(c) ==
  LET v == task[c].id
      n == task[c].polls + 1 IN
  /\ task[c].pc = "poll" /\ task[c].polls < Patience
  /\ \/ versions[v].status = "available" /\ Found(c, v)
     \/ versions[v].status \in {"failure", "deleting"} /\ Finish(c, versions[v].status, FALSE)
     \/ versions[v].status = "gone" /\ Finish(c, "not_found", TRUE)
     \/ Finish(c, "other", TRUE)
     \/ /\ versions[v].status = "pending"
        /\ task' = [task EXCEPT ![c].polls = n,
                                ![c].pc = IF n < Patience THEN "sleep" ELSE "poll"]
  /\ UNCHANGED <<schema, versions>>

Wake(c) ==
  /\ task[c].pc = "sleep"
  /\ task' = [task EXCEPT ![c].pc = "poll"]
  /\ UNCHANGED <<schema, versions>>

\* The rounds are used up.
GiveUp(c) ==
  /\ task[c].pc = "poll" /\ task[c].polls >= Patience
  /\ Finish(c, "timeout", FALSE)
  /\ UNCHANGED <<schema, versions>>

\* The caller drops the future.
Drop(c) ==
  /\ task[c].pc # "idle"
  /\ task' = [task EXCEPT ![c] = Idle]
  /\ UNCHANGED <<schema, versions>>

------------------------------------------------------------------------------
(***************************************************************************)
(* Glue.                                                                   *)
(***************************************************************************)
\* A pending version passes its checks, or does not.
Settle ==
  /\ \E v \in DOMAIN versions, s \in {"available", "failure"} :
       versions[v].status = "pending" /\ versions' = [versions EXCEPT ![v].status = s]
  /\ UNCHANGED <<schema, task>>

\* Somebody deletes a version, and Glue completes it.
DeleteVersion ==
  /\ \E v \in DOMAIN versions :
       /\ versions[v].status # "gone"
       /\ versions' = [versions EXCEPT ![v].status =
                         IF @ = "deleting" THEN "gone" ELSE "deleting"]
  /\ UNCHANGED <<schema, task>>

\* Somebody deletes the schema with its versions.
DeleteSchema ==
  /\ schema /\ schema' = FALSE
  /\ versions' = [v \in DOMAIN versions |-> [versions[v] EXCEPT !.status = "gone"]]
  /\ task' = [c \in Client |-> [task[c] EXCEPT !.troubled = @ \/ task[c].pc # "idle"]]

------------------------------------------------------------------------------
Step(c) == \/ Lookup(c) \/ Register(c) \/ Create(c) \/ Fallback(c)
           \/ Poll(c) \/ Wake(c) \/ GiveUp(c)

Next ==
  \/ \E c \in Client : Start(c) \/ Step(c) \/ Drop(c)
  \/ Settle \/ DeleteVersion \/ DeleteSchema

Spec == Init /\ [][Next]_vars
\* Futures are polled, requests end and timers fire; Glue need not settle.
FairSpec == Spec /\ \A c \in Client : WF_vars(Step(c))

------------------------------------------------------------------------------
\* An ID that register_schema returns is of the definition the caller gave, and
\* that version has been available: one that is pending, or failed its checks,
\* is never returned.
ReturnsOwnAvailable ==
  \A c \in Client : task[c].result = "ok" =>
    /\ task[c].id \in DOMAIN versions
    /\ versions[task[c].id].def = task[c].def
    /\ versions[task[c].id].status \in {"available", "deleting", "gone"}

\* Clients that may create schemas do not fail each other: unless Glue fails the
\* call or somebody deletes, a race for a new schema ends with a version (or
\* with what became of it) for each of them.
RacersAllRegister ==
  \A c \in Client : task[c].auto /\ task[c].result \in Error => task[c].troubled

\* register_schema returns, also when Glue never settles the version.
CallsReturn == \A c \in Client : task[c].pc # "idle" ~> task[c].pc = "idle"
==============================================================================
