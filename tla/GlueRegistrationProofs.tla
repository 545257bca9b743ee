----------------------- MODULE GlueRegistrationProofs -----------------------
(***************************************************************************)
(* Proofs about GlueRegistration, for any set of clients and definitions,  *)
(* any number of polls and any number of versions.                         *)
(***************************************************************************)
EXTENDS GlueRegistration, SequenceTheorems, TLAPS

------------------------------------------------------------------------------
(***************************************************************************)
(* The inductive invariant.                                                *)
(***************************************************************************)
Status == {"pending", "available", "failure", "deleting", "gone"}
Version == [def : Definition, status : Status]

Call ==
  [pc       : {"idle", "lookup", "register", "create", "fallback", "poll", "sleep"},
   auto     : BOOLEAN,
   def      : Definition \cup {None},
   id       : Nat,
   polls    : Nat,
   result   : Error \cup End \cup {"ok", None},
   troubled : BOOLEAN]

TypeInv ==
  /\ schema \in BOOLEAN
  /\ versions \in Seq(Version)
  /\ task \in [Client -> Call]

\* Once available, a version is never pending again, and never fails.
Settled == {"available", "deleting", "gone"}

\* What a call k relies on, and has to show, of Glue with schema sch and
\* versions vs: the version it polls is of its definition, and the schema is
\* there before its second attempt unless somebody has deleted it since.
Fits(k, sch, vs) ==
  /\ k.pc # "idle" => k.def \in Definition /\ k.result = None
  /\ k.pc \in {"poll", "sleep"} => k.id \in DOMAIN vs /\ vs[k.id].def = k.def
  /\ k.pc = "fallback" => sch \/ k.troubled
  /\ k.result = "ok" => /\ k.id \in DOMAIN vs
                        /\ vs[k.id].def = k.def
                        /\ vs[k.id].status \in Settled
  /\ k.auto /\ k.result \in Error => k.troubled

GlueInv == TypeInv /\ \A c \in Client : Fits(task[c], schema, versions)

------------------------------------------------------------------------------
(***************************************************************************)
(* Versions are only ever added, keep their definitions, and once settled  *)
(* stay settled.                                                           *)
(***************************************************************************)
Grows(vs, ws) ==
  \A v \in DOMAIN vs :
    /\ v \in DOMAIN ws
    /\ ws[v].def = vs[v].def
    /\ vs[v].status \in Settled => ws[v].status \in Settled

LEMMA FitsKept ==
  ASSUME NEW k \in Call, NEW vs, NEW ws, NEW sch \in BOOLEAN, NEW tch \in BOOLEAN,
         Fits(k, sch, vs), Grows(vs, ws), k.pc = "fallback" => (sch => tch)
  PROVE  Fits(k, tch, ws)
  BY DEF Fits, Grows

LEMMA Constants ==
  /\ None # "ok" /\ None \notin Error /\ None \notin Definition
  /\ "ok" \notin Error \cup End
<1>1. None # "ok" /\ None \notin Error /\ None \notin Definition
  BY GlueAssumption DEF GlueAssumption
<1>2. QED
  BY <1>1 DEF Error, End

LEMMA IdleCall ==
  /\ Idle \in Call /\ Idle.pc = "idle" /\ Idle.result = None
  BY DEF Idle, Call

\* What Glue does with a definition: the version it names is of that
\* definition, and the others are as they were.
LEMMA SubmitGrows ==
  ASSUME TypeInv, NEW d \in Definition, NEW v, Submit(d, v)
  PROVE  /\ versions' \in Seq(Version)
         /\ Grows(versions, versions')
         /\ v \in DOMAIN versions' /\ v \in Nat /\ versions'[v].def = d
<1>1. versions \in Seq(Version) /\ Len(versions) \in Nat /\ DOMAIN versions = 1..Len(versions)
  BY DEF TypeInv
<1>2. CASE v \in Live(d) /\ UNCHANGED versions
  BY <1>1, <1>2 DEF Live, Grows
<1>3. CASE /\ v = Len(versions) + 1
           /\ versions' = Append(versions, [def |-> d, status |-> "pending"])
  <2> DEFINE w == [def |-> d, status |-> "pending"]
  <2>1. w \in Version /\ w.def = d
    BY DEF Version, Status
  <2> HIDE DEF w
  <2>2. /\ versions' \in Seq(Version) /\ Len(versions') = Len(versions) + 1
        /\ \A i \in 1..Len(versions) : versions'[i] = versions[i]
        /\ versions'[Len(versions) + 1] = w
    BY <1>1, <1>3, <2>1, AppendProperties DEF w
  <2>3. v \in DOMAIN versions' /\ \A i \in DOMAIN versions : i \in DOMAIN versions'
    BY <1>1, <1>3, <2>2
  <2>4. QED
    BY <1>1, <1>3, <2>1, <2>2, <2>3 DEF Grows
<1>4. QED
  BY <1>2, <1>3 DEF Submit

------------------------------------------------------------------------------
(***************************************************************************)
(* The ways a step takes a call on.                                        *)
(***************************************************************************)
\* Glue has grown, or stayed as it was.
GlueGrows ==
  /\ schema' \in BOOLEAN
  /\ schema => schema'
  /\ versions' \in Seq(Version) /\ Grows(versions, versions')

\* The call of c becomes k.
Moves(c, k) ==
  /\ GlueGrows
  /\ k \in Call /\ Fits(k, schema', versions')
  /\ task' = [task EXCEPT ![c] = k]

LEMMA GlueStays == TypeInv /\ UNCHANGED <<schema, versions>> => GlueGrows
  BY DEF TypeInv, GlueGrows, Grows

LEMMA FinishFits ==
  ASSUME TypeInv, GlueGrows, NEW c \in Client,
         NEW e \in Error \cup End, NEW trouble \in BOOLEAN, Finish(c, e, trouble),
         task[c].auto /\ e \in Error => task[c].troubled \/ trouble
  PROVE  \E k : Moves(c, k)
<1>1. task[c] \in Call
  BY DEF TypeInv
<1>2. PICK a \in BOOLEAN, b \in BOOLEAN :
        a = task[c].auto /\ b = (task[c].troubled \/ trouble)
  BY <1>1 DEF Call
<1> DEFINE k == [Idle EXCEPT !.auto = a, !.result = e, !.troubled = b]
<1>3. task' = [task EXCEPT ![c] = k]
  BY <1>2 DEF Finish
<1>4. /\ k \in Call /\ k.pc = "idle" /\ k.result = e
      /\ k.auto = a /\ k.troubled = b
  BY IdleCall DEF Call
<1> HIDE DEF k
<1>5. Fits(k, schema', versions')
  BY <1>2, <1>4, Constants DEF Fits
<1>6. QED
  BY <1>3, <1>4, <1>5 DEF Moves

LEMMA GotoFits ==
  ASSUME TypeInv, GlueGrows, NEW c \in Client, Fits(task[c], schema, versions),
         task[c].pc # "idle",
         NEW pc \in {"register", "create", "fallback"}, NEW trouble \in BOOLEAN,
         Goto(c, pc, trouble), pc = "fallback" => schema' \/ trouble
  PROVE  \E k : Moves(c, k)
<1>1. task[c] \in Call
  BY DEF TypeInv
<1>2. PICK b \in BOOLEAN : b = (task[c].troubled \/ trouble)
  BY <1>1 DEF Call
<1> DEFINE k == [task[c] EXCEPT !.pc = pc, !.troubled = b]
<1>3. task' = [task EXCEPT ![c] = k]
  BY <1>2 DEF Goto, TypeInv
<1>4. /\ k \in Call /\ k.pc = pc /\ k.result = task[c].result /\ k.def = task[c].def
      /\ k.troubled = b
  BY <1>1 DEF Call
<1> HIDE DEF k
<1>5. Fits(k, schema', versions')
  BY <1>2, <1>4, Constants DEF Fits
<1>6. QED
  BY <1>3, <1>4, <1>5 DEF Moves

LEMMA FoundFits ==
  ASSUME TypeInv, GlueGrows, NEW c \in Client, NEW v \in Nat, Found(c, v),
         v \in DOMAIN versions', versions'[v].def = task[c].def,
         versions'[v].status \in Settled
  PROVE  \E k : Moves(c, k)
<1>1. task[c] \in Call
  BY DEF TypeInv
<1> DEFINE k == [Idle EXCEPT !.def = task[c].def, !.id = v, !.result = "ok"]
<1>2. task' = [task EXCEPT ![c] = k]
  BY DEF Found
<1>3. /\ k \in Call /\ k.pc = "idle" /\ k.result = "ok"
      /\ k.id = v /\ k.def = task[c].def
  BY <1>1, IdleCall DEF Call
<1> HIDE DEF k
<1>4. Fits(k, schema', versions')
  BY <1>3, Constants DEF Fits
<1>5. QED
  BY <1>2, <1>3, <1>4 DEF Moves

LEMMA AwaitFits ==
  ASSUME TypeInv, GlueGrows, NEW c \in Client, Fits(task[c], schema, versions),
         task[c].pc # "idle", NEW v \in Nat, Await(c, v),
         v \in DOMAIN versions', versions'[v].def = task[c].def
  PROVE  \E k : Moves(c, k)
<1>1. task[c] \in Call
  BY DEF TypeInv
<1>2. PICK z \in Nat : z = 0
  OBVIOUS
<1> DEFINE k == [task[c] EXCEPT !.pc = "poll", !.id = v, !.polls = z]
<1>3. task' = [task EXCEPT ![c] = k]
  BY <1>2 DEF Await, TypeInv
<1>4. /\ k \in Call /\ k.pc = "poll" /\ k.result = task[c].result
      /\ k.id = v /\ k.def = task[c].def
  BY <1>1 DEF Call
<1> HIDE DEF k
<1>5. Fits(k, schema', versions')
  BY <1>4, Constants DEF Fits
<1>6. QED
  BY <1>3, <1>4, <1>5 DEF Moves

------------------------------------------------------------------------------
(***************************************************************************)
(* Every step of a call is such a move.                                    *)
(***************************************************************************)
\* What is common to RegisterSchemaVersion and CreateSchema: the version that
\* Glue names is awaited, or the answer is malformed.
LEMMA SubmitMoves ==
  ASSUME TypeInv, NEW c \in Client, Fits(task[c], schema, versions),
         task[c].pc # "idle", schema', NEW v, Submit(task[c].def, v),
         Await(c, v) \/ Finish(c, "malformed", TRUE)
  PROVE  \E k : Moves(c, k)
<1>1. task[c].def \in Definition
  BY DEF Fits
<1>2. /\ GlueGrows
      /\ v \in DOMAIN versions' /\ v \in Nat /\ versions'[v].def = task[c].def
  BY <1>1, SubmitGrows DEF GlueGrows
<1>3. CASE Await(c, v)
  BY <1>2, <1>3, AwaitFits
<1>4. CASE Finish(c, "malformed", TRUE)
  <2>1. "malformed" \in Error \cup End /\ "malformed" \notin Error
    BY DEF Error, End
  <2>2. QED
    BY <1>2, <1>4, <2>1, FinishFits
<1>5. QED
  BY <1>3, <1>4

LEMMA RegisterMoves ==
  ASSUME TypeInv, NEW c \in Client, Fits(task[c], schema, versions), Register(c)
  PROVE  \E k : Moves(c, k)
<1> DEFINE OnError(e, trouble) == IF task[c].auto THEN Goto(c, "create", trouble)
                                                  ELSE Finish(c, e, trouble)
<1>0. task[c].pc = "register" /\ UNCHANGED schema /\ schema \in BOOLEAN
  BY DEF Register, RegisterVersion, TypeInv
<1>1. \/ /\ schema
         /\ \E v \in 1..MaxVersions :
              /\ Submit(task[c].def, v)
              /\ Await(c, v) \/ Finish(c, "malformed", TRUE) \/ OnError("other", TRUE)
      \/ OnError("other", TRUE) /\ UNCHANGED versions
      \/ OnError("not_found", FALSE) /\ UNCHANGED versions
  BY DEF Register, RegisterVersion
<1>2. ASSUME GlueGrows, NEW e \in {"other", "not_found"}, NEW trouble \in BOOLEAN,
             OnError(e, trouble)
      PROVE  \E k : Moves(c, k)
  <2>1. CASE task[c].auto
    BY <1>0, <1>2, <2>1, GotoFits
  <2>2. CASE ~task[c].auto
    <3>1. e \in Error \cup End
      BY DEF Error
    <3>2. Finish(c, e, trouble)
      BY <1>2, <2>2
    <3>3. QED
      BY <1>2, <2>2, <3>1, <3>2, FinishFits
  <2>3. QED
    BY <2>1, <2>2
<1>3. ASSUME schema, NEW v \in 1..MaxVersions, Submit(task[c].def, v)
      PROVE  GlueGrows
  BY <1>0, <1>3, SubmitGrows DEF GlueGrows, Fits
<1> HIDE DEF OnError
<1>4. CASE \/ OnError("other", TRUE) /\ UNCHANGED versions
           \/ OnError("not_found", FALSE) /\ UNCHANGED versions
  BY <1>0, <1>2, <1>4, GlueStays
<1>5. ASSUME schema, NEW v \in 1..MaxVersions, Submit(task[c].def, v),
             Await(c, v) \/ Finish(c, "malformed", TRUE) \/ OnError("other", TRUE)
      PROVE  \E k : Moves(c, k)
  <2>1. CASE Await(c, v) \/ Finish(c, "malformed", TRUE)
    BY <1>0, <1>5, <2>1, SubmitMoves
  <2>2. CASE OnError("other", TRUE)
    BY <1>2, <1>3, <1>5, <2>2
  <2>3. QED
    BY <1>5, <2>1, <2>2
<1>6. QED
  BY <1>1, <1>4, <1>5

LEMMA CreateMoves ==
  ASSUME TypeInv, NEW c \in Client, Fits(task[c], schema, versions), Create(c)
  PROVE  \E k : Moves(c, k)
<1>0. task[c].pc = "create" /\ schema \in BOOLEAN
  BY DEF Create, TypeInv
<1>1. \/ /\ ~schema /\ schema' = TRUE
         /\ \E v \in 1..MaxVersions :
              /\ Submit(task[c].def, v)
              /\ \/ Await(c, v) \/ Finish(c, "malformed", TRUE)
                 \/ Goto(c, "fallback", TRUE)
      \/ Goto(c, "fallback", TRUE) /\ UNCHANGED <<schema, versions>>
      \/ schema /\ Goto(c, "fallback", FALSE) /\ UNCHANGED <<schema, versions>>
  BY DEF Create, CreateVersion
<1>2. ASSUME schema' = TRUE, NEW v \in 1..MaxVersions, Submit(task[c].def, v)
      PROVE  GlueGrows
  BY <1>0, <1>2, SubmitGrows DEF GlueGrows, Fits
<1>3. CASE \/ Goto(c, "fallback", TRUE) /\ UNCHANGED <<schema, versions>>
           \/ schema /\ Goto(c, "fallback", FALSE) /\ UNCHANGED <<schema, versions>>
  BY <1>0, <1>3, GlueStays, GotoFits
<1>4. ASSUME schema' = TRUE, NEW v \in 1..MaxVersions, Submit(task[c].def, v),
             \/ Await(c, v) \/ Finish(c, "malformed", TRUE)
             \/ Goto(c, "fallback", TRUE)
      PROVE  \E k : Moves(c, k)
  <2>1. CASE Await(c, v) \/ Finish(c, "malformed", TRUE)
    BY <1>0, <1>4, <2>1, SubmitMoves
  <2>2. CASE Goto(c, "fallback", TRUE)
    BY <1>0, <1>2, <1>4, <2>2, GotoFits
  <2>3. QED
    BY <1>4, <2>1, <2>2
<1>5. QED
  BY <1>1, <1>3, <1>4

\* The second attempt finds no schema only if it was deleted meanwhile.
LEMMA FallbackMoves ==
  ASSUME TypeInv, NEW c \in Client, Fits(task[c], schema, versions), Fallback(c)
  PROVE  \E k : Moves(c, k)
<1>0. task[c].pc = "fallback" /\ UNCHANGED schema /\ schema \in BOOLEAN
  BY DEF Fallback, RegisterVersion, TypeInv
<1>1. \/ /\ schema
         /\ \E v \in 1..MaxVersions :
              /\ Submit(task[c].def, v)
              /\ \/ Await(c, v) \/ Finish(c, "malformed", TRUE)
                 \/ Finish(c, "other", TRUE)
      \/ Finish(c, "other", TRUE) /\ UNCHANGED versions
      \/ ~schema /\ Finish(c, "not_found", FALSE) /\ UNCHANGED versions
  BY DEF Fallback, RegisterVersion
<1>2. "other" \in Error \cup End /\ "not_found" \in Error \cup End
  BY DEF Error
<1>3. CASE Finish(c, "other", TRUE) /\ UNCHANGED versions
  BY <1>0, <1>2, <1>3, GlueStays, FinishFits
<1>4. CASE ~schema /\ Finish(c, "not_found", FALSE) /\ UNCHANGED versions
  <2>1. task[c].troubled
    BY <1>0, <1>4 DEF Fits
  <2>2. QED
    BY <1>0, <1>2, <1>4, <2>1, GlueStays, FinishFits
<1>5. ASSUME schema, NEW v \in 1..MaxVersions, Submit(task[c].def, v),
             \/ Await(c, v) \/ Finish(c, "malformed", TRUE)
             \/ Finish(c, "other", TRUE)
      PROVE  \E k : Moves(c, k)
  <2>1. CASE Await(c, v) \/ Finish(c, "malformed", TRUE)
    BY <1>0, <1>5, <2>1, SubmitMoves
  <2>2. CASE Finish(c, "other", TRUE)
    <3>1. GlueGrows
      BY <1>0, <1>5, SubmitGrows DEF GlueGrows, Fits
    <3>2. QED
      BY <1>2, <2>2, <3>1, FinishFits
  <2>3. QED
    BY <1>5, <2>1, <2>2
<1>6. QED
  BY <1>1, <1>3, <1>4, <1>5

LEMMA LookupMoves ==
  ASSUME TypeInv, NEW c \in Client, Fits(task[c], schema, versions), Lookup(c)
  PROVE  \E k : Moves(c, k)
<1>0. GlueGrows /\ task[c].pc = "lookup" /\ UNCHANGED versions
  BY GlueStays DEF Lookup
<1>1. CASE Goto(c, "register", FALSE) \/ Goto(c, "register", TRUE)
  BY <1>0, <1>1, GotoFits
<1>2. CASE Finish(c, "malformed", TRUE)
  <2>1. "malformed" \in Error \cup End
    BY DEF End
  <2>2. QED
    BY <1>0, <1>2, <2>1, FinishFits
<1>3. ASSUME NEW v \in Live(task[c].def), versions[v].status = "available", Found(c, v)
      PROVE  \E k : Moves(c, k)
  <2>1. v \in DOMAIN versions' /\ v \in Nat
    BY <1>0 DEF Live, TypeInv
  <2>2. versions'[v].def = task[c].def /\ versions'[v].status \in Settled
    BY <1>0, <1>3 DEF Live, Settled
  <2>3. QED
    BY <1>0, <1>3, <2>1, <2>2, FoundFits
<1>4. QED
  BY <1>1, <1>2, <1>3 DEF Lookup

LEMMA PollMoves ==
  ASSUME TypeInv, NEW c \in Client, Fits(task[c], schema, versions), Poll(c)
  PROVE  \E k : Moves(c, k)
<1> DEFINE v == task[c].id
<1>0. /\ GlueGrows /\ task[c].pc = "poll" /\ UNCHANGED versions
      /\ task[c] \in Call /\ v \in Nat
  BY GlueStays DEF Poll, TypeInv, Call
<1>1. v \in DOMAIN versions /\ versions[v].def = task[c].def
  BY <1>0 DEF Fits
<1>2. CASE versions[v].status = "available" /\ Found(c, v)
  BY <1>0, <1>1, <1>2, FoundFits DEF Settled
<1>3. CASE /\ versions[v].status \in {"failure", "deleting"}
           /\ Finish(c, versions[v].status, FALSE)
  <2>1. versions[v].status \in End /\ versions[v].status \notin Error
    BY <1>3 DEF Error, End
  <2>2. QED
    BY <1>0, <1>3, <2>1, FinishFits
<1>4. CASE Finish(c, "not_found", TRUE) \/ Finish(c, "other", TRUE)
  <2>1. "not_found" \in Error \cup End /\ "other" \in Error \cup End
    BY DEF Error
  <2>2. QED
    BY <1>0, <1>4, <2>1, FinishFits
<1>5. CASE task' = [task EXCEPT ![c].polls = task[c].polls + 1,
                                ![c].pc = IF task[c].polls + 1 < Patience
                                          THEN "sleep" ELSE "poll"]
  <2>1. PICK m \in Nat, pc \in {"poll", "sleep"} :
          /\ m = task[c].polls + 1
          /\ pc = IF task[c].polls + 1 < Patience THEN "sleep" ELSE "poll"
    BY <1>0 DEF Call
  <2> DEFINE k == [task[c] EXCEPT !.polls = m, !.pc = pc]
  <2>2. task' = [task EXCEPT ![c] = k]
    BY <1>5, <2>1 DEF TypeInv
  <2>3. /\ k \in Call /\ k.pc \in {"poll", "sleep"} /\ k.result = task[c].result
        /\ k.id = task[c].id /\ k.def = task[c].def
    BY <1>0 DEF Call
  <2> HIDE DEF k
  <2>4. Fits(k, schema', versions')
    BY <1>0, <2>3, Constants DEF Fits
  <2>5. QED
    BY <1>0, <2>2, <2>3, <2>4 DEF Moves
<1>6. QED
  BY <1>2, <1>3, <1>4, <1>5 DEF Poll

LEMMA OtherMoves ==
  ASSUME TypeInv, NEW c \in Client, Fits(task[c], schema, versions),
         Start(c) \/ Wake(c) \/ GiveUp(c) \/ Drop(c)
  PROVE  \E k : Moves(c, k)
<1>0. GlueGrows /\ UNCHANGED versions /\ task[c] \in Call
  BY GlueStays DEF Start, Wake, GiveUp, Drop, TypeInv
<1>1. CASE Start(c)
  <2>1. PICK d \in Definition, a \in BOOLEAN :
          task' = [task EXCEPT ![c] = [Idle EXCEPT !.pc = "lookup", !.auto = a, !.def = d]]
    BY <1>1 DEF Start
  <2> DEFINE k == [Idle EXCEPT !.pc = "lookup", !.auto = a, !.def = d]
  <2>2. k \in Call /\ k.pc = "lookup" /\ k.def = d /\ k.result = None
    BY IdleCall DEF Call
  <2> HIDE DEF k
  <2>3. Fits(k, schema', versions')
    BY <2>2, Constants DEF Fits
  <2>4. QED
    BY <1>0, <2>1, <2>2, <2>3 DEF Moves, k
<1>2. CASE Wake(c)
  <2> DEFINE k == [task[c] EXCEPT !.pc = "poll"]
  <2>1. task' = [task EXCEPT ![c] = k] /\ task[c].pc = "sleep"
    BY <1>2 DEF Wake, TypeInv
  <2>2. /\ k \in Call /\ k.pc = "poll" /\ k.result = task[c].result
        /\ k.id = task[c].id /\ k.def = task[c].def
    BY <1>0 DEF Call
  <2> HIDE DEF k
  <2>3. Fits(k, schema', versions')
    BY <1>0, <2>1, <2>2, Constants DEF Fits
  <2>4. QED
    BY <1>0, <2>1, <2>2, <2>3 DEF Moves
<1>3. CASE GiveUp(c)
  <2>1. "timeout" \in Error \cup End /\ "timeout" \notin Error
    BY DEF Error, End
  <2>2. QED
    BY <1>0, <1>3, <2>1, FinishFits DEF GiveUp
<1>4. CASE Drop(c)
  <2>1. Fits(Idle, schema', versions')
    BY IdleCall, Constants DEF Fits
  <2>2. QED
    BY <1>0, <1>4, <2>1, IdleCall DEF Moves, Drop
<1>5. QED
  BY <1>1, <1>2, <1>3, <1>4

------------------------------------------------------------------------------
(***************************************************************************)
(* What Glue does by itself.                                               *)
(***************************************************************************)
LEMMA GlueSteps ==
  ASSUME TypeInv, Settle \/ DeleteVersion
  PROVE  GlueGrows
<1>0. /\ UNCHANGED schema /\ versions \in Seq(Version) /\ schema \in BOOLEAN
  BY DEF Settle, DeleteVersion, TypeInv
<1>1. PICK v \in DOMAIN versions, s \in Status :
        /\ versions' = [versions EXCEPT ![v].status = s]
        /\ versions[v].status \in Settled => s \in Settled
  <2>1. CASE Settle
    BY <2>1 DEF Settle, Status, Settled
  <2>2. CASE DeleteVersion
    <3>1. PICK v \in DOMAIN versions :
            versions' = [versions EXCEPT ![v].status =
                           IF versions[v].status = "deleting" THEN "gone" ELSE "deleting"]
      BY <2>2 DEF DeleteVersion
    <3>2. (IF versions[v].status = "deleting" THEN "gone" ELSE "deleting")
            \in Status \cap Settled
      BY DEF Status, Settled
    <3>3. QED
      BY <3>1, <3>2
  <2>3. QED
    BY <2>1, <2>2
<1>2. \A w \in DOMAIN versions : versions[w] \in Version
  BY <1>0
<1>3. versions[v] \in Version
  BY <1>2
<1> DEFINE z == [versions[v] EXCEPT !.status = s]
<1>4. z \in Version /\ z.def = versions[v].def /\ z.status = s
  BY <1>3 DEF Version
<1>5. versions' = [versions EXCEPT ![v] = z]
  BY <1>1
<1> HIDE DEF z
<1>6. versions' \in Seq(Version) /\ DOMAIN versions' = DOMAIN versions
  BY <1>0, <1>4, <1>5
<1>7. \A w \in DOMAIN versions : versions'[w] = IF w = v THEN z ELSE versions[w]
  BY <1>0, <1>5
<1>8. Grows(versions, versions')
  BY <1>1, <1>4, <1>6, <1>7 DEF Grows
<1>9. QED
  BY <1>0, <1>6, <1>8 DEF GlueGrows

LEMMA DeleteSchemaStep ==
  ASSUME GlueInv, DeleteSchema
  PROVE  GlueInv'
<1>0. /\ versions \in Seq(Version) /\ task \in [Client -> Call]
      /\ \A c \in Client : task[c] \in Call /\ Fits(task[c], schema, versions)
  BY DEF GlueInv, TypeInv
<1>1. \A v \in DOMAIN versions : versions[v] \in Version
  BY <1>0
<1>2. \A v \in DOMAIN versions :
        LET w == [versions[v] EXCEPT !.status = "gone"]
        IN  w \in Version /\ w.def = versions[v].def /\ w.status = "gone"
  BY <1>1 DEF Version, Status
<1>3. versions' = [v \in DOMAIN versions |-> [versions[v] EXCEPT !.status = "gone"]]
  BY DEF DeleteSchema
<1>4. /\ versions' \in Seq(Version) /\ DOMAIN versions' = DOMAIN versions
      /\ \A v \in DOMAIN versions :
           versions'[v].def = versions[v].def /\ versions'[v].status = "gone"
  <2>1. DOMAIN versions = 1..Len(versions) /\ Len(versions) \in Nat
    BY <1>0
  <2>2. versions' \in [1..Len(versions) -> Version]
    BY <1>2, <1>3, <2>1
  <2>3. versions' \in Seq(Version)
    BY <2>1, <2>2
  <2>4. QED
    BY <1>2, <1>3, <2>3
<1>5. Grows(versions, versions')
  BY <1>4 DEF Grows, Settled
<1>6. ASSUME NEW c \in Client
      PROVE  task'[c] \in Call /\ Fits(task'[c], FALSE, versions')
  <2>1. PICK b \in BOOLEAN : b = (task[c].troubled \/ task[c].pc # "idle")
    BY <1>0 DEF Call
  <2> DEFINE k == [task[c] EXCEPT !.troubled = b]
  <2>2. task'[c] = k
    BY <2>1 DEF DeleteSchema
  <2>3. /\ k \in Call /\ k.pc = task[c].pc /\ k.result = task[c].result
        /\ k.id = task[c].id /\ k.def = task[c].def /\ k.auto = task[c].auto
        /\ k.troubled = b
    BY <1>0 DEF Call
  <2> HIDE DEF k
  <2>4. Fits(k, FALSE, versions')
    <3>1. /\ k.pc \in {"poll", "sleep"} => k.id \in DOMAIN versions' /\ versions'[k.id].def = k.def
          /\ k.result = "ok" => /\ k.id \in DOMAIN versions'
                                /\ versions'[k.id].def = k.def
                                /\ versions'[k.id].status \in Settled
      BY <1>0, <1>5, <2>3 DEF Fits, Grows
    <3>2. /\ k.pc # "idle" => k.def \in Definition /\ k.result = None
          /\ k.pc = "fallback" => k.troubled
          /\ k.auto /\ k.result \in Error => k.troubled
      BY <1>0, <2>1, <2>3 DEF Fits
    <3>3. QED
      BY <3>1, <3>2 DEF Fits
  <2>5. QED
    BY <2>2, <2>3, <2>4
<1>7. task' \in [Client -> Call]
  <2>1. task' = [c \in Client |-> task'[c]]
    BY DEF DeleteSchema
  <2>2. QED
    BY <1>6, <2>1
<1>8. schema' = FALSE
  BY DEF DeleteSchema
<1>9. QED
  BY <1>4, <1>6, <1>7, <1>8 DEF GlueInv, TypeInv, Fits

------------------------------------------------------------------------------
LEMMA GlueInvInit == Init => GlueInv
<1> SUFFICES ASSUME Init PROVE GlueInv
  OBVIOUS
<1>1. TypeInv /\ \A c \in Client : task[c] = Idle
  BY IdleCall DEF Init, TypeInv
<1>2. Fits(Idle, schema, versions)
  BY IdleCall, Constants DEF Fits
<1>3. QED
  BY <1>1, <1>2 DEF GlueInv

LEMMA GlueInvStep == GlueInv /\ [Next]_vars => GlueInv'
<1> SUFFICES ASSUME GlueInv, [Next]_vars PROVE GlueInv'
  OBVIOUS
<1>0. /\ TypeInv /\ schema \in BOOLEAN /\ task \in [Client -> Call]
      /\ \A c \in Client : task[c] \in Call /\ Fits(task[c], schema, versions)
  BY DEF GlueInv, TypeInv
<1>1. ASSUME TypeInv', \A c \in Client : Fits(task'[c], schema', versions')
      PROVE  GlueInv'
  BY <1>1 DEF GlueInv
<1>2. ASSUME NEW c \in Client, NEW k, Moves(c, k) PROVE GlueInv'
  <2>1. task' \in [Client -> Call] /\ task'[c] = k
    BY <1>0, <1>2 DEF Moves
  <2>2. \A d \in Client \ {c} : task'[d] = task[d]
    BY <1>0, <1>2 DEF Moves
  <2>3. ASSUME NEW d \in Client \ {c} PROVE Fits(task'[d], schema', versions')
    <3>1. /\ task[d] \in Call /\ Fits(task[d], schema, versions)
          /\ schema' \in BOOLEAN /\ Grows(versions, versions')
      BY <1>0, <1>2 DEF Moves, GlueGrows
    <3>2. task[d].pc = "fallback" => (schema => schema')
      BY <1>2 DEF Moves, GlueGrows
    <3>3. Fits(task[d], schema', versions')
      BY <1>0, <3>1, <3>2, FitsKept
    <3>4. QED
      BY <2>2, <3>3
  <2>4. Fits(task'[c], schema', versions')
    BY <1>2, <2>1 DEF Moves
  <2>5. \A d \in Client : Fits(task'[d], schema', versions')
    BY <2>3, <2>4
  <2>6. QED
    BY <1>2, <1>1, <2>1, <2>5 DEF TypeInv, Moves, GlueGrows
<1>3. CASE \E c \in Client : Start(c) \/ Step(c) \/ Drop(c)
  BY <1>0, <1>2, <1>3, LookupMoves, RegisterMoves, CreateMoves, FallbackMoves, PollMoves,
     OtherMoves DEF Step
<1>4. ASSUME GlueGrows, UNCHANGED task PROVE GlueInv'
  <2>1. ASSUME NEW c \in Client PROVE Fits(task'[c], schema', versions')
    <3>1. /\ task[c] \in Call /\ Fits(task[c], schema, versions)
          /\ schema' \in BOOLEAN /\ Grows(versions, versions')
      BY <1>0, <1>4 DEF GlueGrows
    <3>2. task[c].pc = "fallback" => (schema => schema')
      BY <1>4 DEF GlueGrows
    <3>3. Fits(task[c], schema', versions')
      BY <1>0, <3>1, <3>2, FitsKept
    <3>4. QED
      BY <1>4, <3>3
  <2>2. TypeInv'
    BY <1>0, <1>4 DEF TypeInv, GlueGrows
  <2>3. QED
    BY <1>1, <2>1, <2>2
<1>5. CASE Settle \/ DeleteVersion
  BY <1>0, <1>4, <1>5, GlueSteps DEF Settle, DeleteVersion
<1>6. CASE UNCHANGED vars
  BY <1>0, <1>4, <1>6, GlueStays DEF vars
<1>7. QED
  BY <1>3, <1>5, <1>6, DeleteSchemaStep DEF Next

LEMMA GlueInvHolds == Spec => []GlueInv
  BY GlueInvInit, GlueInvStep, PTL DEF Spec

\* register_schema returns only IDs of versions of the caller's own definition
\* that have been available.
THEOREM ReturnedIsOwnAvailable == Spec => []ReturnsOwnAvailable
<1>1. GlueInv => ReturnsOwnAvailable
  BY DEF GlueInv, Fits, Settled, ReturnsOwnAvailable
<1>2. QED
  BY <1>1, GlueInvHolds, PTL

\* Clients that race to create the schema do not fail each other: CreateSchema's
\* "already exists" leads to a second attempt that finds the schema.
THEOREM RacersRegister == Spec => []RacersAllRegister
<1>1. GlueInv => RacersAllRegister
  BY DEF GlueInv, Fits, RacersAllRegister
<1>2. QED
  BY <1>1, GlueInvHolds, PTL

==============================================================================
