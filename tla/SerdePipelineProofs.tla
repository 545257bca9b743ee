-------------------------- MODULE SerdePipelineProofs --------------------------
(***************************************************************************)
(* What a record's identifier says, for any tasks, texts, configurations,  *)
(* capacities and lengths of history.                                      *)
(***************************************************************************)
EXTENDS SerdePipeline, SequenceTheorems, TLAPS

------------------------------------------------------------------------------
(***************************************************************************)
(* Types, and what the place of a call says about its locals.  S is the    *)
(* set of subjects, K the cached entries, x the registry's texts.          *)
(***************************************************************************)
PC == {"idle", "request", "answered", "wait", "store", "frame"}
SchemaKey == [kind : {"id"}, of : Nat] \cup [kind : {"guid"}, of : Text \cup {None}]
Schema == [id : Nat, guid : Text \cup {None}, text : Text]
Ask(S) == [op : {"register", "lookup", "latest"}, subject : S] \cup [op : {"id"}, of : Nat]
KeyEntry(S) == [subject : S, key : SchemaKey, stale : BOOLEAN, late : BOOLEAN]

Locals(S) ==
  [pc : PC, subject : S \cup {None}, ask : Ask(S) \cup {None},
   answer : Schema \cup Task \cup {None, NotFound}, key : SchemaKey \cup {None},
   read : BOOLEAN, stale : BOOLEAN, late : BOOLEAN, before : BOOLEAN, current : BOOLEAN]

LocalOK(l, S) ==
  /\ l.pc # "idle" => l.subject \in S
  /\ l.pc \in {"request", "answered"} => l.ask \in Ask(S)
  /\ l.pc = "answered" => l.answer \in Schema \cup {NotFound}
  /\ l.pc \in {"store", "frame"} => l.key \in SchemaKey
  /\ l.read => l.pc \in {"request", "answered", "store"}
  /\ l.current => l.pc = "frame"

\* Every identifier in use has a text.
RegistryOK(S, x, lv, so) ==
  /\ x \in Seq(Text)
  /\ lv \in [S -> Seq(Nat)] /\ so \in [S -> SUBSET Nat]
  /\ \A s \in S : ToSet(lv[s]) \subseteq DOMAIN x /\ so[s] \subseteq DOMAIN x

TypeInv ==
  /\ config \in Config
  /\ RegistryOK(Subject, text, live, soft)
  /\ keys \in Seq(KeyEntry(Subject))
  /\ slot \in [Subject -> Task \cup {None}]
  /\ task \in [Task -> Locals(Subject)]
  /\ dropping \in Subject \cup {None}
  /\ seen \in [Subject -> SchemaKey \cup {None}]
  /\ \A t \in Task : LocalOK(task[t], Subject)

------------------------------------------------------------------------------
(***************************************************************************)
(* The key cache.                                                          *)
(***************************************************************************)
\* A subject has one entry.
OneEntry(q) == \A i, j \in DOMAIN q : q[i].subject = q[j].subject => i = j

\* A call that has its key from the cache has the key that is there, as long
\* as its subject has not been dropped; likewise the key last framed.
Holds(K, s, k) == \E e \in K : e.subject = s /\ e.key = k
CacheInv ==
  /\ OneEntry(keys)
  /\ \A t \in Task : task[t].current => Holds(ToSet(keys), task[t].subject, task[t].key)
  /\ \A s \in Subject : seen[s] # None => Holds(ToSet(keys), s, seen[s])

\* A registered resolution is its leader's, under way, and nothing it may have
\* read has been invalidated since.
Leads(l, s) == l.pc \in {"request", "answered"} /\ l.subject = s /\ ~l.stale
SlotInv == \A s \in Subject, t \in Task : slot[s] = t => Leads(task[t], s)

\* A waiter whose sender has been taken out of the slot hears from a leader
\* that is about to store its own subject's key.
Awaits(w, t) == w.pc = "wait" /\ w.answer = t
Gives(l, w) == l.pc = "store" /\ l.subject = w.subject
WaitInv == \A w, t \in Task : Awaits(task[w], t) => Gives(task[t], task[w])

\* What was read before an invalidation that is over is cached, or about to
\* be, only if it had been claimed, and is otherwise in the hands of calls that
\* began before.
StaleEntry(e, d) == e.stale => e.late \/ e.subject = d
StaleCall(l, d) ==
  l.stale => /\ l.pc \in {"request", "answered"} => l.before \/ l.subject = d
             /\ l.pc = "store" => l.late
             /\ l.pc = "frame" => l.before \/ l.late \/ l.subject = d
StaleInv ==
  /\ \A e \in ToSet(keys) : StaleEntry(e, dropping)
  /\ \A t \in Task : StaleCall(task[t], dropping)

------------------------------------------------------------------------------
(***************************************************************************)
(* What identifiers name.  An encoder that does not follow the subject's   *)
(* latest version only ever has identifiers of its own schema.             *)
(***************************************************************************)
Names(k, x, own) ==
  IF k.kind = "id" THEN k.of \in DOMAIN x /\ x[k.of] = own ELSE k.of = own
OwnAnswer(a, x) == a.id \in DOMAIN x /\ x[a.id] = Own /\ a.guid \in {None, Own}

OwnCall(l, x) ==
  /\ l.pc \in {"request", "answered"} /\ l.ask.op = "id" => Names(Id(l.ask.of), x, Own)
  /\ l.pc = "answered" /\ l.answer # NotFound => OwnAnswer(l.answer, x)
  /\ l.pc \in {"store", "frame"} => Names(l.key, x, Own)

\* The requests a resolution makes.
AskInv ==
  \A t \in Task : task[t].pc \in {"request", "answered"} =>
    task[t].ask.op = FirstRequest \/ task[t].ask.op = "id"

OwnInv ==
  config.resolution # "UseLatestVersion" =>
    /\ \A t \in Task : OwnCall(task[t], text)
    /\ \A e \in ToSet(keys) : Names(e.key, text, Own)
    /\ \A r \in topic : /\ r.key \in SchemaKey /\ Names(r.key, text, Own)
                        /\ CachesSchema => r.text = Own
    /\ \A p \in parsed : Names(p.key, text, p.text)

PipeInv == TypeInv /\ CacheInv /\ SlotInv /\ WaitInv /\ StaleInv /\ AskInv /\ OwnInv

------------------------------------------------------------------------------
(***************************************************************************)
(* The same by call and by entry, and a step described by what it leaves.  *)
(***************************************************************************)
GoodCall(l, K, d, x) ==
  /\ l \in Locals(Subject) /\ LocalOK(l, Subject)
  /\ l.current => Holds(K, l.subject, l.key)
  /\ StaleCall(l, d)
  /\ l.pc \in {"request", "answered"} => l.ask.op = FirstRequest \/ l.ask.op = "id"
  /\ config.resolution # "UseLatestVersion" => OwnCall(l, x)

GoodEntry(e, d, x) ==
  /\ e \in KeyEntry(Subject) /\ StaleEntry(e, d)
  /\ config.resolution # "UseLatestVersion" => Names(e.key, x, Own)

GoodRecord(r, x) ==
  config.resolution # "UseLatestVersion" =>
    /\ r.key \in SchemaKey /\ Names(r.key, x, Own)
    /\ CachesSchema => r.text = Own

\* The registry only adds texts.
Grows(x, y) ==
  y \in Seq(Text) /\ DOMAIN x \subseteq DOMAIN y /\ \A n \in DOMAIN x : y[n] = x[n]

LEMMA Ranges ==
  /\ \A q : \A i \in DOMAIN q : q[i] \in ToSet(q)
  /\ \A q : \A e \in ToSet(q) : \E i \in DOMAIN q : q[i] = e
  BY DEF ToSet

LEMMA GoodState ==
  ASSUME PipeInv
  PROVE  /\ \A t \in Task : GoodCall(task[t], ToSet(keys), dropping, text)
         /\ \A e \in ToSet(keys) : GoodEntry(e, dropping, text)
         /\ \A r \in topic : GoodRecord(r, text)
<1>1. \A e \in ToSet(keys) : e \in KeyEntry(Subject)
  BY DEF PipeInv, TypeInv, ToSet
<1>2. \A t \in Task : task[t] \in Locals(Subject) /\ LocalOK(task[t], Subject)
  BY DEF PipeInv, TypeInv
<1>3. \A t \in Task : GoodCall(task[t], ToSet(keys), dropping, text)
  BY <1>2 DEF PipeInv, CacheInv, StaleInv, AskInv, OwnInv, GoodCall
<1>4. \A e \in ToSet(keys) : GoodEntry(e, dropping, text)
  BY <1>1 DEF PipeInv, StaleInv, OwnInv, GoodEntry
<1>5. QED
  BY <1>3, <1>4 DEF PipeInv, OwnInv, GoodRecord

LEMMA ConfigStays ==
  ASSUME config' = config
  PROVE  Subject' = Subject /\ FirstRequest' = FirstRequest /\ CachesSchema' = CachesSchema
  BY DEF Subject, SubjectName, FirstRequest, CachesSchema

LEMMA Assemble ==
  ASSUME PipeInv, config' = config, RegistryOK(Subject, text', live', soft'),
         keys' \in Seq(KeyEntry(Subject)), OneEntry(keys'),
         \A e \in ToSet(keys') : GoodEntry(e, dropping', text'),
         slot' \in [Subject -> Task \cup {None}],
         \A s \in Subject, t \in Task : slot'[s] = t => Leads(task'[t], s),
         \A w, t \in Task : Awaits(task'[w], t) => Gives(task'[t], task'[w]),
         task' = [t \in Task |-> task'[t]],
         \A t \in Task : GoodCall(task'[t], ToSet(keys'), dropping', text'),
         dropping' \in Subject \cup {None},
         seen' \in [Subject -> SchemaKey \cup {None}],
         \A s \in Subject : seen'[s] # None => Holds(ToSet(keys'), s, seen'[s]),
         \A r \in topic' : GoodRecord(r, text'),
         config.resolution # "UseLatestVersion" =>
           \A p \in parsed' : Names(p.key, text', p.text)
  PROVE  PipeInv'
<1>0. Subject' = Subject /\ FirstRequest' = FirstRequest /\ CachesSchema' = CachesSchema
  BY ConfigStays
<1>1. TypeInv'
  <2>1. task' \in [Task -> Locals(Subject)] /\ \A t \in Task : LocalOK(task'[t], Subject)
    BY DEF GoodCall
  <2>2. QED
    BY <1>0, <2>1 DEF TypeInv, PipeInv
<1>2. CacheInv'
  BY <1>0 DEF CacheInv, GoodCall
<1>3. SlotInv' /\ WaitInv'
  BY <1>0 DEF SlotInv, WaitInv
<1>4. StaleInv'
  BY DEF StaleInv, GoodEntry, GoodCall
<1>5. AskInv'
  BY <1>0 DEF AskInv, GoodCall
<1>6. OwnInv'
  BY <1>0 DEF OwnInv, GoodCall, GoodEntry, GoodRecord
<1>7. QED
  BY <1>1, <1>2, <1>3, <1>4, <1>5, <1>6 DEF PipeInv

LEMMA NamesStay ==
  ASSUME NEW x, NEW y, Grows(x, y)
  PROVE  /\ \A k, own : Names(k, x, own) => Names(k, y, own)
         /\ \A l : OwnCall(l, x) => OwnCall(l, y)
<1>1. \A k, own : Names(k, x, own) => Names(k, y, own)
  BY DEF Names, Grows
<1>2. \A a : OwnAnswer(a, x) => OwnAnswer(a, y)
  BY DEF OwnAnswer, Grows
<1>3. QED
  BY <1>1, <1>2 DEF OwnCall

\* A step that leaves the key cache, the topic and the decoder alone.
LEMMA QuietStep ==
  ASSUME PipeInv, UNCHANGED <<config, keys, dropping, seen, topic, parsed>>,
         Grows(text, text'), RegistryOK(Subject, text', live', soft'),
         slot' \in [Subject -> Task \cup {None}],
         task' = [t \in Task |-> task'[t]],
         \A t \in Task : task'[t] = task[t] \/ GoodCall(task'[t], ToSet(keys), dropping, text'),
         \A s \in Subject, t \in Task : slot'[s] = t =>
           (slot[s] = t /\ task'[t] = task[t]) \/ Leads(task'[t], s),
         \A w, t \in Task : Awaits(task'[w], t) =>
           (task'[w] = task[w] /\ task'[t] = task[t]) \/ Gives(task'[t], task'[w])
  PROVE  PipeInv'
<1>0. /\ keys \in Seq(KeyEntry(Subject)) /\ OneEntry(keys) /\ dropping \in Subject \cup {None}
      /\ seen \in [Subject -> SchemaKey \cup {None}]
      /\ \A s \in Subject : seen[s] # None => Holds(ToSet(keys), s, seen[s])
  BY DEF PipeInv, TypeInv, CacheInv
<1>1. \A t \in Task : GoodCall(task'[t], ToSet(keys), dropping, text')
  <2>1. \A t \in Task : GoodCall(task[t], ToSet(keys), dropping, text')
    BY GoodState, NamesStay DEF GoodCall
  <2>2. QED
    BY <2>1
<1>2. \A e \in ToSet(keys) : GoodEntry(e, dropping, text')
  BY GoodState, NamesStay DEF GoodEntry
<1>3. \A r \in topic : GoodRecord(r, text')
  BY GoodState, NamesStay DEF GoodRecord
<1>4. config.resolution # "UseLatestVersion" => \A p \in parsed : Names(p.key, text', p.text)
  BY NamesStay DEF PipeInv, OwnInv
<1>5. \A s \in Subject, t \in Task : slot'[s] = t => Leads(task'[t], s)
  BY DEF PipeInv, SlotInv
<1>6. \A w, t \in Task : Awaits(task'[w], t) => Gives(task'[t], task'[w])
  BY DEF PipeInv, WaitInv
<1>7. QED
  BY <1>0, <1>1, <1>2, <1>3, <1>4, <1>5, <1>6, Assemble

------------------------------------------------------------------------------
(***************************************************************************)
(* The registry.                                                           *)
(***************************************************************************)
LEMMA RegistryFacts ==
  ASSUME PipeInv
  PROVE  /\ RegistryOK(Subject, text, live, soft) /\ Grows(text, text)
         /\ text \in Seq(Text) /\ \A n \in DOMAIN text : n \in Nat /\ text[n] \in Text
         /\ \A n : Resolvable(n) => n \in DOMAIN text
         /\ \A x : IdsOf(x) \subseteq {n \in DOMAIN text : text[n] = x}
<1>1. RegistryOK(Subject, text, live, soft) /\ text \in Seq(Text)
  BY DEF PipeInv, TypeInv, RegistryOK
<1>2. \A n \in DOMAIN text : n \in Nat /\ text[n] \in Text
  BY <1>1
<1>3. \A n : Resolvable(n) => n \in DOMAIN text
  BY <1>1 DEF Resolvable, RegistryOK
<1>4. QED
  BY <1>1, <1>2, <1>3 DEF Grows, IdsOf

LEMMA VersionStored ==
  ASSUME PipeInv, NEW s \in Subject, NEW x \in Text, StoreVersion(s, x)
  PROVE  /\ Grows(text, text') /\ RegistryOK(Subject, text', live', soft')
         /\ AssignedId(x) \in Nat /\ AssignedId(x) \in DOMAIN text'
         /\ text'[AssignedId(x)] = x
         /\ \A r \in Subject : live'[r] # live[r] => live'[r] = Append(live[r], AssignedId(x))
         /\ live \in [Subject -> Seq(Nat)]
<1> DEFINE n == AssignedId(x)
<1>0. /\ text \in Seq(Text) /\ live \in [Subject -> Seq(Nat)] /\ soft \in [Subject -> SUBSET Nat]
      /\ \A r \in Subject : ToSet(live[r]) \subseteq DOMAIN text /\ soft[r] \subseteq DOMAIN text
  BY RegistryFacts DEF RegistryOK
<1>1. /\ text' = IF n > Len(text) THEN Append(text, x) ELSE text
      /\ live' = IF n \in ToSet(live[s]) THEN live ELSE [live EXCEPT ![s] = Append(@, n)]
      /\ soft' = soft
  BY DEF StoreVersion
<1>2. ASSUME IdsOf(x) = {}
      PROVE  Grows(text, text') /\ n \in Nat /\ n \in DOMAIN text' /\ text'[n] = x
  <2>1. n = Len(text) + 1
    BY <1>2 DEF AssignedId
  <2> HIDE DEF n
  <2>2. text' = Append(text, x)
    BY <1>0, <1>1, <2>1
  <2>3. Grows(text, text') /\ n \in Nat /\ n \in DOMAIN text' /\ text'[n] = x
    BY <1>0, <2>1, <2>2 DEF Grows
  <2>4. QED
    BY <2>3 DEF n
<1>3. ASSUME IdsOf(x) # {}
      PROVE  Grows(text, text') /\ n \in Nat /\ n \in DOMAIN text' /\ text'[n] = x
  <2>1. n \in IdsOf(x)
    BY <1>3 DEF AssignedId
  <2> HIDE DEF n
  <2>2. n \in DOMAIN text /\ text[n] = x /\ n \in Nat /\ ~(n > Len(text))
    BY <1>0, <2>1, RegistryFacts
  <2>3. text' = text
    BY <1>1, <2>2
  <2>4. QED
    BY <2>2, <2>3, RegistryFacts DEF n
<1>4. Grows(text, text') /\ n \in Nat /\ n \in DOMAIN text' /\ text'[n] = x
  BY <1>2, <1>3
<1> HIDE DEF n
<1>5. /\ live' \in [Subject -> Seq(Nat)]
      /\ \A r \in Subject : live'[r] = live[r] \/ live'[r] = Append(live[r], n)
  BY <1>0, <1>1, <1>4
<1>6. ASSUME NEW r \in Subject PROVE ToSet(live'[r]) \subseteq DOMAIN text'
  <2>1. ToSet(live[r]) \subseteq DOMAIN text' /\ live[r] \in Seq(Nat)
    BY <1>0, <1>4 DEF Grows
  <2>2. CASE live'[r] = live[r]
    BY <2>1, <2>2
  <2>3. CASE live'[r] = Append(live[r], n)
    <3>1. ASSUME NEW i \in DOMAIN Append(live[r], n)
          PROVE  Append(live[r], n)[i] \in DOMAIN text'
      <4>1. CASE i = Len(live[r]) + 1
        BY <1>4, <2>1, <4>1
      <4>2. CASE i \in DOMAIN live[r]
        <5>1. Append(live[r], n)[i] = live[r][i]
          BY <1>4, <2>1, <4>2
        <5>2. QED
          BY <2>1, <4>2, <5>1, Ranges
      <4>3. QED
        BY <1>4, <2>1, <4>1, <4>2
    <3>2. QED
      BY <2>3, <3>1 DEF ToSet
  <2>4. QED
    BY <1>5, <2>2, <2>3
<1>7. RegistryOK(Subject, text', live', soft')
  BY <1>0, <1>1, <1>4, <1>5, <1>6 DEF RegistryOK, Grows
<1>8. QED
  BY <1>0, <1>4, <1>5, <1>7 DEF n

LEMMA DescribedIs ==
  ASSUME PipeInv, NEW n \in DOMAIN text
  PROVE  /\ Described(n) \in Schema /\ Described(n).text = text[n]
         /\ text[n] = Own => OwnAnswer(Described(n), text)
<1>1. PICK g \in Text \cup {None} : g = (IF config.guids THEN text[n] ELSE None)
  BY RegistryFacts
<1>2. Described(n) = [id |-> n, guid |-> g, text |-> text[n]]
  BY <1>1 DEF Described
<1>3. n \in Nat /\ text[n] \in Text
  BY RegistryFacts
<1>4. QED
  BY <1>1, <1>2, <1>3 DEF Schema, OwnAnswer

LEMMA ReadAnswerIs ==
  ASSUME PipeInv, NEW q \in Ask(Subject), q.op # "register"
  PROVE  /\ ReadAnswer(q) \in Schema \cup {NotFound}
         /\ q.op = "lookup" \/ (q.op = "id" /\ Names(Id(q.of), text, Own)) =>
              ReadAnswer(q) = NotFound \/ OwnAnswer(ReadAnswer(q), text)
<1>1. CASE q.op = "lookup"
  <2> DEFINE found == IdsOf(Own) \cap ToSet(live[q.subject])
  <2>1. ReadAnswer(q) = IF found = {} THEN NotFound ELSE Described(CHOOSE n \in found : TRUE)
    BY <1>1 DEF ReadAnswer
  <2>2. \A n \in found : n \in DOMAIN text /\ text[n] = Own
    BY RegistryFacts
  <2> HIDE DEF found
  <2>3. CASE found # {}
    <3>1. PICK n \in found : n = CHOOSE m \in found : TRUE
      BY <2>3
    <3>2. Described(n) \in Schema /\ OwnAnswer(Described(n), text)
      BY <2>2, DescribedIs
    <3>3. QED
      BY <2>1, <2>3, <3>1, <3>2
  <2>4. QED
    BY <2>1, <2>3
<1>2. CASE q.op = "latest"
  <2>1. q.subject \in Subject
    BY <1>2 DEF Ask
  <2>2. live[q.subject] \in Seq(Nat) /\ ToSet(live[q.subject]) \subseteq DOMAIN text
    BY <2>1, RegistryFacts DEF RegistryOK
  <2>3. live[q.subject] # <<>> => Last(live[q.subject]) \in DOMAIN text
    <3>1. ASSUME live[q.subject] # <<>> PROVE Last(live[q.subject]) \in ToSet(live[q.subject])
      BY <2>2, <3>1 DEF Last, ToSet
    <3>2. QED
      BY <2>2, <3>1
  <2>4. QED
    BY <1>2, <2>3, DescribedIs DEF ReadAnswer
<1>3. CASE q.op = "id"
  <2>1. ReadAnswer(q) = IF Resolvable(q.of) THEN Described(q.of) ELSE NotFound
    BY <1>3 DEF ReadAnswer
  <2>2. Names(Id(q.of), text, Own) => text[q.of] = Own
    BY DEF Names, Id
  <2>3. QED
    BY <1>3, <2>1, <2>2, RegistryFacts, DescribedIs
<1>4. QED
  BY <1>1, <1>2, <1>3 DEF Ask

LEMMA RegistryStep ==
  ASSUME PipeInv, NEW s \in Busy,
         (\E x \in Text : Evolve(s, x)) \/ SoftDelete(s) \/ PermanentDelete(s)
  PROVE  PipeInv'
<1>0. s \in Subject
  BY DEF Busy
<1>1. task' = task /\ slot' = slot /\ UNCHANGED <<config, keys, dropping, seen, topic, parsed>>
  BY DEF Evolve, SoftDelete, PermanentDelete, encoder
<1>2. Grows(text, text') /\ RegistryOK(Subject, text', live', soft')
  <2>1. CASE \E x \in Text : Evolve(s, x)
    <3>1. PICK x \in Text : Evolve(s, x)
      BY <2>1
    <3>2. QED
      BY <1>0, <3>1, VersionStored DEF Evolve
  <2>0. /\ text \in Seq(Text) /\ live \in [Subject -> Seq(Nat)] /\ soft \in [Subject -> SUBSET Nat]
        /\ \A r \in Subject : ToSet(live[r]) \subseteq DOMAIN text /\ soft[r] \subseteq DOMAIN text
    BY RegistryFacts DEF RegistryOK
  <2>2. CASE SoftDelete(s)
    <3>1. /\ text' = text /\ live' = [live EXCEPT ![s] = <<>>]
          /\ soft' = [soft EXCEPT ![s] = soft[s] \cup ToSet(live[s])]
      BY <2>2 DEF SoftDelete
    <3>2. ToSet(<<>>) = {} /\ ToSet(live[s]) \subseteq Nat
      BY <1>0, <2>0, RegistryFacts DEF ToSet
    <3>3. /\ live' \in [Subject -> Seq(Nat)] /\ soft' \in [Subject -> SUBSET Nat]
          /\ \A r \in Subject : /\ live'[r] = live[r] \/ live'[r] = <<>>
                                /\ soft'[r] = soft[r] \/ soft'[r] = soft[r] \cup ToSet(live[r])
      BY <1>0, <2>0, <3>1, <3>2
    <3>4. \A r \in Subject : ToSet(live'[r]) \subseteq DOMAIN text /\ soft'[r] \subseteq DOMAIN text
      BY <2>0, <3>2, <3>3
    <3>5. QED
      BY <2>0, <3>1, <3>3, <3>4, RegistryFacts DEF RegistryOK
  <2>3. CASE PermanentDelete(s)
    <3>1. text' = text /\ live' = live /\ soft' = [soft EXCEPT ![s] = {}]
      BY <2>3 DEF PermanentDelete
    <3>2. /\ soft' \in [Subject -> SUBSET Nat]
          /\ \A r \in Subject : soft'[r] \subseteq soft[r]
      BY <1>0, <2>0, <3>1
    <3>3. QED
      BY <2>0, <3>1, <3>2, RegistryFacts DEF RegistryOK
  <2>4. QED
    BY <2>1, <2>2, <2>3
<1>3. slot \in [Subject -> Task \cup {None}] /\ task = [t \in Task |-> task[t]]
  BY DEF PipeInv, TypeInv
<1>4. QED
  BY <1>1, <1>2, <1>3, QuietStep DEF PipeInv, WaitInv

------------------------------------------------------------------------------
(***************************************************************************)
(* Resolving.                                                              *)
(***************************************************************************)
LEMMA IdleGood ==
  /\ Idle \in Locals(Subject) /\ Idle.pc = "idle" /\ Idle.current = FALSE
  /\ \A K, d, x : GoodCall(Idle, K, d, x)
<1>1. Idle \in Locals(Subject)
  BY DEF Idle, Locals, PC
<1>2. /\ Idle.pc = "idle" /\ Idle.read = FALSE /\ Idle.stale = FALSE /\ Idle.current = FALSE
  BY DEF Idle
<1>3. QED
  BY <1>1, <1>2 DEF GoodCall, LocalOK, StaleCall, OwnCall

LEMMA CallFacts ==
  ASSUME PipeInv, NEW t \in Task
  PROVE  /\ task \in [Task -> Locals(Subject)] /\ task[t] \in Locals(Subject)
         /\ LocalOK(task[t], Subject)
         /\ GoodCall(task[t], ToSet(keys), dropping, text)
         /\ slot \in [Subject -> Task \cup {None}] /\ t # None
         /\ \A s \in Subject : slot[s] = t => Leads(task[t], s)
  BY GoodState, ConfigAssumption DEF PipeInv, TypeInv, SlotInv

\* FirstRequest, and what the mode says of it.
LEMMA Requests ==
  ASSUME PipeInv
  PROVE  /\ FirstRequest \in {"register", "lookup", "latest"}
         /\ FirstRequest = "register" <=> config.resolution = "AutoRegister"
         /\ FirstRequest = "latest" <=> config.resolution = "UseLatestVersion"
  BY ConfigAssumption DEF PipeInv, TypeInv, Configuration, SchemaResolution, FirstRequest

LEMMA OneCall ==
  ASSUME PipeInv, UNCHANGED <<config, keys, dropping, seen, topic, parsed>>,
         Grows(text, text'), RegistryOK(Subject, text', live', soft'), slot' = slot,
         NEW t \in Task, NEW l, task' = [task EXCEPT ![t] = l],
         GoodCall(l, ToSet(keys), dropping, text'),
         \A s \in Subject : slot[s] = t => Leads(l, s),
         task[t].pc # "store", l.pc = "wait" => l.answer = None
  PROVE  PipeInv'
<1>1. /\ task' = [u \in Task |-> task'[u]] /\ task'[t] = l
      /\ \A u \in Task : u # t => task'[u] = task[u]
  BY CallFacts
<1>2. \A w, u \in Task : Awaits(task'[w], u) => task'[w] = task[w] /\ task'[u] = task[u]
  BY <1>1, CallFacts DEF PipeInv, WaitInv, Awaits, Gives
<1>3. QED
  BY <1>1, <1>2, CallFacts, QuietStep

LEMMA EntryIs ==
  ASSUME PipeInv, NEW s, Cached(s)
  PROVE  Entry(s) \in ToSet(keys) /\ Entry(s).subject = s
<1>1. \E e \in ToSet(keys) : e.subject = s
  BY DEF Cached, ToSet
<1>2. QED
  BY <1>1 DEF Entry

\* A call that is given entry e.
LEMMA ResolvedGood ==
  ASSUME NEW l \in Locals(Subject), l.subject \in Subject, NEW K, NEW d, NEW x,
         NEW e \in K, GoodEntry(e, d, x), e.subject = l.subject,
         NEW m, m = Resolved(l, e) \/ m = [Resolved(l, e) EXCEPT !.answer = None]
  PROVE  GoodCall(m, K, d, x) /\ m.pc = "frame" /\ m.subject = l.subject /\ m.key = e.key
<1>1. e.key \in SchemaKey /\ e.stale \in BOOLEAN /\ e.late \in BOOLEAN
  BY DEF GoodEntry, KeyEntry
<1>2. /\ m \in Locals(Subject) /\ m.pc = "frame" /\ m.subject = l.subject /\ m.key = e.key
      /\ m.stale = e.stale /\ m.late = e.late /\ m.current = TRUE /\ m.read = FALSE
  <2> DEFINE k == Resolved(l, e)
  <2>1. /\ k \in Locals(Subject) /\ k.pc = "frame" /\ k.subject = l.subject /\ k.key = e.key
        /\ k.stale = e.stale /\ k.late = e.late /\ k.current = TRUE /\ k.read = FALSE
    BY <1>1 DEF Resolved, Locals, PC
  <2>2. m = k \/ m = [k EXCEPT !.answer = None]
    OBVIOUS
  <2> HIDE DEF k
  <2>3. QED
    BY <2>1, <2>2 DEF Locals
<1>3. LocalOK(m, Subject) /\ Holds(K, m.subject, m.key)
  BY <1>1, <1>2 DEF LocalOK, Holds
<1>4. StaleCall(m, d)
  BY <1>2 DEF StaleCall, GoodEntry, StaleEntry
<1>5. config.resolution # "UseLatestVersion" => OwnCall(m, x)
  BY <1>2 DEF OwnCall, GoodEntry
<1>6. QED
  BY <1>2, <1>3, <1>4, <1>5 DEF GoodCall

LEMMA EncodeStep ==
  ASSUME PipeInv, NEW t \in Task, NEW g \in Target, Encode(t, g)
  PROVE  PipeInv'
<1> DEFINE s == SubjectName(g)
           l == [Idle EXCEPT !.subject = s]
<1>0. s \in Subject /\ task[t].pc = "idle" /\ Lookup(t, s)
  BY DEF Encode, Subject
<1> HIDE DEF s
<1>1. /\ UNCHANGED <<config, keys, dropping, seen, topic, parsed>>
      /\ Grows(text, text') /\ RegistryOK(Subject, text', live', soft') /\ text' = text
  BY <1>0, RegistryFacts DEF Lookup, registry
<1>2. /\ l \in Locals(Subject) /\ l.subject = s /\ l.pc = "idle" /\ l.read = FALSE
      /\ l.stale = FALSE /\ l.current = FALSE /\ l.answer = None
  BY <1>0 DEF Idle, Locals, PC
<1>3. \A r \in Subject : slot[r] # t
  BY <1>0, CallFacts DEF Leads
<1>4. CASE Cached(s)
  <2>1. task' = [task EXCEPT ![t] = Resolved(l, Entry(s))] /\ slot' = slot
    BY <1>0, <1>4 DEF Lookup
  <2>2. Entry(s) \in ToSet(keys) /\ Entry(s).subject = s /\ GoodEntry(Entry(s), dropping, text)
    BY <1>4, EntryIs, GoodState
  <2> HIDE DEF l
  <2>3. PICK m : m = Resolved(l, Entry(s))
    OBVIOUS
  <2>4. GoodCall(m, ToSet(keys), dropping, text) /\ m.pc = "frame"
    BY <1>0, <1>2, <2>2, <2>3, ResolvedGood
  <2>5. QED
    BY <1>0, <1>1, <1>3, <2>1, <2>3, <2>4, OneCall
<1>5. CASE ~Cached(s) /\ slot[s] # None
  <2> DEFINE m == [l EXCEPT !.pc = "wait"]
  <2>1. task' = [task EXCEPT ![t] = m] /\ slot' = slot
    BY <1>0, <1>5 DEF Lookup
  <2> HIDE DEF l
  <2>2. /\ m \in Locals(Subject) /\ m.subject = s /\ m.pc = "wait" /\ m.read = FALSE
        /\ m.stale = FALSE /\ m.current = FALSE /\ m.answer = None
    BY <1>2 DEF Locals, PC
  <2> HIDE DEF m
  <2>3. GoodCall(m, ToSet(keys), dropping, text)
    BY <1>0, <2>2 DEF GoodCall, LocalOK, StaleCall, OwnCall
  <2>4. QED
    BY <1>0, <1>1, <1>3, <2>1, <2>2, <2>3, OneCall
<1>6. CASE ~Cached(s) /\ slot[s] = None
  <2> DEFINE a == [op |-> FirstRequest, subject |-> s]
             m == [l EXCEPT !.pc = "request", !.ask = a]
  <2>1. task' = [task EXCEPT ![t] = m] /\ slot' = [slot EXCEPT ![s] = t]
    BY <1>0, <1>6 DEF Lookup
  <2>2. a \in Ask(Subject) /\ a.op = FirstRequest /\ a.op # "id"
    BY <1>0, Requests DEF Ask
  <2> HIDE DEF l, a
  <2>3. /\ m \in Locals(Subject) /\ m.subject = s /\ m.pc = "request" /\ m.read = FALSE
        /\ m.stale = FALSE /\ m.current = FALSE /\ m.ask = a
    BY <1>2, <2>2 DEF Locals, PC
  <2> HIDE DEF m
  <2>4. GoodCall(m, ToSet(keys), dropping, text)
    BY <1>0, <2>2, <2>3 DEF GoodCall, LocalOK, StaleCall, OwnCall
  <2>5. Leads(m, s)
    BY <2>3 DEF Leads
  <2>6. /\ task' = [u \in Task |-> task'[u]] /\ task'[t] = m
        /\ \A u \in Task : u # t => task'[u] = task[u]
        /\ slot' \in [Subject -> Task \cup {None}] /\ slot'[s] = t
        /\ \A r \in Subject : r # s => slot'[r] = slot[r]
    BY <1>0, <2>1, CallFacts
  <2>7. \A r \in Subject, u \in Task : slot'[r] = u =>
           (slot[r] = u /\ task'[u] = task[u]) \/ Leads(task'[u], r)
    BY <1>3, <2>5, <2>6
  <2>8. \A w, u \in Task : Awaits(task'[w], u) => task'[w] = task[w] /\ task'[u] = task[u]
    BY <1>0, <2>3, <2>6 DEF PipeInv, WaitInv, Awaits, Gives
  <2>9. QED
    BY <1>1, <2>4, <2>6, <2>7, <2>8, QuietStep
<1>7. QED
  BY <1>4, <1>5, <1>6

\* A request of t and its answer leave t the leader it was.
LEMMA StillLeads ==
  ASSUME PipeInv, NEW t \in Task, NEW l, l.pc \in {"request", "answered"},
         l.subject = task[t].subject, l.stale = task[t].stale
  PROVE  \A s \in Subject : slot[s] = t => Leads(l, s)
  BY CallFacts DEF Leads

LEMMA ServeStep ==
  ASSUME PipeInv, NEW t \in Task, Serve(t)
  PROVE  PipeInv'
<1> DEFINE k == task[t]
           q == k.ask
<1>0. /\ k.pc = "request" /\ UNCHANGED <<config, keys, dropping, seen, topic, parsed>>
      /\ slot' = slot
  BY DEF Serve
<1>k. /\ k \in Locals(Subject) /\ LocalOK(k, Subject)
      /\ GoodCall(k, ToSet(keys), dropping, text) /\ q \in Ask(Subject)
      /\ k.subject \in Subject /\ k.current = FALSE
      /\ q.op = FirstRequest \/ q.op = "id"
  <2>1. /\ k \in Locals(Subject) /\ LocalOK(k, Subject)
        /\ GoodCall(k, ToSet(keys), dropping, text)
    BY CallFacts
  <2>2. q \in Ask(Subject) /\ k.subject \in Subject /\ k.current = FALSE
    BY <1>0, <2>1 DEF LocalOK, Locals
  <2>3. q.op = FirstRequest \/ q.op = "id"
    BY <1>0, <2>1 DEF GoodCall
  <2>4. QED
    BY <2>1, <2>2, <2>3
<1>1. PICK a \in Schema \cup {NotFound} :
        /\ task' = [task EXCEPT ![t] = [k EXCEPT !.pc = "answered", !.answer = a, !.read = TRUE]]
        /\ Grows(text, text') /\ RegistryOK(Subject, text', live', soft')
        /\ config.resolution # "UseLatestVersion" /\ a # NotFound => OwnAnswer(a, text')
  <2>1. CASE q.op = "register"
    <3> DEFINE a == [id |-> AssignedId(Own), guid |-> None, text |-> Own]
    <3>1. /\ task' = [task EXCEPT ![t] = [k EXCEPT !.pc = "answered", !.answer = a, !.read = TRUE]]
          /\ StoreVersion(q.subject, Own)
      BY <2>1 DEF Serve
    <3>2. q.subject \in Subject /\ Own \in Text
      BY <1>k, <2>1, ConfigAssumption DEF Ask
    <3>3. /\ Grows(text, text') /\ RegistryOK(Subject, text', live', soft')
          /\ AssignedId(Own) \in Nat /\ AssignedId(Own) \in DOMAIN text'
          /\ text'[AssignedId(Own)] = Own
      BY <3>1, <3>2, VersionStored
    <3>4. a \in Schema /\ OwnAnswer(a, text')
      BY <3>2, <3>3 DEF Schema, OwnAnswer
    <3> HIDE DEF a
    <3>5. QED
      BY <3>1, <3>3, <3>4
  <2>2. CASE q.op # "register"
    <3> DEFINE a == ReadAnswer(q)
    <3>1. /\ task' = [task EXCEPT ![t] = [k EXCEPT !.pc = "answered", !.answer = a, !.read = TRUE]]
          /\ text' = text /\ live' = live /\ soft' = soft
      BY <2>2 DEF Serve, registry
    <3>2. a \in Schema \cup {NotFound}
      BY <1>k, <2>2, ReadAnswerIs
    <3>3. ASSUME config.resolution # "UseLatestVersion", a # NotFound
          PROVE  OwnAnswer(a, text)
      <4>1. q.op = "lookup" \/ (q.op = "id" /\ Names(Id(q.of), text, Own))
        BY <1>0, <1>k, <2>2, <3>3, Requests DEF GoodCall, OwnCall
      <4>2. QED
        BY <1>k, <2>2, <3>3, <4>1, ReadAnswerIs
    <3> HIDE DEF a
    <3>4. QED
      BY <3>1, <3>2, <3>3, RegistryFacts
  <2>3. QED
    BY <2>1, <2>2
<1> DEFINE l == [k EXCEPT !.pc = "answered", !.answer = a, !.read = TRUE]
<1>2. /\ l \in Locals(Subject) /\ l.pc = "answered" /\ l.subject = k.subject /\ l.ask = q
      /\ l.answer = a /\ l.stale = k.stale /\ l.before = k.before /\ l.current = FALSE
  BY <1>k DEF Locals, PC
<1> HIDE DEF l
<1>3. LocalOK(l, Subject) /\ StaleCall(l, dropping)
  BY <1>0, <1>k, <1>2 DEF LocalOK, GoodCall, StaleCall
<1>4. config.resolution # "UseLatestVersion" => OwnCall(l, text')
  <2>1. OwnCall(k, text) => OwnCall(k, text')
    BY <1>1, NamesStay
  <2>2. QED
    BY <1>0, <1>1, <1>k, <1>2, <2>1 DEF GoodCall, OwnCall
<1>5. GoodCall(l, ToSet(keys), dropping, text')
  BY <1>k, <1>2, <1>3, <1>4 DEF GoodCall
<1>6. \A s \in Subject : slot[s] = t => Leads(l, s)
  BY <1>2, StillLeads
<1>7. task' = [task EXCEPT ![t] = l]
  BY <1>1 DEF l
<1>8. QED
  BY <1>0, <1>1, <1>2, <1>5, <1>6, <1>7, OneCall

LEMMA AgainStep ==
  ASSUME PipeInv, NEW t \in Task, Retry(t) \/ FetchGuid(t)
  PROVE  PipeInv'
<1> DEFINE k == task[t]
<1>0. /\ k.pc = "answered" /\ UNCHANGED <<config, keys, dropping, seen, topic, parsed>>
      /\ slot' = slot /\ text' = text /\ live' = live /\ soft' = soft
  BY DEF Retry, FetchGuid, registry
<1>k. /\ k \in Locals(Subject) /\ LocalOK(k, Subject)
      /\ GoodCall(k, ToSet(keys), dropping, text)
  BY CallFacts
<1>1. PICK q \in Ask(Subject) :
        /\ task' = [task EXCEPT ![t] = [k EXCEPT !.pc = "request", !.answer = None, !.ask = q]]
        /\ q = k.ask \/ (q.op = "id" /\ k.answer # NotFound /\ q.of = k.answer.id)
  <2>1. CASE Retry(t)
    <3>1. k.ask \in Ask(Subject)
      BY <1>0, <1>k DEF LocalOK
    <3>2. task' = [task EXCEPT ![t] = [k EXCEPT !.pc = "request", !.answer = None]]
      BY <2>1 DEF Retry
    <3>3. [k EXCEPT !.pc = "request", !.answer = None]
            = [k EXCEPT !.pc = "request", !.answer = None, !.ask = k.ask]
      BY <1>k DEF Locals
    <3>4. QED
      BY <3>1, <3>2, <3>3
  <2>2. CASE FetchGuid(t)
    <3> DEFINE q == [op |-> "id", of |-> k.answer.id]
    <3>1. k.answer # NotFound /\ k.answer \in Schema
      BY <1>0, <1>k, <2>2 DEF FetchGuid, NeedsGuid, LocalOK
    <3>2. q \in Ask(Subject) /\ q.op = "id" /\ q.of = k.answer.id
      BY <3>1 DEF Ask, Schema
    <3>3. task' = [task EXCEPT ![t] = [k EXCEPT !.pc = "request", !.answer = None, !.ask = q]]
      BY <2>2 DEF FetchGuid
    <3> HIDE DEF q
    <3>4. QED
      BY <3>1, <3>2, <3>3
  <2>3. QED
    BY <2>1, <2>2
<1> DEFINE l == [k EXCEPT !.pc = "request", !.answer = None, !.ask = q]
<1>2. /\ l \in Locals(Subject) /\ l.pc = "request" /\ l.subject = k.subject /\ l.ask = q
      /\ l.stale = k.stale /\ l.before = k.before /\ l.current = k.current
  BY <1>k DEF Locals, PC
<1> HIDE DEF l
<1>3. LocalOK(l, Subject) /\ StaleCall(l, dropping)
  BY <1>0, <1>k, <1>2 DEF LocalOK, GoodCall, StaleCall
<1>4. config.resolution # "UseLatestVersion" => OwnCall(l, text)
  BY <1>0, <1>1, <1>k, <1>2 DEF GoodCall, OwnCall, OwnAnswer, Names, Id
<1>5. GoodCall(l, ToSet(keys), dropping, text)
  BY <1>0, <1>1, <1>k, <1>2, <1>3, <1>4 DEF GoodCall, LocalOK
<1>6. \A s \in Subject : slot[s] = t => Leads(l, s)
  BY <1>2, StillLeads
<1>7. task' = [task EXCEPT ![t] = l]
  BY <1>1 DEF l
<1>8. QED
  BY <1>0, <1>2, <1>5, <1>6, <1>7, RegistryFacts, OneCall

LEMMA DropWaiterStep ==
  ASSUME PipeInv, NEW t \in Task, DropWaiter(t)
  PROVE  PipeInv'
<1>1. /\ task[t].pc = "wait" /\ UNCHANGED <<config, keys, dropping, seen, topic, parsed>>
      /\ slot' = slot /\ text' = text /\ live' = live /\ soft' = soft
      /\ task' = [task EXCEPT ![t] = Idle]
  BY DEF DropWaiter, registry
<1>2. \A s \in Subject : slot[s] # t
  BY <1>1, CallFacts DEF Leads
<1>3. QED
  BY <1>1, <1>2, IdleGood, RegistryFacts, OneCall

LEMMA FailsStep ==
  ASSUME PipeInv, NEW t \in Task, GiveUp(t) \/ Refused(t)
  PROVE  PipeInv'
<1>1. /\ UNCHANGED <<config, keys, dropping, seen, topic, parsed>> /\ Fails(t)
      /\ task[t].pc \in {"request", "answered"}
      /\ text' = text /\ live' = live /\ soft' = soft
  BY DEF GiveUp, Refused, registry
<1>2. /\ slot' = [s \in Subject |-> IF slot[s] = t THEN None ELSE slot[s]]
      /\ task' = [u \in Task |-> IF u \in {t} \cup Waiters(t) THEN Idle ELSE task[u]]
  BY <1>1 DEF Fails
<1>3. /\ slot' \in [Subject -> Task \cup {None}] /\ task' = [u \in Task |-> task'[u]]
      /\ \A u \in Task : task'[u] = task[u] \/ task'[u] = Idle
  BY <1>2, CallFacts
<1>4. ASSUME NEW s \in Subject, NEW u \in Task, slot'[s] = u
      PROVE  slot[s] = u /\ task'[u] = task[u]
  <2>1. slot[s] = u /\ u # t
    BY <1>2, <1>4, CallFacts
  <2>2. u \notin Waiters(t)
    BY <2>1, CallFacts DEF Waiters, Leads
  <2>3. QED
    BY <1>2, <2>1, <2>2
<1>5. ASSUME NEW w \in Task, NEW u \in Task, Awaits(task'[w], u)
      PROVE  task'[w] = task[w] /\ task'[u] = task[u]
  <2>1. task'[w] = task[w]
    BY <1>3, <1>5, IdleGood DEF Awaits
  <2>2. task[u].pc = "store"
    BY <1>5, <2>1 DEF PipeInv, WaitInv, Gives
  <2>3. QED
    BY <1>1, <1>2, <2>1, <2>2 DEF Waiters
<1>6. QED
  BY <1>1, <1>3, <1>4, <1>5, IdleGood, RegistryFacts, QuietStep

LEMMA ClaimStep ==
  ASSUME PipeInv, NEW t \in Task, Claim(t)
  PROVE  PipeInv'
<1> DEFINE k == task[t]
           owns == slot[k.subject] = t
           a == k.answer
<1>0. /\ k.pc = "answered" /\ UNCHANGED <<config, keys, dropping, seen, topic, parsed>>
      /\ text' = text /\ live' = live /\ soft' = soft
      /\ slot' = IF owns THEN [slot EXCEPT ![k.subject] = None] ELSE slot
  BY DEF Claim, registry
<1>k. /\ k \in Locals(Subject) /\ LocalOK(k, Subject)
      /\ GoodCall(k, ToSet(keys), dropping, text)
      /\ \A s \in Subject : slot[s] = t => Leads(k, s)
      /\ slot \in [Subject -> Task \cup {None}] /\ t # None
  BY CallFacts
<1>a. a \in Schema /\ a # NotFound /\ k.subject \in Subject
  BY <1>0, <1>k DEF Claim, NoKey, LocalOK
<1>s. Select(a) \in SchemaKey
      /\ (config.resolution # "UseLatestVersion" => Names(Select(a), text, Own))
  <2>1. CASE config.framing = "SchemaId"
    <3>1. Select(a) = [kind |-> "id", of |-> a.id] /\ a.id \in Nat
      BY <1>a, <2>1 DEF Select, Id, Schema
    <3>2. config.resolution # "UseLatestVersion" => OwnAnswer(a, text)
      BY <1>0, <1>k, <1>a DEF GoodCall, OwnCall
    <3>3. QED
      BY <3>1, <3>2 DEF SchemaKey, Names, OwnAnswer
  <2>2. CASE config.framing # "SchemaId"
    <3>0. config.framing = "SchemaGuid"
      BY <2>2, ConfigAssumption DEF PipeInv, TypeInv, Configuration, Framing
    <3>1. Select(a) = [kind |-> "guid", of |-> a.guid] /\ a.guid \in Text /\ a.guid # None
      BY <1>a, <2>2, <3>0, ConfigAssumption DEF Select, Guid, Schema, Claim, NeedsGuid
    <3>2. config.resolution # "UseLatestVersion" => OwnAnswer(a, text)
      BY <1>0, <1>k, <1>a DEF GoodCall, OwnCall
    <3>3. QED
      BY <3>1, <3>2 DEF SchemaKey, Names, OwnAnswer
  <2>3. QED
    BY <2>1, <2>2
<1>1. PICK b \in BOOLEAN : b = owns
  OBVIOUS
<1>2. PICK key \in SchemaKey : key = Select(a)
  BY <1>s
<1> DEFINE l == [k EXCEPT !.pc = IF b THEN "store" ELSE "frame", !.key = key,
                          !.answer = None, !.ask = None, !.read = b]
<1>3. task' = [u \in Task |->
        IF u = t THEN l
        ELSE IF u \in Waiters(t) /\ owns THEN [task[u] EXCEPT !.answer = t]
        ELSE task[u]]
  BY <1>1, <1>2 DEF Claim
<1>4. /\ l \in Locals(Subject) /\ l.pc = (IF b THEN "store" ELSE "frame")
      /\ l.subject = k.subject /\ l.key = key /\ l.read = b
      /\ l.stale = k.stale /\ l.before = k.before /\ l.late = k.late /\ l.current = k.current
  BY <1>k DEF Locals, PC
<1> HIDE DEF l
<1>5. GoodCall(l, ToSet(keys), dropping, text)
  <2>1. k.current = FALSE
    BY <1>0, <1>k DEF LocalOK, Locals
  <2>2. LocalOK(l, Subject)
    BY <1>a, <1>4, <2>1 DEF LocalOK
  <2>3. StaleCall(l, dropping)
    <3>1. CASE b
      <4>1. ~k.stale
        BY <1>1, <1>k, <1>a, <3>1 DEF Leads
      <4>2. QED
        BY <1>4, <4>1 DEF StaleCall
    <3>2. CASE ~b
      BY <1>0, <1>k, <1>4, <3>2 DEF StaleCall, GoodCall
    <3>3. QED
      BY <3>1, <3>2
  <2>4. config.resolution # "UseLatestVersion" => OwnCall(l, text)
    BY <1>s, <1>2, <1>4 DEF OwnCall
  <2>5. QED
    BY <1>4, <2>1, <2>2, <2>3, <2>4 DEF GoodCall
<1>6. ASSUME NEW u \in Task, u \in Waiters(t)
      PROVE  GoodCall([task[u] EXCEPT !.answer = t], ToSet(keys), dropping, text)
  <2> DEFINE m == [task[u] EXCEPT !.answer = t]
  <2>0. /\ task[u] \in Locals(Subject) /\ LocalOK(task[u], Subject) /\ task[u].pc = "wait"
        /\ GoodCall(task[u], ToSet(keys), dropping, text)
    BY <1>6, CallFacts DEF Waiters
  <2>1. /\ m \in Locals(Subject) /\ m.pc = "wait" /\ m.subject = task[u].subject
        /\ m.read = task[u].read /\ m.current = task[u].current /\ m.stale = task[u].stale
    BY <2>0 DEF Locals
  <2> HIDE DEF m
  <2>2. GoodCall(m, ToSet(keys), dropping, text)
    BY <2>0, <2>1 DEF GoodCall, LocalOK, StaleCall, OwnCall
  <2>3. QED
    BY <2>2 DEF m
<1>7. \A u \in Task : task'[u] = task[u] \/ GoodCall(task'[u], ToSet(keys), dropping, text)
  BY <1>3, <1>5, <1>6
<1>8. /\ slot' \in [Subject -> Task \cup {None}]
      /\ \A s \in Subject : slot'[s] = slot[s] \/ slot'[s] = None
      /\ owns => slot'[k.subject] = None
  BY <1>0, <1>k, <1>a
<1>9. ASSUME NEW s \in Subject, NEW u \in Task, slot'[s] = u
      PROVE  slot[s] = u /\ task'[u] = task[u]
  <2>1. slot[s] = u /\ u # None
    BY <1>8, <1>9, CallFacts
  <2>2. u # t
    BY <1>k, <1>8, <1>9, <2>1 DEF Leads
  <2>3. u \notin Waiters(t)
    BY <2>1, CallFacts DEF Waiters, Leads
  <2>4. QED
    BY <1>3, <2>1, <2>2, <2>3
<1>10. task' = [u \in Task |-> task'[u]]
  BY <1>3
<1>11. ASSUME NEW w \in Task, NEW u \in Task, Awaits(task'[w], u)
       PROVE  (task'[w] = task[w] /\ task'[u] = task[u]) \/ Gives(task'[u], task'[w])
  <2>1. w # t
    BY <1>3, <1>4, <1>11 DEF Awaits
  <2>2. CASE w \in Waiters(t) /\ owns
    <3>1. task[w] \in Locals(Subject) /\ task[w].pc = "wait" /\ slot[task[w].subject] = t
          /\ task[w].subject \in Subject
      BY <2>2, CallFacts DEF Waiters, LocalOK
    <3>2. task'[w] = [task[w] EXCEPT !.answer = t]
      BY <1>3, <2>1, <2>2
    <3>3. task'[w].answer = t /\ task'[w].subject = task[w].subject
      BY <3>1, <3>2 DEF Locals
    <3>4. k.subject = task[w].subject
      BY <1>k, <3>1 DEF Leads
    <3>5. task'[u] = l /\ l.pc = "store"
      BY <1>1, <1>3, <1>4, <1>11, <2>2, <3>3 DEF Awaits
    <3>6. QED
      BY <1>4, <3>3, <3>4, <3>5 DEF Gives
  <2>3. CASE ~(w \in Waiters(t) /\ owns)
    <3>1. task'[w] = task[w]
      BY <1>3, <2>1, <2>3
    <3>2. task[u].pc = "store"
      BY <1>11, <3>1 DEF PipeInv, WaitInv, Gives
    <3>3. QED
      BY <1>0, <1>3, <3>1, <3>2 DEF Waiters
  <2>4. QED
    BY <2>2, <2>3
<1>12. QED
  BY <1>0, <1>7, <1>8, <1>9, <1>10, <1>11, RegistryFacts, QuietStep

------------------------------------------------------------------------------
(***************************************************************************)
(* The key cache's entries.                                                *)
(***************************************************************************)
LEMMA KeysFacts ==
  ASSUME PipeInv
  PROVE  /\ keys \in Seq(KeyEntry(Subject)) /\ OneEntry(keys) /\ Len(keys) \in Nat
         /\ DOMAIN keys = 1..Len(keys) /\ \A i \in DOMAIN keys : keys[i] \in KeyEntry(Subject)
         /\ \A e, f \in ToSet(keys) : e.subject = f.subject => e = f
         /\ seen \in [Subject -> SchemaKey \cup {None}] /\ dropping \in Subject \cup {None}
         /\ \A s \in Subject : seen[s] # None => Holds(ToSet(keys), s, seen[s])
<1>1. /\ keys \in Seq(KeyEntry(Subject)) /\ OneEntry(keys)
      /\ seen \in [Subject -> SchemaKey \cup {None}] /\ dropping \in Subject \cup {None}
      /\ \A s \in Subject : seen[s] # None => Holds(ToSet(keys), s, seen[s])
  BY DEF PipeInv, TypeInv, CacheInv
<1>2. \A e, f \in ToSet(keys) : e.subject = f.subject => e = f
  BY <1>1 DEF OneEntry, ToSet
<1>3. QED
  BY <1>1, <1>2

LEMMA InsertedIs ==
  ASSUME PipeInv, NEW s \in Subject, NEW e \in KeyEntry(Subject), e.subject = s
  PROVE  /\ Inserted(s, e) \in Seq(KeyEntry(Subject)) /\ OneEntry(Inserted(s, e))
         /\ \E f \in ToSet(Inserted(s, e)) : f.subject = s
         /\ ToSet(Inserted(s, e)) \subseteq ToSet(keys) \cup {e}
         /\ Cached(s) => Inserted(s, e) = keys
<1>0. /\ keys \in Seq(KeyEntry(Subject)) /\ OneEntry(keys) /\ Len(keys) \in Nat
      /\ DOMAIN keys = 1..Len(keys)
  BY KeysFacts
<1>1. CASE Cached(s)
  <2>1. Inserted(s, e) = keys
    BY <1>1 DEF Inserted
  <2>2. QED
    BY <1>0, <1>1, <2>1 DEF Cached, ToSet
<1>2. CASE ~Cached(s)
  <2> DEFINE a == Append(keys, e)
             c == IF Len(keys) = Capacity THEN 1 ELSE 0
             q == Inserted(s, e)
  <2>1. a \in Seq(KeyEntry(Subject)) /\ Len(a) = Len(keys) + 1 /\ a[Len(keys) + 1] = e
        /\ \A i \in 1..Len(keys) : a[i] = keys[i]
    BY <1>0
  <2>2. c \in {0, 1} /\ c <= Len(keys)
    <3>1. Capacity \in Nat /\ Capacity # 0
      BY ConfigAssumption
    <3>2. CASE Len(keys) = Capacity
      <4>1. c = 1
        BY <3>2
      <4>2. QED
        BY <3>1, <3>2, <4>1
    <3>3. CASE Len(keys) # Capacity
      <4>1. c = 0
        BY <3>3
      <4>2. QED
        BY <1>0, <4>1
    <3>4. QED
      BY <3>2, <3>3
  <2>3. q = SubSeq(a, c + 1, Len(keys) + 1)
    BY <1>2 DEF Inserted
  <2> HIDE DEF a, c, q
  <2>4. /\ q \in Seq(KeyEntry(Subject)) /\ Len(q) = Len(keys) + 1 - c
        /\ \A i \in 1..(Len(keys) + 1 - c) : q[i] = a[i + c]
    BY <1>0, <2>1, <2>2, <2>3
  <2>5. /\ DOMAIN q = 1..(Len(keys) + 1 - c) /\ q[Len(keys) + 1 - c] = e
        /\ Len(keys) + 1 - c \in DOMAIN q
        /\ \A i \in DOMAIN q : i # Len(keys) + 1 - c =>
             i + c \in DOMAIN keys /\ q[i] = keys[i + c]
    BY <1>0, <2>1, <2>2, <2>4
  <2>6. ToSet(q) \subseteq ToSet(keys) \cup {e} /\ e \in ToSet(q)
    BY <2>5 DEF ToSet
  <2>7. \A i \in DOMAIN keys : keys[i].subject # s
    BY <1>2 DEF Cached
  <2>8. ASSUME NEW i \in DOMAIN q, NEW j \in DOMAIN q, q[i].subject = q[j].subject
        PROVE  i = j
    <3>1. CASE i = Len(keys) + 1 - c \/ j = Len(keys) + 1 - c
      BY <2>5, <2>7, <2>8, <3>1
    <3>2. CASE i # Len(keys) + 1 - c /\ j # Len(keys) + 1 - c
      <4>1. i + c = j + c
        BY <1>0, <2>5, <2>8, <3>2 DEF OneEntry
      <4>2. QED
        BY <1>0, <2>2, <2>5, <4>1
    <3>3. QED
      BY <3>1, <3>2
  <2>9. QED
    BY <1>2, <2>4, <2>6, <2>8 DEF OneEntry, q
<1>3. QED
  BY <1>1, <1>2

LEMMA WithoutIs ==
  ASSUME PipeInv, NEW s
  PROVE  /\ Without(s) \in Seq(KeyEntry(Subject)) /\ OneEntry(Without(s))
         /\ ToSet(Without(s)) = {e \in ToSet(keys) : e.subject # s}
<1>0. /\ keys \in Seq(KeyEntry(Subject)) /\ OneEntry(keys) /\ Len(keys) \in Nat
      /\ DOMAIN keys = 1..Len(keys)
  BY KeysFacts
<1>1. CASE ~Cached(s)
  <2>1. Without(s) = keys /\ \A e \in ToSet(keys) : e.subject # s
    BY <1>1 DEF Without, Cached, ToSet
  <2>2. QED
    BY <1>0, <2>1
<1>2. CASE Cached(s)
  <2> DEFINE q == Without(s)
             n == Len(keys)
  <2>1. PICK i \in DOMAIN keys : /\ keys[i].subject = s
                                 /\ q = SubSeq(keys, 1, i - 1) \o SubSeq(keys, i + 1, n)
    <3>1. \E i \in DOMAIN keys : keys[i].subject = s
      BY <1>2 DEF Cached
    <3>2. PICK i \in DOMAIN keys : /\ keys[i].subject = s
                                   /\ i = CHOOSE j \in DOMAIN keys : keys[j].subject = s
      BY <3>1
    <3>3. QED
      BY <1>2, <3>2 DEF Without, RemoveAt
  <2> DEFINE a == SubSeq(keys, 1, i - 1)
             b == SubSeq(keys, i + 1, n)
  <2> HIDE DEF q
  <2>2. /\ a \in Seq(KeyEntry(Subject)) /\ Len(a) = i - 1
        /\ \A j \in 1..(i - 1) : a[j] = keys[j]
    BY <1>0, <2>1
  <2>3. /\ b \in Seq(KeyEntry(Subject)) /\ Len(b) = n - i
        /\ \A j \in 1..(n - i) : b[j] = keys[j + i]
    BY <1>0, <2>1
  <2>4. q = a \o b
    BY <2>1
  <2> HIDE DEF a, b
  <2>n. n \in Nat /\ i \in 1..n /\ DOMAIN keys = 1..n
    BY <1>0, <2>1
  <2>c. /\ q \in Seq(KeyEntry(Subject)) /\ Len(q) = Len(a) + Len(b)
        /\ \A j \in 1..(Len(a) + Len(b)) : q[j] = IF j <= Len(a) THEN a[j] ELSE b[j - Len(a)]
    <3>1. a \in Seq(KeyEntry(Subject)) /\ b \in Seq(KeyEntry(Subject))
      BY <2>2, <2>3
    <3>2. QED
      BY <2>4, <3>1, ConcatProperties, Zenon
  <2> HIDE DEF n
  <2>5. q \in Seq(KeyEntry(Subject)) /\ Len(q) = n - 1 /\ DOMAIN q = 1..(n - 1)
    BY <2>n, <2>2, <2>3, <2>c
  <2>6. \A j \in 1..(n - 1) : q[j] = IF j < i THEN keys[j] ELSE keys[j + 1]
    <3> SUFFICES ASSUME NEW j \in 1..(n - 1)
                 PROVE  q[j] = IF j < i THEN keys[j] ELSE keys[j + 1]
      OBVIOUS
    <3>1. q[j] = IF j <= Len(a) THEN a[j] ELSE b[j - Len(a)]
      BY <2>n, <2>2, <2>3, <2>c
    <3>2. CASE j < i
      <4>1. j \in 1..(i - 1) /\ j <= Len(a)
        BY <2>n, <2>2, <3>2
      <4>2. QED
        BY <2>2, <3>1, <3>2, <4>1
    <3>3. CASE ~(j < i)
      <4>1. /\ j - Len(a) \in 1..(n - i) /\ ~(j <= Len(a))
            /\ (j - Len(a)) + i = j + 1
        BY <2>n, <2>2, <3>3
      <4>2. QED
        BY <2>3, <3>1, <3>3, <4>1
    <3>4. QED
      BY <3>2, <3>3
  <2>7. \A j \in DOMAIN keys : keys[j].subject = s => j = i
    BY <1>0, <2>1 DEF OneEntry
  <2>8. ASSUME NEW j \in DOMAIN q, NEW m \in DOMAIN q, q[j].subject = q[m].subject
        PROVE  j = m
    <3> DEFINE up(k) == IF k < i THEN k ELSE k + 1
    <3>1. up(j) \in DOMAIN keys /\ up(m) \in DOMAIN keys
          /\ q[j] = keys[up(j)] /\ q[m] = keys[up(m)]
      BY <2>n, <2>5, <2>6
    <3>2. up(j) = up(m)
      <4> HIDE DEF up
      <4>1. QED
        BY <1>0, <2>8, <3>1 DEF OneEntry
    <3>3. QED
      BY <2>n, <2>5, <3>2
  <2>9. ToSet(q) \subseteq {e \in ToSet(keys) : e.subject # s}
    <3>1. ASSUME NEW j \in DOMAIN q PROVE q[j] \in ToSet(keys) /\ q[j].subject # s
      <4>1. PICK m \in DOMAIN keys : m # i /\ q[j] = keys[m]
        <5>1. CASE j < i
          BY <2>n, <2>5, <2>6, <5>1
        <5>2. CASE ~(j < i)
          <6>1. j + 1 \in DOMAIN keys /\ j + 1 # i /\ q[j] = keys[j + 1]
            BY <2>n, <2>5, <2>6, <5>2
          <6>2. QED
            BY <6>1
        <5>3. QED
          BY <5>1, <5>2
      <4>2. QED
        BY <2>7, <4>1 DEF ToSet
    <3>2. QED
      BY <3>1 DEF ToSet
  <2>10. {e \in ToSet(keys) : e.subject # s} \subseteq ToSet(q)
    <3>1. ASSUME NEW j \in DOMAIN keys, keys[j].subject # s PROVE keys[j] \in ToSet(q)
      <4>1. j # i
        BY <2>1, <3>1
      <4>2. PICK m \in DOMAIN q : q[m] = keys[j]
        <5>1. CASE j < i
          BY <2>n, <2>5, <2>6, <5>1
        <5>2. CASE j > i
          <6>1. j - 1 \in DOMAIN q /\ q[j - 1] = keys[j]
            BY <2>n, <2>5, <2>6, <5>2
          <6>2. QED
            BY <6>1
        <5>3. QED
          BY <2>n, <4>1, <5>1, <5>2
      <4>3. QED
        BY <4>2 DEF ToSet
    <3>2. QED
      BY <3>1 DEF ToSet
  <2>11. QED
    BY <2>5, <2>8, <2>9, <2>10 DEF OneEntry, q
<1>3. QED
  BY <1>1, <1>2

LEMMA StoreStep ==
  ASSUME PipeInv, NEW t \in Task, Store(t)
  PROVE  PipeInv'
<1> DEFINE k == task[t]
           s == k.subject
           e == [subject |-> s, key |-> k.key, stale |-> k.stale, late |-> k.late]
           shared == CHOOSE f \in ToSet(keys') : f.subject = s
           evicted == {f.subject : f \in ToSet(keys) \ ToSet(keys')} \ {s}
           Woken(u) == u = t \/ (task[u].pc = "wait" /\ task[u].answer = t)
<1>0. /\ k.pc = "store" /\ keys' = Inserted(s, e)
      /\ UNCHANGED <<config, dropping, topic, parsed>> /\ slot' = slot
      /\ text' = text /\ live' = live /\ soft' = soft
      /\ seen' = [r \in Subject |-> IF r \in evicted THEN None ELSE seen[r]]
      /\ task' = [u \in Task |->
           IF Woken(u) THEN [Resolved(task[u], shared) EXCEPT !.answer = None]
           ELSE IF task[u].pc = "frame" /\ task[u].subject \in evicted
           THEN [task[u] EXCEPT !.current = FALSE] ELSE task[u]]
  BY DEF Store, Forgotten, registry
<1>k. /\ k \in Locals(Subject) /\ LocalOK(k, Subject)
      /\ GoodCall(k, ToSet(keys), dropping, text) /\ s \in Subject
      /\ slot \in [Subject -> Task \cup {None}]
  BY <1>0, CallFacts DEF LocalOK
<1>e. e.subject = s /\ GoodEntry(e, dropping, text)
  <2>1. k.key \in SchemaKey /\ k.stale \in BOOLEAN /\ k.late \in BOOLEAN
    BY <1>0, <1>k DEF LocalOK, Locals
  <2>2. e \in KeyEntry(Subject)
    BY <1>k, <2>1 DEF KeyEntry
  <2>3. QED
    BY <1>0, <1>k, <2>2 DEF GoodEntry, GoodCall, StaleCall, StaleEntry, OwnCall
<1> HIDE DEF e
<1>1. /\ keys' \in Seq(KeyEntry(Subject)) /\ OneEntry(keys')
      /\ \E f \in ToSet(keys') : f.subject = s
      /\ ToSet(keys') \subseteq ToSet(keys) \cup {e}
      /\ Cached(s) => keys' = keys
  BY <1>0, <1>k, <1>e, InsertedIs DEF GoodEntry
<1>2. \A f \in ToSet(keys') : GoodEntry(f, dropping, text)
  BY <1>1, <1>e, GoodState
<1>3. shared \in ToSet(keys') /\ shared.subject = s /\ GoodEntry(shared, dropping, text)
  BY <1>1, <1>2
<1> HIDE DEF shared
<1>4. ASSUME NEW r, NEW key, r \notin evicted, Holds(ToSet(keys), r, key)
      PROVE  Holds(ToSet(keys'), r, key)
  <2>1. PICK f \in ToSet(keys) : f.subject = r /\ f.key = key
    BY <1>4 DEF Holds
  <2>2. CASE f \in ToSet(keys')
    BY <2>1, <2>2 DEF Holds
  <2>3. CASE f \notin ToSet(keys')
    <3>1. r = s
      BY <1>4, <2>1, <2>3
    <3>2. Cached(s)
      BY <2>1, <3>1, Ranges DEF Cached
    <3>3. QED
      BY <1>1, <2>3, <3>2
  <2>4. QED
    BY <2>2, <2>3
<1> HIDE DEF evicted
<1>w. ASSUME NEW u \in Task, Woken(u)
      PROVE  /\ GoodCall(task'[u], ToSet(keys'), dropping, text)
             /\ task'[u].pc = "frame" /\ task[u].pc \in {"wait", "store"}
  <2>1. task[u] \in Locals(Subject) /\ task[u].subject = s /\ task[u].pc \in {"wait", "store"}
    BY <1>0, <1>w, CallFacts DEF PipeInv, WaitInv, Awaits, Gives
  <2>2. PICK m : m = [Resolved(task[u], shared) EXCEPT !.answer = None]
    OBVIOUS
  <2>3. task'[u] = m
    BY <1>0, <1>w, <2>2
  <2>4. GoodCall(m, ToSet(keys'), dropping, text) /\ m.pc = "frame"
    BY <1>k, <1>3, <2>1, <2>2, ResolvedGood
  <2>5. QED
    BY <2>1, <2>3, <2>4
<1>o. ASSUME NEW u \in Task, ~Woken(u)
      PROVE  /\ GoodCall(task'[u], ToSet(keys'), dropping, text)
             /\ task'[u].pc = task[u].pc /\ task'[u].subject = task[u].subject
             /\ task'[u].answer = task[u].answer /\ task'[u].stale = task[u].stale
  <2>0. task[u] \in Locals(Subject) /\ GoodCall(task[u], ToSet(keys), dropping, text)
    BY CallFacts
  <2>1. CASE task[u].pc = "frame" /\ task[u].subject \in evicted
    <3> DEFINE m == [task[u] EXCEPT !.current = FALSE]
    <3>1. task'[u] = m
      BY <1>0, <1>o, <2>1
    <3>2. /\ m \in Locals(Subject) /\ m.pc = task[u].pc /\ m.subject = task[u].subject
          /\ m.ask = task[u].ask /\ m.answer = task[u].answer /\ m.key = task[u].key
          /\ m.read = task[u].read /\ m.stale = task[u].stale /\ m.late = task[u].late
          /\ m.before = task[u].before /\ m.current = FALSE
      BY <2>0 DEF Locals
    <3> HIDE DEF m
    <3>3. LocalOK(m, Subject) /\ StaleCall(m, dropping)
      BY <2>0, <3>2 DEF GoodCall, LocalOK, StaleCall
    <3>4. config.resolution # "UseLatestVersion" => OwnCall(m, text)
      BY <2>0, <3>2 DEF GoodCall, OwnCall
    <3>5. QED
      BY <2>0, <3>1, <3>2, <3>3, <3>4 DEF GoodCall
  <2>2. CASE ~(task[u].pc = "frame" /\ task[u].subject \in evicted)
    <3>1. task'[u] = task[u]
      BY <1>0, <1>o, <2>2
    <3>2. task[u].current => Holds(ToSet(keys'), task[u].subject, task[u].key)
      BY <1>4, <2>0, <2>2 DEF GoodCall, LocalOK
    <3>3. QED
      BY <2>0, <3>1, <3>2 DEF GoodCall
  <2>3. QED
    BY <2>1, <2>2
<1>5. \A u \in Task : GoodCall(task'[u], ToSet(keys'), dropping, text)
  BY <1>w, <1>o
<1>6. ASSUME NEW r \in Subject, NEW u \in Task, slot[r] = u PROVE Leads(task'[u], r)
  <2>1. Leads(task[u], r)
    BY <1>6, CallFacts
  <2>2. ~Woken(u)
    BY <1>w, <2>1 DEF Leads
  <2>3. QED
    BY <1>o, <2>1, <2>2 DEF Leads
<1>7. ASSUME NEW w \in Task, NEW u \in Task, Awaits(task'[w], u)
      PROVE  Gives(task'[u], task'[w])
  <2>1. ~Woken(w)
    BY <1>w, <1>7 DEF Awaits
  <2>2. Awaits(task[w], u) /\ task'[w].subject = task[w].subject
    BY <1>o, <1>7, <2>1 DEF Awaits
  <2>3. u # t /\ Gives(task[u], task[w])
    BY <2>1, <2>2 DEF Awaits, PipeInv, WaitInv
  <2>4. ~Woken(u)
    BY <2>3 DEF Gives
  <2>5. QED
    BY <1>o, <2>2, <2>3, <2>4 DEF Gives
<1>8. /\ seen' \in [Subject -> SchemaKey \cup {None}]
      /\ \A r \in Subject : seen'[r] # None => Holds(ToSet(keys'), r, seen'[r])
  BY <1>0, <1>4, KeysFacts
<1>9. task' = [u \in Task |-> task'[u]] /\ dropping \in Subject \cup {None}
  BY <1>0, KeysFacts
<1>10. config.resolution # "UseLatestVersion" => \A p \in parsed : Names(p.key, text, p.text)
  BY DEF PipeInv, OwnInv
<1>11. QED
  BY <1>0, <1>k, <1>1, <1>2, <1>5, <1>6, <1>7, <1>8, <1>9, <1>10, GoodState, RegistryFacts, Assemble

\* Subjects that are none are not dropped.
LEMMA NoneIsNoSubject == None \notin Subject
  BY DEF Subject

LEMMA FrameStep ==
  ASSUME PipeInv, NEW t \in Task, Frame(t)
  PROVE  PipeInv'
<1> DEFINE k == task[t]
<1>0. /\ k.pc = "frame" /\ UNCHANGED <<config, keys, dropping, parsed>> /\ slot' = slot
      /\ text' = text /\ live' = live /\ soft' = soft
      /\ task' = [task EXCEPT ![t] = Idle]
      /\ topic' \in {topic} \cup {topic \cup {[key |-> k.key, text |-> x]} : x \in Serialises}
      /\ seen' = IF k.current THEN [seen EXCEPT ![k.subject] = k.key] ELSE seen
  BY DEF Frame, registry
<1>k. /\ k.key \in SchemaKey /\ k.subject \in Subject
      /\ GoodCall(k, ToSet(keys), dropping, text)
      /\ \A s \in Subject : slot[s] # t
      /\ task \in [Task -> Locals(Subject)] /\ slot \in [Subject -> Task \cup {None}]
  BY <1>0, CallFacts DEF LocalOK, Leads
<1>1. \A r \in topic' : GoodRecord(r, text)
  <2>1. ASSUME NEW x \in Serialises, CachesSchema PROVE x = Own
    BY <2>1 DEF Serialises, CachesSchema, AvroSerialises, JsonSerialises
  <2>2. config.resolution # "UseLatestVersion" => Names(k.key, text, Own)
    BY <1>0, <1>k DEF GoodCall, OwnCall
  <2>3. ASSUME NEW x \in Serialises PROVE GoodRecord([key |-> k.key, text |-> x], text)
    BY <1>k, <2>1, <2>2 DEF GoodRecord
  <2>4. QED
    BY <1>0, <2>3, GoodState
<1>2. /\ seen' \in [Subject -> SchemaKey \cup {None}]
      /\ \A s \in Subject : seen'[s] # None => Holds(ToSet(keys), s, seen'[s])
  <2>1. k.current => Holds(ToSet(keys), k.subject, k.key)
    BY <1>k DEF GoodCall
  <2>2. QED
    BY <1>0, <1>k, <2>1, KeysFacts
<1>3. /\ task' = [u \in Task |-> task'[u]] /\ task'[t] = Idle
      /\ \A u \in Task : u # t => task'[u] = task[u]
  BY <1>0, <1>k
<1>4. \A u \in Task : GoodCall(task'[u], ToSet(keys), dropping, text)
  BY <1>3, IdleGood, GoodState
<1>5. /\ \A s \in Subject, u \in Task : slot[s] = u => Leads(task'[u], s)
      /\ \A w, u \in Task : Awaits(task'[w], u) => Gives(task'[u], task'[w])
  BY <1>0, <1>k, <1>3, IdleGood DEF PipeInv, SlotInv, WaitInv, Awaits, Gives
<1>6. config.resolution # "UseLatestVersion" => \A p \in parsed : Names(p.key, text, p.text)
  BY DEF PipeInv, OwnInv
<1>7. QED
  BY <1>0, <1>k, <1>1, <1>2, <1>3, <1>4, <1>5, <1>6, GoodState, KeysFacts, RegistryFacts, Assemble

LEMMA InvalidateStep ==
  ASSUME PipeInv, NEW s \in Subject, InvalidateSubject(s)
  PROVE  PipeInv'
<1> DEFINE Mark(e) == IF e.subject = s THEN [e EXCEPT !.stale = TRUE] ELSE e
<1>0. /\ dropping = None /\ dropping' = s /\ UNCHANGED <<config, seen, topic, parsed>>
      /\ text' = text /\ live' = live /\ soft' = soft
      /\ slot' = [slot EXCEPT ![s] = None]
      /\ keys' = [i \in DOMAIN keys |-> Mark(keys[i])]
      /\ task' = [u \in Task |->
           IF task[u].pc = "wait" /\ task[u].subject = s /\ task[u].answer = None THEN Idle
           ELSE IF task[u].subject = s /\ task[u].read
           THEN [task[u] EXCEPT !.stale = TRUE, !.late = @ \/ task[u].pc = "store"]
           ELSE task[u]]
  BY DEF InvalidateSubject, registry
<1>n. s # None
  BY NoneIsNoSubject
<1>1. ASSUME NEW e \in ToSet(keys)
      PROVE  /\ Mark(e).subject = e.subject /\ Mark(e).key = e.key
             /\ GoodEntry(Mark(e), s, text)
  <2>0. GoodEntry(e, None, text) /\ e \in KeyEntry(Subject)
    BY <1>0, GoodState DEF GoodEntry
  <2>1. CASE e.subject = s
    <3> DEFINE f == [e EXCEPT !.stale = TRUE]
    <3>1. f \in KeyEntry(Subject) /\ f.subject = s /\ f.key = e.key
      BY <2>0, <2>1 DEF KeyEntry
    <3>2. Mark(e) = f
      BY <2>1
    <3> HIDE DEF f, Mark
    <3>3. QED
      BY <2>0, <2>1, <3>1, <3>2 DEF GoodEntry, StaleEntry
  <2>2. CASE e.subject # s
    <3>1. e.subject \in Subject
      BY <2>0 DEF KeyEntry
    <3>2. QED
      BY <2>0, <2>2, <3>1, NoneIsNoSubject DEF GoodEntry, StaleEntry
  <2>3. QED
    BY <2>1, <2>2
<1> HIDE DEF Mark
<1>2. /\ DOMAIN keys' = DOMAIN keys /\ \A i \in DOMAIN keys : keys'[i] = Mark(keys[i])
      /\ ToSet(keys') = {Mark(e) : e \in ToSet(keys)}
  BY <1>0 DEF ToSet
<1>3. /\ keys' \in Seq(KeyEntry(Subject)) /\ OneEntry(keys')
      /\ \A e \in ToSet(keys') : GoodEntry(e, s, text)
  <2>1. \A e \in ToSet(keys') : GoodEntry(e, s, text)
    BY <1>1, <1>2
  <2>2. \A i \in DOMAIN keys : keys'[i] \in KeyEntry(Subject)
    BY <1>2, <2>1, Ranges DEF GoodEntry
  <2>3. keys' \in Seq(KeyEntry(Subject))
    <3>1. keys' \in [1..Len(keys) -> KeyEntry(Subject)] /\ Len(keys) \in Nat
      BY <1>0, <1>2, <2>2, KeysFacts
    <3>2. QED
      BY <3>1
  <2>4. OneEntry(keys')
    <3>1. \A i \in DOMAIN keys : keys'[i].subject = keys[i].subject
      BY <1>1, <1>2, Ranges
    <3>2. OneEntry(keys)
      BY KeysFacts
    <3>3. QED
      BY <1>2, <3>1, <3>2 DEF OneEntry
  <2>5. QED
    BY <2>1, <2>3, <2>4
<1>4. ASSUME NEW r, NEW key, Holds(ToSet(keys), r, key) PROVE Holds(ToSet(keys'), r, key)
  BY <1>1, <1>2, <1>4 DEF Holds
<1>5. ASSUME NEW u \in Task
      PROVE  /\ GoodCall(task'[u], ToSet(keys'), s, text)
             /\ \/ task[u].pc = "wait" /\ task[u].answer = None /\ task'[u] = Idle
                \/ task[u].subject = s /\ task[u].read /\ task'[u].pc = task[u].pc
                   /\ task'[u].subject = s /\ task[u].pc # "wait"
                \/ task'[u] = task[u]
  <2>0. /\ task[u] \in Locals(Subject) /\ LocalOK(task[u], Subject)
        /\ GoodCall(task[u], ToSet(keys), None, text)
    BY <1>0, CallFacts
  <2>1. CASE task[u].pc = "wait" /\ task[u].subject = s /\ task[u].answer = None
    BY <1>0, <2>1, IdleGood
  <2>2. CASE /\ ~(task[u].pc = "wait" /\ task[u].subject = s /\ task[u].answer = None)
             /\ task[u].subject = s /\ task[u].read
    <3>1. PICK b \in BOOLEAN : b = (task[u].late \/ task[u].pc = "store")
      OBVIOUS
    <3> DEFINE m == [task[u] EXCEPT !.stale = TRUE, !.late = b]
    <3>2. task'[u] = m
      BY <1>0, <2>2, <3>1
    <3>3. /\ m \in Locals(Subject) /\ m.pc = task[u].pc /\ m.subject = task[u].subject
          /\ m.ask = task[u].ask /\ m.answer = task[u].answer /\ m.key = task[u].key
          /\ m.read = task[u].read /\ m.late = b /\ m.current = task[u].current
      BY <2>0 DEF Locals
    <3> HIDE DEF m
    <3>4. LocalOK(m, Subject) /\ StaleCall(m, s)
      BY <2>0, <2>2, <3>1, <3>3 DEF LocalOK, StaleCall
    <3>5. config.resolution # "UseLatestVersion" => OwnCall(m, text)
      BY <2>0, <3>3 DEF GoodCall, OwnCall
    <3>6. m.current => Holds(ToSet(keys'), m.subject, m.key)
      BY <1>4, <2>0, <3>3 DEF GoodCall
    <3>7. m.pc # "wait"
      BY <2>0, <2>2, <3>3 DEF LocalOK
    <3>8. GoodCall(m, ToSet(keys'), s, text)
      BY <2>0, <3>3, <3>4, <3>5, <3>6 DEF GoodCall
    <3>9. QED
      BY <2>2, <3>2, <3>3, <3>7, <3>8
  <2>3. CASE /\ ~(task[u].pc = "wait" /\ task[u].subject = s /\ task[u].answer = None)
             /\ ~(task[u].subject = s /\ task[u].read)
    <3>1. task'[u] = task[u]
      BY <1>0, <2>3
    <3>2. task[u].pc # "idle" => task[u].subject # None
      BY <2>0, NoneIsNoSubject DEF LocalOK
    <3>3. StaleCall(task[u], s)
      BY <2>0, <3>2 DEF GoodCall, StaleCall
    <3>4. task[u].current => Holds(ToSet(keys'), task[u].subject, task[u].key)
      BY <1>4, <2>0 DEF GoodCall
    <3>5. GoodCall(task[u], ToSet(keys'), s, text)
      BY <2>0, <3>3, <3>4 DEF GoodCall
    <3>6. QED
      BY <3>1, <3>5
  <2>4. QED
    BY <2>1, <2>2, <2>3
<1>6. /\ slot' \in [Subject -> Task \cup {None}] /\ slot'[s] = None
      /\ \A r \in Subject : r # s => slot'[r] = slot[r]
  BY <1>0 DEF PipeInv, TypeInv
<1>7. ASSUME NEW r \in Subject, NEW u \in Task, slot'[r] = u PROVE Leads(task'[u], r)
  <2>1. r # s /\ Leads(task[u], r)
    BY <1>6, <1>7, CallFacts
  <2>2. task'[u] = task[u]
    BY <1>5, <2>1 DEF Leads
  <2>3. QED
    BY <2>1, <2>2
<1>8. ASSUME NEW w \in Task, NEW u \in Task, Awaits(task'[w], u) PROVE Gives(task'[u], task'[w])
  <2>1. task'[w] = task[w]
    BY <1>5, <1>8, IdleGood DEF Awaits
  <2>2. Gives(task[u], task[w])
    BY <1>8, <2>1 DEF PipeInv, WaitInv
  <2>3. QED
    BY <1>5, <2>1, <2>2 DEF Gives
<1>9. \A r \in Subject : seen[r] # None => Holds(ToSet(keys'), r, seen[r])
  BY <1>4, KeysFacts
<1>10. task' = [u \in Task |-> task'[u]]
  BY <1>0
<1>11. config.resolution # "UseLatestVersion" => \A p \in parsed : Names(p.key, text, p.text)
  BY DEF PipeInv, OwnInv
<1>12. QED
  BY <1>0, <1>3, <1>5, <1>6, <1>7, <1>8, <1>9, <1>10, <1>11, GoodState, KeysFacts, RegistryFacts,
     Assemble

LEMMA DropEntryStep ==
  ASSUME PipeInv, DropEntry
  PROVE  PipeInv'
<1> DEFINE d == dropping
<1>0. /\ d # None /\ dropping' = None /\ UNCHANGED <<config, topic, parsed>> /\ slot' = slot
      /\ text' = text /\ live' = live /\ soft' = soft /\ keys' = Without(d)
      /\ seen' = [r \in Subject |-> IF r \in {d} THEN None ELSE seen[r]]
      /\ task' = [u \in Task |->
           IF task[u].subject = d
           THEN [task[u] EXCEPT !.before = TRUE, !.current = FALSE,
                                !.stale = @ /\ task[u].pc # "frame",
                                !.late = @ /\ task[u].pc # "frame"] ELSE task[u]]
  BY DEF DropEntry, Forgotten, registry
<1>1. /\ keys' \in Seq(KeyEntry(Subject)) /\ OneEntry(keys')
      /\ ToSet(keys') = {e \in ToSet(keys) : e.subject # d}
  BY <1>0, WithoutIs
<1>2. \A e \in ToSet(keys') : GoodEntry(e, None, text)
  <2>1. \A e \in ToSet(keys') : GoodEntry(e, d, text) /\ e.subject # d
    BY <1>1, GoodState
  <2>2. QED
    BY <2>1 DEF GoodEntry, StaleEntry
<1>3. ASSUME NEW r, NEW key, r # d, Holds(ToSet(keys), r, key) PROVE Holds(ToSet(keys'), r, key)
  BY <1>1, <1>3 DEF Holds
<1>4. ASSUME NEW u \in Task
      PROVE  /\ GoodCall(task'[u], ToSet(keys'), None, text)
             /\ task'[u].pc = task[u].pc /\ task'[u].subject = task[u].subject
             /\ task'[u].answer = task[u].answer /\ (task'[u].stale => task[u].stale)
  <2>0. /\ task[u] \in Locals(Subject) /\ LocalOK(task[u], Subject)
        /\ GoodCall(task[u], ToSet(keys), d, text)
    BY CallFacts
  <2>1. CASE task[u].subject = d
    <3>1. PICK b \in BOOLEAN : b = (task[u].stale /\ task[u].pc # "frame")
      OBVIOUS
    <3>2. PICK c \in BOOLEAN : c = (task[u].late /\ task[u].pc # "frame")
      OBVIOUS
    <3> DEFINE m == [task[u] EXCEPT !.before = TRUE, !.current = FALSE, !.stale = b, !.late = c]
    <3>3. task'[u] = m
      BY <1>0, <2>1, <3>1, <3>2
    <3>4. /\ m \in Locals(Subject) /\ m.pc = task[u].pc /\ m.subject = task[u].subject
          /\ m.ask = task[u].ask /\ m.answer = task[u].answer /\ m.key = task[u].key
          /\ m.read = task[u].read /\ m.late = c /\ m.stale = b /\ m.before = TRUE
          /\ m.current = FALSE
      BY <2>0 DEF Locals
    <3> HIDE DEF m
    <3>5. LocalOK(m, Subject) /\ StaleCall(m, None)
      BY <2>0, <3>1, <3>2, <3>4 DEF LocalOK, StaleCall, GoodCall
    <3>6. config.resolution # "UseLatestVersion" => OwnCall(m, text)
      BY <2>0, <3>4 DEF GoodCall, OwnCall
    <3>7. GoodCall(m, ToSet(keys'), None, text)
      BY <2>0, <3>4, <3>5, <3>6 DEF GoodCall
    <3>8. QED
      BY <3>1, <3>3, <3>4, <3>7
  <2>2. CASE task[u].subject # d
    <3>1. task'[u] = task[u]
      BY <1>0, <2>2
    <3>2. StaleCall(task[u], None)
      BY <2>0, <2>2 DEF GoodCall, StaleCall
    <3>3. task[u].current => Holds(ToSet(keys'), task[u].subject, task[u].key)
      BY <1>3, <2>0, <2>2 DEF GoodCall
    <3>4. GoodCall(task[u], ToSet(keys'), None, text)
      BY <2>0, <3>2, <3>3 DEF GoodCall
    <3>5. QED
      BY <3>1, <3>4
  <2>3. QED
    BY <2>1, <2>2
<1>5. \A r \in Subject, u \in Task : slot[r] = u => Leads(task'[u], r)
  BY <1>4, CallFacts DEF Leads
<1>6. \A w, u \in Task : Awaits(task'[w], u) => Gives(task'[u], task'[w])
  BY <1>4 DEF PipeInv, WaitInv, Awaits, Gives
<1>7. /\ seen' \in [Subject -> SchemaKey \cup {None}]
      /\ \A r \in Subject : seen'[r] # None => Holds(ToSet(keys'), r, seen'[r])
  BY <1>0, <1>3, KeysFacts
<1>8. task' = [u \in Task |-> task'[u]] /\ slot \in [Subject -> Task \cup {None}]
  BY <1>0 DEF PipeInv, TypeInv
<1>9. config.resolution # "UseLatestVersion" => \A p \in parsed : Names(p.key, text, p.text)
  BY DEF PipeInv, OwnInv
<1>10. QED
  BY <1>0, <1>1, <1>2, <1>4, <1>5, <1>6, <1>7, <1>8, <1>9, GoodState, RegistryFacts, Assemble

LEMMA EmptyCache == <<>> \in Seq(KeyEntry(Subject)) /\ OneEntry(<<>>) /\ ToSet(<<>>) = {}
  BY DEF OneEntry, ToSet

LEMMA RestartStep ==
  ASSUME PipeInv, Restart
  PROVE  PipeInv'
<1>0. /\ dropping' = None /\ UNCHANGED <<config, topic, parsed>>
      /\ text' = text /\ live' = live /\ soft' = soft /\ keys' = <<>>
      /\ seen' = [r \in Subject |-> IF r \in Subject THEN None ELSE seen[r]]
      /\ slot' = [r \in Subject |-> None]
      /\ task' = [u \in Task |-> Idle]
  BY DEF Restart, Forgotten, registry
<1>s. /\ \A r \in Subject : seen'[r] = None /\ slot'[r] = None
      /\ seen' \in [Subject -> SchemaKey \cup {None}]
      /\ slot' \in [Subject -> Task \cup {None}]
  BY <1>0
<1>1. /\ task' = [u \in Task |-> task'[u]] /\ \A u \in Task : task'[u] = Idle
      /\ \A u \in Task : u # None
  BY <1>0, ConfigAssumption
<1>2. \A w, u \in Task : ~Awaits(task'[w], u)
  BY <1>1, IdleGood DEF Awaits
<1>3. config.resolution # "UseLatestVersion" => \A p \in parsed : Names(p.key, text, p.text)
  BY DEF PipeInv, OwnInv
<1>4. QED
  BY <1>0, <1>s, <1>1, <1>2, <1>3, EmptyCache, IdleGood, GoodState, RegistryFacts, Assemble

------------------------------------------------------------------------------
(***************************************************************************)
(* The decoder.                                                            *)
(***************************************************************************)
\* Whether it is cached or asked for, what an identifier stands for is what
\* it names.
LEMMA WriterIsOwn ==
  ASSUME PipeInv, config.resolution # "UseLatestVersion",
         NEW k \in SchemaKey, Names(k, text, Own)
  PROVE  WriterSchema(k) \subseteq {Own}
<1>0. k.kind \in {"id", "guid"}
  BY DEF SchemaKey
<1>1. \A p \in CachedSchemas(k) : p.text = Own
  <2>1. \A p \in CachedSchemas(k) : Names(k, text, p.text)
    BY DEF PipeInv, OwnInv, CachedSchemas
  <2>2. QED
    BY <2>1 DEF Names
<1>2. ByKey(k) # NotFound => ByKey(k).text = Own
  <2> DEFINE q == [op |-> k.kind, of |-> k.of]
  <2>0. ByKey(k) = ReadAnswer(q) /\ q.op = k.kind /\ q.of = k.of
    BY DEF ByKey
  <2> HIDE DEF q
  <2>1. CASE k.kind = "id"
    <3>1. k.of \in DOMAIN text /\ text[k.of] = Own
      BY <2>1 DEF Names
    <3>2. ReadAnswer(q) = IF Resolvable(k.of) THEN Described(k.of) ELSE NotFound
      BY <2>0, <2>1 DEF ReadAnswer
    <3>3. Described(k.of).text = Own
      BY <3>1, DescribedIs
    <3>4. QED
      BY <2>0, <3>2, <3>3
  <2>2. CASE k.kind = "guid"
    <3>1. k.of = Own
      BY <2>2 DEF Names
    <3>2. ReadAnswer(q) = IF config.guids /\ IdsOf(Own) # {}
                          THEN Described(CHOOSE n \in IdsOf(Own) : TRUE) ELSE NotFound
      BY <2>0, <2>2, <3>1 DEF ReadAnswer
    <3>3. ASSUME IdsOf(Own) # {} PROVE Described(CHOOSE n \in IdsOf(Own) : TRUE).text = Own
      <4>1. PICK n \in IdsOf(Own) : n = CHOOSE m \in IdsOf(Own) : TRUE
        BY <3>3
      <4>2. n \in DOMAIN text /\ text[n] = Own
        BY RegistryFacts
      <4>3. QED
        BY <4>1, <4>2, DescribedIs
    <3>4. QED
      BY <2>0, <3>2, <3>3
  <2>3. QED
    BY <1>0, <2>1, <2>2
<1>3. QED
  BY <1>1, <1>2 DEF WriterSchema

\* A step that only changes what the decoder has cached.
LEMMA DecoderStep ==
  ASSUME PipeInv, UNCHANGED <<config, registry, encoder, topic>>,
         config.resolution # "UseLatestVersion" => \A p \in parsed' : Names(p.key, text, p.text)
  PROVE  PipeInv'
<1>0. /\ UNCHANGED <<config, topic, keys, dropping, seen>> /\ slot' = slot /\ task' = task
      /\ text' = text /\ live' = live /\ soft' = soft
  BY DEF registry, encoder
<1>1. Subject' = Subject /\ FirstRequest' = FirstRequest /\ CachesSchema' = CachesSchema
  BY <1>0, ConfigStays
<1>2. TypeInv' /\ CacheInv'
  BY <1>0, <1>1 DEF PipeInv, TypeInv, CacheInv
<1>3. SlotInv' /\ WaitInv' /\ StaleInv' /\ AskInv'
  BY <1>0, <1>1 DEF PipeInv, SlotInv, WaitInv, StaleInv, AskInv
<1>4. OwnInv'
  BY <1>0, <1>1 DEF PipeInv, OwnInv
<1>5. QED
  BY <1>2, <1>3, <1>4 DEF PipeInv

LEMMA DecodeStep ==
  ASSUME PipeInv, NEW r \in topic, Decode(r)
  PROVE  PipeInv'
<1>1. /\ UNCHANGED <<config, registry, encoder, topic>>
      /\ parsed' = {[key |-> r.key, text |-> x] : x \in WriterSchema(r.key)}
  BY DEF Decode
<1>2. ASSUME config.resolution # "UseLatestVersion"
      PROVE  \A p \in parsed' : Names(p.key, text, p.text)
  <2>1. r.key \in SchemaKey /\ Names(r.key, text, Own)
    BY <1>2, GoodState DEF GoodRecord
  <2>2. \A x \in WriterSchema(r.key) : x = Own
    BY <1>2, <2>1, WriterIsOwn
  <2>3. QED
    BY <1>1, <2>1, <2>2
<1>3. QED
  BY <1>1, <1>2, DecoderStep

------------------------------------------------------------------------------
(***************************************************************************)
(* The invariant.                                                          *)
(***************************************************************************)
LEMMA PipeInvInit == Init => PipeInv
<1> SUFFICES ASSUME Init PROVE PipeInv
  OBVIOUS
<1>1. /\ config \in Config /\ text = <<>> /\ keys = <<>> /\ topic = {} /\ parsed = {}
      /\ live = [s \in Subject |-> <<>>] /\ soft = [s \in Subject |-> {}]
      /\ slot = [s \in Subject |-> None] /\ seen = [s \in Subject |-> None]
      /\ task = [t \in Task |-> Idle] /\ dropping = None
  BY DEF Init
<1>2. \A t \in Task : task[t] = Idle /\ t # None
  BY <1>1, ConfigAssumption
<1>3. GoodCall(Idle, ToSet(keys), dropping, text) /\ Idle.pc = "idle" /\ ~Idle.current
  BY IdleGood
<1>4. RegistryOK(Subject, text, live, soft)
  <2>1. ToSet(<<>>) = {}
    BY DEF ToSet
  <2>2. QED
    BY <1>1, <2>1 DEF RegistryOK
<1>5. TypeInv
  <2>1. task \in [Task -> Locals(Subject)] /\ \A t \in Task : LocalOK(task[t], Subject)
    BY <1>1, <1>2, <1>3, IdleGood DEF GoodCall
  <2>2. keys \in Seq(KeyEntry(Subject)) /\ slot \in [Subject -> Task \cup {None}]
    BY <1>1
  <2>3. seen \in [Subject -> SchemaKey \cup {None}]
    BY <1>1
  <2>4. QED
    BY <1>1, <1>4, <2>1, <2>2, <2>3 DEF TypeInv
<1>6. CacheInv
  BY <1>1, <1>2, <1>3, EmptyCache DEF CacheInv
<1>7. SlotInv /\ WaitInv
  BY <1>1, <1>2, <1>3 DEF SlotInv, WaitInv, Awaits
<1>8. StaleInv /\ AskInv
  BY <1>1, <1>2, <1>3, EmptyCache DEF StaleInv, AskInv, GoodCall
<1>9. OwnInv
  BY <1>1, <1>2, <1>3, EmptyCache DEF OwnInv, GoodCall
<1>10. QED
  BY <1>5, <1>6, <1>7, <1>8, <1>9 DEF PipeInv

LEMMA PipeInvStep == PipeInv /\ [Next]_vars => PipeInv'
<1> SUFFICES ASSUME PipeInv, [Next]_vars PROVE PipeInv'
  OBVIOUS
<1>1. ASSUME NEW t \in Task, NEW g \in Target, Encode(t, g) PROVE PipeInv'
  BY <1>1, EncodeStep
<1>2. ASSUME NEW t \in Task, Serve(t) PROVE PipeInv'
  BY <1>2, ServeStep
<1>3. ASSUME NEW t \in Task, Retry(t) \/ FetchGuid(t) PROVE PipeInv'
  BY <1>3, AgainStep
<1>4. ASSUME NEW t \in Task, GiveUp(t) \/ Refused(t) PROVE PipeInv'
  BY <1>4, FailsStep
<1>5. ASSUME NEW t \in Task, DropWaiter(t) PROVE PipeInv'
  BY <1>5, DropWaiterStep
<1>6. ASSUME NEW t \in Task, Claim(t) PROVE PipeInv'
  BY <1>6, ClaimStep
<1>7. ASSUME NEW t \in Task, Store(t) PROVE PipeInv'
  BY <1>7, StoreStep
<1>8. ASSUME NEW t \in Task, Frame(t) PROVE PipeInv'
  BY <1>8, FrameStep
<1>9. ASSUME NEW s \in Busy, (\E x \in Text : Evolve(s, x)) \/ SoftDelete(s) \/ PermanentDelete(s)
      PROVE  PipeInv'
  BY <1>9, RegistryStep
<1>10. ASSUME NEW s \in Busy, InvalidateSubject(s) PROVE PipeInv'
  BY <1>10, InvalidateStep DEF Busy
<1>11. CASE DropEntry
  BY <1>11, DropEntryStep
<1>12. CASE Restart
  BY <1>12, RestartStep
<1>13. ASSUME NEW r \in topic, Decode(r) PROVE PipeInv'
  BY <1>13, DecodeStep
<1>14. CASE ClearCache
  BY <1>14, DecoderStep DEF ClearCache
<1>15. CASE UNCHANGED vars
  <2>1. UNCHANGED <<config, registry, encoder, topic>> /\ parsed' = parsed
    BY <1>15 DEF vars
  <2>2. QED
    BY <2>1, DecoderStep DEF PipeInv, OwnInv
<1>16. QED
  BY <1>1, <1>2, <1>3, <1>4, <1>5, <1>6, <1>7, <1>8, <1>9, <1>10, <1>11, <1>12, <1>13, <1>14, <1>15
     DEF Next

\* In every reachable state of encoder, registry and decoder the key cache has
\* one entry per subject, the resolution in a slot is its leader's and not
\* stale, what outlived an invalidation is accounted for, and whoever does not
\* follow the latest version has only identifiers of its own schema.
THEOREM PipelineInvariant == Spec => []PipeInv
<1>1. PipeInv /\ [Next]_vars => PipeInv'
  BY PipeInvStep
<1>2. QED
  BY <1>1, PipeInvInit, PTL DEF Spec

\* Consumers decode what an AutoRegister or LookupOnly encoder wrote with that
\* encoder's own schema (WriterSchema: decode's cache or get_schema_by_key),
\* whatever is registered, deleted and recreated in between.
THEOREM RecordsDecodeAsWritten == Spec => []DecodesAsWritten
<1>1. PipeInv => DecodesAsWritten
  <2> SUFFICES ASSUME PipeInv, config.resolution # "UseLatestVersion", NEW r \in topic
               PROVE  /\ WriterSchema(r.key) \subseteq {Own}
                      /\ CachesSchema => WriterSchema(r.key) \subseteq {r.text}
    BY DEF DecodesAsWritten
  <2>1. r.key \in SchemaKey /\ Names(r.key, text, Own) /\ (CachesSchema => r.text = Own)
    BY GoodState DEF GoodRecord
  <2>2. QED
    BY <2>1, WriterIsOwn
<1>2. QED
  BY <1>1, PipelineInvariant, PTL

\* After invalidate_subject has returned, a call frames with an identifier
\* reported since, unless one claimed before was about to be stored.
THEOREM InvalidationPicksUpNewer == Spec => []PicksUpNewer
<1>1. PipeInv => PicksUpNewer
  BY DEF PipeInv, StaleInv, StaleCall, PicksUpNewer
<1>2. QED
  BY <1>1, PipelineInvariant, PTL

\* The records of a subject carry one identifier for as long as its entry in
\* the key cache is not dropped, though two calls may resolve it at once.
THEOREM SubjectsKeepOneKey == Spec => []OneKeyPerSubject
<1>1. PipeInv => OneKeyPerSubject
  <2> SUFFICES ASSUME PipeInv, NEW t \in Task, task[t].pc = "frame", task[t].current,
                      seen[task[t].subject] # None
               PROVE  seen[task[t].subject] = task[t].key
    BY DEF OneKeyPerSubject
  <2> DEFINE s == task[t].subject
  <2>1. s \in Subject /\ Holds(ToSet(keys), s, task[t].key)
    BY CallFacts DEF GoodCall, LocalOK
  <2>2. Holds(ToSet(keys), s, seen[s])
    BY <2>1, KeysFacts
  <2>3. QED
    BY <2>1, <2>2, KeysFacts DEF Holds
<1>2. QED
  BY <1>1, PipelineInvariant, PTL

\* The encoder's calls change the registry by registering the encoder's own
\* schema, and only in AutoRegister mode (resolve_schema_key).
THEOREM WritesOnlyWhenAsked == Spec => NeverWritesUnasked
<1> DEFINE Unasked ==
      \A t \in Task : task'[t] # task[t] /\ live' # live =>
        /\ config.resolution = "AutoRegister"
        /\ \A s \in Subject : live'[s] # live[s] =>
             live'[s] # <<>> /\ text'[Last(live'[s])] = Own
<1>1. ASSUME PipeInv, Next PROVE Unasked
  <2> SUFFICES ASSUME NEW u \in Task, task'[u] # task[u], live' # live
               PROVE  /\ config.resolution = "AutoRegister"
                      /\ \A s \in Subject : live'[s] # live[s] =>
                           live'[s] # <<>> /\ text'[Last(live'[s])] = Own
    OBVIOUS
  <2>1. PICK t \in Task : Serve(t)
    <3>1. ASSUME NEW t \in Task, NEW g \in Target, Encode(t, g) PROVE FALSE
      BY <3>1 DEF Encode, Lookup, registry
    <3>2. ASSUME NEW t \in Task, Retry(t) \/ FetchGuid(t) \/ GiveUp(t) \/ Refused(t)
                                 \/ DropWaiter(t) \/ Claim(t)
          PROVE  FALSE
      BY <3>2 DEF Retry, FetchGuid, GiveUp, Refused, DropWaiter, Claim, registry
    <3>3. ASSUME NEW t \in Task, Store(t) \/ Frame(t) PROVE FALSE
      BY <3>3 DEF Store, Frame, registry
    <3>4. ASSUME NEW s \in Busy,
                 (\E x \in Text : Evolve(s, x)) \/ SoftDelete(s) \/ PermanentDelete(s)
          PROVE  FALSE
      BY <3>4 DEF Evolve, SoftDelete, PermanentDelete, encoder
    <3>5. ASSUME NEW s \in Busy, InvalidateSubject(s) PROVE FALSE
      BY <3>5 DEF InvalidateSubject, registry
    <3>6. ~DropEntry /\ ~Restart /\ ~ClearCache
      BY DEF DropEntry, Restart, ClearCache, registry
    <3>7. ASSUME NEW r \in topic, Decode(r) PROVE FALSE
      BY <3>7 DEF Decode, registry
    <3>8. QED
      BY <1>1, <3>1, <3>2, <3>3, <3>4, <3>5, <3>6, <3>7 DEF Next
  <2>2. task[t].pc = "request" /\ task[t].ask.op = "register" /\ StoreVersion(task[t].ask.subject, Own)
    BY <2>1 DEF Serve, registry
  <2>3. config.resolution = "AutoRegister"
    BY <1>1, <2>2, Requests DEF PipeInv, AskInv
  <2>4. task[t].ask.subject \in Subject
    BY <1>1, <2>2, CallFacts DEF LocalOK, Ask
  <2>5. ASSUME NEW s \in Subject, live'[s] # live[s]
        PROVE  live'[s] # <<>> /\ text'[Last(live'[s])] = Own
    <3> DEFINE n == AssignedId(Own)
    <3>1. /\ live'[s] = Append(live[s], n) /\ live[s] \in Seq(Nat)
          /\ n \in Nat /\ text'[n] = Own
      BY <1>1, <2>2, <2>4, <2>5, VersionStored, ConfigAssumption
    <3> HIDE DEF n
    <3>2. live'[s] # <<>> /\ Last(live'[s]) = n
      BY <3>1 DEF Last
    <3>3. QED
      BY <3>1, <3>2
  <2>6. QED
    BY <2>3, <2>5
<1>2. ASSUME PipeInv, [Next]_vars PROVE [Unasked]_vars
  BY <1>1, <1>2
<1>3. QED
  BY <1>2, PipelineInvariant, PTL DEF Spec, NeverWritesUnasked

==============================================================================
