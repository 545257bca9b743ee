---------------------------- MODULE ApicurioProofs ----------------------------
(***************************************************************************)
(* What the Apicurio client's calls report, for any registry, any clients, *)
(* any retries and any number of calls.                                    *)
(***************************************************************************)
EXTENDS Apicurio, FiniteSetTheorems, SequenceTheorems, TLAPS

------------------------------------------------------------------------------
(***************************************************************************)
(* The shape of a call and of its history, and which operation sends which *)
(* request.                                                                *)
(***************************************************************************)
CallShape(k) ==
  k = [pc |-> k.pc, args |-> k.args, target |-> k.target, meta |-> k.meta,
       out |-> k.out, offset |-> k.offset, tries |-> k.tries, result |-> k.result]
WatchShape(w) ==
  w = [steady |-> w.steady, shrunk |-> w.shrunk, grown |-> w.grown, began |-> w.began,
       levels |-> w.levels, meddled |-> w.meddled]

Request == {"meta", "content", "by_id", "create", "search", "page", "delete",
            "delete_version", "put", "post", "get_rule"}

\* The operations that send a request.
Senders(request) ==
  CASE request \in {"meta", "content"} -> {"version"}
    [] request = "by_id" -> {"by_id"}
    [] request = "create" -> {"register"}
    [] request = "search" -> {"lookup"}
    [] request = "page" -> {"subjects", "versions", "delete_subject"}
    [] request = "delete" -> {"delete_subject"}
    [] request = "delete_version" -> {"delete_version"}
    [] request \in {"put", "post"} -> {"set_rule"}
    [] request = "get_rule" -> {"get_rule"}

CallOK(k) ==
  /\ CallShape(k) /\ k.tries \in Nat
  /\ k.pc \in Request \cup {"idle", "done"}
  /\ k.pc # "idle" => k.args \in Call
  /\ k.pc \in Request => /\ k.target = Target(k.args) /\ k.target # None
                         /\ k.args.op \in Senders(k.pc)

WatchOK(w) ==
  WatchShape(w) /\ w.shrunk \in BOOLEAN /\ w.grown \in BOOLEAN /\ w.meddled \in BOOLEAN

------------------------------------------------------------------------------
(***************************************************************************)
(* What a call k with history w knows of the registry s.                   *)
(***************************************************************************)
\* Between metadata and content: the version named is still there, and still
\* the newest if it was asked for as the latest, or the history says why not.
Newest(s, a, v) == \A u \in ToSet(s.versions[a]) : u.number <= v.number
StillNamed(k, w, s) ==
  \/ w.shrunk
  \/ /\ k.meta \in ToSet(s.versions[k.target])
     /\ IF k.args.arg < 0 THEN w.grown \/ Newest(s, k.target, k.meta)
        ELSE k.meta.number = k.args.arg
MetaOK(k, w, s) ==
  k.pc = "content" => k.meta.gid \in DOMAIN s.texts /\ StillNamed(k, w, s)

\* A schema returned.
SchemaOK(k, w, s) ==
  k.pc = "done" /\ k.result.kind = "schema" =>
    /\ k.result.gid \in DOMAIN s.texts
    /\ \/ s.texts[k.result.gid] = k.result.text
       \/ k.args.op = "version" /\ w.shrunk
       \/ k.args.op = "version" /\ k.args.arg < 0 /\ w.grown

\* The versions a deletion found are nowhere else, and at its end nowhere.
DeleteOK(k, w, s) ==
  k.args.op = "delete_subject" =>
    /\ k.pc \in Request =>
         /\ w.began \subseteq DOMAIN s.texts
         /\ \A a \in Artifacts : a # k.target => w.began \cap Gids(s, a) = {}
    /\ k.pc = "done" /\ k.result.kind = "ok" =>
         /\ w.began \subseteq DOMAIN s.texts
         /\ \A a \in Artifacts : w.began \cap Gids(s, a) = {}

\* There was no rule when the PUT was answered, and nobody has made one since.
RuleOK(k, w, s) ==
  k.args.op = "set_rule" =>
    /\ k.pc = "post" /\ k.tries = 0 => w.meddled \/ s.rules[k.target] = None
    /\ k.pc = "done" /\ k.result.kind = "ok" => k.args.arg \in w.levels
    /\ k.pc = "done" /\ k.result.kind = "conflict" => w.meddled \/ k.tries > 0

Knows(k, w, s) ==
  k.pc # "idle" =>
    MetaOK(k, w, s) /\ SchemaOK(k, w, s) /\ DeleteOK(k, w, s) /\ RuleOK(k, w, s)

ApicurioInv ==
  /\ WellFormed(server)
  /\ call = [c \in Client |-> call[c]] /\ watch = [c \in Client |-> watch[c]]
  /\ \A c \in Client : CallOK(call[c]) /\ WatchOK(watch[c]) /\ Knows(call[c], watch[c], server)

------------------------------------------------------------------------------
(***************************************************************************)
(* The registry: texts stay under their global IDs, and a version that is  *)
(* new has a new one.                                                      *)
(***************************************************************************)
Held == [versions : [Artifacts -> Seq(Version)],
         rules : [Scopes -> Level \cup {None}], texts : Seq(Text), counts : BOOLEAN]
Ascending(q) == \A i, j \in DOMAIN q : i < j => q[i].number < q[j].number
Grows(x, y) == DOMAIN x \subseteq DOMAIN y /\ \A n \in DOMAIN x : y[n] = x[n]

Evolves(s, t) ==
  /\ WellFormed(t) /\ Grows(s.texts, t.texts)
  /\ \A a \in Artifacts : Gids(t, a) \cap DOMAIN s.texts \subseteq Gids(s, a)

LEMMA RegistryFacts ==
  ASSUME NEW s, WellFormed(s)
  PROVE  /\ s \in Held /\ s.versions \in [Artifacts -> Seq(Version)]
         /\ s.rules \in [Scopes -> Level \cup {None}] /\ s.texts \in Seq(Text)
         /\ \A a \in Artifacts : /\ s.versions[a] \in Seq(Version) /\ Ascending(s.versions[a])
                                 /\ Gids(s, a) \subseteq DOMAIN s.texts
                                 /\ s.versions[a] = <<>> => s.rules[a] = None
         /\ \A a, b \in Artifacts : b # a => Gids(s, a) \cap Gids(s, b) = {}
         /\ Evolves(s, s)
<1>1. s \in Held
  BY DEF WellFormed, Held
<1>2. /\ s.versions \in [Artifacts -> Seq(Version)]
      /\ s.rules \in [Scopes -> Level \cup {None}] /\ s.texts \in Seq(Text)
  BY <1>1 DEF Held
<1>3. \A a \in Artifacts : s.versions[a] = <<>> => s.rules[a] = None
  BY CallAssumption DEF WellFormed, Exists
<1>4. \A a \in Artifacts : Ascending(s.versions[a]) /\ Gids(s, a) \subseteq DOMAIN s.texts
  BY DEF WellFormed, Ascending
<1>5. \A a, b \in Artifacts : b # a => Gids(s, a) \cap Gids(s, b) = {}
  BY DEF WellFormed
<1>6. Evolves(s, s)
  BY DEF Evolves, Grows
<1>7. QED
  BY <1>1, <1>2, <1>3, <1>4, <1>5, <1>6

\* A step that changes artifact a.
LEMMA ArtifactEvolves ==
  ASSUME NEW s, WellFormed(s), NEW t \in Held, NEW a \in Artifacts,
         \A b \in Artifacts : b # a => /\ t.versions[b] = s.versions[b]
                                       /\ t.rules[b] = s.rules[b],
         Grows(s.texts, t.texts), Ascending(t.versions[a]),
         Gids(t, a) \subseteq DOMAIN t.texts,
         Gids(t, a) \cap DOMAIN s.texts \subseteq Gids(s, a),
         t.versions[a] = <<>> => t.rules[a] = None
  PROVE  Evolves(s, t)
<1>1. \A b \in Artifacts : b # a => Gids(t, b) = Gids(s, b)
  BY DEF Gids
<1>2. \A b \in Artifacts : Gids(t, b) \cap DOMAIN s.texts \subseteq Gids(s, b)
  BY <1>1
<1>3. \A b \in Artifacts : Gids(t, b) \subseteq DOMAIN t.texts
  BY <1>1, RegistryFacts DEF Grows
<1>4. \A b, c \in Artifacts : b # c => Gids(t, b) \cap Gids(t, c) = {}
  <2> SUFFICES ASSUME NEW b \in Artifacts, NEW c \in Artifacts, b # c,
                      NEW g \in Gids(t, b) \cap Gids(t, c)
               PROVE  FALSE
    OBVIOUS
  <2>1. g \in DOMAIN s.texts
    BY <1>1, RegistryFacts
  <2>2. QED
    BY <1>2, <2>1, RegistryFacts
<1>5. \A b \in Artifacts : Ascending(t.versions[b])
  BY RegistryFacts
<1>6. \A b \in Artifacts : t.versions[b] = <<>> => t.rules[b] = None
  BY RegistryFacts
<1>7. WellFormed(t)
  BY <1>3, <1>4, <1>5, <1>6 DEF WellFormed, Held, Ascending, Exists
<1>8. QED
  BY <1>2, <1>7 DEF Evolves

\* A step that sets the rule of scope a, whose artifact is there.
SetsRule(s, t, a, level) == Evolves(s, t) /\ t.rules[a] = level

LEMMA RuleEvolves ==
  ASSUME NEW s, NEW a, NEW level, NEW t, WellFormed(s), a \in Scopes, Exists(s, a),
         level \in Level, t = [s EXCEPT !.rules[a] = level]
  PROVE  SetsRule(s, t, a, level)
<1>1. s \in Held /\ s.rules \in [Scopes -> Level \cup {None}]
  BY RegistryFacts
<1>2. /\ t \in Held /\ t.versions = s.versions /\ t.texts = s.texts
      /\ t.rules = [s.rules EXCEPT ![a] = level]
  BY <1>1 DEF Held
<1>3. \A b \in Artifacts : Gids(t, b) = Gids(s, b)
  BY <1>2 DEF Gids
<1>4. \A b \in Artifacts : t.versions[b] = <<>> => t.rules[b] = None
  <2> SUFFICES ASSUME NEW b \in Artifacts, t.versions[b] = <<>> PROVE t.rules[b] = None
    OBVIOUS
  <2>1. b # a /\ s.rules[b] = None /\ b \in Scopes
    BY <1>2, CallAssumption, RegistryFacts DEF Exists, Scopes
  <2>2. QED
    BY <1>1, <1>2, <2>1
<1>5. WellFormed(t)
  BY <1>2, <1>3, <1>4, RegistryFacts DEF WellFormed, Held, Ascending, Exists
<1>6. QED
  BY <1>1, <1>2, <1>3, <1>5 DEF Evolves, Grows, SetsRule

LEMMA DeleteArtifactEvolves ==
  ASSUME NEW s, WellFormed(s), NEW a \in Artifacts, s.versions[a] # <<>>
  PROVE  /\ DeleteArtifact(s, a).status = 204
         /\ Evolves(s, DeleteArtifact(s, a).server) /\ Gids(DeleteArtifact(s, a).server, a) = {}
<1>1. Exists(s, a) /\ a \in Scopes /\ a # Global
  BY CallAssumption DEF Exists, Scopes
<1> DEFINE t == [s EXCEPT !.versions[a] = <<>>, !.rules[a] = None]
<1>2. DeleteArtifact(s, a).server = t /\ DeleteArtifact(s, a).status = 204
  BY <1>1 DEF DeleteArtifact, Reply
<1>3. /\ s \in Held /\ s.versions \in [Artifacts -> Seq(Version)]
      /\ s.rules \in [Scopes -> Level \cup {None}]
  BY RegistryFacts
<1>4. /\ t \in Held /\ t.texts = s.texts
      /\ t.versions = [s.versions EXCEPT ![a] = <<>>] /\ t.rules = [s.rules EXCEPT ![a] = None]
  <2> DEFINE vs == [s.versions EXCEPT ![a] = <<>>]
             rs == [s.rules EXCEPT ![a] = None]
  <2>0. <<>> \in Seq(Version) /\ None \in Level \cup {None}
    OBVIOUS
  <2>1. vs \in [Artifacts -> Seq(Version)]
    BY <1>3, <2>0
  <2>s. rs \in [Scopes -> Level \cup {None}]
    BY <1>1, <1>3, <2>0
  <2>2. t = [s EXCEPT !.versions = vs, !.rules = rs]
    BY <1>3 DEF Held
  <2> HIDE DEF t, vs, rs
  <2>3. t \in Held /\ t.texts = s.texts /\ t.versions = vs /\ t.rules = rs
    BY <1>3, <2>1, <2>s, <2>2 DEF Held
  <2>4. QED
    BY <2>3 DEF vs, rs
<1> HIDE DEF t
<1>5. /\ t.versions[a] = <<>> /\ t.rules[a] = None
      /\ \A b \in Artifacts : b # a => t.versions[b] = s.versions[b] /\ t.rules[b] = s.rules[b]
  BY <1>1, <1>3, <1>4 DEF Scopes
<1>6. Gids(t, a) = {}
  BY <1>5 DEF Gids, ToSet
<1>7. Evolves(s, t)
  <2>1. Grows(s.texts, t.texts)
    BY <1>4 DEF Grows
  <2>2. Ascending(t.versions[a])
    BY <1>5 DEF Ascending
  <2>3. /\ t \in Held /\ Gids(t, a) \subseteq DOMAIN t.texts
        /\ Gids(t, a) \cap DOMAIN s.texts \subseteq Gids(s, a)
    BY <1>4, <1>6
  <2>4. QED
    BY <1>5, <2>1, <2>2, <2>3, ArtifactEvolves
<1>8. QED
  BY <1>2, <1>6, <1>7

\* What is left of a sequence without its i-th element.
LEMMA RemoveIs ==
  ASSUME NEW S, NEW q \in Seq(S), NEW i \in DOMAIN q
  PROVE  /\ RemoveAt(q, i) \in Seq(S) /\ DOMAIN RemoveAt(q, i) = 1..(Len(q) - 1)
         /\ \A j \in 1..(Len(q) - 1) :
              RemoveAt(q, i)[j] = IF j < i THEN q[j] ELSE q[j + 1]
<1> DEFINE n == Len(q)
           r == RemoveAt(q, i)
           a == SubSeq(q, 1, i - 1)
           b == SubSeq(q, i + 1, n)
<1>1. n \in Nat /\ i \in 1..n
  OBVIOUS
<1>2. a \in Seq(S) /\ Len(a) = i - 1 /\ \A j \in 1..(i - 1) : a[j] = q[j]
  BY <1>1
<1>3. b \in Seq(S) /\ Len(b) = n - i /\ \A j \in 1..(n - i) : b[j] = q[j + i]
  BY <1>1
<1>4. r = a \o b
  BY DEF RemoveAt
<1> HIDE DEF a, b, r
<1>5. /\ r \in Seq(S) /\ Len(r) = Len(a) + Len(b)
      /\ \A j \in 1..(Len(a) + Len(b)) : r[j] = IF j <= Len(a) THEN a[j] ELSE b[j - Len(a)]
  <2>1. a \in Seq(S) /\ b \in Seq(S)
    BY <1>2, <1>3
  <2>2. QED
    BY <1>4, <2>1, ConcatProperties, Zenon
<1> HIDE DEF n
<1>6. r \in Seq(S) /\ DOMAIN r = 1..(n - 1)
  BY <1>1, <1>2, <1>3, <1>5
<1>7. ASSUME NEW j \in 1..(n - 1) PROVE r[j] = IF j < i THEN q[j] ELSE q[j + 1]
  <2>0. j \in 1..(Len(a) + Len(b))
    BY <1>1, <1>2, <1>3
  <2>1. r[j] = IF j <= Len(a) THEN a[j] ELSE b[j - Len(a)]
    BY <1>5, <2>0
  <2>2. CASE j < i
    <3>1. j \in 1..(i - 1) /\ j <= Len(a)
      BY <1>1, <1>2, <2>2
    <3>2. QED
      BY <1>2, <2>1, <2>2, <3>1
  <2>3. CASE ~(j < i)
    <3>1. j - Len(a) \in 1..(n - i) /\ ~(j <= Len(a)) /\ (j - Len(a)) + i = j + 1
      BY <1>1, <1>2, <2>3
    <3>2. QED
      BY <1>3, <2>1, <2>3, <3>1
  <2>4. QED
    BY <2>2, <2>3
<1>8. QED
  BY <1>6, <1>7 DEF r, n

LEMMA DeleteOneEvolves ==
  ASSUME NEW s, WellFormed(s), NEW a \in Artifacts, NEW e
  PROVE  Evolves(s, DeleteOne(s, a, e).server)
<1>0. s.versions[a] \in Seq(Version)
  BY RegistryFacts
<1>1. CASE Named(s, a, e) = {}
  BY <1>1, RegistryFacts DEF DeleteOne, NotFound, Reply
<1>2. CASE Named(s, a, e) # {} /\ Len(s.versions[a]) = 1
  <2>1. s.versions[a] # <<>>
    <3>1. Len(<<>>) = 0
      OBVIOUS
    <3>2. QED
      BY <1>2, <3>1
  <2>2. QED
    BY <1>2, <2>1, DeleteArtifactEvolves DEF DeleteOne
<1>3. CASE Named(s, a, e) # {} /\ Len(s.versions[a]) # 1
  <2> DEFINE q == s.versions[a]
             n == Len(q)
  <2>1. PICK i \in DOMAIN q : i = CHOOSE j \in DOMAIN q : q[j] \in Named(s, a, e)
    <3>1. PICK v \in Named(s, a, e) : TRUE
      BY <1>3
    <3>2. \E j \in DOMAIN q : q[j] \in Named(s, a, e)
      BY <3>1 DEF Named, ToSet
    <3>3. QED
      BY <3>2
  <2> DEFINE r == RemoveAt(q, i)
             t == [s EXCEPT !.versions[a] = r]
  <2>2. DeleteOne(s, a, e).server = t
    BY <1>3, <2>1 DEF DeleteOne, Reply
  <2>3. /\ r \in Seq(Version) /\ DOMAIN r = 1..(n - 1)
        /\ \A j \in 1..(n - 1) : r[j] = IF j < i THEN q[j] ELSE q[j + 1]
    BY <1>0, <2>1, RemoveIs
  <2>4. n \in Nat /\ DOMAIN q = 1..n /\ i \in 1..n /\ n # 1
    BY <1>0, <1>3, <2>1
  <2> HIDE DEF r
  <2>5. s \in Held /\ s.versions \in [Artifacts -> Seq(Version)]
    BY RegistryFacts
  <2>6. /\ t \in Held /\ t.texts = s.texts /\ t.rules = s.rules
        /\ t.versions = [s.versions EXCEPT ![a] = r]
    BY <2>3, <2>5 DEF Held
  <2> HIDE DEF t
  <2>7. t.versions[a] = r /\ \A b \in Artifacts : b # a => t.versions[b] = s.versions[b]
    BY <2>5, <2>6
  <2> HIDE DEF n
  <2>8. \A j \in DOMAIN r : \E m \in DOMAIN q : r[j] = q[m] /\ m = IF j < i THEN j ELSE j + 1
    <3> SUFFICES ASSUME NEW j \in DOMAIN r
                 PROVE  \E m \in DOMAIN q : r[j] = q[m] /\ m = IF j < i THEN j ELSE j + 1
      OBVIOUS
    <3>1. CASE j < i
      BY <2>3, <2>4, <3>1
    <3>2. CASE ~(j < i)
      <4>1. j + 1 \in DOMAIN q /\ r[j] = q[j + 1]
        BY <2>3, <2>4, <3>2
      <4>2. QED
        BY <3>2, <4>1
    <3>3. QED
      BY <3>1, <3>2
  <2>9. Ascending(r)
    <3> SUFFICES ASSUME NEW j \in DOMAIN r, NEW l \in DOMAIN r, j < l
                 PROVE  r[j].number < r[l].number
      BY DEF Ascending
    <3>1. PICK x \in DOMAIN q : r[j] = q[x] /\ x = IF j < i THEN j ELSE j + 1
      BY <2>8
    <3>2. PICK y \in DOMAIN q : r[l] = q[y] /\ y = IF l < i THEN l ELSE l + 1
      BY <2>8
    <3>3. x < y
      BY <2>3, <2>4, <3>1, <3>2
    <3>4. Ascending(q)
      BY RegistryFacts
    <3>5. QED
      BY <3>1, <3>2, <3>3, <3>4 DEF Ascending
  <2>10. Gids(t, a) \subseteq Gids(s, a)
    BY <2>7, <2>8 DEF Gids, ToSet
  <2>11. r # <<>>
    BY <2>3, <2>4
  <2>12. Evolves(s, t)
    <3>1. Grows(s.texts, t.texts) /\ Gids(t, a) \subseteq DOMAIN t.texts
      BY <2>6, <2>10, RegistryFacts DEF Grows
    <3>2. QED
      BY <2>6, <2>7, <2>9, <2>10, <2>11, <3>1, ArtifactEvolves
  <2>13. QED
    BY <2>2, <2>12
<1>4. QED
  BY <1>1, <1>2, <1>3

\* Registering answers with a version that holds the text.
LEMMA FindOrCreateEvolves ==
  ASSUME NEW s, WellFormed(s), NEW a \in Artifacts, NEW x \in Text
  PROVE  LET r == FindOrCreate(s, a, x) IN
         /\ Evolves(s, r.server) /\ r.status = 200
         /\ r.body.gid \in DOMAIN r.server.texts /\ r.server.texts[r.body.gid] = x
<1> DEFINE old == s.versions[a]
           r == FindOrCreate(s, a, x)
<1>0. /\ old \in Seq(Version) /\ s \in Held /\ s.versions \in [Artifacts -> Seq(Version)]
      /\ s.texts \in Seq(Text) /\ Len(s.texts) \in Nat /\ DOMAIN s.texts = 1..Len(s.texts)
  BY RegistryFacts
<1>1. CASE Holding(s, a, x) # {}
  <2>1. PICK v \in Holding(s, a, x) : v = CHOOSE u \in Holding(s, a, x) : TRUE
    BY <1>1
  <2>2. r = Reply(s, 200, v)
    BY <1>1, <2>1 DEF FindOrCreate
  <2>3. v.gid \in Gids(s, a) /\ s.texts[v.gid] = x
    BY DEF Holding, Gids, TextOf
  <2>4. QED
    BY <2>2, <2>3, RegistryFacts DEF Reply
<1>2. CASE Holding(s, a, x) = {}
  <2>1. PICK m \in Nat : /\ m = IF old = <<>> THEN 1 ELSE Last(old).number + 1
                         /\ old # <<>> => m > Last(old).number
    <3>1. old # <<>> => Last(old) \in Version
      BY <1>0 DEF Last
    <3>2. old # <<>> => Last(old).number \in Nat
      BY <3>1 DEF Version
    <3>3. QED
      BY <3>2
  <2> DEFINE g == Len(s.texts) + 1
             new == [number |-> m, gid |-> g, numeric |-> TRUE]
             t == [s EXCEPT !.versions[a] = Append(old, new), !.texts = Append(s.texts, x)]
  <2>2. r = Reply(t, 200, new)
    BY <1>2, <2>1 DEF FindOrCreate
  <2>3. new \in Version /\ Append(old, new) \in Seq(Version) /\ Append(s.texts, x) \in Seq(Text)
    BY <1>0, <2>1 DEF Version
  <2>4. /\ t \in Held /\ t.texts = Append(s.texts, x) /\ t.rules = s.rules
        /\ t.versions = [s.versions EXCEPT ![a] = Append(old, new)]
    BY <1>0, <2>3 DEF Held
  <2>n. new.gid = g /\ new.number = m
    OBVIOUS
  <2> HIDE DEF t, new
  <2>5. /\ t.versions[a] = Append(old, new)
        /\ \A b \in Artifacts : b # a => t.versions[b] = s.versions[b]
    BY <1>0, <2>4
  <2>6. Grows(s.texts, t.texts) /\ g \in DOMAIN t.texts /\ t.texts[g] = x /\ g \notin DOMAIN s.texts
    BY <1>0, <2>4 DEF Grows
  <2>7. Gids(t, a) \subseteq Gids(s, a) \cup {g}
    <3> SUFFICES ASSUME NEW i \in DOMAIN Append(old, new)
                 PROVE  Append(old, new)[i].gid \in Gids(s, a) \cup {g}
      BY <2>5 DEF Gids, ToSet
    <3>1. CASE i = Len(old) + 1
      BY <1>0, <2>3, <2>n, <3>1
    <3>2. CASE i \in DOMAIN old
      <4>1. Append(old, new)[i] = old[i]
        BY <1>0, <2>3, <3>2
      <4>2. QED
        BY <3>2, <4>1 DEF Gids, ToSet
    <3>3. QED
      BY <1>0, <2>3, <3>1, <3>2
  <2>8. Ascending(Append(old, new))
    <3> SUFFICES ASSUME NEW i \in DOMAIN Append(old, new), NEW j \in DOMAIN Append(old, new), i < j
                 PROVE  Append(old, new)[i].number < Append(old, new)[j].number
      BY DEF Ascending
    <3>0. Ascending(old) /\ \A l \in DOMAIN old : old[l] \in Version
      BY <1>0, RegistryFacts
    <3>1. i \in DOMAIN old /\ Append(old, new)[i] = old[i] /\ Len(old) \in Nat /\ DOMAIN old = 1..Len(old)
      BY <1>0, <2>3
    <3>2. CASE j \in DOMAIN old
      <4>1. Append(old, new)[j] = old[j]
        BY <1>0, <2>3, <3>2
      <4>2. QED
        BY <3>0, <3>1, <3>2, <4>1 DEF Ascending
    <3>3. CASE j = Len(old) + 1
      <4>1. Append(old, new)[j] = new
        BY <1>0, <2>3, <3>3
      <4>2. Last(old) = old[Len(old)] /\ old # <<>> /\ Len(old) \in DOMAIN old
        BY <1>0, <3>1 DEF Last
      <4>3. i = Len(old) \/ old[i].number < old[Len(old)].number
        BY <3>0, <3>1, <4>2 DEF Ascending
      <4>4. old[i].number \in Nat /\ old[Len(old)].number \in Nat
        BY <3>0, <3>1, <4>2 DEF Version
      <4>5. QED
        BY <2>1, <2>n, <3>1, <4>1, <4>2, <4>3, <4>4
    <3>4. j \in 1..(Len(old) + 1)
      BY <1>0, <2>3
    <3>5. QED
      BY <3>1, <3>2, <3>3, <3>4
  <2>9. Evolves(s, t)
    <3>1. t.versions[a] # <<>>
      BY <1>0, <2>3, <2>5
    <3>2. Gids(t, a) \subseteq DOMAIN t.texts /\ Gids(t, a) \cap DOMAIN s.texts \subseteq Gids(s, a)
      BY <2>6, <2>7, RegistryFacts DEF Grows
    <3>3. /\ t \in Held /\ Ascending(t.versions[a])
          /\ \A b \in Artifacts : b # a => t.versions[b] = s.versions[b] /\ t.rules[b] = s.rules[b]
      BY <2>4, <2>5, <2>8
    <3>4. QED
      BY <2>6, <3>1, <3>2, <3>3, ArtifactEvolves
  <2>10. QED
    BY <2>2, <2>6, <2>9, <2>n DEF Reply
<1>3. QED
  BY <1>1, <1>2

LEMMA SendersAre ==
  /\ Senders("meta") = {"version"} /\ Senders("content") = {"version"}
  /\ Senders("by_id") = {"by_id"} /\ Senders("create") = {"register"}
  /\ Senders("search") = {"lookup"} /\ Senders("page") = {"subjects", "versions", "delete_subject"}
  /\ Senders("delete") = {"delete_subject"} /\ Senders("delete_version") = {"delete_version"}
  /\ Senders("put") = {"set_rule"} /\ Senders("post") = {"set_rule"}
  /\ Senders("get_rule") = {"get_rule"}
<1>1. Senders("meta") = {"version"} /\ Senders("content") = {"version"}
  BY DEF Senders
<1>2. Senders("by_id") = {"by_id"} /\ Senders("create") = {"register"}
  BY DEF Senders
<1>3. Senders("search") = {"lookup"} /\ Senders("page") = {"subjects", "versions", "delete_subject"}
  BY DEF Senders
<1>4. Senders("delete") = {"delete_subject"} /\ Senders("delete_version") = {"delete_version"}
  BY DEF Senders
<1>5. Senders("put") = {"set_rule"} /\ Senders("post") = {"set_rule"}
  BY DEF Senders
<1>6. Senders("get_rule") = {"get_rule"}
  BY DEF Senders
<1>7. QED
  BY <1>1, <1>2, <1>3, <1>4, <1>5, <1>6

LEMMA TargetFacts ==
  ASSUME NEW k, CallOK(k), k.pc \in Request
  PROVE  /\ k.target \in Scopes
         /\ k.pc \in {"meta", "content", "create", "search", "delete", "delete_version"} =>
              k.target \in Artifacts
         /\ k.args.op = "delete_subject" => k.target \in Artifacts
         /\ k.pc \in {"create", "search"} => k.args.arg \in Text
         /\ k.pc \in {"meta", "content", "delete_version"} => k.args.arg \in Int
         /\ k.pc \in {"put", "post"} => k.args.arg \in Level
<1>1. k.args \in Call /\ k.target = Target(k.args) /\ k.target # None /\ k.args.op \in Senders(k.pc)
  BY DEF CallOK, Request
<1>2. k.target \in Scopes
  BY <1>1, CallAssumption
<1>3. k.args.op \notin {"set_rule", "get_rule", "by_id", "subjects"} => k.target \in Artifacts
  BY <1>1, <1>2, CallAssumption DEF Scopes
<1>4. /\ k.pc \in {"meta", "content"} => k.args.op = "version"
      /\ k.pc = "create" => k.args.op = "register"
      /\ k.pc = "search" => k.args.op = "lookup"
  BY <1>1, SendersAre
<1>5. /\ k.pc = "delete" => k.args.op = "delete_subject"
      /\ k.pc = "delete_version" => k.args.op = "delete_version"
      /\ k.pc \in {"put", "post"} => k.args.op = "set_rule"
  BY <1>1, SendersAre
<1>6. QED
  BY <1>1, <1>2, <1>3, <1>4, <1>5, CallAssumption

\* The requests that change nothing.
LEMMA ReadsChangeNothing ==
  ASSUME NEW s, NEW k, k.pc \in {"meta", "content", "by_id", "search", "page", "get_rule"}
  PROVE  Answer(s, k).server = s
<1>1. \A a, e : GetVersion(s, a, e).server = s /\ Search(s, a, e).server = s
  BY DEF GetVersion, Search, NotFound, Reply
<1>2. \A i : GetById(s, i).server = s /\ GetRule(s, i).server = s
  BY DEF GetById, GetRule, NotFound, Reply
<1>3. \A a, i, j : Page(s, a, i, j).server = s
  BY DEF Page, NotFound, Reply
<1>4. QED
  BY <1>1, <1>2, <1>3 DEF Answer, ContentRequest

LEMMA AnswerEvolves ==
  ASSUME NEW s, WellFormed(s), NEW k, CallOK(k), k.pc \in Request
  PROVE  Evolves(s, Answer(s, k).server)
<1> DEFINE a == k.target
<1>0. a \in Scopes /\ Evolves(s, s)
  BY TargetFacts, RegistryFacts
<1>1. CASE k.pc \in {"meta", "content", "by_id", "search", "page", "get_rule"}
  BY <1>0, <1>1, ReadsChangeNothing
<1>2. CASE k.pc = "create"
  <2>1. a \in Artifacts /\ k.args.arg \in Text
    BY <1>2, TargetFacts
  <2>2. Answer(s, k) = FindOrCreate(s, a, k.args.arg)
    BY <1>2 DEF Answer
  <2>3. QED
    BY <2>1, <2>2, FindOrCreateEvolves
<1>3. CASE k.pc = "delete"
  <2>1. a \in Artifacts /\ Answer(s, k) = DeleteArtifact(s, a)
    BY <1>3, TargetFacts DEF Answer
  <2>2. CASE s.versions[a] # <<>>
    BY <2>1, <2>2, DeleteArtifactEvolves
  <2>3. CASE s.versions[a] = <<>>
    <3>1. ~Exists(s, a)
      BY <2>1, <2>3, CallAssumption DEF Exists
    <3>2. QED
      BY <1>0, <2>1, <3>1 DEF DeleteArtifact, NotFound, Reply
  <2>4. QED
    BY <2>2, <2>3
<1>4. CASE k.pc = "delete_version"
  <2>1. a \in Artifacts
    BY <1>4, TargetFacts
  <2>2. Answer(s, k) = DeleteOne(s, a, VersionExpression(k.args.arg))
    BY <1>4 DEF Answer
  <2>3. QED
    BY <2>1, <2>2, DeleteOneEvolves
<1>5. CASE k.pc \in {"put", "post"}
  <2>1. k.args.arg \in Level
    BY <1>5, TargetFacts
  <2>2. Answer(s, k).server = s
        \/ (Exists(s, a) /\ Answer(s, k).server = [s EXCEPT !.rules[a] = k.args.arg])
    BY <1>5 DEF Answer, PutRule, PostRule, NotFound, Reply
  <2>3. QED
    BY <1>0, <2>1, <2>2, RuleEvolves DEF SetsRule
<1>6. QED
  BY <1>1, <1>2, <1>3, <1>4, <1>5 DEF Request

------------------------------------------------------------------------------
(***************************************************************************)
(* History.                                                                *)
(***************************************************************************)
\* The history of call k, of client d, when c takes the registry from s to t.
WatchAfter(k, w, s, t, d, c) ==
  [w EXCEPT
     !.steady = IF k.pc \in Reading THEN @ \cap Entries(t, k.target) ELSE @,
     !.shrunk = @ \/ (k.pc \in Reading /\ ~(Entries(s, k.target) \subseteq Entries(t, k.target))),
     !.grown  = @ \/ (k.pc \in Reading /\ ~(Entries(t, k.target) \subseteq Entries(s, k.target))),
     !.levels = @ \cup {t.rules[k.target]},
     !.meddled = @ \/ (d # c /\ t.rules[k.target] # s.rules[k.target])]

\* The same, field by field.
IsWatched(v, k, w, s, t, d, c) ==
  LET old == Entries(s, k.target)
      new == Entries(t, k.target)
  IN
  /\ WatchOK(v) /\ v.began = w.began /\ v.levels = w.levels \cup {t.rules[k.target]}
  /\ v.steady = IF k.pc \in Reading THEN w.steady \cap new ELSE w.steady
  /\ v.shrunk <=> w.shrunk \/ (k.pc \in Reading /\ ~(old \subseteq new))
  /\ v.grown <=> w.grown \/ (k.pc \in Reading /\ ~(new \subseteq old))
  /\ v.meddled <=> w.meddled \/ (d # c /\ t.rules[k.target] # s.rules[k.target])

LEMMA Watched ==
  ASSUME NEW k, NEW w, NEW s, NEW t, NEW d, NEW c, WatchOK(w)
  PROVE  IsWatched(WatchAfter(k, w, s, t, d, c), k, w, s, t, d, c)
<1> DEFINE v == WatchAfter(k, w, s, t, d, c)
<1>1. PICK a \in BOOLEAN : a = (w.shrunk \/ (k.pc \in Reading /\ ~(Entries(s, k.target) \subseteq Entries(t, k.target))))
  OBVIOUS
<1>2. PICK b \in BOOLEAN : b = (w.grown \/ (k.pc \in Reading /\ ~(Entries(t, k.target) \subseteq Entries(s, k.target))))
  OBVIOUS
<1>3. PICK m \in BOOLEAN : m = (w.meddled \/ (d # c /\ t.rules[k.target] # s.rules[k.target]))
  OBVIOUS
<1> DEFINE x == IF k.pc \in Reading THEN w.steady \cap Entries(t, k.target) ELSE w.steady
           l == w.levels \cup {t.rules[k.target]}
<1>4. v = [w EXCEPT !.steady = x, !.shrunk = a, !.grown = b, !.levels = l, !.meddled = m]
  BY <1>1, <1>2, <1>3 DEF WatchAfter
<1> HIDE DEF x, l, v
<1>5. /\ v = [steady |-> x, shrunk |-> a, grown |-> b, began |-> w.began, levels |-> l,
              meddled |-> m]
  BY <1>4 DEF WatchOK, WatchShape
<1>6. /\ v.shrunk = a /\ v.grown = b /\ v.meddled = m /\ v.began = w.began /\ v.levels = l
      /\ v.steady = x
  BY <1>5
<1>7. WatchOK(v)
  BY <1>5, <1>6 DEF WatchOK, WatchShape
<1>8. QED
  BY <1>1, <1>2, <1>3, <1>6, <1>7 DEF l, v, x, IsWatched

\* What a call knows while it waits, though the registry changes; only its own
\* request may set its rule without meddling.
LEMMA KnowsStill ==
  ASSUME NEW s, WellFormed(s), NEW t, Evolves(s, t), NEW k, CallOK(k), k.pc \in Request,
         NEW w, WatchOK(w), Knows(k, w, s), NEW d, NEW c,
         NEW v, v = WatchAfter(k, w, s, t, d, c)
  PROVE  /\ MetaOK(k, v, t) /\ SchemaOK(k, v, t) /\ DeleteOK(k, v, t)
         /\ d # c => RuleOK(k, v, t)
<1> DEFINE a == k.target
           old == Entries(s, a)
           new == Entries(t, a)
<1>0. k.pc # "idle" /\ k.pc # "done"
  BY DEF Request
<1>1. MetaOK(k, w, s) /\ DeleteOK(k, w, s) /\ RuleOK(k, w, s)
  BY <1>0 DEF Knows
<1>2. /\ v.began = w.began
      /\ v.shrunk <=> w.shrunk \/ (k.pc \in Reading /\ ~(old \subseteq new))
      /\ v.grown <=> w.grown \/ (k.pc \in Reading /\ ~(new \subseteq old))
      /\ v.meddled <=> w.meddled \/ (d # c /\ t.rules[a] # s.rules[a])
  <2>1. IsWatched(v, k, w, s, t, d, c)
    BY Watched
  <2>2. QED
    BY <2>1 DEF IsWatched
<1>3. MetaOK(k, v, t)
  <2> SUFFICES ASSUME k.pc = "content"
               PROVE  k.meta.gid \in DOMAIN t.texts /\ StillNamed(k, v, t)
    BY DEF MetaOK
  <2>1. k.meta.gid \in DOMAIN s.texts /\ StillNamed(k, w, s)
    BY <1>1 DEF MetaOK
  <2>2. k.meta.gid \in DOMAIN t.texts
    BY <2>1 DEF Evolves, Grows
  <2>3. a \in Artifacts /\ a # Global /\ k.pc \in Reading
    BY TargetFacts, CallAssumption DEF Reading
  <2>4. old = ToSet(s.versions[a]) /\ new = ToSet(t.versions[a])
    BY <2>3 DEF Entries, Listing
  <2> HIDE DEF old, new
  <2>5. CASE v.shrunk
    BY <2>2, <2>5 DEF StillNamed
  <2>6. CASE ~v.shrunk
    <3>1. ~w.shrunk /\ old \subseteq new
      BY <1>2, <2>3, <2>6
    <3>2. k.meta \in new
      BY <2>1, <2>4, <3>1 DEF StillNamed
    <3>3. k.args.arg < 0 /\ ~v.grown => Newest(t, a, k.meta)
      <4> SUFFICES ASSUME k.args.arg < 0, ~v.grown PROVE Newest(t, a, k.meta)
        OBVIOUS
      <4>1. ~w.grown /\ new \subseteq old
        BY <1>2, <2>3
      <4>2. Newest(s, a, k.meta)
        BY <2>1, <3>1, <4>1 DEF StillNamed
      <4>3. QED
        BY <2>4, <4>1, <4>2 DEF Newest
    <3>4. ~(k.args.arg < 0) => k.meta.number = k.args.arg
      BY <2>1, <3>1 DEF StillNamed
    <3>5. QED
      BY <2>2, <2>4, <3>2, <3>3, <3>4 DEF StillNamed
  <2>7. QED
    BY <2>5, <2>6
<1>4. DeleteOK(k, v, t)
  <2> SUFFICES ASSUME k.args.op = "delete_subject"
               PROVE  /\ v.began \subseteq DOMAIN t.texts
                      /\ \A b \in Artifacts : b # a => v.began \cap Gids(t, b) = {}
    BY <1>0 DEF DeleteOK
  <2>1. /\ w.began \subseteq DOMAIN s.texts
        /\ \A b \in Artifacts : b # a => w.began \cap Gids(s, b) = {}
    BY <1>1 DEF DeleteOK
  <2>2. QED
    BY <1>2, <2>1 DEF Evolves, Grows
<1>5. d # c => RuleOK(k, v, t)
  BY <1>0, <1>1, <1>2 DEF RuleOK
<1>6. SchemaOK(k, v, t)
  BY <1>0 DEF SchemaOK
<1>7. QED
  BY <1>3, <1>4, <1>5, <1>6

\* What a call has returned stays true.
LEMMA ReturnedStays ==
  ASSUME NEW s, NEW t, Evolves(s, t), NEW k, k.pc = "done", NEW w, Knows(k, w, s)
  PROVE  Knows(k, w, t)
<1>0. SchemaOK(k, w, s) /\ DeleteOK(k, w, s) /\ RuleOK(k, w, s) /\ k.pc \notin Request
  BY DEF Knows, Request
<1>1. SchemaOK(k, w, t)
  BY <1>0 DEF SchemaOK, Evolves, Grows
<1>2. DeleteOK(k, w, t)
  BY <1>0 DEF DeleteOK, Evolves, Grows
<1>3. RuleOK(k, w, t) /\ MetaOK(k, w, t)
  BY <1>0 DEF RuleOK, MetaOK
<1>4. QED
  BY <1>1, <1>2, <1>3 DEF Knows

\* A step of client c, by what it makes of its own call.
LEMMA OneCall ==
  ASSUME ApicurioInv, NEW c \in Client, call[c].pc \in Request,
         NEW t, Evolves(server, t), server' = t, Watch(c, t),
         NEW k, CallOK(k), call' = [call EXCEPT ![c] = k],
         Knows(k, WatchAfter(call[c], watch[c], server, t, c, c), t)
  PROVE  ApicurioInv'
<1>0. /\ WellFormed(server) /\ call = [d \in Client |-> call[d]]
      /\ \A d \in Client : CallOK(call[d]) /\ WatchOK(watch[d]) /\ Knows(call[d], watch[d], server)
  BY DEF ApicurioInv
<1>1. /\ call' = [d \in Client |-> call'[d]] /\ call'[c] = k
      /\ \A d \in Client : d # c => call'[d] = call[d]
  BY <1>0
<1>2. watch' = [d \in Client |-> IF call[d].pc \in {"idle", "done"} THEN watch[d]
                                 ELSE WatchAfter(call[d], watch[d], server, t, d, c)]
  BY DEF Watch, WatchAfter
<1>3. watch' = [d \in Client |-> watch'[d]]
  BY <1>2
<1>4. watch'[c] = WatchAfter(call[c], watch[c], server, t, c, c)
  <2>1. call[c].pc \notin {"idle", "done"}
    BY DEF Request
  <2>2. QED
    BY <1>2, <2>1
<1>5. ASSUME NEW d \in Client, d # c, call[d].pc \in Request
      PROVE  WatchOK(watch'[d]) /\ Knows(call[d], watch'[d], t)
  <2>1. call[d].pc \notin {"idle", "done"}
    BY <1>5 DEF Request
  <2>2. watch'[d] = WatchAfter(call[d], watch[d], server, t, d, c)
    BY <1>2, <2>1
  <2>3. WatchOK(watch'[d])
    <3>1. IsWatched(watch'[d], call[d], watch[d], server, t, d, c)
      BY <1>0, <2>2, Watched
    <3>2. QED
      BY <3>1 DEF IsWatched
  <2>4. QED
    BY <1>0, <1>5, <2>2, <2>3, KnowsStill DEF Knows
<1>6. ASSUME NEW d \in Client, d # c, call[d].pc \in {"idle", "done"}
      PROVE  WatchOK(watch'[d]) /\ Knows(call[d], watch'[d], t)
  <2>1. watch'[d] = watch[d]
    BY <1>2, <1>6
  <2>2. QED
    BY <1>0, <1>6, <2>1, ReturnedStays DEF Knows
<1>7. WatchOK(watch'[c])
  <2>1. IsWatched(watch'[c], call[c], watch[c], server, t, c, c)
    BY <1>0, <1>4, Watched
  <2>2. QED
    BY <2>1 DEF IsWatched
<1>8. \A d \in Client : CallOK(call'[d]) /\ WatchOK(watch'[d]) /\ Knows(call'[d], watch'[d], t)
  <2> SUFFICES ASSUME NEW d \in Client
               PROVE  CallOK(call'[d]) /\ WatchOK(watch'[d]) /\ Knows(call'[d], watch'[d], t)
    OBVIOUS
  <2>1. CASE d = c
    BY <1>1, <1>4, <1>7, <2>1
  <2>2. CASE d # c
    <3>1. call'[d] = call[d] /\ CallOK(call[d]) /\ call[d].pc \in Request \cup {"idle", "done"}
      BY <1>0, <1>1, <2>2 DEF CallOK
    <3>2. QED
      BY <1>5, <1>6, <2>2, <3>1
  <2>3. QED
    BY <2>1, <2>2
<1>9. WellFormed(t)
  BY DEF Evolves
<1>10. QED
  BY <1>1, <1>3, <1>8, <1>9 DEF ApicurioInv

------------------------------------------------------------------------------
(***************************************************************************)
(* The client's reactions.                                                 *)
(***************************************************************************)
LEMMA Statuses ==
  /\ Ok2xx(200) /\ Ok2xx(204) /\ ~Ok2xx(404) /\ ~Ok2xx(409)
  /\ ErrorOf(404).kind = "not_found" /\ ErrorOf(409).kind = "conflict"
  /\ \A kind : Plain(kind).kind = kind
<1>1. Ok2xx(200) /\ Ok2xx(204) /\ ~Ok2xx(404) /\ ~Ok2xx(409)
  BY DEF Ok2xx
<1>2. \A kind : Plain(kind).kind = kind
  BY DEF Plain
<1>3. ErrorOf(404) = Plain("not_found") /\ ErrorOf(409) = Plain("conflict")
  BY DEF ErrorOf
<1>4. QED
  BY <1>1, <1>2, <1>3

LEMMA Reactions ==
  ASSUME NEW k, NEW s, NEW status, NEW body
  PROVE  /\ k.pc \in Request \ {"put", "search"} /\ ~Ok2xx(status) =>
              OnAnswer(k, s, status, body) = OnError(k, ErrorOf(status))
         /\ k.pc = "put" => OnAnswer(k, s, status, body) = OnPut(k, status)
         /\ k.pc = "search" => OnAnswer(k, s, status, body) = OnSearch(k, status, body)
         /\ Ok2xx(status) =>
              /\ k.pc = "meta" => OnAnswer(k, s, status, body) = OnMeta(k, body)
              /\ k.pc = "content" => OnAnswer(k, s, status, body) = OnContent(k, TextOf(s, body))
              /\ k.pc = "by_id" => OnAnswer(k, s, status, body) = OnSchemaById(k, TextOf(s, body))
              /\ k.pc = "create" => OnAnswer(k, s, status, body) = OnCreate(k, body)
              /\ k.pc = "page" => OnAnswer(k, s, status, body) = OnPage(k, body)
              /\ k.pc = "get_rule" => OnAnswer(k, s, status, body) = OnRule(k, body)
              /\ k.pc \in {"delete", "delete_version", "post"} =>
                   OnAnswer(k, s, status, body) = Done(k, Plain("ok"))
<1>1. /\ k.pc = "put" => OnAnswer(k, s, status, body) = OnPut(k, status)
      /\ k.pc = "search" => OnAnswer(k, s, status, body) = OnSearch(k, status, body)
  BY DEF OnAnswer
<1>2. k.pc \in Request \ {"put", "search"} /\ ~Ok2xx(status) =>
        OnAnswer(k, s, status, body) = OnError(k, ErrorOf(status))
  BY DEF OnAnswer
<1>3. Ok2xx(status) =>
        /\ k.pc = "meta" => OnAnswer(k, s, status, body) = OnMeta(k, body)
        /\ k.pc = "content" => OnAnswer(k, s, status, body) = OnContent(k, TextOf(s, body))
        /\ k.pc = "by_id" => OnAnswer(k, s, status, body) = OnSchemaById(k, TextOf(s, body))
  BY DEF OnAnswer
<1>4. Ok2xx(status) =>
        /\ k.pc = "create" => OnAnswer(k, s, status, body) = OnCreate(k, body)
        /\ k.pc = "page" => OnAnswer(k, s, status, body) = OnPage(k, body)
        /\ k.pc = "get_rule" => OnAnswer(k, s, status, body) = OnRule(k, body)
  BY DEF OnAnswer
<1>5. Ok2xx(status) =>
        (k.pc \in {"delete", "delete_version", "post"} =>
           OnAnswer(k, s, status, body) = Done(k, Plain("ok")))
  BY DEF OnAnswer
<1>6. QED
  BY <1>1, <1>2, <1>3, <1>4, <1>5

LEMMA DoneIs ==
  ASSUME NEW k, NEW r, CallOK(k), k.pc \in Request
  PROVE  /\ CallOK(Done(k, r)) /\ Done(k, r).pc = "done" /\ Done(k, r).result = r
         /\ Done(k, r).args = k.args /\ Done(k, r).tries = k.tries
<1>1. CallShape(k) /\ k.args \in Call /\ k.tries \in Nat /\ "done" \notin Request
  BY DEF CallOK, Request
<1>2. ASSUME NEW m, m = [k EXCEPT !.pc = "done", !.result = r]
      PROVE  /\ CallShape(m) /\ m.pc = "done" /\ m.result = r /\ m.args = k.args
             /\ m.tries = k.tries
  <2>1. CallShape(k)
    BY <1>1
  <2>2. QED
    BY ONLY <1>2, <2>1 DEF CallShape
<1>3. ASSUME NEW m, m = Done(k, r)
      PROVE  CallOK(m) /\ m.pc = "done" /\ m.result = r /\ m.args = k.args /\ m.tries = k.tries
  <2>1. /\ CallShape(m) /\ m.pc = "done" /\ m.result = r /\ m.args = k.args
        /\ m.tries = k.tries
    BY <1>2, <1>3 DEF Done
  <2>2. QED
    BY <1>1, <2>1 DEF CallOK
<1>4. QED
  BY <1>3

\* Changing what no invariant is about.
SameCall(m, k) == CallOK(m) /\ m.pc = k.pc /\ m.args = k.args /\ m.target = k.target

LEMMA WalkedIs ==
  ASSUME NEW k, NEW m, CallOK(k), k.pc \in Request,
         \E x, y : m = [k EXCEPT !.out = x, !.offset = y] \/ m = [k EXCEPT !.meta = x]
                   \/ m = [k EXCEPT !.out = x]
  PROVE  SameCall(m, k)
<1>0. /\ k.tries \in Nat /\ k.args \in Call /\ k.target = Target(k.args) /\ k.target # None
      /\ k.args.op \in Senders(k.pc) /\ CallShape(k)
  BY DEF CallOK, Request
<1>1. PICK x, y : m = [k EXCEPT !.out = x, !.offset = y] \/ m = [k EXCEPT !.meta = x]
                  \/ m = [k EXCEPT !.out = x]
  OBVIOUS
<1>2. /\ CallShape(m) /\ m.pc = k.pc /\ m.args = k.args /\ m.target = k.target
      /\ m.tries = k.tries
  BY ONLY <1>0, <1>1 DEF CallShape
<1>3. QED
  BY <1>0, <1>2 DEF CallOK, SameCall

LEMMA SendIs ==
  ASSUME NEW k, CallOK(k), k.pc \in Request, NEW request \in Request, k.args.op \in Senders(request)
  PROVE  LET m == Send(k, request) IN
         /\ CallOK(m) /\ m.pc = request /\ m.args = k.args /\ m.target = k.target
         /\ m.meta = k.meta /\ m.tries = 0
<1>1. CallShape(k) /\ k.args \in Call /\ k.target = Target(k.args) /\ k.target # None
  BY DEF CallOK, Request
<1>2. ASSUME NEW m, m = [k EXCEPT !.pc = request, !.tries = 0]
      PROVE  /\ CallShape(m) /\ m.pc = request /\ m.args = k.args /\ m.target = k.target
             /\ m.meta = k.meta /\ m.tries = 0
  <2>1. CallShape(k)
    BY <1>1
  <2>2. QED
    BY ONLY <1>2, <2>1 DEF CallShape
<1>3. ASSUME NEW m, m = Send(k, request)
      PROVE  /\ CallOK(m) /\ m.pc = request /\ m.args = k.args /\ m.target = k.target
             /\ m.meta = k.meta /\ m.tries = 0
  <2>1. /\ CallShape(m) /\ m.pc = request /\ m.args = k.args /\ m.target = k.target
        /\ m.meta = k.meta /\ m.tries = 0
    BY <1>2, <1>3 DEF Send
  <2>2. QED
    BY <1>1, <2>1 DEF CallOK
<1>4. QED
  BY <1>3

\* A call that ends in neither a schema, nor success, nor a conflict.
LEMMA PlainEnd ==
  ASSUME NEW k, CallOK(k), k.pc \in Request, NEW r, NEW w, NEW s,
         r.kind \notin {"schema", "ok"},
         k.args.op = "set_rule" /\ r.kind = "conflict" => w.meddled \/ k.tries > 0
  PROVE  CallOK(Done(k, r)) /\ Knows(Done(k, r), w, s)
<1> DEFINE m == Done(k, r)
<1>1. CallOK(m) /\ m.pc = "done" /\ m.result = r /\ m.args = k.args /\ m.tries = k.tries
  BY DoneIs
<1> HIDE DEF m
<1>2. Knows(m, w, s)
  BY <1>1 DEF Knows, MetaOK, SchemaOK, DeleteOK, RuleOK, Request
<1>3. QED
  BY <1>1, <1>2 DEF m

LEMMA ErrorGood ==
  ASSUME NEW k, CallOK(k), k.pc \in Request, NEW r, NEW w, NEW s, DeleteOK(k, w, s),
         r.kind \notin {"schema", "ok"},
         k.args.op = "set_rule" /\ r.kind = "conflict" => w.meddled \/ k.tries > 0
  PROVE  CallOK(OnError(k, r)) /\ Knows(OnError(k, r), w, s)
<1>1. CASE k.args.op = "delete_subject" /\ k.pc = "page"
  <2> DEFINE l == [k EXCEPT !.out = <<>>]
             m == Send(l, "delete")
  <2>1. OnError(k, r) = m
    BY <1>1 DEF OnError
  <2>2. CallOK(l) /\ l.pc = k.pc /\ l.args = k.args /\ l.target = k.target
    <3>1. \E u : l = [k EXCEPT !.out = u]
      OBVIOUS
    <3> HIDE DEF l
    <3>2. SameCall(l, k)
      BY <3>1, WalkedIs
    <3>3. QED
      BY <3>2 DEF SameCall
  <2> HIDE DEF l
  <2>3. CallOK(m) /\ m.pc = "delete" /\ m.args = k.args /\ m.target = k.target
    BY <1>1, <2>2, SendIs, SendersAre DEF Request
  <2> HIDE DEF m
  <2>4. Knows(m, w, s)
    BY <1>1, <2>3 DEF Knows, MetaOK, SchemaOK, DeleteOK, RuleOK, Request
  <2>5. QED
    BY <2>1, <2>3, <2>4
<1>2. CASE ~(k.args.op = "delete_subject" /\ k.pc = "page")
  <2>1. OnError(k, r) = Done(k, r)
    BY <1>2 DEF OnError
  <2>2. QED
    BY <2>1, PlainEnd
<1>3. QED
  BY <1>1, <1>2

\* A call that returns schema text under gid.
LEMMA SchemaGood ==
  ASSUME NEW k, CallOK(k), k.pc \in Request, NEW gid, NEW text, NEW w, NEW s,
         gid \in DOMAIN s.texts, k.args.op \notin {"delete_subject", "set_rule"},
         \/ s.texts[gid] = text
         \/ k.args.op = "version" /\ (w.shrunk \/ (k.args.arg < 0 /\ w.grown)),
         NEW r \in {Schema(gid, text), GlobalIdToSchemaId(gid, text)}
  PROVE  CallOK(Done(k, r)) /\ Knows(Done(k, r), w, s)
<1> DEFINE m == Done(k, r)
<1>1. CallOK(m) /\ m.pc = "done" /\ m.result = r /\ m.args = k.args
  BY DoneIs
<1> HIDE DEF m
<1>2. r.kind # "schema" \/ (r.gid = gid /\ r.text = text)
  BY DEF Schema, GlobalIdToSchemaId, Plain
<1>3. SchemaOK(m, w, s)
  BY <1>1, <1>2 DEF SchemaOK
<1>4. Knows(m, w, s)
  BY <1>1, <1>3 DEF Knows, MetaOK, DeleteOK, RuleOK
<1>5. QED
  BY <1>1, <1>4 DEF m

------------------------------------------------------------------------------
(***************************************************************************)
(* What each answer leaves the call with: a call as it should be, that     *)
(* knows what it should.                                                   *)
(***************************************************************************)
Good(k, w, s) == CallOK(k) /\ Knows(k, w, s)
Answered(s, k) == OnAnswer(k, Answer(s, k).server, Answer(s, k).status, Answer(s, k).body)

\* Versions of an artifact differ in their numbers.
LEMMA NumbersDiffer ==
  ASSUME NEW s, WellFormed(s), NEW a \in Artifacts, NEW u \in ToSet(s.versions[a]),
         NEW v \in ToSet(s.versions[a])
  PROVE  /\ u.number \in Nat /\ v.number \in Nat /\ u.gid \in DOMAIN s.texts
         /\ u.number = v.number => u = v
<1> DEFINE q == s.versions[a]
<1>1. q \in Seq(Version) /\ Ascending(q) /\ Gids(s, a) \subseteq DOMAIN s.texts
  BY RegistryFacts
<1>2. PICK i \in DOMAIN q : u = q[i]
  BY DEF ToSet
<1>3. PICK j \in DOMAIN q : v = q[j]
  BY DEF ToSet
<1>4. u \in Version /\ v \in Version /\ i \in Nat /\ j \in Nat
  BY <1>1, <1>2, <1>3
<1>5. u.number \in Nat /\ v.number \in Nat
  BY <1>4 DEF Version
<1>6. u.gid \in DOMAIN s.texts
  BY <1>1 DEF Gids
<1>7. u.number = v.number => i = j
  BY <1>1, <1>2, <1>3, <1>4, <1>5 DEF Ascending
<1>8. QED
  BY <1>2, <1>3, <1>5, <1>6, <1>7

\* The version that a request for version n is answered with.
Answers(s, a, n, v) ==
  /\ v \in ToSet(s.versions[a])
  /\ IF n < 0 THEN Newest(s, a, v) ELSE v.number = n

LEMMA NamedIs ==
  ASSUME NEW s, WellFormed(s), NEW a \in Artifacts, NEW n \in Int,
         NEW r, r = GetVersion(s, a, VersionExpression(n))
  PROVE  /\ r.server = s
         /\ r.status = 404 \/ (r.status = 200 /\ Answers(s, a, n, r.body))
<1> DEFINE e == VersionExpression(n)
           q == s.versions[a]
<1>1. CASE Named(s, a, e) = {}
  BY <1>1 DEF GetVersion, NotFound, Reply
<1>2. CASE Named(s, a, e) # {}
  <2>1. PICK v \in Named(s, a, e) : v = CHOOSE u \in Named(s, a, e) : TRUE
    BY <1>2
  <2>2. r.server = s /\ r.status = 200 /\ r.body = v
    BY <1>2, <2>1 DEF GetVersion, Reply
  <2>3. v \in ToSet(q)
    BY DEF Named
  <2>4. CASE n < 0
    <3>1. v = Last(q) /\ q \in Seq(Version) /\ Ascending(q)
      BY <2>4, RegistryFacts DEF Named, VersionExpression
    <3>2. ASSUME NEW u \in ToSet(q) PROVE u.number <= v.number
      <4>1. PICK i \in DOMAIN q : u = q[i]
        BY DEF ToSet
      <4>2. i \in Nat /\ Len(q) \in DOMAIN q /\ i <= Len(q) /\ v = q[Len(q)]
        BY <3>1 DEF Last
      <4>3. u.number \in Nat /\ v.number \in Nat
        BY <2>3, NumbersDiffer
      <4>4. QED
        BY <3>1, <4>1, <4>2, <4>3 DEF Ascending
    <3>3. QED
      BY <2>2, <2>3, <2>4, <3>2 DEF Answers, Newest
  <2>5. CASE ~(n < 0)
    <3>1. e = n /\ e # Latest
      BY <2>5, CallAssumption DEF VersionExpression
    <3>2. v.number = n
      BY <3>1 DEF Named
    <3>3. QED
      BY <2>2, <2>3, <2>5, <3>2 DEF Answers
  <2>6. QED
    BY <2>4, <2>5
<1>3. QED
  BY <1>1, <1>2

LEMMA MetaGood ==
  ASSUME NEW s, WellFormed(s), NEW k, CallOK(k), k.pc = "meta", NEW w
  PROVE  Good(Answered(s, k), w, s)
<1> DEFINE r == Answer(s, k)
           a == k.target
<1>0. /\ a \in Artifacts /\ k.args.arg \in Int /\ k.args.op = "version" /\ k.pc \in Request
      /\ k.pc \in Request \ {"put", "search"}
  BY TargetFacts, SendersAre DEF CallOK, Request
<1>1. r = GetVersion(s, a, VersionExpression(k.args.arg))
  BY DEF Answer
<1> HIDE DEF r
<1>2. r.server = s /\ (r.status = 404 \/ (r.status = 200 /\ Answers(s, a, k.args.arg, r.body)))
  BY <1>0, <1>1, NamedIs
<1>3. CASE r.status = 404
  <2>1. Answered(s, k) = OnError(k, ErrorOf(404))
    BY <1>0, <1>2, <1>3, Statuses, Reactions DEF Answered, r
  <2>2. DeleteOK(k, w, s)
    BY <1>0 DEF DeleteOK
  <2>3. QED
    BY <1>0, <2>1, <2>2, ErrorGood, Statuses DEF Good
<1>4. CASE r.status = 200 /\ Answers(s, a, k.args.arg, r.body)
  <2> DEFINE l == [k EXCEPT !.meta = r.body]
             m == Send(l, "content")
  <2>1. Answered(s, k) = m
    BY <1>4, Statuses, Reactions DEF Answered, OnMeta, r
  <2>2. CallOK(l) /\ l.pc = k.pc /\ l.args = k.args /\ l.target = a /\ l.meta = r.body
    <3>1. l.meta = r.body
      BY DEF CallOK, CallShape
    <3>2. \E u : l = [k EXCEPT !.meta = u]
      OBVIOUS
    <3> HIDE DEF l
    <3>3. SameCall(l, k)
      BY <1>0, <3>2, WalkedIs
    <3>4. QED
      BY <3>1, <3>3 DEF SameCall
  <2> HIDE DEF l
  <2>3. CallOK(m) /\ m.pc = "content" /\ m.args = k.args /\ m.target = a /\ m.meta = r.body
    BY <1>0, <2>2, SendIs, SendersAre DEF Request
  <2> HIDE DEF m
  <2>4. MetaOK(m, w, s)
    <3>1. r.body \in ToSet(s.versions[a])
      BY <1>4 DEF Answers
    <3>2. r.body.gid \in DOMAIN s.texts
      BY <1>0, <3>1, NumbersDiffer
    <3>3. StillNamed(m, w, s)
      BY <1>4, <2>3 DEF Answers, StillNamed
    <3>4. QED
      BY <2>3, <3>2, <3>3 DEF MetaOK
  <2>5. Knows(m, w, s)
    BY <1>0, <2>3, <2>4 DEF Knows, SchemaOK, DeleteOK, RuleOK
  <2>6. QED
    BY <2>1, <2>3, <2>5 DEF Good
<1>5. QED
  BY <1>2, <1>3, <1>4

LEMMA ContentGood ==
  ASSUME NEW s, WellFormed(s), NEW k, CallOK(k), k.pc = "content", NEW w, MetaOK(k, w, s)
  PROVE  Good(Answered(s, k), w, s)
<1> DEFINE r == Answer(s, k)
           a == k.target
<1>0. /\ a \in Artifacts /\ k.args.arg \in Int /\ k.args.op = "version" /\ k.pc \in Request
      /\ k.pc \in Request \ {"put", "search"}
  BY TargetFacts, SendersAre DEF CallOK, Request
<1>1. r = GetVersion(s, a, VersionExpression(k.args.arg))
  BY DEF Answer, ContentRequest
<1> HIDE DEF r
<1>2. r.server = s /\ (r.status = 404 \/ (r.status = 200 /\ Answers(s, a, k.args.arg, r.body)))
  BY <1>0, <1>1, NamedIs
<1>3. CASE r.status = 404
  <2>1. Answered(s, k) = OnError(k, ErrorOf(404))
    BY <1>0, <1>2, <1>3, Statuses, Reactions DEF Answered, r
  <2>2. DeleteOK(k, w, s)
    BY <1>0 DEF DeleteOK
  <2>3. QED
    BY <1>0, <2>1, <2>2, ErrorGood, Statuses DEF Good
<1>4. CASE r.status = 200 /\ Answers(s, a, k.args.arg, r.body)
  <2> DEFINE g == k.meta.gid
             text == s.texts[r.body.gid]
  <2>1. Answered(s, k) = Done(k, GlobalIdToSchemaId(g, text))
    BY <1>2, <1>4, Statuses, Reactions DEF Answered, OnContent, TextOf, r
  <2>2. g \in DOMAIN s.texts /\ StillNamed(k, w, s)
    BY DEF MetaOK
  <2>3. \/ k.meta = r.body
        \/ w.shrunk \/ (k.args.arg < 0 /\ w.grown)
    <3> SUFFICES ASSUME ~w.shrunk, ~(k.args.arg < 0 /\ w.grown) PROVE k.meta = r.body
      OBVIOUS
    <3>1. k.meta \in ToSet(s.versions[a]) /\ r.body \in ToSet(s.versions[a])
      BY <1>4, <2>2 DEF StillNamed, Answers
    <3>2. k.meta.number \in Nat /\ r.body.number \in Nat
      BY <1>0, <3>1, NumbersDiffer
    <3>3. k.meta.number = r.body.number
      <4>1. CASE k.args.arg < 0
        <5>1. Newest(s, a, k.meta) /\ Newest(s, a, r.body)
          BY <1>4, <2>2, <4>1 DEF StillNamed, Answers
        <5>2. k.meta.number <= r.body.number /\ r.body.number <= k.meta.number
          BY <3>1, <5>1 DEF Newest
        <5>3. QED
          BY <3>2, <5>2
      <4>2. CASE ~(k.args.arg < 0)
        BY <1>4, <2>2, <4>2 DEF StillNamed, Answers
      <4>3. QED
        BY <4>1, <4>2
    <3>4. QED
      BY <1>0, <3>1, <3>3, NumbersDiffer
  <2>4. /\ k.args.op \notin {"delete_subject", "set_rule"}
        /\ \/ s.texts[g] = text
           \/ k.args.op = "version" /\ (w.shrunk \/ (k.args.arg < 0 /\ w.grown))
    BY <1>0, <2>3
  <2> HIDE DEF g, text
  <2>5. Good(Done(k, GlobalIdToSchemaId(g, text)), w, s)
    BY <1>0, <2>2, <2>4, SchemaGood DEF Good
  <2>6. QED
    BY <2>1, <2>5
<1>5. QED
  BY <1>2, <1>3, <1>4

LEMMA ErrorKinds ==
  ASSUME NEW status
  PROVE  /\ ErrorOf(status).kind \notin {"schema", "ok"}
         /\ status # 409 => ErrorOf(status).kind # "conflict"
<1>1. CASE status = 404
  BY <1>1, Statuses
<1>2. CASE status = 409
  BY <1>2, Statuses
<1>3. CASE status # 404 /\ status # 409
  <2>1. ErrorOf(status) = Plain("http")
    BY <1>3 DEF ErrorOf
  <2>2. QED
    BY <2>1, Statuses
<1>4. QED
  BY <1>1, <1>2, <1>3

\* An error ends a call that is not about a rule.
LEMMA FailureGood ==
  ASSUME NEW s, NEW k, CallOK(k), k.pc \in Request \ {"put", "search"}, NEW w,
         k.args.op # "set_rule", NEW t, t = Answer(s, k).server, DeleteOK(k, w, t),
         ~Ok2xx(Answer(s, k).status)
  PROVE  Good(Answered(s, k), w, t)
<1> DEFINE e == ErrorOf(Answer(s, k).status)
<1>1. Answered(s, k) = OnError(k, e)
  BY Reactions DEF Answered
<1>2. e.kind \notin {"schema", "ok"}
  BY ErrorKinds
<1> HIDE DEF e
<1>3. QED
  BY <1>1, <1>2, ErrorGood DEF Good

LEMMA ByIdGood ==
  ASSUME NEW s, WellFormed(s), NEW k, CallOK(k), k.pc = "by_id", NEW w
  PROVE  Good(Answered(s, k), w, s)
<1> DEFINE r == Answer(s, k)
           id == k.args.arg
<1>0. k.args.op = "by_id" /\ k.pc \in Request /\ k.pc \in Request \ {"put", "search"}
  BY SendersAre DEF CallOK, Request
<1>1. r = GetById(s, id)
  BY DEF Answer
<1>2. r.server = s
  BY <1>1 DEF GetById, NotFound, Reply
<1>3. CASE \E a \in Artifacts : id \in Gids(s, a)
  <2>1. r.status = 200 /\ r.body.gid = id
    BY <1>1, <1>3 DEF GetById, Reply
  <2>2. id \in DOMAIN s.texts
    BY <1>3, RegistryFacts
  <2>3. Answered(s, k) = Done(k, Schema(id, s.texts[id]))
    BY <1>2, <2>1, Statuses, Reactions DEF Answered, OnSchemaById, TextOf
  <2>4. k.args.op \notin {"delete_subject", "set_rule"}
    BY <1>0
  <2> HIDE DEF r, id
  <2>5. Good(Done(k, Schema(id, s.texts[id])), w, s)
    BY <1>0, <2>2, <2>4, SchemaGood DEF Good
  <2>6. QED
    BY <2>3, <2>5
<1>4. CASE ~\E a \in Artifacts : id \in Gids(s, a)
  <2>1. r.status = 404
    BY <1>1, <1>4 DEF GetById, NotFound, Reply
  <2>2. ~Ok2xx(r.status) /\ DeleteOK(k, w, s)
    BY <1>0, <2>1, Statuses DEF DeleteOK
  <2>3. QED
    BY <1>0, <1>2, <2>2, FailureGood
<1>5. QED
  BY <1>3, <1>4

LEMMA CreateGood ==
  ASSUME NEW s, WellFormed(s), NEW k, CallOK(k), k.pc = "create", NEW w
  PROVE  Good(Answered(s, k), w, Answer(s, k).server)
<1> DEFINE r == Answer(s, k)
           t == r.server
           x == k.args.arg
           g == r.body.gid
<1>0. /\ k.args.op = "register" /\ k.pc \in Request /\ k.target \in Artifacts /\ x \in Text
      /\ k.args.op \notin {"delete_subject", "set_rule"}
  BY SendersAre, TargetFacts DEF CallOK, Request
<1>1. r = FindOrCreate(s, k.target, x)
  BY DEF Answer
<1>2. r.status = 200 /\ g \in DOMAIN t.texts /\ t.texts[g] = x
  BY <1>0, <1>1, FindOrCreateEvolves
<1>3. Answered(s, k) = Done(k, GlobalIdToSchemaId(g, x))
  BY <1>2, Statuses, Reactions DEF Answered, OnCreate
<1> HIDE DEF r, t, g, x
<1>4. Good(Done(k, GlobalIdToSchemaId(g, x)), w, t)
  BY <1>0, <1>2, SchemaGood DEF Good
<1>5. QED
  BY <1>3, <1>4 DEF r, t

LEMMA SearchGood ==
  ASSUME NEW s, WellFormed(s), NEW k, CallOK(k), k.pc = "search", NEW w
  PROVE  Good(Answered(s, k), w, s)
<1> DEFINE r == Answer(s, k)
           a == k.target
           x == k.args.arg
<1>0. /\ k.args.op = "lookup" /\ k.pc \in Request /\ a \in Artifacts
      /\ k.args.op \notin {"delete_subject", "set_rule"}
  BY SendersAre, TargetFacts DEF CallOK, Request
<1>1. r = Search(s, a, x) /\ Answered(s, k) = OnSearch(k, r.status, r.body)
  BY Reactions DEF Answer, Answered
<1>2. /\ r.server = s /\ r.status \in {200, 404}
      /\ r.status = 200 /\ r.body # None => r.body \in Holding(s, a, x)
  <2>1. CASE ~Exists(s, a)
    BY <1>1, <2>1 DEF Search, NotFound, Reply
  <2>2. CASE Exists(s, a) /\ Holding(s, a, x) = {}
    BY <1>1, <2>2 DEF Search, Reply
  <2>3. CASE Exists(s, a) /\ Holding(s, a, x) # {}
    BY <1>1, <2>3 DEF Search, Reply
  <2>4. QED
    BY <2>1, <2>2, <2>3
<1>3. CASE r.status = 404 \/ r.body = None
  <2>1. Answered(s, k) = Done(k, Plain("none"))
    BY <1>1, <1>2, <1>3, Statuses DEF OnSearch
  <2>2. QED
    BY <1>0, <2>1, PlainEnd, Statuses DEF Good
<1>4. CASE r.status = 200 /\ r.body # None
  <2> DEFINE g == r.body.gid
  <2>1. Answered(s, k) = Done(k, GlobalIdToSchemaId(g, x))
    BY <1>1, <1>4, Statuses DEF OnSearch
  <2>2. g \in Gids(s, a) /\ s.texts[g] = x
    BY <1>2, <1>4 DEF Holding, Gids, TextOf
  <2>3. g \in DOMAIN s.texts
    BY <1>0, <2>2, RegistryFacts
  <2> HIDE DEF g, x
  <2>4. Good(Done(k, GlobalIdToSchemaId(g, x)), w, s)
    BY <1>0, <2>2, <2>3, SchemaGood DEF Good
  <2>5. QED
    BY <2>1, <2>4
<1>5. QED
  BY <1>2, <1>3, <1>4

LEMMA PageGood ==
  ASSUME NEW s, WellFormed(s), NEW k, CallOK(k), k.pc = "page", NEW w, DeleteOK(k, w, s)
  PROVE  Good(Answered(s, k), w, s)
<1> DEFINE r == Answer(s, k)
           x == k.out \o Collected(k, r.body.entries)
           y == k.offset + Len(r.body.entries)
           l == [k EXCEPT !.out = x, !.offset = y]
<1>0. /\ k.args.op \in {"subjects", "versions", "delete_subject"} /\ k.pc \in Request
      /\ k.pc \in Request \ {"put", "search"} /\ k.args.op # "set_rule"
  BY SendersAre DEF CallOK, Request
<1>1. r.server = s
  BY ReadsChangeNothing
<1>2. CASE ~Ok2xx(r.status)
  BY <1>0, <1>1, <1>2, FailureGood
<1>3. CASE Ok2xx(r.status)
  <2>1. CallOK(l) /\ l.pc = "page" /\ l.args = k.args /\ l.target = k.target
    <3>1. \E u, v : l = [k EXCEPT !.out = u, !.offset = v]
      OBVIOUS
    <3> HIDE DEF l
    <3>2. SameCall(l, k)
      BY <1>0, <3>1, WalkedIs
    <3>3. QED
      BY <3>2 DEF SameCall
  <2>2. Answered(s, k) = IF LastPage(k, r.body) THEN AfterWalk(l) ELSE Send(l, "page")
    <3>1. Answered(s, k) = OnPage(k, r.body)
      BY <1>3, Reactions DEF Answered
    <3>2. l = [k EXCEPT !.out = @ \o Collected(k, r.body.entries),
                        !.offset = @ + Len(r.body.entries)]
      OBVIOUS
    <3> HIDE DEF l, r
    <3>3. QED
      BY <3>1, <3>2 DEF OnPage
  <2> HIDE DEF l, x, y, r
  <2>3. ASSUME NEW request \in {"page", "delete"}, k.args.op \in Senders(request)
        PROVE  Good(Send(l, request), w, s)
    <3> DEFINE m == Send(l, request)
    <3>1. CallOK(m) /\ m.pc = request /\ m.args = k.args /\ m.target = k.target
      BY <1>0, <2>1, <2>3, SendIs DEF Request
    <3> HIDE DEF m
    <3>2. Knows(m, w, s)
      BY <1>0, <3>1 DEF Knows, MetaOK, SchemaOK, DeleteOK, RuleOK, Request
    <3>3. QED
      BY <3>1, <3>2 DEF m, Good
  <2>4. Good(Done(l, Plain("list")), w, s)
    BY <1>0, <2>1, PlainEnd, Statuses DEF Good
  <2>5. QED
    BY <1>0, <2>1, <2>2, <2>3, <2>4, SendersAre DEF AfterWalk
<1>4. QED
  BY <1>2, <1>3

LEMMA DeleteGood ==
  ASSUME NEW s, WellFormed(s), NEW k, CallOK(k), k.pc = "delete", NEW w,
         NEW t, t = Answer(s, k).server, DeleteOK(k, w, t)
  PROVE  Good(Answered(s, k), w, t)
<1> DEFINE r == Answer(s, k)
           a == k.target
           m == Done(k, Plain("ok"))
<1>0. /\ k.args.op = "delete_subject" /\ k.pc \in Request /\ a \in Artifacts
      /\ k.pc \in Request \ {"put", "search"} /\ k.args.op # "set_rule"
  BY SendersAre, TargetFacts DEF CallOK, Request
<1>1. r = DeleteArtifact(s, a)
  BY DEF Answer
<1>2. CASE s.versions[a] = <<>>
  <2>1. ~Exists(s, a)
    BY <1>0, <1>2, CallAssumption DEF Exists
  <2>2. r.status = 404
    BY <1>1, <2>1 DEF DeleteArtifact, NotFound, Reply
  <2>3. QED
    BY <1>0, <2>2, FailureGood, Statuses
<1>3. CASE s.versions[a] # <<>>
  <2>1. r.status = 204 /\ Gids(t, a) = {}
    <3>1. /\ DeleteArtifact(s, a).status = 204
          /\ Evolves(s, DeleteArtifact(s, a).server) /\ Gids(DeleteArtifact(s, a).server, a) = {}
      BY <1>0, <1>3, DeleteArtifactEvolves
    <3>2. r.server = t
      OBVIOUS
    <3>3. QED
      BY <1>1, <3>1, <3>2
  <2>2. Answered(s, k) = m
    BY <2>1, Statuses, Reactions DEF Answered
  <2>3. CallOK(m) /\ m.pc = "done" /\ m.args = k.args /\ m.result.kind = "ok"
    BY <1>0, DoneIs, Statuses
  <2> HIDE DEF m
  <2>4. DeleteOK(m, w, t)
    BY <1>0, <2>1, <2>3 DEF DeleteOK, Request
  <2>5. Knows(m, w, t)
    BY <1>0, <2>3, <2>4 DEF Knows, MetaOK, SchemaOK, RuleOK
  <2>6. QED
    BY <2>2, <2>3, <2>5 DEF Good
<1>4. QED
  BY <1>2, <1>3

\* A call that ends in success, about no subject's deletion and no rule.
LEMMA OtherGood ==
  ASSUME NEW s, NEW k, CallOK(k), k.pc \in {"delete_version", "get_rule"}, NEW w,
         NEW t, t = Answer(s, k).server
  PROVE  Good(Answered(s, k), w, t)
<1> DEFINE r == Answer(s, k)
<1>0. /\ k.args.op \in {"delete_version", "get_rule"} /\ k.pc \in Request
      /\ k.pc \in Request \ {"put", "search"} /\ k.args.op # "set_rule"
  BY SendersAre DEF CallOK, Request
<1>1. CASE ~Ok2xx(r.status)
  <2>1. DeleteOK(k, w, t)
    BY <1>0 DEF DeleteOK
  <2>2. QED
    BY <1>0, <1>1, <2>1, FailureGood
<1>2. CASE Ok2xx(r.status)
  <2>1. PICK o : Answered(s, k) = Done(k, o) /\ o.kind # "schema"
    <3>1. CASE k.pc = "delete_version"
      BY <1>2, <3>1, Reactions, Statuses DEF Answered
    <3>2. CASE k.pc = "get_rule"
      <4>1. PICK o : o = [Plain("level") EXCEPT !.text = r.body]
        OBVIOUS
      <4>2. o.kind = "level"
        BY <4>1 DEF Plain
      <4>3. Answered(s, k) = Done(k, o)
        BY <1>2, <3>2, <4>1, Reactions DEF Answered, OnRule
      <4>4. QED
        BY <4>2, <4>3
    <3>3. QED
      BY <3>1, <3>2
  <2> DEFINE m == Done(k, o)
  <2>2. CallOK(m) /\ m.pc = "done" /\ m.args = k.args /\ m.result = o
    BY <1>0, DoneIs
  <2> HIDE DEF m
  <2>3. Knows(m, w, t)
    BY <1>0, <2>1, <2>2 DEF Knows, MetaOK, SchemaOK, DeleteOK, RuleOK
  <2>4. QED
    BY <2>1, <2>2, <2>3 DEF Good, m
<1>3. QED
  BY <1>1, <1>2

LEMMA RuleSet ==
  ASSUME NEW k, CallOK(k), k.pc \in Request, k.args.op = "set_rule", NEW w, NEW s,
         k.args.arg \in w.levels
  PROVE  Good(Done(k, Plain("ok")), w, s)
<1> DEFINE m == Done(k, Plain("ok"))
<1>1. CallOK(m) /\ m.pc = "done" /\ m.args = k.args /\ m.result.kind = "ok"
  BY DoneIs, Statuses
<1> HIDE DEF m
<1>2. Knows(m, w, s)
  BY <1>1 DEF Knows, MetaOK, SchemaOK, DeleteOK, RuleOK
<1>3. QED
  BY <1>1, <1>2 DEF m, Good

LEMMA PutGood ==
  ASSUME NEW s, WellFormed(s), NEW k, CallOK(k), k.pc = "put", NEW w,
         NEW t, t = Answer(s, k).server, t.rules[k.target] \in w.levels
  PROVE  Good(Answered(s, k), w, t)
<1> DEFINE r == Answer(s, k)
           a == k.target
           l == k.args.arg
<1>0. k.args.op = "set_rule" /\ k.pc \in Request /\ a \in Scopes /\ l \in Level
  BY SendersAre, TargetFacts DEF CallOK, Request
<1>1. r = PutRule(s, a, l) /\ Answered(s, k) = OnPut(k, r.status)
  BY Reactions DEF Answer, Answered
<1>2. CASE Exists(s, a) /\ s.rules[a] # None
  <2>1. t = [s EXCEPT !.rules[a] = l] /\ r.status = 200
    BY <1>1, <1>2 DEF PutRule, Reply
  <2>2. t.rules[a] = l
    <3>1. SetsRule(s, t, a, l)
      BY <1>0, <1>2, <2>1, RuleEvolves
    <3>2. QED
      BY <3>1 DEF SetsRule
  <2>3. Answered(s, k) = Done(k, Plain("ok")) /\ l \in w.levels
    BY <1>1, <2>1, <2>2, Statuses DEF OnPut
  <2>4. QED
    BY <1>0, <2>3, RuleSet
<1>3. CASE ~(Exists(s, a) /\ s.rules[a] # None)
  <2> DEFINE m == Send(k, "post")
  <2>1. t = s /\ r.status = 404
    BY <1>1, <1>3 DEF PutRule, NotFound, Reply
  <2>2. s.rules[a] = None
    BY <1>0, <1>3, RegistryFacts DEF Exists, Scopes
  <2>3. Answered(s, k) = m
    BY <1>1, <2>1, Statuses DEF OnPut
  <2>4. CallOK(m) /\ m.pc = "post" /\ m.args = k.args /\ m.target = a
    BY <1>0, SendIs, SendersAre DEF Request
  <2> HIDE DEF m
  <2>5. Knows(m, w, t)
    BY <1>0, <2>1, <2>2, <2>4 DEF Knows, MetaOK, SchemaOK, DeleteOK, RuleOK
  <2>6. QED
    BY <2>3, <2>4, <2>5 DEF Good
<1>4. QED
  BY <1>2, <1>3

LEMMA PostGood ==
  ASSUME NEW s, WellFormed(s), NEW k, CallOK(k), k.pc = "post", NEW w, NEW v, RuleOK(k, w, s),
         w.meddled => v.meddled,
         NEW t, t = Answer(s, k).server, t.rules[k.target] \in v.levels
  PROVE  Good(Answered(s, k), v, t)
<1> DEFINE r == Answer(s, k)
           a == k.target
           l == k.args.arg
<1>0. /\ k.args.op = "set_rule" /\ k.pc \in Request /\ a \in Scopes /\ l \in Level
      /\ k.pc \in Request \ {"put", "search"} /\ k.tries \in Nat
  BY SendersAre, TargetFacts DEF CallOK, Request
<1>1. r = PostRule(s, a, l)
  BY DEF Answer
<1>2. CASE ~Exists(s, a)
  <2>1. r.status = 404
    BY <1>1, <1>2 DEF PostRule, NotFound, Reply
  <2>2. Answered(s, k) = OnError(k, ErrorOf(404))
    BY <1>0, <2>1, Statuses, Reactions DEF Answered
  <2>3. DeleteOK(k, v, t)
    BY <1>0 DEF DeleteOK
  <2>4. QED
    BY <1>0, <2>2, <2>3, ErrorGood, Statuses DEF Good
<1>3. CASE Exists(s, a) /\ s.rules[a] # None
  <2>1. r.status = 409
    BY <1>1, <1>3 DEF PostRule, Reply
  <2>2. Answered(s, k) = OnError(k, ErrorOf(409))
    BY <1>0, <2>1, Statuses, Reactions DEF Answered
  <2>3. v.meddled \/ k.tries > 0
    BY <1>0, <1>3 DEF RuleOK
  <2>4. DeleteOK(k, v, t)
    BY <1>0 DEF DeleteOK
  <2>5. QED
    BY <1>0, <2>2, <2>3, <2>4, ErrorGood, Statuses DEF Good
<1>4. CASE Exists(s, a) /\ s.rules[a] = None
  <2>1. t = [s EXCEPT !.rules[a] = l] /\ r.status = 204
    BY <1>1, <1>4 DEF PostRule, Reply
  <2>2. t.rules[a] = l
    <3>1. SetsRule(s, t, a, l)
      BY <1>0, <1>4, <2>1, RuleEvolves
    <3>2. QED
      BY <3>1 DEF SetsRule
  <2>3. Answered(s, k) = Done(k, Plain("ok")) /\ l \in v.levels
    BY <2>1, <2>2, Statuses, Reactions DEF Answered
  <2>4. QED
    BY <1>0, <2>3, RuleSet
<1>5. QED
  BY <1>2, <1>3, <1>4

\* Whatever the request, its answer leaves the call as it should be.
LEMMA ServedGood ==
  ASSUME NEW s, WellFormed(s), NEW k, CallOK(k), k.pc \in Request, NEW w, WatchOK(w),
         Knows(k, w, s), NEW c, NEW t, t = Answer(s, k).server,
         NEW v, v = WatchAfter(k, w, s, t, c, c)
  PROVE  Good(Answered(s, k), v, t)
<1>1. Evolves(s, t)
  BY AnswerEvolves
<1>2. MetaOK(k, v, t) /\ DeleteOK(k, v, t)
  BY <1>1, KnowsStill
<1>3. t.rules[k.target] \in v.levels /\ (w.meddled => v.meddled)
  <2>1. IsWatched(v, k, w, s, t, c, c)
    BY Watched
  <2>2. QED
    BY <2>1 DEF IsWatched
<1>4. k.pc \in {"meta", "content", "by_id", "search", "page"} => t = s
  BY ReadsChangeNothing
<1>5. CASE k.pc \in {"meta", "content", "by_id", "search", "page"}
  BY <1>2, <1>4, <1>5, MetaGood, ContentGood, ByIdGood, SearchGood, PageGood
<1>6. CASE k.pc \in {"create", "delete", "delete_version", "get_rule"}
  BY <1>2, <1>6, CreateGood, DeleteGood, OtherGood
<1>7. CASE k.pc = "put"
  BY <1>3, <1>7, PutGood
<1>8. CASE k.pc = "post"
  <2>1. RuleOK(k, w, s)
    BY <1>8 DEF Knows
  <2>2. QED
    BY <1>3, <1>8, <2>1, PostGood
<1>9. QED
  BY <1>5, <1>6, <1>7, <1>8 DEF Request

\* A call whose attempt failed: it sends the request again or gives up.
Repeated(k) ==
  IF k.tries < MaxRetries THEN [k EXCEPT !.tries = @ + 1] ELSE OnError(k, Plain("network"))

LEMMA RepeatedGood ==
  ASSUME NEW k, CallOK(k), k.pc \in Request, NEW w, NEW s, MetaOK(k, w, s), DeleteOK(k, w, s)
  PROVE  Good(Repeated(k), w, s)
<1>1. CASE k.tries < MaxRetries
  <2>0. /\ k.tries \in Nat /\ k.args \in Call /\ k.target = Target(k.args) /\ k.target # None
        /\ k.args.op \in Senders(k.pc) /\ CallShape(k) /\ k.pc \notin {"idle", "done"}
    BY DEF CallOK, Request
  <2> DEFINE m == Repeated(k)
  <2>1. m = [k EXCEPT !.tries = k.tries + 1]
    BY <1>1 DEF Repeated
  <2> HIDE DEF m
  <2>2. /\ CallShape(m) /\ m.pc = k.pc /\ m.args = k.args /\ m.target = k.target
        /\ m.tries = k.tries + 1 /\ m.meta = k.meta
    BY ONLY <2>0, <2>1 DEF CallShape
  <2>3. CallOK(m)
    BY <2>0, <2>2 DEF CallOK
  <2>4. MetaOK(m, w, s)
    BY <2>2 DEF MetaOK, StillNamed
  <2>5. DeleteOK(m, w, s) /\ RuleOK(m, w, s) /\ SchemaOK(m, w, s)
    BY <2>0, <2>2 DEF DeleteOK, RuleOK, SchemaOK
  <2>6. QED
    BY <2>3, <2>4, <2>5 DEF Knows, Good, m
<1>2. CASE ~(k.tries < MaxRetries)
  <2>1. Repeated(k) = OnError(k, Plain("network"))
    BY <1>2 DEF Repeated
  <2>2. QED
    BY <2>1, ErrorGood, Statuses DEF Good
<1>3. QED
  BY <1>1, <1>2

------------------------------------------------------------------------------
(***************************************************************************)
(* The steps.                                                              *)
(***************************************************************************)
\* A step of client c that leaves the registry alone.
LEMMA OwnStep ==
  ASSUME ApicurioInv, NEW c \in Client, server' = server,
         NEW k, CallOK(k), call' = [call EXCEPT ![c] = k],
         NEW w, WatchOK(w), watch' = [watch EXCEPT ![c] = w], Knows(k, w, server)
  PROVE  ApicurioInv'
<1>0. /\ WellFormed(server) /\ call = [d \in Client |-> call[d]]
      /\ watch = [d \in Client |-> watch[d]]
      /\ \A d \in Client : CallOK(call[d]) /\ WatchOK(watch[d]) /\ Knows(call[d], watch[d], server)
  BY DEF ApicurioInv
<1>1. /\ call' = [d \in Client |-> call'[d]] /\ call'[c] = k
      /\ \A d \in Client : d # c => call'[d] = call[d]
  BY <1>0
<1>2. /\ watch' = [d \in Client |-> watch'[d]] /\ watch'[c] = w
      /\ \A d \in Client : d # c => watch'[d] = watch[d]
  BY <1>0
<1>3. \A d \in Client : /\ CallOK(call'[d]) /\ WatchOK(watch'[d])
                        /\ Knows(call'[d], watch'[d], server')
  BY <1>0, <1>1, <1>2
<1>4. QED
  BY <1>0, <1>1, <1>2, <1>3 DEF ApicurioInv

LEMMA FirstIs ==
  ASSUME NEW op \in DOMAIN FirstRequest
  PROVE  /\ FirstRequest[op] \in Request \ {"content", "delete", "post"}
         /\ op \in Senders(FirstRequest[op])
<1>1. op \in {"version", "by_id", "register", "lookup", "subjects", "versions",
              "delete_subject", "delete_version", "set_rule", "get_rule"}
  BY DEF FirstRequest
<1>2. CASE op \in {"version", "by_id", "register", "lookup"}
  BY <1>2, SendersAre DEF FirstRequest, Request
<1>3. CASE op \in {"subjects", "versions", "delete_subject"}
  BY <1>3, SendersAre DEF FirstRequest, Request
<1>4. CASE op \in {"delete_version", "set_rule", "get_rule"}
  BY <1>4, SendersAre DEF FirstRequest, Request
<1>5. QED
  BY <1>1, <1>2, <1>3, <1>4

LEMMA BeginStep ==
  ASSUME ApicurioInv, NEW c \in Client, NEW k \in Call, Begin(c, k)
  PROVE  ApicurioInv'
<1> DEFINE a == Target(k)
           p == IF a = None THEN "done" ELSE FirstRequest[k.op]
           o == IF a = None THEN Plain("config") ELSE None
           m == [Idle EXCEPT !.args = k, !.target = a, !.pc = p, !.result = o]
           w == IF a = None THEN NoWatch ELSE StartWatch(server, a)
<1>1. /\ call' = [call EXCEPT ![c] = m] /\ watch' = [watch EXCEPT ![c] = w]
      /\ server' = server /\ WellFormed(server)
  BY DEF Begin, ApicurioInv
<1>2. /\ k.op \in DOMAIN FirstRequest /\ a \in Scopes \cup {None}
      /\ k.op \notin {"set_rule", "get_rule", "by_id", "subjects"} => a # Global
  BY CallAssumption
<1>3. a # None => /\ p \in Request \ {"content", "delete", "post"} /\ k.op \in Senders(p)
                  /\ p \notin {"content", "post", "done", "idle"}
  BY <1>2, FirstIs DEF Request
<1>4. /\ m.pc = p /\ m.args = k /\ m.target = a /\ m.result = o /\ m.tries = 0 /\ CallShape(m)
  <2>1. CallShape(Idle) /\ Idle.tries = 0
    BY DEF Idle, CallShape
  <2> HIDE DEF a, p, o
  <2>2. ASSUME NEW n, n = [Idle EXCEPT !.args = k, !.target = a, !.pc = p, !.result = o]
        PROVE  /\ n.pc = p /\ n.args = k /\ n.target = a /\ n.result = o /\ n.tries = 0
               /\ CallShape(n)
    BY ONLY <2>1, <2>2 DEF CallShape
  <2>3. QED
    BY <2>2
<1>5. a = None => p = "done" /\ o.kind = "config"
  BY Statuses
<1> HIDE DEF m, p, o
<1>6. CallOK(m)
  BY <1>3, <1>4, <1>5 DEF CallOK, Request
<1>7. WatchOK(w) /\ (a # None => w.began = IF a = Global THEN {} ELSE Gids(server, a))
  <2>1. CASE a = None
    BY <2>1 DEF NoWatch, WatchOK, WatchShape
  <2>2. CASE a # None
    BY <2>2 DEF StartWatch, NoWatch, WatchOK, WatchShape
  <2>3. QED
    BY <2>1, <2>2
<1>8. Knows(m, w, server)
  <2>1. CASE a = None
    BY <1>4, <1>5, <2>1 DEF Knows, MetaOK, SchemaOK, DeleteOK, RuleOK, Request
  <2>2. CASE a # None
    <3>1. MetaOK(m, w, server) /\ SchemaOK(m, w, server) /\ RuleOK(m, w, server)
      BY <1>3, <1>4, <2>2 DEF MetaOK, SchemaOK, RuleOK
    <3>2. DeleteOK(m, w, server)
      <4> SUFFICES ASSUME k.op = "delete_subject" PROVE DeleteOK(m, w, server)
        BY <1>4 DEF DeleteOK
      <4>1. a \in Artifacts /\ w.began = Gids(server, a)
        BY <1>2, <1>7, <2>2 DEF Scopes
      <4>2. /\ w.began \subseteq DOMAIN server.texts
            /\ \A b \in Artifacts : b # a => w.began \cap Gids(server, b) = {}
        BY <1>1, <4>1, RegistryFacts
      <4>3. QED
        BY <1>3, <1>4, <2>2, <4>2 DEF DeleteOK
    <3>3. QED
      BY <3>1, <3>2 DEF Knows
  <2>3. QED
    BY <2>1, <2>2
<1> HIDE DEF w
<1>9. QED
  BY <1>1, <1>6, <1>7, <1>8, OwnStep

LEMMA ServeStep ==
  ASSUME ApicurioInv, NEW c \in Client, Serve(c)
  PROVE  ApicurioInv'
<1> DEFINE k == call[c]
           w == watch[c]
           t == Answer(server, k).server
           m == Answered(server, k)
           v == WatchAfter(k, w, server, t, c, c)
<1>1. CallOK(k) /\ WatchOK(w) /\ Knows(k, w, server) /\ WellFormed(server)
  BY DEF ApicurioInv
<1>2. /\ k.pc \in Request /\ server' = t /\ Watch(c, t) /\ call' = [call EXCEPT ![c] = m]
  BY <1>1 DEF Serve, InCall, Answered, CallOK
<1>3. Evolves(server, t)
  BY <1>1, <1>2, AnswerEvolves
<1>4. Good(m, v, t)
  BY <1>1, <1>2, ServedGood
<1>5. QED
  <2> HIDE DEF t, m
  <2>1. CallOK(m) /\ Knows(m, WatchAfter(call[c], watch[c], server, t, c, c), t)
    BY <1>4 DEF Good
  <2>2. QED
    BY <1>2, <1>3, <2>1, OneCall

LEMMA AnswerLostStep ==
  ASSUME ApicurioInv, NEW c \in Client, AnswerLost(c)
  PROVE  ApicurioInv'
<1> DEFINE k == call[c]
           w == watch[c]
           t == Answer(server, k).server
           m == Repeated(k)
           v == WatchAfter(k, w, server, t, c, c)
<1>1. CallOK(k) /\ WatchOK(w) /\ Knows(k, w, server) /\ WellFormed(server)
  BY DEF ApicurioInv
<1>2. /\ k.pc \in Request /\ server' = t /\ Watch(c, t) /\ call' = [call EXCEPT ![c] = m]
  BY <1>1 DEF AnswerLost, Again, InCall, Repeated, CallOK
<1>3. Evolves(server, t)
  BY <1>1, <1>2, AnswerEvolves
<1>4. MetaOK(k, v, t) /\ DeleteOK(k, v, t)
  BY <1>1, <1>2, <1>3, KnowsStill
<1>5. Good(m, v, t)
  BY <1>1, <1>2, <1>4, RepeatedGood
<1>6. QED
  <2> HIDE DEF t, m
  <2>1. CallOK(m) /\ Knows(m, WatchAfter(call[c], watch[c], server, t, c, c), t)
    BY <1>5 DEF Good
  <2>2. QED
    BY <1>2, <1>3, <2>1, OneCall

LEMMA RequestLostStep ==
  ASSUME ApicurioInv, NEW c \in Client, RequestLost(c)
  PROVE  ApicurioInv'
<1> DEFINE k == call[c]
           w == watch[c]
           m == Repeated(k)
<1>1. /\ CallOK(k) /\ WatchOK(w) /\ Knows(k, w, server)
      /\ watch = [d \in Client |-> watch[d]]
  BY DEF ApicurioInv
<1>2. k.pc \in Request /\ server' = server /\ watch' = watch /\ call' = [call EXCEPT ![c] = m]
  BY <1>1 DEF RequestLost, Again, InCall, Repeated, CallOK
<1>3. MetaOK(k, w, server) /\ DeleteOK(k, w, server)
  BY <1>1, <1>2 DEF Knows, Request
<1>4. Good(m, w, server)
  BY <1>1, <1>2, <1>3, RepeatedGood
<1>5. watch' = [watch EXCEPT ![c] = w]
  BY <1>1, <1>2
<1> HIDE DEF m
<1>6. QED
  BY <1>1, <1>2, <1>4, <1>5, OwnStep DEF Good

LEMMA ReturnStep ==
  ASSUME ApicurioInv, NEW c \in Client, Return(c)
  PROVE  ApicurioInv'
<1>1. CallOK(Idle) /\ Idle.pc = "idle"
  BY DEF CallOK, CallShape, Idle, Request
<1>2. WatchOK(NoWatch) /\ Knows(Idle, NoWatch, server)
  BY <1>1 DEF WatchOK, WatchShape, NoWatch, Knows
<1>3. QED
  BY <1>1, <1>2, OwnStep DEF Return

LEMMA Starts == Init => ApicurioInv
<1> SUFFICES ASSUME Init PROVE ApicurioInv
  OBVIOUS
<1>1. CallOK(Idle) /\ Idle.pc = "idle"
  BY DEF CallOK, CallShape, Idle, Request
<1>2. WatchOK(NoWatch) /\ Knows(Idle, NoWatch, server)
  BY <1>1 DEF WatchOK, WatchShape, NoWatch, Knows
<1>3. WellFormed(server)
  BY CallAssumption DEF Init
<1>4. \A c \in Client : call[c] = Idle /\ watch[c] = NoWatch
  BY DEF Init
<1>5. call = [c \in Client |-> call[c]] /\ watch = [c \in Client |-> watch[c]]
  BY DEF Init
<1>6. QED
  BY <1>1, <1>2, <1>3, <1>4, <1>5 DEF ApicurioInv

\* Every step of every client preserves the invariant.
LEMMA Step == ApicurioInv /\ [Next]_vars => ApicurioInv'
<1> SUFFICES ASSUME ApicurioInv, [Next]_vars PROVE ApicurioInv'
  OBVIOUS
<1>1. CASE UNCHANGED vars
  BY <1>1 DEF vars, ApicurioInv
<1>2. ASSUME NEW c \in Client, NEW k \in Call, Begin(c, k) PROVE ApicurioInv'
  BY <1>2, BeginStep
<1>3. ASSUME NEW c \in Client, Serve(c) PROVE ApicurioInv'
  BY <1>3, ServeStep
<1>4. ASSUME NEW c \in Client, AnswerLost(c) PROVE ApicurioInv'
  BY <1>4, AnswerLostStep
<1>5. ASSUME NEW c \in Client, RequestLost(c) PROVE ApicurioInv'
  BY <1>5, RequestLostStep
<1>6. ASSUME NEW c \in Client, Return(c) PROVE ApicurioInv'
  BY <1>6, ReturnStep
<1>7. QED
  BY <1>1, <1>2, <1>3, <1>4, <1>5, <1>6 DEF Next

------------------------------------------------------------------------------
\* The registry stays well formed, and each call knows what its answers and the
\* requests of the other clients since then entail.
THEOREM ApicurioInvariant == Spec => []ApicurioInv
<1>1. QED
  BY Starts, Step, PTL DEF Spec

\* The ID of a schema that version_schema, get_schema_by_id, register_schema or
\* lookup_schema returns names the text returned, but for a version deleted, or
\* the latest replaced, between the requests for its metadata and its content.
THEOREM IdsNameTheirText == Spec => []IdNamesText
<1>1. ApicurioInv => IdNamesText
  <2> SUFFICES ASSUME ApicurioInv, NEW c \in Client, Finished(c, DOMAIN FirstRequest, "schema")
               PROVE  \/ server.texts[call[c].result.gid] = call[c].result.text
                      \/ call[c].args.op = "version" /\ watch[c].shrunk
                      \/ call[c].args.op = "version" /\ call[c].args.arg < 0 /\ watch[c].grown
    BY DEF IdNamesText
  <2>1. SchemaOK(call[c], watch[c], server) /\ call[c].pc = "done" /\ call[c].result.kind = "schema"
    BY DEF ApicurioInv, Knows, Finished
  <2>2. QED
    BY <2>1 DEF SchemaOK
<1>2. QED
  BY <1>1, ApicurioInvariant, PTL

\* When delete_subject returns Ok, none of the versions that were there when it
\* was called is left, whatever its list held and however often it was sent.
THEOREM DeletesAreDone == Spec => []DeleteIsDone
<1>1. ApicurioInv => DeleteIsDone
  <2> SUFFICES ASSUME ApicurioInv, NEW c \in Client, Finished(c, {"delete_subject"}, "ok"),
                      NEW a \in Artifacts
               PROVE  watch[c].began \cap Gids(server, a) = {}
    BY DEF DeleteIsDone
  <2>1. /\ DeleteOK(call[c], watch[c], server) /\ call[c].args.op = "delete_subject"
        /\ call[c].pc = "done" /\ call[c].result.kind = "ok"
    BY DEF ApicurioInv, Knows, Finished
  <2>2. QED
    BY <2>1 DEF DeleteOK
<1>2. QED
  BY <1>1, ApicurioInvariant, PTL

\* set_compatibility has set its level when it returns Ok, and reports a conflict
\* only if another client changed the rule meanwhile or it repeated its POST.
THEOREM RulesAreSet == Spec => []RuleIsSet
<1>1. ApicurioInv => RuleIsSet
  <2> SUFFICES ASSUME ApicurioInv, NEW c \in Client
               PROVE  /\ Finished(c, {"set_rule"}, "ok") => call[c].args.arg \in watch[c].levels
                      /\ Finished(c, {"set_rule"}, "conflict") =>
                           watch[c].meddled \/ call[c].tries > 0
    BY DEF RuleIsSet
  <2>1. call[c].pc = "done" => RuleOK(call[c], watch[c], server)
    BY DEF ApicurioInv, Knows
  <2>2. QED
    BY <2>1 DEF RuleOK, Finished
<1>2. QED
  BY <1>1, ApicurioInvariant, PTL

------------------------------------------------------------------------------
(***************************************************************************)
(* Walks.  What a listing holds before an entry grows only when it grows,  *)
(* and shrinks only when it shrinks.                                       *)
(***************************************************************************)
Walks == {"subjects", "versions"}
Listed == Artifacts \cup Version

\* What is left of the listing s holds for a call.
Ahead(k, s) ==
  LET all == Listing(s, k.target)
  IN  {all[i] : i \in {j \in DOMAIN all : j > k.offset}}

\* In the middle of a walk: what has been there all the time is seen or ahead,
\* unless an entry was removed; what is ahead is not yet seen, unless one was added.
PageOK(k, w, s) ==
  /\ k.out \in Seq(Listed) /\ k.offset \in Nat
  /\ k.args.op = "subjects" => k.offset = Len(k.out) /\ Len(k.out) < k.args.arg
  /\ w.shrunk \/ \A x \in w.steady : Reads(k, x) => x \in ToSet(k.out) \cup Ahead(k, s)
  /\ w.grown \/ (IsInjective(k.out) /\ ToSet(k.out) \cap Ahead(k, s) = {})

\* At its end.
EndOK(k, w) ==
  /\ k.args.op = "subjects" => Len(k.out) <= k.args.arg
  /\ \/ k.args.op = "subjects" /\ Len(k.out) >= k.args.arg
     \/ w.shrunk
     \/ \A x \in w.steady : Reads(k, x) => x \in ToSet(k.out)
  /\ w.grown \/ IsInjective(k.out)

WalkOK(k, w, s) ==
  /\ k.pc = "page" /\ k.args.op \in Walks => PageOK(k, w, s)
  /\ k.pc = "done" /\ k.args.op \in Walks /\ k.result.kind = "list" => EndOK(k, w)

WalkInv == \A c \in Client : WalkOK(call[c], watch[c], server)

\* Ranks number the places from 1 on, in their order.
LEMMA Ranks ==
  ASSUME NEW n \in Nat, NEW places \in SUBSET (1..n)
  PROVE  /\ Cardinality(places) \in Nat
         /\ \A i \in places : Rank(places, i) \in 1..Cardinality(places)
         /\ \A i, j \in places : i < j => Rank(places, i) < Rank(places, j)
         /\ \A m \in 1..Cardinality(places) : \E i \in places : Rank(places, i) = m
<1> DEFINE upTo(i) == {j \in places : j <= i}
           size == Cardinality(places)
           rank == [i \in places |-> Rank(places, i)]
<1>0. \A i \in places : i \in Nat
  OBVIOUS
<1>1. IsFiniteSet(places) /\ size \in Nat
  <2>1. IsFiniteSet(1..n)
    BY FS_Interval
  <2>2. IsFiniteSet(places)
    BY <2>1, FS_Subset
  <2>3. QED
    BY <2>2, FS_CardinalityType
<1>2. ASSUME NEW i \in places
      PROVE  IsFiniteSet(upTo(i)) /\ Rank(places, i) \in 1..size /\ Rank(places, i) \in Nat
  <2>1. upTo(i) \in SUBSET places
    OBVIOUS
  <2>2. IsFiniteSet(upTo(i)) /\ Cardinality(upTo(i)) <= size
    BY <1>1, <2>1, FS_Subset
  <2>3. Cardinality(upTo(i)) \in Nat
    BY <2>2, FS_CardinalityType
  <2>4. i \in upTo(i)
    OBVIOUS
  <2>5. Cardinality(upTo(i)) # 0
    BY <2>2, <2>4, FS_EmptySet
  <2>6. Rank(places, i) = Cardinality(upTo(i))
    BY DEF Rank
  <2> HIDE DEF upTo, size
  <2>7. QED
    BY <1>1, <2>2, <2>3, <2>5, <2>6
<1>3. ASSUME NEW i \in places, NEW j \in places, i < j
      PROVE  Rank(places, i) < Rank(places, j)
  <2>0. i \in Nat /\ j \in Nat /\ \A h \in places : h <= i => h <= j
    BY <1>0, <1>3
  <2>1. upTo(i) \in SUBSET upTo(j) /\ j \in upTo(j) /\ j \notin upTo(i)
    <3>1. upTo(i) \subseteq upTo(j)
      BY <2>0
    <3>2. j <= j /\ ~(j <= i)
      BY <1>3, <2>0
    <3>3. QED
      BY <3>1, <3>2
  <2>2. /\ Cardinality(upTo(i)) <= Cardinality(upTo(j))
        /\ Cardinality(upTo(j)) = Cardinality(upTo(i)) => upTo(j) = upTo(i)
    <3> HIDE DEF upTo
    <3>1. QED
      BY <1>2, <2>1, FS_Subset
  <2>3. Cardinality(upTo(i)) # Cardinality(upTo(j))
    BY <2>1, <2>2
  <2>4. Rank(places, i) = Cardinality(upTo(i)) /\ Rank(places, j) = Cardinality(upTo(j))
    BY DEF Rank
  <2>5. Rank(places, i) \in Nat /\ Rank(places, j) \in Nat
    BY <1>2
  <2> HIDE DEF upTo
  <2>6. QED
    BY <2>2, <2>3, <2>4, <2>5
<1>4. rank \in Injection(places, 1..size)
  <2>1. rank \in [places -> 1..size]
    BY <1>2
  <2>2. ASSUME NEW i \in places, NEW j \in places, Rank(places, i) = Rank(places, j)
        PROVE  i = j
    <3>1. Rank(places, i) \in Nat /\ Rank(places, j) \in Nat
      BY <1>2
    <3>2. ~(i < j) /\ ~(j < i)
      BY <1>3, <2>2, <3>1
    <3>3. QED
      BY <1>0, <3>2
  <2>3. IsInjective(rank)
    BY <2>2 DEF IsInjective
  <2>4. QED
    BY <2>1, <2>3 DEF Injection
<1>5. rank \in Surjection(places, 1..size)
  <2>1. IsFiniteSet(1..size) /\ Cardinality(1..size) = size
    BY <1>1, FS_Interval
  <2> HIDE DEF rank
  <2>2. QED
    BY <1>4, <2>1, FS_Injection
<1>6. \A m \in 1..size : \E i \in places : Rank(places, i) = m
  BY <1>5 DEF Surjection
<1>7. QED
  BY <1>1, <1>2, <1>3, <1>6

\* A selection holds what stands at the places selected, each at its rank.
LEMMA Selected ==
  ASSUME NEW S, NEW q \in Seq(S), NEW places \in SUBSET DOMAIN q,
         NEW p, p = AtPlaces(q, places)
  PROVE  /\ p \in Seq(S) /\ Len(p) = Cardinality(places)
         /\ \A m \in DOMAIN p : \E i \in places : p[m] = q[i] /\ Rank(places, i) = m
         /\ \A i \in places : Rank(places, i) \in DOMAIN p /\ p[Rank(places, i)] = q[i]
<1> DEFINE size == Cardinality(places)
           at(m) == CHOOSE i \in places : Rank(places, i) = m
<1>1. places \in SUBSET (1..Len(q)) /\ Len(q) \in Nat
  OBVIOUS
<1>2. p = [m \in 1..size |-> q[at(m)]]
  BY DEF AtPlaces
<1>3. /\ size \in Nat /\ \A i \in places : Rank(places, i) \in 1..size
      /\ \A i, j \in places : i < j => Rank(places, i) < Rank(places, j)
      /\ \A m \in 1..size : \E i \in places : Rank(places, i) = m
  BY <1>1, Ranks
<1>4. ASSUME NEW m \in 1..size PROVE at(m) \in places /\ Rank(places, at(m)) = m
  BY <1>3
<1>5. ASSUME NEW i \in places PROVE at(Rank(places, i)) = i
  <2> DEFINE j == at(Rank(places, i))
  <2>1. j \in places /\ Rank(places, j) = Rank(places, i) /\ Rank(places, i) \in Nat
    BY <1>3, <1>4
  <2> HIDE DEF j
  <2>2. ~(i < j) /\ ~(j < i) /\ i \in Nat /\ j \in Nat
    BY <1>1, <1>3, <2>1
  <2>3. i = j
    BY <2>2
  <2>4. QED
    BY <2>3 DEF j
<1> HIDE DEF at
<1>6. \A i \in places : q[i] \in S
  BY <1>1
<1>7. p \in Seq(S) /\ DOMAIN p = 1..size /\ Len(p) = size
  <2> HIDE DEF size
  <2>1. p \in Seq(S) /\ DOMAIN p = 1..size
    BY <1>2, <1>3, <1>4, <1>6, IsASeq
  <2>2. Len(p) \in Nat /\ DOMAIN p = 1..Len(p)
    BY <2>1
  <2>3. QED
    BY <1>3, <2>1, <2>2
<1>8. \A m \in DOMAIN p : \E i \in places : p[m] = q[i] /\ Rank(places, i) = m
  BY <1>2, <1>4, <1>7
<1>9. \A i \in places : Rank(places, i) \in DOMAIN p /\ p[Rank(places, i)] = q[i]
  BY <1>2, <1>3, <1>5, <1>7
<1>10. QED
  BY <1>7, <1>8, <1>9

\* A search lists the artifacts that are there, each at its rank.
LEMMA SearchLists ==
  ASSUME NEW s
  PROVE  LET all == Listing(s, Global) IN
         /\ all \in Seq(Artifacts)
         /\ \A m \in DOMAIN all : \E i \in Present(s) :
              all[m] = Order[i] /\ Rank(Present(s), i) = m
         /\ \A i \in Present(s) : Rank(Present(s), i) \in DOMAIN all
                                  /\ all[Rank(Present(s), i)] = Order[i]
<1>1. Order \in Seq(Artifacts) /\ Present(s) \in SUBSET DOMAIN Order
  BY OrderAssumption DEF Present
<1>2. Listing(s, Global) = AtPlaces(Order, Present(s))
  BY DEF Listing
<1>3. QED
  BY <1>1, <1>2, Selected

\* Every listing names an entry once.
LEMMA ListsOnce ==
  ASSUME NEW s, WellFormed(s), NEW a \in Scopes
  PROVE  Listing(s, a) \in Seq(Listed) /\ IsInjective(Listing(s, a))
<1>1. CASE a = Global
  <2> DEFINE all == Listing(s, Global)
             places == Present(s)
  <2>1. /\ all \in Seq(Artifacts)
        /\ \A m \in DOMAIN all : \E i \in places : all[m] = Order[i] /\ Rank(places, i) = m
    BY SearchLists
  <2> HIDE DEF all
  <2>2. ASSUME NEW m \in DOMAIN all, NEW n \in DOMAIN all, all[m] = all[n]
        PROVE  m = n
    <3>1. PICK i \in places : all[m] = Order[i] /\ Rank(places, i) = m
      BY <2>1
    <3>2. PICK j \in places : all[n] = Order[j] /\ Rank(places, j) = n
      BY <2>1
    <3>3. i \in DOMAIN Order /\ j \in DOMAIN Order
      BY DEF Present
    <3>4. i = j
      BY <2>2, <3>1, <3>2, <3>3, OrderAssumption DEF IsInjective
    <3>5. QED
      BY <3>1, <3>2, <3>4
  <2>3. IsInjective(all)
    BY <2>2 DEF IsInjective
  <2>4. all \in Seq(Listed)
    BY <2>1, SeqMonotonic DEF Listed
  <2>5. QED
    BY <1>1, <2>3, <2>4 DEF all
<1>2. CASE a # Global
  <2>1. a \in Artifacts /\ Listing(s, a) = s.versions[a]
    BY <1>2 DEF Scopes, Listing
  <2> DEFINE all == s.versions[a]
  <2>2. all \in Seq(Version) /\ Ascending(all)
    BY <2>1, RegistryFacts
  <2> HIDE DEF all
  <2>3. ASSUME NEW m \in DOMAIN all, NEW n \in DOMAIN all, all[m] = all[n]
        PROVE  m = n
    <3>0. all[m] \in Version /\ m \in Nat /\ n \in Nat
      BY <2>2
    <3>1. m \in Nat /\ n \in Nat /\ all[m].number \in Nat
      BY <3>0 DEF Version
    <3>2. ~(m < n) /\ ~(n < m)
      BY <2>2, <2>3, <3>1 DEF Ascending
    <3>3. QED
      BY <3>1, <3>2
  <2>4. IsInjective(all)
    BY <2>3 DEF IsInjective
  <2>5. all \in Seq(Listed)
    BY <2>2, SeqMonotonic DEF Listed
  <2>6. QED
    BY <2>1, <2>4, <2>5 DEF all
<1>3. QED
  BY <1>1, <1>2

\* Ascending versions that all stand in another such list stand no further on in it.
LEMMA VersionsMove ==
  ASSUME NEW p \in Seq(Version), NEW q \in Seq(Version), Ascending(p), Ascending(q),
         ToSet(p) \subseteq ToSet(q), NEW i \in DOMAIN p, NEW j \in DOMAIN q, p[i] = q[j]
  PROVE  i <= j
<1> DEFINE f == [h \in 1..i |-> CHOOSE g \in DOMAIN q : q[g] = p[h]]
<1>0. /\ i \in Nat /\ j \in Nat /\ \A h \in 1..i : h \in DOMAIN p
      /\ \A h \in DOMAIN p : p[h].number \in Nat
      /\ \A h \in DOMAIN q : q[h].number \in Nat /\ h \in Nat /\ h >= 1
  <2>1. i \in Nat /\ j \in Nat /\ \A h \in 1..i : h \in DOMAIN p
    OBVIOUS
  <2>2. \A h \in DOMAIN p : p[h] \in Version
    OBVIOUS
  <2>3. \A h \in DOMAIN q : q[h] \in Version /\ h \in Nat /\ h >= 1
    OBVIOUS
  <2>4. \A v \in Version : v.number \in Nat
    BY DEF Version
  <2>5. QED
    BY <2>1, <2>2, <2>3, <2>4
<1>1. ASSUME NEW h \in 1..i PROVE f[h] \in 1..j /\ q[f[h]] = p[h]
  <2>1. p[h] \in ToSet(p)
    BY <1>0 DEF ToSet
  <2>2. \E g \in DOMAIN q : q[g] = p[h]
    BY <2>1 DEF ToSet
  <2>3. f[h] \in DOMAIN q /\ q[f[h]] = p[h]
    BY <2>2
  <2> HIDE DEF f
  <2>4. p[h].number <= p[i].number
    <3>1. CASE h = i
      BY <1>0, <3>1
    <3>2. CASE h # i
      <4>1. h < i
        BY <1>0, <3>2
      <4>2. QED
        BY <1>0, <4>1 DEF Ascending
    <3>3. QED
      BY <3>1, <3>2
  <2>5. ~(j < f[h])
    BY <1>0, <2>3, <2>4 DEF Ascending
  <2>6. QED
    BY <1>0, <2>3, <2>5
<1>2. f \in Injection(1..i, 1..j)
  <2>1. f \in [1..i -> 1..j]
    BY <1>1
  <2>2. ASSUME NEW g \in 1..i, NEW h \in 1..i, f[g] = f[h] PROVE g = h
    <3>1. p[g] = p[h]
      BY <1>1, <2>2
    <3>2. ~(g < h) /\ ~(h < g)
      BY <1>0, <3>1 DEF Ascending
    <3>3. QED
      BY <3>2
  <2>3. IsInjective(f)
    <3>1. DOMAIN f = 1..i
      OBVIOUS
    <3> HIDE DEF f
    <3>2. QED
      BY <2>2, <3>1 DEF IsInjective
  <2>4. QED
    BY <2>1, <2>3 DEF Injection
<1> HIDE DEF f
<1>3. /\ IsFiniteSet(1..i) /\ Cardinality(1..i) = i
      /\ IsFiniteSet(1..j) /\ Cardinality(1..j) = j
  <2>1. i >= 1 /\ j >= 1
    BY <1>0
  <2>2. QED
    BY <1>0, <2>1, FS_Interval
<1>4. Cardinality(1..i) <= Cardinality(1..j)
  BY <1>2, <1>3, FS_Injection
<1>5. QED
  BY <1>3, <1>4

\* A listing without removals moves its entries no closer to its start.
LEMMA EntriesMove ==
  ASSUME NEW s, WellFormed(s), NEW t, WellFormed(t), NEW a \in Scopes,
         Entries(s, a) \subseteq Entries(t, a),
         NEW i \in DOMAIN Listing(s, a), NEW j \in DOMAIN Listing(t, a),
         Listing(s, a)[i] = Listing(t, a)[j]
  PROVE  i <= j
<1>1. CASE a = Global
  <2> DEFINE p == Listing(s, Global)
             q == Listing(t, Global)
  <2>1. /\ \A m \in DOMAIN p : \E h \in Present(s) : p[m] = Order[h] /\ Rank(Present(s), h) = m
        /\ \A h \in Present(s) : Rank(Present(s), h) \in DOMAIN p
                                 /\ p[Rank(Present(s), h)] = Order[h]
    BY SearchLists
  <2>2. /\ \A m \in DOMAIN q : \E h \in Present(t) : q[m] = Order[h] /\ Rank(Present(t), h) = m
    BY SearchLists
  <2>3. Entries(s, a) = {p[m] : m \in DOMAIN p} /\ Entries(t, a) = {q[m] : m \in DOMAIN q}
    BY <1>1 DEF Entries, ToSet
  <2>4. i \in DOMAIN p /\ j \in DOMAIN q /\ p[i] = q[j]
    BY <1>1
  <2> HIDE DEF p, q
  <2>5. Present(s) \subseteq Present(t)
    <3> SUFFICES ASSUME NEW h \in Present(s) PROVE h \in Present(t)
      OBVIOUS
    <3>1. Order[h] \in Entries(s, a)
      BY <2>1, <2>3
    <3>2. PICK m \in DOMAIN q : Order[h] = q[m]
      BY <2>3, <3>1
    <3>3. PICK g \in Present(t) : q[m] = Order[g]
      BY <2>2
    <3>4. g = h
      BY <3>2, <3>3, OrderAssumption DEF Present, IsInjective
    <3>5. QED
      BY <3>3, <3>4
  <2>6. PICK g \in Present(s) : p[i] = Order[g] /\ Rank(Present(s), g) = i
    BY <2>1, <2>4
  <2>7. PICK h \in Present(t) : q[j] = Order[h] /\ Rank(Present(t), h) = j
    BY <2>2, <2>4
  <2>8. g = h
    BY <2>4, <2>6, <2>7, OrderAssumption DEF Present, IsInjective
  <2> DEFINE x == {m \in Present(s) : m <= g}
             y == {m \in Present(t) : m <= g}
  <2>9. x \in SUBSET y
    BY <2>5
  <2>10. IsFiniteSet(y)
    <3>1. y \in SUBSET (1..Len(Order)) /\ Len(Order) \in Nat
      BY OrderAssumption DEF Present
    <3>2. IsFiniteSet(1..Len(Order))
      BY <3>1, FS_Interval
    <3> HIDE DEF y
    <3>3. QED
      BY <3>1, <3>2, FS_Subset
  <2>11. i = Cardinality(x) /\ j = Cardinality(y)
    BY <2>6, <2>7, <2>8 DEF Rank
  <2> HIDE DEF x, y
  <2>12. QED
    BY <2>9, <2>10, <2>11, FS_Subset
<1>2. CASE a # Global
  <2>1. a \in Artifacts /\ Listing(s, a) = s.versions[a] /\ Listing(t, a) = t.versions[a]
    BY <1>2 DEF Scopes, Listing
  <2>2. /\ s.versions[a] \in Seq(Version) /\ Ascending(s.versions[a])
        /\ t.versions[a] \in Seq(Version) /\ Ascending(t.versions[a])
    BY <2>1, RegistryFacts
  <2>3. ToSet(s.versions[a]) \subseteq ToSet(t.versions[a])
    BY <2>1 DEF Entries
  <2>4. QED
    BY <2>1, <2>2, <2>3, VersionsMove
<1>3. QED
  BY <1>1, <1>2

\* A walk goes on knowing what it knows while the registry changes.
LEMMA PageStays ==
  ASSUME NEW s, WellFormed(s), NEW t, WellFormed(t), NEW k, k.pc = "page", k.target \in Scopes,
         NEW w, WatchOK(w), NEW d, NEW c, NEW v, v = WatchAfter(k, w, s, t, d, c),
         PageOK(k, w, s)
  PROVE  PageOK(k, v, t)
<1> DEFINE old == Entries(s, k.target)
           new == Entries(t, k.target)
           p == Listing(s, k.target)
           q == Listing(t, k.target)
           seen == ToSet(k.out)
<1>1. /\ v.steady = w.steady \cap new
      /\ v.shrunk <=> w.shrunk \/ ~(old \subseteq new)
      /\ v.grown <=> w.grown \/ ~(new \subseteq old)
  <2>1. IsWatched(v, k, w, s, t, d, c)
    BY Watched
  <2>2. k.pc \in Reading
    BY DEF Reading
  <2>3. QED
    BY <2>1, <2>2 DEF IsWatched
<1>2. old = {p[i] : i \in DOMAIN p} /\ new = {q[j] : j \in DOMAIN q}
  BY DEF Entries, ToSet
<1>3. Ahead(k, s) = {p[i] : i \in {h \in DOMAIN p : h > k.offset}}
      /\ Ahead(k, t) = {q[i] : i \in {h \in DOMAIN q : h > k.offset}}
  BY DEF Ahead
<1>4. /\ \A i \in DOMAIN p, j \in DOMAIN q : old \subseteq new /\ p[i] = q[j] => i <= j
      /\ \A i \in DOMAIN p, j \in DOMAIN q : new \subseteq old /\ p[i] = q[j] => j <= i
  BY EntriesMove
<1>5. p \in Seq(Listed) /\ q \in Seq(Listed)
  BY ListsOnce
<1>6. /\ k.out \in Seq(Listed) /\ k.offset \in Nat
      /\ k.args.op = "subjects" => k.offset = Len(k.out) /\ Len(k.out) < k.args.arg
      /\ w.shrunk \/ \A x \in w.steady : Reads(k, x) => x \in seen \cup Ahead(k, s)
      /\ w.grown \/ (IsInjective(k.out) /\ seen \cap Ahead(k, s) = {})
  BY DEF PageOK
<1> HIDE DEF old, new, p, q, seen
<1>7. v.shrunk \/ \A x \in v.steady : Reads(k, x) => x \in seen \cup Ahead(k, t)
  <2> SUFFICES ASSUME ~v.shrunk, NEW x \in v.steady, Reads(k, x), x \notin seen
               PROVE  x \in Ahead(k, t)
    OBVIOUS
  <2>1. x \in w.steady /\ x \in new /\ old \subseteq new /\ ~w.shrunk
    BY <1>1
  <2>2. x \in Ahead(k, s)
    BY <1>6, <2>1
  <2>3. PICK i \in DOMAIN p : i > k.offset /\ p[i] = x
    BY <1>3, <2>2
  <2>4. PICK j \in DOMAIN q : q[j] = x
    BY <1>2, <2>1
  <2>5. i <= j
    BY <1>4, <2>1, <2>3, <2>4
  <2>6. j > k.offset
    BY <1>5, <1>6, <2>3, <2>4, <2>5
  <2>7. QED
    BY <1>3, <2>4, <2>6
<1>8. v.grown \/ seen \cap Ahead(k, t) = {}
  <2> SUFFICES ASSUME ~v.grown, NEW x \in seen, x \in Ahead(k, t) PROVE FALSE
    OBVIOUS
  <2>1. new \subseteq old /\ ~w.grown
    BY <1>1
  <2>2. PICK j \in DOMAIN q : j > k.offset /\ q[j] = x
    BY <1>3
  <2>3. PICK i \in DOMAIN p : p[i] = x
    BY <1>2, <2>1, <2>2
  <2>4. j <= i
    BY <1>4, <2>1, <2>2, <2>3
  <2>5. i > k.offset
    BY <1>5, <1>6, <2>2, <2>3, <2>4
  <2>6. x \in Ahead(k, s)
    BY <1>3, <2>3, <2>5
  <2>7. QED
    BY <1>6, <2>1, <2>6
<1>9. v.grown \/ IsInjective(k.out)
  BY <1>1, <1>6
<1>10. QED
  BY <1>6, <1>7, <1>8, <1>9 DEF PageOK, seen

\* Two sequences without a common entry, one after the other.
LEMMA Joined ==
  ASSUME NEW p \in Seq(Listed), NEW q \in Seq(Listed)
  PROVE  /\ p \o q \in Seq(Listed) /\ Len(p \o q) = Len(p) + Len(q)
         /\ ToSet(p \o q) = ToSet(p) \cup ToSet(q)
         /\ IsInjective(p) /\ IsInjective(q) /\ ToSet(p) \cap ToSet(q) = {} =>
              IsInjective(p \o q)
<1> DEFINE j == p \o q
           m == Len(p)
           n == Len(q)
<1>1. /\ j \in Seq(Listed) /\ Len(j) = m + n /\ m \in Nat /\ n \in Nat
      /\ \A i \in 1..Len(j) : j[i] = IF i <= m THEN p[i] ELSE q[i - m]
  BY ConcatProperties
<1>2. DOMAIN p = 1..m /\ DOMAIN q = 1..n /\ DOMAIN j = 1..(m + n)
  BY <1>1
<1> HIDE DEF j, m, n
<1>3. /\ \A i \in 1..m : i \in 1..(m + n) /\ j[i] = p[i]
      /\ \A i \in 1..n : i + m \in 1..(m + n) /\ j[i + m] = q[i]
  <2>1. ASSUME NEW i \in 1..m PROVE i \in 1..(m + n) /\ j[i] = p[i]
    BY <1>1
  <2>2. ASSUME NEW i \in 1..n PROVE i + m \in 1..(m + n) /\ j[i + m] = q[i]
    <3>1. i + m \in 1..(m + n) /\ ~(i + m <= m) /\ (i + m) - m = i
      BY <1>1
    <3>2. QED
      BY <1>1, <3>1
  <2>3. QED
    BY <2>1, <2>2
<1>4. ASSUME NEW i \in 1..(m + n)
      PROVE  i \in 1..m \/ \E h \in 1..n : i = h + m
  <2>1. CASE i <= m
    BY <1>1, <2>1
  <2>2. CASE ~(i <= m)
    <3>1. i - m \in 1..n /\ i = (i - m) + m
      BY <1>1, <2>2
    <3>2. QED
      BY <3>1
  <2>3. QED
    BY <2>1, <2>2
<1>5. ToSet(j) = ToSet(p) \cup ToSet(q)
  <2>1. ASSUME NEW x \in ToSet(j) PROVE x \in ToSet(p) \cup ToSet(q)
    <3>1. PICK i \in 1..(m + n) : x = j[i]
      BY <1>2 DEF ToSet
    <3>2. CASE i \in 1..m
      BY <1>2, <1>3, <3>1, <3>2 DEF ToSet
    <3>3. CASE i \notin 1..m
      <4>1. PICK h \in 1..n : i = h + m
        BY <1>4, <3>3
      <4>2. x = q[h]
        BY <1>3, <3>1, <4>1
      <4>3. QED
        BY <1>2, <4>2 DEF ToSet
    <3>4. QED
      BY <3>2, <3>3
  <2>2. ASSUME NEW x \in ToSet(p) PROVE x \in ToSet(j)
    BY <1>2, <1>3 DEF ToSet
  <2>3. ASSUME NEW x \in ToSet(q) PROVE x \in ToSet(j)
    <3>1. PICK h \in 1..n : x = q[h]
      BY <1>2 DEF ToSet
    <3>2. h + m \in DOMAIN j /\ x = j[h + m]
      BY <1>2, <1>3, <3>1
    <3>3. QED
      BY <3>2 DEF ToSet
  <2>4. QED
    BY <2>1, <2>2, <2>3
<1>6. ASSUME IsInjective(p), IsInjective(q), ToSet(p) \cap ToSet(q) = {}
      PROVE  IsInjective(j)
  <2>1. ASSUME NEW g \in 1..m, NEW h \in 1..n PROVE p[g] # q[h]
    <3>1. p[g] \in ToSet(p) /\ q[h] \in ToSet(q)
      BY <1>2 DEF ToSet
    <3>2. QED
      BY <1>6, <3>1
  <2>2. ASSUME NEW i \in 1..(m + n), NEW l \in 1..(m + n), j[i] = j[l]
        PROVE  i = l
    <3>1. CASE i \in 1..m /\ l \in 1..m
      <4>1. p[i] = p[l] /\ i \in DOMAIN p /\ l \in DOMAIN p
        BY <1>2, <1>3, <2>2, <3>1
      <4>2. QED
        BY <1>6, <4>1 DEF IsInjective
    <3>2. CASE i \in 1..m /\ l \notin 1..m
      <4>1. PICK h \in 1..n : l = h + m
        BY <1>4, <3>2
      <4>2. QED
        BY <1>3, <2>1, <2>2, <3>2, <4>1
    <3>3. CASE i \notin 1..m /\ l \in 1..m
      <4>1. PICK h \in 1..n : i = h + m
        BY <1>4, <3>3
      <4>2. QED
        BY <1>3, <2>1, <2>2, <3>3, <4>1
    <3>4. CASE i \notin 1..m /\ l \notin 1..m
      <4>1. PICK g \in 1..n : i = g + m
        BY <1>4, <3>4
      <4>2. PICK h \in 1..n : l = h + m
        BY <1>4, <3>4
      <4>3. q[g] = q[h] /\ g \in DOMAIN q /\ h \in DOMAIN q
        BY <1>2, <1>3, <2>2, <4>1, <4>2
      <4>4. g = h
        BY <1>6, <4>3 DEF IsInjective
      <4>5. QED
        BY <4>1, <4>2, <4>4
    <3>5. QED
      BY <3>1, <3>2, <3>3, <3>4
  <2>3. QED
    BY <1>2, <2>2 DEF IsInjective
<1>7. QED
  BY <1>1, <1>5, <1>6 DEF j, m, n

\* What a call collects of a page: each entry it can read, once.
LEMMA CollectedIs ==
  ASSUME NEW k, NEW entries \in Seq(Listed), IsInjective(entries),
         NEW p, p = Collected(k, entries)
  PROVE  /\ p \in Seq(Listed) /\ IsInjective(p)
         /\ ToSet(p) = {x \in ToSet(entries) : Reads(k, x)}
         /\ k.args.op = "subjects" => Len(p) = Len(entries)
<1> DEFINE places == {i \in DOMAIN entries : Reads(k, entries[i])}
<1>1. /\ p \in Seq(Listed) /\ Len(p) = Cardinality(places)
      /\ \A m \in DOMAIN p : \E i \in places : p[m] = entries[i] /\ Rank(places, i) = m
      /\ \A i \in places : Rank(places, i) \in DOMAIN p /\ p[Rank(places, i)] = entries[i]
  <2>1. places \in SUBSET DOMAIN entries /\ p = AtPlaces(entries, places)
    BY DEF Collected
  <2> HIDE DEF places
  <2>2. QED
    BY <2>1, Selected
<1>2. \A x : x \in ToSet(p) <=> x \in ToSet(entries) /\ Reads(k, x)
  <2>1. ASSUME NEW x \in ToSet(p) PROVE x \in ToSet(entries) /\ Reads(k, x)
    <3>1. PICK m \in DOMAIN p : x = p[m]
      BY DEF ToSet
    <3>2. PICK i \in places : p[m] = entries[i]
      BY <1>1
    <3>3. i \in DOMAIN entries /\ Reads(k, entries[i]) /\ x = entries[i]
      BY <3>1, <3>2
    <3>4. QED
      BY <3>3 DEF ToSet
  <2>2. ASSUME NEW x \in ToSet(entries), Reads(k, x) PROVE x \in ToSet(p)
    <3>1. PICK i \in places : x = entries[i]
      BY <2>2 DEF ToSet
    <3> HIDE DEF places
    <3>2. QED
      BY <1>1, <3>1 DEF ToSet
  <2>3. QED
    BY <2>1, <2>2
<1>3. IsInjective(p)
  <2> SUFFICES ASSUME NEW m \in DOMAIN p, NEW n \in DOMAIN p, p[m] = p[n] PROVE m = n
    BY DEF IsInjective
  <2>1. PICK i \in places : p[m] = entries[i] /\ Rank(places, i) = m
    BY <1>1
  <2>2. PICK j \in places : p[n] = entries[j] /\ Rank(places, j) = n
    BY <1>1
  <2>3. i = j
    BY <2>1, <2>2 DEF IsInjective
  <2>4. QED
    BY <2>1, <2>2, <2>3
<1>4. k.args.op = "subjects" => Len(p) = Len(entries)
  <2> SUFFICES ASSUME k.args.op = "subjects" PROVE Len(p) = Len(entries)
    OBVIOUS
  <2>1. places = 1..Len(entries) /\ Len(entries) \in Nat
    BY DEF Reads
  <2>2. Cardinality(1..Len(entries)) = Len(entries)
    BY <2>1, FS_Interval
  <2>3. QED
    BY <1>1, <2>1, <2>2
<1>5. QED
  BY <1>1, <1>2, <1>3, <1>4

\* What a page, and what is collected of it, adds to what was seen and takes
\* from what is ahead.
Turned(k, out, o, all, entries, n) ==
  LET then  == out \o Collected(k, entries)
      last  == o + Len(entries)
      ahead == {all[i] : i \in {h \in DOMAIN all : h > o}}
      rest  == {all[i] : i \in {h \in DOMAIN all : h > last}}
  IN  /\ then \in Seq(Listed) /\ last \in Nat
      /\ k.args.op = "subjects" => Len(then) = Len(out) + Len(entries)
      /\ Len(entries) \in Nat /\ Len(entries) <= n
      /\ Len(entries) < n => last >= Len(all)
      /\ last >= Len(all) => rest = {}
      /\ \A x \in ToSet(out) \cup ahead : Reads(k, x) => x \in ToSet(then) \cup rest
      /\ IsInjective(out) /\ ToSet(out) \cap ahead = {} =>
           IsInjective(then) /\ ToSet(then) \cap rest = {}

LEMMA PageTurns ==
  ASSUME NEW all \in Seq(Listed), IsInjective(all),
         NEW k, NEW out \in Seq(Listed), NEW o \in Nat,
         NEW n \in Nat, n >= 1,
         NEW e, e = IF o + n <= Len(all) THEN o + n ELSE Len(all),
         NEW entries, entries = SubSeq(all, o + 1, e)
  PROVE  Turned(k, out, o, all, entries, n)
<1> DEFINE more == Collected(k, entries)
           then == out \o Collected(k, entries)
           last == o + Len(entries)
           ahead == {all[i] : i \in {h \in DOMAIN all : h > o}}
           rest == {all[i] : i \in {h \in DOMAIN all : h > last}}
<1>0. o \in Nat /\ Len(all) \in Nat /\ e \in Nat /\ e <= Len(all) /\ e <= o + n
  OBVIOUS
<1>1. /\ entries \in Seq(Listed) /\ Len(entries) = (IF o + 1 <= e THEN e - o ELSE 0)
      /\ \A i \in 1..Len(entries) : entries[i] = all[o + i]
  <2>1. CASE o + 1 <= e
    BY <1>0, <2>1, SubSeqProperties
  <2>2. CASE ~(o + 1 <= e)
    <3>1. entries = <<>>
      BY <1>0, <2>2, SubSeqEmpty
    <3>2. QED
      BY <2>2, <3>1
  <2>3. QED
    BY <2>1, <2>2
<1>2. Len(entries) \in Nat /\ Len(entries) <= n /\ last \in Nat
  BY <1>0, <1>1
<1>3. Len(entries) < n => last >= Len(all)
  BY <1>0, <1>1
<1>4. PICK l \in Nat : l = last /\ l = o + Len(entries) /\ l >= o
  BY <1>0, <1>2
<1> HIDE DEF last
<1>5. DOMAIN all = 1..Len(all) /\ DOMAIN entries = 1..Len(entries)
  BY <1>1
<1>d. \A i \in DOMAIN all : i \in Nat /\ i >= 1 /\ i <= Len(all)
  <2>1. PICK N \in Nat : N = Len(all) /\ DOMAIN all = 1..N
    BY <1>0, <1>5
  <2>2. \A i \in 1..N : i \in Nat /\ i >= 1 /\ i <= N
    BY ONLY N \in Nat
  <2>3. QED
    BY ONLY <2>1, <2>2
<1>6. last >= Len(all) => rest = {}
  <2>1. last \in Nat /\ Len(all) \in Nat
    BY <1>0, <1>4
  <2>2. last >= Len(all) => \A i \in DOMAIN all : ~(i > last)
    BY ONLY <1>d, <2>1
  <2>3. QED
    BY <2>2
<1>7. ahead = {all[i] : i \in {h \in DOMAIN all : h > o}}
      /\ rest = {all[i] : i \in {h \in DOMAIN all : h > l}}
  BY <1>4
<1> HIDE DEF ahead, rest
<1>8. \A i \in 1..Len(entries) : /\ o + i \in DOMAIN all /\ o + i > o /\ ~(o + i > l)
                                 /\ entries[i] = all[o + i]
  <2> SUFFICES ASSUME NEW i \in 1..Len(entries)
               PROVE  o + i \in 1..Len(all) /\ o + i > o /\ ~(o + i > l)
    BY <1>1, <1>5
  <2>1. QED
    BY <1>0, <1>1, <1>2, <1>4
<1>9. IsInjective(entries)
  <2> SUFFICES ASSUME NEW i \in 1..Len(entries), NEW j \in 1..Len(entries), entries[i] = entries[j]
               PROVE  i = j
    BY <1>5 DEF IsInjective
  <2>1. o + i = o + j
    BY <1>8 DEF IsInjective
  <2>2. QED
    BY <1>0, <1>2, <2>1
<1>10. /\ more \in Seq(Listed) /\ IsInjective(more)
       /\ ToSet(more) = {x \in ToSet(entries) : Reads(k, x)}
       /\ k.args.op = "subjects" => Len(more) = Len(entries)
  BY <1>1, <1>9, CollectedIs
<1>11. then = out \o more
  OBVIOUS
<1> HIDE DEF more, then
<1>12. /\ then \in Seq(Listed) /\ Len(then) = Len(out) + Len(more)
       /\ ToSet(then) = ToSet(out) \cup ToSet(more)
       /\ IsInjective(out) /\ ToSet(out) \cap ToSet(more) = {} => IsInjective(then)
  BY <1>10, <1>11, Joined
<1>13. ToSet(entries) \subseteq ahead /\ rest \subseteq ahead
  <2>1. ASSUME NEW x \in ToSet(entries) PROVE x \in ahead
    <3>1. PICK i \in 1..Len(entries) : x = entries[i]
      BY <1>5 DEF ToSet
    <3>2. o + i \in DOMAIN all /\ o + i > o /\ x = all[o + i]
      BY <1>8, <3>1
    <3>3. QED
      BY <1>7, <3>2
  <2>2. ASSUME NEW x \in rest PROVE x \in ahead
    <3>1. PICK i \in DOMAIN all : i > l /\ x = all[i]
      BY <1>7
    <3>2. i > o
      <4>1. i \in Nat /\ o \in Nat /\ l \in Nat /\ l >= o /\ i > l
        BY <1>d, <1>4, <3>1
      <4>2. QED
        BY ONLY <4>1
    <3>3. QED
      BY <1>7, <3>1, <3>2
  <2>3. QED
    BY <2>1, <2>2
<1>14. ToSet(entries) \cap rest = {}
  <2> SUFFICES ASSUME NEW x \in ToSet(entries), x \in rest PROVE FALSE
    OBVIOUS
  <2>1. PICK i \in 1..Len(entries) : x = entries[i]
    BY <1>5 DEF ToSet
  <2>2. PICK j \in DOMAIN all : j > l /\ x = all[j]
    BY <1>7
  <2>3. o + i = j
    BY <1>8, <2>1, <2>2 DEF IsInjective
  <2>4. QED
    BY <1>8, <2>2, <2>3
<1>15. ahead \subseteq ToSet(entries) \cup rest
  <2> SUFFICES ASSUME NEW x \in ahead, x \notin rest PROVE x \in ToSet(entries)
    OBVIOUS
  <2>1. PICK i \in DOMAIN all : i > o /\ x = all[i]
    BY <1>7
  <2>2. ~(i > l)
    BY <1>7, <2>1
  <2>3. PICK h \in 1..Len(entries) : o + h = i
    <3>1. i - o \in 1..Len(entries) /\ o + (i - o) = i
      <4>1. /\ i \in Nat /\ o \in Nat /\ l \in Nat /\ Len(entries) \in Nat
            /\ l = o + Len(entries) /\ i > o /\ ~(i > l)
        BY <1>d, <1>2, <1>4, <2>1, <2>2
      <4>2. QED
        BY ONLY <4>1
    <3>2. QED
      BY <3>1
  <2>4. x = entries[h]
    BY <1>8, <2>1, <2>3
  <2>5. QED
    BY <1>5, <2>4 DEF ToSet
<1>16. \A x \in ToSet(out) \cup ahead : Reads(k, x) => x \in ToSet(then) \cup rest
  BY <1>10, <1>12, <1>15
<1>17. IsInjective(out) /\ ToSet(out) \cap ahead = {} =>
         IsInjective(then) /\ ToSet(then) \cap rest = {}
  BY <1>10, <1>12, <1>13, <1>14
<1>18. k.args.op = "subjects" => Len(then) = Len(out) + Len(entries)
  BY <1>10, <1>12
<1>19. QED
  BY <1>2, <1>3, <1>6, <1>12, <1>16, <1>17, <1>18
     DEF then, rest, ahead, last, Turned

\* The answer to a request for a page.
LEMMA PageServed ==
  ASSUME NEW s, WellFormed(s), NEW k, CallOK(k), k.pc = "page", k.args.op \in Walks,
         NEW w, PageOK(k, w, s)
  PROVE  WalkOK(Answered(s, k), w, s)
<1> DEFINE a == k.target
           all == Listing(s, a)
           r == Answer(s, k)
           n == Limit(k)
           e == IF k.offset + n <= Len(all) THEN k.offset + n ELSE Len(all)
           entries == SubSeq(all, k.offset + 1, e)
           then == k.out \o Collected(k, entries)
           last == k.offset + Len(entries)
           l == [k EXCEPT !.out = then, !.offset = last]
           m == Answered(s, k)
<1>0. /\ k.pc \in Request /\ k.pc \in Request \ {"put", "search"} /\ a \in Scopes
      /\ k.args \in Call /\ k.args.op # "delete_subject" /\ CallShape(k)
  <2>1. k.pc \in Request /\ k.pc \in Request \ {"put", "search"}
    BY DEF Request
  <2>2. a \in Scopes
    BY <2>1, TargetFacts
  <2>3. QED
    BY <2>1, <2>2 DEF CallOK, Walks
<1>1. all \in Seq(Listed) /\ IsInjective(all) /\ Len(all) \in Nat
  BY <1>0, ListsOnce
<1>2. /\ k.out \in Seq(Listed) /\ k.offset \in Nat /\ Len(k.out) \in Nat
      /\ k.args.op = "subjects" => k.offset = Len(k.out) /\ Len(k.out) < k.args.arg
      /\ w.shrunk \/ \A x \in w.steady : Reads(k, x) => x \in ToSet(k.out) \cup Ahead(k, s)
      /\ w.grown \/ (IsInjective(k.out) /\ ToSet(k.out) \cap Ahead(k, s) = {})
  BY DEF PageOK
<1>3. /\ n \in Nat /\ n >= 1 /\ n <= ServerLimit
      /\ k.args.op = "subjects" => k.args.arg \in Nat /\ Len(k.out) + n <= k.args.arg
  <2>1. k.args.op = "subjects" => k.args.arg \in Nat
    BY <1>0, CallAssumption
  <2>2. PageSize \in Nat /\ PageSize >= 1 /\ ServerLimit \in Nat /\ PageSize <= ServerLimit
    BY PageAssumption
  <2>3. CASE k.args.op = "subjects"
    <3>1. n = IF k.args.arg - Len(k.out) <= PageSize THEN k.args.arg - Len(k.out) ELSE PageSize
      BY <2>3 DEF Limit
    <3>2. Len(k.out) \in Nat /\ k.args.arg \in Nat /\ Len(k.out) < k.args.arg
      BY <1>2, <2>1, <2>3
    <3> HIDE DEF n
    <3>3. QED
      BY <2>2, <3>1, <3>2
  <2>4. CASE k.args.op # "subjects"
    <3>1. n = PageSize
      BY <2>4 DEF Limit
    <3>2. QED
      BY <2>2, <2>4, <3>1
  <2>5. QED
    BY <2>3, <2>4
<1> HIDE DEF n
<1>4. r = IF ~Exists(s, a) THEN NotFound(s)
          ELSE Reply(s, 200, [entries |-> entries,
                              count |-> IF s.counts THEN Len(all) ELSE None])
  <2>1. r = Page(s, a, k.offset, n)
    BY DEF Answer, n
  <2>2. (IF n <= ServerLimit THEN n ELSE ServerLimit) = n
    BY <1>3
  <2> HIDE DEF r, a
  <2>3. QED
    BY <2>1, <2>2 DEF Page
<1>5. CASE ~Exists(s, a)
  <2>1. r.status = 404 /\ r.server = s
    BY <1>4, <1>5 DEF NotFound, Reply
  <2>2. m = OnError(k, ErrorOf(404))
    BY <1>0, <2>1, Reactions, Statuses DEF Answered
  <2>3. m = Done(k, ErrorOf(404))
    BY <1>0, <2>2 DEF OnError
  <2>4. m.pc = "done" /\ m.result.kind = "not_found"
    BY <1>0, <2>3, DoneIs, Statuses
  <2> HIDE DEF m
  <2>5. WalkOK(m, w, s)
    BY <2>4 DEF WalkOK
  <2>6. QED
    BY <2>5 DEF m
<1>6. CASE Exists(s, a)
  <2> DEFINE body == [entries |-> entries, count |-> IF s.counts THEN Len(all) ELSE None]
  <2>1. r.status = 200 /\ r.server = s /\ r.body = body
    BY <1>4, <1>6 DEF Reply
  <2>2. m = OnPage(k, body)
    BY <2>1, Reactions, Statuses DEF Answered
  <2>3. m = IF LastPage(k, body) THEN AfterWalk(l) ELSE Send(l, "page")
    BY <2>2 DEF OnPage
  <2> DEFINE ahead == {all[i] : i \in {h \in DOMAIN all : h > k.offset}}
             rest == {all[i] : i \in {h \in DOMAIN all : h > last}}
  <2>4. /\ then \in Seq(Listed) /\ last \in Nat /\ Len(then) \in Nat
        /\ k.args.op = "subjects" => Len(then) = Len(k.out) + Len(entries)
        /\ Len(entries) \in Nat /\ Len(entries) <= n
        /\ Len(entries) < n => last >= Len(all)
        /\ last >= Len(all) => rest = {}
        /\ \A x \in ToSet(k.out) \cup ahead : Reads(k, x) => x \in ToSet(then) \cup rest
        /\ IsInjective(k.out) /\ ToSet(k.out) \cap ahead = {} =>
             IsInjective(then) /\ ToSet(then) \cap rest = {}
    <3> HIDE DEF all
    <3>1. PICK out \in Seq(Listed) : out = k.out
      BY <1>2
    <3>2. PICK o \in Nat : o = k.offset
      BY <1>2
    <3>3. e = (IF o + n <= Len(all) THEN o + n ELSE Len(all)) /\ entries = SubSeq(all, o + 1, e)
      BY <3>2
    <3> HIDE DEF e, entries
    <3>4. Turned(k, out, o, all, entries, n)
      BY <1>1, <1>3, <3>3, PageTurns
    <3>5. Turned(k, k.out, k.offset, all, entries, n)
      BY <3>1, <3>2, <3>4
    <3>6. QED
      BY <3>5 DEF Turned
  <2>5. Ahead(k, s) = ahead
    BY DEF Ahead
  <2>6. LastPage(k, body) =>
          \/ last >= Len(all)
          \/ k.args.op = "subjects" /\ Len(then) >= k.args.arg
    <3> SUFFICES ASSUME LastPage(k, body), ~(last >= Len(all))
                 PROVE  k.args.op = "subjects" /\ Len(then) >= k.args.arg
      OBVIOUS
    <3>0. body.entries = entries /\ (body.count # None => body.count = Len(all))
      OBVIOUS
    <3>l. last = k.offset + Len(entries)
      OBVIOUS
    <3> HIDE DEF body, entries, then, all, l, e, ahead, rest, last
    <3>1. ~(Len(entries) = 0) /\ ~(Len(entries) < n)
      BY <1>3, <2>4
    <3>2. \/ k.args.op = "subjects" /\ Len(k.out) + Len(entries) >= k.args.arg
          \/ k.args.op # "subjects" /\ k.offset + Len(entries) >= Len(all)
      BY <3>0, <3>1 DEF LastPage, n
    <3>3. QED
      BY <1>2, <2>4, <3>l, <3>2
  <2>7. ~LastPage(k, body) /\ k.args.op = "subjects" => Len(then) < k.args.arg
    <3> SUFFICES ASSUME ~LastPage(k, body), k.args.op = "subjects" PROVE Len(then) < k.args.arg
      OBVIOUS
    <3>0. body.entries = entries
      OBVIOUS
    <3> HIDE DEF body, entries, then, all, l, e, ahead, rest, last
    <3>1. ~(Len(k.out) + Len(entries) >= k.args.arg)
      BY <3>0 DEF LastPage
    <3>2. QED
      BY <1>2, <1>3, <2>4, <3>1
  <2>8. k.args.op = "subjects" => Len(then) <= k.args.arg /\ last = Len(then)
    <3>l. last = k.offset + Len(entries)
      OBVIOUS
    <3> HIDE DEF entries, then, all, e, last
    <3>1. QED
      BY <1>2, <1>3, <2>4, <3>l
  <2>9. l = [pc |-> "page", args |-> k.args, target |-> a, meta |-> k.meta, out |-> then,
             offset |-> last, tries |-> k.tries, result |-> k.result]
    <3>1. ASSUME NEW x, NEW y, NEW q, q = [k EXCEPT !.out = x, !.offset = y]
          PROVE  q = [pc |-> "page", args |-> k.args, target |-> k.target, meta |-> k.meta, out |-> x,
                      offset |-> y, tries |-> k.tries, result |-> k.result]
      <4>1. CallShape(k) /\ k.pc = "page"
        BY <1>0
      <4>2. QED
        BY ONLY <3>1, <4>1 DEF CallShape
    <3>2. l = [k EXCEPT !.out = then, !.offset = last]
      OBVIOUS
    <3> HIDE DEF l, then, entries, all, e, last
    <3>3. QED
      BY <3>1, <3>2
  <2>10. CASE LastPage(k, body)
    <3>1. m = [pc |-> "done", args |-> k.args, target |-> a, meta |-> k.meta, out |-> then,
               offset |-> last, tries |-> k.tries, result |-> Plain("list")]
      <4> HIDE DEF entries, then, all, e, m, body, l, last
      <4>1. l.args.op # "delete_subject"
        BY <1>0, <2>9
      <4>2. QED
        BY <2>3, <2>9, <2>10, <4>1 DEF AfterWalk, Done
    <3> HIDE DEF m, entries, then, all, e, body, l, ahead, rest, last
    <3>2. m.pc = "done" /\ m.args = k.args /\ m.out = then
      BY <3>1
    <3>r. \A x : Reads(m, x) <=> Reads(k, x)
      BY <3>2 DEF Reads
    <3>3. EndOK(m, w)
      BY <1>2, <2>4, <2>5, <2>6, <2>8, <2>10, <3>2, <3>r DEF EndOK
    <3>4. QED
      BY <3>2, <3>3 DEF WalkOK, m
  <2>11. CASE ~LastPage(k, body)
    <3>1. m = [pc |-> "page", args |-> k.args, target |-> a, meta |-> k.meta, out |-> then,
               offset |-> last, tries |-> 0, result |-> k.result]
      <4> HIDE DEF entries, then, all, e, m, body, l, last
      <4>1. QED
        BY <2>3, <2>9, <2>11 DEF Send
    <3> HIDE DEF m
    <3>2. /\ m.pc = "page" /\ m.args = k.args /\ m.out = then /\ m.target = a
          /\ m.offset = last
      <4> HIDE DEF entries, then, all, e, last
      <4>1. QED
        BY <3>1
    <3>3. Ahead(m, s) = rest
      BY <3>2 DEF Ahead
    <3> HIDE DEF entries, then, all, e, body, l, ahead, rest, last
    <3>r. \A x : Reads(m, x) <=> Reads(k, x)
      BY <3>2 DEF Reads
    <3>4. PageOK(m, w, s)
      BY <1>2, <2>4, <2>5, <2>7, <2>8, <2>11, <3>2, <3>3, <3>r DEF PageOK
    <3>5. QED
      BY <3>2, <3>4 DEF WalkOK, m
  <2>12. QED
    BY <2>10, <2>11
<1>7. QED
  BY <1>5, <1>6

\* A call whose attempt failed.
LEMMA WalkRepeats ==
  ASSUME NEW k, CallOK(k), k.pc \in Request, NEW w, NEW s, WalkOK(k, w, s)
  PROVE  WalkOK(Repeated(k), w, s)
<1> DEFINE m == Repeated(k)
<1>0. k.pc \notin {"idle", "done"} /\ CallShape(k)
  BY DEF CallOK, Request
<1>1. CASE k.tries < MaxRetries
  <2>1. m = [k EXCEPT !.tries = k.tries + 1]
    BY <1>1 DEF Repeated
  <2> HIDE DEF m
  <2>2. /\ m.pc = k.pc /\ m.args = k.args /\ m.target = k.target /\ m.out = k.out
        /\ m.offset = k.offset
    BY ONLY <1>0, <2>1 DEF CallShape
  <2>3. Ahead(m, s) = Ahead(k, s)
    BY <2>2 DEF Ahead
  <2>r. \A x : Reads(m, x) <=> Reads(k, x)
    BY <2>2 DEF Reads
  <2>4. WalkOK(m, w, s)
    BY <1>0, <2>2, <2>3, <2>r DEF WalkOK, PageOK
  <2>5. QED
    BY <2>4 DEF m
<1>2. CASE ~(k.tries < MaxRetries) /\ k.args.op \in Walks
  <2>1. m = Done(k, Plain("network"))
    BY <1>2 DEF Repeated, OnError, Walks
  <2>2. m.pc = "done" /\ m.result.kind = "network"
    BY <2>1, DoneIs, Statuses
  <2> HIDE DEF m
  <2>3. WalkOK(m, w, s)
    BY <2>2 DEF WalkOK
  <2>4. QED
    BY <2>3 DEF m
<1>3. CASE ~(k.tries < MaxRetries) /\ k.args.op \notin Walks
  <2>1. m.args = k.args
    <3>1. CASE k.args.op = "delete_subject" /\ k.pc = "page"
      <4>1. m = [[k EXCEPT !.out = <<>>] EXCEPT !.pc = "delete", !.tries = 0]
        BY <1>3, <3>1 DEF Repeated, OnError, Send
      <4> HIDE DEF m
      <4>2. QED
        BY ONLY <1>0, <4>1 DEF CallShape
    <3>2. CASE ~(k.args.op = "delete_subject" /\ k.pc = "page")
      <4>1. m = Done(k, Plain("network"))
        BY <1>3, <3>2 DEF Repeated, OnError
      <4>2. QED
        BY <4>1, DoneIs
    <3>3. QED
      BY <3>1, <3>2
  <2> HIDE DEF m
  <2>2. WalkOK(m, w, s)
    BY <1>3, <2>1 DEF WalkOK
  <2>3. QED
    BY <2>2 DEF m
<1>4. QED
  BY <1>1, <1>2, <1>3

\* Every answer leaves the call's arguments alone.
LEMMA SameArguments ==
  ASSUME NEW s, WellFormed(s), NEW k, CallOK(k), k.pc \in Request
  PROVE  Answered(s, k).args = k.args
<1> DEFINE m == Answered(s, k)
<1>0. CallShape(k) /\ k.args.op \in Senders(k.pc)
  BY DEF CallOK, Request
<1>1. ASSUME NEW r PROVE Done(k, r).args = k.args
  BY DoneIs
<1>2. ASSUME NEW q, NEW request, q.args = k.args, CallShape(q)
      PROVE  Send(q, request).args = k.args /\ Done(q, request).args = k.args
  <2>1. ASSUME NEW x, x = Send(q, request) \/ x = Done(q, request) PROVE x.args = k.args
    BY ONLY <1>2, <2>1 DEF CallShape, Send, Done
  <2>2. QED
    BY <2>1
<1>3. ASSUME NEW x, NEW y, NEW q,
             q = [k EXCEPT !.out = x] \/ q = [k EXCEPT !.meta = x]
             \/ q = [k EXCEPT !.out = x, !.offset = y]
      PROVE  q.args = k.args /\ CallShape(q)
  <2>1. CallShape(k)
    BY <1>0
  <2>2. QED
    BY ONLY <1>3, <2>1 DEF CallShape
<1>4. ASSUME NEW r PROVE OnError(k, r).args = k.args
  <2>1. CASE k.args.op = "delete_subject" /\ k.pc = "page"
    <3> DEFINE q == [k EXCEPT !.out = <<>>]
    <3>1. q.args = k.args /\ CallShape(q)
      BY <1>3
    <3>2. OnError(k, r) = Send(q, "delete")
      BY <2>1 DEF OnError
    <3> HIDE DEF q
    <3>3. QED
      BY <1>2, <3>1, <3>2
  <2>2. CASE ~(k.args.op = "delete_subject" /\ k.pc = "page")
    BY <1>1, <2>2 DEF OnError
  <2>3. QED
    BY <2>1, <2>2
<1>5. PICK b, u, t : m = OnAnswer(k, t, u, b)
  BY DEF Answered
<1> HIDE DEF m
<1>6. ASSUME NEW x PROVE Send(k, x).args = k.args
  BY <1>0, <1>2
<1>7. CASE k.pc = "put"
  <2>1. m = OnPut(k, u)
    BY <1>5, <1>7, Reactions
  <2>2. QED
    BY <1>1, <1>4, <1>6, <2>1 DEF OnPut, m
<1>8. CASE k.pc = "search"
  <2>1. m = OnSearch(k, u, b)
    BY <1>5, <1>8, Reactions
  <2>2. QED
    BY <1>1, <1>4, <2>1 DEF OnSearch, m
<1>9. CASE k.pc \in Request \ {"put", "search"} /\ ~Ok2xx(u)
  <2>1. m = OnError(k, ErrorOf(u))
    BY <1>5, <1>9, Reactions
  <2>2. QED
    BY <1>4, <2>1 DEF m
<1>10. CASE k.pc \in {"content", "by_id", "create", "get_rule", "delete", "delete_version", "post"}
           /\ Ok2xx(u)
  <2>1. \/ m = OnContent(k, TextOf(t, b)) \/ m = OnSchemaById(k, TextOf(t, b))
        \/ m = OnCreate(k, b) \/ m = OnRule(k, b) \/ m = Done(k, Plain("ok"))
    BY <1>5, <1>10, Reactions
  <2>2. \E r : m = Done(k, r)
    BY <2>1 DEF OnContent, OnSchemaById, OnCreate, OnRule
  <2>3. QED
    BY <1>1, <2>2 DEF m
<1>11. CASE k.pc = "meta" /\ Ok2xx(u)
  <2>1. m = OnMeta(k, b)
    BY <1>5, <1>11, Reactions
  <2> DEFINE q == [k EXCEPT !.meta = b]
  <2>2. q.args = k.args /\ CallShape(q)
    BY <1>3
  <2>3. m = Send(q, "content")
    BY <2>1 DEF OnMeta
  <2> HIDE DEF q
  <2>4. QED
    BY <1>2, <2>2, <2>3 DEF m
<1>12. CASE k.pc = "page" /\ Ok2xx(u)
  <2>1. m = OnPage(k, b)
    BY <1>5, <1>12, Reactions
  <2> DEFINE q == [k EXCEPT !.out = k.out \o Collected(k, b.entries),
                         !.offset = k.offset + Len(b.entries)]
  <2>2. q.args = k.args /\ CallShape(q)
    <3>1. \E x, y : q = [k EXCEPT !.out = x, !.offset = y]
      OBVIOUS
    <3> HIDE DEF q
    <3>2. QED
      BY <1>3, <3>1
  <2>3. m = IF LastPage(k, b) THEN AfterWalk(q) ELSE Send(q, "page")
    BY <2>1 DEF OnPage
  <2> HIDE DEF q
  <2>4. QED
    BY <1>2, <2>2, <2>3 DEF m, AfterWalk
<1>13. QED
  BY <1>7, <1>8, <1>9, <1>10, <1>11, <1>12 DEF Request, m

\* What a walk knows at the end of a request of its own, and of another client's.
LEMMA WalkServed ==
  ASSUME NEW s, WellFormed(s), NEW k, CallOK(k), k.pc \in Request, NEW w, WatchOK(w),
         WalkOK(k, w, s), NEW c, NEW t, t = Answer(s, k).server,
         NEW v, v = WatchAfter(k, w, s, t, c, c)
  PROVE  WalkOK(Answered(s, k), v, t)
<1>1. CASE k.args.op \in Walks
  <2>1. k.pc = "page"
    <3>1. k.args.op \in Senders(k.pc)
      BY DEF CallOK
    <3>2. QED
      BY <1>1, <3>1, SendersAre DEF Walks, Request
  <2>2. t = s
    BY <2>1, ReadsChangeNothing
  <2>3. k.target \in Scopes
    BY TargetFacts
  <2>4. PageOK(k, w, s)
    BY <1>1, <2>1 DEF WalkOK
  <2>5. PageOK(k, v, s)
    BY <2>1, <2>2, <2>3, <2>4, PageStays
  <2>6. QED
    BY <1>1, <2>1, <2>2, <2>5, PageServed
<1>2. CASE k.args.op \notin Walks
  <2>1. Answered(s, k).args = k.args
    BY SameArguments
  <2>2. QED
    BY <1>2, <2>1 DEF WalkOK
<1>3. QED
  BY <1>1, <1>2

LEMMA WalkWaits ==
  ASSUME NEW s, WellFormed(s), NEW k, CallOK(k), k.pc \in Request, NEW w, WatchOK(w),
         WalkOK(k, w, s), NEW d, NEW c, NEW t, WellFormed(t),
         NEW v, v = WatchAfter(k, w, s, t, d, c)
  PROVE  WalkOK(k, v, t)
<1>1. CASE k.pc = "page" /\ k.args.op \in Walks
  <2>1. k.target \in Scopes
    BY TargetFacts
  <2>2. PageOK(k, w, s)
    BY <1>1 DEF WalkOK
  <2>3. PageOK(k, v, t)
    BY <1>1, <2>1, <2>2, PageStays
  <2>4. QED
    BY <1>1, <2>3 DEF WalkOK
<1>2. CASE ~(k.pc = "page" /\ k.args.op \in Walks)
  BY <1>2 DEF WalkOK, Request
<1>3. QED
  BY <1>1, <1>2

\* A request of client c that takes the registry to t, by what it makes of its call.
LEMMA OneWalk ==
  ASSUME ApicurioInv, WalkInv, NEW c \in Client, call[c].pc \in Request,
         NEW t, WellFormed(t), server' = t, Watch(c, t), NEW k, call' = [call EXCEPT ![c] = k],
         WalkOK(k, WatchAfter(call[c], watch[c], server, t, c, c), t)
  PROVE  WalkInv'
<1>0. /\ WellFormed(server) /\ call = [d \in Client |-> call[d]]
      /\ \A d \in Client : CallOK(call[d]) /\ WatchOK(watch[d]) /\ WalkOK(call[d], watch[d], server)
  BY DEF ApicurioInv, WalkInv
<1>1. call'[c] = k /\ \A d \in Client : d # c => call'[d] = call[d]
  BY <1>0
<1>2. watch' = [d \in Client |-> IF call[d].pc \in {"idle", "done"} THEN watch[d]
                                 ELSE WatchAfter(call[d], watch[d], server, t, d, c)]
  BY DEF Watch, WatchAfter
<1>3. SUFFICES ASSUME NEW d \in Client PROVE WalkOK(call'[d], watch'[d], t)
  BY DEF WalkInv
<1>4. CASE d = c
  <2>1. call[c].pc \notin {"idle", "done"}
    BY DEF Request
  <2>2. watch'[c] = WatchAfter(call[c], watch[c], server, t, c, c)
    BY <1>2, <2>1
  <2>3. QED
    BY <1>1, <1>4, <2>2
<1>5. CASE d # c /\ call[d].pc \in {"idle", "done"}
  <2>1. watch'[d] = watch[d] /\ call'[d] = call[d]
    BY <1>1, <1>2, <1>5
  <2>2. QED
    BY <1>0, <1>5, <2>1 DEF WalkOK
<1>6. CASE d # c /\ call[d].pc \in Request
  <2>1. call[d].pc \notin {"idle", "done"}
    BY <1>6 DEF Request
  <2>2. watch'[d] = WatchAfter(call[d], watch[d], server, t, d, c) /\ call'[d] = call[d]
    BY <1>1, <1>2, <1>6, <2>1
  <2>3. QED
    BY <1>0, <1>6, <2>2, WalkWaits
<1>7. QED
  BY <1>0, <1>4, <1>5, <1>6 DEF CallOK

\* A step of client c that leaves the registry alone.
LEMMA OwnWalk ==
  ASSUME ApicurioInv, WalkInv, NEW c \in Client, server' = server,
         NEW k, call' = [call EXCEPT ![c] = k],
         NEW w, watch' = [watch EXCEPT ![c] = w], WalkOK(k, w, server)
  PROVE  WalkInv'
<1>0. /\ call = [d \in Client |-> call[d]] /\ watch = [d \in Client |-> watch[d]]
      /\ \A d \in Client : WalkOK(call[d], watch[d], server)
  BY DEF ApicurioInv, WalkInv
<1>1. call'[c] = k /\ \A d \in Client : d # c => call'[d] = call[d]
  BY <1>0
<1>2. watch'[c] = w /\ \A d \in Client : d # c => watch'[d] = watch[d]
  BY <1>0
<1>3. \A d \in Client : WalkOK(call'[d], watch'[d], server')
  BY <1>0, <1>1, <1>2
<1>4. QED
  BY <1>3 DEF WalkInv

\* A call begins: everything is ahead.
LEMMA WalkBegins ==
  ASSUME ApicurioInv, WalkInv, NEW c \in Client, NEW k \in Call, Begin(c, k)
  PROVE  WalkInv'
<1> DEFINE a == Target(k)
           p == IF a = None THEN "done" ELSE FirstRequest[k.op]
           o == IF a = None THEN Plain("config") ELSE None
           m == [Idle EXCEPT !.args = k, !.target = a, !.pc = p, !.result = o]
           w == IF a = None THEN NoWatch ELSE StartWatch(server, a)
<1>1. /\ call' = [call EXCEPT ![c] = m] /\ watch' = [watch EXCEPT ![c] = w]
      /\ server' = server /\ WellFormed(server)
  BY DEF Begin, ApicurioInv
<1>2. a \in Scopes \cup {None} /\ (k.op = "subjects" => k.arg \in Nat /\ k.arg > 0)
  BY CallAssumption
<1>3. /\ m.pc = p /\ m.args = k /\ m.target = a /\ m.result = o /\ m.out = <<>> /\ m.offset = 0
  <2> HIDE DEF a, p, o
  <2>1. QED
    BY DEF Idle
<1>4. WalkOK(m, w, server)
  <2>1. CASE a = None
    <3>1. m.pc = "done" /\ m.result.kind = "config"
      BY <1>3, <2>1, Statuses
    <3> HIDE DEF m
    <3>2. QED
      BY <3>1 DEF WalkOK
  <2>2. CASE a # None
    <3>0. a \in Scopes
      BY <1>2, <2>2
    <3>1. w.steady = Entries(server, a)
      BY <2>2 DEF StartWatch, NoWatch
    <3>2. k.op \in Walks => p = "page"
      BY <2>2 DEF FirstRequest, Walks
    <3>3. ToSet(m.out) = {} /\ IsInjective(m.out) /\ m.out \in Seq(Listed) /\ Len(m.out) = 0
      <4>1. ToSet(<<>>) = {} /\ IsInjective(<<>>) /\ <<>> \in Seq(Listed) /\ Len(<<>>) = 0
        BY DEF ToSet, IsInjective
      <4> HIDE DEF m
      <4>2. QED
        BY <1>3, <4>1
    <3> HIDE DEF m, w, p, o
    <3>4. Ahead(m, server) = Entries(server, a)
      <4> DEFINE all == Listing(server, a)
      <4>1. all \in Seq(Listed)
        BY <1>1, <3>0, ListsOnce
      <4>2. Ahead(m, server) = {all[i] : i \in {j \in DOMAIN all : j > 0}}
        BY <1>3 DEF Ahead
      <4>3. Entries(server, a) = {all[i] : i \in DOMAIN all}
        BY DEF Entries, ToSet
      <4> HIDE DEF all
      <4>4. \A i \in DOMAIN all : i > 0
        BY <4>1
      <4>5. QED
        BY <4>2, <4>3, <4>4
    <3>5. PageOK(m, w, server)
      BY <1>2, <1>3, <3>1, <3>3, <3>4 DEF PageOK
    <3>6. k.op \in Walks => m.pc = "page"
      BY <1>3, <3>2
    <3>7. QED
      BY <1>3, <3>5, <3>6 DEF WalkOK
  <2>3. QED
    BY <2>1, <2>2
<1> HIDE DEF m, w
<1>5. QED
  BY <1>1, <1>4, OwnWalk

\* Every step of every client preserves what walks know.
LEMMA WalkStep == ApicurioInv /\ WalkInv /\ [Next]_vars => WalkInv'
<1> SUFFICES ASSUME ApicurioInv, WalkInv, [Next]_vars PROVE WalkInv'
  OBVIOUS
<1>1. CASE UNCHANGED vars
  BY <1>1 DEF vars, WalkInv
<1>2. ASSUME NEW c \in Client, NEW k \in Call, Begin(c, k) PROVE WalkInv'
  BY <1>2, WalkBegins
<1>3. ASSUME NEW c \in Client, Serve(c) PROVE WalkInv'
  <2> DEFINE k == call[c]
             t == Answer(server, k).server
             m == Answered(server, k)
  <2>1. CallOK(k) /\ WatchOK(watch[c]) /\ WellFormed(server) /\ WalkOK(k, watch[c], server)
    BY <1>3 DEF ApicurioInv, WalkInv
  <2>2. /\ k.pc \in Request /\ server' = t /\ Watch(c, t) /\ call' = [call EXCEPT ![c] = m]
    BY <1>3, <2>1 DEF Serve, InCall, Answered, CallOK
  <2>3. WellFormed(t)
    BY <2>1, <2>2, AnswerEvolves DEF Evolves
  <2>4. WalkOK(m, WatchAfter(k, watch[c], server, t, c, c), t)
    BY <2>1, <2>2, WalkServed
  <2> HIDE DEF t, m
  <2>5. QED
    BY <1>3, <2>2, <2>3, <2>4, OneWalk
<1>4. ASSUME NEW c \in Client, AnswerLost(c) PROVE WalkInv'
  <2> DEFINE k == call[c]
             t == Answer(server, k).server
             m == Repeated(k)
             v == WatchAfter(k, watch[c], server, t, c, c)
  <2>1. CallOK(k) /\ WatchOK(watch[c]) /\ WellFormed(server) /\ WalkOK(k, watch[c], server)
    BY <1>4 DEF ApicurioInv, WalkInv
  <2>2. /\ k.pc \in Request /\ server' = t /\ Watch(c, t) /\ call' = [call EXCEPT ![c] = m]
    BY <1>4, <2>1 DEF AnswerLost, Again, InCall, Repeated, CallOK
  <2>3. WellFormed(t)
    BY <2>1, <2>2, AnswerEvolves DEF Evolves
  <2>4. WalkOK(k, v, t)
    BY <2>1, <2>2, <2>3, WalkWaits
  <2>5. WalkOK(m, v, t)
    BY <2>1, <2>2, <2>4, WalkRepeats
  <2> HIDE DEF t, m
  <2>6. QED
    BY <1>4, <2>2, <2>3, <2>5, OneWalk
<1>5. ASSUME NEW c \in Client, RequestLost(c) PROVE WalkInv'
  <2> DEFINE k == call[c]
             w == watch[c]
             m == Repeated(k)
  <2>1. CallOK(k) /\ WalkOK(k, w, server) /\ watch = [d \in Client |-> watch[d]]
    BY <1>5 DEF ApicurioInv, WalkInv
  <2>2. k.pc \in Request /\ server' = server /\ watch' = watch /\ call' = [call EXCEPT ![c] = m]
    BY <1>5, <2>1 DEF RequestLost, Again, InCall, Repeated, CallOK
  <2>3. watch' = [watch EXCEPT ![c] = w]
    BY <1>5, <2>1, <2>2
  <2>4. WalkOK(m, w, server)
    BY <2>1, <2>2, WalkRepeats
  <2> HIDE DEF m
  <2>5. QED
    BY <1>5, <2>2, <2>3, <2>4, OwnWalk
<1>6. ASSUME NEW c \in Client, Return(c) PROVE WalkInv'
  <2>1. Idle.pc = "idle"
    BY DEF Idle
  <2>2. WalkOK(Idle, NoWatch, server)
    BY <2>1 DEF WalkOK
  <2>3. QED
    BY <1>6, <2>2, OwnWalk DEF Return
<1>7. QED
  BY <1>1, <1>2, <1>3, <1>4, <1>5, <1>6 DEF Next

\* However other clients register and delete meanwhile, and however often its
\* requests are sent: list_subjects and list_versions stay within the cap, miss an
\* entry that was there throughout only if one was removed or the cap was reached,
\* and name an entry twice only if one was added.  A version whose name is no
\* number is skipped, and costs no other version its place.
THEOREM WalksAreComplete == Spec => []WalkIsComplete
<1>1. Init => WalkInv
  <2>1. Idle.pc = "idle"
    BY DEF Idle
  <2>2. \A w, s : WalkOK(Idle, w, s)
    BY <2>1 DEF WalkOK
  <2>3. QED
    BY <2>2 DEF Init, WalkInv
<1>2. WalkInv => WalkIsComplete
  <2> SUFFICES ASSUME WalkInv, NEW c \in Client, Finished(c, {"subjects", "versions"}, "list")
               PROVE  EndOK(call[c], watch[c])
    BY DEF WalkIsComplete, EndOK
  <2>1. QED
    BY DEF WalkInv, WalkOK, Finished, Walks
<1>3. QED
  BY <1>1, <1>2, WalkStep, ApicurioInvariant, PTL DEF Spec
==============================================================================
