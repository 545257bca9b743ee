------------------------ MODULE JsonReferencesProofs ------------------------
(***************************************************************************)
(* Proofs about JsonReferences, for any set of documents, any names and    *)
(* any reference lists.                                                    *)
(***************************************************************************)
EXTENDS JsonReferences, FiniteSetTheorems, SequenceTheorems, TLAPS

-----------------------------------------------------------------------------
(***************************************************************************)
(* The inductive invariant.  An encoder never has a stack, so all of it is *)
(* about the walk through the registry.                                    *)
(***************************************************************************)
Frame == [todo : Seq(References), of : Seq(References)]

Failed == {"fetch", "depth", "full", "conflict"}
Indexing == {"compile", "done", "missing"}

\* Every frame but the first stands for a document that a reference led to.
StackInv ==
    /\ stack \in Seq(Frame) /\ Len(stack) >= 1
    /\ \A i \in 1..Len(stack) : Range(stack[i].todo) \subseteq Declared
    /\ \A i \in 2..Len(stack) : stack[i].of # <<>> /\ stack[i].of[1] \in Declared

\* A call goes deeper only for a document not fetched before.
DepthInv ==
    /\ IsFiniteSet(visited) /\ Cardinality(visited) >= Len(stack) - 1
    /\ phase = "depth" => Cardinality(visited) >= MaxDepth

\* The references of r's document are fetched, or still on some list.
Followed(x) ==
    \A r \in Range(refs[x]) :
        r.node \in visited \/ \E i \in 1..Len(stack) : r \in Range(stack[i].todo)

VisitedInv ==
    /\ visited \subseteq Closure
    /\ phase = "walk" => \A x \in visited \cup {Root} : Followed(x)
    /\ phase \in Indexing => visited = Closure

\* A document is indexed under a name that led to it, and under its final segment.
IsIndexed(q) ==
    q.name \in DOMAIN by_key /\ by_key[q.name] = q.node /\ Tail1(q.name) \in DOMAIN by_key

Active(n) == \E i \in 2..Len(stack) : stack[i].of[1].node = n
Known(n) == \E q \in Declared : q.node = n /\ IsIndexed(q)

\* A key of the set is a name that leads to its document, or such a name's final segment.
NamesIt(q, k) == q.node = by_key[k] /\ q.name.file = k.file

IndexInv ==
    /\ phase = "walk" => \A n \in visited : Active(n) \/ Known(n)
    /\ phase \in Indexing => \A n \in visited : Known(n)
    /\ \A k \in DOMAIN by_key : \E q \in Declared : NamesIt(q, k)
    /\ phase = "conflict" => \E r \in Declared : SharesFile(r)

CompileInv ==
    /\ \A x \in loaded : x.doc \in Closure \cup {Root}
    /\ phase = "done" => \A a \in Asked(loaded) : Lookup(by_key, a.uri) # {}
    /\ phase = "missing" => \E n \in Closure : HasOtherFile(n)

WalkInv ==
    /\ phase \in {"walk"} \cup Failed \cup Indexing /\ given = <<>>
    /\ StackInv /\ DepthInv /\ VisitedInv /\ IndexInv /\ CompileInv

RefsTyped == DOMAIN refs = Nodes /\ \A n \in Nodes : refs[n] \in Seq(References)

JsonInv ==
    /\ RefsTyped
    /\ IF stack = <<>> THEN phase # "walk" ELSE WalkInv

-----------------------------------------------------------------------------
(***************************************************************************)
(* The closure, and lists.                                                 *)
(***************************************************************************)
LEMMA ListFacts ==
  ASSUME NEW S, NEW s \in Seq(S)
  PROVE  /\ Range(s) \subseteq S
         /\ s = <<>> => Range(s) = {}
         /\ s # <<>> => /\ Head(s) \in Range(s) /\ Tail(s) \in Seq(S)
                        /\ Range(Tail(s)) \subseteq Range(s)
                        /\ \A r \in Range(s) : r = Head(s) \/ r \in Range(Tail(s))
<1>1. Range(s) \subseteq S /\ (s = <<>> => Range(s) = {})
  BY DEF Range
<1>2. ASSUME s # <<>>
      PROVE  /\ Head(s) \in Range(s) /\ Tail(s) \in Seq(S)
             /\ Range(Tail(s)) \subseteq Range(s)
             /\ \A r \in Range(s) : r = Head(s) \/ r \in Range(Tail(s))
  <2>1. Len(s) \in Nat /\ Len(s) >= 1 /\ DOMAIN s = 1..Len(s) /\ Head(s) = s[1]
    BY <1>2
  <2>2. /\ Tail(s) \in Seq(S) /\ DOMAIN Tail(s) = 1..(Len(s) - 1)
        /\ \A i \in 1..(Len(s) - 1) : Tail(s)[i] = s[i + 1]
    BY <1>2, <2>1
  <2>3. Head(s) \in Range(s)
    BY <2>1 DEF Range
  <2>4. Range(Tail(s)) \subseteq Range(s)
    BY <2>1, <2>2 DEF Range
  <2>5. ASSUME NEW r \in Range(s) PROVE r = Head(s) \/ r \in Range(Tail(s))
    <3>1. PICK i \in 1..Len(s) : r = s[i]
      BY <2>1 DEF Range
    <3>2. CASE i = 1
      BY <2>1, <3>1, <3>2
    <3>3. CASE i # 1
      <4>1. PICK j \in 1..(Len(s) - 1) : i = j + 1
        BY <2>1, <3>3
      <4>2. r = Tail(s)[j]
        BY <2>2, <3>1, <4>1
      <4>3. QED
        BY <2>2, <4>2 DEF Range
    <3>4. QED
      BY <3>2, <3>3
  <2>6. QED
    BY <2>2, <2>3, <2>4, <2>5
<1>3. QED
  BY <1>1, <1>2

LEMMA ClosureFacts ==
  ASSUME RefsTyped
  PROVE  /\ Closure \subseteq Nodes
         /\ Declared \subseteq References
         /\ \A r \in Declared : r.node \in Closure
         /\ \A x \in Closure \cup {Root} : x \in Nodes /\ Range(refs[x]) \subseteq Declared
<1>1. Closure \subseteq Nodes
  BY DEF Closure
<1>2. \A x \in Closure \cup {Root} : x \in Nodes /\ Range(refs[x]) \subseteq Declared
  BY <1>1, JsonAssumption DEF Declared
<1>3. ASSUME NEW r \in Declared PROVE r \in References /\ r.node \in Closure
  <2>1. PICK x \in Closure \cup {Root} : r \in Range(refs[x])
    BY DEF Declared
  <2>2. refs[x] \in Seq(References)
    BY <1>2 DEF RefsTyped
  <2>3. r \in References
    BY <2>1, <2>2, ListFacts
  <2>4. r.node \in Nodes
    BY <2>3 DEF References
  <2>5. ASSUME NEW S \in SUBSET Nodes, IsClosed(S) PROVE r.node \in S
    <3>1. x \in S \cup {Root}
      BY <2>5 DEF Closure
    <3>2. QED
      BY <2>1, <2>5, <3>1 DEF IsClosed
  <2>6. QED
    BY <2>3, <2>4, <2>5 DEF Closure
<1>4. QED
  BY <1>1, <1>2, <1>3

LEMMA ClosureLeast ==
  ASSUME NEW S \in SUBSET Nodes, IsClosed(S)
  PROVE  Closure \subseteq S
BY DEF Closure

LEMMA TopFacts ==
  ASSUME stack \in Seq(Frame), Len(stack) >= 1
  PROVE  /\ Len(stack) \in Nat /\ Len(stack) \in 1..Len(stack)
         /\ \A i \in 1..Len(stack) : stack[i] \in Frame
         /\ Top \in Frame /\ Top = stack[Len(stack)]
         /\ Top.todo \in Seq(References) /\ Top.of \in Seq(References)
         /\ Rest \in Seq(Frame) /\ Len(Rest) = Len(stack) - 1
         /\ \A i \in 1..(Len(stack) - 1) : Rest[i] = stack[i]
<1>1. Len(stack) \in Nat /\ Len(stack) \in 1..Len(stack)
  OBVIOUS
<1>2. \A i \in 1..Len(stack) : stack[i] \in Frame
  OBVIOUS
<1>3. Top \in Frame /\ Top = stack[Len(stack)]
  BY <1>1, <1>2 DEF Top
<1>4. Top.todo \in Seq(References) /\ Top.of \in Seq(References)
  BY <1>3 DEF Frame
<1>5. /\ Rest \in Seq(Frame) /\ Len(Rest) = Len(stack) - 1
      /\ \A i \in 1..(Len(stack) - 1) : Rest[i] = stack[i]
  <2> DEFINE n == Len(stack) - 1
  <2>1. n \in Int /\ 1 \in Int /\ \A i \in 1..n : stack[i] \in Frame
    BY <1>1, <1>2
  <2> HIDE DEF n
  <2>2. /\ SubSeq(stack, 1, n) \in Seq(Frame)
        /\ Len(SubSeq(stack, 1, n)) = IF 1 <= n THEN n - 1 + 1 ELSE 0
        /\ \A i \in 1..(n - 1 + 1) : SubSeq(stack, 1, n)[i] = stack[1 + i - 1]
    BY <2>1, SubSeqProperties
  <2>3. Rest = SubSeq(stack, 1, n)
    BY DEF Rest, n
  <2>4. n >= 0 /\ n = Len(stack) - 1
    BY <1>1 DEF n
  <2>5. QED
    BY <2>1, <2>2, <2>3, <2>4
<1>6. QED
  BY <1>1, <1>2, <1>3, <1>4, <1>5

LEMMA PushFacts ==
  ASSUME NEW S, NEW s \in Seq(S), NEW f \in S
  PROVE  /\ Append(s, f) \in Seq(S) /\ Len(Append(s, f)) = Len(s) + 1
         /\ \A i \in 1..Len(s) : Append(s, f)[i] = s[i]
         /\ Append(s, f)[Len(s) + 1] = f
OBVIOUS

\* The top list is one shorter, by the reference at its head.
Shorter(s) ==
  /\ s \in Seq(Frame) /\ Len(s) = Len(stack)
  /\ \A i \in 1..Len(stack) :
       /\ s[i].of = stack[i].of
       /\ Range(s[i].todo) \subseteq Range(stack[i].todo)
       /\ \A r \in Range(stack[i].todo) : r = Head(Top.todo) \/ r \in Range(s[i].todo)

LEMMA AdvancedFacts ==
  ASSUME stack \in Seq(Frame), Len(stack) >= 1, Top.todo # <<>>
  PROVE  Shorter(Advanced) /\ Head(Top.todo) \in Range(Top.todo)
<1> DEFINE f == [Top EXCEPT !.todo = Tail(@)]
<1>1. /\ Len(stack) \in Nat /\ Top \in Frame /\ Top = stack[Len(stack)]
      /\ Top.todo \in Seq(References)
      /\ Rest \in Seq(Frame) /\ Len(Rest) = Len(stack) - 1
      /\ \A i \in 1..(Len(stack) - 1) : Rest[i] = stack[i]
  BY TopFacts
<1>2. /\ Tail(Top.todo) \in Seq(References) /\ Range(Tail(Top.todo)) \subseteq Range(Top.todo)
      /\ \A r \in Range(Top.todo) : r = Head(Top.todo) \/ r \in Range(Tail(Top.todo))
      /\ Head(Top.todo) \in Range(Top.todo)
  BY <1>1, ListFacts
<1>3. f \in Frame /\ f.todo = Tail(Top.todo) /\ f.of = Top.of
  BY <1>1, <1>2 DEF Frame
<1>4. Advanced = Append(Rest, f)
  BY DEF Advanced
<1> HIDE DEF f
<1>5. /\ Advanced \in Seq(Frame) /\ Len(Advanced) = Len(stack)
      /\ \A i \in 1..(Len(stack) - 1) : Advanced[i] = stack[i]
      /\ Advanced[Len(stack)] = f
  BY <1>1, <1>3, <1>4, PushFacts
<1>6. ASSUME NEW i \in 1..Len(stack)
      PROVE  /\ Advanced[i].of = stack[i].of
             /\ Range(Advanced[i].todo) \subseteq Range(stack[i].todo)
             /\ \A r \in Range(stack[i].todo) :
                  r = Head(Top.todo) \/ r \in Range(Advanced[i].todo)
  <2>1. CASE i = Len(stack)
    BY <1>1, <1>2, <1>3, <1>5, <2>1
  <2>2. CASE i # Len(stack)
    BY <1>1, <1>5, <2>2
  <2>3. QED
    BY <2>1, <2>2
<1>7. QED
  BY <1>2, <1>5, <1>6 DEF Shorter

LEMMA Frozen ==
  ASSUME UNCHANGED refs
  PROVE  /\ Closure' = Closure /\ Declared' = Declared /\ RefsTyped' = RefsTyped
         /\ \A r : SharesFile(r)' = SharesFile(r)
         /\ \A n : HasOtherFile(n)' = HasOtherFile(n)
<1>1. Closure' = Closure
  BY DEF Closure, IsClosed
<1>2. Declared' = Declared
  BY <1>1 DEF Declared
<1>3. RefsTyped' = RefsTyped
  BY DEF RefsTyped
<1>4. QED
  BY <1>1, <1>2, <1>3 DEF SharesFile, HasOtherFile

-----------------------------------------------------------------------------
(***************************************************************************)
(* ReferenceSet.                                                            *)
(***************************************************************************)
LEMMA TailFacts ==
  ASSUME NEW name \in Names
  PROVE  /\ Tail1(name).file = name.file /\ Tail1(name) \in Names
         /\ name.dir = NoDir => Tail1(name) = name
         /\ name.dir # NoDir => Tail1(name) # name
BY DEF Names, Tail1

\* Inserting without a conflict changes no entry, and the entries added are
\* the document's, under the name and its final segment.
Inserted(set, t, name, doc) ==
  /\ name \in DOMAIN t /\ Tail1(name) \in DOMAIN t /\ t[name] = doc
  /\ \A k \in DOMAIN set : k \in DOMAIN t /\ t[k] = set[k]
  /\ \A k \in DOMAIN t : k \in DOMAIN set \/ (t[k] = doc /\ k.file = name.file)

LEMMA InsertFacts ==
  ASSUME NEW set, NEW name \in Names, NEW doc, ~Conflicts(set, name, doc)
  PROVE  Inserted(set, Insert(set, name, doc), name, doc)
<1> DEFINE s == IndexTail(set, name, doc)
           t == Insert(set, name, doc)
<1>1. /\ Tail1(name).file = name.file
      /\ name.dir = NoDir => Tail1(name) = name
      /\ name.dir # NoDir => Tail1(name) # name
  BY TailFacts
<1>2. /\ \A k \in DOMAIN set : k \in DOMAIN s /\ s[k] = set[k]
      /\ name.dir # NoDir => Tail1(name) \in DOMAIN s
      /\ \A k \in DOMAIN s : k \in DOMAIN set \/ (k = Tail1(name) /\ s[k] = doc)
  BY DEF IndexTail
<1>3. name \in DOMAIN s => s[name] = doc
  BY DEF Conflicts
<1>4. t = [k \in DOMAIN s \cup {name} |-> IF k = name THEN doc ELSE s[k]]
  BY DEF Insert
<1> HIDE DEF s, t
<1>5. DOMAIN t = DOMAIN s \cup {name} /\ t[name] = doc
  BY <1>4
<1>6. \A k \in DOMAIN s : t[k] = s[k]
  BY <1>3, <1>4
<1>7. name \in DOMAIN t /\ Tail1(name) \in DOMAIN t
  BY <1>1, <1>2, <1>5
<1>8. \A k \in DOMAIN set : k \in DOMAIN t /\ t[k] = set[k]
  BY <1>2, <1>5, <1>6
<1>9. \A k \in DOMAIN t : k \in DOMAIN set \/ (t[k] = doc /\ k.file = name.file)
  BY <1>1, <1>2, <1>5, <1>6
<1>10. QED
  BY <1>5, <1>7, <1>8, <1>9 DEF t, Inserted

LEMMA ConflictFacts ==
  ASSUME NEW set, NEW name \in Names, NEW doc, Conflicts(set, name, doc)
  PROVE  name \in DOMAIN set /\ set[name] # doc
<1>1. name.dir # NoDir => Tail1(name) # name
  BY TailFacts
<1>2. QED
  BY <1>1 DEF Conflicts, IndexTail

LEMMA LookupFacts ==
  ASSUME NEW set, NEW uri
  PROVE  /\ Lookup(set, uri) = {} <=> uri \notin DOMAIN set /\ Tail1(uri) \notin DOMAIN set
         /\ uri \in DOMAIN set => Lookup(set, uri) = {set[uri]}
         /\ uri \notin DOMAIN set /\ Tail1(uri) \in DOMAIN set => Lookup(set, uri) = {set[Tail1(uri)]}
BY DEF Lookup

\* What is asked for is a reference of a loaded document, by its file name.
LEMMA AskedFacts ==
  ASSUME RefsTyped, \A x \in loaded : x.doc \in Closure \cup {Root}, NEW a \in Asked(loaded)
  PROVE  /\ a.ref \in Declared /\ a.ref \in References /\ a.ref.name \in Names
         /\ a.uri.file = a.ref.name.file /\ Tail1(a.uri) = Tail1(a.ref.name)
         /\ a.ref.name.dir # NoDir => a.uri = a.ref.name
<1>1. PICK x \in loaded : \E r \in Range(refs[x.doc]) : a = [ref |-> r, uri |-> UriOf(x.uri, r.name)]
  BY DEF Asked
<1>r. PICK r \in Range(refs[x.doc]) : a = [ref |-> r, uri |-> UriOf(x.uri, r.name)]
  BY <1>1
<1>2. a.ref = r /\ a.uri = UriOf(x.uri, r.name)
  BY <1>r
<1>3. r \in Declared /\ r \in References
  BY <1>1, ClosureFacts
<1>4. r.name \in Names
  BY <1>3 DEF References
<1>5. /\ UriOf(x.uri, r.name).file = r.name.file
      /\ Tail1(UriOf(x.uri, r.name)) = Tail1(r.name)
      /\ r.name.dir # NoDir => UriOf(x.uri, r.name) = r.name
  BY <1>4 DEF UriOf, Tail1, Names
<1>6. QED
  BY <1>2, <1>3, <1>4, <1>5

-----------------------------------------------------------------------------
(***************************************************************************)
(* The steps.                                                              *)
(***************************************************************************)
LEMMA JsonInvInit == Init => JsonInv
<1> SUFFICES ASSUME Init PROVE JsonInv
  OBVIOUS
<1>1. RefsTyped
  BY JsonAssumption DEF Init, RefsTyped
<1>2. CASE phase = "pairs"
  BY <1>1, <1>2 DEF Init, JsonInv
<1>3. CASE phase = "walk"
  <2>1. /\ stack = <<[todo |-> refs[Root], of |-> <<>>]>> /\ given = <<>> /\ visited = {}
        /\ by_key = Nothing /\ loaded = {[uri |-> RootUri, doc |-> Root]}
    BY <1>3 DEF Init
  <2>2. refs[Root] \in Seq(References) /\ Range(refs[Root]) \subseteq Declared
    BY <1>1, ClosureFacts DEF RefsTyped
  <2>3. StackInv
    BY <2>1, <2>2 DEF StackInv, Frame
  <2>4. DepthInv
    BY <1>3, <2>1, FS_EmptySet DEF DepthInv
  <2>5. VisitedInv
    BY <1>3, <2>1 DEF VisitedInv, Followed, Indexing
  <2>6. IndexInv
    BY <1>3, <2>1 DEF IndexInv, Nothing, Indexing
  <2>7. CompileInv
    BY <1>3, <2>1 DEF CompileInv
  <2>8. WalkInv
    BY <1>3, <2>1, <2>3, <2>4, <2>5, <2>6, <2>7 DEF WalkInv
  <2>9. QED
    BY <1>1, <2>1, <2>8 DEF JsonInv
<1>4. QED
  BY <1>2, <1>3 DEF Init

\* What a step of the walk starts from.
LEMMA WalkFacts ==
  ASSUME JsonInv, phase = "walk"
  PROVE  /\ RefsTyped /\ WalkInv /\ stack \in Seq(Frame) /\ stack # <<>> /\ Len(stack) >= 1
         /\ Len(stack) \in Nat /\ Len(stack) \in 1..Len(stack) /\ Top = stack[Len(stack)]
         /\ Range(Top.todo) \subseteq Declared
         /\ Top.todo \in Seq(References)
<1>1. RefsTyped /\ WalkInv /\ stack # <<>>
  BY DEF JsonInv
<1>2. stack \in Seq(Frame) /\ Len(stack) >= 1
  BY <1>1 DEF WalkInv, StackInv
<1>3. /\ Len(stack) \in Nat /\ Len(stack) \in 1..Len(stack) /\ Top = stack[Len(stack)]
      /\ Top.todo \in Seq(References)
  BY <1>2, TopFacts
<1>4. Range(Top.todo) \subseteq Declared
  BY <1>1, <1>3 DEF WalkInv, StackInv
<1>5. QED
  BY <1>1, <1>2, <1>3, <1>4

LEMMA SkipStep ==
  ASSUME JsonInv, Skip
  PROVE  JsonInv'
<1>1. /\ phase = "walk" /\ Top.todo # <<>> /\ Head(Top.todo).node \in visited
      /\ stack' = Advanced /\ UNCHANGED <<refs, phase, given, indexed, visited, by_key, loaded>>
  BY DEF Skip
<1>2. RefsTyped /\ WalkInv /\ stack \in Seq(Frame) /\ Len(stack) >= 1 /\ Len(stack) \in Nat
  BY <1>1, WalkFacts
<1>3. /\ stack' \in Seq(Frame) /\ Len(stack') = Len(stack)
      /\ \A i \in 1..Len(stack) :
           /\ stack'[i].of = stack[i].of
           /\ Range(stack'[i].todo) \subseteq Range(stack[i].todo)
           /\ \A r \in Range(stack[i].todo) :
                r = Head(Top.todo) \/ r \in Range(stack'[i].todo)
  <2>1. Shorter(stack')
    BY <1>1, <1>2, AdvancedFacts
  <2>2. QED
    BY <2>1 DEF Shorter
<1>4. /\ Closure' = Closure /\ Declared' = Declared /\ RefsTyped' = RefsTyped
  BY <1>1, Frozen
<1>5. StackInv'
  <2>1. ASSUME NEW i \in 1..Len(stack') PROVE Range(stack'[i].todo) \subseteq Declared'
    <3>1. Range(stack[i].todo) \subseteq Declared
      BY <1>2, <1>3 DEF WalkInv, StackInv
    <3>2. QED
      BY <1>3, <1>4, <3>1
  <2>2. ASSUME NEW i \in 2..Len(stack')
        PROVE  stack'[i].of # <<>> /\ stack'[i].of[1] \in Declared'
    <3>1. i \in 1..Len(stack) /\ i \in 2..Len(stack)
      BY <1>2, <1>3
    <3>2. stack[i].of # <<>> /\ stack[i].of[1] \in Declared
      BY <1>2, <3>1 DEF WalkInv, StackInv
    <3>3. QED
      BY <1>3, <1>4, <3>1, <3>2
  <2>3. stack' \in Seq(Frame) /\ Len(stack') >= 1
    BY <1>2, <1>3
  <2>4. QED
    BY <2>1, <2>2, <2>3 DEF StackInv
<1>6. DepthInv'
  BY <1>1, <1>2, <1>3 DEF WalkInv, DepthInv
<1>7. VisitedInv'
  <2>1. ASSUME NEW x \in visited \cup {Root}, NEW r \in Range(refs[x])
        PROVE  r.node \in visited \/ \E i \in 1..Len(stack') : r \in Range(stack'[i].todo)
    <3>1. r.node \in visited \/ \E i \in 1..Len(stack) : r \in Range(stack[i].todo)
      BY <1>1, <1>2 DEF WalkInv, VisitedInv, Followed
    <3>2. QED
      BY <1>1, <1>3, <3>1
  <2>2. (\A x \in visited \cup {Root} : Followed(x))'
    BY <1>1, <2>1 DEF Followed
  <2>3. QED
    BY <1>1, <1>2, <1>4, <2>2 DEF WalkInv, VisitedInv, Indexing
<1>8. IndexInv'
  <2>1. \A n : Known(n)' = Known(n)
    BY <1>1, <1>4 DEF Known, IsIndexed
  <2>2. \A n : Active(n) => Active(n)'
    BY <1>2, <1>3 DEF Active
  <2>3. \A n \in visited' : Active(n)' \/ Known(n)'
    BY <1>1, <1>2, <2>1, <2>2 DEF WalkInv, IndexInv
  <2>4. (\A k \in DOMAIN by_key : \E q \in Declared : NamesIt(q, k))'
    BY <1>1, <1>2, <1>4 DEF WalkInv, IndexInv, NamesIt
  <2>5. QED
    BY <1>1, <2>3, <2>4 DEF IndexInv, Indexing
<1>9. CompileInv'
  BY <1>1, <1>2, <1>4 DEF WalkInv, CompileInv
<1>10. WalkInv'
  BY <1>1, <1>2, <1>5, <1>6, <1>7, <1>8, <1>9 DEF WalkInv
<1>11. stack' # <<>>
  BY <1>2, <1>3
<1>12. QED
  BY <1>2, <1>4, <1>10, <1>11 DEF JsonInv

\* A walk that fails keeps what is indexed.
LEMMA FailStep ==
  ASSUME JsonInv, phase = "walk", phase' \in Failed, UNCHANGED <<refs, given, by_key, loaded>>,
         StackInv', DepthInv', visited' \subseteq Closure,
         phase' = "conflict" => \E r \in Declared : SharesFile(r)
  PROVE  JsonInv'
<1>1. RefsTyped /\ WalkInv
  BY WalkFacts
<1>2. /\ Closure' = Closure /\ Declared' = Declared /\ RefsTyped' = RefsTyped
      /\ \A r : SharesFile(r)' = SharesFile(r)
  BY Frozen
<1>3. phase' # "walk" /\ phase' \notin Indexing /\ phase' # "done" /\ phase' # "missing"
  BY DEF Failed, Indexing
<1>4. VisitedInv'
  BY <1>2, <1>3 DEF VisitedInv
<1>5. IndexInv'
  <2>1. (\A k \in DOMAIN by_key : \E q \in Declared : NamesIt(q, k))'
    BY <1>1, <1>2 DEF WalkInv, IndexInv, NamesIt
  <2>2. QED
    BY <1>2, <1>3, <2>1 DEF IndexInv
<1>6. CompileInv'
  BY <1>1, <1>2, <1>3 DEF WalkInv, CompileInv
<1>7. WalkInv'
  BY <1>1, <1>4, <1>5, <1>6 DEF WalkInv
<1>8. stack' # <<>>
  BY DEF StackInv
<1>9. QED
  BY <1>1, <1>2, <1>7, <1>8 DEF JsonInv

\* A document fetched for the first time.
LEMMA FetchFacts ==
  ASSUME JsonInv, phase = "walk", Top.todo # <<>>, Head(Top.todo).node \notin visited
  PROVE  /\ Head(Top.todo) \in Declared /\ Head(Top.todo) \in References
         /\ Head(Top.todo).node \in Closure /\ Head(Top.todo).node \in Nodes
         /\ refs[Head(Top.todo).node] \in Seq(References)
         /\ Range(refs[Head(Top.todo).node]) \subseteq Declared
         /\ visited \cup {Head(Top.todo).node} \subseteq Closure
         /\ IsFiniteSet(visited \cup {Head(Top.todo).node})
         /\ Cardinality(visited \cup {Head(Top.todo).node}) \in Nat
         /\ Cardinality(visited \cup {Head(Top.todo).node}) >= Len(stack)
<1> DEFINE ref == Head(Top.todo)
<1>1. /\ RefsTyped /\ WalkInv /\ Len(stack) \in Nat /\ Range(Top.todo) \subseteq Declared
      /\ Top.todo \in Seq(References)
  BY WalkFacts
<1>2. ref \in Declared
  BY <1>1, ListFacts
<1>3. ref \in References /\ ref.node \in Closure /\ ref.node \in Nodes
  BY <1>1, <1>2, ClosureFacts
<1>4. refs[ref.node] \in Seq(References) /\ Range(refs[ref.node]) \subseteq Declared
  BY <1>1, <1>3, ClosureFacts DEF RefsTyped
<1>5. visited \subseteq Closure /\ IsFiniteSet(visited) /\ Cardinality(visited) >= Len(stack) - 1
  BY <1>1 DEF WalkInv, VisitedInv, DepthInv
<1> HIDE DEF ref
<1>6. IsFiniteSet(visited \cup {ref.node}) /\ Cardinality(visited \cup {ref.node}) = Cardinality(visited) + 1
  BY <1>5, FS_AddElement DEF ref
<1>7. Cardinality(visited) \in Nat
  BY <1>5, FS_CardinalityType
<1>8. QED
  BY <1>1, <1>2, <1>3, <1>4, <1>5, <1>6, <1>7 DEF ref

LEMMA FetchFailsStep ==
  ASSUME JsonInv, FetchFails
  PROVE  JsonInv'
<1> DEFINE n == Head(Top.todo).node
<1>1. /\ phase = "walk" /\ Top.todo # <<>> /\ n \notin visited
      /\ visited' = visited \cup {n} /\ phase' = "fetch"
      /\ UNCHANGED <<refs, stack, given, indexed, by_key, loaded>>
  BY DEF FetchFails
<1>2. /\ visited' \subseteq Closure /\ IsFiniteSet(visited')
      /\ Cardinality(visited') \in Nat /\ Cardinality(visited') >= Len(stack)
  BY <1>1, FetchFacts
<1>3. WalkInv /\ Len(stack) \in Nat
  BY <1>1, WalkFacts
<1>4. StackInv'
  BY <1>1, <1>3, Frozen DEF WalkInv, StackInv
<1>5. DepthInv'
  BY <1>1, <1>2, <1>3 DEF DepthInv
<1>6. phase' \in Failed /\ phase' # "conflict"
  BY <1>1 DEF Failed
<1>7. QED
  BY <1>1, <1>2, <1>4, <1>5, <1>6, FailStep

\* The stack and what is visited when a fetched document's list is entered.
LEMMA FetchPushes ==
  ASSUME JsonInv, phase = "walk", Top.todo # <<>>, Head(Top.todo).node \notin visited,
         stack' = Append(Advanced, [todo |-> refs[Head(Top.todo).node], of |-> <<Head(Top.todo)>>])
  PROVE  /\ stack' \in Seq(Frame) /\ Len(stack') = Len(stack) + 1
         /\ stack'[Len(stack) + 1].todo = refs[Head(Top.todo).node]
         /\ stack'[Len(stack) + 1].of # <<>> /\ stack'[Len(stack) + 1].of[1] = Head(Top.todo)
         /\ \A i \in 1..Len(stack) :
              /\ stack'[i].of = stack[i].of
              /\ Range(stack'[i].todo) \subseteq Range(stack[i].todo)
              /\ \A r \in Range(stack[i].todo) :
                   r = Head(Top.todo) \/ r \in Range(stack'[i].todo)
<1> DEFINE f == [todo |-> refs[Head(Top.todo).node], of |-> <<Head(Top.todo)>>]
<1>1. stack \in Seq(Frame) /\ Len(stack) >= 1 /\ Len(stack) \in Nat
  BY WalkFacts
<1>2. Shorter(Advanced)
  BY <1>1, AdvancedFacts
<1>3. f \in Frame /\ f.todo = refs[Head(Top.todo).node] /\ f.of # <<>> /\ f.of[1] = Head(Top.todo)
  BY FetchFacts DEF Frame
<1> HIDE DEF f
<1>4. stack' = Append(Advanced, f)
  BY DEF f
<1>5. Advanced \in Seq(Frame) /\ Len(Advanced) = Len(stack)
  BY <1>2 DEF Shorter
<1>6. /\ stack' \in Seq(Frame) /\ Len(stack') = Len(stack) + 1
      /\ \A i \in 1..Len(stack) : stack'[i] = Advanced[i]
      /\ stack'[Len(stack) + 1] = f
  BY <1>3, <1>4, <1>5, PushFacts
<1>7. ASSUME NEW i \in 1..Len(stack)
      PROVE  /\ stack'[i].of = stack[i].of
             /\ Range(stack'[i].todo) \subseteq Range(stack[i].todo)
             /\ \A r \in Range(stack[i].todo) :
                  r = Head(Top.todo) \/ r \in Range(stack'[i].todo)
  BY <1>2, <1>6 DEF Shorter
<1>8. QED
  BY <1>3, <1>6, <1>7

LEMMA FetchStep ==
  ASSUME JsonInv, Fetch
  PROVE  JsonInv'
<1> DEFINE ref == Head(Top.todo)
           n == ref.node
<1>1. /\ phase = "walk" /\ Top.todo # <<>> /\ n \notin visited /\ visited' = visited \cup {n}
      /\ UNCHANGED <<refs, given, indexed, by_key, loaded>>
      /\ IF refs[n] # <<>> /\ Len(stack) >= MaxDepth
         THEN phase' = "depth" /\ UNCHANGED stack
         ELSE stack' = Append(Advanced, [todo |-> refs[n], of |-> <<ref>>]) /\ UNCHANGED phase
  BY DEF Fetch
<1>2. /\ ref \in Declared /\ n \in Closure /\ n \in Nodes /\ Range(refs[n]) \subseteq Declared
      /\ visited' \subseteq Closure /\ IsFiniteSet(visited')
      /\ Cardinality(visited') \in Nat /\ Cardinality(visited') >= Len(stack)
  BY <1>1, FetchFacts
<1>3. RefsTyped /\ WalkInv /\ Len(stack) \in Nat /\ Len(stack) >= 1
  BY <1>1, WalkFacts
<1>4. /\ Closure' = Closure /\ Declared' = Declared /\ RefsTyped' = RefsTyped
  BY <1>1, Frozen
<1>5. CASE refs[n] # <<>> /\ Len(stack) >= MaxDepth
  <2>1. phase' = "depth" /\ UNCHANGED stack
    BY <1>1, <1>5
  <2>2. StackInv'
    BY <1>3, <1>4, <2>1 DEF WalkInv, StackInv
  <2>3. DepthInv'
    BY <1>2, <1>3, <1>5, <2>1, JsonAssumption DEF DepthInv
  <2>4. phase' \in Failed /\ phase' # "conflict"
    BY <2>1 DEF Failed
  <2>5. QED
    BY <1>1, <1>2, <2>2, <2>3, <2>4, FailStep
<1>6. CASE ~(refs[n] # <<>> /\ Len(stack) >= MaxDepth)
  <2>1. phase' = "walk" /\ stack' = Append(Advanced, [todo |-> refs[n], of |-> <<ref>>])
    BY <1>1, <1>6
  <2>2. /\ stack' \in Seq(Frame) /\ Len(stack') = Len(stack) + 1
        /\ stack'[Len(stack) + 1].todo = refs[n]
        /\ stack'[Len(stack) + 1].of # <<>> /\ stack'[Len(stack) + 1].of[1] = ref
        /\ \A i \in 1..Len(stack) :
             /\ stack'[i].of = stack[i].of
             /\ Range(stack'[i].todo) \subseteq Range(stack[i].todo)
             /\ \A r \in Range(stack[i].todo) : r = ref \/ r \in Range(stack'[i].todo)
    BY <1>1, <2>1, FetchPushes
  <2> HIDE DEF ref
  <2>3. StackInv'
    <3>1. ASSUME NEW i \in 1..Len(stack') PROVE Range(stack'[i].todo) \subseteq Declared'
      <4>1. CASE i = Len(stack) + 1
        BY <1>2, <1>4, <2>2, <4>1
      <4>2. CASE i # Len(stack) + 1
        <5>1. i \in 1..Len(stack)
          BY <1>3, <2>2, <4>2
        <5>2. Range(stack[i].todo) \subseteq Declared
          BY <1>3, <5>1 DEF WalkInv, StackInv
        <5>3. QED
          BY <1>4, <2>2, <5>1, <5>2
      <4>3. QED
        BY <4>1, <4>2
    <3>2. ASSUME NEW i \in 2..Len(stack')
          PROVE  stack'[i].of # <<>> /\ stack'[i].of[1] \in Declared'
      <4>1. CASE i = Len(stack) + 1
        BY <1>2, <1>4, <2>2, <4>1
      <4>2. CASE i # Len(stack) + 1
        <5>1. i \in 1..Len(stack) /\ i \in 2..Len(stack)
          BY <1>3, <2>2, <4>2
        <5>2. stack[i].of # <<>> /\ stack[i].of[1] \in Declared
          BY <1>3, <5>1 DEF WalkInv, StackInv
        <5>3. QED
          BY <1>4, <2>2, <5>1, <5>2
      <4>3. QED
        BY <4>1, <4>2
    <3>3. stack' \in Seq(Frame) /\ Len(stack') >= 1
      BY <1>3, <2>2
    <3>4. QED
      BY <3>1, <3>2, <3>3 DEF StackInv
  <2>4. DepthInv'
    BY <1>2, <1>3, <2>1, <2>2 DEF DepthInv
  <2>5. VisitedInv'
    <3>1. ASSUME NEW x \in visited' \cup {Root}, NEW r \in Range(refs[x])
          PROVE  r.node \in visited' \/ \E i \in 1..Len(stack') : r \in Range(stack'[i].todo)
      <4>1. CASE x = n
        <5>1. r \in Range(stack'[Len(stack) + 1].todo)
          BY <2>2, <4>1
        <5>2. Len(stack) + 1 \in 1..Len(stack')
          BY <1>3, <2>2
        <5>3. QED
          BY <5>1, <5>2
      <4>2. CASE x # n
        <5>1. x \in visited \cup {Root}
          BY <1>1, <4>2
        <5>2. r.node \in visited \/ \E i \in 1..Len(stack) : r \in Range(stack[i].todo)
          BY <1>1, <1>3, <5>1 DEF WalkInv, VisitedInv, Followed
        <5>3. CASE r.node \in visited
          BY <1>1, <5>3
        <5>4. CASE \E i \in 1..Len(stack) : r \in Range(stack[i].todo)
          <6>1. PICK i \in 1..Len(stack) : r \in Range(stack[i].todo)
            BY <5>4
          <6>2. r = ref \/ r \in Range(stack'[i].todo)
            BY <2>2, <6>1
          <6>3. i \in 1..Len(stack')
            BY <1>3, <2>2
          <6>4. QED
            BY <1>1, <6>2, <6>3
        <5>5. QED
          BY <5>2, <5>3, <5>4
      <4>3. QED
        BY <4>1, <4>2
    <3>2. (\A x \in visited \cup {Root} : Followed(x))'
      BY <1>1, <3>1 DEF Followed
    <3>3. QED
      BY <1>2, <1>4, <2>1, <3>2 DEF VisitedInv, Indexing
  <2>6. IndexInv'
    <3>1. \A m : Known(m)' = Known(m)
      BY <1>1, <1>4 DEF Known, IsIndexed
    <3>2. ASSUME NEW m \in visited' PROVE Active(m)' \/ Known(m)'
      <4>1. CASE m = n
        <5>1. Len(stack) + 1 \in 2..Len(stack')
          BY <1>3, <2>2
        <5>2. QED
          BY <2>2, <4>1, <5>1 DEF Active
      <4>2. CASE m # n
        <5>1. Active(m) \/ Known(m)
          BY <1>1, <1>3, <4>2 DEF WalkInv, IndexInv
        <5>2. ASSUME Active(m) PROVE Active(m)'
          <6>1. PICK i \in 2..Len(stack) : stack[i].of[1].node = m
            BY <5>2 DEF Active
          <6>2. i \in 1..Len(stack) /\ i \in 2..Len(stack')
            BY <1>3, <2>2
          <6>3. stack'[i].of[1].node = m
            BY <2>2, <6>1, <6>2
          <6>4. QED
            BY <6>2, <6>3 DEF Active
        <5>3. QED
          BY <3>1, <5>1, <5>2
      <4>3. QED
        BY <4>1, <4>2
    <3>3. (\A k \in DOMAIN by_key : \E q \in Declared : NamesIt(q, k))'
      BY <1>1, <1>3, <1>4 DEF WalkInv, IndexInv, NamesIt
    <3>4. QED
      BY <2>1, <3>2, <3>3 DEF IndexInv, Indexing
  <2>7. CompileInv'
    BY <1>1, <1>3, <1>4, <2>1 DEF WalkInv, CompileInv
  <2>8. WalkInv'
    BY <1>1, <1>3, <2>1, <2>3, <2>4, <2>5, <2>6, <2>7 DEF WalkInv
  <2>9. stack' # <<>>
    BY <1>3, <2>2
  <2>10. QED
    BY <1>3, <1>4, <2>8, <2>9 DEF JsonInv
<1>7. QED
  BY <1>5, <1>6

LEMMA ReturnStep ==
  ASSUME JsonInv, Return
  PROVE  JsonInv'
<1>r. PICK ref : ref = Top.of[1]
  OBVIOUS
<1>1. /\ phase = "walk" /\ Len(stack) > 1 /\ Top.todo = <<>> /\ Index(ref) /\ stack' = Rest
      /\ UNCHANGED <<refs, given, indexed, visited, loaded>>
  BY <1>r DEF Return
<1>2. /\ RefsTyped /\ WalkInv /\ stack \in Seq(Frame) /\ Len(stack) \in Nat /\ Len(stack) >= 1
      /\ Top = stack[Len(stack)]
  BY <1>1, WalkFacts
<1>3. /\ stack' \in Seq(Frame) /\ Len(stack') = Len(stack) - 1
      /\ \A i \in 1..(Len(stack) - 1) : stack'[i] = stack[i]
  BY <1>1, <1>2, TopFacts
<1>4. /\ Closure' = Closure /\ Declared' = Declared /\ RefsTyped' = RefsTyped
  BY <1>1, Frozen
<1>5. ref \in Declared /\ ref \in References /\ ref.name \in Names
  <2>1. ref \in Declared
    <3>1. Len(stack) \in 2..Len(stack)
      BY <1>1, <1>2
    <3>2. QED
      BY <1>r, <1>2, <3>1 DEF WalkInv, StackInv
  <2>2. ref \in References
    BY <1>2, <2>1, ClosureFacts
  <2>3. QED
    BY <2>1, <2>2 DEF References
<1>6. StackInv'
  <2>1. ASSUME NEW i \in 1..Len(stack') PROVE Range(stack'[i].todo) \subseteq Declared'
    BY <1>2, <1>3, <1>4 DEF WalkInv, StackInv
  <2>2. ASSUME NEW i \in 2..Len(stack')
        PROVE  stack'[i].of # <<>> /\ stack'[i].of[1] \in Declared'
    BY <1>2, <1>3, <1>4 DEF WalkInv, StackInv
  <2>3. Len(stack') >= 1
    BY <1>1, <1>2, <1>3
  <2>4. QED
    BY <1>3, <2>1, <2>2, <2>3 DEF StackInv
<1>7. visited \subseteq Closure /\ IsFiniteSet(visited) /\ Cardinality(visited) >= Len(stack) - 1
  BY <1>2 DEF WalkInv, VisitedInv, DepthInv
<1>8. Cardinality(visited) \in Nat
  BY <1>7, FS_CardinalityType
<1>9. phase' # "depth" => DepthInv'
  BY <1>1, <1>2, <1>3, <1>7, <1>8 DEF DepthInv
<1>10. CASE Full(by_key) \/ Conflicts(by_key, ref.name, ref.node)
  <2>1. /\ UNCHANGED by_key
        /\ phase' = IF Full(by_key) THEN "full" ELSE "conflict"
    BY <1>1, <1>10 DEF Index
  <2>2. phase' \in Failed /\ phase' # "depth"
    BY <2>1 DEF Failed
  <2>3. ASSUME phase' = "conflict" PROVE \E r \in Declared : SharesFile(r)
    <3>1. Conflicts(by_key, ref.name, ref.node)
      BY <1>10, <2>1, <2>3
    <3>2. ref.name \in DOMAIN by_key /\ by_key[ref.name] # ref.node
      BY <1>5, <3>1, ConflictFacts
    <3>3. PICK q \in Declared : NamesIt(q, ref.name)
      BY <1>2, <3>2 DEF WalkInv, IndexInv
    <3>4. SharesFile(ref)
      BY <3>2, <3>3 DEF SharesFile, NamesIt
    <3>5. QED
      BY <1>5, <3>4
  <2>4. QED
    BY <1>1, <1>6, <1>7, <1>9, <2>1, <2>2, <2>3, FailStep
<1>11. CASE ~Full(by_key) /\ ~Conflicts(by_key, ref.name, ref.node)
  <2>1. by_key' = Insert(by_key, ref.name, ref.node) /\ phase' = "walk"
    BY <1>1, <1>11 DEF Index
  <2>2. /\ ref.name \in DOMAIN by_key' /\ Tail1(ref.name) \in DOMAIN by_key'
        /\ by_key'[ref.name] = ref.node
        /\ \A k \in DOMAIN by_key : k \in DOMAIN by_key' /\ by_key'[k] = by_key[k]
        /\ \A k \in DOMAIN by_key' :
             k \in DOMAIN by_key \/ (by_key'[k] = ref.node /\ k.file = ref.name.file)
    <3>1. Inserted(by_key, by_key', ref.name, ref.node)
      BY <1>5, <1>11, <2>1, InsertFacts
    <3>2. QED
      BY <3>1 DEF Inserted
  <2>3. VisitedInv'
    <3>1. ASSUME NEW x \in visited \cup {Root}, NEW r \in Range(refs[x])
          PROVE  r.node \in visited \/ \E i \in 1..Len(stack') : r \in Range(stack'[i].todo)
      <4>1. r.node \in visited \/ \E i \in 1..Len(stack) : r \in Range(stack[i].todo)
        BY <1>1, <1>2 DEF WalkInv, VisitedInv, Followed
      <4>2. Range(stack[Len(stack)].todo) = {}
        BY <1>1, <1>2 DEF Range
      <4>3. ASSUME NEW i \in 1..Len(stack), r \in Range(stack[i].todo)
            PROVE  i \in 1..Len(stack') /\ r \in Range(stack'[i].todo)
        <5>1. i # Len(stack)
          BY <4>2, <4>3
        <5>2. i \in 1..(Len(stack) - 1)
          BY <1>2, <5>1
        <5>3. QED
          BY <1>3, <4>3, <5>2
      <4>4. QED
        BY <4>1, <4>3
    <3>2. (\A x \in visited \cup {Root} : Followed(x))'
      BY <1>1, <3>1 DEF Followed
    <3>3. QED
      BY <1>1, <1>4, <1>7, <2>1, <3>2 DEF VisitedInv, Indexing
  <2>4. IndexInv'
    <3>1. ASSUME NEW m, Known(m) PROVE Known(m)'
      <4>1. PICK q \in Declared : q.node = m /\ IsIndexed(q)
        BY <3>1 DEF Known
      <4>2. IsIndexed(q)'
        BY <2>2, <4>1 DEF IsIndexed
      <4>3. QED
        BY <1>4, <4>1, <4>2 DEF Known
    <3>2. Known(ref.node)'
      <4>1. IsIndexed(ref)'
        BY <2>2 DEF IsIndexed
      <4>2. QED
        BY <1>4, <1>5, <4>1 DEF Known
    <3>3. ASSUME NEW m \in visited PROVE Active(m)' \/ Known(m)'
      <4>1. Active(m) \/ Known(m)
        BY <1>1, <1>2 DEF WalkInv, IndexInv
      <4>2. ASSUME Active(m) PROVE Active(m)' \/ Known(m)'
        <5>1. PICK i \in 2..Len(stack) : stack[i].of[1].node = m
          BY <4>2 DEF Active
        <5>2. CASE i = Len(stack)
          <6>1. m = ref.node
            BY <1>r, <1>2, <5>1, <5>2
          <6>2. QED
            BY <3>2, <6>1
        <5>3. CASE i # Len(stack)
          <6>1. i \in 1..(Len(stack) - 1) /\ i \in 2..Len(stack')
            BY <1>2, <1>3, <5>3
          <6>2. stack'[i].of[1].node = m
            BY <1>3, <5>1, <6>1
          <6>3. QED
            BY <6>1, <6>2 DEF Active
        <5>4. QED
          BY <5>2, <5>3
      <4>3. QED
        BY <3>1, <4>1, <4>2
    <3>4. ASSUME NEW k \in DOMAIN by_key' PROVE \E q \in Declared' : NamesIt(q, k)'
      <4>1. CASE k \in DOMAIN by_key
        <5>1. PICK q \in Declared : NamesIt(q, k)
          BY <1>2, <4>1 DEF WalkInv, IndexInv
        <5>2. NamesIt(q, k)'
          BY <2>2, <4>1, <5>1 DEF NamesIt
        <5>3. QED
          BY <1>4, <5>2
      <4>2. CASE k \notin DOMAIN by_key
        <5>1. NamesIt(ref, k)'
          BY <2>2, <4>2 DEF NamesIt
        <5>2. QED
          BY <1>4, <1>5, <5>1
      <4>3. QED
        BY <4>1, <4>2
    <3>5. QED
      BY <1>1, <2>1, <3>3, <3>4 DEF IndexInv, Indexing
  <2>5. CompileInv'
    BY <1>1, <1>2, <1>4, <2>1 DEF WalkInv, CompileInv
  <2>6. DepthInv'
    BY <1>9, <2>1
  <2>7. WalkInv'
    BY <1>1, <1>2, <1>6, <2>1, <2>3, <2>4, <2>5, <2>6 DEF WalkInv
  <2>8. stack' # <<>>
    BY <1>6 DEF StackInv
  <2>9. QED
    BY <1>2, <1>4, <2>7, <2>8 DEF JsonInv
<1>12. QED
  BY <1>10, <1>11

\* When the walk is through, what it has fetched is closed: nothing is missing.
LEMMA StartCompileStep ==
  ASSUME JsonInv, StartCompile
  PROVE  JsonInv'
<1>1. phase' = "compile" /\ UNCHANGED <<refs, stack, given, indexed, visited, by_key, loaded>>
  BY DEF StartCompile
<1>2. RefsTyped
  BY DEF JsonInv
<1>3. /\ Closure' = Closure /\ Declared' = Declared /\ RefsTyped' = RefsTyped
  BY <1>1, Frozen
<1>4. CASE stack = <<>>
  BY <1>1, <1>2, <1>3, <1>4 DEF JsonInv
<1>5. CASE stack # <<>>
  <2>1. WalkInv
    BY <1>5 DEF JsonInv
  <2>2. phase = "walk" /\ Len(stack) = 1 /\ Top.todo = <<>>
    BY <2>1 DEF StartCompile, WalkInv, Failed, Indexing
  <2>3. Top = stack[1]
    BY <2>2 DEF Top
  <2>4. visited = Closure
    <3>1. visited \subseteq Closure /\ Closure \subseteq Nodes
      BY <1>2, <2>1, ClosureFacts DEF WalkInv, VisitedInv
    <3>2. Range(stack[1].todo) = {}
      BY <2>2, <2>3 DEF Range
    <3>3. IsClosed(visited)
      <4>1. ASSUME NEW x \in visited \cup {Root}, NEW r \in Range(refs[x]) PROVE r.node \in visited
        <5>1. r.node \in visited \/ \E i \in 1..Len(stack) : r \in Range(stack[i].todo)
          BY <2>1, <2>2 DEF WalkInv, VisitedInv, Followed
        <5>2. \A i \in 1..Len(stack) : i = 1
          BY <2>2
        <5>3. QED
          BY <3>2, <5>1, <5>2
      <4>2. QED
        BY <4>1 DEF IsClosed
    <3>4. Closure \subseteq visited
      BY <3>1, <3>3, ClosureLeast
    <3>5. QED
      BY <3>1, <3>4
  <2>5. StackInv'
    BY <1>1, <1>3, <2>1 DEF WalkInv, StackInv
  <2>6. DepthInv'
    BY <1>1, <2>1 DEF WalkInv, DepthInv
  <2>7. VisitedInv'
    BY <1>1, <1>3, <2>4 DEF VisitedInv
  <2>8. IndexInv'
    <3>1. ASSUME NEW m \in visited PROVE Known(m)'
      <4>1. Active(m) \/ Known(m)
        BY <2>1, <2>2 DEF WalkInv, IndexInv
      <4>2. ~Active(m)
        BY <2>2 DEF Active
      <4>3. Known(m)' = Known(m)
        BY <1>1, <1>3 DEF Known, IsIndexed
      <4>4. QED
        BY <4>1, <4>2, <4>3
    <3>2. (\A k \in DOMAIN by_key : \E q \in Declared : NamesIt(q, k))'
      BY <1>1, <1>3, <2>1 DEF WalkInv, IndexInv, NamesIt
    <3>3. QED
      BY <1>1, <3>1, <3>2 DEF IndexInv
  <2>9. CompileInv'
    BY <1>1, <1>3, <2>1 DEF WalkInv, CompileInv
  <2>10. WalkInv'
    BY <1>1, <2>1, <2>5, <2>6, <2>7, <2>8, <2>9 DEF WalkInv, Indexing
  <2>11. QED
    BY <1>1, <1>2, <1>3, <1>5, <2>10 DEF JsonInv
<1>6. QED
  BY <1>4, <1>5

\* A $ref that is not found, though its document was fetched.
LEMMA MissingFacts ==
  ASSUME RefsTyped, CompileInv, visited = Closure, \A n \in visited : Known(n),
         NEW a \in Asked(loaded), Lookup(by_key, a.uri) = {}
  PROVE  \E n \in Closure : HasOtherFile(n)
<1>1. /\ a.ref \in Declared /\ a.ref.name \in Names /\ Tail1(a.uri) = Tail1(a.ref.name)
  BY AskedFacts DEF CompileInv
<1>2. Tail1(a.ref.name) \notin DOMAIN by_key
  BY <1>1, LookupFacts
<1>3. a.ref.node \in Closure
  BY <1>1, ClosureFacts
<1>4. PICK q \in Declared : q.node = a.ref.node /\ IsIndexed(q)
  BY <1>3 DEF Known
<1>5. q.name \in Names
  BY ClosureFacts DEF References
<1>6. q.name.file # a.ref.name.file
  <2>1. Tail1(q.name) # Tail1(a.ref.name)
    BY <1>2, <1>4 DEF IsIndexed
  <2>2. QED
    BY <1>1, <1>5, <2>1 DEF Tail1, Names
<1>7. HasOtherFile(a.ref.node)
  BY <1>1, <1>4, <1>6 DEF HasOtherFile
<1>8. QED
  BY <1>3, <1>7

LEMMA CompileStep ==
  ASSUME JsonInv, Compile
  PROVE  JsonInv'
<1> DEFINE new == UNION {{[uri |-> a.uri, doc |-> d] : d \in Lookup(by_key, a.uri)} : a \in Asked(loaded)}
<1>1. /\ phase = "compile" /\ loaded' = loaded \cup new
      /\ phase' = IF \E a \in Asked(loaded) : Lookup(by_key, a.uri) = {} THEN "missing"
                  ELSE IF new \subseteq loaded THEN "done" ELSE "compile"
      /\ UNCHANGED <<refs, stack, given, indexed, visited, by_key>>
  BY DEF Compile
<1>2. RefsTyped
  BY DEF JsonInv
<1>3. /\ Closure' = Closure /\ Declared' = Declared /\ RefsTyped' = RefsTyped
      /\ \A n : HasOtherFile(n)' = HasOtherFile(n)
  BY <1>1, Frozen
<1>4. phase' \in Indexing
  BY <1>1 DEF Indexing
<1>p. phase' # "walk" /\ phase' # "depth" /\ phase' # "conflict"
  BY <1>4 DEF Indexing
<1>5. CASE stack = <<>>
  BY <1>1, <1>2, <1>3, <1>p, <1>5 DEF JsonInv
<1>6. CASE stack # <<>>
  <2>1. WalkInv
    BY <1>6 DEF JsonInv
  <2>2. visited = Closure /\ \A n \in visited : Known(n)
    BY <1>1, <2>1 DEF WalkInv, VisitedInv, IndexInv, Indexing
  <2>3. StackInv'
    BY <1>1, <1>3, <2>1 DEF WalkInv, StackInv
  <2>4. DepthInv'
    BY <1>1, <1>p, <2>1 DEF WalkInv, DepthInv
  <2>5. VisitedInv'
    BY <1>1, <1>3, <1>4, <1>p, <2>2 DEF VisitedInv
  <2>6. IndexInv'
    <3>1. \A m : Known(m)' = Known(m)
      BY <1>1, <1>3 DEF Known, IsIndexed
    <3>2. (\A k \in DOMAIN by_key : \E q \in Declared : NamesIt(q, k))'
      BY <1>1, <1>3, <2>1 DEF WalkInv, IndexInv, NamesIt
    <3>3. QED
      BY <1>1, <1>p, <2>2, <3>1, <3>2 DEF IndexInv
  <2>7. CompileInv'
    <3>1. ASSUME NEW x \in loaded' PROVE x.doc \in Closure \cup {Root}
      <4>1. CASE x \in loaded
        BY <2>1, <4>1 DEF WalkInv, CompileInv
      <4>2. CASE x \in new
        <5>1. PICK a \in Asked(loaded) : \E d \in Lookup(by_key, a.uri) : x = [uri |-> a.uri, doc |-> d]
          BY <4>2
        <5>2. PICK d \in Lookup(by_key, a.uri) : x = [uri |-> a.uri, doc |-> d]
          BY <5>1
        <5>3. \E k \in DOMAIN by_key : d = by_key[k]
          BY <5>2, LookupFacts
        <5>4. PICK q \in Declared : q.node = d
          BY <2>1, <5>3 DEF WalkInv, IndexInv, NamesIt
        <5>5. x.doc = d
          BY <5>2
        <5>6. QED
          BY <1>2, <5>4, <5>5, ClosureFacts
      <4>3. QED
        BY <1>1, <4>1, <4>2
    <3>2. ASSUME phase' = "done" PROVE \A a \in Asked(loaded)' : Lookup(by_key, a.uri)' # {}
      <4>1. loaded' = loaded /\ ~\E a \in Asked(loaded) : Lookup(by_key, a.uri) = {}
        BY <1>1, <3>2
      <4>2. Asked(loaded)' = Asked(loaded)
        BY <1>1, <4>1 DEF Asked
      <4>3. QED
        BY <1>1, <4>1, <4>2
    <3>3. ASSUME phase' = "missing" PROVE \E n \in Closure : HasOtherFile(n)
      <4>1. PICK a \in Asked(loaded) : Lookup(by_key, a.uri) = {}
        BY <1>1, <3>3
      <4>2. QED
        BY <1>2, <2>1, <2>2, <4>1, MissingFacts DEF WalkInv
    <3>4. QED
      BY <1>3, <3>1, <3>2, <3>3 DEF CompileInv
  <2>8. WalkInv'
    BY <1>1, <1>4, <2>1, <2>3, <2>4, <2>5, <2>6, <2>7 DEF WalkInv
  <2>9. QED
    BY <1>1, <1>2, <1>3, <1>6, <2>8 DEF JsonInv
<1>7. QED
  BY <1>5, <1>6

LEMMA IndexPairStep ==
  ASSUME JsonInv, IndexPair
  PROVE  JsonInv'
<1>1. phase = "pairs" /\ UNCHANGED <<refs, stack, given, visited, loaded>>
  BY DEF IndexPair
<1>2. stack = <<>>
  BY <1>1 DEF JsonInv, WalkInv, Failed, Indexing
<1>3. phase' \in {"pairs", "full", "conflict"}
  BY <1>1 DEF IndexPair, Index
<1>4. RefsTyped'
  BY <1>1, Frozen DEF JsonInv
<1>5. QED
  BY <1>1, <1>2, <1>3, <1>4 DEF JsonInv

LEMMA StutterStep ==
  ASSUME JsonInv, UNCHANGED vars
  PROVE  JsonInv'
<1>1. UNCHANGED <<refs, phase, stack, given, indexed, visited, by_key, loaded>>
  BY DEF vars
<1>2. /\ Closure' = Closure /\ Declared' = Declared /\ RefsTyped' = RefsTyped
      /\ \A r : SharesFile(r)' = SharesFile(r)
      /\ \A n : HasOtherFile(n)' = HasOtherFile(n)
  BY <1>1, Frozen
<1>3. StackInv => StackInv'
  BY <1>1, <1>2 DEF StackInv
<1>4. DepthInv => DepthInv'
  BY <1>1 DEF DepthInv
<1>5. VisitedInv => VisitedInv'
  BY <1>1, <1>2 DEF VisitedInv, Followed
<1>6. IndexInv => IndexInv'
  BY <1>1, <1>2 DEF IndexInv, Active, Known, IsIndexed, NamesIt
<1>7. CompileInv => CompileInv'
  <2>1. Asked(loaded)' = Asked(loaded)
    BY <1>1 DEF Asked
  <2>2. QED
    BY <1>1, <1>2, <2>1 DEF CompileInv
<1>8. QED
  BY <1>1, <1>2, <1>3, <1>4, <1>5, <1>6, <1>7 DEF JsonInv, WalkInv

LEMMA JsonInvHolds == Spec => []JsonInv
<1>1. JsonInv /\ [Next]_vars => JsonInv'
  BY SkipStep, FetchStep, FetchFailsStep, ReturnStep, IndexPairStep, StartCompileStep, CompileStep,
     StutterStep DEF Next
<1>2. QED
  BY <1>1, JsonInvInit, PTL DEF Spec

-----------------------------------------------------------------------------
\* A compiled validator resolves every $ref as the schema that holds it names it,
\* whatever the shape of the references in the registry.
THEOREM ReferencesResolveAsNamed == Spec => []ResolvesAsNamed
<1>1. ASSUME JsonInv PROVE ResolvesAsNamed
  <2> SUFFICES ASSUME phase = "done", FromRegistry
               PROVE  /\ visited = Closure
                      /\ \A a \in Asked(loaded) :
                           \/ Lookup(by_key, a.uri) = {a.ref.node}
                           \/ SharesFile(a.ref) /\ (a.ref.name.dir = NoDir \/ HasOtherName(a.ref))
    BY DEF ResolvesAsNamed
  <2>1. RefsTyped /\ WalkInv
    BY <1>1 DEF JsonInv, FromRegistry
  <2>2. visited = Closure /\ \A n \in visited : Known(n)
    BY <2>1 DEF WalkInv, VisitedInv, IndexInv, Indexing
  <2>3. ASSUME NEW a \in Asked(loaded), Lookup(by_key, a.uri) # {a.ref.node}
        PROVE  SharesFile(a.ref) /\ (a.ref.name.dir = NoDir \/ HasOtherName(a.ref))
    <3>1. /\ a.ref \in Declared /\ a.ref.name \in Names /\ a.uri.file = a.ref.name.file
          /\ Tail1(a.uri) = Tail1(a.ref.name) /\ (a.ref.name.dir # NoDir => a.uri = a.ref.name)
      BY <2>1, AskedFacts DEF WalkInv, CompileInv
    <3>2. Lookup(by_key, a.uri) # {}
      BY <2>1 DEF WalkInv, CompileInv
    <3>3. PICK k \in DOMAIN by_key : Lookup(by_key, a.uri) = {by_key[k]} /\ k.file = a.ref.name.file
      BY <3>1, <3>2, LookupFacts, TailFacts
    <3>4. PICK q \in Declared : NamesIt(q, k)
      BY <2>1 DEF WalkInv, IndexInv
    <3>5. SharesFile(a.ref)
      BY <2>3, <3>3, <3>4 DEF SharesFile, NamesIt
    <3>6. ASSUME a.ref.name.dir # NoDir PROVE HasOtherName(a.ref)
      <4>1. a.ref.node \in Closure
        BY <2>1, <3>1, ClosureFacts
      <4>2. PICK p \in Declared : p.node = a.ref.node /\ IsIndexed(p)
        BY <2>2, <4>1 DEF Known
      <4>3. p.name # a.ref.name
        BY <2>3, <3>1, <3>6, <4>2, LookupFacts DEF IsIndexed
      <4>4. QED
        BY <4>2, <4>3 DEF HasOtherName
    <3>7. QED
      BY <3>5, <3>6
  <2>4. QED
    BY <2>2, <2>3
<1>2. QED
  BY <1>1, JsonInvHolds, PTL

\* No schema of the registry is refused without a cause, however deep, cyclic or
\* ambiguous its references are.
THEOREM FailuresHaveReasons == Spec => []FailsForAReason
<1>1. ASSUME JsonInv PROVE FailsForAReason
  <2> SUFFICES ASSUME FromRegistry
               PROVE  /\ phase = "depth" => Cardinality(visited) >= MaxDepth
                      /\ phase = "conflict" => \E r \in Declared : SharesFile(r)
                      /\ phase = "missing" => \E n \in Closure : HasOtherFile(n)
    BY DEF FailsForAReason
  <2>1. WalkInv
    BY <1>1 DEF JsonInv, FromRegistry
  <2>2. QED
    BY <2>1 DEF WalkInv, DepthInv, IndexInv, CompileInv
<1>2. QED
  BY <1>1, JsonInvHolds, PTL
=============================================================================
