------------------------- MODULE AvroSchemaSetProofs -------------------------
(***************************************************************************)
(* Theorems about AvroSchemaSet: the closure it collects is exact, and the *)
(* tables it returns can be read from front to back.                       *)
(***************************************************************************)
EXTENDS AvroSchemaSet, FiniteSetTheorems, TLAPS

------------------------------------------------------------------------------
(***************************************************************************)
(* Sequences and their members.                                            *)
(***************************************************************************)
\* What a push adds: the members are the old ones and the new one.
LEMMA RangeOfAppend ==
  ASSUME NEW T, NEW s \in Seq(T), NEW e \in T
  PROVE  Range(Append(s, e)) = Range(s) \cup {e}
<1>1. DOMAIN Append(s, e) = 1..(Len(s) + 1) /\ DOMAIN s = 1..Len(s)
  OBVIOUS
<1>2. \A i \in 1..Len(s) : Append(s, e)[i] = s[i]
  OBVIOUS
<1>3. Append(s, e)[Len(s) + 1] = e
  OBVIOUS
<1>4. ASSUME NEW x \in Range(Append(s, e))
      PROVE  x \in Range(s) \cup {e}
  <2>1. PICK i \in 1..(Len(s) + 1) : Append(s, e)[i] = x
    BY <1>1 DEF Range
  <2>2. CASE i = Len(s) + 1
    BY <2>1, <2>2, <1>3
  <2>3. CASE i # Len(s) + 1
    <3>1. i \in 1..Len(s)
      BY <2>3
    <3> QED
      BY <3>1, <2>1, <1>1, <1>2 DEF Range
  <2> QED
    BY <2>2, <2>3
<1>5. ASSUME NEW x \in Range(s)
      PROVE  x \in Range(Append(s, e))
  <2>1. PICK i \in 1..Len(s) : s[i] = x
    BY <1>1 DEF Range
  <2>2. i \in 1..(Len(s) + 1)
    OBVIOUS
  <2> QED
    BY <2>1, <2>2, <1>1, <1>2 DEF Range
<1>6. e \in Range(Append(s, e))
  <2>1. Len(s) + 1 \in 1..(Len(s) + 1)
    OBVIOUS
  <2> QED
    BY <2>1, <1>1, <1>3 DEF Range
<1> QED
  BY <1>4, <1>5, <1>6

\* What the loop leaves: all members but the first.
LEMMA RangeOfTail ==
  ASSUME NEW T, NEW s \in Seq(T), s # <<>>
  PROVE  /\ Tail(s) \in Seq(T)
         /\ Head(s) \in Range(s)
         /\ Range(s) = {Head(s)} \cup Range(Tail(s))
<1>1. /\ Tail(s) \in Seq(T) /\ Len(s) > 0 /\ Len(s) \in Nat
      /\ Len(Tail(s)) = Len(s) - 1 /\ Head(s) = s[1]
      /\ DOMAIN s = 1..Len(s) /\ DOMAIN Tail(s) = 1..(Len(s) - 1)
      /\ \A i \in 1..(Len(s) - 1) : Tail(s)[i] = s[i+1]
  OBVIOUS
<1>2. Head(s) \in Range(s)
  <2>1. 1 \in 1..Len(s)
    BY <1>1
  <2> QED
    BY <2>1, <1>1 DEF Range
<1>3. ASSUME NEW x \in Range(s)
      PROVE  x \in {Head(s)} \cup Range(Tail(s))
  <2>1. PICK i \in 1..Len(s) : s[i] = x
    BY <1>1 DEF Range
  <2>2. CASE i = 1
    BY <2>1, <2>2, <1>1
  <2>3. CASE i # 1
    <3>1. i - 1 \in 1..(Len(s) - 1) /\ (i - 1) + 1 = i
      BY <2>3, <1>1
    <3>2. Tail(s)[i-1] = x
      BY <3>1, <2>1, <1>1
    <3> QED
      BY <3>1, <3>2, <1>1 DEF Range
  <2> QED
    BY <2>2, <2>3
<1>4. ASSUME NEW x \in Range(Tail(s))
      PROVE  x \in Range(s)
  <2>1. PICK i \in 1..(Len(s) - 1) : Tail(s)[i] = x
    BY <1>1 DEF Range
  <2>2. i + 1 \in 1..Len(s)
    BY <1>1
  <2> QED
    BY <2>1, <2>2, <1>1 DEF Range
<1> QED
  BY <1>1, <1>2, <1>3, <1>4

------------------------------------------------------------------------------
(***************************************************************************)
(* What is reachable.                                                      *)
(***************************************************************************)
\* Reachability follows references.
LEMMA ReachableCloses ==
  ASSUME registry \in [Doc -> Document]
  PROVE  /\ Range(registry[Root].references) \subseteq Reachable
         /\ \A d \in Reachable : Range(registry[d].references) \subseteq Reachable
<1>1. \A d \in Doc : Range(registry[d].references) \subseteq Doc
  <2> TAKE d \in Doc
  <2>1. registry[d].references \in Seq(Doc)
    BY DEF Document
  <2> QED
    BY <2>1 DEF Range
<1>2. Root \in Doc
  BY SetAssumption
<1>3. Range(registry[Root].references) \subseteq Reachable
  BY <1>1, <1>2 DEF Reachable
<1>4. ASSUME NEW d \in Reachable, NEW x \in Range(registry[d].references)
      PROVE  x \in Reachable
  <2>1. d \in Doc
    BY DEF Reachable
  <2>2. x \in Doc
    BY <2>1, <1>1
  <2>3. ASSUME NEW S \in SUBSET Doc,
               Range(registry[Root].references) \subseteq S,
               \A e \in S : Range(registry[e].references) \subseteq S
        PROVE  x \in S
    <3>1. d \in S
      BY <2>3 DEF Reachable
    <3> QED
      BY <3>1, <2>3
  <2> QED
    BY <2>2, <2>3 DEF Reachable
<1> QED
  BY <1>3, <1>4

\* A set that follows references has everything reachable.
LEMMA ReachableIsLeast ==
  ASSUME NEW S \in SUBSET Doc,
         Range(registry[Root].references) \subseteq S,
         \A e \in S : Range(registry[e].references) \subseteq S
  PROVE  Reachable \subseteq S
BY DEF Reachable

------------------------------------------------------------------------------
(***************************************************************************)
(* The closure.                                                            *)
(***************************************************************************)
ClosureTypes ==
  /\ registry \in [Doc -> Document]
  /\ stack \in Seq(Frame) /\ stack # <<>>
  /\ visited \subseteq Doc
  /\ out \in Seq(Doc)

\* The calls that will push their document.
Pending == 1..(Len(stack) - 1)

\* Every document visited has been pushed or will be, once.
Accounted ==
  /\ visited = Range(out) \cup {stack[i].doc : i \in Pending}
  /\ \A i \in Pending : stack[i].doc \notin Range(out)
  /\ \A i, j \in Pending : stack[i].doc = stack[j].doc => i = j
  /\ \A i, j \in DOMAIN out : out[i] = out[j] => i = j

\* The references of a document that was pushed have been visited; those of
\* one that will be have been visited or are still to do.
Followed ==
  /\ \A d \in Range(out) : Range(registry[d].references) \subseteq visited
  /\ \A i \in DOMAIN stack :
       Range(registry[stack[i].doc].references) \subseteq visited \cup Range(stack[i].todo)
  /\ stack[Len(stack)].doc = Root

\* Only reachable documents are visited.
OnlyReachable ==
  /\ visited \subseteq Reachable
  /\ \A i \in DOMAIN stack : Range(stack[i].todo) \subseteq Reachable

ClosureInv ==
  /\ ClosureTypes
  /\ phase = "collect" => Accounted /\ Followed /\ OnlyReachable
  /\ ClosureIsExact

\* The loop of the innermost call moves on; nothing else does.
LEMMA AdvanceFacts ==
  ASSUME ClosureTypes, stack[1].todo # <<>>
  PROVE  /\ Advance \in Seq(Frame) /\ Advance # <<>> /\ Len(Advance) = Len(stack)
         /\ \A i \in 1..Len(stack) : Advance[i].doc = stack[i].doc
         /\ Advance[1].todo = Tail(stack[1].todo)
         /\ \A i \in 2..Len(stack) : Advance[i].todo = stack[i].todo
         /\ Head(stack[1].todo) \in Range(stack[1].todo)
         /\ Range(stack[1].todo) = {Head(stack[1].todo)} \cup Range(Tail(stack[1].todo))
<1>1. /\ stack \in Seq(Frame) /\ Len(stack) \in Nat /\ Len(stack) > 0
      /\ 1 \in 1..Len(stack)
  BY DEF ClosureTypes
<1>2. stack[1] \in Frame /\ stack[1].todo \in Seq(Doc)
  <2>1. stack[1] \in Frame
    BY <1>1
  <2> QED
    BY <2>1 DEF Frame
<1>3. /\ Tail(stack[1].todo) \in Seq(Doc)
      /\ Head(stack[1].todo) \in Range(stack[1].todo)
      /\ Range(stack[1].todo) = {Head(stack[1].todo)} \cup Range(Tail(stack[1].todo))
  BY <1>2, RangeOfTail
<1>4. Advance = [stack EXCEPT ![1] = [stack[1] EXCEPT !.todo = Tail(stack[1].todo)]]
  BY DEF Advance
<1>5. [stack[1] EXCEPT !.todo = Tail(stack[1].todo)] \in Frame
  BY <1>2, <1>3 DEF Frame
<1>6. Advance \in Seq(Frame) /\ Len(Advance) = Len(stack)
  BY <1>1, <1>4, <1>5
<1>7. /\ Advance[1] = [stack[1] EXCEPT !.todo = Tail(stack[1].todo)]
      /\ \A i \in 2..Len(stack) : Advance[i] = stack[i]
  <2>1. DOMAIN stack = 1..Len(stack)
    BY <1>1
  <2>2. \A i \in 2..Len(stack) : i \in 1..Len(stack) /\ i # 1
    OBVIOUS
  <2> QED
    BY <2>1, <2>2, <1>1, <1>4 DEF Advance
<1>8. Advance[1].doc = stack[1].doc /\ Advance[1].todo = Tail(stack[1].todo)
  BY <1>7, <1>2 DEF Frame
<1>9. \A i \in 1..Len(stack) : Advance[i].doc = stack[i].doc
  <2> TAKE i \in 1..Len(stack)
  <2>1. i = 1 \/ i \in 2..Len(stack)
    BY <1>1
  <2> QED
    BY <2>1, <1>7, <1>8
<1> QED
  BY <1>1, <1>3, <1>6, <1>7, <1>8, <1>9

\* A call made from the innermost one becomes the innermost one.
LEMMA CallFacts ==
  ASSUME NEW T, NEW s \in Seq(T), NEW f \in T
  PROVE  /\ <<f>> \o s \in Seq(T) /\ Len(<<f>> \o s) = Len(s) + 1
         /\ <<f>> \o s # <<>>
         /\ (<<f>> \o s)[1] = f
         /\ \A i \in 1..Len(s) : (<<f>> \o s)[i + 1] = s[i]
OBVIOUS

LEMMA ClosureInit ==
  ASSUME Init
  PROVE  ClosureInv
<1>1. registry \in [Doc -> Document] /\ Root \in Doc
  BY SetAssumption DEF Init
<1>2. registry[Root].references \in Seq(Doc)
  BY <1>1 DEF Document
<1> DEFINE f == [doc |-> Root, todo |-> registry[Root].references]
<1>3. stack = <<f>> /\ f \in Frame
  BY <1>1, <1>2 DEF Init, Frame
<1>4. /\ stack \in Seq(Frame) /\ stack # <<>> /\ Len(stack) = 1 /\ stack[1] = f
      /\ DOMAIN stack = {1} /\ Pending = {}
  BY <1>3 DEF Pending
<1>5. visited = {} /\ out = <<>> /\ phase = "collect"
  BY DEF Init
<1>6. out \in Seq(Doc) /\ DOMAIN out = {} /\ Range(out) = {}
  BY <1>5 DEF Range
<1>7. ClosureTypes
  BY <1>1, <1>4, <1>5, <1>6 DEF ClosureTypes
<1>8. Accounted
  BY <1>4, <1>5, <1>6 DEF Accounted
<1>9. Followed
  BY <1>4, <1>6 DEF Followed
<1>10. OnlyReachable
  BY <1>1, <1>4, <1>5, ReachableCloses DEF OnlyReachable
<1> QED
  BY <1>5, <1>7, <1>8, <1>9, <1>10 DEF ClosureInv, ClosureIsExact

\* Reachability does not change, because the registry does not.
LEMMA ReachableStays ==
  ASSUME registry' = registry
  PROVE  Reachable' = Reachable
BY DEF Reachable

LEMMA SkipKeepsClosure ==
  ASSUME ClosureInv, Skip
  PROVE  ClosureInv'
<1>1. /\ phase = "collect" /\ phase' = "collect" /\ stack[1].todo # <<>>
      /\ Head(stack[1].todo) \in visited
      /\ stack' = Advance /\ visited' = visited /\ out' = out /\ registry' = registry
  BY DEF Skip
<1>2. ClosureTypes /\ Accounted /\ Followed /\ OnlyReachable
  BY <1>1 DEF ClosureInv
<1>3. /\ Advance \in Seq(Frame) /\ Advance # <<>> /\ Len(Advance) = Len(stack)
      /\ \A i \in 1..Len(stack) : Advance[i].doc = stack[i].doc
      /\ Advance[1].todo = Tail(stack[1].todo)
      /\ \A i \in 2..Len(stack) : Advance[i].todo = stack[i].todo
      /\ Range(stack[1].todo) = {Head(stack[1].todo)} \cup Range(Tail(stack[1].todo))
  BY <1>1, <1>2, AdvanceFacts
<1>4. Len(stack) \in Nat /\ Len(stack) > 0 /\ DOMAIN stack = 1..Len(stack)
      /\ DOMAIN stack' = 1..Len(stack)
  BY <1>1, <1>2, <1>3 DEF ClosureTypes
<1>5. ClosureTypes'
  BY <1>1, <1>2, <1>3 DEF ClosureTypes
<1>6. Pending' = Pending /\ \A i \in Pending : stack'[i].doc = stack[i].doc
  BY <1>1, <1>3, <1>4 DEF Pending
<1>7. Accounted'
  BY <1>1, <1>2, <1>6 DEF Accounted
<1>8. Followed'
  <2>1. ASSUME NEW i \in 1..Len(stack)
        PROVE  Range(registry[stack'[i].doc].references) \subseteq
                 visited \cup Range(stack'[i].todo)
    <3>1. CASE i = 1
      BY <3>1, <1>1, <1>2, <1>3, <1>4 DEF Followed
    <3>2. CASE i # 1
      <4>1. i \in 2..Len(stack)
        BY <3>2, <1>4
      <4> QED
        BY <4>1, <1>1, <1>2, <1>3, <1>4 DEF Followed
    <3> QED
      BY <3>1, <3>2
  <2>2. stack'[Len(stack')].doc = Root
    BY <1>1, <1>2, <1>3, <1>4 DEF Followed
  <2> QED
    BY <2>1, <2>2, <1>1, <1>2, <1>4 DEF Followed
<1>9. OnlyReachable'
  <2>1. ASSUME NEW i \in 1..Len(stack)
        PROVE  Range(stack'[i].todo) \subseteq Reachable
    <3>1. CASE i = 1
      BY <3>1, <1>1, <1>2, <1>3, <1>4 DEF OnlyReachable
    <3>2. CASE i # 1
      <4>1. i \in 2..Len(stack)
        BY <3>2, <1>4
      <4> QED
        BY <4>1, <1>1, <1>2, <1>3, <1>4 DEF OnlyReachable
    <3> QED
      BY <3>1, <3>2
  <2> QED
    BY <2>1, <1>1, <1>2, <1>4, ReachableStays DEF OnlyReachable
<1> QED
  BY <1>1, <1>5, <1>7, <1>8, <1>9 DEF ClosureInv, ClosureIsExact

LEMMA VisitKeepsClosure ==
  ASSUME ClosureInv, Visit
  PROVE  ClosureInv'
<1> DEFINE d == Head(stack[1].todo)
           f == [doc |-> d, todo |-> registry[d].references]
<1>1. /\ phase = "collect" /\ stack[1].todo # <<>> /\ d \notin visited
      /\ visited' = visited \cup {d} /\ out' = out /\ registry' = registry
  BY DEF Visit
<1>2. ClosureTypes /\ Accounted /\ Followed /\ OnlyReachable
  BY <1>1 DEF ClosureInv
<1>3. /\ Advance \in Seq(Frame) /\ Advance # <<>> /\ Len(Advance) = Len(stack)
      /\ \A i \in 1..Len(stack) : Advance[i].doc = stack[i].doc
      /\ Advance[1].todo = Tail(stack[1].todo)
      /\ \A i \in 2..Len(stack) : Advance[i].todo = stack[i].todo
      /\ d \in Range(stack[1].todo)
      /\ Range(stack[1].todo) = {d} \cup Range(Tail(stack[1].todo))
  BY <1>1, <1>2, AdvanceFacts
<1>4. /\ Len(stack) \in Nat /\ Len(stack) > 0 /\ DOMAIN stack = 1..Len(stack)
      /\ 1 \in DOMAIN stack
  BY <1>2 DEF ClosureTypes
<1>5. d \in Reachable /\ d \in Doc
  <2>1. d \in Reachable
    BY <1>2, <1>3, <1>4 DEF OnlyReachable
  <2> QED
    BY <2>1 DEF Reachable
<1>6. f \in Frame
  <2>1. registry[d].references \in Seq(Doc)
    BY <1>2, <1>5 DEF ClosureTypes, Document
  <2> QED
    BY <2>1, <1>5 DEF Frame
<1>7. CASE phase' = "done" /\ stack' = stack
  <2>1. ClosureTypes'
    BY <1>1, <1>2, <1>5, <1>7 DEF ClosureTypes
  <2> QED
    BY <2>1, <1>7 DEF ClosureInv, ClosureIsExact
<1>8. CASE phase' = phase /\ stack' = <<f>> \o Advance
  <2>1. /\ stack' \in Seq(Frame) /\ Len(stack') = Len(stack) + 1 /\ stack' # <<>>
        /\ stack'[1] = f
        /\ \A i \in 1..Len(stack) : stack'[i + 1] = Advance[i]
    BY <1>3, <1>6, <1>8, CallFacts
  <2>2. ClosureTypes'
    BY <1>1, <1>2, <1>5, <2>1 DEF ClosureTypes
  <2>3. /\ Pending = 1..(Len(stack) - 1) /\ Pending' = 1..Len(stack)
        /\ DOMAIN stack' = 1..(Len(stack) + 1)
    BY <2>1, <1>4 DEF Pending
  <2>4. stack'[1].doc = d /\ stack'[1].todo = registry[d].references
    BY <2>1
  <2>5. \A i \in 1..Len(stack) : stack'[i + 1].doc = stack[i].doc
    BY <2>1, <1>3
  <2>6. \A j \in 1..(Len(stack) + 1) : j = 1 \/ \E i \in 1..Len(stack) : j = i + 1
    <3> TAKE j \in 1..(Len(stack) + 1)
    <3>1. j # 1 => j - 1 \in 1..Len(stack) /\ j = (j - 1) + 1
      BY <1>4
    <3> QED
      BY <3>1
  <2>7. /\ \A j \in Pending' : j = 1 \/ \E i \in Pending : j = i + 1
        /\ 1 \in Pending'
        /\ \A i \in Pending : i + 1 \in Pending' /\ i \in 1..Len(stack)
    <3>1. ASSUME NEW j \in Pending', j # 1
          PROVE  \E i \in Pending : j = i + 1
      <4>1. j - 1 \in Pending /\ j = (j - 1) + 1
        BY <3>1, <2>3, <1>4
      <4> QED
        BY <4>1
    <3>2. 1 \in Pending' /\ \A i \in Pending : i + 1 \in Pending' /\ i \in 1..Len(stack)
      BY <2>3, <1>4
    <3> QED
      BY <3>1, <3>2
  <2>8. Accounted'
    <3>1. visited' = (Range(out) \cup {stack[i].doc : i \in Pending})'
      <4>1. {stack'[j].doc : j \in Pending'} = {d} \cup {stack[i].doc : i \in Pending}
        BY <2>4, <2>5, <2>7
      <4> QED
        BY <4>1, <1>1, <1>2 DEF Accounted
    <3>2. \A i \in Pending : stack[i].doc \in visited
      BY <1>2 DEF Accounted
    <3>3. \A j \in Pending' : stack'[j].doc \notin Range(out)
      BY <1>1, <1>2, <2>4, <2>5, <2>7 DEF Accounted
    <3>4. ASSUME NEW j \in Pending', NEW k \in Pending', stack'[j].doc = stack'[k].doc
          PROVE  j = k
      <4>1. CASE j = 1 /\ k # 1
        BY <4>1, <3>4, <3>2, <2>4, <2>5, <2>7, <1>1
      <4>2. CASE j # 1 /\ k = 1
        BY <4>2, <3>4, <3>2, <2>4, <2>5, <2>7, <1>1
      <4>3. CASE j # 1 /\ k # 1
        <5>1. PICK x \in Pending : j = x + 1
          BY <4>3, <2>7
        <5>2. PICK y \in Pending : k = y + 1
          BY <4>3, <2>7
        <5>3. stack[x].doc = stack[y].doc
          BY <5>1, <5>2, <3>4, <2>5, <2>7
        <5> QED
          BY <5>1, <5>2, <5>3, <1>2 DEF Accounted
      <4> QED
        BY <4>1, <4>2, <4>3
    <3> QED
      BY <3>1, <3>3, <3>4, <1>1, <1>2 DEF Accounted
  <2>9. Followed'
    <3>1. ASSUME NEW j \in 1..(Len(stack) + 1)
          PROVE  Range(registry[stack'[j].doc].references) \subseteq
                   visited' \cup Range(stack'[j].todo)
      <4>1. CASE j = 1
        BY <4>1, <2>4
      <4>2. CASE j # 1
        <5>1. PICK i \in 1..Len(stack) : j = i + 1
          BY <4>2, <2>6
        <5>2. stack'[j].doc = stack[i].doc /\ stack'[j].todo = Advance[i].todo
          BY <5>1, <2>1, <1>3
        <5>3. Range(registry[stack[i].doc].references) \subseteq visited \cup Range(stack[i].todo)
          BY <1>2, <1>4 DEF Followed
        <5>4. Range(stack[i].todo) \subseteq {d} \cup Range(Advance[i].todo)
          <6>1. i = 1 \/ i \in 2..Len(stack)
            BY <1>4
          <6> QED
            BY <6>1, <1>3
        <5> QED
          BY <5>2, <5>3, <5>4, <1>1
      <4> QED
        BY <4>1, <4>2
    <3>2. stack'[Len(stack')].doc = Root
      <4>1. Len(stack) \in 1..Len(stack)
        BY <1>4
      <4> QED
        BY <4>1, <2>1, <2>5, <1>2 DEF Followed
    <3> QED
      BY <3>1, <3>2, <2>3, <1>1, <1>2 DEF Followed
  <2>10. OnlyReachable'
    <3>1. ASSUME NEW j \in 1..(Len(stack) + 1)
          PROVE  Range(stack'[j].todo) \subseteq Reachable
      <4>1. CASE j = 1
        BY <4>1, <2>4, <1>2, <1>5, ReachableCloses DEF ClosureTypes
      <4>2. CASE j # 1
        <5>1. PICK i \in 1..Len(stack) : j = i + 1
          BY <4>2, <2>6
        <5>2. i = 1 \/ i \in 2..Len(stack)
          BY <1>4
        <5>3. Range(Advance[i].todo) \subseteq Range(stack[i].todo)
          BY <5>2, <1>3
        <5> QED
          BY <5>1, <5>3, <2>1, <1>2, <1>4 DEF OnlyReachable
      <4> QED
        BY <4>1, <4>2
    <3> QED
      BY <3>1, <2>3, <1>1, <1>2, <1>5, ReachableStays DEF OnlyReachable
  <2> QED
    BY <2>2, <2>8, <2>9, <2>10, <1>1, <1>8 DEF ClosureInv, ClosureIsExact
<1> QED
  BY <1>7, <1>8 DEF Visit, End

LEMMA PushKeepsClosure ==
  ASSUME ClosureInv, Push
  PROVE  ClosureInv'
<1> DEFINE d == stack[1].doc
<1>1. /\ phase = "collect" /\ phase' = "collect" /\ stack[1].todo = <<>> /\ Len(stack) > 1
      /\ out' = Append(out, d) /\ stack' = Tail(stack)
      /\ visited' = visited /\ registry' = registry
  BY DEF Push
<1>2. ClosureTypes /\ Accounted /\ Followed /\ OnlyReachable
  BY <1>1 DEF ClosureInv
<1>3. /\ Len(stack) \in Nat /\ DOMAIN stack = 1..Len(stack) /\ 1 \in DOMAIN stack
      /\ stack[1] \in Frame
  BY <1>1, <1>2 DEF ClosureTypes
<1>4. /\ stack' \in Seq(Frame) /\ stack' # <<>> /\ Len(stack') = Len(stack) - 1
      /\ DOMAIN stack' = 1..(Len(stack) - 1)
      /\ \A i \in 1..(Len(stack) - 1) : stack'[i] = stack[i + 1]
  BY <1>1, <1>2, <1>3 DEF ClosureTypes
<1>5. /\ d \in Doc /\ out \in Seq(Doc) /\ out' \in Seq(Doc)
      /\ Range(out') = Range(out) \cup {d}
  <2>1. d \in Doc /\ out \in Seq(Doc)
    BY <1>2, <1>3 DEF ClosureTypes, Frame
  <2> QED
    BY <2>1, <1>1, RangeOfAppend
<1>6. ClosureTypes'
  BY <1>1, <1>2, <1>4, <1>5 DEF ClosureTypes
<1>7. /\ Pending = 1..(Len(stack) - 1) /\ Pending' = 1..(Len(stack) - 2)
      /\ 1 \in Pending
  BY <1>1, <1>3, <1>4 DEF Pending
<1>8. /\ \A j \in Pending : j = 1 \/ \E i \in Pending' : j = i + 1
      /\ \A i \in Pending' : i + 1 \in Pending /\ i + 1 # 1 /\ i \in 1..(Len(stack) - 1)
  <2>1. ASSUME NEW j \in Pending, j # 1
        PROVE  \E i \in Pending' : j = i + 1
    <3>1. j - 1 \in Pending' /\ j = (j - 1) + 1
      BY <2>1, <1>7, <1>3
    <3> QED
      BY <3>1
  <2>2. \A i \in Pending' : i + 1 \in Pending /\ i + 1 # 1 /\ i \in 1..(Len(stack) - 1)
    BY <1>7, <1>3
  <2> QED
    BY <2>1, <2>2
<1>9. \A i \in Pending' : stack'[i].doc = stack[i + 1].doc
  BY <1>4, <1>8
<1>10. Accounted'
  <2>1. {stack[i].doc : i \in Pending} = {d} \cup {stack'[i].doc : i \in Pending'}
    <3>1. \A j \in Pending : stack[j].doc \in {d} \cup {stack'[i].doc : i \in Pending'}
      <4> TAKE j \in Pending
      <4>1. CASE j = 1
        BY <4>1
      <4>2. CASE j # 1
        <5>1. PICK i \in Pending' : j = i + 1
          BY <4>2, <1>8
        <5>2. stack[j].doc = stack'[i].doc
          BY <5>1, <1>9
        <5> QED
          BY <5>2
      <4> QED
        BY <4>1, <4>2
    <3>2. \A i \in Pending' : stack'[i].doc \in {stack[j].doc : j \in Pending}
      BY <1>8, <1>9
    <3>3. d \in {stack[j].doc : j \in Pending}
      BY <1>7
    <3> QED
      BY <3>1, <3>2, <3>3
  <2>2. visited' = Range(out') \cup {stack'[i].doc : i \in Pending'}
    BY <2>1, <1>1, <1>2, <1>5 DEF Accounted
  <2>3. \A i \in Pending' : stack'[i].doc \notin Range(out')
    <3> TAKE i \in Pending'
    <3>1. i + 1 \in Pending /\ i + 1 # 1 /\ stack'[i].doc = stack[i + 1].doc
      BY <1>8, <1>9
    <3>2. stack[i + 1].doc \notin Range(out) /\ stack[i + 1].doc # d
      BY <3>1, <1>2, <1>7 DEF Accounted
    <3> QED
      BY <3>1, <3>2, <1>5
  <2>4. ASSUME NEW i \in Pending', NEW j \in Pending', stack'[i].doc = stack'[j].doc
        PROVE  i = j
    <3>1. i + 1 = j + 1
      BY <2>4, <1>2, <1>8, <1>9 DEF Accounted
    <3>2. i \in Int /\ j \in Int
      BY <1>7
    <3> QED
      BY <3>1, <3>2
  <2>5. ASSUME NEW i \in DOMAIN out', NEW j \in DOMAIN out', out'[i] = out'[j]
        PROVE  i = j
    <3>1. /\ Len(out) \in Nat /\ DOMAIN out = 1..Len(out) /\ DOMAIN out' = 1..(Len(out) + 1)
          /\ out'[Len(out) + 1] = d
          /\ \A k \in 1..Len(out) : out'[k] = out[k]
      BY <1>1, <1>5
    <3>2. \A k \in 1..Len(out) : out[k] \in Range(out)
      BY <3>1 DEF Range
    <3>3. d \notin Range(out)
      BY <1>2, <1>7 DEF Accounted
    <3>4. i \in 1..Len(out) \/ i = Len(out) + 1
      BY <3>1
    <3>5. j \in 1..Len(out) \/ j = Len(out) + 1
      BY <3>1
    <3>6. CASE i \in 1..Len(out) /\ j \in 1..Len(out)
      BY <3>6, <3>1, <2>5, <1>2 DEF Accounted
    <3> QED
      BY <3>1, <3>2, <3>3, <3>4, <3>5, <3>6, <2>5
  <2> QED
    BY <2>2, <2>3, <2>4, <2>5 DEF Accounted
<1>11. Followed'
  <2>1. Range(stack[1].todo) = {}
    BY <1>1 DEF Range
  <2>2. Range(registry[d].references) \subseteq visited
    BY <2>1, <1>2, <1>3 DEF Followed
  <2>3. \A e \in Range(out') : Range(registry'[e].references) \subseteq visited'
    BY <2>2, <1>1, <1>2, <1>5 DEF Followed
  <2>4. \A i \in DOMAIN stack' :
          Range(registry'[stack'[i].doc].references) \subseteq visited' \cup Range(stack'[i].todo)
    <3> TAKE i \in DOMAIN stack'
    <3>1. i + 1 \in DOMAIN stack /\ stack'[i] = stack[i + 1]
      BY <1>3, <1>4
    <3> QED
      BY <3>1, <1>1, <1>2 DEF Followed
  <2>5. stack'[Len(stack')].doc = Root
    <3>1. Len(stack') \in 1..(Len(stack) - 1) /\ Len(stack') + 1 = Len(stack)
      BY <1>1, <1>3, <1>4
    <3> QED
      BY <3>1, <1>4, <1>2 DEF Followed
  <2> QED
    BY <2>3, <2>4, <2>5 DEF Followed
<1>12. OnlyReachable'
  <2>1. \A i \in DOMAIN stack' : i + 1 \in DOMAIN stack /\ stack'[i] = stack[i + 1]
    BY <1>3, <1>4
  <2> QED
    BY <2>1, <1>1, <1>2, ReachableStays DEF OnlyReachable
<1> QED
  BY <1>1, <1>6, <1>10, <1>11, <1>12 DEF ClosureInv, ClosureIsExact

\* When the outermost call returns, what was pushed is closed under references.
LEMMA CollectedKeepsClosure ==
  ASSUME ClosureInv, Collected
  PROVE  ClosureInv'
<1>1. /\ phase = "collect" /\ stack[1].todo = <<>> /\ Len(stack) = 1
      /\ phase' \in {"done", "dedupe"}
      /\ stack' = stack /\ visited' = visited /\ out' = out /\ registry' = registry
  BY DEF Collected, closure, End
<1>2. ClosureTypes /\ Accounted /\ Followed /\ OnlyReachable
  BY <1>1 DEF ClosureInv
<1>3. Pending = {} /\ 1 \in DOMAIN stack
  BY <1>1, <1>2 DEF Pending, ClosureTypes
<1>4. visited = Range(out)
  BY <1>2, <1>3 DEF Accounted
<1>5. Range(stack[1].todo) = {}
  BY <1>1 DEF Range
<1>6. Range(registry[Root].references) \subseteq Range(out)
  BY <1>1, <1>2, <1>3, <1>4, <1>5 DEF Followed
<1>7. Range(out) \in SUBSET Doc
  BY <1>2, <1>4 DEF ClosureTypes
<1>8. Reachable \subseteq Range(out)
  <2>1. \A e \in Range(out) : Range(registry[e].references) \subseteq Range(out)
    BY <1>2, <1>4 DEF Followed
  <2> QED
    BY <2>1, <1>6, <1>7, ReachableIsLeast
<1>9. Range(out) = Reachable
  BY <1>8, <1>2, <1>4 DEF OnlyReachable
<1>10. \A i, j \in DOMAIN out : out[i] = out[j] => i = j
  BY <1>2 DEF Accounted
<1>11. ClosureTypes'
  BY <1>1, <1>2 DEF ClosureTypes
<1> QED
  BY <1>1, <1>9, <1>10, <1>11, ReachableStays DEF ClosureInv, ClosureIsExact

\* After collecting, nothing touches the closure.
LEMMA LaterKeepsClosure ==
  ASSUME ClosureInv,
         \/ UNCHANGED vars
         \/ Dedupe \/ ParseAlone \/ ParseFails \/ Prepare \/ Take \/ Ordered
  PROVE  ClosureInv'
<1>1. stack' = stack /\ visited' = visited /\ out' = out /\ registry' = registry
  BY DEF Dedupe, ParseAlone, ParseFails, Prepare, Take, Ordered, vars, closure
<1>2. \/ phase' = phase
      \/ phase' = "done"
      \/ phase = "dedupe" /\ phase' = "order"
  BY DEF Dedupe, ParseAlone, ParseFails, Prepare, Take, Ordered, vars, End
<1>3. ClosureTypes'
  BY <1>1 DEF ClosureInv, ClosureTypes
<1>4. phase' = "collect" => phase = "collect"
  BY <1>2
<1>5. phase' \in {"dedupe", "order"} => phase \in {"dedupe", "order"}
  BY <1>2
<1>6. Accounted /\ Followed /\ OnlyReachable => (Accounted /\ Followed /\ OnlyReachable)'
  BY <1>1, ReachableStays DEF Accounted, Followed, OnlyReachable, Pending
<1>7. ClosureIsExact'
  BY <1>1, <1>5, ReachableStays DEF ClosureInv, ClosureIsExact
<1> QED
  BY <1>3, <1>4, <1>6, <1>7 DEF ClosureInv

LEMMA ClosureNext ==
  ASSUME ClosureInv, [Next]_vars
  PROVE  ClosureInv'
BY SkipKeepsClosure, VisitKeepsClosure, PushKeepsClosure, CollectedKeepsClosure,
   LaterKeepsClosure DEF Next

\* collect_reference_closure collects every document the root refers to, each
\* once and no other, whatever the registry holds: cycles and diamonds included.
THEOREM ClosureStaysExact == Spec => []ClosureIsExact
<1>1. Init => ClosureInv
  BY ClosureInit
<1>2. ClosureInv /\ [Next]_vars => ClosureInv'
  BY ClosureNext
<1>3. ClosureInv => ClosureIsExact
  BY DEF ClosureInv
<1> QED
  BY <1>1, <1>2, <1>3, PTL DEF Spec

------------------------------------------------------------------------------
(***************************************************************************)
(* The order.                                                              *)
(***************************************************************************)
\* A schema is in the order after all its prerequisites.
PrerequisitesFirst ==
  \A k \in DOMAIN order : \A j \in Prerequisites(order[k]) : \E m \in 1..(k-1) : order[m] = j

\* order_schemata's heap and counters say what they stand for.
ReadyIsExact ==
  ready = {i \in Index : i \notin Range(order) /\ Prerequisites(i) \subseteq Range(order)}
Counted ==
  /\ remaining \in [Index -> Nat]
  /\ \A i \in Index : remaining[i] = Cardinality(Prerequisites(i) \ Range(order))

InOrderOnce == \A j, k \in DOMAIN order : order[j] = order[k] => j = k

Underway ==
  /\ kept # <<>> /\ ~Unresolved
  /\ PrerequisitesFirst /\ ReadyIsExact /\ Counted /\ InOrderOnce

OrderInv ==
  /\ TypeOK
  /\ phase \in {"collect", "dedupe"} => order = <<>> /\ ready = {}
  /\ phase = "order" => Underway
  /\ DefinitionsFirst
  /\ CycleIsReal
  /\ OrderedStaysPut

\* The schemas and their indexes.
LEMMA IndexFacts ==
  ASSUME registry \in [Doc -> Document], kept \in Seq(Schema)
  PROVE  /\ parsed \in Seq(Schema) /\ Len(parsed) \in Nat
         /\ Index = 1..Len(parsed)
         /\ IsFiniteSet(Index) /\ Cardinality(Index) = Len(parsed)
         /\ \A i \in Index : parsed[i] \in Schema
<1>1. registry[Root].schema \in Schema
  BY SetAssumption DEF Document
<1>2. parsed \in Seq(Schema) /\ Len(parsed) \in Nat
  BY <1>1 DEF parsed
<1>3. Index = 1..Len(parsed) /\ \A i \in Index : parsed[i] \in Schema
  BY <1>2 DEF Index
<1>4. IsFiniteSet(1..Len(parsed)) /\ Cardinality(1..Len(parsed)) = Len(parsed)
  <2> DEFINE n == Len(parsed)
  <2>1. n \in Int /\ 1 \in Int /\ (IF 1 > n THEN 0 ELSE n - 1 + 1) = n
    BY <1>2
  <2> HIDE DEF n
  <2>2. IsFiniteSet(1..n) /\ Cardinality(1..n) = n
    BY <2>1, FS_Interval
  <2> QED
    BY <2>2 DEF n
<1> QED
  BY <1>2, <1>3, <1>4

\* A schema is no prerequisite of itself.
LEMMA PrerequisiteFacts ==
  ASSUME registry \in [Doc -> Document], kept \in Seq(Schema), NEW i \in Index
  PROVE  /\ Prerequisites(i) \subseteq Index
         /\ IsFiniteSet(Prerequisites(i))
         /\ i \notin Prerequisites(i)
         /\ \A j \in Prerequisites(i) : parsed[j].top \in parsed[i].refs
<1>1. IsFiniteSet(Index) /\ \A j \in Index : parsed[j] \in Schema
  BY IndexFacts
<1>2. Prerequisites(i) \in SUBSET Index
  BY DEF Prerequisites
<1>3. IsFiniteSet(Prerequisites(i))
  BY <1>1, <1>2, FS_Subset
<1>4. \A j \in Prerequisites(i) : parsed[j].top \in parsed[i].refs
  BY DEF Prerequisites, External
<1>5. i \notin Prerequisites(i)
  <2>1. SUFFICES ASSUME parsed[i].top \in parsed[i].refs, parsed[i].top \notin parsed[i].defines
                 PROVE  FALSE
    BY DEF Prerequisites, External
  <2>2. /\ parsed[i].refs \subseteq Name
        /\ parsed[i].top # None => parsed[i].top \in parsed[i].defines
    BY <1>1 DEF Schema
  <2> QED
    BY <2>1, <2>2, SetAssumption
<1> QED
  BY <1>2, <1>3, <1>4, <1>5

\* While nothing is added, the schemas to order stay the same.
LEMMA ParsedStays ==
  ASSUME registry' = registry, kept' = kept
  PROVE  /\ parsed' = parsed /\ Index' = Index
         /\ Unresolved' <=> Unresolved
         /\ \A i : Prerequisites(i)' = Prerequisites(i)
<1>1. parsed' = parsed
  BY DEF parsed
<1>2. Index' = Index
  BY <1>1 DEF Index
<1>3. \A i : External(i)' = External(i)
  BY <1>1 DEF External
<1>4. Unresolved' <=> Unresolved
  BY <1>1, <1>2, <1>3 DEF Unresolved
<1>5. \A i : Prerequisites(i)' = Prerequisites(i)
  BY <1>1, <1>2, <1>3 DEF Prerequisites
<1> QED
  BY <1>1, <1>2, <1>4, <1>5

LEMMA OrderInit ==
  ASSUME Init
  PROVE  OrderInv
<1>1. ClosureTypes
  BY ClosureInit DEF ClosureInv
<1>2. /\ phase = "collect" /\ result = None /\ next = 1 /\ kept = <<>>
      /\ ready = {} /\ order = <<>>
  BY DEF Init
<1>3. TypeOK
  BY <1>1, <1>2 DEF TypeOK, ClosureTypes
<1>4. result # "ok" /\ result # "circular"
  BY <1>2, SetAssumption DEF Result
<1> QED
  BY <1>2, <1>3, <1>4 DEF OrderInv, DefinitionsFirst, CycleIsReal, OrderedStaysPut

\* A step that ends without an order, or has not begun one.
LEMMA QuietStep ==
  ASSUME OrderInv, ClosureTypes',
         phase \in {"collect", "dedupe"},
         registry' = registry, order' = order, ready' = ready,
         next' \in Nat \ {0}, kept' \in Seq(Schema),
         \/ phase' \in {"collect", "dedupe"} /\ result' = result
         \/ phase' = "done" /\ result' \in Result \ {"ok", "circular"}
  PROVE  OrderInv'
<1>1. order' = <<>> /\ ready' = {}
  BY DEF OrderInv
<1>2. phase # "done" /\ result = None
  BY DEF OrderInv, TypeOK
<1>3. result' \notin {"ok", "circular"}
  BY <1>2, SetAssumption DEF Result
<1>4. phase' # "order" /\ phase' \in {"collect", "dedupe", "order", "done"}
  OBVIOUS
<1>5. result' \in Result \cup {None} /\ (phase' = "done" <=> result' # None)
  BY <1>2, SetAssumption
<1>6. TypeOK'
  BY <1>1, <1>4, <1>5 DEF TypeOK, ClosureTypes
<1> QED
  BY <1>1, <1>3, <1>4, <1>6 DEF OrderInv, DefinitionsFirst, CycleIsReal, OrderedStaysPut

LEMMA CollectKeepsOrder ==
  ASSUME OrderInv, ClosureTypes', Skip \/ Visit \/ Push \/ Collected
  PROVE  OrderInv'
<1>1. /\ phase = "collect" /\ registry' = registry /\ order' = order /\ ready' = ready
      /\ next' = next /\ kept' = kept
  BY DEF Skip, Visit, Push, Collected, dedupe, kahn
<1>2. \/ phase' \in {"collect", "dedupe"} /\ result' = result
      \/ phase' = "done" /\ result' \in Result \ {"ok", "circular"}
  BY <1>1 DEF Skip, Visit, Push, Collected, End, Result
<1>3. next' \in Nat \ {0} /\ kept' \in Seq(Schema)
  BY <1>1 DEF OrderInv, TypeOK
<1> QED
  BY <1>1, <1>2, <1>3, QuietStep

LEMMA DedupeKeepsOrder ==
  ASSUME OrderInv, ClosureTypes', Dedupe
  PROVE  OrderInv'
<1> DEFINE c == registry[out[next]].schema
<1>1. /\ phase = "dedupe" /\ next <= Len(out) /\ registry' = registry
      /\ order' = order /\ ready' = ready /\ next' = next + 1
  BY DEF Dedupe, kahn
<1>2. \/ phase' \in {"collect", "dedupe"} /\ result' = result
      \/ phase' = "done" /\ result' \in Result \ {"ok", "circular"}
  BY <1>1 DEF Dedupe, End, Result
<1>3. next \in Nat \ {0} /\ kept \in Seq(Schema) /\ out \in Seq(Doc) /\ registry \in [Doc -> Document]
  BY DEF OrderInv, TypeOK
<1>4. c \in Schema
  <2>1. out[next] \in Doc
    BY <1>1, <1>3
  <2> QED
    BY <2>1, <1>3 DEF Document
<1>5. kept' = kept \/ kept' = Append(kept, c)
  BY DEF Dedupe
<1>6. kept' \in Seq(Schema) /\ next' \in Nat \ {0}
  BY <1>1, <1>3, <1>4, <1>5
<1> QED
  BY <1>1, <1>2, <1>6, QuietStep

LEMMA ParseKeepsOrder ==
  ASSUME OrderInv, ClosureTypes', ParseAlone \/ ParseFails
  PROVE  OrderInv'
<1>1. /\ phase = "dedupe" /\ phase' = "done" /\ registry' = registry /\ kept' = kept
      /\ order' = order /\ ready' = ready /\ next' = next
  BY DEF ParseAlone, ParseFails, End, dedupe, kahn
<1>2. next' \in Nat \ {0} /\ kept' \in Seq(Schema)
  BY <1>1 DEF OrderInv, TypeOK
<1>3. CASE result' = "parse"
  BY <1>1, <1>2, <1>3, QuietStep DEF Result
<1>4. CASE result' = "ok"
  <2>1. /\ kept = <<>>
        /\ registry[Root].schema.refs \subseteq registry[Root].schema.defines
    BY <1>4 DEF ParseAlone, ParseFails, End
  <2>2. Table' = <<registry[Root].schema>>
    BY <2>1, <1>1 DEF Table
  <2>3. DefinitionsFirst'
    BY <2>1, <2>2 DEF DefinitionsFirst
  <2>4. order' = <<>> /\ ready' = {}
    BY <1>1 DEF OrderInv
  <2>5. "ok" \in Result /\ "ok" # None
    BY SetAssumption DEF Result
  <2>6. TypeOK'
    BY <2>4, <2>5, <1>1, <1>2, <1>4 DEF TypeOK, ClosureTypes
  <2> QED
    BY <2>3, <2>6, <1>1, <1>4 DEF OrderInv, CycleIsReal, OrderedStaysPut
<1> QED
  BY <1>3, <1>4 DEF ParseAlone, ParseFails, End

LEMMA PrepareKeepsOrder ==
  ASSUME OrderInv, ClosureTypes', Prepare
  PROVE  OrderInv'
<1>1. /\ phase = "dedupe" /\ kept # <<>> /\ registry' = registry /\ kept' = kept
      /\ order' = order /\ next' = next
  BY DEF Prepare, dedupe
<1>2. next' \in Nat \ {0} /\ kept' \in Seq(Schema) /\ registry \in [Doc -> Document]
  BY <1>1 DEF OrderInv, TypeOK
<1>3. CASE phase' = "done"
  <2>1. result' \in {"duplicate", "unresolved"} /\ ready' = ready
    BY <1>1, <1>3 DEF Prepare, End
  <2> QED
    BY <2>1, <1>1, <1>2, <1>3, QuietStep DEF Result
<1>4. CASE /\ phase' = "order" /\ ~Unresolved /\ result' = result
           /\ remaining' = [i \in Index |-> Cardinality(Prerequisites(i))]
           /\ ready' = {i \in Index : Prerequisites(i) = {}}
  <2>1. order = <<>> /\ order' = <<>> /\ DOMAIN order' = {} /\ Range(order') = {}
    BY <1>1 DEF OrderInv, Range
  <2>2. /\ Index' = Index /\ ~Unresolved'
        /\ \A i : Prerequisites(i)' = Prerequisites(i)
    BY <1>1, <1>4, ParsedStays
  <2>3. Counted'
    <3>1. \A i \in Index : Cardinality(Prerequisites(i)) \in Nat
      BY <1>2, <1>1, PrerequisiteFacts, FS_CardinalityType
    <3>2. \A i \in Index : Prerequisites(i) \ {} = Prerequisites(i)
      OBVIOUS
    <3> QED
      BY <3>1, <3>2, <2>1, <2>2, <1>4 DEF Counted
  <2>4. ReadyIsExact'
    <3>1. \A i \in Index : Prerequisites(i) = {} <=> Prerequisites(i) \subseteq {}
      OBVIOUS
    <3> QED
      BY <3>1, <2>1, <2>2, <1>4 DEF ReadyIsExact
  <2>5. Underway'
    BY <2>1, <2>2, <2>3, <2>4, <1>1 DEF Underway, PrerequisitesFirst, InOrderOnce
  <2>6. result' = None
    BY <1>1, <1>4 DEF OrderInv, TypeOK
  <2>7. ready' \subseteq Index'
    BY <2>4 DEF ReadyIsExact
  <2>8. TypeOK'
    BY <2>1, <2>3, <2>6, <2>7, <1>1, <1>2, <1>4 DEF TypeOK, ClosureTypes, Counted
  <2>9. result' # "ok" /\ result' # "circular"
    BY <2>6, SetAssumption DEF Result
  <2> QED
    BY <2>1, <2>5, <2>8, <2>9, <1>4
    DEF OrderInv, DefinitionsFirst, CycleIsReal, OrderedStaysPut
<1> QED
  BY <1>3, <1>4 DEF Prepare, End

\* Taking a schema keeps the heap, the counters and the order right.
LEMMA TakeKeepsUnderway ==
  ASSUME TypeOK, Underway, Take
  PROVE  Underway' /\ order' \in Seq(Index)
<1>1. /\ phase = "order" /\ registry' = registry /\ kept' = kept
      /\ registry \in [Doc -> Document] /\ kept \in Seq(Schema) /\ order \in Seq(Index)
  BY DEF Take, TypeOK, dedupe
<1>2. /\ kept # <<>> /\ ~Unresolved
      /\ PrerequisitesFirst /\ ReadyIsExact /\ Counted /\ InOrderOnce
  BY DEF Underway
<1>3. PICK i \in ready :
        LET dependents == {k \in Index : i \in Prerequisites(k)} IN
        /\ \A j \in ready : i <= j
        /\ order' = Append(order, i)
        /\ remaining' = [k \in Index |-> IF k \in dependents THEN remaining[k] - 1
                                                             ELSE remaining[k]]
        /\ ready' = (ready \ {i}) \cup {k \in dependents : remaining'[k] = 0}
  BY DEF Take
<1>4. i \in Index /\ i \notin Range(order) /\ Prerequisites(i) \subseteq Range(order)
  BY <1>2 DEF ReadyIsExact
<1>5. order' \in Seq(Index) /\ Range(order') = Range(order) \cup {i}
  BY <1>1, <1>3, <1>4, RangeOfAppend
<1>6. /\ Index' = Index /\ ~Unresolved'
      /\ \A k : Prerequisites(k)' = Prerequisites(k)
  BY <1>1, <1>2, ParsedStays
<1>7. /\ Len(order) \in Nat /\ DOMAIN order = 1..Len(order)
      /\ DOMAIN order' = 1..(Len(order) + 1)
      /\ order'[Len(order) + 1] = i
      /\ \A k \in 1..Len(order) : order'[k] = order[k]
  BY <1>1, <1>3, <1>4
<1>8. \A k \in DOMAIN order' : k \in 1..Len(order) \/ k = Len(order) + 1
  BY <1>7
<1>9. \A k \in 1..Len(order) : order[k] \in Range(order)
  BY <1>7 DEF Range
<1>10. PrerequisitesFirst'
  <2>1. ASSUME NEW k \in DOMAIN order', NEW j \in Prerequisites(order'[k])
        PROVE  \E m \in 1..(k-1) : order'[m] = j
    <3>1. CASE k \in 1..Len(order)
      <4>1. PICK m \in 1..(k-1) : order[m] = j
        BY <3>1, <2>1, <1>2, <1>7 DEF PrerequisitesFirst
      <4>2. m \in 1..Len(order)
        BY <3>1, <1>7
      <4> QED
        BY <4>1, <4>2, <1>7
    <3>2. CASE k = Len(order) + 1
      <4>1. j \in Range(order)
        BY <3>2, <2>1, <1>4, <1>7
      <4>2. PICK m \in 1..Len(order) : order[m] = j
        BY <4>1, <1>7 DEF Range
      <4>3. m \in 1..(k-1)
        BY <3>2, <1>7
      <4> QED
        BY <4>2, <4>3, <1>7
    <3> QED
      BY <3>1, <3>2, <1>8
  <2> QED
    BY <2>1, <1>6 DEF PrerequisitesFirst
<1>11. InOrderOnce'
  <2>1. ASSUME NEW j \in DOMAIN order', NEW k \in DOMAIN order', order'[j] = order'[k]
        PROVE  j = k
    <3>1. CASE j \in 1..Len(order) /\ k \in 1..Len(order)
      BY <3>1, <2>1, <1>2, <1>7 DEF InOrderOnce
    <3> QED
      BY <3>1, <2>1, <1>4, <1>7, <1>8, <1>9
  <2> QED
    BY <2>1 DEF InOrderOnce
<1>12. ASSUME NEW k \in Index
       PROVE  /\ remaining'[k] = Cardinality(Prerequisites(k) \ Range(order'))
              /\ remaining'[k] \in Nat
  <2> DEFINE S == Prerequisites(k) \ Range(order)
  <2>1. IsFiniteSet(S) /\ IsFiniteSet(S \ {i})
    <3>1. IsFiniteSet(Prerequisites(k))
      BY <1>1, PrerequisiteFacts
    <3>2. S \in SUBSET Prerequisites(k)
      OBVIOUS
    <3>3. IsFiniteSet(S)
      BY <3>1, <3>2, FS_Subset
    <3> QED
      BY <3>3, FS_RemoveElement
  <2>2. Cardinality(S \ {i}) = IF i \in S THEN Cardinality(S) - 1 ELSE Cardinality(S)
    BY <2>1, FS_RemoveElement
  <2>3. Prerequisites(k) \ Range(order') = S \ {i}
    BY <1>5
  <2>4. i \in S <=> i \in Prerequisites(k)
    BY <1>4
  <2>5. remaining[k] = Cardinality(S)
    BY <1>2 DEF Counted
  <2>6. remaining'[k] = IF i \in Prerequisites(k) THEN remaining[k] - 1 ELSE remaining[k]
    BY <1>3
  <2>7. Cardinality(S \ {i}) \in Nat
    BY <2>1, FS_CardinalityType
  <2> QED
    BY <2>2, <2>3, <2>4, <2>5, <2>6, <2>7
<1>13. Counted'
  <2>1. remaining' \in [Index -> Nat]
    <3>1. DOMAIN remaining' = Index /\ remaining' = [k \in Index |-> remaining'[k]]
      BY <1>3
    <3> QED
      BY <3>1, <1>12
  <2> QED
    BY <2>1, <1>6, <1>12 DEF Counted
<1>14. ASSUME NEW k \in Index
       PROVE  remaining'[k] = 0 <=> Prerequisites(k) \subseteq Range(order')
  <2>1. IsFiniteSet(Prerequisites(k) \ Range(order'))
    <3>1. IsFiniteSet(Prerequisites(k))
      BY <1>1, PrerequisiteFacts
    <3>2. Prerequisites(k) \ Range(order') \in SUBSET Prerequisites(k)
      OBVIOUS
    <3> QED
      BY <3>1, <3>2, FS_Subset
  <2>2. remaining'[k] = 0 <=> Prerequisites(k) \ Range(order') = {}
    BY <2>1, <1>12, FS_EmptySet
  <2> QED
    BY <2>2
<1>15. ASSUME NEW k \in Range(order)
       PROVE  Prerequisites(k) \subseteq Range(order)
  <2>1. PICK n \in 1..Len(order) : order[n] = k
    BY <1>7 DEF Range
  <2>2. \A m \in 1..(n-1) : m \in 1..Len(order)
    BY <1>7
  <2> QED
    BY <2>1, <2>2, <1>2, <1>7, <1>9 DEF PrerequisitesFirst
<1>16. ReadyIsExact'
  <2>1. ASSUME NEW k \in ready'
        PROVE  k \in Index /\ k \notin Range(order') /\ Prerequisites(k) \subseteq Range(order')
    <3>1. CASE k \in ready \ {i}
      BY <3>1, <1>2, <1>5 DEF ReadyIsExact
    <3>2. CASE k \in Index /\ i \in Prerequisites(k) /\ remaining'[k] = 0
      BY <3>2, <1>4, <1>5, <1>14, <1>15
    <3> QED
      BY <3>1, <3>2, <1>3
  <2>2. ASSUME NEW k \in Index, k \notin Range(order'), Prerequisites(k) \subseteq Range(order')
        PROVE  k \in ready'
    <3>1. CASE i \in Prerequisites(k)
      BY <3>1, <2>2, <1>3, <1>14
    <3>2. CASE i \notin Prerequisites(k)
      <4>1. k \in ready \ {i}
        BY <3>2, <2>2, <1>2, <1>5 DEF ReadyIsExact
      <4> QED
        BY <4>1, <1>3
    <3> QED
      BY <3>1, <3>2
  <2> QED
    BY <2>1, <2>2, <1>6 DEF ReadyIsExact
<1> QED
  BY <1>1, <1>2, <1>5, <1>6, <1>10, <1>11, <1>13, <1>16 DEF Underway

\* If every prerequisite comes earlier, the lowest ready index is the next one.
LEMMA TakeStaysPut ==
  ASSUME TypeOK, Underway, OrderedStaysPut, Take
  PROVE  OrderedStaysPut'
<1>1. /\ phase = "order" /\ phase' = "order" /\ registry' = registry /\ kept' = kept
      /\ registry \in [Doc -> Document] /\ kept \in Seq(Schema) /\ order \in Seq(Index)
  BY DEF Take, TypeOK, dedupe
<1>2. /\ Index' = Index /\ \A k : Prerequisites(k)' = Prerequisites(k)
  BY <1>1, ParsedStays
<1>3. SUFFICES ASSUME \A i \in Index : \A j \in Prerequisites(i) : j < i
               PROVE  \A k \in DOMAIN order' : order'[k] = k
  BY <1>2 DEF OrderedStaysPut
<1>4. /\ Len(order) \in Nat /\ DOMAIN order = 1..Len(order)
      /\ \A k \in 1..Len(order) : order[k] = k
  BY <1>1, <1>3 DEF OrderedStaysPut
<1>5. Range(order) = 1..Len(order)
  BY <1>4 DEF Range
<1>6. PICK i \in ready : order' = Append(order, i) /\ \A j \in ready : i <= j
  BY DEF Take
<1>7. i \in Index /\ i \notin 1..Len(order)
  BY <1>5 DEF Underway, ReadyIsExact
<1>8. Index = 1..Len(parsed) /\ Len(parsed) \in Nat
  BY <1>1, IndexFacts
<1>9. Len(order) + 1 \in Index /\ Len(order) + 1 <= i /\ Len(order) + 1 \notin Range(order)
  BY <1>4, <1>5, <1>7, <1>8
<1>10. Prerequisites(Len(order) + 1) \subseteq Range(order)
  <2> SUFFICES ASSUME NEW j \in Prerequisites(Len(order) + 1)
               PROVE  j \in 1..Len(order)
    BY <1>5
  <2>1. j \in Index /\ j < Len(order) + 1
    BY <1>1, <1>3, <1>9, PrerequisiteFacts
  <2> QED
    BY <2>1, <1>4, <1>8
<1>11. Len(order) + 1 \in ready
  BY <1>9, <1>10 DEF Underway, ReadyIsExact
<1>12. i = Len(order) + 1
  BY <1>4, <1>6, <1>7, <1>8, <1>9, <1>11
<1>13. /\ DOMAIN order' = 1..(Len(order) + 1)
       /\ order'[Len(order) + 1] = i
       /\ \A k \in 1..Len(order) : order'[k] = order[k]
  BY <1>1, <1>4, <1>6, <1>7
<1> QED
  <2> TAKE k \in DOMAIN order'
  <2>1. k \in 1..Len(order) \/ k = Len(order) + 1
    BY <1>4, <1>13
  <2> QED
    BY <2>1, <1>4, <1>12, <1>13

LEMMA TakeKeepsOrder ==
  ASSUME OrderInv, ClosureTypes', Take
  PROVE  OrderInv'
<1>1. /\ phase = "order" /\ phase' = "order" /\ registry' = registry /\ kept' = kept
      /\ result' = result /\ next' = next
  BY DEF Take, dedupe
<1>2. TypeOK /\ Underway /\ OrderedStaysPut
  BY <1>1 DEF OrderInv
<1>3. Underway' /\ order' \in Seq(Index)
  BY <1>2, TakeKeepsUnderway
<1>4. OrderedStaysPut'
  BY <1>2, TakeStaysPut
<1>5. Index' = Index
  BY <1>1, ParsedStays
<1>6. result' = None /\ result' # "ok" /\ result' # "circular"
  BY <1>1, <1>2, SetAssumption DEF TypeOK, Result
<1>7. ready' \subseteq Index' /\ remaining' \in [Index' -> Nat]
  BY <1>3 DEF Underway, ReadyIsExact, Counted
<1>8. TypeOK'
  BY <1>1, <1>2, <1>3, <1>5, <1>6, <1>7 DEF TypeOK, ClosureTypes
<1> QED
  BY <1>1, <1>3, <1>4, <1>6, <1>8 DEF OrderInv, DefinitionsFirst, CycleIsReal

\* What is missing from an order that cannot go on is a set of schemas that
\* wait for each other.
LEMMA StuckIsCyclic ==
  ASSUME TypeOK, phase = "order", Underway, ready = {}, Len(order) # Len(parsed)
  PROVE  \E S \in (SUBSET Index) \ {{}} : \A i \in S : \E j \in S \ {i} :
           parsed[j].top \in parsed[i].refs
<1> DEFINE S == Index \ Range(order)
<1>1. registry \in [Doc -> Document] /\ kept \in Seq(Schema) /\ order \in Seq(Index)
  BY DEF TypeOK
<1>2. S # {}
  <2>1. SUFFICES ASSUME Index \subseteq Range(order)
                 PROVE  FALSE
    OBVIOUS
  <2>2. /\ Len(order) \in Nat /\ DOMAIN order = 1..Len(order)
        /\ order \in [1..Len(order) -> Index]
    BY <1>1
  <2>3. order \in Bijection(1..Len(order), Index)
    <3>1. order \in Injection(1..Len(order), Index)
      BY <2>2 DEF Underway, InOrderOnce, Injection, IsInjective
    <3>2. order \in Surjection(1..Len(order), Index)
      BY <2>1, <2>2 DEF Surjection, Range
    <3> QED
      BY <3>1, <3>2 DEF Bijection
  <2>4. Cardinality(Index) = Len(order)
    BY <2>2, <2>3, FS_CountingElements DEF ExistsBijection
  <2> QED
    BY <2>4, <1>1, IndexFacts
<1>3. ASSUME NEW i \in S
      PROVE  \E j \in S \ {i} : parsed[j].top \in parsed[i].refs
  <2>1. i \in Index /\ ~(Prerequisites(i) \subseteq Range(order))
    BY DEF Underway, ReadyIsExact
  <2>2. PICK j \in Prerequisites(i) : j \notin Range(order)
    BY <2>1
  <2>3. j \in Index /\ j # i /\ parsed[j].top \in parsed[i].refs
    BY <2>1, <2>2, <1>1, PrerequisiteFacts
  <2> QED
    BY <2>2, <2>3
<1>4. S \in (SUBSET Index) \ {{}}
  <2>1. S \in SUBSET Index /\ S \notin {{}}
    BY <1>2
  <2> QED
    BY <2>1
<1> QED
  BY <1>3, <1>4

\* An order with prerequisites first, of schemas that resolve every name, can
\* be read from front to back.
LEMMA TableReadsForward ==
  ASSUME TypeOK, phase = "order", Underway
  PROVE  \A k \in DOMAIN Table : \A x \in Table[k].refs :
           x \in Table[k].defines \/ \E j \in 1..(k-1) : Table[j].top = x
<1>1. /\ DOMAIN Table = DOMAIN order
      /\ \A k \in DOMAIN order : Table[k] = parsed[order[k]]
  BY DEF Table, Underway
<1>2. /\ order \in Seq(Index) /\ Len(order) \in Nat /\ DOMAIN order = 1..Len(order)
      /\ \A k \in DOMAIN order : order[k] \in Index
  BY DEF TypeOK
<1>3. SUFFICES ASSUME NEW k \in DOMAIN order, NEW x \in parsed[order[k]].refs,
                      x \notin parsed[order[k]].defines
               PROVE  \E j \in 1..(k-1) : Table[j].top = x
  BY <1>1
<1>4. x \in External(order[k])
  BY <1>3 DEF External
<1>5. PICK p \in Index : parsed[p].top = x
  BY <1>2, <1>4 DEF Underway, Unresolved
<1>6. p \in Prerequisites(order[k])
  BY <1>4, <1>5 DEF Prerequisites
<1>7. PICK j \in 1..(k-1) : order[j] = p
  BY <1>6 DEF Underway, PrerequisitesFirst
<1>8. j \in DOMAIN order
  BY <1>2
<1> QED
  BY <1>1, <1>5, <1>7, <1>8

LEMMA OrderedKeepsOrder ==
  ASSUME OrderInv, ClosureTypes', Ordered
  PROVE  OrderInv'
<1>1. /\ phase = "order" /\ phase' = "done" /\ ready = {}
      /\ registry' = registry /\ kept' = kept /\ next' = next
      /\ remaining' = remaining /\ ready' = ready /\ order' = order
      /\ result' \in {"ok", "circular"}
      /\ result' = "circular" => Len(order) # Len(parsed)
  BY DEF Ordered, End, dedupe, kahn
<1>2. TypeOK /\ Underway
  BY <1>1 DEF OrderInv
<1>3. Index' = Index /\ parsed' = parsed
  BY <1>1, ParsedStays
<1>4. Table' = Table
  BY <1>1, <1>3 DEF Table
<1>5. DefinitionsFirst'
  BY <1>1, <1>2, <1>4, TableReadsForward DEF DefinitionsFirst
<1>6. CycleIsReal'
  BY <1>1, <1>2, <1>3, StuckIsCyclic DEF CycleIsReal
<1>7. result' \in Result /\ result' # None
  BY <1>1, SetAssumption DEF Result
<1>8. TypeOK'
  BY <1>1, <1>2, <1>3, <1>7 DEF TypeOK, ClosureTypes
<1> QED
  BY <1>1, <1>5, <1>6, <1>8 DEF OrderInv, OrderedStaysPut

LEMMA StutterKeepsOrder ==
  ASSUME OrderInv, UNCHANGED vars
  PROVE  OrderInv'
<1>1. /\ registry' = registry /\ phase' = phase /\ result' = result
      /\ stack' = stack /\ visited' = visited /\ out' = out /\ next' = next /\ kept' = kept
      /\ remaining' = remaining /\ ready' = ready /\ order' = order
  BY DEF vars, closure, dedupe, kahn
<1>2. /\ parsed' = parsed /\ Index' = Index /\ (Unresolved' <=> Unresolved)
      /\ \A i : Prerequisites(i)' = Prerequisites(i)
  BY <1>1, ParsedStays
<1>3. TypeOK'
  BY <1>1, <1>2 DEF OrderInv, TypeOK
<1>4. Underway => Underway'
  <2>1. PrerequisitesFirst => PrerequisitesFirst'
    BY <1>1, <1>2 DEF PrerequisitesFirst
  <2>2. ReadyIsExact => ReadyIsExact'
    BY <1>1, <1>2 DEF ReadyIsExact
  <2>3. Counted => Counted'
    BY <1>1, <1>2 DEF Counted
  <2>4. InOrderOnce => InOrderOnce'
    BY <1>1 DEF InOrderOnce
  <2> QED
    BY <2>1, <2>2, <2>3, <2>4, <1>1, <1>2 DEF Underway
<1>5. Table' = Table
  BY <1>1, <1>2 DEF Table
<1>6. DefinitionsFirst' /\ CycleIsReal' /\ OrderedStaysPut'
  <2>1. DefinitionsFirst'
    BY <1>1, <1>5 DEF OrderInv, DefinitionsFirst
  <2>2. CycleIsReal'
    BY <1>1, <1>2 DEF OrderInv, CycleIsReal
  <2>3. OrderedStaysPut'
    BY <1>1, <1>2 DEF OrderInv, OrderedStaysPut
  <2> QED
    BY <2>1, <2>2, <2>3
<1> QED
  BY <1>1, <1>3, <1>4, <1>6 DEF OrderInv

LEMMA OrderNext ==
  ASSUME OrderInv, ClosureTypes', [Next]_vars
  PROVE  OrderInv'
BY CollectKeepsOrder, DedupeKeepsOrder, ParseKeepsOrder, PrepareKeepsOrder,
   TakeKeepsOrder, OrderedKeepsOrder, StutterKeepsOrder DEF Next

LEMMA OrderHolds == Spec => []OrderInv
<1>1. Init => ClosureInv /\ OrderInv
  BY ClosureInit, OrderInit
<1>2. ClosureInv /\ OrderInv /\ [Next]_vars => ClosureInv' /\ OrderInv'
  BY ClosureNext, OrderNext DEF ClosureInv
<1> QED
  BY <1>1, <1>2, PTL DEF Spec

\* Every variable keeps its type; in particular the counters of order_schemata
\* never go below zero.
THEOREM TypeCorrect == Spec => []TypeOK
<1>1. OrderInv => TypeOK
  BY DEF OrderInv
<1> QED
  BY <1>1, OrderHolds, PTL

\* In the name table that parse returns, definitions come before their users.
THEOREM DefinitionsComeFirst == Spec => []DefinitionsFirst
<1>1. OrderInv => DefinitionsFirst
  BY DEF OrderInv
<1> QED
  BY <1>1, OrderHolds, PTL

\* Schemas are refused as circular only if some of them wait for each other.
THEOREM CyclesAreReal == Spec => []CycleIsReal
<1>1. OrderInv => CycleIsReal
  BY DEF OrderInv
<1> QED
  BY <1>1, OrderHolds, PTL

\* Schemas that come in order keep it: the heap hands out the lowest index.
THEOREM OrderIsStable == Spec => []OrderedStaysPut
<1>1. OrderInv => OrderedStaysPut
  BY DEF OrderInv
<1> QED
  BY <1>1, OrderHolds, PTL

------------------------------------------------------------------------------
(***************************************************************************)
(* The table.                                                              *)
(***************************************************************************)
\* The schemas of the dependencies met so far, and of the root.
Met == {registry[out[n]].schema : n \in 1..(next - 1)} \cup {registry[Root].schema}

TableInv ==
  /\ phase = "collect" => next = 1 /\ kept = <<>>
  /\ phase \in {"dedupe", "order"} =>
       next <= Len(out) + 1 /\ Range(kept) \cup {registry[Root].schema} = Met
  /\ phase = "order" => next = Len(out) + 1 /\ ~Duplicate
  /\ NothingIsLost

LEMMA TableInit ==
  ASSUME Init
  PROVE  TableInv
<1>1. phase = "collect" /\ next = 1 /\ kept = <<>> /\ result = None
  BY DEF Init
<1>2. result # "ok"
  BY <1>1, SetAssumption DEF Result
<1> QED
  BY <1>1, <1>2 DEF TableInv, NothingIsLost

LEMMA CollectKeepsTable ==
  ASSUME ClosureInv, OrderInv, TableInv, OrderInv', Skip \/ Visit \/ Push \/ Collected
  PROVE  TableInv'
<1>1. /\ phase = "collect" /\ phase' \in {"collect", "dedupe", "done"}
      /\ next' = next /\ kept' = kept /\ registry' = registry
      /\ result' = result \/ result' \in {"count", "fetch", "depth"}
  BY DEF Skip, Visit, Push, Collected, End, dedupe
<1>2. result' # "ok"
  BY <1>1, SetAssumption DEF OrderInv, TypeOK, Result
<1>3. next' = 1 /\ kept' = <<>>
  BY <1>1 DEF TableInv
<1>4. Len(out') \in Nat
  BY DEF OrderInv, TypeOK
<1>5. Range(kept') = {} /\ 1..(next' - 1) = {}
  BY <1>3 DEF Range
<1>6. Met' = {registry'[Root].schema}
  BY <1>5 DEF Met
<1> QED
  BY <1>1, <1>2, <1>3, <1>4, <1>5, <1>6 DEF TableInv, NothingIsLost

\* A dependency is met: it is kept, or is there already.
LEMMA DedupeKeepsTable ==
  ASSUME ClosureInv, OrderInv, TableInv, Dedupe
  PROVE  TableInv'
<1> DEFINE c == registry[out[next]].schema
<1>1. /\ phase = "dedupe" /\ next <= Len(out) /\ next' = next + 1
      /\ registry' = registry /\ out' = out
  BY DEF Dedupe, closure
<1>2. /\ next \in Nat \ {0} /\ kept \in Seq(Schema) /\ out \in Seq(Doc) /\ Len(out) \in Nat
      /\ registry \in [Doc -> Document] /\ result = None
  BY <1>1 DEF OrderInv, TypeOK
<1>3. CASE phase' = "done" /\ result' = "conflict"
  BY <1>3 DEF TableInv, NothingIsLost
<1>4. CASE /\ phase' = phase /\ result' = result
           /\ kept' = IF c \in Seen THEN kept ELSE Append(kept, c)
  <2>1. c \in Schema
    <3>1. out[next] \in Doc
      BY <1>1, <1>2
    <3> QED
      BY <3>1, <1>2 DEF Document
  <2>2. Range(kept') \cup {registry[Root].schema} = Range(kept) \cup {registry[Root].schema} \cup {c}
    <3>1. CASE c \in Seen
      BY <3>1, <1>4 DEF Seen
    <3>2. CASE c \notin Seen
      <4>1. Range(kept') = Range(kept) \cup {c}
        BY <3>2, <2>1, <1>2, <1>4, RangeOfAppend
      <4> QED
        BY <4>1
    <3> QED
      BY <3>1, <3>2
  <2>3. 1..(next' - 1) = 1..(next - 1) \cup {next}
    BY <1>1, <1>2
  <2>4. Met' = Met \cup {c}
    BY <2>3, <1>1 DEF Met
  <2>5. result' # "ok"
    BY <1>2, <1>4, SetAssumption DEF Result
  <2>6. Range(kept) \cup {registry[Root].schema} = Met
    BY <1>1 DEF TableInv
  <2>7. next' <= Len(out') + 1
    BY <1>1, <1>2
  <2> QED
    BY <2>2, <2>4, <2>5, <2>6, <2>7, <1>1, <1>4 DEF TableInv, NothingIsLost
<1> QED
  BY <1>3, <1>4 DEF Dedupe, End

\* When all dependencies are met, so is what the root reaches.
LEMMA AllMet ==
  ASSUME ClosureInv, OrderInv, TableInv, phase \in {"dedupe", "order"}, next > Len(out)
  PROVE  /\ next = Len(out) + 1
         /\ {registry[d].schema : d \in Reachable \cup {Root}} =
              Range(kept) \cup {registry[Root].schema}
<1>1. /\ next \in Nat \ {0} /\ out \in Seq(Doc) /\ Len(out) \in Nat
      /\ DOMAIN out = 1..Len(out)
  BY DEF OrderInv, TypeOK
<1>2. next = Len(out) + 1 /\ 1..(next - 1) = DOMAIN out
  BY <1>1 DEF TableInv
<1>3. Reachable = {out[n] : n \in DOMAIN out}
  BY DEF ClosureInv, ClosureIsExact, Range
<1>4. {registry[d].schema : d \in Reachable \cup {Root}} = Met
  <2>1. Met = {registry[out[n]].schema : n \in DOMAIN out} \cup {registry[Root].schema}
    BY <1>2 DEF Met
  <2>2. {registry[d].schema : d \in Reachable} = {registry[out[n]].schema : n \in DOMAIN out}
    BY <1>3
  <2> QED
    BY <2>1, <2>2
<1> QED
  BY <1>2, <1>4 DEF TableInv

LEMMA ParseKeepsTable ==
  ASSUME ClosureInv, OrderInv, TableInv, ParseAlone \/ ParseFails
  PROVE  TableInv'
<1>1. /\ phase = "dedupe" /\ next > Len(out) /\ phase' = "done"
      /\ registry' = registry /\ kept' = kept /\ order' = order
      /\ result' = "parse" \/ (result' = "ok" /\ kept = <<>>)
  BY DEF ParseAlone, ParseFails, End, dedupe, kahn
<1>2. CASE result' = "parse"
  BY <1>1, <1>2 DEF TableInv, NothingIsLost
<1>3. CASE result' = "ok" /\ kept = <<>>
  <2>1. /\ Table' = <<registry[Root].schema>> /\ DOMAIN Table' = {1}
        /\ Range(Table') = {registry[Root].schema}
    BY <1>1, <1>3 DEF Table, Range
  <2>2. {registry[d].schema : d \in Reachable \cup {Root}} = {registry[Root].schema}
    <3>1. Range(kept) = {}
      BY <1>3 DEF Range
    <3> QED
      BY <3>1, <1>1, AllMet
  <2>3. NothingIsLost'
    BY <2>1, <2>2, <1>1, ReachableStays DEF NothingIsLost
  <2> QED
    BY <2>3, <1>1 DEF TableInv
<1> QED
  BY <1>1, <1>2, <1>3

LEMMA PrepareKeepsTable ==
  ASSUME ClosureInv, OrderInv, TableInv, Prepare
  PROVE  TableInv'
<1>1. /\ phase = "dedupe" /\ next > Len(out) /\ registry' = registry /\ out' = out
      /\ kept' = kept /\ next' = next
  BY DEF Prepare, closure, dedupe
<1>2. result = None /\ result # "ok"
  BY <1>1, SetAssumption DEF OrderInv, TypeOK, Result
<1>3. CASE phase' = "done" /\ result' \in {"duplicate", "unresolved"}
  BY <1>3 DEF TableInv, NothingIsLost
<1>4. CASE phase' = "order" /\ ~Duplicate /\ result' = result
  <2>1. next = Len(out) + 1
    BY <1>1, AllMet
  <2>2. parsed' = parsed /\ Index' = Index
    BY <1>1, ParsedStays
  <2>3. ~Duplicate'
    BY <2>2, <1>4 DEF Duplicate
  <2>4. Met' = Met /\ Range(kept') = Range(kept)
    BY <1>1 DEF Met
  <2>5. Range(kept) \cup {registry[Root].schema} = Met /\ next <= Len(out) + 1
    BY <1>1 DEF TableInv
  <2> QED
    BY <2>1, <2>3, <2>4, <2>5, <1>1, <1>2, <1>4 DEF TableInv, NothingIsLost
<1> QED
  BY <1>3, <1>4 DEF Prepare, End

LEMMA TakeKeepsTable ==
  ASSUME OrderInv, TableInv, Take
  PROVE  TableInv'
<1>1. /\ phase = "order" /\ phase' = phase /\ registry' = registry /\ out' = out
      /\ kept' = kept /\ next' = next /\ result' = result
  BY DEF Take, closure, dedupe
<1>2. result' # "ok"
  BY <1>1, SetAssumption DEF OrderInv, TypeOK, Result
<1>3. parsed' = parsed /\ Index' = Index
  BY <1>1, ParsedStays
<1>4. Duplicate' <=> Duplicate
  BY <1>3 DEF Duplicate
<1>5. Met' = Met /\ Range(kept') = Range(kept)
  BY <1>1 DEF Met
<1> QED
  BY <1>1, <1>2, <1>4, <1>5 DEF TableInv, NothingIsLost

\* An order of the right length is an order of all.
LEMMA FullOrder ==
  ASSUME OrderInv, phase = "order", Len(order) = Len(parsed)
  PROVE  Range(order) = Index
<1>1. /\ registry \in [Doc -> Document] /\ kept \in Seq(Schema) /\ order \in Seq(Index)
      /\ InOrderOnce
  BY DEF OrderInv, TypeOK, Underway
<1>2. /\ Len(order) \in Nat /\ DOMAIN order = 1..Len(order)
      /\ Range(order) \in SUBSET Index
  BY <1>1 DEF Range
<1>3. order \in Bijection(1..Len(order), Range(order))
  <2>1. order \in [1..Len(order) -> Range(order)]
    BY <1>1, <1>2 DEF Range
  <2>2. order \in Injection(1..Len(order), Range(order))
    BY <2>1, <1>1, <1>2 DEF InOrderOnce, Injection, IsInjective
  <2>3. order \in Surjection(1..Len(order), Range(order))
    BY <2>1, <1>2 DEF Surjection, Range
  <2> QED
    BY <2>2, <2>3 DEF Bijection
<1>4. Cardinality(Range(order)) = Len(order)
  BY <1>2, <1>3, FS_CountingElements DEF ExistsBijection
<1>5. IsFiniteSet(Index) /\ Cardinality(Index) = Len(order)
  BY <1>1, IndexFacts
<1> QED
  BY <1>2, <1>4, <1>5, FS_Subset

LEMMA OrderedKeepsTable ==
  ASSUME ClosureInv, OrderInv, TableInv, Ordered
  PROVE  TableInv'
<1>1. /\ phase = "order" /\ phase' = "done"
      /\ registry' = registry /\ kept' = kept /\ order' = order
      /\ (result' = "ok" /\ Len(order) = Len(parsed)) \/ result' = "circular"
  BY DEF Ordered, End, dedupe, kahn
<1>2. CASE result' = "circular"
  BY <1>1, <1>2 DEF TableInv, NothingIsLost
<1>3. CASE result' = "ok" /\ Len(order) = Len(parsed)
  <2>1. /\ registry \in [Doc -> Document] /\ kept \in Seq(Schema) /\ kept # <<>>
        /\ order \in Seq(Index) /\ InOrderOnce
    BY <1>1 DEF OrderInv, TypeOK, Underway
  <2>2. Range(order) = Index
    BY <1>1, <1>3, FullOrder
  <2>3. Table = [k \in DOMAIN order |-> parsed[order[k]]]
    BY <2>1 DEF Table
  <2>4. Range(Table) = Range(parsed)
    BY <2>2, <2>3 DEF Range, Index
  <2>5. Range(parsed) = Range(kept) \cup {registry[Root].schema}
    <3>1. registry[Root].schema \in Schema
      BY <2>1, SetAssumption DEF Document
    <3> QED
      BY <3>1, <2>1, RangeOfAppend DEF parsed
  <2>6. {registry[d].schema : d \in Reachable \cup {Root}} = Range(Table)
    <3>1. next > Len(out)
      BY <1>1 DEF TableInv, OrderInv, TypeOK
    <3> QED
      BY <3>1, <2>4, <2>5, <1>1, AllMet
  <2>7. ASSUME NEW j \in DOMAIN Table, NEW k \in DOMAIN Table,
               Table[j].defines \cap Table[k].defines # {}
        PROVE  j = k
    <3>1. j \in DOMAIN order /\ k \in DOMAIN order /\ order[j] \in Index /\ order[k] \in Index
      BY <2>1, <2>3
    <3>2. ~Duplicate
      BY <1>1 DEF TableInv
    <3>3. order[j] = order[k]
      BY <3>1, <3>2, <2>3, <2>7 DEF Duplicate
    <3> QED
      BY <3>1, <3>3, <2>1 DEF InOrderOnce
  <2>8. Table' = Table
    <3>1. parsed' = parsed
      BY <1>1, ParsedStays
    <3> QED
      BY <3>1, <1>1 DEF Table
  <2>9. NothingIsLost'
    BY <2>6, <2>7, <2>8, <1>1, ReachableStays DEF NothingIsLost
  <2> QED
    BY <2>9, <1>1 DEF TableInv
<1> QED
  BY <1>1, <1>2, <1>3

LEMMA StutterKeepsTable ==
  ASSUME TableInv, UNCHANGED vars
  PROVE  TableInv'
<1>1. /\ registry' = registry /\ phase' = phase /\ result' = result /\ out' = out
      /\ next' = next /\ kept' = kept /\ order' = order
  BY DEF vars, closure, dedupe, kahn
<1>2. parsed' = parsed /\ Index' = Index
  BY <1>1, ParsedStays
<1>3. Duplicate' <=> Duplicate
  BY <1>2 DEF Duplicate
<1>4. Met' = Met /\ Range(kept') = Range(kept)
  BY <1>1 DEF Met
<1>5. Table' = Table
  BY <1>1, <1>2 DEF Table
<1>6. NothingIsLost'
  BY <1>1, <1>5, ReachableStays DEF TableInv, NothingIsLost
<1> QED
  BY <1>1, <1>3, <1>4, <1>6 DEF TableInv

LEMMA TableNext ==
  ASSUME ClosureInv, OrderInv, TableInv, OrderInv', [Next]_vars
  PROVE  TableInv'
BY CollectKeepsTable, DedupeKeepsTable, ParseKeepsTable, PrepareKeepsTable,
   TakeKeepsTable, OrderedKeepsTable, StutterKeepsTable DEF Next

\* The table that parse returns has the schema of the root and of every document
\* it reaches, and no name is defined by two of them: dropping repeated
\* definitions and reordering lose nothing.
THEOREM NoSchemaIsLost == Spec => []NothingIsLost
<1>1. Init => ClosureInv /\ OrderInv /\ TableInv
  BY ClosureInit, OrderInit, TableInit
<1>2. ClosureInv /\ OrderInv /\ TableInv /\ [Next]_vars => ClosureInv' /\ OrderInv' /\ TableInv'
  BY ClosureNext, OrderNext, TableNext DEF ClosureInv
<1>3. TableInv => NothingIsLost
  BY DEF TableInv
<1> QED
  BY <1>1, <1>2, <1>3, PTL DEF Spec
==============================================================================
