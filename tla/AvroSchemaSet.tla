---------------------------- MODULE AvroSchemaSet ----------------------------
(***************************************************************************)
(* How an Avro decoder makes a writer schema usable: get_avro_schema       *)
(* collects the schemas it references from the registry (avro/mod.rs),     *)
(* ResolvedAvroSchema::parse drops repeated definitions and order_schemata *)
(* puts definitions before their users (avro/schema_set.rs).               *)
(*                                                                         *)
(* A schema text is abstracted to the names it defines and refers to; two  *)
(* texts are equal when these are.  The registry and the Avro parser are   *)
(* external.                                                               *)
(***************************************************************************)
EXTENDS Integers, Sequences, FiniteSets, Functions

CONSTANTS
  Doc,            \* subject-version pairs
  Root,           \* the one whose schema is being resolved
  Name,           \* full names of Avro types
  Registries,     \* the contents the registry may have
  MaxDepth,       \* MAX_REFERENCE_DEPTH
  MaxReferences,  \* MAX_REFERENCES
  None

\* A schema: its own name if it has one, and what names_of finds in it.
Schema == {c \in [top : Name \cup {None}, defines : SUBSET Name, refs : SUBSET Name] :
             c.top # None => c.top \in c.defines}
Document == [schema : Schema, references : Seq(Doc)]

\* What get_avro_schema returns.
Result == {"ok", "fetch", "depth", "count", "conflict", "parse", "duplicate",
           "unresolved", "circular"}

ASSUME SetAssumption ==
  /\ Root \in Doc /\ IsFiniteSet(Doc)
  /\ None \notin Name \cup Result
  /\ Registries \subseteq [Doc -> Document]
  /\ MaxDepth \in Nat \ {0} /\ MaxReferences \in Nat

VARIABLES
  registry,   \* what each reference resolves to
  phase,      \* where get_avro_schema is
  result,     \* its result: "ok" or an error
  stack,      \* the calls of collect_reference_closure, innermost first
  visited,
  out,        \* the documents collected, in the order they are pushed
  next,       \* dedupe_dependencies: the next of them
  kept,
  remaining,  \* order_schemata: prerequisites not yet in order
  ready,
  order

closure == <<stack, visited, out>>
dedupe == <<next, kept>>
kahn == <<remaining, ready, order>>
vars == <<registry, phase, result, closure, dedupe, kahn>>

\* A call: the document whose references it follows, and those left.
Frame == [doc : Doc, todo : Seq(Doc)]

\* The schemas handed to order_schemata: the kept ones, then the root.
parsed == Append(kept, registry[Root].schema)
Index == DOMAIN parsed

TypeOK ==
  /\ registry \in [Doc -> Document]
  /\ phase \in {"collect", "dedupe", "order", "done"}
  /\ result \in Result \cup {None} /\ (phase = "done" <=> result # None)
  /\ stack \in Seq(Frame) /\ visited \subseteq Doc /\ out \in Seq(Doc)
  /\ next \in Nat \ {0} /\ kept \in Seq(Schema)
  /\ phase = "order" => remaining \in [Index -> Nat]
  /\ ready \subseteq Index /\ order \in Seq(Index)

Init ==
  /\ registry \in Registries
  /\ phase = "collect" /\ result = None
  /\ stack = <<[doc |-> Root, todo |-> registry[Root].references]>>
  /\ visited = {} /\ out = <<>>
  /\ next = 1 /\ kept = <<>>
  /\ remaining = <<>> /\ ready = {} /\ order = <<>>

\* Return to the caller of get_avro_schema.
End(r) == phase' = "done" /\ result' = r

------------------------------------------------------------------------------
(***************************************************************************)
(* collect_reference_closure.                                              *)
(***************************************************************************)
\* The call goes on with the references that come after the first one.
Advance == [stack EXCEPT ![1].todo = Tail(@)]

\* A reference that has been visited is skipped.
Skip ==
  /\ phase = "collect" /\ stack[1].todo # <<>>
  /\ Head(stack[1].todo) \in visited
  /\ stack' = Advance
  /\ UNCHANGED <<registry, phase, result, visited, out, dedupe, kahn>>

\* The slip of not following references at the depth limit.
ShallowVisit ==
  LET d == Head(stack[1].todo) IN
  /\ phase = "collect" /\ stack[1].todo # <<>>
  /\ d \notin visited
  /\ visited' = visited \cup {d}
  /\ IF Len(out) >= MaxReferences THEN End("count") /\ UNCHANGED stack
     ELSE \/ End("fetch") /\ UNCHANGED stack
          \/ /\ stack' = <<[doc |-> d, todo |-> IF Len(stack) >= MaxDepth THEN <<>>
                                                ELSE registry[d].references]>> \o Advance
             /\ UNCHANGED <<phase, result>>
  /\ UNCHANGED <<registry, out, dedupe, kahn>>

\* Another one is fetched, unless there are too many, and its own references
\* are followed first, unless they are too deep.
Visit ==
  LET d == Head(stack[1].todo) IN
  /\ phase = "collect" /\ stack[1].todo # <<>>
  /\ d \notin visited
  /\ visited' = visited \cup {d}
  /\ IF Len(out) >= MaxReferences THEN End("count") /\ UNCHANGED stack
     ELSE \/ End("fetch") /\ UNCHANGED stack
          \/ IF registry[d].references # <<>> /\ Len(stack) >= MaxDepth
             THEN End("depth") /\ UNCHANGED stack
             ELSE /\ stack' = <<[doc |-> d, todo |-> registry[d].references]>> \o Advance
                  /\ UNCHANGED <<phase, result>>
  /\ UNCHANGED <<registry, out, dedupe, kahn>>

\* A call returns: its document is pushed.
Push ==
  /\ phase = "collect" /\ stack[1].todo = <<>> /\ Len(stack) > 1
  /\ out' = Append(out, stack[1].doc)
  /\ stack' = Tail(stack)
  /\ UNCHANGED <<registry, phase, result, visited, dedupe, kahn>>

\* The outermost call returns, and parse begins.
Collected ==
  /\ phase = "collect" /\ stack[1].todo = <<>> /\ Len(stack) = 1
  /\ IF Len(out) > MaxReferences THEN End("count")
     ELSE phase' = "dedupe" /\ UNCHANGED result
  /\ UNCHANGED <<registry, closure, dedupe, kahn>>

------------------------------------------------------------------------------
(***************************************************************************)
(* ResolvedAvroSchema::parse and dedupe_dependencies.                      *)
(***************************************************************************)
\* The named schemas met so far, the root first.
Seen == {c \in Range(kept) \cup {registry[Root].schema} : c.top # None}

\* The slip of comparing names only.
DedupeByName ==
  LET c == registry[out[next]].schema IN
  /\ phase = "dedupe" /\ next <= Len(out)
  /\ next' = next + 1
  /\ kept' = IF \E p \in Seen : p.top = c.top THEN kept ELSE Append(kept, c)
  /\ UNCHANGED <<registry, phase, result, closure, kahn>>

\* The next dependency: dropped if the same is there already, an error if a
\* different one of its name is.
Dedupe ==
  LET c == registry[out[next]].schema IN
  /\ phase = "dedupe" /\ next <= Len(out)
  /\ next' = next + 1
  /\ IF \E p \in Seen : p.top = c.top /\ p # c
     THEN End("conflict") /\ UNCHANGED kept
     ELSE /\ kept' = IF c \in Seen THEN kept ELSE Append(kept, c)
          /\ UNCHANGED <<phase, result>>
  /\ UNCHANGED <<registry, closure, kahn>>

\* Without dependencies the schema must stand on its own.
ParseAlone ==
  /\ phase = "dedupe" /\ next > Len(out) /\ kept = <<>>
  /\ IF registry[Root].schema.refs \subseteq registry[Root].schema.defines
     THEN End("ok") ELSE End("parse")
  /\ UNCHANGED <<registry, closure, dedupe, kahn>>

\* What order_schemata checks: no name is defined twice, and a name that a
\* schema does not define itself is another one's own name.
Duplicate == \E i, j \in Index : i # j /\ parsed[i].defines \cap parsed[j].defines # {}
External(i) == parsed[i].refs \ parsed[i].defines
Unresolved == \E i \in Index : \E x \in External(i) : \A j \in Index : parsed[j].top # x

\* parse_list (external) may refuse what order_schemata would, and unnamed
\* dependencies.
ParseFails ==
  /\ phase = "dedupe" /\ next > Len(out) /\ kept # <<>>
  /\ Duplicate \/ Unresolved \/ \E i \in DOMAIN kept : kept[i].top = None
  /\ End("parse")
  /\ UNCHANGED <<registry, closure, dedupe, kahn>>

------------------------------------------------------------------------------
(***************************************************************************)
(* order_schemata.                                                         *)
(***************************************************************************)
\* The slip of counting a schema that refers to itself as its own prerequisite.
SelfCounted(i) == {j \in Index : parsed[j].top \in parsed[i].refs}

\* The slip of taking dependents for prerequisites.
Dependents(i) == {j \in Index : parsed[i].top \in External(j)}

Prerequisites(i) == {j \in Index : parsed[j].top \in External(i)}

Prepare ==
  /\ phase = "dedupe" /\ next > Len(out) /\ kept # <<>>
  /\ IF Duplicate THEN End("duplicate") /\ UNCHANGED <<remaining, ready>>
     ELSE IF Unresolved THEN End("unresolved") /\ UNCHANGED <<remaining, ready>>
     ELSE /\ phase' = "order"
          /\ remaining' = [i \in Index |-> Cardinality(Prerequisites(i))]
          /\ ready' = {i \in Index : Prerequisites(i) = {}}
          /\ UNCHANGED result
  /\ UNCHANGED <<registry, closure, dedupe, order>>

\* The slip of a heap without Reverse.
TakeLast ==
  /\ phase = "order"
  /\ \E i \in ready :
       LET dependents == {k \in Index : i \in Prerequisites(k)} IN
       /\ \A j \in ready : j <= i
       /\ order' = Append(order, i)
       /\ remaining' = [k \in Index |-> IF k \in dependents THEN remaining[k] - 1
                                                            ELSE remaining[k]]
       /\ ready' = (ready \ {i}) \cup {k \in dependents : remaining'[k] = 0}
  /\ UNCHANGED <<registry, phase, result, closure, dedupe>>

\* The lowest ready index goes into the order and releases its dependents.
Take ==
  /\ phase = "order"
  /\ \E i \in ready :
       LET dependents == {k \in Index : i \in Prerequisites(k)} IN
       /\ \A j \in ready : i <= j
       /\ order' = Append(order, i)
       /\ remaining' = [k \in Index |-> IF k \in dependents THEN remaining[k] - 1
                                                            ELSE remaining[k]]
       /\ ready' = (ready \ {i}) \cup {k \in dependents : remaining'[k] = 0}
  /\ UNCHANGED <<registry, phase, result, closure, dedupe>>

\* The slip of waiting until every schema is in the order.
OrderedAll ==
  /\ phase = "order" /\ Len(order) = Len(parsed)
  /\ End("ok")
  /\ UNCHANGED <<registry, closure, dedupe, kahn>>

\* Nothing is ready: all are in the order, or the others wait for each other.
Ordered ==
  /\ phase = "order" /\ ready = {}
  /\ IF Len(order) = Len(parsed) THEN End("ok") ELSE End("circular")
  /\ UNCHANGED <<registry, closure, dedupe, kahn>>

------------------------------------------------------------------------------
Next ==
  \/ Skip \/ Visit \/ Push \/ Collected
  \/ Dedupe \/ ParseAlone \/ ParseFails
  \/ Prepare \/ Take \/ Ordered

Spec == Init /\ [][Next]_vars
\* The future is polled, and fetches end.
FairSpec == Spec /\ WF_vars(Next)

------------------------------------------------------------------------------
\* The documents the root refers to, directly or not: those in every set that
\* has the root's references and the references of its own members.
Reachable ==
  {d \in Doc : \A S \in SUBSET Doc :
     /\ Range(registry[Root].references) \subseteq S
     /\ \A e \in S : Range(registry[e].references) \subseteq S
     => d \in S}

\* collect_reference_closure: "a diamond dependency is fetched once and a cycle
\* terminates", and the limits cut nothing off silently: when it returns, it
\* has collected every document the root refers to, each once, and no other.
ClosureIsExact ==
  phase \in {"dedupe", "order"} =>
    /\ Range(out) = Reachable
    /\ \A i, j \in DOMAIN out : out[i] = out[j] => i = j

\* The name table handed to the codec (codec_schemata).
Table == IF kept = <<>> THEN <<registry[Root].schema>>
         ELSE [k \in DOMAIN order |-> parsed[order[k]]]

\* "Definitions before users": in a table that parse returns, whatever a schema
\* refers to is defined by itself or is the name of an earlier one, because the
\* codec reads the table from front to back.
DefinitionsFirst ==
  result = "ok" =>
    \A k \in DOMAIN Table : \A x \in Table[k].refs :
      x \in Table[k].defines \/ \E j \in 1..(k-1) : Table[j].top = x

\* Dropping repeated definitions loses none, and no name is left with two: the
\* table has the schema of every document reached and of the root.
NothingIsLost ==
  result = "ok" =>
    /\ {registry[d].schema : d \in Reachable \cup {Root}} = Range(Table)
    /\ \A j, k \in DOMAIN Table : Table[j].defines \cap Table[k].defines # {} => j = k

\* A set is refused as circular only if some of its schemas really refer to one
\* another; one that refers to itself is not a cycle.
CycleIsReal ==
  result = "circular" =>
    \E S \in (SUBSET Index) \ {{}} : \A i \in S : \E j \in S \ {i} :
      parsed[j].top \in parsed[i].refs

\* "An already-ordered input comes back unchanged."
OrderedStaysPut ==
  phase = "order" /\ (\A i \in Index : \A j \in Prerequisites(i) : j < i) =>
    \A k \in DOMAIN order : order[k] = k

\* Every call returns, cycles in the registry and among the schemas included.
Terminates == <>(phase = "done")
==============================================================================
