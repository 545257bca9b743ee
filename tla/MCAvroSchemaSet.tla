--------------------------- MODULE MCAvroSchemaSet ---------------------------
(***************************************************************************)
(* AvroSchemaSet over two families of registries.                          *)
(***************************************************************************)
EXTENDS AvroSchemaSet

MCDoc == {"r", "a", "b", "c"}
MCName == {"R", "A", "B", "C"}

OwnName == [r |-> "R", a |-> "A", b |-> "B", c |-> "C"]

\* The members of a set of documents, in one order.
Listed(S) == SelectSeq(<<"r", "a", "b", "c">>, LAMBDA d : d \in S)

\* A document that refers to those in S, by reference and by name.
Citing(d, S) ==
  [schema |-> [top |-> OwnName[d], defines |-> {OwnName[d]},
               refs |-> {OwnName[e] : e \in S}],
   references |-> Listed(S)]

\* Graphs of references on four documents, with cycles, diamonds and self
\* references.
Graphs ==
  {[r |-> x, a |-> y, b |-> z, c |-> w] :
     x \in {Citing("r", S) : S \in SUBSET {"a", "b", "c"}},
     y \in {Citing("a", S) : S \in SUBSET MCDoc},
     z \in {Citing("b", S) : S \in SUBSET MCDoc},
     w \in {Citing("c", S) : S \in SUBSET {"a", "r"}}}

\* Two dependencies that may repeat or contradict each other or the root, be
\* unnamed, define a nested type, and refer to a type that nobody defines.
Dependency ==
  {s \in [top : {"R", "A", "B", None}, defines : SUBSET MCName, refs : SUBSET {"A", "C"}] :
     s.defines \ {"C"} = {s.top} \ {None}}
Alone == {[schema |-> s, references |-> <<>>] : s \in Dependency}

Clashes ==
  {[r |-> x, a |-> y, b |-> z, c |-> Citing("c", {})] :
     x \in {[schema |-> [top |-> "R", defines |-> {"R"}, refs |-> n],
             references |-> <<"a", "b">>] : n \in SUBSET {"A", "B", "C"}},
     y \in Alone, z \in Alone}

MCRegistries == Graphs \cup Clashes
==============================================================================
