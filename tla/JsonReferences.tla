--------------------------- MODULE JsonReferences ---------------------------
(***************************************************************************)
(* How src/json/mod.rs turns a JSON Schema with references into a           *)
(* validator: the decoder walks the references in the registry, the encoder *)
(* is given the documents, both index them in a ReferenceSet, and the       *)
(* jsonschema compiler (external) asks that set for every $ref.             *)
(*                                                                         *)
(* A name, and a URI, is a directory and a file; the directory of a bare    *)
(* name is NoDir.  Documents are nodes: one version of one subject each.    *)
(***************************************************************************)
EXTENDS Integers, Sequences, FiniteSets, Functions

CONSTANTS Nodes, Root,
          Dirs, Files, NoDir,
          RootDir,         \* the directory of json-schema:///, the root's base URI
          Graphs,          \* reference lists of registry schemas: Nodes -> Seq(References)
          LocalGraphs,     \* of an encoder's schema and its dependencies
          Dependencies,    \* the lists of pairs given to the encoder's builder
          MaxDepth,        \* MAX_REFERENCE_DEPTH
          MaxKeys          \* 2 * MAX_REFERENCES

Names == [dir : Dirs \cup {NoDir}, file : Files]

References == [name : Names, node : Nodes]

ASSUME JsonAssumption ==
    /\ Root \in Nodes /\ NoDir \notin Dirs /\ RootDir \notin Dirs \cup {NoDir}
    /\ MaxDepth \in Nat \ {0} /\ MaxKeys \in Nat \ {0}
    /\ \A g \in Graphs \cup LocalGraphs :
         DOMAIN g = Nodes /\ \A n \in Nodes : g[n] \in Seq(References)
    /\ \A d \in Dependencies : d \in Seq(References)

VARIABLES refs,      \* the reference list of each document; its $refs are their names
          phase,     \* walk or pairs, compile, then done or an error
          stack,     \* the recursive calls: what is left of each list, and what called it
          given,     \* the pairs of an encoder
          indexed,   \* how many of them are indexed
          visited,   \* the nodes fetched
          by_key,    \* ReferenceSet::by_key
          loaded     \* the documents the compiler has, by URI

vars == <<refs, phase, stack, given, indexed, visited, by_key, loaded>>

-----------------------------------------------------------------------------
(***************************************************************************)
(* ReferenceSet.                                                            *)
(***************************************************************************)
\* last_segment, for a name that has a directory.
Tail1(name) == [name EXCEPT !.dir = NoDir]

\* The final segment is taken by whoever comes first.
IndexTail(set, name, doc) ==
    IF name.dir = NoDir \/ Tail1(name) \in DOMAIN set THEN set
    ELSE [k \in DOMAIN set \cup {Tail1(name)} |-> IF k \in DOMAIN set THEN set[k] ELSE doc]

Full(set) == Cardinality(DOMAIN set) >= MaxKeys

\* A second document for a name, or for a bare name that is another's final segment.
Conflicts(set, name, doc) ==
    LET s == IndexTail(set, name, doc) IN name \in DOMAIN s /\ s[name] # doc

Insert(set, name, doc) ==
    LET s == IndexTail(set, name, doc)
    IN  [k \in DOMAIN s \cup {name} |-> IF k = name THEN doc ELSE s[k]]

\* Mutant of Lookup: the final segment first.
TailFirst(set, uri) ==
    CASE Tail1(uri) \in DOMAIN set -> {set[Tail1(uri)]}
      [] Tail1(uri) \notin DOMAIN set /\ uri \in DOMAIN set -> {set[uri]}
      [] OTHER -> {}

\* Mutant of Lookup: only the URI itself.
ExactOnly(set, uri) == IF uri \in DOMAIN set THEN {set[uri]} ELSE {}

\* ReferenceSet::lookup: the URI itself, else its final segment.
Lookup(set, uri) ==
    CASE uri \in DOMAIN set -> {set[uri]}
      [] uri \notin DOMAIN set /\ Tail1(uri) \in DOMAIN set -> {set[Tail1(uri)]}
      [] OTHER -> {}

-----------------------------------------------------------------------------
Nothing == [k \in {} |-> Root]

RootUri == [dir |-> RootDir, file |-> RootDir]

\* JsonSchemaDecoder::get_validator starts the walk, JsonSchemaEncoderBuilder::build the pairs.
Init ==
    /\ \/ refs \in Graphs /\ phase = "walk" /\ given = <<>>
       \/ refs \in LocalGraphs /\ phase = "pairs" /\ given \in Dependencies
    /\ stack = IF phase = "walk" THEN <<[todo |-> refs[Root], of |-> <<>>]>> ELSE <<>>
    /\ indexed = 0 /\ visited = {} /\ by_key = Nothing
    /\ loaded = {[uri |-> RootUri, doc |-> Root]}

Top == stack[Len(stack)]
Rest == SubSeq(stack, 1, Len(stack) - 1)
Advanced == Append(Rest, [Top EXCEPT !.todo = Tail(@)])

\* A node met before is neither fetched nor indexed again, whatever name it has here.
Skip ==
    /\ phase = "walk" /\ Top.todo # <<>>
    /\ Head(Top.todo).node \in visited
    /\ stack' = Advanced
    /\ UNCHANGED <<refs, phase, given, indexed, visited, by_key, loaded>>

\* Fetch a node and recurse into its list; a list below MaxDepth is an error.
Fetch ==
    /\ phase = "walk" /\ Top.todo # <<>>
    /\ LET ref == Head(Top.todo)
       IN  /\ ref.node \notin visited
           /\ visited' = visited \cup {ref.node}
           /\ IF refs[ref.node] # <<>> /\ Len(stack) >= MaxDepth
              THEN phase' = "depth" /\ UNCHANGED stack
              ELSE /\ stack' = Append(Advanced, [todo |-> refs[ref.node], of |-> <<ref>>])
                   /\ UNCHANGED phase
    /\ UNCHANGED <<refs, given, indexed, by_key, loaded>>

\* The registry does not answer, or no longer has the version.
FetchFails ==
    /\ phase = "walk" /\ Top.todo # <<>> /\ Head(Top.todo).node \notin visited
    /\ visited' = visited \cup {Head(Top.todo).node}
    /\ phase' = "fetch"
    /\ UNCHANGED <<refs, stack, given, indexed, by_key, loaded>>

Index(ref) ==
    LET error == IF Full(by_key) THEN "full"
                 ELSE IF Conflicts(by_key, ref.name, ref.node) THEN "conflict" ELSE ""
    IN  IF error = ""
        THEN by_key' = Insert(by_key, ref.name, ref.node) /\ UNCHANGED phase
        ELSE phase' = error /\ UNCHANGED by_key

\* A list is through: its document is indexed under the name that led to it.
Return ==
    /\ phase = "walk" /\ Len(stack) > 1 /\ Top.todo = <<>>
    /\ Index(Top.of[1])
    /\ stack' = Rest
    /\ UNCHANGED <<refs, given, indexed, visited, loaded>>

\* reference_set_from_pairs, one pair at a time.
IndexPair ==
    /\ phase = "pairs" /\ indexed < Len(given)
    /\ Index(given[indexed + 1])
    /\ indexed' = indexed + 1
    /\ UNCHANGED <<refs, stack, given, visited, loaded>>

StartCompile ==
    /\ \/ phase = "walk" /\ Len(stack) = 1 /\ Top.todo = <<>>
       \/ phase = "pairs" /\ indexed = Len(given)
    /\ phase' = "compile"
    /\ UNCHANGED <<refs, stack, given, indexed, visited, by_key, loaded>>

-----------------------------------------------------------------------------
(***************************************************************************)
(* The compiler.  It resolves a bare $ref against the URI of the document   *)
(* that holds it, and asks for each URI once.                               *)
(***************************************************************************)
UriOf(base, name) == IF name.dir = NoDir THEN [name EXCEPT !.dir = base.dir] ELSE name

\* The $refs of a set of documents, and the URI each is asked for.
Asked(docs) ==
    UNION {{[ref |-> r, uri |-> UriOf(x.uri, r.name)] : r \in Range(refs[x.doc])} : x \in docs}

\* One round: what the documents loaded so far ask for is retrieved, until nothing is new.
Compile ==
    /\ phase = "compile"
    /\ LET new == UNION {{[uri |-> a.uri, doc |-> d] : d \in Lookup(by_key, a.uri)} :
                        a \in Asked(loaded)}
       IN  /\ loaded' = loaded \cup new
           /\ phase' = IF \E a \in Asked(loaded) : Lookup(by_key, a.uri) = {} THEN "missing"
                       ELSE IF new \subseteq loaded THEN "done" ELSE "compile"
    /\ UNCHANGED <<refs, stack, given, indexed, visited, by_key>>

Next == Skip \/ Fetch \/ FetchFails \/ Return \/ IndexPair \/ StartCompile \/ Compile

Spec == Init /\ [][Next]_vars

-----------------------------------------------------------------------------
(***************************************************************************)
(* Properties.                                                              *)
(***************************************************************************)
\* The nodes that references lead to from the root: those in every set that
\* holds what the root and its own members reference.  Then the references met.
IsClosed(S) == \A x \in S \cup {Root} : \A r \in Range(refs[x]) : r.node \in S
Closure == {n \in Nodes : \A S \in SUBSET Nodes : IsClosed(S) => n \in S}
Declared == UNION {Range(refs[x]) : x \in Closure \cup {Root}}

\* Another schema with the same file name; another name, or file name, of the same schema.
SharesFile(r) == \E q \in Declared : q.name.file = r.name.file /\ q.node # r.node
HasOtherName(r) == \E q \in Declared : q.node = r.node /\ q.name # r.name
HasOtherFile(n) == \E q, r \in Declared : q.node = n /\ r.node = n /\ q.name.file # r.name.file

FromRegistry == given = <<>> /\ stack # <<>>

\* A validator compiled from the registry follows every $ref to the version that the
\* references list of the schema holding it names, through relative references, cycles
\* and diamonds (collect_reference_closure, ReferenceSet::insert and lookup).  The one
\* exception is a file name that two schemas of the closure share, and then only for a
\* bare $ref, or for a schema the walk met first under another name.
ResolvesAsNamed ==
    phase = "done" /\ FromRegistry =>
        /\ visited = Closure
        /\ \A a \in Asked(loaded) :
             \/ Lookup(by_key, a.uri) = {a.ref.node}
             \/ SharesFile(a.ref) /\ (a.ref.name.dir = NoDir \/ HasOtherName(a.ref))

\* No schema is refused without a cause: the depth error means a chain of that many
\* distinct schemas (a cycle is compiled, not rejected), a conflict two schemas with
\* one file name, and a $ref that is not found a schema that the closure references
\* under two file names, of which collect_reference_closure indexes only the first.
FailsForAReason ==
    FromRegistry =>
        /\ phase = "depth" => Cardinality(visited) >= MaxDepth
        /\ phase = "conflict" => \E r \in Declared : SharesFile(r)
        /\ phase = "missing" => \E n \in Closure : HasOtherFile(n)

\* compile_schema_with_refs: "A `$ref` to a URL nobody supplied is a compile error".
UnsuppliedIsAnError ==
    phase = "done" /\ ~FromRegistry =>
        \A a \in Asked(loaded) :
            a.ref.name.dir # NoDir => a.uri \in {p.name : p \in Range(given)}
=============================================================================
