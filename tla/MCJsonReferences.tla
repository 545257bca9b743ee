-------------------------- MODULE MCJsonReferences --------------------------
(***************************************************************************)
(* JsonReferences over the reference lists of three documents.              *)
(***************************************************************************)
EXTENDS JsonReferences, TLC

ListsUpTo(n) == UNION {[1..k -> References] : k \in 0..n}

\* The root has up to two references, the others one: chains, cycles, diamonds.
MCGraphs ==
    {[n \in Nodes |-> IF n = Root THEN top ELSE below[n]] :
        top \in ListsUpTo(2), below \in [Nodes \ {Root} -> ListsUpTo(1)]}

\* The encoder's root has one $ref, its dependencies none.
MCLocalGraphs == {[n \in Nodes |-> IF n = Root THEN <<r>> ELSE <<>>] : r \in References}
MCDependencies == ListsUpTo(2)

JsonSymmetry == Permutations(Dirs) \cup Permutations(Files) \cup Permutations(Nodes \ {Root})
=============================================================================
