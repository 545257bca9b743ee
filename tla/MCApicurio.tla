----------------------------- MODULE MCApicurio -----------------------------
(***************************************************************************)
(* Apicurio with two artifacts, one of them also addressed by its bare     *)
(* name, pages of two entries and IDs that outgrow the wire format.        *)
(***************************************************************************)
EXTENDS Apicurio

Bare == [group |-> None, name |-> "a"]
Full == [group |-> "default", name |-> "a"]
Other == [group |-> "g", name |-> "b"]
Bad == [group |-> None, name |-> Invalid]

MCSubject == {Bare, Full, Other, Bad}
MCOrder == <<FromSubject(Full), FromSubject(Other)>>

K(op, s, arg) == [op |-> op, subject |-> s, arg |-> arg]

\* Every operation; registrations under both spellings of one artifact.
MCCall ==
  {K("register", s, CHOOSE x \in Text : TRUE) : s \in {Bare, Other, Bad}}
  \cup {K("register", Full, x) : x \in Text}
  \cup {K("version", Full, -1), K("version", Bare, 1), K("version", Bare, 2),
        K("by_id", Full, 1), K("lookup", Bare, CHOOSE x \in Text : TRUE),
        K("subjects", Full, 1), K("subjects", Full, 9), K("versions", Full, 0),
        K("delete_subject", Bare, 0), K("delete_version", Full, -1),
        K("delete_version", Full, 1), K("get_rule", Full, 0)}
  \cup {K("set_rule", s, l) : s \in {Full, Global}, l \in Level}

\* An empty registry, one artifact with one version and no counts, and two
\* artifacts, one with a rule and three versions, the first with a name of its own.
MCRegistry ==
  LET a == FromSubject(Full)
      b == FromSubject(Other)
      v(n) == [number |-> n, gid |-> n, numeric |-> TRUE]
      w(n) == [v(n) EXCEPT !.numeric = FALSE]
      NoRules == [s \in Scopes |-> None]
      x == CHOOSE t \in Text : TRUE
      y == CHOOSE t \in Text \ {x} : TRUE
      z == CHOOSE t \in Text \ {x, y} : TRUE
  IN  {[versions |-> [i \in Artifacts |-> <<>>], rules |-> NoRules, texts |-> <<>>,
        counts |-> TRUE],
       [versions |-> [i \in Artifacts |-> IF i = a THEN <<v(1)>> ELSE <<>>],
        rules |-> NoRules, texts |-> <<x>>, counts |-> FALSE],
       [versions |-> [i \in Artifacts |-> IF i = a THEN <<w(1), v(2), v(3)>>
                                       ELSE <<[v(4) EXCEPT !.number = 1]>>],
        rules |-> [NoRules EXCEPT ![a] = CHOOSE l \in Level : TRUE],
        texts |-> <<x, y, z, x>>, counts |-> TRUE]}

ClientSymmetry == Permutations(Client)
==============================================================================
