--------------------------- MODULE MCInMemoryCache ---------------------------
(***************************************************************************)
(* InMemoryCache with small sets of tasks and keys.                        *)
(***************************************************************************)
EXTENDS CacheRefinement

\* invalidate_matching by one tag, as invalidate_subject calls it.
ByTag == {{g} : g \in Tag}
==============================================================================
