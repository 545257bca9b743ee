----------------------- MODULE MCCachedSchemaRegistry -----------------------
(***************************************************************************)
(* CachedSchemaRegistry with interchangeable tasks.                        *)
(***************************************************************************)
EXTENDS CachedSchemaRegistry, TLC

TaskSymmetry == Permutations(Task)
==============================================================================
