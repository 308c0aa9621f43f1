-------------------------------- MODULE MCIndexer --------------------------------
(***************************************************************************)
(* Instance of Indexer for TLC: the three contracts and the index.         *)
(***************************************************************************)
EXTENDS Indexer, TLC

\* Used only with invariants and action properties.
Symmetry == Permutations(Agents) \cup Permutations(Accounts \ Authors) \cup Permutations(Usages)
================================================================================
