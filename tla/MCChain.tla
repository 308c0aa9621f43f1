-------------------------------- MODULE MCChain --------------------------------
(***************************************************************************)
(* Instance of ChainOperations for TLC.                                    *)
(***************************************************************************)
EXTENDS ChainOperations, TLC

\* Used only with invariants and action properties.
Symmetry == Permutations(Workers)
================================================================================
