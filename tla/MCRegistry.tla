------------------------------ MODULE MCRegistry ------------------------------
(***************************************************************************)
(* Instance of DadiengRegistry for TLC: the registry alone, beside a       *)
(* validation contract that may finalize any candidate.                    *)
(***************************************************************************)
EXTENDS DadiengRegistry, TLC

\* Used only with invariants and action properties.
Symmetry ==
  Permutations(Numbers) \cup Permutations(Accounts) \cup Permutations(Agents)
================================================================================
