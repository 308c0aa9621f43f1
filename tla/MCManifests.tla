------------------------------ MODULE MCManifests ------------------------------
(***************************************************************************)
(* Instances of StableManifests for TLC.                                   *)
(***************************************************************************)
EXTENDS StableManifests, TLC

\* The requests are alike.
Symmetric == Permutations(Callers)
================================================================================
