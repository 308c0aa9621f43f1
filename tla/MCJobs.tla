-------------------------------- MODULE MCJobs --------------------------------
(***************************************************************************)
(* Instance of ValidatorCli for TLC.                                       *)
(***************************************************************************)
EXTENDS ValidatorCli, TLC

CONSTANTS v1, v2, r1, r2

\* v2 is the author of the version that r2 replays.
SomeAuthors == {<<v2, r2>>}
================================================================================
