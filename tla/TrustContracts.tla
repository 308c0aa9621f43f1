----------------------------- MODULE TrustContracts -----------------------------
(***************************************************************************)
(* The three deployed contracts as one system: every transaction of each,  *)
(* interleaved in any order, with the calls between contracts reading the  *)
(* state of the callee in the same transaction.                            *)
(***************************************************************************)
EXTENDS DadiengValidation, DadiengRewards

contractVars == <<registryVars, validationVars, rewardsVars, now>>

Init == RegistryInit /\ ValidationInit /\ RewardsInit

Next ==
  \/ RegistryTransaction /\ UNCHANGED <<validationVars, rewardsVars, now>>
  \/ ValidationTransaction /\ UNCHANGED <<registryVars, rewardsVars, now>>
  \/ RewardsTransaction /\ UNCHANGED <<registryVars, validationVars, now>>
  \/ Tick /\ UNCHANGED <<validationVars, rewardsVars>>

Spec == Init /\ [][Next]_contractVars

\* The storage of the three contracts has the declared types.
TypeOK == RegistryTypeOK /\ ValidationTypeOK /\ RewardsTypeOK

\* Usage, and so rewards, only ever concern versions that a quorum validated
\* and a release manager released, even when the version was quarantined or
\* revoked after the batch was committed.
UsageOfReleased ==
  \A id \in BatchIds : batches[id].committed =>
    /\ status(id[3]) \in {"Stable", "Quarantined", "Revoked"}
    /\ isValidationFinal[id[3]]
    /\ Approvals(id[3]) # {}
================================================================================
