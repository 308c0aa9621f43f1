------------------------------- MODULE MCIntake -------------------------------
(***************************************************************************)
(* Instance of ReceiptIntake for TLC.                                      *)
(***************************************************************************)
EXTENDS ReceiptIntake, TLC

receipt(key, tenant, id, dedup, evidence, publish) ==
  [key |-> key, kind |-> "receipt", tenant |-> tenant, id |-> id, dedup |-> dedup,
   evidence |-> evidence, publish |-> publish]
other(key, kind, id, defense) ==
  [key |-> key, kind |-> kind, tenant |-> "t", id |-> id, dedup |-> defense,
   evidence |-> "e", publish |-> FALSE]

\* A receipt whose commitment is published, another that duplicates it, and
\* another tenant that takes its id.
ReceiptInputs ==
  {receipt("k1", "t", "r1", "d1", "e", TRUE), receipt("k2", "t", "r2", "d1", "f", FALSE),
   receipt("k3", "u", "r1", "d1", "e", FALSE)}
OneReceipt == {receipt("k1", "t", "r1", "d1", "e", TRUE)}

\* A version of a registered defense and what is asked about it.
WriteInputs ==
  {other("k4", "version", "v", "d"), other("k5", "replay", "w", "none"),
   other("k6", "quarantine", "w", "none")}

AllInputs == ReceiptInputs \cup WriteInputs
Registered == {<<"defense", "d">>, <<"version", "w">>}

\* Used only with invariants and action properties.
Symmetry == Permutations(Attempts)
================================================================================
