------------------------------- MODULE MCIncident -------------------------------
(***************************************************************************)
(* Instance of IncidentWorkflow for TLC: deliveries of one receipt.        *)
(***************************************************************************)
EXTENDS IncidentWorkflow, TLC

CONSTANTS p1, p2, i1, i2, i3

Delivery(p, i, n) == [process |-> p, incident |-> i, number |-> n]

\* One process: the incident three times, once with other data, once unsanitized.
OneProcess ==
  {Delivery(p1, i1, 1), Delivery(p1, i1, 2), Delivery(p1, i1, 3), Delivery(p1, i2, 4),
   Delivery(p1, i3, 5)}

\* The same file behind two processes, each with a lock of its own.
TwoProcesses == {Delivery(p1, i1, 1), Delivery(p2, i1, 2)}
================================================================================
