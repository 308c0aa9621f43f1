---------------------------- MODULE ReleaseLifecycle ----------------------------
(***************************************************************************)
(* What the trust contracts promise to a consumer of releases, without     *)
(* counters, identities, pauses or roles: a version is a phase and a set   *)
(* of approving agents; it is endorsed when its approvals reach the        *)
(* threshold in force, and from then on they are fixed; only an endorsed   *)
(* candidate is released; safety actions end a version for good.           *)
(***************************************************************************)
EXTENDS Naturals, FiniteSets

CONSTANTS Versions, Voters, Thresholds

VARIABLES
  phase,       \* phase[v]
  approvals,   \* approvals[v]: the voters standing behind v
  endorsed,    \* the versions a quorum has endorsed
  threshold

lifecycleVars == <<phase, approvals, endorsed, threshold>>

LifecycleInit ==
  /\ phase = [v \in Versions |-> "None"]
  /\ approvals = [v \in Versions |-> {}]
  /\ endorsed = {}
  /\ threshold \in Thresholds

Move(v, to) ==
  /\ phase' = [phase EXCEPT ![v] = to]
  /\ UNCHANGED <<approvals, endorsed, threshold>>

Publish(v) == phase[v] = "None" /\ Move(v, "Draft")

Propose(v) == phase[v] = "Draft" /\ Move(v, "Candidate")

Release(v) == phase[v] = "Candidate" /\ v \in endorsed /\ Move(v, "Stable")

Reject(v) == phase[v] \in {"Draft", "Candidate"} /\ Move(v, "Rejected")

Quarantine(v) == phase[v] \in {"Draft", "Candidate", "Stable"} /\ Move(v, "Quarantined")

Revoke(v) == phase[v] = "Quarantined" /\ Move(v, "Revoked")

Approve(v, x) ==
  /\ phase[v] = "Candidate"
  /\ v \notin endorsed
  /\ approvals' = [approvals EXCEPT ![v] = @ \cup {x}]
  /\ UNCHANGED <<phase, endorsed, threshold>>

Withdraw(v, x) ==
  /\ v \notin endorsed
  /\ approvals' = [approvals EXCEPT ![v] = @ \ {x}]
  /\ UNCHANGED <<phase, endorsed, threshold>>

Endorse(v) ==
  /\ phase[v] = "Candidate"
  /\ Cardinality(approvals[v]) >= threshold
  /\ endorsed' = endorsed \cup {v}
  /\ UNCHANGED <<phase, approvals, threshold>>

ChangeThreshold(t) ==
  /\ threshold' = t
  /\ UNCHANGED <<phase, approvals, endorsed>>

LifecycleNext ==
  \/ \E v \in Versions :
       \/ Publish(v) \/ Propose(v) \/ Release(v) \/ Reject(v) \/ Quarantine(v) \/ Revoke(v)
       \/ \E x \in Voters : Approve(v, x) \/ Withdraw(v, x)
       \/ Endorse(v)
  \/ \E t \in Thresholds : ChangeThreshold(t)

LifecycleSpec == LifecycleInit /\ [][LifecycleNext]_lifecycleVars
================================================================================
