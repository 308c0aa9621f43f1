--------------------------- MODULE DadiengValidation ---------------------------
(***************************************************************************)
(* The contract DadiengValidation: validator identities, attestations and  *)
(* their challenges, and the finalization that lets the registry promote.  *)
(* It reads the registry through getVersionValidationData and changes      *)
(* nothing there.                                                          *)
(***************************************************************************)
EXTENDS DadiengRegistry

CONSTANTS
  MAX_THRESHOLD,      \* largest threshold the administrator may set
  InitialThreshold    \* the constructor's argument

ASSUME ValidationAssumption ==
  /\ MAX_THRESHOLD \in Nat
  /\ InitialThreshold \in 1 .. MAX_THRESHOLD

VARIABLES
  validatorThreshold,
  validatorAgentIds,     \* validatorAgentIds[account]: the agent bound to it
  agentIdOwners,         \* agentIdOwners[agent]: the account bound to it
  validatorRole,         \* the accounts holding VALIDATOR_ROLE
  attestations,          \* _attestations[k][agent]
  passingAttestations    \* passingAttestations[k]

identityVars == <<validatorAgentIds, agentIdOwners, validatorRole>>
validationVars ==
  <<validatorThreshold, identityVars, attestations, passingAttestations, isValidationFinal>>

\* submitted stands for createdAt # 0.  sender is the account that signed the
\* transaction: the chain records it, the contract's storage does not.
Attestation ==
  [submitted : BOOLEAN, passed : BOOLEAN, challenged : BOOLEAN,
   sender : Accounts \cup {NoAccount}]

NoAttestation ==
  [submitted |-> FALSE, passed |-> FALSE, challenged |-> FALSE, sender |-> NoAccount]

ValidationInit ==
  /\ validatorThreshold = InitialThreshold
  /\ validatorAgentIds = [v \in Accounts |-> NoAgent]
  /\ agentIdOwners = [a \in Agents |-> NoAccount]
  /\ validatorRole = {}
  /\ attestations = [k \in VersionKeys |-> [a \in Agents |-> NoAttestation]]
  /\ passingAttestations = [k \in VersionKeys |-> 0]
  /\ isValidationFinal = [k \in VersionKeys |-> FALSE]

(***************************************************************************)
(* The transactions.                                                       *)
(***************************************************************************)

\* setValidatorIdentity(validator, agent, true)
bindIdentity(validator, agent) ==
  /\ agentIdOwners[agent] \in {NoAccount, validator}
  /\ validatorAgentIds[validator] \in {NoAgent, agent}
  /\ validatorAgentIds' = [validatorAgentIds EXCEPT ![validator] = agent]
  /\ agentIdOwners' = [agentIdOwners EXCEPT ![agent] = validator]
  /\ validatorRole' = validatorRole \cup {validator}
  /\ UNCHANGED <<validatorThreshold, attestations, passingAttestations, isValidationFinal>>

\* setValidatorIdentity(validator, agent, false)
unbindIdentity(validator, agent) ==
  /\ validatorAgentIds[validator] = agent
  /\ agentIdOwners[agent] = validator
  /\ validatorAgentIds' = [validatorAgentIds EXCEPT ![validator] = NoAgent]
  /\ agentIdOwners' = [agentIdOwners EXCEPT ![agent] = NoAccount]
  /\ validatorRole' = validatorRole \ {validator}
  /\ UNCHANGED <<validatorThreshold, attestations, passingAttestations, isValidationFinal>>

setValidatorThreshold(newThreshold) ==
  /\ newThreshold \in 1 .. MAX_THRESHOLD
  /\ validatorThreshold' = newThreshold
  /\ UNCHANGED <<identityVars, attestations, passingAttestations, isValidationFinal>>

\* The author registered for the defense of version k.
author(k) == defenses[versions[k].defenseId].author

\* Mutant: only the address is compared with the author's.
independentAddress(caller, agent, k) == caller # author(k)

independent(caller, agent, k) == caller # author(k) /\ agent # versions[k].authorAgentId

attested(k, agent) == attestations[k][agent].submitted

submitAttestation(caller, k, passed) ==
  LET agent == validatorAgentIds[caller] IN
  /\ caller \in validatorRole
  /\ ~ isValidationFinal[k]
  /\ agent # NoAgent /\ agentIdOwners[agent] = caller
  /\ status(k) = "Candidate"
  /\ independent(caller, agent, k)
  /\ ~ attested(k, agent)
  /\ attestations' = [attestations EXCEPT ![k][agent] =
       [submitted |-> TRUE, passed |-> passed, challenged |-> FALSE, sender |-> caller]]
  /\ passingAttestations' =
       IF passed THEN [passingAttestations EXCEPT ![k] = @ + 1] ELSE passingAttestations
  /\ UNCHANGED <<validatorThreshold, identityVars, isValidationFinal>>

\* Mutant: a challenge may come after the finalization.
challengeableLate(k, agent) ==
  attestations[k][agent].submitted /\ ~ attestations[k][agent].challenged

challengeable(k, agent) ==
  /\ ~ isValidationFinal[k]
  /\ attestations[k][agent].submitted
  /\ ~ attestations[k][agent].challenged

\* Mutant: a failed attestation is taken off the count as well.
standingAfterAny(k, agent) == passingAttestations[k] - 1

standingAfterChallenge(k, agent) ==
  IF attestations[k][agent].passed THEN passingAttestations[k] - 1 ELSE passingAttestations[k]

challengeAttestation(k, agent) ==
  /\ challengeable(k, agent)
  /\ attestations' = [attestations EXCEPT ![k][agent].challenged = TRUE]
  /\ passingAttestations' = [passingAttestations EXCEPT ![k] = standingAfterChallenge(k, agent)]
  /\ UNCHANGED <<validatorThreshold, identityVars, isValidationFinal>>

\* Mutant: one approval short of the threshold is enough.
quorumReachedEarly(k) == passingAttestations[k] + 1 >= validatorThreshold

quorumReached(k) == passingAttestations[k] >= validatorThreshold

finalizeValidation(k) ==
  /\ ~ isValidationFinal[k]
  /\ status(k) = "Candidate"
  /\ quorumReached(k)
  /\ isValidationFinal' = [isValidationFinal EXCEPT ![k] = TRUE]
  /\ UNCHANGED <<validatorThreshold, identityVars, attestations, passingAttestations>>

ValidationTransaction ==
  \/ \E v \in Accounts, a \in Agents : bindIdentity(v, a) \/ unbindIdentity(v, a)
  \/ \E t \in 1 .. MAX_THRESHOLD : setValidatorThreshold(t)
  \/ \E c \in Accounts, k \in VersionKeys, p \in BOOLEAN : submitAttestation(c, k, p)
  \/ \E k \in VersionKeys, a \in Agents : challengeAttestation(k, a)
  \/ \E k \in VersionKeys : finalizeValidation(k)

(***************************************************************************)
(* The registry and the validation contract together.                      *)
(***************************************************************************)
releaseVars == <<registryVars, validationVars, now>>

ReleaseInit == RegistryInit /\ ValidationInit

ReleaseNext ==
  \/ RegistryTransaction /\ UNCHANGED <<validationVars, now>>
  \/ ValidationTransaction /\ UNCHANGED <<registryVars, now>>
  \/ Tick /\ UNCHANGED validationVars

ReleaseSpec == ReleaseInit /\ [][ReleaseNext]_releaseVars

(***************************************************************************)
(* Properties.                                                             *)
(***************************************************************************)
\* The storage of the validation contract has the declared types.
ValidationTypeOK ==
  /\ validatorThreshold \in 1 .. MAX_THRESHOLD
  /\ validatorAgentIds \in [Accounts -> Agents \cup {NoAgent}]
  /\ agentIdOwners \in [Agents -> Accounts \cup {NoAccount}]
  /\ validatorRole \subseteq Accounts
  /\ attestations \in [VersionKeys -> [Agents -> Attestation]]
  /\ passingAttestations \in [VersionKeys -> Nat]
  /\ isValidationFinal \in [VersionKeys -> BOOLEAN]

\* The agents that stand behind version k: passed, and nobody challenged it.
Approvals(k) ==
  {a \in Agents : LET t == attestations[k][a] IN t.submitted /\ t.passed /\ ~ t.challenged}

\* The counter the threshold is compared with is the number of agents whose
\* passing attestation stands: challenges and failed replays are never in it.
CountIsApprovals ==
  \A k \in VersionKeys : passingAttestations[k] = Cardinality(Approvals(k))

\* docs/architecture/0009: "An author address or its agent identity cannot
\* contribute to its own threshold", whatever identities were bound since.
NoSelfApproval ==
  \A k \in VersionKeys, a \in Agents : attestations[k][a].submitted =>
    /\ status(k) \notin {"None", "Draft"}
    /\ a # versions[k].authorAgentId
    /\ attestations[k][a].sender # author(k)

\* docs/architecture/0009: "A stable release requires a finalized
\* independent-validator threshold": some unchallenged approval by somebody
\* other than the author stands behind every stable version, for good.
StableIsValidated ==
  \A k \in VersionKeys : status(k) = "Stable" =>
    isValidationFinal[k] /\ Approvals(k) # {}

\* Finalization is a decision of a quorum and it is not revisited: it is taken
\* on a candidate with at least validatorThreshold standing approvals, never
\* undone, and freezes the attestations it was taken on.
FinalizationIsFinal ==
  [][\A k \in VersionKeys :
       /\ isValidationFinal[k] =>
            isValidationFinal'[k] /\ attestations'[k] = attestations[k]
       /\ ~ isValidationFinal[k] /\ isValidationFinal'[k] =>
            /\ status(k) = "Candidate"
            /\ Cardinality(Approvals(k)) >= validatorThreshold]_releaseVars

(***************************************************************************)
(* The contracts implement the lifecycle they promise, the approvals being *)
(* the standing passing attestations: wherever the code compares a counter *)
(* the promise speaks of a set of agents.                                  *)
(***************************************************************************)
Lifecycle == INSTANCE ReleaseLifecycle WITH
  Versions <- VersionKeys,
  Voters <- Agents,
  Thresholds <- 1 .. MAX_THRESHOLD,
  phase <- [k \in VersionKeys |-> status(k)],
  approvals <- [k \in VersionKeys |-> Approvals(k)],
  endorsed <- {k \in VersionKeys : isValidationFinal[k]},
  threshold <- validatorThreshold

ImplementsLifecycle == Lifecycle!LifecycleSpec
================================================================================
