---------------------------- MODULE ContractProofs ----------------------------
(***************************************************************************)
(* The contracts, for any defenses, accounts, agents, epochs, amounts and  *)
(* thresholds.  The registry and the validation contract keep their types, *)
(* count approvals right, release only what independent validators         *)
(* endorsed, and implement the lifecycle of ReleaseLifecycle; usage and    *)
(* rewards rest on what they released, and the rewards contract can pay    *)
(* what it owes.                                                           *)
(***************************************************************************)
EXTENDS TrustContracts, FiniteSetTheorems, TLAPS

(***************************************************************************)
(* Registry and validation.                                                *)
(***************************************************************************)
Types == RegistryTypeOK /\ ValidationTypeOK

\* A finalized version was proposed and somebody stands behind it.
EndorsedSound ==
  \A k \in VersionKeys :
    /\ isValidationFinal[k] => status(k) \notin {"None", "Draft"} /\ Approvals(k) # {}
    /\ status(k) = "Stable" => isValidationFinal[k]

ReleaseInv ==
  Types /\ CountIsApprovals /\ VersionsBoundToAuthor /\ NoSelfApproval /\ EndorsedSound

(***************************************************************************)
(* Types.                                                                  *)
(***************************************************************************)
\* A transaction of the registry that writes the version at one key.
LEMMA StatusWritten ==
  ASSUME RegistryTypeOK, NEW k \in VersionKeys, NEW s \in DefenseStatus, changeStatus(k, s)
  PROVE  /\ versions' \in [VersionKeys -> DefenseVersion]
         /\ versions'[k].status = s
         /\ \A j \in VersionKeys : j # k => versions'[j] = versions[j]
         /\ \A j \in VersionKeys :
              /\ versions'[j].defenseId = versions[j].defenseId
              /\ versions'[j].authorAgentId = versions[j].authorAgentId
BY DEF RegistryTypeOK, changeStatus, DefenseVersion

\* What the guardian may store is a pause state.
LEMMA PauseInputs ==
  ASSUME now \in Nat, NEW p \in PauseInput
  PROVE  p \in PauseState
<1>1. CASE p = NotPaused
  BY <1>1 DEF PauseState, NotPaused
<1>2. CASE p # NotPaused
  <2>1. PICK t \in {0} \cup ((now + 1) .. (MaxTime + 1)) : p = [paused |-> TRUE, expiresAt |-> t]
    BY <1>2 DEF PauseInput
  <2>2. t \in Nat
    BY RegistryAssumption
  <2>. QED
    BY <2>1, <2>2 DEF PauseState
<1>. QED
  BY <1>1, <1>2

\* Every transaction of the registry keeps the types.
LEMMA RegistryTypes ==
  ASSUME RegistryTypeOK, RegistryTransaction, UNCHANGED <<isValidationFinal, now>>
  PROVE  RegistryTypeOK'
<1>. USE DEF RegistryTypeOK
<1>1. CASE setValidationRegistry
  BY <1>1 DEF setValidationRegistry
<1>2. ASSUME NEW c \in Accounts, NEW d \in Defenses, NEW a \in Agents, registerDefense(c, d, a)
      PROVE  RegistryTypeOK'
  BY <1>2 DEF registerDefense, Defense
<1>3. ASSUME NEW c \in Accounts, NEW d \in Defenses, NEW n \in Numbers, NEW h \in Hashes,
             NEW s \in VersionKeys \cup {NoKey}, publishVersion(c, d, n, h, s)
      PROVE  RegistryTypeOK'
  BY <1>3 DEF publishVersion, VersionKeys, versionKey, DefenseVersion, DefenseStatus, Defense
<1>4. ASSUME NEW c \in Accounts, NEW k \in VersionKeys, NEW h \in Hashes, publishReplayBundle(c, k, h)
      PROVE  RegistryTypeOK'
  <2>. DEFINE new == [versions[k] EXCEPT !.replayReportHash = h, !.status = "Candidate"]
  <2>1. new \in DefenseVersion
    BY DEF DefenseVersion, DefenseStatus
  <2>2. versions' = [versions EXCEPT ![k] = new]
    BY <1>4 DEF publishReplayBundle
  <2>3. versions' \in [VersionKeys -> DefenseVersion]
    BY <2>1, <2>2
  <2>. QED
    BY <1>4, <2>3 DEF publishReplayBundle
<1>5. ASSUME NEW k \in VersionKeys, NEW s \in DefenseStatus, changeStatus(k, s)
      PROVE  RegistryTypeOK'
  BY <1>5, StatusWritten DEF changeStatus
<1>6. ASSUME NEW r \in Receipts, publishReceipt(r)
      PROVE  RegistryTypeOK'
  BY <1>6 DEF publishReceipt, ThreatReceipt, ReceiptResolution
<1>7. ASSUME NEW r \in Receipts, NEW k \in VersionKeys, linkDefense(r, k)
      PROVE  RegistryTypeOK'
  BY <1>7 DEF linkDefense, ThreatReceipt, ReceiptResolution
<1>8. ASSUME NEW r \in Receipts, NEW s \in ReceiptResolution, updateResolution(r, s)
      PROVE  RegistryTypeOK'
  BY <1>8 DEF updateResolution, ThreatReceipt, ReceiptResolution
<1>9. ASSUME NEW s \in RegistryScopes, NEW p \in PauseInput, setProtocolPause(s, p)
      PROVE  RegistryTypeOK'
  <2>1. p \in PauseState
    BY PauseInputs DEF RegistryTypeOK
  <2>. QED
    BY <1>9, <2>1 DEF setProtocolPause
<1>. QED
  BY <1>1, <1>2, <1>3, <1>4, <1>5, <1>6, <1>7, <1>8, <1>9
    DEF RegistryTransaction, promoteVersion, rejectVersion, quarantineVersion, revokeVersion,
        DefenseStatus

(***************************************************************************)
(* Approvals: the set the counter counts.                                  *)
(***************************************************************************)
\* What submitAttestation does to the table and to the sets of approvals.
LEMMA AttestationSubmitted ==
  ASSUME ValidationTypeOK, NEW c \in Accounts, NEW k \in VersionKeys, NEW p \in BOOLEAN,
         submitAttestation(c, k, p)
  PROVE  LET agent == validatorAgentIds[c] IN
         /\ agent \in Agents /\ ~ attestations[k][agent].submitted
         /\ attestations' \in [VersionKeys -> [Agents -> Attestation]]
         /\ attestations'[k][agent] =
              [submitted |-> TRUE, passed |-> p, challenged |-> FALSE, sender |-> c]
         /\ \A j \in VersionKeys, a \in Agents :
              ~ (j = k /\ a = agent) => attestations'[j][a] = attestations[j][a]
         /\ \A j \in VersionKeys : j # k => Approvals(j)' = Approvals(j)
         /\ Approvals(k)' = IF p THEN Approvals(k) \cup {agent} ELSE Approvals(k)
         /\ agent \notin Approvals(k)
<1>. DEFINE agent == validatorAgentIds[c]
<1>1. agent \in Agents /\ ~ attestations[k][agent].submitted
  BY DEF submitAttestation, attested, ValidationTypeOK
<1>. DEFINE new == [submitted |-> TRUE, passed |-> p, challenged |-> FALSE, sender |-> c]
<1>3. new \in Attestation
  BY DEF Attestation
<1>4. attestations' = [attestations EXCEPT ![k] = [attestations[k] EXCEPT ![agent] = new]]
  BY DEF submitAttestation
<1>5. /\ attestations' \in [VersionKeys -> [Agents -> Attestation]]
      /\ attestations'[k][agent] = new
      /\ \A j \in VersionKeys, a \in Agents :
           ~ (j = k /\ a = agent) => attestations'[j][a] = attestations[j][a]
  BY <1>1, <1>3, <1>4 DEF ValidationTypeOK
<1>6. \A j \in VersionKeys : j # k => Approvals(j)' = Approvals(j)
  BY <1>5 DEF Approvals
<1>7. Approvals(k)' = IF p THEN Approvals(k) \cup {agent} ELSE Approvals(k)
  BY <1>1, <1>5 DEF Approvals
<1>. QED
  BY <1>1, <1>5, <1>6, <1>7 DEF Approvals

\* What challengeAttestation does to them.
LEMMA AttestationChallenged ==
  ASSUME ValidationTypeOK, NEW k \in VersionKeys, NEW agent \in Agents,
         challengeAttestation(k, agent)
  PROVE  /\ attestations' \in [VersionKeys -> [Agents -> Attestation]]
         /\ \A j \in VersionKeys, a \in Agents :
              /\ attestations'[j][a].submitted = attestations[j][a].submitted
              /\ attestations'[j][a].sender = attestations[j][a].sender
         /\ \A j \in VersionKeys : j # k =>
              attestations'[j] = attestations[j] /\ Approvals(j)' = Approvals(j)
         /\ Approvals(k)' = Approvals(k) \ {agent}
         /\ agent \in Approvals(k) <=> attestations[k][agent].passed
<1>. DEFINE new == [attestations[k][agent] EXCEPT !.challenged = TRUE]
<1>1. attestations[k][agent] \in Attestation /\ new \in Attestation
  <2>1. attestations[k][agent] \in Attestation
    BY DEF ValidationTypeOK
  <2>. QED
    BY <2>1 DEF Attestation
<1>2. attestations' = [attestations EXCEPT ![k] = [attestations[k] EXCEPT ![agent] = new]]
  BY DEF challengeAttestation
<1>3. /\ attestations' \in [VersionKeys -> [Agents -> Attestation]]
      /\ attestations'[k][agent] = new
      /\ \A j \in VersionKeys, a \in Agents :
           ~ (j = k /\ a = agent) => attestations'[j][a] = attestations[j][a]
      /\ \A j \in VersionKeys : j # k => attestations'[j] = attestations[j]
  BY <1>1, <1>2 DEF ValidationTypeOK
<1>4. new.submitted = attestations[k][agent].submitted /\ new.sender = attestations[k][agent].sender
      /\ new.challenged
  BY <1>1 DEF Attestation
<1>5. \A j \in VersionKeys : j # k => Approvals(j)' = Approvals(j)
  BY <1>3 DEF Approvals
<1>6. Approvals(k)' = Approvals(k) \ {agent}
  <2>1. agent \notin Approvals(k)'
    BY <1>3, <1>4 DEF Approvals
  <2>2. \A a \in Agents \ {agent} : a \in Approvals(k)' <=> a \in Approvals(k)
    BY <1>3 DEF Approvals
  <2>. QED
    BY <2>1, <2>2 DEF Approvals
<1>7. agent \in Approvals(k) <=> attestations[k][agent].passed
  BY DEF challengeAttestation, challengeable, Approvals
<1>. QED
  BY <1>3, <1>4, <1>5, <1>6, <1>7

(***************************************************************************)
(* The counter and the types of the validation contract.                   *)
(***************************************************************************)
LEMMA ApprovalsFinite ==
  ASSUME NEW k PROVE IsFiniteSet(Approvals(k)) /\ Cardinality(Approvals(k)) \in Nat
BY RegistryAssumption, FS_Subset, FS_CardinalityType DEF Approvals

\* Every transaction of the validation contract keeps its types and the counter exact.
LEMMA ValidationStep ==
  ASSUME ValidationTypeOK, CountIsApprovals, ValidationTransaction
  PROVE  ValidationTypeOK' /\ CountIsApprovals'
<1>1. ASSUME NEW v \in Accounts, NEW a \in Agents, bindIdentity(v, a) \/ unbindIdentity(v, a)
      PROVE  ValidationTypeOK' /\ CountIsApprovals'
  BY <1>1 DEF bindIdentity, unbindIdentity, ValidationTypeOK, CountIsApprovals, Approvals
<1>2. ASSUME NEW t \in 1 .. MAX_THRESHOLD, setValidatorThreshold(t)
      PROVE  ValidationTypeOK' /\ CountIsApprovals'
  BY <1>2 DEF setValidatorThreshold, identityVars, ValidationTypeOK, CountIsApprovals, Approvals
<1>3. ASSUME NEW c \in Accounts, NEW k \in VersionKeys, NEW p \in BOOLEAN, submitAttestation(c, k, p)
      PROVE  ValidationTypeOK' /\ CountIsApprovals'
  <2>. DEFINE agent == validatorAgentIds[c]
  <2>1. /\ attestations' \in [VersionKeys -> [Agents -> Attestation]]
        /\ \A j \in VersionKeys : j # k => Approvals(j)' = Approvals(j)
        /\ Approvals(k)' = IF p THEN Approvals(k) \cup {agent} ELSE Approvals(k)
        /\ agent \notin Approvals(k)
    BY <1>3, AttestationSubmitted
  <2>2. passingAttestations' =
          IF p THEN [passingAttestations EXCEPT ![k] = @ + 1] ELSE passingAttestations
    BY <1>3 DEF submitAttestation
  <2>3. Cardinality(Approvals(k) \cup {agent}) = Cardinality(Approvals(k)) + 1
    BY <2>1, ApprovalsFinite, FS_AddElement
  <2>4. passingAttestations' \in [VersionKeys -> Nat]
    BY <2>2 DEF ValidationTypeOK
  <2>5. CountIsApprovals'
    <3>1. passingAttestations'[k] = Cardinality(Approvals(k)')
      <4>1. CASE p
        BY <2>1, <2>2, <2>3, <4>1 DEF CountIsApprovals, ValidationTypeOK
      <4>2. CASE ~ p
        BY <2>1, <2>2, <4>2 DEF CountIsApprovals
      <4>. QED
        BY <4>1, <4>2
    <3>2. \A j \in VersionKeys : j # k => passingAttestations'[j] = passingAttestations[j]
      BY <2>2 DEF ValidationTypeOK
    <3>. QED
      BY <2>1, <3>1, <3>2 DEF CountIsApprovals
  <2>. QED
    BY <1>3, <2>1, <2>4, <2>5 DEF submitAttestation, identityVars, ValidationTypeOK
<1>4. ASSUME NEW k \in VersionKeys, NEW a \in Agents, challengeAttestation(k, a)
      PROVE  ValidationTypeOK' /\ CountIsApprovals'
  <2>1. /\ attestations' \in [VersionKeys -> [Agents -> Attestation]]
        /\ \A j \in VersionKeys : j # k => Approvals(j)' = Approvals(j)
        /\ Approvals(k)' = Approvals(k) \ {a}
        /\ a \in Approvals(k) <=> attestations[k][a].passed
    BY <1>4, AttestationChallenged
  <2>2. Cardinality(Approvals(k) \ {a}) =
          IF a \in Approvals(k) THEN Cardinality(Approvals(k)) - 1 ELSE Cardinality(Approvals(k))
    BY ApprovalsFinite, FS_RemoveElement
  <2>3. standingAfterChallenge(k, a) = Cardinality(Approvals(k) \ {a})
    BY <2>1, <2>2 DEF standingAfterChallenge, CountIsApprovals
  <2>4. Cardinality(Approvals(k) \ {a}) \in Nat
    BY ApprovalsFinite, FS_RemoveElement, FS_CardinalityType
  <2>5. passingAttestations' = [passingAttestations EXCEPT ![k] = Cardinality(Approvals(k) \ {a})]
    BY <1>4, <2>3 DEF challengeAttestation
  <2>6. passingAttestations' \in [VersionKeys -> Nat]
    BY <2>4, <2>5 DEF ValidationTypeOK
  <2>7. CountIsApprovals'
    BY <2>1, <2>5 DEF CountIsApprovals, ValidationTypeOK
  <2>. QED
    BY <1>4, <2>1, <2>6, <2>7 DEF challengeAttestation, identityVars, ValidationTypeOK
<1>5. ASSUME NEW k \in VersionKeys, finalizeValidation(k)
      PROVE  ValidationTypeOK' /\ CountIsApprovals'
  BY <1>5 DEF finalizeValidation, identityVars, ValidationTypeOK, CountIsApprovals, Approvals
<1>. QED
  BY <1>1, <1>2, <1>3, <1>4, <1>5 DEF ValidationTransaction

(***************************************************************************)
(* What a transaction of the registry does to the versions.                *)
(***************************************************************************)
\* It moves at most one version, along the lifecycle, and to Stable only when
\* the validation contract said final; what names the author stays.
Moved(k) ==
  /\ \A j \in VersionKeys : j # k => versions'[j] = versions[j]
  /\ <<status(k), versions'[k].status>> \in LifecycleMoves
  /\ versions'[k].status = "Stable" => isValidationFinal[k]

\* A transaction of the registry moves one version along its lifecycle, or none.
LEMMA RegistryMoves ==
  ASSUME RegistryTypeOK, RegistryTransaction
  PROVE  versions' = versions \/ \E k \in VersionKeys : Moved(k)
<1>. USE DEF RegistryTypeOK
<1>1. ASSUME NEW c \in Accounts, NEW d \in Defenses, NEW n \in Numbers, NEW h \in Hashes,
             NEW s \in VersionKeys \cup {NoKey}, publishVersion(c, d, n, h, s)
      PROVE  Moved(versionKey(d, n)) /\ versionKey(d, n) \in VersionKeys
  BY <1>1 DEF publishVersion, VersionKeys, versionKey, Moved, LifecycleMoves, status
<1>2. ASSUME NEW c \in Accounts, NEW k \in VersionKeys, NEW h \in Hashes, publishReplayBundle(c, k, h)
      PROVE  Moved(k)
  <2>. DEFINE new == [versions[k] EXCEPT !.replayReportHash = h, !.status = "Candidate"]
  <2>1. new.status = "Candidate"
    BY DEF DefenseVersion
  <2>2. versions' = [versions EXCEPT ![k] = new]
    BY <1>2 DEF publishReplayBundle
  <2>. QED
    BY <1>2, <2>1, <2>2 DEF publishReplayBundle, Moved, LifecycleMoves, status
<1>3. ASSUME NEW k \in VersionKeys, NEW s \in DefenseStatus, changeStatus(k, s),
             <<status(k), s>> \in LifecycleMoves, s = "Stable" => isValidationFinal[k]
      PROVE  Moved(k)
  BY <1>3, StatusWritten DEF Moved
<1>4. ASSUME NEW k \in VersionKeys, promoteVersion(k)
      PROVE  Moved(k)
  BY <1>3, <1>4 DEF promoteVersion, LifecycleMoves, DefenseStatus
<1>5. ASSUME NEW k \in VersionKeys, rejectVersion(k)
      PROVE  Moved(k)
  BY <1>3, <1>5 DEF rejectVersion, LifecycleMoves, DefenseStatus
<1>6. ASSUME NEW k \in VersionKeys, NEW s \in VersionKeys \cup {NoKey},
             quarantineVersion(k, s) \/ revokeVersion(k, s)
      PROVE  Moved(k)
  BY <1>3, <1>6 DEF quarantineVersion, revokeVersion, LifecycleMoves, DefenseStatus
<1>. QED
  BY <1>1, <1>2, <1>4, <1>5, <1>6
    DEF RegistryTransaction, setValidationRegistry, registerDefense, publishReceipt, linkDefense,
        updateResolution, setProtocolPause

\* The author of a published version is fixed.
LEMMA AuthorKept ==
  ASSUME RegistryTypeOK, VersionsBoundToAuthor, RegistryTransaction
  PROVE  /\ VersionsBoundToAuthor'
         /\ \A k \in VersionKeys : status(k) # "None" =>
              /\ author(k)' = author(k)
              /\ versions'[k].authorAgentId = versions[k].authorAgentId
<1>. USE DEF RegistryTypeOK
<1>1. CASE versions' = versions /\ defenses' = defenses
  BY <1>1 DEF VersionsBoundToAuthor, status, author
<1>2. ASSUME NEW c \in Accounts, NEW d \in Defenses, NEW a \in Agents, registerDefense(c, d, a)
      PROVE  /\ VersionsBoundToAuthor'
             /\ \A k \in VersionKeys : status(k) # "None" =>
                  author(k)' = author(k) /\ versions'[k].authorAgentId = versions[k].authorAgentId
  <2>1. defenses[d].author \notin Authors
    BY <1>2, RegistryAssumption DEF registerDefense, ZeroDefense
  <2>2. \A e \in Defenses : e # d => defenses'[e] = defenses[e]
    BY <1>2 DEF registerDefense
  <2>3. versions' = versions
    BY <1>2 DEF registerDefense
  <2>4. \A k \in VersionKeys : status(k) # "None" =>
          versions[k].defenseId = k[1] /\ k[1] \in Defenses /\ k[1] # d
    BY <2>1 DEF VersionsBoundToAuthor, VersionKeys
  <2>. QED
    BY <2>2, <2>3, <2>4 DEF VersionsBoundToAuthor, status, author
<1>3. ASSUME NEW c \in Accounts, NEW d \in Defenses, NEW n \in Numbers, NEW h \in Hashes,
             NEW s \in VersionKeys \cup {NoKey}, publishVersion(c, d, n, h, s)
      PROVE  /\ VersionsBoundToAuthor'
             /\ \A k \in VersionKeys : status(k) # "None" =>
                  author(k)' = author(k) /\ versions'[k].authorAgentId = versions[k].authorAgentId
  <2>. DEFINE key == <<d, n>>
  <2>1. key \in VersionKeys /\ key[1] = d /\ status(key) = "None" /\ defenses' = defenses
    BY <1>3 DEF publishVersion, VersionKeys, versionKey
  <2>2. /\ versions'[key].defenseId = d
        /\ versions'[key].authorAgentId = defenses[d].authorAgentId
        /\ defenses[d].author \in Authors
        /\ \A k \in VersionKeys : k # key => versions'[k] = versions[k]
    BY <1>3, <2>1 DEF publishVersion, versionKey
  <2>. QED
    BY <2>1, <2>2 DEF VersionsBoundToAuthor, status, author
<1>4. ASSUME NEW k \in VersionKeys, NEW new, status(k) # "None",
             new.defenseId = versions[k].defenseId, new.authorAgentId = versions[k].authorAgentId,
             versions' = [versions EXCEPT ![k] = new], defenses' = defenses
      PROVE  /\ VersionsBoundToAuthor'
             /\ \A j \in VersionKeys : status(j) # "None" =>
                  author(j)' = author(j) /\ versions'[j].authorAgentId = versions[j].authorAgentId
  BY <1>4 DEF VersionsBoundToAuthor, status, author
<1>5. ASSUME NEW c \in Accounts, NEW k \in VersionKeys, NEW h \in Hashes, publishReplayBundle(c, k, h)
      PROVE  /\ VersionsBoundToAuthor'
             /\ \A j \in VersionKeys : status(j) # "None" =>
                  author(j)' = author(j) /\ versions'[j].authorAgentId = versions[j].authorAgentId
  <2>. DEFINE new == [versions[k] EXCEPT !.replayReportHash = h, !.status = "Candidate"]
  <2>1. new.defenseId = versions[k].defenseId /\ new.authorAgentId = versions[k].authorAgentId
    BY DEF DefenseVersion
  <2>2. versions' = [versions EXCEPT ![k] = new] /\ defenses' = defenses /\ status(k) # "None"
    BY <1>5 DEF publishReplayBundle
  <2>. QED
    BY <1>4, <2>1, <2>2
<1>6. ASSUME NEW k \in VersionKeys, NEW s \in DefenseStatus, changeStatus(k, s), status(k) # "None"
      PROVE  /\ VersionsBoundToAuthor'
             /\ \A j \in VersionKeys : status(j) # "None" =>
                  author(j)' = author(j) /\ versions'[j].authorAgentId = versions[j].authorAgentId
  BY <1>6, StatusWritten DEF changeStatus, VersionsBoundToAuthor, status, author
<1>. QED
  BY <1>1, <1>2, <1>3, <1>5, <1>6
    DEF RegistryTransaction, setValidationRegistry, publishReceipt, linkDefense, updateResolution,
        setProtocolPause, promoteVersion, rejectVersion, quarantineVersion, revokeVersion,
        DefenseStatus

(***************************************************************************)
(* The inductive invariant.                                                *)
(***************************************************************************)
LEMMA ReleaseInitInv == ReleaseInit => ReleaseInv
<1>. SUFFICES ASSUME ReleaseInit PROVE ReleaseInv
  OBVIOUS
<1>1. RegistryTypeOK
  BY DEF ReleaseInit, RegistryInit, ValidationInit, RegistryTypeOK, Defense, DefenseVersion,
         ThreatReceipt, PauseState, ZeroDefense, ZeroVersion, ZeroReceipt, NotPaused,
         DefenseStatus, ReceiptResolution
<1>2. ValidationTypeOK
  BY ValidationAssumption DEF ReleaseInit, ValidationInit, ValidationTypeOK, Attestation, NoAttestation
<1>3. \A k \in VersionKeys : Approvals(k) = {} /\ status(k) = "None" /\ ~ isValidationFinal[k]
  BY DEF ReleaseInit, RegistryInit, ValidationInit, Approvals, NoAttestation, ZeroVersion, status
<1>4. \A k \in VersionKeys, a \in Agents : ~ attestations[k][a].submitted
  BY DEF ReleaseInit, ValidationInit, NoAttestation
<1>5. CountIsApprovals
  BY <1>3, FS_EmptySet DEF ReleaseInit, ValidationInit, CountIsApprovals
<1>. QED
  BY <1>1, <1>2, <1>3, <1>4, <1>5
    DEF ReleaseInv, Types, VersionsBoundToAuthor, NoSelfApproval, EndorsedSound

\* Every transaction of the registry keeps the invariant.
LEMMA RegistryInv ==
  ASSUME ReleaseInv, RegistryTransaction, UNCHANGED <<validationVars, now>>
  PROVE  ReleaseInv'
<1>. USE DEF ReleaseInv, Types
<1>1. UNCHANGED <<isValidationFinal, attestations, passingAttestations, now>>
  BY DEF validationVars
<1>2. \A k \in VersionKeys : Approvals(k)' = Approvals(k)
  BY <1>1 DEF Approvals
<1>3. Types' /\ CountIsApprovals'
  BY <1>1, <1>2, RegistryTypes DEF CountIsApprovals, ValidationTypeOK, validationVars, identityVars
<1>4. \A k \in VersionKeys :
        /\ status(k) \notin {"None", "Draft"} => versions'[k].status \notin {"None", "Draft"}
        /\ versions'[k].status = "Stable" => status(k) = "Stable" \/ isValidationFinal[k]
  BY RegistryMoves DEF Moved, LifecycleMoves, status
<1>5. EndorsedSound'
  BY <1>1, <1>2, <1>4 DEF EndorsedSound, status
<1>6. NoSelfApproval'
  <2>. SUFFICES ASSUME NEW k \in VersionKeys, NEW a \in Agents, attestations[k][a].submitted
                PROVE  /\ versions'[k].status \notin {"None", "Draft"}
                       /\ a # versions'[k].authorAgentId
                       /\ attestations[k][a].sender # author(k)'
    BY <1>1 DEF NoSelfApproval, status
  <2>1. status(k) \notin {"None", "Draft"} /\ a # versions[k].authorAgentId
        /\ attestations[k][a].sender # author(k)
    BY DEF NoSelfApproval
  <2>. QED
    BY <1>4, <2>1, AuthorKept
<1>. QED
  BY <1>3, <1>5, <1>6, AuthorKept

\* Every transaction of the validation contract keeps the invariant.
LEMMA ValidationInv ==
  ASSUME ReleaseInv, ValidationTransaction, UNCHANGED <<registryVars, now>>
  PROVE  ReleaseInv'
<1>. USE DEF ReleaseInv, Types
<1>1. ValidationTypeOK' /\ CountIsApprovals' /\ versions' = versions /\ defenses' = defenses
  BY ValidationStep DEF registryVars
<1>2. RegistryTypeOK' /\ VersionsBoundToAuthor'
  BY <1>1 DEF RegistryTypeOK, ValidationTypeOK, VersionsBoundToAuthor, registryVars, status
<1>3. ASSUME UNCHANGED <<attestations, isValidationFinal>>
      PROVE  NoSelfApproval' /\ EndorsedSound'
  BY <1>1, <1>3 DEF NoSelfApproval, EndorsedSound, status, author, Approvals
<1>4. ASSUME NEW c \in Accounts, NEW k \in VersionKeys, NEW p \in BOOLEAN, submitAttestation(c, k, p)
      PROVE  NoSelfApproval' /\ EndorsedSound'
  <2>. DEFINE agent == validatorAgentIds[c]
  <2>1. /\ attestations'[k][agent].sender = c
        /\ \A j \in VersionKeys, a \in Agents :
             ~ (j = k /\ a = agent) => attestations'[j][a] = attestations[j][a]
        /\ \A j \in VersionKeys : Approvals(j) \subseteq Approvals(j)'
    <3>1. /\ attestations'[k][agent] = [submitted |-> TRUE, passed |-> p, challenged |-> FALSE, sender |-> c]
          /\ \A j \in VersionKeys, a \in Agents :
               ~ (j = k /\ a = agent) => attestations'[j][a] = attestations[j][a]
          /\ \A j \in VersionKeys : j # k => Approvals(j)' = Approvals(j)
          /\ Approvals(k)' = IF p THEN Approvals(k) \cup {agent} ELSE Approvals(k)
      BY <1>4, AttestationSubmitted
    <3>2. attestations'[k][agent].sender = c
      BY <3>1
    <3>3. Approvals(k) \subseteq Approvals(k)'
      BY <3>1
    <3>. QED
      BY <3>1, <3>2, <3>3
  <2>2. /\ status(k) = "Candidate" /\ isValidationFinal' = isValidationFinal
        /\ c # author(k) /\ agent # versions[k].authorAgentId
    BY <1>4 DEF submitAttestation, independent
  <2>3. NoSelfApproval'
    <3>. SUFFICES ASSUME NEW j \in VersionKeys, NEW a \in Agents, attestations'[j][a].submitted
                  PROVE  /\ status(j) \notin {"None", "Draft"}
                         /\ a # versions[j].authorAgentId
                         /\ attestations'[j][a].sender # author(j)
      BY <1>1 DEF NoSelfApproval, status, author
    <3>1. CASE j = k /\ a = agent
      BY <2>1, <2>2, <3>1
    <3>2. CASE ~ (j = k /\ a = agent)
      BY <2>1, <3>2 DEF NoSelfApproval
    <3>. QED
      BY <3>1, <3>2
  <2>4. EndorsedSound'
    BY <1>1, <2>1, <2>2 DEF EndorsedSound, status
  <2>. QED
    BY <2>3, <2>4
<1>5. ASSUME NEW k \in VersionKeys, NEW a \in Agents, challengeAttestation(k, a)
      PROVE  NoSelfApproval' /\ EndorsedSound'
  <2>1. /\ \A j \in VersionKeys, b \in Agents :
             /\ attestations'[j][b].submitted = attestations[j][b].submitted
             /\ attestations'[j][b].sender = attestations[j][b].sender
        /\ \A j \in VersionKeys : j # k => Approvals(j)' = Approvals(j)
    BY <1>5, AttestationChallenged
  <2>2. ~ isValidationFinal[k] /\ isValidationFinal' = isValidationFinal
    BY <1>5 DEF challengeAttestation, challengeable
  <2>3. NoSelfApproval'
    BY <1>1, <2>1 DEF NoSelfApproval, status, author
  <2>4. EndorsedSound'
    BY <1>1, <2>1, <2>2 DEF EndorsedSound, status
  <2>. QED
    BY <2>3, <2>4
<1>6. ASSUME NEW k \in VersionKeys, finalizeValidation(k)
      PROVE  NoSelfApproval' /\ EndorsedSound'
  <2>1. /\ status(k) = "Candidate" /\ attestations' = attestations
        /\ isValidationFinal' = [isValidationFinal EXCEPT ![k] = TRUE]
    BY <1>6 DEF finalizeValidation
  <2>2. Cardinality(Approvals(k)) >= 1 /\ Approvals(k) # {}
    <3>1. Cardinality(Approvals(k)) >= validatorThreshold /\ validatorThreshold >= 1
      BY <1>6 DEF finalizeValidation, quorumReached, CountIsApprovals, ValidationTypeOK
    <3>. QED
      BY <3>1, ApprovalsFinite, FS_EmptySet DEF ValidationTypeOK
  <2>3. \A j \in VersionKeys : Approvals(j)' = Approvals(j)
    BY <2>1 DEF Approvals
  <2>. QED
    BY <1>1, <2>1, <2>2, <2>3
      DEF NoSelfApproval, EndorsedSound, status, author, ValidationTypeOK
<1>7. NoSelfApproval' /\ EndorsedSound'
  BY <1>3, <1>4, <1>5, <1>6
    DEF ValidationTransaction, bindIdentity, unbindIdentity, setValidatorThreshold
<1>. QED
  BY <1>1, <1>2, <1>7

\* Every step of the two contracts keeps the invariant.
LEMMA ReleaseStep == ReleaseInv /\ [ReleaseNext]_releaseVars => ReleaseInv'
<1>. SUFFICES ASSUME ReleaseInv, [ReleaseNext]_releaseVars PROVE ReleaseInv'
  OBVIOUS
<1>1. ASSUME UNCHANGED <<registryVars, validationVars>>, now' \in Nat
      PROVE  ReleaseInv'
  BY <1>1 DEF ReleaseInv, Types, RegistryTypeOK, ValidationTypeOK, CountIsApprovals,
              VersionsBoundToAuthor, NoSelfApproval, EndorsedSound, Approvals, status, author,
              registryVars, validationVars, identityVars
<1>2. CASE UNCHANGED releaseVars
  BY <1>1, <1>2 DEF releaseVars, ReleaseInv, Types, RegistryTypeOK
<1>3. CASE Tick /\ UNCHANGED validationVars
  BY <1>1, <1>3 DEF Tick, ReleaseInv, Types, RegistryTypeOK
<1>. QED
  BY <1>2, <1>3, RegistryInv, ValidationInv DEF ReleaseNext

(***************************************************************************)
(* The theorems.                                                           *)
(***************************************************************************)
\* Both contracts keep their types.
THEOREM ReleaseTypes == ReleaseSpec => [](RegistryTypeOK /\ ValidationTypeOK)
<1>1. ReleaseInv => RegistryTypeOK /\ ValidationTypeOK
  BY DEF ReleaseInv, Types
<1>. QED
  BY ReleaseInitInv, ReleaseStep, <1>1, PTL DEF ReleaseSpec

\* The counter compared with the threshold is the number of agents whose
\* passing attestation nobody challenged.
THEOREM CounterIsExact == ReleaseSpec => []CountIsApprovals
<1>1. ReleaseInv => CountIsApprovals
  BY DEF ReleaseInv
<1>. QED
  BY ReleaseInitInv, ReleaseStep, <1>1, PTL DEF ReleaseSpec

\* A version's author and agent are those of the registration, for good.
THEOREM AuthorIsFixed == ReleaseSpec => []VersionsBoundToAuthor
<1>1. ReleaseInv => VersionsBoundToAuthor
  BY DEF ReleaseInv
<1>. QED
  BY ReleaseInitInv, ReleaseStep, <1>1, PTL DEF ReleaseSpec

\* No attestation on a version comes from its author's account or agent.
THEOREM ApprovalsAreIndependent == ReleaseSpec => []NoSelfApproval
<1>1. ReleaseInv => NoSelfApproval
  BY DEF ReleaseInv
<1>. QED
  BY ReleaseInitInv, ReleaseStep, <1>1, PTL DEF ReleaseSpec

\* Whatever is stable was finalized, with an approval that still stands.
THEOREM StableVersionsAreValidated == ReleaseSpec => []StableIsValidated
<1>1. ReleaseInv => StableIsValidated
  BY DEF ReleaseInv, EndorsedSound, StableIsValidated
<1>. QED
  BY ReleaseInitInv, ReleaseStep, <1>1, PTL DEF ReleaseSpec

(***************************************************************************)
(* The contracts implement the lifecycle.                                  *)
(***************************************************************************)
LEMMA LifecycleInitial == ReleaseInit => Lifecycle!LifecycleInit
<1>. SUFFICES ASSUME ReleaseInit PROVE Lifecycle!LifecycleInit
  OBVIOUS
<1>1. \A k \in VersionKeys : status(k) = "None" /\ Approvals(k) = {} /\ ~ isValidationFinal[k]
  BY DEF ReleaseInit, RegistryInit, ValidationInit, Approvals, NoAttestation, ZeroVersion, status
<1>2. validatorThreshold \in 1 .. MAX_THRESHOLD
  BY ValidationAssumption DEF ReleaseInit, ValidationInit
<1>. QED
  BY <1>1, <1>2 DEF Lifecycle!LifecycleInit

\* A transaction of the registry moves one phase, or none.
LEMMA RegistryImplements ==
  ASSUME ReleaseInv, RegistryTransaction, UNCHANGED <<validationVars, now>>
  PROVE  [Lifecycle!LifecycleNext]_(Lifecycle!lifecycleVars)
<1>. DEFINE phase == [k \in VersionKeys |-> status(k)]
            approvals == [k \in VersionKeys |-> Approvals(k)]
            endorsed == {k \in VersionKeys : isValidationFinal[k]}
<1>1. approvals' = approvals /\ endorsed' = endorsed /\ validatorThreshold' = validatorThreshold
  BY DEF validationVars, Approvals
<1>2. CASE versions' = versions
  BY <1>1, <1>2 DEF Lifecycle!lifecycleVars, status
<1>3. ASSUME NEW k \in VersionKeys, Moved(k)
      PROVE  Lifecycle!LifecycleNext
  <2>. DEFINE to == versions'[k].status
  <2>1. phase' = [phase EXCEPT ![k] = to]
    BY <1>3 DEF Moved, status
  <2>2. Lifecycle!Move(k, to)
    BY <1>1, <2>1 DEF Lifecycle!Move
  <2>3. <<phase[k], to>> \in LifecycleMoves
    BY <1>3 DEF Moved
  <2>4. to = "Stable" => k \in endorsed
    BY <1>3 DEF Moved
  <2>5. \/ Lifecycle!Publish(k) \/ Lifecycle!Propose(k) \/ Lifecycle!Release(k)
        \/ Lifecycle!Reject(k) \/ Lifecycle!Quarantine(k) \/ Lifecycle!Revoke(k)
    BY <2>2, <2>3, <2>4
      DEF LifecycleMoves, Lifecycle!Publish, Lifecycle!Propose, Lifecycle!Release,
          Lifecycle!Reject, Lifecycle!Quarantine, Lifecycle!Revoke
  <2>. QED
    BY <2>5 DEF Lifecycle!LifecycleNext
<1>. QED
  BY <1>2, <1>3, RegistryMoves DEF ReleaseInv, Types

\* A transaction of the validation contract approves, withdraws, endorses,
\* sets the threshold, or is none of the lifecycle's business.
LEMMA ValidationImplements ==
  ASSUME ReleaseInv, ValidationTransaction, UNCHANGED <<registryVars, now>>
  PROVE  [Lifecycle!LifecycleNext]_(Lifecycle!lifecycleVars)
<1>. DEFINE phase == [k \in VersionKeys |-> status(k)]
            approvals == [k \in VersionKeys |-> Approvals(k)]
            endorsed == {k \in VersionKeys : isValidationFinal[k]}
<1>. USE DEF ReleaseInv, Types
<1>1. phase' = phase
  BY DEF registryVars, status
<1>2. CASE UNCHANGED <<validatorThreshold, attestations, isValidationFinal>>
  BY <1>1, <1>2 DEF Lifecycle!lifecycleVars, Approvals
<1>3. ASSUME NEW t \in 1 .. MAX_THRESHOLD, setValidatorThreshold(t)
      PROVE  Lifecycle!LifecycleNext
  <2>1. Lifecycle!ChangeThreshold(t)
    BY <1>1, <1>3 DEF setValidatorThreshold, Approvals, Lifecycle!ChangeThreshold
  <2>. QED
    BY <2>1 DEF Lifecycle!LifecycleNext
<1>4. ASSUME NEW c \in Accounts, NEW k \in VersionKeys, NEW p \in BOOLEAN, submitAttestation(c, k, p)
      PROVE  [Lifecycle!LifecycleNext]_(Lifecycle!lifecycleVars)
  <2>. DEFINE agent == validatorAgentIds[c]
  <2>1. /\ \A j \in VersionKeys : j # k => Approvals(j)' = Approvals(j)
        /\ Approvals(k)' = IF p THEN Approvals(k) \cup {agent} ELSE Approvals(k)
        /\ agent \in Agents
    <3>1. /\ \A j \in VersionKeys : j # k => Approvals(j)' = Approvals(j)
          /\ Approvals(k)' = IF p THEN Approvals(k) \cup {agent} ELSE Approvals(k)
      BY <1>4, AttestationSubmitted
    <3>2. agent \in Agents
      BY <1>4 DEF submitAttestation, ValidationTypeOK
    <3>. QED
      BY <3>1, <3>2
  <2>2. status(k) = "Candidate" /\ k \notin endorsed /\ endorsed' = endorsed
        /\ validatorThreshold' = validatorThreshold
    BY <1>4 DEF submitAttestation
  <2>3. CASE p
    <3>1. approvals' = [approvals EXCEPT ![k] = @ \cup {agent}]
      BY <2>1, <2>3
    <3>2. Lifecycle!Approve(k, agent)
      BY <1>1, <2>2, <3>1 DEF Lifecycle!Approve
    <3>. QED
      BY <2>1, <3>2 DEF Lifecycle!LifecycleNext
  <2>4. CASE ~ p
    <3>1. approvals' = approvals
      BY <2>1, <2>4
    <3>. QED
      BY <1>1, <2>2, <3>1 DEF Lifecycle!lifecycleVars
  <2>. QED
    BY <2>3, <2>4
<1>5. ASSUME NEW k \in VersionKeys, NEW a \in Agents, challengeAttestation(k, a)
      PROVE  Lifecycle!LifecycleNext
  <2>1. /\ \A j \in VersionKeys : j # k => Approvals(j)' = Approvals(j)
        /\ Approvals(k)' = Approvals(k) \ {a}
    BY <1>5, AttestationChallenged
  <2>2. k \notin endorsed /\ endorsed' = endorsed /\ validatorThreshold' = validatorThreshold
    BY <1>5 DEF challengeAttestation, challengeable
  <2>3. approvals' = [approvals EXCEPT ![k] = @ \ {a}]
    BY <2>1
  <2>4. Lifecycle!Withdraw(k, a)
    BY <1>1, <2>2, <2>3 DEF Lifecycle!Withdraw
  <2>. QED
    BY <2>4 DEF Lifecycle!LifecycleNext
<1>6. ASSUME NEW k \in VersionKeys, finalizeValidation(k)
      PROVE  Lifecycle!LifecycleNext
  <2>1. /\ status(k) = "Candidate" /\ approvals' = approvals
        /\ validatorThreshold' = validatorThreshold
        /\ isValidationFinal' = [isValidationFinal EXCEPT ![k] = TRUE]
    BY <1>6 DEF finalizeValidation, Approvals
  <2>2. Cardinality(approvals[k]) >= validatorThreshold
    BY <1>6 DEF finalizeValidation, quorumReached, CountIsApprovals
  <2>3. endorsed' = endorsed \cup {k}
    BY <2>1 DEF ValidationTypeOK
  <2>4. Lifecycle!Endorse(k)
    <3>1. \A S : Lifecycle!Cardinality(S) = Cardinality(S)
      BY DEF Lifecycle!Cardinality, Cardinality
    <3>. QED
      BY <1>1, <2>1, <2>2, <2>3, <3>1 DEF Lifecycle!Endorse
  <2>. QED
    BY <2>4 DEF Lifecycle!LifecycleNext
<1>. QED
  BY <1>2, <1>3, <1>4, <1>5, <1>6
    DEF ValidationTransaction, bindIdentity, unbindIdentity

\* Every behaviour of the two contracts is, phase by phase and approval by
\* approval, a behaviour of the lifecycle they promise.
THEOREM ContractsImplementLifecycle == ReleaseSpec => ImplementsLifecycle
<1>1. ReleaseInv /\ [ReleaseNext]_releaseVars => [Lifecycle!LifecycleNext]_(Lifecycle!lifecycleVars)
  <2>. SUFFICES ASSUME ReleaseInv, [ReleaseNext]_releaseVars
                PROVE  [Lifecycle!LifecycleNext]_(Lifecycle!lifecycleVars)
    OBVIOUS
  <2>1. CASE UNCHANGED <<registryVars, validationVars>>
    BY <2>1 DEF registryVars, validationVars, Lifecycle!lifecycleVars, status, Approvals
  <2>. QED
    BY <2>1, RegistryImplements, ValidationImplements DEF ReleaseNext, releaseVars, Tick
<1>. QED
  BY ReleaseInitInv, ReleaseStep, LifecycleInitial, <1>1, PTL
    DEF ReleaseSpec, ImplementsLifecycle, Lifecycle!LifecycleSpec

(***************************************************************************)
(* Finalization is not revisited.                                          *)
(***************************************************************************)
LEMMA FinalStays ==
  ASSUME ReleaseInv, [ReleaseNext]_releaseVars, NEW k \in VersionKeys
  PROVE  /\ isValidationFinal[k] => isValidationFinal'[k] /\ attestations'[k] = attestations[k]
         /\ ~ isValidationFinal[k] /\ isValidationFinal'[k] =>
              status(k) = "Candidate" /\ Cardinality(Approvals(k)) >= validatorThreshold
<1>. USE DEF ReleaseInv, Types
<1>1. CASE UNCHANGED <<isValidationFinal, attestations>>
  BY <1>1
<1>2. ASSUME NEW c \in Accounts, NEW j \in VersionKeys, NEW p \in BOOLEAN, submitAttestation(c, j, p)
      PROVE  isValidationFinal' = isValidationFinal
             /\ (isValidationFinal[k] => attestations'[k] = attestations[k])
  BY <1>2 DEF submitAttestation, ValidationTypeOK
<1>3. ASSUME NEW j \in VersionKeys, NEW a \in Agents, challengeAttestation(j, a)
      PROVE  isValidationFinal' = isValidationFinal
             /\ (isValidationFinal[k] => attestations'[k] = attestations[k])
  BY <1>3 DEF challengeAttestation, challengeable, ValidationTypeOK
<1>4. ASSUME NEW j \in VersionKeys, finalizeValidation(j)
      PROVE  /\ attestations' = attestations
             /\ isValidationFinal[k] => isValidationFinal'[k]
             /\ ~ isValidationFinal[k] /\ isValidationFinal'[k] =>
                  status(k) = "Candidate" /\ Cardinality(Approvals(k)) >= validatorThreshold
  BY <1>4 DEF finalizeValidation, quorumReached, CountIsApprovals, ValidationTypeOK
<1>. QED
  BY <1>1, <1>2, <1>3, <1>4
    DEF ReleaseNext, ValidationTransaction, bindIdentity, unbindIdentity, setValidatorThreshold,
        validationVars, releaseVars

\* A finalization is taken by a quorum on a candidate, is never undone, and
\* freezes the attestations it was taken on.
THEOREM FinalizationStands == ReleaseSpec => FinalizationIsFinal
<1>1. ReleaseInv /\ [ReleaseNext]_releaseVars =>
        [\A k \in VersionKeys :
           /\ isValidationFinal[k] => isValidationFinal'[k] /\ attestations'[k] = attestations[k]
           /\ ~ isValidationFinal[k] /\ isValidationFinal'[k] =>
                /\ status(k) = "Candidate"
                /\ Cardinality(Approvals(k)) >= validatorThreshold]_releaseVars
  BY FinalStays
<1>. QED
  BY ReleaseInitInv, ReleaseStep, <1>1, PTL DEF ReleaseSpec, FinalizationIsFinal

(***************************************************************************)
(* The registry alone: what is published, and what a pause holds back.     *)
(***************************************************************************)
\* What no transaction has written yet.
Unwritten ==
  \A k \in VersionKeys :
    /\ status(k) = "None" => versions[k] = ZeroVersion
    /\ status(k) = "Draft" => versions[k].replayReportHash = NoHash

HistoryInv == RegistryTypeOK /\ VersionsBoundToAuthor /\ Unwritten /\ SupersedesWellFounded

\* What a transaction may do to the version at k.
Published(k) ==
  /\ status(k) = "None" /\ versions'[k].status = "Draft" /\ ~ isPaused("PUBLICATION")
  /\ versions'[k].replayReportHash = NoHash
  /\ versions'[k].supersedes # NoKey =>
       /\ versions'[k].supersedes \in VersionKeys
       /\ versions[versions'[k].supersedes].defenseId = k[1]

Edited(k) ==
  LET old == versions[k]  new == versions'[k] IN
  /\ old.status # "None" /\ <<old.status, new.status>> \in LifecycleMoves
  /\ [new EXCEPT !.status = old.status, !.replayReportHash = old.replayReportHash] = old
  /\ new.supersedes = old.supersedes
  /\ \/ new.replayReportHash = old.replayReportHash /\ new.status \notin {"Draft", "Candidate"}
     \/ old.status = "Draft" /\ new.status = "Candidate" /\ ~ isPaused("PUBLICATION")
  /\ new.status = "Stable" => ~ isPaused("PROMOTION")

\* A transaction of the registry publishes one version, edits one, or writes none.
LEMMA OneVersionWritten ==
  ASSUME RegistryTypeOK, RegistryTransaction
  PROVE  \/ versions' = versions
         \/ \E k \in VersionKeys :
              /\ \A j \in VersionKeys : j # k => versions'[j] = versions[j]
              /\ Published(k) \/ Edited(k)
              /\ UNCHANGED defenses
<1>. USE DEF RegistryTypeOK
<1>1. ASSUME NEW c \in Accounts, NEW d \in Defenses, NEW n \in Numbers, NEW h \in Hashes,
             NEW s \in VersionKeys \cup {NoKey}, publishVersion(c, d, n, h, s)
      PROVE  \E k \in VersionKeys :
               /\ \A j \in VersionKeys : j # k => versions'[j] = versions[j]
               /\ Published(k) /\ UNCHANGED defenses
  <2>0. versionKey(d, n) \in VersionKeys /\ versionKey(d, n)[1] = d
    BY DEF VersionKeys, versionKey
  <2>1. PICK k \in VersionKeys : k = versionKey(d, n) /\ k[1] = d
    BY <2>0
  <2>2. /\ status(k) = "None" /\ ~ isPaused("PUBLICATION") /\ UNCHANGED defenses
        /\ s # NoKey => versions[s].defenseId = k[1]
    BY <1>1, <2>1 DEF publishVersion, supersedable
  <2>3. /\ versions'[k].status = "Draft" /\ versions'[k].replayReportHash = NoHash
        /\ versions'[k].supersedes = s
        /\ \A j \in VersionKeys : j # k => versions'[j] = versions[j]
    BY <1>1, <2>1 DEF publishVersion
  <2>4. Published(k)
    BY <2>2, <2>3 DEF Published
  <2>5. QED BY <2>2, <2>3, <2>4
<1>2. ASSUME NEW k \in VersionKeys, NEW new \in DefenseVersion, versions' = [versions EXCEPT ![k] = new],
             NEW s \in DefenseStatus, NEW h \in Hashes \cup {NoHash},
             new = [versions[k] EXCEPT !.replayReportHash = h, !.status = s],
             <<status(k), s>> \in LifecycleMoves, status(k) # "None",
             \/ h = versions[k].replayReportHash /\ s \notin {"Draft", "Candidate"}
             \/ status(k) = "Draft" /\ s = "Candidate" /\ ~ isPaused("PUBLICATION"),
             s = "Stable" => ~ isPaused("PROMOTION")
      PROVE  Edited(k) /\ \A j \in VersionKeys : j # k => versions'[j] = versions[j]
  <2>1. versions'[k] = new /\ \A j \in VersionKeys : j # k => versions'[j] = versions[j]
    BY <1>2
  <2>2. /\ new.status = s /\ new.replayReportHash = h /\ new.supersedes = versions[k].supersedes
        /\ [new EXCEPT !.status = versions[k].status,
                       !.replayReportHash = versions[k].replayReportHash] = versions[k]
    BY <1>2 DEF DefenseVersion
  <2>3. QED BY <1>2, <2>1, <2>2 DEF Edited, status
<1>3. ASSUME NEW c \in Accounts, NEW k \in VersionKeys, NEW h \in Hashes, publishReplayBundle(c, k, h)
      PROVE  Edited(k) /\ (\A j \in VersionKeys : j # k => versions'[j] = versions[j]) /\ UNCHANGED defenses
  <2>1. PICK new \in DefenseVersion : new = [versions[k] EXCEPT !.replayReportHash = h, !.status = "Candidate"]
    BY DEF DefenseVersion, DefenseStatus
  <2>2. versions' = [versions EXCEPT ![k] = new] /\ UNCHANGED defenses
        /\ status(k) = "Draft" /\ ~ isPaused("PUBLICATION")
    BY <1>3, <2>1 DEF publishReplayBundle
  <2>3. "Candidate" \in DefenseStatus /\ <<"Draft", "Candidate">> \in LifecycleMoves /\ "Candidate" # "Stable"
    BY DEF DefenseStatus, LifecycleMoves
  <2>4. QED BY <1>2, <2>1, <2>2, <2>3
<1>4. ASSUME NEW k \in VersionKeys, NEW s \in DefenseStatus \ {"Draft", "Candidate"}, changeStatus(k, s),
             <<status(k), s>> \in LifecycleMoves, status(k) # "None",
             s = "Stable" => ~ isPaused("PROMOTION")
      PROVE  Edited(k) /\ (\A j \in VersionKeys : j # k => versions'[j] = versions[j]) /\ UNCHANGED defenses
  <2>1. versions[k] \in DefenseVersion
    OBVIOUS
  <2>2. PICK h \in Hashes \cup {NoHash} : h = versions[k].replayReportHash
    BY <2>1 DEF DefenseVersion
  <2>3. PICK new \in DefenseVersion : new = [versions[k] EXCEPT !.replayReportHash = h, !.status = s]
    BY <2>1, <2>2 DEF DefenseVersion
  <2>4. [versions[k] EXCEPT !.status = s] = new
    BY <2>1, <2>2, <2>3 DEF DefenseVersion
  <2>5. versions' = [versions EXCEPT ![k] = new] /\ UNCHANGED defenses
    BY <1>4, <2>4 DEF changeStatus
  <2>6. QED BY <1>2, <1>4, <2>2, <2>3, <2>5
<1>5. ASSUME NEW k \in VersionKeys, promoteVersion(k) \/ rejectVersion(k)
      PROVE  Edited(k) /\ (\A j \in VersionKeys : j # k => versions'[j] = versions[j]) /\ UNCHANGED defenses
  BY <1>4, <1>5 DEF promoteVersion, rejectVersion, LifecycleMoves, DefenseStatus
<1>6. ASSUME NEW k \in VersionKeys, NEW s \in VersionKeys \cup {NoKey},
             quarantineVersion(k, s) \/ revokeVersion(k, s)
      PROVE  Edited(k) /\ (\A j \in VersionKeys : j # k => versions'[j] = versions[j]) /\ UNCHANGED defenses
  BY <1>4, <1>6 DEF quarantineVersion, revokeVersion, LifecycleMoves, DefenseStatus
<1>. QED
  BY <1>1, <1>3, <1>5, <1>6
    DEF RegistryTransaction, setValidationRegistry, registerDefense, publishReceipt, linkDefense,
        updateResolution, setProtocolPause

\* A new version supersedes one that was published, and none supersedes it yet:
\* a set of versions that supersede one another has done so without it.
LEMMA HistoryGrows ==
  ASSUME HistoryInv, NEW k \in VersionKeys, Published(k),
         \A j \in VersionKeys : j # k => versions'[j] = versions[j]
  PROVE  SupersedesWellFounded'
<1> DEFINE s == versions'[k].supersedes
<1>1. s # NoKey => s \in VersionKeys /\ s # k /\ status(s) # "None" /\ s[1] = k[1]
  <2>1. k[1] # NoDefense
    BY RegistryAssumption DEF VersionKeys
  <2>2. \A j \in VersionKeys : status(j) = "None" => versions[j].defenseId = NoDefense
    BY DEF HistoryInv, Unwritten, ZeroVersion
  <2>3. QED BY <2>1, <2>2 DEF Published, HistoryInv, VersionsBoundToAuthor
<1>2. ASSUME NEW j \in VersionKeys, versions'[j].supersedes # NoKey
      PROVE  /\ versions'[versions'[j].supersedes].status # "None"
             /\ versions'[j].supersedes[1] = j[1]
  <2>1. CASE j = k
    BY <1>1, <1>2, <2>1 DEF status
  <2>2. CASE j # k
    <3>1. PICK t : t = versions[j].supersedes
      OBVIOUS
    <3>2. t # NoKey /\ status(t) # "None" /\ t[1] = j[1] /\ versions'[j].supersedes = t
      BY <1>2, <2>2, <3>1 DEF HistoryInv, SupersedesWellFounded
    <3>3. t \in VersionKeys
      BY <3>1, <3>2 DEF HistoryInv, RegistryTypeOK, DefenseVersion
    <3>4. QED BY <3>2, <3>3 DEF Published, status
  <2>3. QED BY <2>1, <2>2
<1>3. ASSUME NEW S \in (SUBSET VersionKeys) \ {{}}, \A j \in S : versions'[j].supersedes \in S
      PROVE  FALSE
  <2>1. NoKey \notin S
    BY RegistryAssumption DEF VersionKeys
  <2>2. \A j \in S \ {k} : versions[j].supersedes \in S \ {k}
    <3>1. ASSUME NEW j \in S \ {k} PROVE versions[j].supersedes \in S /\ versions[j].supersedes # k
      BY <1>3, <2>1 DEF HistoryInv, SupersedesWellFounded, Published
    <3>2. QED BY <3>1
  <2>3. S \ {k} # {}
    BY <1>1, <1>3, <2>1
  <2>4. QED BY <2>2, <2>3 DEF HistoryInv, SupersedesWellFounded
<1>4. QED BY <1>2, <1>3 DEF SupersedesWellFounded, status

\* A step that writes no predecessor and unpublishes nothing keeps the order of versions.
LEMMA HistoryKept ==
  ASSUME HistoryInv, \A j \in VersionKeys : /\ versions'[j].supersedes = versions[j].supersedes
                                            /\ status(j) # "None" => versions'[j].status # "None"
  PROVE  SupersedesWellFounded'
<1>1. ASSUME NEW j \in VersionKeys, versions'[j].supersedes # NoKey
      PROVE  /\ versions'[versions'[j].supersedes].status # "None"
             /\ versions'[j].supersedes[1] = j[1]
  <2>1. PICK t : t = versions[j].supersedes
    OBVIOUS
  <2>2. t # NoKey /\ status(t) # "None" /\ t[1] = j[1] /\ versions'[j].supersedes = t
    BY <1>1, <2>1 DEF HistoryInv, SupersedesWellFounded
  <2>3. t \in VersionKeys
    BY <2>1, <2>2 DEF HistoryInv, RegistryTypeOK, DefenseVersion
  <2>4. QED BY <2>2, <2>3
<1>2. ASSUME NEW S \in (SUBSET VersionKeys) \ {{}}, \A j \in S : versions'[j].supersedes \in S
      PROVE  FALSE
  BY <1>2 DEF HistoryInv, SupersedesWellFounded
<1>3. QED BY <1>1, <1>2 DEF SupersedesWellFounded, status

\* Every step of the registry keeps the invariant of its history.
LEMMA HistoryStep ==
  HistoryInv /\ [RegistryAloneNext]_<<registryVars, isValidationFinal, now>> => HistoryInv'
<1> SUFFICES ASSUME HistoryInv, [RegistryAloneNext]_<<registryVars, isValidationFinal, now>>
             PROVE  HistoryInv'
  OBVIOUS
<1>1. CASE UNCHANGED <<defenses, versions>> /\ RegistryTypeOK'
  BY <1>1 DEF HistoryInv, VersionsBoundToAuthor, Unwritten, SupersedesWellFounded, status
<1>2. ASSUME UNCHANGED registryVars, isValidationFinal' \in [VersionKeys -> BOOLEAN], now' \in Nat
      PROVE  HistoryInv'
  BY <1>1, <1>2 DEF registryVars, HistoryInv, RegistryTypeOK
<1>3. CASE RegistryTransaction /\ UNCHANGED <<isValidationFinal, now>>
  <2>1. RegistryTypeOK' /\ VersionsBoundToAuthor'
    BY <1>3, RegistryTypes, AuthorKept DEF HistoryInv
  <2>2. CASE versions' = versions
    BY <2>1, <2>2 DEF HistoryInv, Unwritten, SupersedesWellFounded, status
  <2>3. ASSUME NEW k \in VersionKeys, Published(k),
               \A j \in VersionKeys : j # k => versions'[j] = versions[j]
        PROVE  HistoryInv'
    <3>1. Unwritten'
      BY <2>3 DEF HistoryInv, Unwritten, Published, status
    <3>2. QED BY <2>1, <2>3, <3>1, HistoryGrows DEF HistoryInv
  <2>4. ASSUME NEW k \in VersionKeys, Edited(k),
               \A j \in VersionKeys : j # k => versions'[j] = versions[j]
        PROVE  HistoryInv'
    <3>1. Unwritten'
      BY <2>4 DEF HistoryInv, Unwritten, Edited, LifecycleMoves, status
    <3>2. \A j \in VersionKeys : /\ versions'[j].supersedes = versions[j].supersedes
                                 /\ status(j) # "None" => versions'[j].status # "None"
      BY <2>4 DEF Edited, LifecycleMoves, status
    <3>3. QED BY <2>1, <3>1, <3>2, HistoryKept DEF HistoryInv
  <2>5. QED BY <1>3, <2>2, <2>3, <2>4, OneVersionWritten DEF HistoryInv
<1>4. CASE \E k \in VersionKeys : ValidationFinalizes(k)
  BY <1>2, <1>4 DEF ValidationFinalizes, HistoryInv, RegistryTypeOK
<1>5. CASE Tick /\ UNCHANGED isValidationFinal
  BY <1>2, <1>5 DEF Tick, HistoryInv, RegistryTypeOK
<1>6. CASE UNCHANGED <<registryVars, isValidationFinal, now>>
  BY <1>2, <1>6 DEF HistoryInv, RegistryTypeOK
<1>. QED
  BY <1>3, <1>4, <1>5, <1>6 DEF RegistryAloneNext

\* At deployment there is no history.
LEMMA HistoryInit == RegistryAloneInit => HistoryInv
<1> SUFFICES ASSUME RegistryAloneInit PROVE HistoryInv
  OBVIOUS
<1>1. RegistryTypeOK
  BY DEF RegistryAloneInit, RegistryInit, RegistryTypeOK, Defense, DefenseVersion,
         ThreatReceipt, PauseState, ZeroDefense, ZeroVersion, ZeroReceipt, NotPaused,
         DefenseStatus, ReceiptResolution
<1>2. \A k \in VersionKeys : versions[k] = ZeroVersion
  BY DEF RegistryAloneInit, RegistryInit
<1>3. \A S \in SUBSET VersionKeys : NoKey \notin S
  BY RegistryAssumption DEF VersionKeys
<1>4. QED BY <1>1, <1>2, <1>3
  DEF HistoryInv, VersionsBoundToAuthor, Unwritten, SupersedesWellFounded, ZeroVersion, status

\* The history a version claims is real: what it supersedes was published before
\* it, for the same defense, so there is no cycle to follow (DadiengRegistry.sol
\* publishVersion compares the defense stored under the superseded key).
THEOREM HistoryIsReal == RegistryAloneSpec => []SupersedesWellFounded
<1>1. HistoryInv => SupersedesWellFounded
  BY DEF HistoryInv
<1>. QED
  BY HistoryInit, HistoryStep, <1>1, PTL DEF RegistryAloneSpec

\* OneVersionWritten, for any step.
LEMMA VersionsOnlyMove ==
  ASSUME HistoryInv, [RegistryAloneNext]_<<registryVars, isValidationFinal, now>>
  PROVE  \/ versions' = versions
         \/ /\ UNCHANGED <<isValidationFinal, now>> /\ RegistryTransaction
            /\ \E k \in VersionKeys :
                 /\ \A j \in VersionKeys : j # k => versions'[j] = versions[j]
                 /\ Published(k) \/ Edited(k)
                 /\ UNCHANGED defenses
  BY OneVersionWritten DEF HistoryInv, RegistryAloneNext, ValidationFinalizes, Tick, registryVars

\* Published versions are immutable (contracts/README.md): a step moves a version
\* along the lifecycle or leaves it alone, and a report is never replaced.
THEOREM PublicationIsFinal == RegistryAloneSpec => PublishedVersionImmutable
<1> DEFINE Kept(k) ==
      LET old == versions[k]  new == versions'[k] IN
      /\ old.status # new.status => <<old.status, new.status>> \in LifecycleMoves
      /\ old.status # "None" =>
           [new EXCEPT !.status = old.status, !.replayReportHash = old.replayReportHash] = old
      /\ old.replayReportHash # NoHash => new.replayReportHash = old.replayReportHash
<1>1. ASSUME HistoryInv, [RegistryAloneNext]_<<registryVars, isValidationFinal, now>>, NEW k \in VersionKeys
      PROVE  Kept(k)
  <2>1. CASE versions'[k] = versions[k]
    <3>1. versions[k] \in DefenseVersion
      BY <1>1 DEF HistoryInv, RegistryTypeOK
    <3>2. QED BY <2>1, <3>1 DEF DefenseVersion
  <2>2. CASE Published(k)
    <3>1. versions[k].replayReportHash = NoHash
      BY <1>1, <2>2 DEF HistoryInv, Unwritten, ZeroVersion, Published
    <3>2. QED BY <2>2, <3>1 DEF Published, LifecycleMoves, status
  <2>3. CASE Edited(k)
    <3>1. versions[k].status = "Draft" => versions[k].replayReportHash = NoHash
      BY <1>1 DEF HistoryInv, Unwritten, status
    <3>2. QED BY <2>3, <3>1 DEF Edited
  <2>4. QED BY <1>1, <2>1, <2>2, <2>3, VersionsOnlyMove
<1>2. HistoryInv /\ [RegistryAloneNext]_<<registryVars, isValidationFinal, now>> =>
        [\A k \in VersionKeys : Kept(k)]_versions
  BY <1>1
<1>. QED
  BY HistoryInit, HistoryStep, <1>2, PTL DEF RegistryAloneSpec, PublishedVersionImmutable

\* While a scope is paused nothing in that scope moves forward
\* (DadiengRegistry.sol _requireActive), for as long as its pause holds.
THEOREM PausesHold == RegistryAloneSpec => PausedScopeIsFrozen
<1> DEFINE Frozen ==
      /\ InForce("PUBLICATION") =>
           /\ defenses' = defenses
           /\ \A k \in VersionKeys :
                versions'[k].status \in {"Draft", "Candidate"} => versions'[k] = versions[k]
      /\ InForce("PROMOTION") =>
           \A k \in VersionKeys : versions'[k].status = "Stable" => status(k) = "Stable"
      /\ InForce("RECEIPT") => receipts' = receipts
<1>0. \A s \in RegistryScopes : InForce(s) => isPaused(s)
  BY DEF InForce, isPaused, PauseHolds
<1>1. ASSUME HistoryInv, [RegistryAloneNext]_<<registryVars, isValidationFinal, now>> PROVE Frozen
  <2>1. isPaused("PUBLICATION") => defenses' = defenses
    BY <1>1 DEF RegistryAloneNext, RegistryTransaction, setValidationRegistry, registerDefense,
      publishVersion, publishReplayBundle, promoteVersion, rejectVersion, quarantineVersion,
      revokeVersion, changeStatus, publishReceipt, linkDefense, updateResolution,
      setProtocolPause, ValidationFinalizes, Tick, registryVars
  <2>2. isPaused("RECEIPT") => receipts' = receipts
    BY <1>1 DEF RegistryAloneNext, RegistryTransaction, setValidationRegistry, registerDefense,
      publishVersion, publishReplayBundle, promoteVersion, rejectVersion, quarantineVersion,
      revokeVersion, changeStatus, publishReceipt, linkDefense, updateResolution,
      setProtocolPause, ValidationFinalizes, Tick, registryVars
  <2>3. ASSUME NEW k \in VersionKeys
        PROVE  /\ isPaused("PUBLICATION") /\ versions'[k].status \in {"Draft", "Candidate"} =>
                    versions'[k] = versions[k]
               /\ isPaused("PROMOTION") /\ versions'[k].status = "Stable" => status(k) = "Stable"
    <3>1. CASE versions'[k] = versions[k]
      BY <3>1 DEF status
    <3>2. CASE Published(k) \/ Edited(k)
      BY <3>2 DEF Published, Edited
    <3>3. QED BY <1>1, <3>1, <3>2, VersionsOnlyMove
  <2>4. /\ InForce("PUBLICATION") => isPaused("PUBLICATION")
        /\ InForce("PROMOTION") => isPaused("PROMOTION")
        /\ InForce("RECEIPT") => isPaused("RECEIPT")
    BY <1>0 DEF RegistryScopes
  <2>5. QED BY <2>1, <2>2, <2>3, <2>4
<1>2. HistoryInv /\ [RegistryAloneNext]_<<registryVars, isValidationFinal, now>> =>
        [Frozen]_registryVars
  BY <1>1
<1>. QED
  BY HistoryInit, HistoryStep, <1>2, PTL DEF RegistryAloneSpec, PausedScopeIsFrozen

(***************************************************************************)
(* Facts about the community operator SumFunctionOnSet, for any finite set *)
(* and any function with natural numbers on it: its recursion, and how the *)
(* sum moves with the set and with the function.  All of them rest on one  *)
(* form of induction over the subsets of a finite set: a family of subsets *)
(* that takes in every subset whose removals it holds, holds them all.     *)
(***************************************************************************)
\* Induction over the subsets of a finite set, the family T in place of the
\* predicate: a smallest subset outside T would have all its removals in T.
LEMMA SubsetInduction ==
  ASSUME NEW S, IsFiniteSet(S), NEW T,
         \A s \in SUBSET S : (\A x \in s : s \ {x} \in T) => s \in T
  PROVE  S \in T /\ \A s \in SUBSET S : s \in T
<1> DEFINE Left == (SUBSET S) \ T
<1> SUFFICES ASSUME NEW z \in SUBSET S, z \notin T PROVE FALSE
  OBVIOUS
<1>1. IsWellFoundedOn(StrictSubsetOrdering(S), SUBSET S)
  <2>1. FiniteSubsetsOf(S) = SUBSET S
    BY FS_FiniteSubsetsOfFinite
  <2>2. IsWellFoundedOn(StrictSubsetOrdering(S), FiniteSubsetsOf(S))
    BY FS_StrictSubsetOrderingWellFounded
  <2>3. QED BY <2>1, <2>2
<1>2. PICK s \in Left : \A t \in Left : ~ (<<t, s>> \in StrictSubsetOrdering(S))
  <2>1. Left # {} /\ Left \subseteq SUBSET S
    OBVIOUS
  <2> HIDE DEF Left
  <2>2. QED BY <1>1, <2>1, WFMin
<1>3. ASSUME NEW x \in s PROVE s \ {x} \in T
  <2>1. <<s \ {x}, s>> \in StrictSubsetOrdering(S)
    BY <1>3 DEF StrictSubsetOrdering
  <2>2. QED BY <1>2, <2>1
<1>4. QED BY <1>2, <1>3

\* The function that MapThenFoldSet builds for the sum of f over S.
first(s) == CHOOSE x \in s : TRUE

\* One step of the recursion, and the functions that follow it on every subset.
SumStep(f, g, s) == IF s = {} THEN 0 ELSE f[first(s)] + g[s \ {first(s)}]
IsSum(f, g, S) == g = [s \in SUBSET S |-> SumStep(f, g, s)]

\* The definitions between SumFunctionOnSet and the function it chooses.
LEMMA SumUnfolds ==
  ASSUME NEW f, NEW S
  PROVE  SumFunctionOnSet(f, S) = (CHOOSE g : IsSum(f, g, S))[S]
BY DEF SumFunctionOnSet, FoldFunctionOnSet, MapThenFoldSet, IsSum, SumStep, first

\* The member a sum takes first is one.
LEMMA FirstIn == ASSUME NEW s, s # {} PROVE first(s) \in s
BY DEF first

\* The recursion has a solution: by induction, one for the subsets up to any
\* size, and so one for all of them.
LEMMA SumExists ==
  ASSUME NEW f, NEW S, IsFiniteSet(S)
  PROVE  \E g : IsSum(f, g, S)
<1> DEFINE Upto(n) == {s \in SUBSET S : Cardinality(s) <= n}
<1> DEFINE Good == {n \in Nat : \E g : \A s \in Upto(n) : g[s] = SumStep(f, g, s)}
<1>1. \A s \in SUBSET S : IsFiniteSet(s) /\ Cardinality(s) \in Nat
  BY FS_Subset, FS_CardinalityType
<1>2. \A T \in SUBSET S : Cardinality(T) \in Good
  <2>1. ASSUME NEW T \in SUBSET S, \A x \in T : Cardinality(T \ {x}) \in Good
        PROVE  Cardinality(T) \in Good
    <3>1. CASE T = {}
      <4> DEFINE g == [s \in SUBSET S |-> 0]
      <4>1. \A s \in Upto(Cardinality(T)) : s = {}
        BY <1>1, <3>1, FS_EmptySet
      <4>2. \A s \in Upto(Cardinality(T)) : g[s] = SumStep(f, g, s)
        BY <4>1 DEF SumStep
      <4>3. QED BY <1>1, <4>2
    <3>2. CASE T # {}
      <4>1. PICK x \in T : TRUE
        BY <3>2
      <4>2. Cardinality(T \ {x}) = Cardinality(T) - 1
        BY <1>1, <4>1, FS_RemoveElement
      <4>3. PICK g : \A s \in Upto(Cardinality(T \ {x})) : g[s] = SumStep(f, g, s)
        BY <2>1, <4>1
      <4> DEFINE h == [s \in SUBSET S |-> SumStep(f, g, s)]
      <4>4. ASSUME NEW s \in Upto(Cardinality(T)) PROVE h[s] = SumStep(f, h, s)
        <5>1. CASE s = {}
          BY <5>1 DEF SumStep
        <5>2. CASE s # {}
          <6> DEFINE t == s \ {first(s)}
          <6>1. t \in SUBSET S /\ Cardinality(t) = Cardinality(s) - 1
            BY <1>1, <5>2, FirstIn, FS_RemoveElement
          <6>2. t \in Upto(Cardinality(T \ {x}))
            BY <1>1, <4>2, <6>1
          <6>3. h[t] = g[t]
            BY <4>3, <6>1, <6>2
          <6>4. QED BY <5>2, <6>3 DEF SumStep
        <5>3. QED BY <5>1, <5>2
      <4>5. QED BY <1>1, <4>4
    <3>3. QED BY <3>1, <3>2
  <2> DEFINE R == {T \in SUBSET S : Cardinality(T) \in Good}
  <2>2. \A s \in SUBSET S : (\A x \in s : s \ {x} \in R) => s \in R
    BY <2>1
  <2> HIDE DEF R
  <2>3. \A s \in SUBSET S : s \in R
    BY <2>2, SubsetInduction
  <2>4. QED BY <2>3 DEF R
<1>3. PICK g : \A s \in Upto(Cardinality(S)) : g[s] = SumStep(f, g, s)
  BY <1>2
<1>4. \A s \in SUBSET S : s \in Upto(Cardinality(S))
  BY FS_Subset
<1> DEFINE h == [s \in SUBSET S |-> g[s]]
<1>5. ASSUME NEW s \in SUBSET S PROVE h[s] = SumStep(f, h, s)
  <2>1. h[s] = SumStep(f, g, s)
    BY <1>3, <1>4
  <2>2. CASE s = {}
    BY <2>1, <2>2 DEF SumStep
  <2>3. CASE s # {}
    <3>1. h[s \ {first(s)}] = g[s \ {first(s)}]
      OBVIOUS
    <3>2. QED BY <2>1, <2>3, <3>1 DEF SumStep
  <2>4. QED BY <2>2, <2>3
<1>6. h = [s \in SUBSET S |-> SumStep(f, h, s)]
  BY <1>5
<1>7. QED BY <1>6 DEF IsSum

\* Two solutions, on a set and on a larger one, agree where both are defined.
LEMMA SumUnique ==
  ASSUME NEW f, NEW S, NEW R, IsFiniteSet(R), R \subseteq S,
         NEW g, IsSum(f, g, S), NEW h, IsSum(f, h, R),
         NEW z \in SUBSET R
  PROVE  g[z] = h[z]
<1> DEFINE T == {s \in SUBSET R : g[s] = h[s]}
<1>1. ASSUME NEW s \in SUBSET R, \A x \in s : s \ {x} \in T PROVE s \in T
  <2>1. g[s] = SumStep(f, g, s) /\ h[s] = SumStep(f, h, s)
    BY DEF IsSum
  <2>2. s # {} => g[s \ {first(s)}] = h[s \ {first(s)}]
    BY <1>1, FirstIn
  <2>3. QED BY <2>1, <2>2 DEF SumStep
<1>2. \A s \in SUBSET R : (\A x \in s : s \ {x} \in T) => s \in T
  BY <1>1
<1> HIDE DEF T
<1>3. \A s \in SUBSET R : s \in T
  BY <1>2, SubsetInduction
<1>4. QED BY <1>3 DEF T

\* The equation of the recursion.
LEMMA SumTakesFirst ==
  ASSUME NEW f, NEW S, IsFiniteSet(S)
  PROVE  SumFunctionOnSet(f, S) =
           IF S = {} THEN 0 ELSE f[first(S)] + SumFunctionOnSet(f, S \ {first(S)})
<1> DEFINE R == S \ {first(S)}
<1> DEFINE g == CHOOSE x : IsSum(f, x, S)
<1> DEFINE h == CHOOSE x : IsSum(f, x, R)
<1>1. IsFiniteSet(R) /\ R \subseteq S
  BY FS_RemoveElement
<1>2. IsSum(f, g, S)
  BY SumExists
<1>3. IsSum(f, h, R)
  BY <1>1, SumExists
<1>4. SumFunctionOnSet(f, S) = g[S] /\ SumFunctionOnSet(f, R) = h[R]
  BY SumUnfolds
<1> HIDE DEF g, h
<1>5. g[R] = h[R]
  <2>1. R \in SUBSET R
    OBVIOUS
  <2> HIDE DEF R
  <2>2. QED BY <1>1, <1>2, <1>3, <2>1, SumUnique
<1>6. g[S] = SumStep(f, g, S)
  BY <1>2 DEF IsSum
<1>7. QED BY <1>4, <1>5, <1>6 DEF SumStep

\* Nothing adds up to 0.
LEMMA SumOfNone == ASSUME NEW f PROVE SumFunctionOnSet(f, {}) = 0
BY SumTakesFirst, FS_EmptySet

\* Natural numbers add up to one.
LEMMA SumIsNat ==
  ASSUME NEW f, NEW S, IsFiniteSet(S), \A x \in S : f[x] \in Nat
  PROVE  SumFunctionOnSet(f, S) \in Nat
<1> DEFINE T == {s \in SUBSET S : SumFunctionOnSet(f, s) \in Nat}
<1>1. ASSUME NEW s \in SUBSET S, \A x \in s : s \ {x} \in T PROVE s \in T
  <2>1. IsFiniteSet(s)
    BY FS_Subset
  <2>2. s # {} => SumFunctionOnSet(f, s \ {first(s)}) \in Nat /\ f[first(s)] \in Nat
    BY <1>1, FirstIn
  <2>3. QED BY <2>1, <2>2, SumTakesFirst
<1>2. \A s \in SUBSET S : (\A x \in s : s \ {x} \in T) => s \in T
  BY <1>1
<1> HIDE DEF T
<1>3. S \in T
  BY <1>2, SubsetInduction
<1>4. QED BY <1>3 DEF T

\* Any member may be taken first.
LEMMA SumTakes ==
  ASSUME NEW f, NEW S, IsFiniteSet(S), \A x \in S : f[x] \in Nat, NEW x \in S
  PROVE  SumFunctionOnSet(f, S) = f[x] + SumFunctionOnSet(f, S \ {x})
<1> DEFINE sum(s) == SumFunctionOnSet(f, s)
<1> DEFINE T == {s \in SUBSET S : \A y \in s : sum(s) = f[y] + sum(s \ {y})}
<1>1. ASSUME NEW s \in SUBSET S, \A y \in s : s \ {y} \in T PROVE s \in T
  <2> SUFFICES ASSUME NEW y \in s PROVE sum(s) = f[y] + sum(s \ {y})
    OBVIOUS
  <2> DEFINE c == first(s)
  <2>1. IsFiniteSet(s) /\ c \in s
    BY FS_Subset, FirstIn
  <2>2. sum(s) = f[c] + sum(s \ {c})
    BY <2>1, SumTakesFirst
  <2>3. CASE y = c
    BY <2>2, <2>3
  <2>4. CASE y # c
    <3> HIDE DEF c
    <3>1. sum(s \ {c}) = f[y] + sum((s \ {c}) \ {y})
      BY <1>1, <2>1, <2>4
    <3>2. sum(s \ {y}) = f[c] + sum((s \ {y}) \ {c})
      BY <1>1, <2>1, <2>4
    <3>3. (s \ {c}) \ {y} = (s \ {y}) \ {c}
      OBVIOUS
    <3>4. IsFiniteSet((s \ {c}) \ {y}) /\ \A z \in (s \ {c}) \ {y} : f[z] \in Nat
      BY <2>1, FS_RemoveElement
    <3>5. sum((s \ {c}) \ {y}) \in Nat /\ f[c] \in Nat /\ f[y] \in Nat
      BY <3>4, SumIsNat, <2>1
    <3> HIDE DEF sum
    <3>6. QED BY <2>2, <3>1, <3>2, <3>3, <3>5
  <2>5. QED BY <2>3, <2>4
<1>2. \A s \in SUBSET S : (\A y \in s : s \ {y} \in T) => s \in T
  BY <1>1
<1> HIDE DEF T
<1>3. S \in T
  BY <1>2, SubsetInduction
<1>4. QED BY <1>3 DEF T

\* A new member adds its value.
LEMMA SumAdds ==
  ASSUME NEW f, NEW S, IsFiniteSet(S), NEW x, x \notin S, \A y \in S \cup {x} : f[y] \in Nat
  PROVE  SumFunctionOnSet(f, S \cup {x}) = f[x] + SumFunctionOnSet(f, S)
<1>1. IsFiniteSet(S \cup {x}) /\ (S \cup {x}) \ {x} = S /\ x \in S \cup {x}
  BY FS_AddElement
<1>2. QED BY <1>1, SumTakes

\* A sum depends on the values on its set only.
LEMMA SumAgrees ==
  ASSUME NEW f, NEW g, NEW S, IsFiniteSet(S), \A x \in S : f[x] = g[x]
  PROVE  SumFunctionOnSet(f, S) = SumFunctionOnSet(g, S)
<1> DEFINE T == {s \in SUBSET S : SumFunctionOnSet(f, s) = SumFunctionOnSet(g, s)}
<1>1. ASSUME NEW s \in SUBSET S, \A x \in s : s \ {x} \in T PROVE s \in T
  <2>1. IsFiniteSet(s)
    BY FS_Subset
  <2>2. s # {} => /\ SumFunctionOnSet(f, s \ {first(s)}) = SumFunctionOnSet(g, s \ {first(s)})
                  /\ f[first(s)] = g[first(s)]
    BY <1>1, FirstIn
  <2>3. QED BY <2>1, <2>2, SumTakesFirst
<1>2. \A s \in SUBSET S : (\A x \in s : s \ {x} \in T) => s \in T
  BY <1>1
<1> HIDE DEF T
<1>3. S \in T
  BY <1>2, SubsetInduction
<1>4. QED BY <1>3 DEF T

\* When one value changes, the sum changes by as much.
LEMMA SumChanges ==
  ASSUME NEW f, NEW g, NEW S, IsFiniteSet(S), NEW x \in S,
         \A y \in S : f[y] \in Nat /\ g[y] \in Nat, \A y \in S \ {x} : g[y] = f[y]
  PROVE  SumFunctionOnSet(g, S) + f[x] = SumFunctionOnSet(f, S) + g[x]
<1>1. IsFiniteSet(S \ {x})
  BY FS_RemoveElement
<1>2. SumFunctionOnSet(g, S \ {x}) = SumFunctionOnSet(f, S \ {x})
  BY <1>1, SumAgrees
<1>3. SumFunctionOnSet(f, S) = f[x] + SumFunctionOnSet(f, S \ {x})
  BY SumTakes
<1>4. SumFunctionOnSet(g, S) = g[x] + SumFunctionOnSet(g, S \ {x})
  BY SumTakes
<1>5. SumFunctionOnSet(f, S \ {x}) \in Nat
  BY <1>1, SumIsNat
<1>6. QED BY <1>2, <1>3, <1>4, <1>5

\* Sums add up value by value.
LEMMA SumOfSums ==
  ASSUME NEW f, NEW g, NEW h, NEW S, IsFiniteSet(S),
         \A x \in S : f[x] \in Nat /\ g[x] \in Nat /\ h[x] = f[x] + g[x]
  PROVE  SumFunctionOnSet(h, S) = SumFunctionOnSet(f, S) + SumFunctionOnSet(g, S)
<1> DEFINE T == {s \in SUBSET S :
      SumFunctionOnSet(h, s) = SumFunctionOnSet(f, s) + SumFunctionOnSet(g, s)}
<1>1. ASSUME NEW s \in SUBSET S, \A x \in s : s \ {x} \in T PROVE s \in T
  <2>1. IsFiniteSet(s)
    BY FS_Subset
  <2>2. CASE s = {}
    BY <2>2, SumOfNone
  <2>3. CASE s # {}
    <3> DEFINE c == first(s)  t == s \ {first(s)}
    <3>1. c \in s /\ IsFiniteSet(t)
      BY <2>1, <2>3, FirstIn, FS_RemoveElement
    <3>2. SumFunctionOnSet(h, t) = SumFunctionOnSet(f, t) + SumFunctionOnSet(g, t)
      BY <1>1, <3>1
    <3>3. SumFunctionOnSet(f, t) \in Nat /\ SumFunctionOnSet(g, t) \in Nat
      BY <3>1, SumIsNat
    <3>4. /\ SumFunctionOnSet(f, s) = f[c] + SumFunctionOnSet(f, t)
          /\ SumFunctionOnSet(g, s) = g[c] + SumFunctionOnSet(g, t)
          /\ SumFunctionOnSet(h, s) = h[c] + SumFunctionOnSet(h, t)
      BY <2>1, <2>3, SumTakesFirst
    <3>5. f[c] \in Nat /\ g[c] \in Nat /\ h[c] = f[c] + g[c]
      BY <3>1
    <3>6. QED BY <3>2, <3>3, <3>4, <3>5
  <2>4. QED BY <2>2, <2>3
<1>2. \A s \in SUBSET S : (\A x \in s : s \ {x} \in T) => s \in T
  BY <1>1
<1> HIDE DEF T
<1>3. S \in T
  BY <1>2, SubsetInduction
<1>4. QED BY <1>3 DEF T

\* Larger values, larger sum.
LEMMA SumIsMonotone ==
  ASSUME NEW f, NEW g, NEW S, IsFiniteSet(S),
         \A x \in S : f[x] \in Nat /\ g[x] \in Nat /\ f[x] <= g[x]
  PROVE  SumFunctionOnSet(f, S) <= SumFunctionOnSet(g, S)
<1> DEFINE d == [x \in S |-> g[x] - f[x]]
<1>1. \A x \in S : d[x] \in Nat /\ g[x] = f[x] + d[x]
  OBVIOUS
<1> HIDE DEF d
<1>2. SumFunctionOnSet(g, S) = SumFunctionOnSet(f, S) + SumFunctionOnSet(d, S)
  BY <1>1, SumOfSums
<1>3. SumFunctionOnSet(f, S) \in Nat /\ SumFunctionOnSet(d, S) \in Nat
  BY <1>1, SumIsNat
<1>4. QED BY <1>2, <1>3

\* No summand exceeds the sum.
LEMMA SumCovers ==
  ASSUME NEW f, NEW S, IsFiniteSet(S), \A x \in S : f[x] \in Nat, NEW x \in S
  PROVE  f[x] <= SumFunctionOnSet(f, S)
<1>1. IsFiniteSet(S \ {x})
  BY FS_RemoveElement
<1>2. SumFunctionOnSet(f, S \ {x}) \in Nat
  BY <1>1, SumIsNat
<1>3. QED BY <1>2, SumTakes

\* Zeros add up to 0.
LEMMA SumOfZeros ==
  ASSUME NEW f, NEW S, IsFiniteSet(S), \A x \in S : f[x] = 0
  PROVE  SumFunctionOnSet(f, S) = 0
<1> DEFINE T == {s \in SUBSET S : SumFunctionOnSet(f, s) = 0}
<1>1. ASSUME NEW s \in SUBSET S, \A x \in s : s \ {x} \in T PROVE s \in T
  <2>1. IsFiniteSet(s)
    BY FS_Subset
  <2>2. s # {} => SumFunctionOnSet(f, s \ {first(s)}) = 0 /\ f[first(s)] = 0
    BY <1>1, FirstIn
  <2>3. QED BY <2>1, <2>2, SumTakesFirst
<1>2. \A s \in SUBSET S : (\A x \in s : s \ {x} \in T) => s \in T
  BY <1>1
<1> HIDE DEF T
<1>3. S \in T
  BY <1>2, SubsetInduction
<1>4. QED BY <1>3 DEF T

\* Values that go to members of R add up to what each member gets.
LEMMA SumByMember ==
  ASSUME NEW amount, NEW to, NEW D, IsFiniteSet(D), NEW R, IsFiniteSet(R),
         \A i \in D : amount[i] \in Nat /\ to[i] \in R
  PROVE  SumFunctionOnSet(amount, D) =
           SumFunctionOnSet([v \in R |-> SumFunctionOnSet(amount, {i \in D : to[i] = v})], R)
<1> DEFINE got(s) == [v \in R |-> SumFunctionOnSet(amount, {i \in s : to[i] = v})]
<1> DEFINE T == {s \in SUBSET D : SumFunctionOnSet(amount, s) = SumFunctionOnSet(got(s), R)}
<1>0. \A s \in SUBSET D : \A v \in R : got(s)[v] \in Nat
  <2> SUFFICES ASSUME NEW s \in SUBSET D, NEW v \in R PROVE got(s)[v] \in Nat
    OBVIOUS
  <2>1. {i \in s : to[i] = v} \in SUBSET D
    OBVIOUS
  <2>2. IsFiniteSet({i \in s : to[i] = v})
    BY <2>1, FS_Subset
  <2>3. SumFunctionOnSet(amount, {i \in s : to[i] = v}) \in Nat
    BY <2>2, SumIsNat
  <2>4. QED BY <2>3
<1>1. ASSUME NEW s \in SUBSET D, \A x \in s : s \ {x} \in T PROVE s \in T
  <2>1. IsFiniteSet(s)
    BY FS_Subset
  <2>2. CASE s = {}
    <3>1. \A v \in R : {i \in s : to[i] = v} = {}
      BY <2>2
    <3>2. \A v \in R : got(s)[v] = 0
      BY <3>1, SumOfNone
    <3> HIDE DEF got
    <3>3. SumFunctionOnSet(got(s), R) = 0
      BY <3>2, SumOfZeros
    <3>4. QED BY <2>2, <3>3, SumOfNone
  <2>3. CASE s # {}
    <3>0. PICK x \in s : TRUE
      BY <2>3
    <3> DEFINE t == s \ {x}  w == to[x]
    <3>1. w \in R /\ amount[x] \in Nat /\ t \in SUBSET D
      OBVIOUS
    <3>2. SumFunctionOnSet(amount, s) = amount[x] + SumFunctionOnSet(amount, t)
      BY <2>1, SumTakes
    <3>3. SumFunctionOnSet(amount, t) = SumFunctionOnSet(got(t), R)
      BY <1>1
    <3>4. \A v \in R \ {w} : {i \in s : to[i] = v} = {i \in t : to[i] = v}
      OBVIOUS
    <3>5. \A v \in R \ {w} : got(s)[v] = got(t)[v]
      BY <3>4
    <3>6. got(s)[w] = amount[x] + got(t)[w]
      <4> DEFINE u == {i \in s : to[i] = w}
      <4>1. u \in SUBSET D /\ x \in u /\ u \ {x} = {i \in t : to[i] = w}
        OBVIOUS
      <4>2. IsFiniteSet(u) /\ \A y \in u : amount[y] \in Nat
        BY <4>1, FS_Subset
      <4> HIDE DEF u
      <4>3. SumFunctionOnSet(amount, u) = amount[x] + SumFunctionOnSet(amount, u \ {x})
        BY <4>1, <4>2, SumTakes
      <4>4. QED BY <3>1, <4>1, <4>3 DEF u
    <3>7. \A v \in R : got(s)[v] \in Nat /\ got(t)[v] \in Nat
      BY <1>0, <3>1
    <3> HIDE DEF got, t, w
    <3>8. SumFunctionOnSet(got(s), R) + got(t)[w] = SumFunctionOnSet(got(t), R) + got(s)[w]
      BY <3>1, <3>5, <3>7, SumChanges
    <3>9. SumFunctionOnSet(got(s), R) \in Nat /\ SumFunctionOnSet(got(t), R) \in Nat
      BY <3>7, SumIsNat
    <3>10. QED BY <3>1, <3>2, <3>3, <3>6, <3>7, <3>8, <3>9
  <2>4. QED BY <2>2, <2>3
<1>2. \A s \in SUBSET D : (\A x \in s : s \ {x} \in T) => s \in T
  BY <1>1
<1>3. D \in T
  <2> HIDE DEF T
  <2>1. QED BY <1>2, SubsetInduction
<1>4. QED BY <1>3

(***************************************************************************)
(* The three contracts together: what is proved of the registry and of the *)
(* validation contract carries over, usage rests on it, and the rewards    *)
(* contract can pay what it owes.                                          *)
(***************************************************************************)
BatchesTypeOK == batches \in [BatchIds -> UsageBatch]

TrustInv == ReleaseInv /\ BatchesTypeOK /\ UsageOfReleased

\* Every step of the three contracts is one of the two or leaves them alone.
LEMMA TrustStepIsReleaseStep == [Next]_contractVars => [ReleaseNext]_releaseVars
BY DEF Next, contractVars, ReleaseNext, releaseVars

\* The rewards contract adds nothing to what the other two may do, so every
\* theorem about them holds of the three together.
THEOREM TrustImplementsRelease == Spec => ReleaseSpec
<1>1. Init => ReleaseInit
  BY DEF Init, ReleaseInit
<1>. QED
  BY <1>1, TrustStepIsReleaseStep, PTL DEF Spec, ReleaseSpec

\* Once final with an approval, for good; once released, never unreleased.
LEMMA ReleasedStays ==
  ASSUME ReleaseInv, [ReleaseNext]_releaseVars, NEW k \in VersionKeys,
         status(k) \in {"Stable", "Quarantined", "Revoked"}, isValidationFinal[k], Approvals(k) # {}
  PROVE  /\ versions'[k].status \in {"Stable", "Quarantined", "Revoked"}
         /\ isValidationFinal'[k] /\ Approvals(k)' # {}
<1>1. isValidationFinal'[k] /\ attestations'[k] = attestations[k]
  BY FinalStays
<1>2. Approvals(k)' # {}
  BY <1>1 DEF Approvals
<1>3. CASE versions' = versions
  BY <1>1, <1>2, <1>3 DEF status
<1>4. CASE RegistryTransaction
  BY <1>1, <1>2, <1>4, RegistryMoves DEF Moved, LifecycleMoves, status, ReleaseInv, Types
<1>. QED
  BY <1>3, <1>4 DEF ReleaseNext, releaseVars, registryVars, Tick

\* Every step of the three contracts keeps the invariant of usage.
LEMMA TrustStep == TrustInv /\ [Next]_contractVars => TrustInv'
<1>. SUFFICES ASSUME TrustInv, [Next]_contractVars PROVE TrustInv'
  OBVIOUS
<1>. USE DEF TrustInv
<1>1. ReleaseInv'
  BY TrustStepIsReleaseStep, ReleaseStep
<1>2. \A id \in BatchIds : id[3] \in VersionKeys
  BY DEF BatchIds
<1>3. \A k \in VersionKeys :
        status(k) \in {"Stable", "Quarantined", "Revoked"} /\ isValidationFinal[k] /\ Approvals(k) # {}
          => /\ versions'[k].status \in {"Stable", "Quarantined", "Revoked"}
             /\ isValidationFinal'[k] /\ Approvals(k)' # {}
  BY TrustStepIsReleaseStep, ReleasedStays
<1>4. CASE batches' = batches
  BY <1>1, <1>2, <1>3, <1>4 DEF BatchesTypeOK, UsageOfReleased, status
<1>5. ASSUME NEW id \in BatchIds, NEW new \in UsageBatch, batches' = [batches EXCEPT ![id] = new],
             new.committed => batches[id].committed \/ status(id[3]) = "Stable"
      PROVE  TrustInv'
  <2>1. BatchesTypeOK'
    BY <1>5 DEF BatchesTypeOK
  <2>2. \A i \in BatchIds : batches'[i].committed =>
          /\ status(i[3]) \in {"Stable", "Quarantined", "Revoked"}
          /\ isValidationFinal[i[3]] /\ Approvals(i[3]) # {}
    BY <1>2, <1>5 DEF BatchesTypeOK, UsageOfReleased, ReleaseInv, EndorsedSound
  <2>. QED
    BY <1>1, <1>2, <1>3, <2>1, <2>2 DEF UsageOfReleased, status
<1>6. ASSUME NEW e \in Epochs, NEW u \in Usages, NEW k \in VersionKeys, commitUsageBatch(e, u, k)
      PROVE  TrustInv'
  <2>. DEFINE id == <<e, u, k>>
  <2>1. id \in BatchIds /\ id[3] = k /\ status(k) = "Stable"
    BY <1>6 DEF commitUsageBatch, usable, BatchIds
  <2>2. batches' = [batches EXCEPT ![id] = [batches[id] EXCEPT !.committed = TRUE]]
    BY <1>6 DEF commitUsageBatch, batchId
  <2>3. [batches[id] EXCEPT !.committed = TRUE] \in UsageBatch
    BY <2>1 DEF BatchesTypeOK, UsageBatch
  <2>. QED
    BY <1>5, <2>1, <2>2, <2>3
<1>7. ASSUME NEW id \in BatchIds, challengeBatch(id) \/ finalizeBatch(id)
      PROVE  TrustInv'
  <2>1. batches[id] \in UsageBatch /\ batches[id].committed
    BY <1>7 DEF challengeBatch, finalizeBatch, batchOpen, BatchesTypeOK
  <2>2. \/ batches' = [batches EXCEPT ![id] = [batches[id] EXCEPT !.challenged = TRUE]]
        \/ batches' = [batches EXCEPT ![id] = [batches[id] EXCEPT !.finalized = TRUE]]
    BY <1>7 DEF challengeBatch, finalizeBatch
  <2>3. /\ [batches[id] EXCEPT !.challenged = TRUE] \in UsageBatch
        /\ [batches[id] EXCEPT !.finalized = TRUE] \in UsageBatch
    BY <2>1 DEF UsageBatch
  <2>. QED
    BY <1>5, <2>1, <2>2, <2>3
<1>8. CASE RewardsTransaction
  BY <1>1, <1>4, <1>6, <1>7, <1>8
    DEF RewardsTransaction, fundEpoch, allocateRewards, claimReward, setRewardPause
<1>. QED
  BY <1>1, <1>4, <1>8 DEF Next, contractVars, rewardsVars

\* Usage is only ever committed for versions that a quorum endorsed and a
\* release manager released, with an approval that still stands.
THEOREM UsageRestsOnReleases == Spec => []UsageOfReleased
<1>1. Init => TrustInv
  <2>. SUFFICES ASSUME Init PROVE TrustInv
    OBVIOUS
  <2>1. ReleaseInv
    BY ReleaseInitInv DEF Init, ReleaseInit
  <2>. QED
    BY <2>1 DEF Init, RewardsInit, TrustInv, BatchesTypeOK, UsageOfReleased, UsageBatch, NoBatch
<1>2. TrustInv => UsageOfReleased
  BY DEF TrustInv
<1>. QED
  BY <1>1, <1>2, TrustStep, PTL DEF Spec

(***************************************************************************)
(* The rewards contract can always pay what it owes.                       *)
(***************************************************************************)
Unclaimed(e) == {v \in Accounts : ~ rewardClaimed[e][v]}

\* What the contract must hold for an epoch: what was paid in and not yet
\* allocated, and what was allocated and not yet claimed.
Reserve(e) == (epochFunded[e] - epochAllocated[e]) + Owed(e)

Reserves == [e \in Epochs |-> Reserve(e)]

NeverOverAllocated == \A e \in Epochs : epochAllocated[e] <= epochFunded[e]

BalanceIsReserves == balance = SumFunctionOnSet(Reserves, Epochs)

RewardsInv == RewardsTypeOK /\ NeverOverAllocated /\ BalanceIsReserves

\* What is left to claim of any allocation is a natural number.
LEMMA OwedIsNat ==
  ASSUME NEW allocated \in [Accounts -> Nat], NEW claimed \in [Accounts -> BOOLEAN]
  PROVE  LET unclaimed == {v \in Accounts : ~ claimed[v]} IN
         SumFunctionOnSet(allocated, unclaimed) \in Nat /\ IsFiniteSet(unclaimed)
<1>. DEFINE unclaimed == {v \in Accounts : ~ claimed[v]}
<1>1. unclaimed \in SUBSET Accounts
  OBVIOUS
<1>2. IsFiniteSet(unclaimed)
  BY <1>1, RewardsAssumption, FS_Subset
<1>3. SumFunctionOnSet(allocated, unclaimed) \in Nat
  BY <1>1, <1>2, SumIsNat
<1>. QED
  BY <1>2, <1>3

\* Reserves, and what is owed within them, are natural numbers.
LEMMA ReservesAreNat ==
  /\ RewardsTypeOK /\ NeverOverAllocated =>
       \A e \in Epochs : Reserves[e] \in Nat /\ Owed(e) \in Nat /\ Owed(e) <= Reserves[e]
  /\ RewardsTypeOK' /\ NeverOverAllocated' => \A e \in Epochs : Reserves'[e] \in Nat
<1>1. ASSUME RewardsTypeOK, NeverOverAllocated, NEW e \in Epochs
      PROVE  Reserves[e] \in Nat /\ Owed(e) \in Nat /\ Owed(e) <= Reserves[e]
  <2>1. Owed(e) \in Nat
    BY <1>1, OwedIsNat DEF RewardsTypeOK, Owed
  <2>. QED
    BY <1>1, <2>1 DEF RewardsTypeOK, NeverOverAllocated, Reserves, Reserve
<1>2. ASSUME RewardsTypeOK', NeverOverAllocated', NEW e \in Epochs PROVE Reserves'[e] \in Nat
  <2>1. Owed(e)' \in Nat
    BY <1>2, OwedIsNat DEF RewardsTypeOK, Owed
  <2>. QED
    BY <1>2, <2>1 DEF RewardsTypeOK, NeverOverAllocated, Reserves, Reserve
<1>. QED
  BY <1>1, <1>2

\* When the reserve of one epoch changes, the sum changes by as much.
LEMMA ReserveMoves ==
  ASSUME RewardsTypeOK, NeverOverAllocated, RewardsTypeOK', NeverOverAllocated',
         NEW e \in Epochs, \A f \in Epochs \ {e} : Reserves'[f] = Reserves[f]
  PROVE  SumFunctionOnSet(Reserves', Epochs) + Reserves[e] =
           SumFunctionOnSet(Reserves, Epochs) + Reserves'[e]
<1>1. \A f \in Epochs : Reserves[f] \in Nat /\ Reserves'[f] \in Nat
  BY ReservesAreNat
<1>2. IsFiniteSet(Epochs)
  BY RewardsAssumption
<1>. QED
  BY <1>1, <1>2, SumChanges

\* A step that leaves every reserve and the balance alone keeps the sum.
LEMMA ReservesKept ==
  ASSUME RewardsInv, RewardsTypeOK', NeverOverAllocated', balance' = balance,
         \A e \in Epochs : Reserves'[e] = Reserves[e]
  PROVE  RewardsInv'
<1>1. Reserves' = Reserves
  BY DEF Reserves
<1>. QED
  BY <1>1 DEF RewardsInv, BalanceIsReserves

\* Funding an epoch adds the same to its reserve and to the balance.
LEMMA FundingKeeps ==
  ASSUME RewardsInv, NEW e \in Epochs, NEW value \in 1 .. MaxFunding, fundEpoch(e, value)
  PROVE  RewardsInv'
<1>. USE DEF RewardsInv
<1>1. RewardsTypeOK' /\ NeverOverAllocated'
  BY RewardsAssumption DEF RewardsTypeOK, NeverOverAllocated, fundEpoch
<1>2. /\ \A f \in Epochs \ {e} : Reserves'[f] = Reserves[f]
      /\ Reserves'[e] = Reserves[e] + value
  <2>1. \A f \in Epochs : Owed(f)' = Owed(f)
    BY DEF Owed, fundEpoch
  <2>2. Owed(e) \in Nat
    BY ReservesAreNat
  <2>. QED
    BY <2>1, <2>2, RewardsAssumption DEF Reserves, Reserve, fundEpoch, RewardsTypeOK
<1>3. SumFunctionOnSet(Reserves', Epochs) + Reserves[e] =
        SumFunctionOnSet(Reserves, Epochs) + Reserves'[e]
  BY <1>1, <1>2, ReserveMoves
<1>4. /\ Reserves[e] \in Nat /\ SumFunctionOnSet(Reserves, Epochs) \in Nat
      /\ SumFunctionOnSet(Reserves', Epochs) \in Nat
  BY <1>1, ReservesAreNat, SumIsNat, RewardsAssumption
<1>5. balance' = balance + value /\ balance \in Nat
  BY DEF fundEpoch, RewardsTypeOK
<1>. QED
  BY <1>1, <1>2, <1>3, <1>4, <1>5 DEF BalanceIsReserves

\* What the recipients of a list get, one by one, is its total, and goes to
\* accounts that had not claimed.
LEMMA PayoutsAddUp ==
  ASSUME NEW payouts \in PayoutLists, NEW U \in SUBSET Accounts,
         \A i \in DOMAIN payouts : payouts[i].to \in U
  PROVE  /\ totalOf(payouts) \in Nat
         /\ \A v \in Accounts : paidTo(payouts, v) \in Nat
         /\ SumFunctionOnSet([v \in U |-> paidTo(payouts, v)], U) = totalOf(payouts)
<1>. DEFINE D == DOMAIN payouts
            amount == amounts(payouts)
            to == [i \in D |-> payouts[i].to]
<1>1. PICK n \in 1 .. MaxPayouts : payouts \in [1 .. n -> Payout]
  BY DEF PayoutLists
<1>2. IsFiniteSet(D) /\ DOMAIN amount = D
  <2>1. n \in Nat
    BY <1>1, RewardsAssumption
  <2>. QED
    BY <1>1, <2>1, FS_Interval DEF amounts
<1>3. \A i \in D : amount[i] \in Nat /\ to[i] \in U
  BY <1>1, RewardsAssumption DEF Payout, amounts
<1>4. totalOf(payouts) = SumFunctionOnSet(amount, D)
  BY <1>2 DEF totalOf, SumFunction
<1>5. \A v \in Accounts : paidTo(payouts, v) = SumFunctionOnSet(amount, {i \in D : to[i] = v})
  <2>. SUFFICES ASSUME NEW v \in Accounts
                PROVE  paidTo(payouts, v) = SumFunctionOnSet(amount, {i \in D : to[i] = v})
    OBVIOUS
  <2>1. {i \in DOMAIN payouts : payouts[i].to = v} = {i \in D : to[i] = v}
    OBVIOUS
  <2>. QED
    BY <2>1 DEF paidTo
<1>6. IsFiniteSet(U)
  BY RewardsAssumption, FS_Subset
<1>7. [v \in U |-> paidTo(payouts, v)] = [v \in U |-> SumFunctionOnSet(amount, {i \in D : to[i] = v})]
  BY <1>5
<1>8. ASSUME NEW v \in Accounts PROVE SumFunctionOnSet(amount, {i \in D : to[i] = v}) \in Nat
  <2>1. {i \in D : to[i] = v} \in SUBSET D
    OBVIOUS
  <2>2. IsFiniteSet({i \in D : to[i] = v})
    BY <1>2, <2>1, FS_Subset
  <2>. HIDE DEF D, amount, to
  <2>. QED
    BY <1>3, <2>2, SumIsNat
<1>. HIDE DEF D, amount, to
<1>9. SumFunctionOnSet(amount, D) \in Nat
  BY <1>2, <1>3, SumIsNat
<1>10. SumFunctionOnSet(amount, D) =
         SumFunctionOnSet([v \in U |-> SumFunctionOnSet(amount, {i \in D : to[i] = v})], U)
  BY <1>2, <1>3, <1>6, SumByMember
<1>. QED
  BY <1>4, <1>5, <1>7, <1>8, <1>9, <1>10

\* An allocation moves its total from unallocated to owed within the epoch.
LEMMA AllocationKeeps ==
  ASSUME RewardsInv, NEW id \in BatchIds, NEW payouts \in PayoutLists,
         allocateRewards(id, payouts)
  PROVE  RewardsInv'
<1>. DEFINE e == epochOf(id)
            unclaimed == {v \in Accounts : ~ rewardClaimed[e][v]}
            old == rewardAllocations[e]
            paid == [v \in unclaimed |-> paidTo(payouts, v)]
            new == [v \in Accounts |-> old[v] + paidTo(payouts, v)]
<1>. USE DEF RewardsInv
<1>1. e \in Epochs /\ old \in [Accounts -> Nat]
  BY DEF BatchIds, epochOf, RewardsTypeOK
<1>2. \A i \in DOMAIN payouts : payouts[i].to \in unclaimed
  BY DEF allocateRewards, allUnclaimed, PayoutLists, Payout
<1>3. /\ totalOf(payouts) \in Nat
      /\ \A v \in Accounts : paidTo(payouts, v) \in Nat
      /\ SumFunctionOnSet(paid, unclaimed) = totalOf(payouts)
  <2>1. unclaimed \in SUBSET Accounts
    OBVIOUS
  <2>. HIDE DEF unclaimed
  <2>. QED
    BY <1>2, <2>1, PayoutsAddUp
<1>4. new \in [Accounts -> Nat]
  BY <1>1, <1>3
<1>5. /\ rewardAllocations' = [rewardAllocations EXCEPT ![e] = new]
      /\ epochAllocated' = [epochAllocated EXCEPT ![e] = @ + totalOf(payouts)]
      /\ epochAllocated[e] + totalOf(payouts) <= epochFunded[e]
      /\ UNCHANGED <<batches, epochFunded, rewardClaimed, rewardPauseStates, balance>>
  BY DEF allocateRewards
<1>6. batchRewardsAllocated' \in [BatchIds -> BOOLEAN]
  BY DEF allocateRewards, RewardsTypeOK
<1>. HIDE DEF e, new
<1>7. RewardsTypeOK' /\ NeverOverAllocated'
  BY <1>1, <1>3, <1>4, <1>5, <1>6 DEF RewardsTypeOK, NeverOverAllocated
<1>8. SumFunctionOnSet(new, unclaimed) =
        SumFunctionOnSet(old, unclaimed) + SumFunctionOnSet(paid, unclaimed)
  <2>1. \A v \in unclaimed : old[v] \in Nat /\ paid[v] \in Nat /\ new[v] = old[v] + paid[v]
    BY <1>1, <1>3 DEF new
  <2>2. IsFiniteSet(unclaimed)
    BY <1>1, OwedIsNat DEF RewardsTypeOK
  <2>. HIDE DEF unclaimed, old, paid
  <2>. QED
    BY <2>1, <2>2, SumOfSums
<1>9. Owed(e)' = Owed(e) + totalOf(payouts)
  BY <1>1, <1>3, <1>5, <1>8 DEF Owed, RewardsTypeOK
<1>10. \A f \in Epochs \ {e} : Owed(f)' = Owed(f)
  BY <1>1, <1>5 DEF Owed, RewardsTypeOK
<1>11. \A f \in Epochs : Reserves'[f] = Reserves[f]
  <2>1. ASSUME NEW f \in Epochs PROVE Owed(f) \in Nat
    BY ReservesAreNat
  <2>. QED
    BY <1>1, <1>3, <1>5, <1>9, <1>10, <2>1 DEF Reserves, Reserve, RewardsTypeOK
<1>. QED
  BY <1>5, <1>7, <1>11, ReservesKept

\* A claim takes the same from what is owed and from the balance.
LEMMA ClaimKeeps ==
  ASSUME RewardsInv, NEW v \in Accounts, NEW e \in Epochs, claimReward(v, e)
  PROVE  RewardsInv'
<1>. DEFINE unclaimed == {w \in Accounts : ~ rewardClaimed[e][w]}
            amount == rewardAllocations[e][v]
<1>. USE DEF RewardsInv
<1>1. /\ amount \in Nat /\ v \in unclaimed
      /\ rewardClaimed' = [rewardClaimed EXCEPT ![e][v] = TRUE]
      /\ balance >= amount /\ balance' = balance - amount
      /\ UNCHANGED <<batches, epochFunded, epochAllocated, rewardAllocations,
                     batchRewardsAllocated, rewardPauseStates>>
  BY DEF claimReward, claimable, RewardsTypeOK
<1>2. RewardsTypeOK' /\ NeverOverAllocated'
  BY <1>1 DEF RewardsTypeOK, NeverOverAllocated
<1>3. {w \in Accounts : ~ rewardClaimed'[e][w]} = unclaimed \ {v}
  BY <1>1 DEF RewardsTypeOK
<1>4. SumFunctionOnSet(rewardAllocations[e], unclaimed) =
        amount + SumFunctionOnSet(rewardAllocations[e], unclaimed \ {v})
  <2>1. IsFiniteSet(unclaimed) /\ \A w \in unclaimed : rewardAllocations[e][w] \in Nat
    BY OwedIsNat DEF RewardsTypeOK
  <2>. HIDE DEF unclaimed
  <2>. QED
    BY <1>1, <2>1, SumTakes
<1>5. Owed(e) = amount + Owed(e)'
  BY <1>1, <1>3, <1>4 DEF Owed
<1>6. \A f \in Epochs \ {e} : Owed(f)' = Owed(f)
  BY <1>1 DEF Owed, RewardsTypeOK
<1>7. Owed(e)' \in Nat
  BY <1>2, OwedIsNat DEF RewardsTypeOK, Owed
<1>8. /\ \A f \in Epochs \ {e} : Reserves'[f] = Reserves[f]
      /\ Reserves[e] = Reserves'[e] + amount
  BY <1>1, <1>5, <1>6, <1>7 DEF Reserves, Reserve, RewardsTypeOK
<1>9. SumFunctionOnSet(Reserves', Epochs) + Reserves[e] =
        SumFunctionOnSet(Reserves, Epochs) + Reserves'[e]
  BY <1>2, <1>8, ReserveMoves
<1>10. /\ Reserves'[e] \in Nat /\ SumFunctionOnSet(Reserves, Epochs) \in Nat
       /\ SumFunctionOnSet(Reserves', Epochs) \in Nat
  BY <1>2, ReservesAreNat, SumIsNat, RewardsAssumption
<1>. QED
  BY <1>1, <1>2, <1>8, <1>9, <1>10 DEF BalanceIsReserves

\* Every step of the three contracts keeps the invariant of the rewards.
LEMMA RewardsStep == now \in Nat /\ RewardsInv /\ [Next]_contractVars => RewardsInv'
<1>. SUFFICES ASSUME now \in Nat, RewardsInv, [Next]_contractVars PROVE RewardsInv'
  OBVIOUS
<1>1. ASSUME UNCHANGED <<epochFunded, epochAllocated, rewardAllocations, rewardClaimed, balance>>,
             RewardsTypeOK'
      PROVE  RewardsInv'
  <2>1. NeverOverAllocated' /\ \A e \in Epochs : Reserves'[e] = Reserves[e]
    BY <1>1 DEF RewardsInv, NeverOverAllocated, Reserves, Reserve, Owed
  <2>. QED
    BY <1>1, <2>1, ReservesKept
<1>2. ASSUME NEW id \in BatchIds, NEW new \in UsageBatch, batches' = [batches EXCEPT ![id] = new],
             UNCHANGED <<epochFunded, epochAllocated, rewardAllocations, rewardClaimed,
                         batchRewardsAllocated, rewardPauseStates, balance>>
      PROVE  RewardsInv'
  BY <1>1, <1>2 DEF RewardsInv, RewardsTypeOK
<1>3. ASSUME NEW e \in Epochs, NEW u \in Usages, NEW k \in VersionKeys, commitUsageBatch(e, u, k)
      PROVE  RewardsInv'
  <2>1. batchId(e, u, k) \in BatchIds
    BY DEF batchId, BatchIds
  <2>2. [batches[batchId(e, u, k)] EXCEPT !.committed = TRUE] \in UsageBatch
    BY <2>1 DEF RewardsInv, RewardsTypeOK, UsageBatch
  <2>. QED
    BY <1>2, <1>3, <2>1, <2>2 DEF commitUsageBatch
<1>4. ASSUME NEW id \in BatchIds, challengeBatch(id) \/ finalizeBatch(id) PROVE RewardsInv'
  <2>1. /\ [batches[id] EXCEPT !.challenged = TRUE] \in UsageBatch
        /\ [batches[id] EXCEPT !.finalized = TRUE] \in UsageBatch
    BY DEF RewardsInv, RewardsTypeOK, UsageBatch
  <2>. QED
    BY <1>2, <1>4, <2>1 DEF challengeBatch, finalizeBatch
<1>5. ASSUME NEW s \in RewardScopes, NEW p \in PauseInput, setRewardPause(s, p)
      PROVE  RewardsInv'
  <2>1. p \in PauseState
    BY PauseInputs
  <2>. QED
    BY <1>1, <1>5, <2>1 DEF setRewardPause, RewardsInv, RewardsTypeOK
<1>6. CASE UNCHANGED rewardsVars
  BY <1>1, <1>6 DEF rewardsVars, RewardsInv, RewardsTypeOK
<1>7. CASE RewardsTransaction
  BY <1>3, <1>4, <1>5, <1>7, FundingKeeps, AllocationKeeps, ClaimKeeps DEF RewardsTransaction
<1>. QED
  BY <1>6, <1>7 DEF Next, contractVars

\* At deployment nothing is allocated and nothing owed.
LEMMA RewardsStart == Init => RewardsInv
<1>. SUFFICES ASSUME Init PROVE RewardsInv
  OBVIOUS
<1>1. RewardsTypeOK /\ NeverOverAllocated
  BY DEF Init, RewardsInit, RewardsTypeOK, NeverOverAllocated, UsageBatch, NoBatch, PauseState,
         NotPaused
<1>2. ASSUME NEW e \in Epochs PROVE Owed(e) = 0
  <2>. DEFINE unclaimed == {v \in Accounts : ~ rewardClaimed[e][v]}
  <2>1. IsFiniteSet(unclaimed)
    BY <1>1, OwedIsNat DEF RewardsTypeOK
  <2>2. \A v \in unclaimed : rewardAllocations[e][v] = 0
    BY DEF Init, RewardsInit
  <2>. HIDE DEF unclaimed
  <2>3. SumFunctionOnSet(rewardAllocations[e], unclaimed) = 0
    BY <2>1, <2>2, SumOfZeros
  <2>. QED
    BY <2>3 DEF Owed, unclaimed
<1>3. \A e \in Epochs : Reserves[e] = 0
  BY <1>2 DEF Reserves, Reserve, Init, RewardsInit
<1>4. SumFunctionOnSet(Reserves, Epochs) = 0
  BY <1>3, RewardsAssumption, SumOfZeros
<1>. QED
  BY <1>1, <1>4 DEF RewardsInv, BalanceIsReserves, Init, RewardsInit

\* What is owed is within the reserves, epoch by epoch.
LEMMA ReservesCover == RewardsInv => Solvent
<1>. SUFFICES ASSUME RewardsInv PROVE Solvent
  OBVIOUS
<1>. DEFINE owed == [e \in Epochs |-> Owed(e)]
<1>1. \A e \in Epochs : owed[e] \in Nat /\ Reserves[e] \in Nat /\ owed[e] <= Reserves[e]
  BY ReservesAreNat DEF RewardsInv
<1>2. SumFunction(owed) = SumFunctionOnSet(owed, Epochs)
  BY DEF SumFunction
<1>. HIDE DEF owed
<1>3. IsFiniteSet(Epochs)
  BY RewardsAssumption
<1>4. SumFunctionOnSet(owed, Epochs) <= SumFunctionOnSet(Reserves, Epochs)
  BY <1>1, <1>3, SumIsMonotone
<1>5. SumFunctionOnSet(owed, Epochs) \in Nat /\ SumFunctionOnSet(Reserves, Epochs) \in Nat
  BY <1>1, <1>3, SumIsNat
<1>. QED
  BY <1>2, <1>4, <1>5 DEF Solvent, RewardsInv, BalanceIsReserves, owed

\* The storage of the three contracts keeps the declared types.
THEOREM ContractTypes == Spec => []TypeOK
<1>1. Init => ReleaseInv
  BY ReleaseInitInv DEF Init, ReleaseInit
<1>2. ReleaseInv /\ [Next]_contractVars => ReleaseInv'
  BY TrustStepIsReleaseStep, ReleaseStep
<1>3. ReleaseInv /\ RewardsInv /\ [Next]_contractVars => RewardsInv'
  BY RewardsStep DEF ReleaseInv, Types, RegistryTypeOK
<1>4. ReleaseInv /\ RewardsInv => TypeOK
  BY DEF ReleaseInv, Types, RewardsInv, TypeOK
<1>. QED
  BY <1>1, <1>2, <1>3, <1>4, RewardsStart, PTL DEF Spec

\* allocateRewards and claimReward: whatever was allocated over whichever epochs
\* and recipients, the one balance pays all of it, in every order of claims.
THEOREM RewardsAreFunded == Spec => []Solvent
<1>1. Init => ReleaseInv
  BY ReleaseInitInv DEF Init, ReleaseInit
<1>2. ReleaseInv /\ [Next]_contractVars => ReleaseInv'
  BY TrustStepIsReleaseStep, ReleaseStep
<1>3. ReleaseInv /\ RewardsInv /\ [Next]_contractVars => RewardsInv'
  BY RewardsStep DEF ReleaseInv, Types, RegistryTypeOK
<1>. QED
  BY <1>1, <1>2, <1>3, RewardsStart, ReservesCover, PTL DEF Spec

\* No claim reverts for want of funds: where claimReward lets a recipient claim,
\* the contract holds the amount.
THEOREM ClaimsAreFunded ==
  Spec => [](\A v \in Accounts, e \in Epochs :
               claimable(v, e) => balance >= rewardAllocations[e][v])
<1>1. ASSUME TypeOK, Solvent, NEW v \in Accounts, NEW e \in Epochs, claimable(v, e)
      PROVE  balance >= rewardAllocations[e][v]
  <2>. DEFINE unclaimed == {w \in Accounts : ~ rewardClaimed[e][w]}
              owed == [f \in Epochs |-> Owed(f)]
  <2>1. IsFiniteSet(unclaimed) /\ v \in unclaimed
    BY <1>1, OwedIsNat DEF claimable, TypeOK, RewardsTypeOK
  <2>2. \A w \in unclaimed : rewardAllocations[e][w] \in Nat
    BY <1>1 DEF TypeOK, RewardsTypeOK
  <2>3. \A f \in Epochs : owed[f] \in Nat
    BY <1>1, OwedIsNat DEF TypeOK, RewardsTypeOK, Owed
  <2>4. balance >= SumFunctionOnSet(owed, Epochs) /\ balance \in Nat
    BY <1>1 DEF Solvent, SumFunction, TypeOK, RewardsTypeOK
  <2>. HIDE DEF unclaimed, owed
  <2>5. rewardAllocations[e][v] <= SumFunctionOnSet(rewardAllocations[e], unclaimed)
    BY <2>1, <2>2, SumCovers
  <2>6. owed[e] = SumFunctionOnSet(rewardAllocations[e], unclaimed)
    BY DEF owed, unclaimed, Owed
  <2>7. owed[e] <= SumFunctionOnSet(owed, Epochs)
    BY <2>3, RewardsAssumption, SumCovers
  <2>8. SumFunctionOnSet(owed, Epochs) \in Nat
    BY <2>3, RewardsAssumption, SumIsNat
  <2>. QED
    BY <1>1, <2>3, <2>4, <2>5, <2>6, <2>7, <2>8 DEF TypeOK, RewardsTypeOK
<1>2. TypeOK /\ Solvent =>
        \A v \in Accounts, e \in Epochs : claimable(v, e) => balance >= rewardAllocations[e][v]
  BY <1>1
<1>. QED
  BY <1>2, ContractTypes, RewardsAreFunded, PTL

\* The validation contract finalizes candidates only, which is all that the
\* registry alone assumes of it: its theorems hold of the three contracts.
THEOREM TrustImplementsRegistry == Spec => RegistryAloneSpec
<1>1. Init => RegistryAloneInit
  BY DEF Init, ValidationInit, RegistryAloneInit
<1>2. ValidationTransaction /\ UNCHANGED <<registryVars, now>> =>
        [RegistryAloneNext]_<<registryVars, isValidationFinal, now>>
  BY DEF ValidationTransaction, bindIdentity, unbindIdentity, setValidatorThreshold,
         submitAttestation, challengeAttestation, finalizeValidation, ValidationFinalizes,
         RegistryAloneNext
<1>3. [Next]_contractVars => [RegistryAloneNext]_<<registryVars, isValidationFinal, now>>
  BY <1>2 DEF Next, contractVars, validationVars, RegistryAloneNext
<1>. QED
  BY <1>1, <1>3, PTL DEF Spec, RegistryAloneSpec
================================================================================
