--------------------------------- MODULE Indexer ---------------------------------
(***************************************************************************)
(* The event indexer: the public query model that is derived from the      *)
(* events of the three contracts.                                          *)
(*                                                                         *)
(* The index depends on nothing but the events handled so far, in their    *)
(* order, and a reorganisation rolls it back (rollback_on_reorg, external).*)
(* So it is compared with the contracts at the block it has reached: every *)
(* transaction is one step that also runs the handlers of its events, in   *)
(* the order in which the contract emits them.  A handler is an operator   *)
(* from the index to the index; one whose getOrThrow finds no row stops    *)
(* the indexer, which is recorded in the field thrown.                     *)
(***************************************************************************)
EXTENDS TrustContracts

CONSTANT NoEntity     \* a key without an entity

VARIABLE index       \* the tables, one function each, and the metrics row

indexedVars == <<contractVars, index>>

\* uint8(DefenseStatus) and uint8(ReceiptResolution), as the events carry them.
\* A receipt that does not exist ("None") has no code: no event speaks of it.
StatusCode ==
  [None |-> 0, Draft |-> 1, Candidate |-> 2, Stable |-> 3, Rejected |-> 4,
   Quarantined |-> 5, Revoked |-> 6]
ResolutionCode == [Open |-> 0, Linked |-> 1, Resolved |-> 2, Rejected |-> 3]

\* The entities of schema.graphql, as far as the handlers write them.
DefenseVersionEntity ==
  [status : 0 .. 6, replayReportHash : Hashes \cup {NoHash}, validationFinal : BOOLEAN,
   passingAttestations : Nat, validationThreshold : Nat]
ThreatReceiptEntity == [linkedVersionKey : VersionKeys \cup {NoKey}, resolution : 0 .. 3]
ValidatorEntity ==
  [wallet : Accounts, active : BOOLEAN, submittedCount : Nat, passingCount : Nat,
   challengedCount : Nat]
AttestationEntity == [passed : BOOLEAN, challenged : BOOLEAN]
UsageBatchEntity == [challenged : BOOLEAN, finalized : BOOLEAN, rewardAllocated : Nat]

\* A missing row is no row.  Defenses are bytes32 and version numbers triples of
\* uint32: there are finitely many.
ASSUME IndexerAssumption ==
  /\ IsFiniteSet(Defenses)
  /\ IsFiniteSet(Numbers)
  /\ NoEntity \notin DefenseVersionEntity
  /\ NoEntity \notin ThreatReceiptEntity
  /\ NoEntity \notin ValidatorEntity
  /\ NoEntity \notin AttestationEntity
  /\ NoEntity \notin UsageBatchEntity

metricsDefaults ==
  [defenseCount |-> 0, versionCount |-> 0, stableVersionCount |-> 0,
   quarantinedVersionCount |-> 0, receiptCount |-> 0, attestationCount |-> 0,
   passingAttestationCount |-> 0, protectedEventCount |-> 0, rewardClaimed |-> 0,
   validatorThreshold |-> 0]

EmptyIndex ==
  [Defense        |-> [d \in Defenses |-> NoEntity],
   DefenseVersion |-> [k \in VersionKeys |-> NoEntity],
   SafetyAction   |-> [k \in VersionKeys |-> 0],     \* rows of a version, one per event
   ThreatReceipt  |-> [r \in Receipts |-> NoEntity],
   Validator      |-> [a \in Agents |-> NoEntity],
   Attestation    |-> [k \in VersionKeys |-> [a \in Agents |-> NoEntity]],
   UsageBatch     |-> [id \in BatchIds |-> NoEntity],
   PauseState     |-> [s \in RegistryScopes \cup RewardScopes |-> NoEntity],
   metrics        |-> metricsDefaults,
   thrown         |-> FALSE]

\* context.<Entity>.getOrThrow(id): the handler goes on with the row, or throws.
WithRow(db, row, handled) == IF row = NoEntity THEN [db EXCEPT !.thrown = TRUE] ELSE handled

One(condition) == IF condition THEN 1 ELSE 0

(***************************************************************************)
(* The handlers.                                                           *)
(***************************************************************************)
OnDefenseRegistered(db, d, agent) ==
  [db EXCEPT !.Defense[d] = agent, !.metrics.defenseCount = @ + 1]

OnDefenseVersionPublished(db, k, code) ==
  [db EXCEPT
     !.DefenseVersion[k] =
        [status |-> code, replayReportHash |-> NoHash, validationFinal |-> FALSE,
         passingAttestations |-> 0, validationThreshold |-> 0],
     !.metrics.versionCount = @ + 1]

OnReplayBundlePublished(db, k, reportHash) ==
  WithRow(db, db.DefenseVersion[k],
          [db EXCEPT !.DefenseVersion[k].replayReportHash = reportHash])

\* Mutant: what a version leaves is not taken off the count.
transitionForward(metrics, oldStatus, newStatus) ==
  [metrics EXCEPT
     !.stableVersionCount = @ + One(newStatus = 3),
     !.quarantinedVersionCount = @ + One(newStatus = 4)]

\* The counters move with the old and the new status; the codes are the source's.
\* (The handler computes them in place, as the function of this name does in model.ts.)
transitionVersionMetrics(metrics, oldStatus, newStatus) ==
  [metrics EXCEPT
     !.stableVersionCount = @ + One(newStatus = 3) - One(oldStatus = 3),
     !.quarantinedVersionCount = @ + One(newStatus = 4) - One(oldStatus = 4)]

OnVersionStatusChanged(db, k, oldStatus, newStatus) ==
  WithRow(db, db.DefenseVersion[k],
          [db EXCEPT
             !.DefenseVersion[k].status = newStatus,
             !.metrics = transitionVersionMetrics(@, oldStatus, newStatus)])

OnVersionSafetyAction(db, k) == [db EXCEPT !.SafetyAction[k] = @ + 1]

OnThreatReceiptPublished(db, r) ==
  [db EXCEPT
     !.ThreatReceipt[r] = [linkedVersionKey |-> NoKey, resolution |-> 0],
     !.metrics.receiptCount = @ + 1]

OnThreatReceiptLinked(db, r, k) ==
  WithRow(db, db.ThreatReceipt[r], [db EXCEPT !.ThreatReceipt[r].linkedVersionKey = k])

\* Mutant: the row is written afresh, the link with it.
OnThreatReceiptResolutionChangedAfresh(db, r, code) ==
  WithRow(db, db.ThreatReceipt[r],
          [db EXCEPT !.ThreatReceipt[r] = [linkedVersionKey |-> NoKey, resolution |-> code]])

OnThreatReceiptResolutionChanged(db, r, code) ==
  WithRow(db, db.ThreatReceipt[r], [db EXCEPT !.ThreatReceipt[r].resolution = code])

\* Mutant: the row is written afresh, the counters with it.
OnValidatorIdentitySetAfresh(db, wallet, agent, active) ==
  [db EXCEPT !.Validator[agent] =
     [wallet |-> wallet, active |-> active, submittedCount |-> 0, passingCount |-> 0,
      challengedCount |-> 0]]

OnValidatorIdentitySet(db, wallet, agent, active) ==
  LET row == db.Validator[agent] IN
  [db EXCEPT !.Validator[agent] =
     IF row = NoEntity
     THEN [wallet |-> wallet, active |-> active, submittedCount |-> 0, passingCount |-> 0,
           challengedCount |-> 0]
     ELSE [row EXCEPT !.wallet = wallet, !.active = active]]

OnAttestationSubmitted(db, k, agent, passed) ==
  WithRow(db, db.Validator[agent],
    [db EXCEPT
       !.Attestation[k][agent] = [passed |-> passed, challenged |-> FALSE],
       !.Validator[agent].submittedCount = @ + 1,
       !.Validator[agent].passingCount = @ + One(passed),
       !.metrics.attestationCount = @ + 1,
       !.metrics.passingAttestationCount = @ + One(passed)])

OnAttestationChallenged(db, k, agent) ==
  IF NoEntity \in {db.Attestation[k][agent], db.Validator[agent]}
  THEN [db EXCEPT !.thrown = TRUE]
  ELSE [db EXCEPT !.Attestation[k][agent].challenged = TRUE,
                  !.Validator[agent].challengedCount = @ + 1]

OnValidationFinalized(db, k, passing, threshold) ==
  WithRow(db, db.DefenseVersion[k],
    [db EXCEPT !.DefenseVersion[k].validationFinal = TRUE,
               !.DefenseVersion[k].passingAttestations = passing,
               !.DefenseVersion[k].validationThreshold = threshold])

OnValidatorThresholdChanged(db, threshold) ==
  [db EXCEPT !.metrics.validatorThreshold = threshold]

\* Every batch counts for one protected event.
OnUsageBatchRecorded(db, id) ==
  [db EXCEPT
     !.UsageBatch[id] = [challenged |-> FALSE, finalized |-> FALSE, rewardAllocated |-> 0],
     !.metrics.protectedEventCount = @ + 1]

OnUsageBatchChallenged(db, id) ==
  WithRow(db, db.UsageBatch[id], [db EXCEPT !.UsageBatch[id].challenged = TRUE])

OnUsageBatchFinalized(db, id) ==
  WithRow(db, db.UsageBatch[id], [db EXCEPT !.UsageBatch[id].finalized = TRUE])

OnRewardsAllocated(db, id, total) ==
  WithRow(db, db.UsageBatch[id], [db EXCEPT !.UsageBatch[id].rewardAllocated = total])

OnRewardClaimed(db, amount) == [db EXCEPT !.metrics.rewardClaimed = @ + amount]

OnProtocolPaused(db, scope, state) == [db EXCEPT !.PauseState[scope] = state]

(***************************************************************************)
(* A transaction and the handlers of its events, in the order emitted.     *)
(***************************************************************************)
Indexes(db) == index' = db

publishReplayBundleEvents(k, reportHash) ==
  OnReplayBundlePublished(
    OnVersionStatusChanged(index, k, StatusCode["Draft"], StatusCode["Candidate"]),
    k, reportHash)

changeStatusEvents(k, newStatus) ==
  OnVersionStatusChanged(index, k, StatusCode[status(k)], StatusCode[newStatus])

RegistryIndexed ==
  \/ setValidationRegistry /\ Indexes(index)
  \/ \E c \in Accounts, d \in Defenses, a \in Agents :
       registerDefense(c, d, a) /\ Indexes(OnDefenseRegistered(index, d, a))
  \/ \E c \in Accounts, d \in Defenses, n \in Numbers, h \in Hashes,
        s \in VersionKeys \cup {NoKey} :
       /\ publishVersion(c, d, n, h, s)
       /\ Indexes(OnDefenseVersionPublished(index, versionKey(d, n), StatusCode["Draft"]))
  \/ \E c \in Accounts, k \in VersionKeys, h \in Hashes :
       publishReplayBundle(c, k, h) /\ Indexes(publishReplayBundleEvents(k, h))
  \/ \E k \in VersionKeys : promoteVersion(k) /\ Indexes(changeStatusEvents(k, "Stable"))
  \/ \E k \in VersionKeys :
       /\ rejectVersion(k)
       /\ Indexes(OnVersionSafetyAction(changeStatusEvents(k, "Rejected"), k))
  \/ \E k \in VersionKeys, s \in VersionKeys \cup {NoKey} :
       /\ quarantineVersion(k, s)
       /\ Indexes(OnVersionSafetyAction(changeStatusEvents(k, "Quarantined"), k))
  \/ \E k \in VersionKeys, s \in VersionKeys \cup {NoKey} :
       /\ revokeVersion(k, s)
       /\ Indexes(OnVersionSafetyAction(changeStatusEvents(k, "Revoked"), k))
  \/ \E r \in Receipts : publishReceipt(r) /\ Indexes(OnThreatReceiptPublished(index, r))
  \/ \E r \in Receipts, k \in VersionKeys :
       /\ linkDefense(r, k)
       /\ Indexes(OnThreatReceiptResolutionChanged(
                    OnThreatReceiptLinked(index, r, k), r, ResolutionCode["Linked"]))
  \/ \E r \in Receipts, s \in ReceiptResolution :
       /\ updateResolution(r, s)
       /\ Indexes(OnThreatReceiptResolutionChanged(index, r, ResolutionCode[s]))
  \/ \E s \in RegistryScopes \cap PausableScopes, p \in PauseInput :
       setProtocolPause(s, p) /\ Indexes(OnProtocolPaused(index, s, p))

ValidationIndexed ==
  \/ \E v \in Accounts, a \in Agents :
       \/ bindIdentity(v, a) /\ Indexes(OnValidatorIdentitySet(index, v, a, TRUE))
       \/ unbindIdentity(v, a) /\ Indexes(OnValidatorIdentitySet(index, v, a, FALSE))
  \/ \E t \in 1 .. MAX_THRESHOLD :
       setValidatorThreshold(t) /\ Indexes(OnValidatorThresholdChanged(index, t))
  \/ \E c \in Accounts, k \in VersionKeys, p \in BOOLEAN :
       /\ submitAttestation(c, k, p)
       /\ Indexes(OnAttestationSubmitted(index, k, validatorAgentIds[c], p))
  \/ \E k \in VersionKeys, a \in Agents :
       challengeAttestation(k, a) /\ Indexes(OnAttestationChallenged(index, k, a))
  \/ \E k \in VersionKeys :
       /\ finalizeValidation(k)
       /\ Indexes(OnValidationFinalized(index, k, passingAttestations[k], validatorThreshold))

\* UsageBatchCommitted writes a row of its own that nothing here reads, and
\* EpochFunded has no handler.
RewardsIndexed ==
  \/ \E e \in Epochs, u \in Usages, k \in VersionKeys :
       commitUsageBatch(e, u, k) /\ Indexes(OnUsageBatchRecorded(index, batchId(e, u, k)))
  \/ \E id \in BatchIds : challengeBatch(id) /\ Indexes(OnUsageBatchChallenged(index, id))
  \/ \E id \in BatchIds : finalizeBatch(id) /\ Indexes(OnUsageBatchFinalized(index, id))
  \/ \E e \in Epochs, value \in 1 .. MaxFunding : fundEpoch(e, value) /\ Indexes(index)
  \/ \E id \in BatchIds, p \in PayoutLists :
       allocateRewards(id, p) /\ Indexes(OnRewardsAllocated(index, id, totalOf(p)))
  \/ \E v \in Accounts, e \in Epochs :
       claimReward(v, e) /\ Indexes(OnRewardClaimed(index, rewardAllocations[e][v]))
  \/ \E s \in RewardScopes \cap PausableScopes, p \in PauseInput :
       setRewardPause(s, p) /\ Indexes(OnProtocolPaused(index, s, p))

IndexedNext ==
  \/ RegistryIndexed /\ UNCHANGED <<validationVars, rewardsVars, now>>
  \/ ValidationIndexed /\ UNCHANGED <<registryVars, rewardsVars, now>>
  \/ RewardsIndexed /\ UNCHANGED <<registryVars, validationVars, now>>
  \/ Tick /\ UNCHANGED <<validationVars, rewardsVars, index>>

IndexedInit == Init /\ index = EmptyIndex

IndexedSpec == IndexedInit /\ [][IndexedNext]_indexedVars

(***************************************************************************)
(* Properties.                                                             *)
(***************************************************************************)
\* The index is the public view of the contracts (docs/architecture/0014:
\* operators "compare indexed version states with direct Monad reads"): no
\* handler ever misses its row, and every version, attestation, validator,
\* receipt and usage batch is shown from its first event on, as the storage of
\* the contracts holds it: the resolution of a receipt by its code, the rewards
\* of a batch once they are allocated.
IndexMirrorsContracts ==
  /\ ~ index.thrown
  /\ \A k \in VersionKeys :
       LET row == index.DefenseVersion[k] IN
       IF row = NoEntity THEN status(k) = "None"
       ELSE /\ row.status = StatusCode[status(k)]
            /\ row.replayReportHash = versions[k].replayReportHash
            /\ row.validationFinal = isValidationFinal[k]
            /\ row.validationFinal => row.passingAttestations = passingAttestations[k]
  /\ \A k \in VersionKeys, a \in Agents :
       LET row == index.Attestation[k][a]  held == attestations[k][a] IN
       IF row = NoEntity THEN ~ held.submitted
       ELSE row = [passed |-> held.passed, challenged |-> held.challenged]
  /\ \A a \in Agents : index.Validator[a] # NoEntity =>
       (index.Validator[a].active <=> index.Validator[a].wallet = agentIdOwners[a])
  /\ \A r \in Receipts :
       LET row == index.ThreatReceipt[r]  held == receipts[r] IN
       IF row = NoEntity THEN held.resolution = "None"
       ELSE /\ held.resolution # "None"
            /\ row.resolution = ResolutionCode[held.resolution]
            /\ row.linkedVersionKey = held.linkedVersionKey
  /\ \A id \in BatchIds :
       LET row == index.UsageBatch[id]  held == batches[id] IN
       IF row = NoEntity THEN ~ held.committed
       ELSE /\ held.committed
            /\ row.challenged = held.challenged
            /\ row.finalized = held.finalized
            /\ row.rewardAllocated # 0 <=> batchRewardsAllocated[id]

\* The record of a validator survives every change of its identity: what it
\* submitted, passed and had challenged is counted once each, over all
\* versions, and the totals of the protocol are the sums over its validators.
TrackRecordsKept ==
  LET Rows == {a \in Agents : index.Validator[a] # NoEntity}
      total(field) == SumFunction([a \in Rows |-> index.Validator[a][field]])
  IN
  /\ \A a \in Rows :
       LET row == index.Validator[a]
           submitted == {k \in VersionKeys : attestations[k][a].submitted}
       IN /\ row.submittedCount = Cardinality(submitted)
          /\ row.passingCount = Cardinality({k \in submitted : attestations[k][a].passed})
          /\ row.challengedCount = Cardinality({k \in submitted : attestations[k][a].challenged})
  /\ index.metrics.attestationCount = total("submittedCount")
  /\ index.metrics.passingAttestationCount = total("passingCount")

\* The counts a reader of the metrics sees are those of the contracts: of
\* stable versions, through every emergency transition, and of rewards paid.
MetricsAgree ==
  /\ index.metrics.stableVersionCount = Cardinality({k \in VersionKeys : status(k) = "Stable"})
  /\ index.metrics.rewardClaimed =
       SumFunction([e \in Epochs |->
         SumFunctionOnSet(rewardAllocations[e], {v \in Accounts : rewardClaimed[e][v]})])

\* docs/architecture/0014: "Status counters change from the event's old and
\* new values instead of assuming a forward-only lifecycle, so reprocessing and
\* emergency transitions remain coherent": the quarantined count is the number
\* of quarantined versions.  (The handler takes code 4 for quarantined; the
\* contract's enum has Rejected there.)
QuarantinedCountAgrees ==
  index.metrics.quarantinedVersionCount =
    Cardinality({k \in VersionKeys : status(k) = "Quarantined"})
================================================================================
