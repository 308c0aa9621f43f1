------------------------------ MODULE IndexProofs ------------------------------
(***************************************************************************)
(* For any history of the contracts, of any length and with any values:    *)
(* what the indexer's tables show is what the contracts hold, and its      *)
(* counters are the sums they stand for.                                   *)
(*                                                                         *)
(* The argument: each transaction emits the events that its handlers turn  *)
(* into rows, and the handlers of one transaction run before the next one  *)
(* is seen; so the mirror is an invariant of whole transactions.  Of the   *)
(* counters, one transaction moves one summand, and the sum by as much.    *)
(***************************************************************************)
EXTENDS Indexer, ContractProofs

\* The index watches the contracts: every transaction indexed is one of theirs.
LEMMA IndexedStepIsStep == [IndexedNext]_indexedVars => [Next]_contractVars
<1>1. RegistryIndexed => RegistryTransaction
  BY DEF RegistryIndexed, RegistryTransaction
<1>2. ValidationIndexed => ValidationTransaction
  BY DEF ValidationIndexed, ValidationTransaction
<1>3. RewardsIndexed => RewardsTransaction
  BY DEF RewardsIndexed, RewardsTransaction
<1>. QED
  BY <1>1, <1>2, <1>3 DEF IndexedNext, indexedVars, contractVars, Next

\* The indexer changes nothing in the contracts: what is proved of them holds of
\* the contracts as the index sees them.
THEOREM IndexFollowsContracts == IndexedSpec => Spec
<1>1. IndexedInit => Init
  BY DEF IndexedInit
<1>. QED
  BY <1>1, IndexedStepIsStep, PTL DEF IndexedSpec, Spec

(***************************************************************************)
(* The index.                                                              *)
(***************************************************************************)
OrNone(rows) == rows \cup {NoEntity}

ProtocolMetrics ==
  [defenseCount : Int, versionCount : Int, stableVersionCount : Int,
   quarantinedVersionCount : Int, receiptCount : Int, attestationCount : Int,
   passingAttestationCount : Int, protectedEventCount : Int, rewardClaimed : Int,
   validatorThreshold : Int]

Index ==
  [Defense        : [Defenses -> Agents \cup {NoEntity}],
   DefenseVersion : [VersionKeys -> OrNone(DefenseVersionEntity)],
   SafetyAction   : [VersionKeys -> Nat],
   ThreatReceipt  : [Receipts -> OrNone(ThreatReceiptEntity)],
   Validator      : [Agents -> OrNone(ValidatorEntity)],
   Attestation    : [VersionKeys -> [Agents -> OrNone(AttestationEntity)]],
   UsageBatch     : [BatchIds -> OrNone(UsageBatchEntity)],
   PauseState     : [RegistryScopes \cup RewardScopes -> OrNone(PauseState)],
   metrics        : ProtocolMetrics,
   thrown         : BOOLEAN]

\* A version has its row from its publication on, and the row follows it.
VersionsMirrored ==
  \A k \in VersionKeys :
    LET row == index.DefenseVersion[k] IN
    /\ row = NoEntity <=> status(k) = "None"
    /\ row # NoEntity =>
         /\ row.status = StatusCode[status(k)]
         /\ row.replayReportHash = versions[k].replayReportHash
         /\ row.validationFinal = isValidationFinal[k]
         /\ row.validationFinal => row.passingAttestations = passingAttestations[k]
    /\ status(k) = "None" => versions[k].replayReportHash = NoHash

AttestationsMirrored ==
  \A k \in VersionKeys, a \in Agents :
    LET row == index.Attestation[k][a]  held == attestations[k][a] IN
    /\ row = NoEntity <=> ~ held.submitted
    /\ row # NoEntity => row = [passed |-> held.passed, challenged |-> held.challenged]

\* An agent has its row from its first binding on, and so when it attests.
ValidatorsMirrored ==
  \A a \in Agents :
    LET row == index.Validator[a] IN
    /\ row # NoEntity => (row.active <=> row.wallet = agentIdOwners[a])
    /\ row = NoEntity =>
         agentIdOwners[a] = NoAccount /\ \A k \in VersionKeys : ~ attestations[k][a].submitted

ReceiptsMirrored ==
  \A r \in Receipts :
    LET row == index.ThreatReceipt[r]  held == receipts[r] IN
    /\ row = NoEntity <=> held.resolution = "None"
    /\ row # NoEntity =>
         /\ row.resolution = ResolutionCode[held.resolution]
         /\ row.linkedVersionKey = held.linkedVersionKey
    /\ held.resolution = "None" => held.linkedVersionKey = NoKey

\* A batch has its row from its recording on; before that nothing happens to it.
BatchesMirrored ==
  \A id \in BatchIds :
    LET row == index.UsageBatch[id]  held == batches[id] IN
    /\ row = NoEntity <=> ~ held.committed
    /\ row # NoEntity =>
         /\ row.challenged = held.challenged
         /\ row.finalized = held.finalized
         /\ row.rewardAllocated # 0 <=> batchRewardsAllocated[id]
    /\ ~ held.committed => held = NoBatch /\ ~ batchRewardsAllocated[id]

IndexInv ==
  /\ index \in Index /\ ~ index.thrown
  /\ VersionsMirrored /\ AttestationsMirrored /\ ValidatorsMirrored
  /\ ReceiptsMirrored /\ BatchesMirrored
  /\ TrackRecordsKept /\ MetricsAgree

\* The counters of the metrics row that the properties speak of.
SameTotals(old, new) ==
  /\ new.attestationCount = old.attestationCount
  /\ new.passingAttestationCount = old.passingAttestationCount

SameCounts(old, new) ==
  /\ SameTotals(old, new)
  /\ new.stableVersionCount = old.stableVersionCount
  /\ new.rewardClaimed = old.rewardClaimed

RowAt(rows, k, row) == [rows EXCEPT ![k] = row]
WithStatus(row, code) == [row EXCEPT !.status = code]

StatusCodes == 0 .. 6

\* transitionVersionMetrics moves the count of stable versions, and it alone of those
\* that the properties speak of.
LEMMA MetricsMove ==
  ASSUME NEW m \in ProtocolMetrics, NEW old, NEW new,
         NEW t, t = transitionVersionMetrics(m, old, new)
  PROVE  /\ t \in ProtocolMetrics
         /\ t.attestationCount = m.attestationCount
         /\ t.passingAttestationCount = m.passingAttestationCount
         /\ t.rewardClaimed = m.rewardClaimed
         /\ t.stableVersionCount + (IF old = 3 THEN 1 ELSE 0) =
              m.stableVersionCount + (IF new = 3 THEN 1 ELSE 0)
<1>. DEFINE inS == One(new = 3)  outS == One(old = 3)  inQ == One(new = 4)  outQ == One(old = 4)
<1>1. inS \in Int /\ outS \in Int /\ inQ \in Int /\ outQ \in Int
  BY DEF One
<1>2. transitionVersionMetrics(m, old, new) =
        [m EXCEPT !.stableVersionCount = @ + inS - outS, !.quarantinedVersionCount = @ + inQ - outQ]
  BY DEF transitionVersionMetrics
<1>. HIDE DEF inS, outS, inQ, outQ
<1>. DEFINE s == m.stableVersionCount + inS - outS
            q == m.quarantinedVersionCount + inQ - outQ
<1>3. s \in Int /\ q \in Int
  BY <1>1 DEF ProtocolMetrics
<1>4. t = [m EXCEPT !.stableVersionCount = s, !.quarantinedVersionCount = q]
  BY <1>2
<1>. HIDE DEF s, q
<1>5. t \in ProtocolMetrics
  BY <1>3, <1>4 DEF ProtocolMetrics
<1>6. /\ t.attestationCount = m.attestationCount
      /\ t.passingAttestationCount = m.passingAttestationCount
      /\ t.rewardClaimed = m.rewardClaimed
      /\ t.stableVersionCount = s
  BY <1>4 DEF ProtocolMetrics
<1>. QED
  BY <1>5, <1>6 DEF s, inS, outS, One, ProtocolMetrics

\* The handler of a change of status writes the row of the version and the counters.
LEMMA StatusIndexed ==
  ASSUME NEW db \in Index, NEW k \in VersionKeys, NEW old, NEW new \in StatusCodes,
         db.DefenseVersion[k] # NoEntity, NEW t, t = OnVersionStatusChanged(db, k, old, new)
  PROVE  /\ t \in Index
         /\ t.DefenseVersion = RowAt(db.DefenseVersion, k, WithStatus(db.DefenseVersion[k], new))
         /\ t.metrics = transitionVersionMetrics(db.metrics, old, new)
         /\ t.SafetyAction = db.SafetyAction
         /\ t.ThreatReceipt = db.ThreatReceipt
         /\ t.Validator = db.Validator
         /\ t.Attestation = db.Attestation
         /\ t.UsageBatch = db.UsageBatch
         /\ t.thrown = db.thrown
<1>1. transitionVersionMetrics(db.metrics, old, new) \in ProtocolMetrics
  BY MetricsMove DEF Index
<1>0. db.DefenseVersion[k] \in DefenseVersionEntity
  BY DEF Index, OrNone
<1>2. [db.DefenseVersion[k] EXCEPT !.status = new] \in DefenseVersionEntity
  BY <1>0 DEF DefenseVersionEntity, StatusCodes
<1>3. [db.DefenseVersion EXCEPT ![k] = [@ EXCEPT !.status = new]] \in [VersionKeys -> OrNone(DefenseVersionEntity)]
  BY <1>2 DEF Index, OrNone
<1>4. t =
        [db EXCEPT !.DefenseVersion = [db.DefenseVersion EXCEPT ![k] = [@ EXCEPT !.status = new]],
                   !.metrics = transitionVersionMetrics(db.metrics, old, new)]
  BY DEF OnVersionStatusChanged, WithRow
<1>. QED
  BY <1>1, <1>3, <1>4 DEF Index, RowAt, WithStatus

\* The parts of TrackRecordsKept: the agents with a row, what each attested, and
\* the two counts the totals are taken over.
Rows == {a \in Agents : index.Validator[a] # NoEntity}
Attested(a) == {k \in VersionKeys : attestations[k][a].submitted}
AttestedPassing(a) == {k \in Attested(a) : attestations[k][a].passed}
AttestedChallenged(a) == {k \in Attested(a) : attestations[k][a].challenged}
SubmittedCounts == [a \in Rows |-> index.Validator[a].submittedCount]
PassingCounts == [a \in Rows |-> index.Validator[a].passingCount]

RecordKept(a) ==
  /\ index.Validator[a].submittedCount = Cardinality(Attested(a))
  /\ index.Validator[a].passingCount = Cardinality(AttestedPassing(a))
  /\ index.Validator[a].challengedCount = Cardinality(AttestedChallenged(a))

TotalsKept ==
  /\ index.metrics.attestationCount = SumFunctionOnSet(SubmittedCounts, Rows)
  /\ index.metrics.passingAttestationCount = SumFunctionOnSet(PassingCounts, Rows)

\* The track records are a statement for each agent, and one of the totals.
LEMMA TrackRecordsSplit ==
  /\ TrackRecordsKept <=> (\A a \in Rows : RecordKept(a)) /\ TotalsKept
  /\ TrackRecordsKept' <=> (\A a \in Rows : RecordKept(a))' /\ TotalsKept'
<1>1. TrackRecordsKept <=> (\A a \in Rows : RecordKept(a)) /\ TotalsKept
  <2>1. /\ SumFunction([a \in Rows |-> index.Validator[a]["submittedCount"]]) =
             SumFunctionOnSet(SubmittedCounts, Rows)
        /\ SumFunction([a \in Rows |-> index.Validator[a]["passingCount"]]) =
             SumFunctionOnSet(PassingCounts, Rows)
    BY DEF SumFunction, SubmittedCounts, PassingCounts
  <2>. QED
    BY <2>1 DEF TrackRecordsKept, Rows, Attested, AttestedPassing, AttestedChallenged, RecordKept,
            TotalsKept
<1>. QED
  BY <1>1, PTL

\* Each part of the invariant is about some tables and some storage, and holds on
\* when a step leaves these alone.
LEMMA Frames ==
  /\ VersionsMirrored /\ index'.DefenseVersion = index.DefenseVersion
     /\ UNCHANGED <<versions, isValidationFinal>>
     /\ (\A k \in VersionKeys : isValidationFinal[k] => passingAttestations'[k] = passingAttestations[k])
     => VersionsMirrored'
  /\ AttestationsMirrored /\ index'.Attestation = index.Attestation /\ UNCHANGED attestations
     => AttestationsMirrored'
  /\ ValidatorsMirrored /\ index'.Validator = index.Validator
     /\ UNCHANGED <<attestations, agentIdOwners>>
     => ValidatorsMirrored'
  /\ ReceiptsMirrored /\ index'.ThreatReceipt = index.ThreatReceipt /\ UNCHANGED receipts
     => ReceiptsMirrored'
  /\ BatchesMirrored /\ index'.UsageBatch = index.UsageBatch
     /\ UNCHANGED <<batches, batchRewardsAllocated>>
     => BatchesMirrored'
  /\ TrackRecordsKept /\ index'.Validator = index.Validator /\ UNCHANGED attestations
     /\ SameTotals(index.metrics, index'.metrics)
     => TrackRecordsKept'
<1>1. VersionsMirrored /\ index'.DefenseVersion = index.DefenseVersion
      /\ UNCHANGED <<versions, isValidationFinal>>
      /\ (\A k \in VersionKeys : isValidationFinal[k] => passingAttestations'[k] = passingAttestations[k])
      => VersionsMirrored'
  BY DEF VersionsMirrored, status
<1>2. TrackRecordsKept /\ index'.Validator = index.Validator /\ UNCHANGED attestations
      /\ SameTotals(index.metrics, index'.metrics)
      => TrackRecordsKept'
  <2>. SUFFICES ASSUME TrackRecordsKept, index'.Validator = index.Validator, UNCHANGED attestations,
                       SameTotals(index.metrics, index'.metrics)
                PROVE  TrackRecordsKept'
    OBVIOUS
  <2>1. Rows' = Rows /\ SubmittedCounts' = SubmittedCounts /\ PassingCounts' = PassingCounts
    BY DEF Rows, SubmittedCounts, PassingCounts
  <2>2. (\A a \in Rows : RecordKept(a)) /\ TotalsKept
    BY TrackRecordsSplit
  <2>3. TotalsKept'
    BY <2>1, <2>2 DEF TotalsKept, SameTotals
  <2>4. (\A a \in Rows : RecordKept(a))'
    BY <2>1, <2>2 DEF RecordKept, Attested, AttestedPassing, AttestedChallenged
  <2>. QED
    BY <2>3, <2>4, TrackRecordsSplit
<1>. QED
  BY <1>1, <1>2 DEF AttestationsMirrored, ValidatorsMirrored, ReceiptsMirrored, BatchesMirrored

StableSet == {k \in VersionKeys : status(k) = "Stable"}

\* There are finitely many versions, so the stable ones can be counted.
LEMMA StableSetFinite == IsFiniteSet(VersionKeys) /\ IsFiniteSet(StableSet) /\ IsFiniteSet(StableSet')
<1>1. IsFiniteSet(VersionKeys)
  BY IndexerAssumption, FS_Product DEF VersionKeys
<1>. QED
  BY <1>1, FS_Subset DEF StableSet

Claimed(e) == SumFunctionOnSet(rewardAllocations[e], {v \in Accounts : rewardClaimed[e][v]})

\* The counters still agree when the count of stable versions moves as their set does.
LEMMA MetricsFrame ==
  ASSUME MetricsAgree, UNCHANGED <<rewardAllocations, rewardClaimed>>,
         index'.metrics.rewardClaimed = index.metrics.rewardClaimed,
         index'.metrics.stableVersionCount - index.metrics.stableVersionCount =
           Cardinality(StableSet') - Cardinality(StableSet),
         index'.metrics.stableVersionCount \in Int
  PROVE  MetricsAgree'
<1>1. Cardinality(StableSet) \in Nat /\ Cardinality(StableSet') \in Nat
  BY StableSetFinite, FS_CardinalityType
<1>. QED
  BY <1>1 DEF MetricsAgree, StableSet, status

\* A step that writes one version moves the number of stable ones accordingly.
LEMMA StableCountMoves ==
  ASSUME NEW k \in VersionKeys, \A j \in VersionKeys : j # k => versions'[j] = versions[j]
  PROVE  Cardinality(StableSet') - Cardinality(StableSet) =
           One(versions'[k].status = "Stable") - One(status(k) = "Stable")
<1>. DEFINE rest == StableSet \ {k}
<1>1. rest = StableSet' \ {k}
  BY DEF StableSet, status
<1>2. IsFiniteSet(rest) /\ k \notin rest
  BY StableSetFinite, FS_Subset
<1>3. Cardinality(rest) \in Nat /\ Cardinality(rest \cup {k}) = Cardinality(rest) + 1
  BY <1>2, FS_CardinalityType, FS_AddElement
<1>4. StableSet = IF status(k) = "Stable" THEN rest \cup {k} ELSE rest
  BY DEF StableSet
<1>5. StableSet' = IF versions'[k].status = "Stable" THEN rest \cup {k} ELSE rest
  BY <1>1 DEF StableSet, status
<1>. HIDE DEF rest
<1>. QED
  BY <1>3, <1>4, <1>5 DEF One

\* The numbers of the states as the events carry them.
LEMMA Codes ==
  /\ \A s \in DefenseStatus : StatusCode[s] \in 0 .. 6 /\ (StatusCode[s] = 3 <=> s = "Stable")
  /\ StatusCode["Draft"] = 1 /\ StatusCode["Candidate"] = 2
  /\ \A s \in ReceiptResolution \ {"None"} : ResolutionCode[s] \in 0 .. 3
  /\ ResolutionCode["Open"] = 0
BY DEF StatusCode, ResolutionCode, DefenseStatus, ReceiptResolution

\* A step that leaves the counters and what they count alone.
LEMMA CountsFrame ==
  ASSUME MetricsAgree, index \in Index, SameCounts(index.metrics, index'.metrics),
         UNCHANGED <<versions, rewardAllocations, rewardClaimed>>
  PROVE  MetricsAgree'
<1>1. StableSet' = StableSet
  BY DEF StableSet, status
<1>2. index.metrics.stableVersionCount \in Int
  BY DEF Index, ProtocolMetrics
<1>3. Cardinality(StableSet) \in Nat
  BY StableSetFinite, FS_CardinalityType
<1>. QED
  BY <1>1, <1>2, <1>3, MetricsFrame DEF SameCounts

\* A step that touches no table and no storage of the properties.
LEMMA IndexKept ==
  ASSUME IndexInv, index' \in Index, index'.thrown = index.thrown,
         index'.DefenseVersion = index.DefenseVersion, index'.ThreatReceipt = index.ThreatReceipt,
         index'.Validator = index.Validator, index'.Attestation = index.Attestation,
         index'.UsageBatch = index.UsageBatch, SameCounts(index.metrics, index'.metrics),
         UNCHANGED <<versions, receipts, isValidationFinal, passingAttestations, attestations,
                     agentIdOwners, batches, batchRewardsAllocated, rewardAllocations, rewardClaimed>>
  PROVE  IndexInv'
<1>1. MetricsAgree'
  BY CountsFrame DEF IndexInv
<1>. QED
  BY <1>1, Frames DEF IndexInv, SameCounts

\* A handler writes the row of one version as the storage now has it.
LEMMA VersionWritten ==
  ASSUME VersionsMirrored, NEW k \in VersionKeys, NEW row \in DefenseVersionEntity,
         index.DefenseVersion \in [VersionKeys -> OrNone(DefenseVersionEntity)],
         index'.DefenseVersion = RowAt(index.DefenseVersion, k, row),
         \A j \in VersionKeys : j # k =>
           /\ versions'[j] = versions[j] /\ isValidationFinal'[j] = isValidationFinal[j]
           /\ passingAttestations'[j] = passingAttestations[j],
         versions'[k].status # "None",
         row.status = StatusCode[versions'[k].status],
         row.replayReportHash = versions'[k].replayReportHash,
         row.validationFinal = isValidationFinal'[k],
         row.validationFinal => row.passingAttestations = passingAttestations'[k]
  PROVE  VersionsMirrored'
<1>1. row # NoEntity
  BY IndexerAssumption
<1>. QED
  BY <1>1 DEF VersionsMirrored, status, RowAt

\* The parts a transaction of the registry on one version leaves alone.
LEMMA VersionStepKeeps ==
  ASSUME IndexInv, NEW k \in VersionKeys, index' \in Index, index'.thrown = index.thrown,
         index'.ThreatReceipt = index.ThreatReceipt, index'.Validator = index.Validator,
         index'.Attestation = index.Attestation, index'.UsageBatch = index.UsageBatch,
         SameTotals(index.metrics, index'.metrics),
         index'.metrics.rewardClaimed = index.metrics.rewardClaimed,
         index'.metrics.stableVersionCount - index.metrics.stableVersionCount =
           One(versions'[k].status = "Stable") - One(status(k) = "Stable"),
         \A j \in VersionKeys : j # k => versions'[j] = versions[j],
         UNCHANGED <<receipts, attestations, agentIdOwners, batches, batchRewardsAllocated, rewardAllocations, rewardClaimed>>,
         VersionsMirrored'
  PROVE  IndexInv'
<1>1. index'.metrics.stableVersionCount \in Int
  BY DEF Index, ProtocolMetrics
<1>2. MetricsAgree'
  BY <1>1, StableCountMoves, MetricsFrame DEF IndexInv
<1>. QED
  BY <1>2, Frames DEF IndexInv

\* What publishVersion stores is mirrored by the new row.
LEMMA PublicationIndexed ==
  ASSUME IndexInv, ReleaseInv, NEW c \in Accounts, NEW d \in Defenses, NEW n \in Numbers,
         NEW h \in Hashes, NEW s \in VersionKeys \cup {NoKey}, publishVersion(c, d, n, h, s),
         index' = OnDefenseVersionPublished(index, versionKey(d, n), StatusCode["Draft"]),
         UNCHANGED <<validationVars, rewardsVars>>
  PROVE  IndexInv'
<1>. DEFINE k == versionKey(d, n)
            row == [status |-> 1, replayReportHash |-> NoHash, validationFinal |-> FALSE,
                    passingAttestations |-> 0, validationThreshold |-> 0]
            M == [index.metrics EXCEPT !.versionCount = @ + 1]
<1>1. k \in VersionKeys /\ status(k) = "None"
  BY DEF publishVersion, versionKey, VersionKeys
<1>2. /\ \A j \in VersionKeys : j # k => versions'[j] = versions[j]
      /\ versions'[k].status = "Draft" /\ versions'[k].replayReportHash = NoHash
      /\ receipts' = receipts
  BY <1>1 DEF publishVersion, ReleaseInv, Types, RegistryTypeOK
<1>3. ~ isValidationFinal[k]
  BY <1>1 DEF ReleaseInv, EndorsedSound
<1>4. /\ row \in DefenseVersionEntity /\ row.status = 1 /\ row.replayReportHash = NoHash
      /\ row.validationFinal = FALSE
  BY DEF DefenseVersionEntity
<1>5. M \in ProtocolMetrics /\ SameCounts(index.metrics, M)
  BY DEF IndexInv, Index, ProtocolMetrics, SameCounts, SameTotals
<1>6. index' = [index EXCEPT !.DefenseVersion = [index.DefenseVersion EXCEPT ![k] = row], !.metrics = M]
  BY Codes DEF OnDefenseVersionPublished
<1>7. [index.DefenseVersion EXCEPT ![k] = row] \in [VersionKeys -> OrNone(DefenseVersionEntity)]
  BY <1>4 DEF IndexInv, Index, OrNone
<1>. HIDE DEF k, row, M
<1>8. /\ index' \in Index /\ index'.thrown = index.thrown
      /\ index'.DefenseVersion = RowAt(index.DefenseVersion, k, row) /\ index'.metrics = M
      /\ index'.ThreatReceipt = index.ThreatReceipt /\ index'.Validator = index.Validator
      /\ index'.Attestation = index.Attestation /\ index'.UsageBatch = index.UsageBatch
  BY <1>5, <1>6, <1>7 DEF IndexInv, Index, RowAt
<1>9. UNCHANGED <<isValidationFinal, passingAttestations, attestations, agentIdOwners, batches, batchRewardsAllocated,
                  rewardAllocations, rewardClaimed>>
  BY DEF validationVars, identityVars, rewardsVars
<1>10. index.DefenseVersion \in [VersionKeys -> OrNone(DefenseVersionEntity)]
  BY DEF IndexInv, Index
<1>11. VersionsMirrored'
  <2>1. isValidationFinal[k] = FALSE
    BY <1>1, <1>3 DEF ReleaseInv, Types, RegistryTypeOK
  <2>2. row.status = StatusCode[versions'[k].status]
    BY <1>2, <1>4, Codes
  <2>. QED
    <3>1. VersionsMirrored
      BY DEF IndexInv
    <3>2. \A j \in VersionKeys : j # k =>
           /\ versions'[j] = versions[j] /\ isValidationFinal'[j] = isValidationFinal[j]
           /\ passingAttestations'[j] = passingAttestations[j]
      BY <1>2, <1>9
    <3>3. index'.DefenseVersion = RowAt(index.DefenseVersion, k, row)
      BY <1>8
    <3>4. /\ versions'[k].status # "None" 
          /\ row.replayReportHash = versions'[k].replayReportHash
          /\ row.validationFinal = isValidationFinal'[k]
      BY <1>2, <1>4, <1>9, <2>1
    <3>. QED
      BY <1>1, <1>4, <1>10, <2>1, <2>2, <3>1, <3>2, <3>3, <3>4, VersionWritten
<1>12. index'.metrics.stableVersionCount - index.metrics.stableVersionCount =
           One(versions'[k].status = "Stable") - One(status(k) = "Stable")
  BY <1>1, <1>2, <1>5, <1>8 DEF One, SameCounts, IndexInv, Index, ProtocolMetrics
<1>. QED
  BY <1>1, <1>2, <1>5, <1>8, <1>9, <1>11, <1>12, VersionStepKeeps DEF SameCounts

\* A change of status as the index sees it: the row and the counters move.
LEMMA StatusChangeIndexed ==
  ASSUME IndexInv, ReleaseInv, NEW k \in VersionKeys, NEW s \in DefenseStatus \ {"None"},
         status(k) # "None", changeStatus(k, s),
         NEW old, old = StatusCode[status(k)], NEW code, code = StatusCode[s],
         index' = OnVersionSafetyAction(OnVersionStatusChanged(index, k, old, code), k)
           \/ index' = OnVersionStatusChanged(index, k, old, code),
         UNCHANGED <<validationVars, rewardsVars>>
  PROVE  IndexInv'
<1>. DEFINE t == OnVersionStatusChanged(index, k, old, code)
            row == WithStatus(index.DefenseVersion[k], code)
<1>1. status(k) \in DefenseStatus
  BY DEF ReleaseInv, Types, RegistryTypeOK, DefenseVersion, status
<1>2. index.DefenseVersion[k] # NoEntity /\ index.DefenseVersion[k] \in DefenseVersionEntity
  BY DEF IndexInv, VersionsMirrored, Index, OrNone
<1>3. code \in StatusCodes
  BY Codes DEF StatusCodes
<1>4. /\ t \in Index /\ t.thrown = index.thrown
      /\ t.DefenseVersion = RowAt(index.DefenseVersion, k, row)
      /\ t.metrics = transitionVersionMetrics(index.metrics, old, code)
      /\ t.ThreatReceipt = index.ThreatReceipt /\ t.Validator = index.Validator
      /\ t.Attestation = index.Attestation /\ t.UsageBatch = index.UsageBatch
  <2>1. index \in Index
    BY DEF IndexInv
  <2>2. t = OnVersionStatusChanged(index, k, old, code)
    OBVIOUS
  <2>. HIDE DEF t
  <2>. QED
    BY <1>2, <1>3, <2>1, <2>2, StatusIndexed
<1>. HIDE DEF t
<1>5. /\ index' \in Index /\ index'.thrown = t.thrown /\ index'.DefenseVersion = t.DefenseVersion
      /\ index'.metrics = t.metrics /\ index'.ThreatReceipt = t.ThreatReceipt
      /\ index'.Validator = t.Validator /\ index'.Attestation = t.Attestation
      /\ index'.UsageBatch = t.UsageBatch
  <2>1. CASE index' = t
    BY <1>4, <2>1
  <2>2. CASE index' = OnVersionSafetyAction(t, k)
    <3>1. t.SafetyAction[k] \in Nat /\ t.SafetyAction \in [VersionKeys -> Nat]
      BY <1>4 DEF Index
    <3>2. index' = [t EXCEPT !.SafetyAction = [t.SafetyAction EXCEPT ![k] = @ + 1]]
      BY <2>2 DEF OnVersionSafetyAction
    <3>3. [t.SafetyAction EXCEPT ![k] = @ + 1] \in [VersionKeys -> Nat]
      BY <3>1
    <3>. QED
      BY <1>4, <3>2, <3>3 DEF Index
  <2>. QED
    BY <2>1, <2>2 DEF t
<1>6. /\ row \in DefenseVersionEntity /\ row.status = code
      /\ row.replayReportHash = index.DefenseVersion[k].replayReportHash
      /\ row.validationFinal = index.DefenseVersion[k].validationFinal
      /\ row.passingAttestations = index.DefenseVersion[k].passingAttestations
  BY <1>2, <1>3 DEF DefenseVersionEntity, WithStatus, StatusCodes
<1>. HIDE DEF row
<1>7. /\ \A j \in VersionKeys : j # k => versions'[j] = versions[j]
      /\ versions'[k].status = s /\ versions'[k].replayReportHash = versions[k].replayReportHash
      /\ receipts' = receipts
  BY DEF changeStatus, ReleaseInv, Types, RegistryTypeOK, DefenseVersion
<1>8. UNCHANGED <<isValidationFinal, passingAttestations, attestations, agentIdOwners, batches, batchRewardsAllocated,
                  rewardAllocations, rewardClaimed>>
  BY DEF validationVars, identityVars, rewardsVars
<1>9. index.DefenseVersion \in [VersionKeys -> OrNone(DefenseVersionEntity)]
  BY DEF IndexInv, Index
<1>10. /\ index.DefenseVersion[k].replayReportHash = versions[k].replayReportHash
       /\ index.DefenseVersion[k].validationFinal = isValidationFinal[k]
       /\ index.DefenseVersion[k].validationFinal =>
            index.DefenseVersion[k].passingAttestations = passingAttestations[k]
  BY <1>2 DEF IndexInv, VersionsMirrored
<1>11. VersionsMirrored'
  BY <1>4, <1>5, <1>6, <1>7, <1>8, <1>9, <1>10, VersionWritten DEF IndexInv
<1>12. /\ SameTotals(index.metrics, index'.metrics)
       /\ index'.metrics.rewardClaimed = index.metrics.rewardClaimed
       /\ index'.metrics.stableVersionCount =
            index.metrics.stableVersionCount + (IF code = 3 THEN 1 ELSE 0) - (IF old = 3 THEN 1 ELSE 0)
  <2>1. index.metrics \in ProtocolMetrics
    BY DEF IndexInv, Index
  <2>2. index'.metrics = transitionVersionMetrics(index.metrics, old, code)
    BY <1>4, <1>5
  <2>. QED
    BY <2>1, <2>2, MetricsMove DEF SameTotals, ProtocolMetrics
<1>13. (code = 3 <=> s = "Stable") /\ (old = 3 <=> status(k) = "Stable")
  BY <1>1, Codes
<1>14. index'.metrics.stableVersionCount - index.metrics.stableVersionCount =
           One(versions'[k].status = "Stable") - One(status(k) = "Stable")
  BY <1>7, <1>12, <1>13 DEF One, IndexInv, Index, ProtocolMetrics
<1>. QED
  BY <1>4, <1>5, <1>7, <1>8, <1>11, <1>12, <1>14, VersionStepKeeps

\* publishReplayBundle: the row gets the hash and the version becomes a candidate.
LEMMA ReplayBundleIndexed ==
  ASSUME IndexInv, ReleaseInv, NEW c \in Accounts, NEW k \in VersionKeys, NEW h \in Hashes,
         publishReplayBundle(c, k, h), index' = publishReplayBundleEvents(k, h),
         UNCHANGED <<validationVars, rewardsVars>>
  PROVE  IndexInv'
<1>. DEFINE t == OnVersionStatusChanged(index, k, 1, 2)
            old == index.DefenseVersion[k]
            row == [WithStatus(old, 2) EXCEPT !.replayReportHash = h]
<1>1. /\ \A j \in VersionKeys : j # k => versions'[j] = versions[j]
      /\ status(k) = "Draft" /\ versions'[k].status = "Candidate"
      /\ versions'[k].replayReportHash = h /\ receipts' = receipts
  BY DEF publishReplayBundle, ReleaseInv, Types, RegistryTypeOK, DefenseVersion
<1>2. /\ old # NoEntity /\ old \in DefenseVersionEntity
      /\ old.validationFinal = isValidationFinal[k]
      /\ old.validationFinal => old.passingAttestations = passingAttestations[k]
  BY <1>1 DEF IndexInv, VersionsMirrored, Index, OrNone
<1>3. /\ t \in Index /\ t.thrown = index.thrown
      /\ t.DefenseVersion = RowAt(index.DefenseVersion, k, WithStatus(old, 2))
      /\ t.metrics = transitionVersionMetrics(index.metrics, 1, 2)
      /\ t.ThreatReceipt = index.ThreatReceipt /\ t.Validator = index.Validator
      /\ t.Attestation = index.Attestation /\ t.UsageBatch = index.UsageBatch
  <2>1. index \in Index
    BY DEF IndexInv
  <2>2. 2 \in StatusCodes
    BY DEF StatusCodes
  <2>. QED
    BY <1>2, <2>1, <2>2, StatusIndexed
<1>4. /\ row \in DefenseVersionEntity /\ row.status = 2 /\ row.replayReportHash = h
      /\ row.validationFinal = old.validationFinal
      /\ row.passingAttestations = old.passingAttestations
      /\ WithStatus(old, 2) \in DefenseVersionEntity
  <2>1. /\ WithStatus(old, 2) \in DefenseVersionEntity /\ WithStatus(old, 2).status = 2
        /\ WithStatus(old, 2).validationFinal = old.validationFinal
        /\ WithStatus(old, 2).passingAttestations = old.passingAttestations
    BY <1>2 DEF DefenseVersionEntity, WithStatus
  <2>. QED
    BY <2>1 DEF DefenseVersionEntity
<1>5. WithStatus(old, 2) # NoEntity
  BY <1>4, IndexerAssumption
<1>6. index.DefenseVersion \in [VersionKeys -> OrNone(DefenseVersionEntity)]
  BY DEF IndexInv, Index
<1>7. t.DefenseVersion[k] = WithStatus(old, 2)
  BY <1>3, <1>6 DEF RowAt
<1>8. index' = [t EXCEPT !.DefenseVersion = RowAt(index.DefenseVersion, k, row)]
  <2>1. index' = OnReplayBundlePublished(t, k, h)
    BY Codes DEF publishReplayBundleEvents
  <2>2. index' = [t EXCEPT !.DefenseVersion = [t.DefenseVersion EXCEPT ![k] = row]]
    BY <1>5, <1>7, <2>1 DEF OnReplayBundlePublished, WithRow
  <2>3. [t.DefenseVersion EXCEPT ![k] = row] = RowAt(index.DefenseVersion, k, row)
    BY <1>3, <1>6 DEF RowAt
  <2>. QED
    BY <2>2, <2>3
<1>9. RowAt(index.DefenseVersion, k, row) \in [VersionKeys -> OrNone(DefenseVersionEntity)]
  BY <1>4, <1>6 DEF RowAt, OrNone
<1>. HIDE DEF t, row
<1>10. /\ index' \in Index /\ index'.thrown = index.thrown
       /\ index'.DefenseVersion = RowAt(index.DefenseVersion, k, row) /\ index'.metrics = t.metrics
       /\ index'.ThreatReceipt = index.ThreatReceipt /\ index'.Validator = index.Validator
       /\ index'.Attestation = index.Attestation /\ index'.UsageBatch = index.UsageBatch
  BY <1>3, <1>8, <1>9 DEF Index
<1>11. UNCHANGED <<isValidationFinal, passingAttestations, attestations, agentIdOwners, batches, batchRewardsAllocated,
                   rewardAllocations, rewardClaimed>>
  BY DEF validationVars, identityVars, rewardsVars
<1>12. VersionsMirrored'
  <2>1. VersionsMirrored
    BY DEF IndexInv
  <2>2. row.status = StatusCode[versions'[k].status]
    BY <1>1, <1>4, Codes
  <2>. QED
    BY <1>1, <1>2, <1>4, <1>6, <1>10, <1>11, <2>1, <2>2, VersionWritten
<1>13. /\ SameTotals(index.metrics, index'.metrics)
       /\ index'.metrics.rewardClaimed = index.metrics.rewardClaimed
       /\ index'.metrics.stableVersionCount = index.metrics.stableVersionCount
       /\ index'.metrics.stableVersionCount \in Int
  <2>1. index.metrics \in ProtocolMetrics
    BY DEF IndexInv, Index
  <2>2. index'.metrics = transitionVersionMetrics(index.metrics, 1, 2)
    BY <1>3, <1>10
  <2>. QED
    BY <2>1, <2>2, MetricsMove DEF SameTotals, ProtocolMetrics
<1>14. index'.metrics.stableVersionCount - index.metrics.stableVersionCount =
           One(versions'[k].status = "Stable") - One(status(k) = "Stable")
  BY <1>1, <1>13 DEF One
<1>. QED
  BY <1>1, <1>10, <1>11, <1>12, <1>13, <1>14, VersionStepKeeps

\* The receipts' transactions.
LEMMA ReceiptsIndexed ==
  ASSUME IndexInv, index' \in Index, index'.thrown = index.thrown,
         index'.DefenseVersion = index.DefenseVersion,
         index'.Validator = index.Validator, index'.Attestation = index.Attestation,
         index'.UsageBatch = index.UsageBatch, SameCounts(index.metrics, index'.metrics),
         UNCHANGED <<versions, isValidationFinal, passingAttestations, attestations,
                     agentIdOwners, batches, batchRewardsAllocated, rewardAllocations, rewardClaimed>>,
         ReceiptsMirrored'
  PROVE  IndexInv'
<1>1. MetricsAgree'
  BY CountsFrame DEF IndexInv
<1>. QED
  BY <1>1, Frames DEF IndexInv, SameCounts

\* A handler writes the row of one receipt as the storage now has it.
LEMMA ReceiptWritten ==
  ASSUME ReceiptsMirrored, NEW r \in Receipts, NEW row \in ThreatReceiptEntity,
         index.ThreatReceipt \in [Receipts -> OrNone(ThreatReceiptEntity)],
         index'.ThreatReceipt = RowAt(index.ThreatReceipt, r, row),
         \A q \in Receipts : q # r => receipts'[q] = receipts[q],
         receipts'[r].resolution # "None",
         row.resolution = ResolutionCode[receipts'[r].resolution],
         row.linkedVersionKey = receipts'[r].linkedVersionKey
  PROVE  ReceiptsMirrored'
<1>1. row # NoEntity
  BY IndexerAssumption
<1>. QED
  BY <1>1 DEF ReceiptsMirrored, RowAt

\* publishReceipt: a first row, linked to nothing.
LEMMA PublishReceiptIndexed ==
  ASSUME IndexInv, ReleaseInv, NEW r \in Receipts, publishReceipt(r),
         index' = OnThreatReceiptPublished(index, r), UNCHANGED <<validationVars, rewardsVars>>
  PROVE  IndexInv'
<1>. DEFINE row == [linkedVersionKey |-> NoKey, resolution |-> 0]
            M == [index.metrics EXCEPT !.receiptCount = @ + 1]
<1>1. /\ row \in ThreatReceiptEntity /\ row.linkedVersionKey = NoKey
      /\ row.resolution = ResolutionCode["Open"]
  BY Codes DEF ThreatReceiptEntity
<1>2. M \in ProtocolMetrics /\ SameCounts(index.metrics, M)
  BY DEF IndexInv, Index, ProtocolMetrics, SameCounts, SameTotals
<1>3. index' = [index EXCEPT !.ThreatReceipt = RowAt(index.ThreatReceipt, r, row), !.metrics = M]
  BY DEF OnThreatReceiptPublished, RowAt
<1>4. index.ThreatReceipt \in [Receipts -> OrNone(ThreatReceiptEntity)]
  BY DEF IndexInv, Index
<1>5. RowAt(index.ThreatReceipt, r, row) \in [Receipts -> OrNone(ThreatReceiptEntity)]
  BY <1>1, <1>4 DEF OrNone, RowAt
<1>. HIDE DEF row, M
<1>6. /\ index' \in Index /\ index'.thrown = index.thrown
      /\ index'.DefenseVersion = index.DefenseVersion /\ index'.metrics = M
      /\ index'.ThreatReceipt = RowAt(index.ThreatReceipt, r, row)
      /\ index'.Validator = index.Validator
      /\ index'.Attestation = index.Attestation /\ index'.UsageBatch = index.UsageBatch
  BY <1>2, <1>3, <1>5 DEF IndexInv, Index
<1>7. /\ \A q \in Receipts : q # r => receipts'[q] = receipts[q]
      /\ receipts[r].resolution = "None" /\ receipts'[r].resolution = "Open"
      /\ receipts'[r].linkedVersionKey = receipts[r].linkedVersionKey /\ versions' = versions
  BY DEF publishReceipt, ReleaseInv, Types, RegistryTypeOK, ThreatReceipt
<1>8. receipts[r].linkedVersionKey = NoKey
  BY <1>7 DEF IndexInv, ReceiptsMirrored
<1>9. ReceiptsMirrored'
  BY <1>1, <1>4, <1>6, <1>7, <1>8, ReceiptWritten DEF IndexInv
<1>10. UNCHANGED <<isValidationFinal, passingAttestations, attestations, agentIdOwners, batches, batchRewardsAllocated,
                   rewardAllocations, rewardClaimed>>
  BY DEF validationVars, identityVars, rewardsVars
<1>. QED
  BY <1>2, <1>6, <1>7, <1>9, <1>10, ReceiptsIndexed

\* linkDefense emits two events: the link and the resolution.
LEMMA LinkIndexed ==
  ASSUME IndexInv, ReleaseInv, NEW r \in Receipts, NEW k \in VersionKeys, linkDefense(r, k),
         index' = OnThreatReceiptResolutionChanged(OnThreatReceiptLinked(index, r, k), r,
                                                   ResolutionCode["Linked"]),
         UNCHANGED <<validationVars, rewardsVars>>
  PROVE  IndexInv'
<1>. DEFINE old == index.ThreatReceipt[r]
            linked == [old EXCEPT !.linkedVersionKey = k]
            code == ResolutionCode["Linked"]
            row == [linked EXCEPT !.resolution = code]
            T == RowAt(index.ThreatReceipt, r, linked)
            t == [index EXCEPT !.ThreatReceipt = T]
<1>1. /\ \A q \in Receipts : q # r => receipts'[q] = receipts[q]
      /\ receipts[r].resolution # "None" /\ receipts'[r].resolution = "Linked"
      /\ receipts'[r].linkedVersionKey = k /\ versions' = versions
  BY DEF linkDefense, ReleaseInv, Types, RegistryTypeOK, ThreatReceipt
<1>2. old # NoEntity /\ old \in ThreatReceiptEntity
  BY <1>1 DEF IndexInv, ReceiptsMirrored, Index, OrNone
<1>3. code \in 0 .. 3 /\ code = ResolutionCode[receipts'[r].resolution]
  BY <1>1, Codes DEF ReceiptResolution
<1>. HIDE DEF code
<1>4. linked \in ThreatReceiptEntity /\ linked.linkedVersionKey = k
  BY <1>2 DEF ThreatReceiptEntity
<1>5. row \in ThreatReceiptEntity /\ row.linkedVersionKey = k /\ row.resolution = code
  BY <1>3, <1>4 DEF ThreatReceiptEntity
<1>6. linked # NoEntity
  BY <1>4, IndexerAssumption
<1>7. index.ThreatReceipt \in [Receipts -> OrNone(ThreatReceiptEntity)]
  BY DEF IndexInv, Index
<1>8. OnThreatReceiptLinked(index, r, k) = t
  BY <1>2 DEF OnThreatReceiptLinked, WithRow, RowAt
<1>9. t \in Index /\ t.ThreatReceipt = T /\ T[r] = linked
  BY <1>4, <1>7 DEF IndexInv, Index, OrNone, RowAt
<1>10. index' = [index EXCEPT !.ThreatReceipt = RowAt(index.ThreatReceipt, r, row)]
  <2>1. index' = OnThreatReceiptResolutionChanged(t, r, code)
    BY <1>8 DEF code
  <2>. HIDE DEF t, linked, T
  <2>2. index' = [t EXCEPT !.ThreatReceipt = [T EXCEPT ![r] = row]]
    BY <1>6, <1>9, <2>1 DEF OnThreatReceiptResolutionChanged, WithRow
  <2>3. [T EXCEPT ![r] = row] = RowAt(index.ThreatReceipt, r, row)
    BY <1>7 DEF T, RowAt
  <2>. QED
    BY <2>2, <2>3 DEF t, IndexInv, Index
<1>11. RowAt(index.ThreatReceipt, r, row) \in [Receipts -> OrNone(ThreatReceiptEntity)]
  BY <1>5, <1>7 DEF OrNone, RowAt
<1>. HIDE DEF row
<1>12. /\ index' \in Index /\ index'.thrown = index.thrown
       /\ index'.DefenseVersion = index.DefenseVersion /\ index'.metrics = index.metrics
       /\ index'.ThreatReceipt = RowAt(index.ThreatReceipt, r, row)
       /\ index'.Validator = index.Validator
       /\ index'.Attestation = index.Attestation /\ index'.UsageBatch = index.UsageBatch
  BY <1>10, <1>11 DEF IndexInv, Index
<1>13. ReceiptsMirrored'
  BY <1>1, <1>3, <1>5, <1>7, <1>12, ReceiptWritten DEF IndexInv
<1>14. UNCHANGED <<isValidationFinal, passingAttestations, attestations, agentIdOwners, batches, batchRewardsAllocated,
                   rewardAllocations, rewardClaimed>>
  BY DEF validationVars, identityVars, rewardsVars
<1>15. SameCounts(index.metrics, index'.metrics)
  BY <1>12 DEF SameCounts, SameTotals
<1>. QED
  BY <1>1, <1>12, <1>13, <1>14, <1>15, ReceiptsIndexed

\* updateResolution: the resolution only.
LEMMA ResolutionIndexed ==
  ASSUME IndexInv, ReleaseInv, NEW r \in Receipts, NEW s \in ReceiptResolution,
         updateResolution(r, s),
         index' = OnThreatReceiptResolutionChanged(index, r, ResolutionCode[s]),
         UNCHANGED <<validationVars, rewardsVars>>
  PROVE  IndexInv'
<1>. DEFINE old == index.ThreatReceipt[r]
            code == ResolutionCode[s]
            row == [old EXCEPT !.resolution = code]
<1>1. /\ \A q \in Receipts : q # r => receipts'[q] = receipts[q]
      /\ receipts[r].resolution # "None" /\ s # "None" /\ receipts'[r].resolution = s
      /\ receipts'[r].linkedVersionKey = receipts[r].linkedVersionKey /\ versions' = versions
  BY DEF updateResolution, ReleaseInv, Types, RegistryTypeOK, ThreatReceipt
<1>2. old # NoEntity /\ old \in ThreatReceiptEntity /\ old.linkedVersionKey = receipts[r].linkedVersionKey
  BY <1>1 DEF IndexInv, ReceiptsMirrored, Index, OrNone
<1>3. code \in 0 .. 3 /\ code = ResolutionCode[receipts'[r].resolution]
  BY <1>1, Codes
<1>. HIDE DEF code
<1>4. /\ row \in ThreatReceiptEntity /\ row.resolution = code
      /\ row.linkedVersionKey = receipts[r].linkedVersionKey
  BY <1>2, <1>3 DEF ThreatReceiptEntity
<1>5. index.ThreatReceipt \in [Receipts -> OrNone(ThreatReceiptEntity)]
  BY DEF IndexInv, Index
<1>6. index' = [index EXCEPT !.ThreatReceipt = RowAt(index.ThreatReceipt, r, row)]
  BY <1>2 DEF OnThreatReceiptResolutionChanged, WithRow, RowAt, code
<1>7. RowAt(index.ThreatReceipt, r, row) \in [Receipts -> OrNone(ThreatReceiptEntity)]
  BY <1>4, <1>5 DEF OrNone, RowAt
<1>. HIDE DEF row
<1>8. /\ index' \in Index /\ index'.thrown = index.thrown
      /\ index'.DefenseVersion = index.DefenseVersion /\ index'.metrics = index.metrics
      /\ index'.ThreatReceipt = RowAt(index.ThreatReceipt, r, row)
      /\ index'.Validator = index.Validator
      /\ index'.Attestation = index.Attestation /\ index'.UsageBatch = index.UsageBatch
  BY <1>6, <1>7 DEF IndexInv, Index
<1>9. ReceiptsMirrored'
  BY <1>1, <1>3, <1>4, <1>5, <1>8, ReceiptWritten DEF IndexInv
<1>10. UNCHANGED <<isValidationFinal, passingAttestations, attestations, agentIdOwners, batches, batchRewardsAllocated,
                   rewardAllocations, rewardClaimed>>
  BY DEF validationVars, identityVars, rewardsVars
<1>11. SameCounts(index.metrics, index'.metrics)
  BY <1>8 DEF SameCounts, SameTotals
<1>. QED
  BY <1>1, <1>8, <1>9, <1>10, <1>11, ReceiptsIndexed

\* The row of a pause is read by nothing the properties speak of.
LEMMA PauseIndexed ==
  ASSUME IndexInv, NEW s \in RegistryScopes \cup RewardScopes, NEW p \in PauseState,
         index' = OnProtocolPaused(index, s, p),
         UNCHANGED <<versions, receipts, isValidationFinal, passingAttestations, attestations,
                     agentIdOwners, batches, batchRewardsAllocated, rewardAllocations, rewardClaimed>>
  PROVE  IndexInv'
<1>. DEFINE P == [index.PauseState EXCEPT ![s] = p]
<1>1. P \in [RegistryScopes \cup RewardScopes -> OrNone(PauseState)]
  BY DEF IndexInv, Index, OrNone
<1>2. index' = [index EXCEPT !.PauseState = P]
  BY DEF OnProtocolPaused
<1>. HIDE DEF P
<1>3. /\ index' \in Index /\ index'.thrown = index.thrown
      /\ index'.DefenseVersion = index.DefenseVersion /\ index'.metrics = index.metrics
      /\ index'.ThreatReceipt = index.ThreatReceipt /\ index'.Validator = index.Validator
      /\ index'.Attestation = index.Attestation /\ index'.UsageBatch = index.UsageBatch
  BY <1>1, <1>2 DEF IndexInv, Index
<1>4. SameCounts(index.metrics, index'.metrics)
  BY <1>3 DEF SameCounts, SameTotals
<1>. QED
  BY <1>3, <1>4, IndexKept

\* Every transaction of the registry, with the handlers of its events.
LEMMA RegistryIndexedStep ==
  ASSUME IndexInv, ReleaseInv, RegistryIndexed, UNCHANGED <<validationVars, rewardsVars, now>>
  PROVE  IndexInv'
<1>. USE DEF Indexes
<1>0. UNCHANGED <<isValidationFinal, passingAttestations, attestations, agentIdOwners, batches, batchRewardsAllocated,
                  rewardAllocations, rewardClaimed>>
  BY DEF validationVars, identityVars, rewardsVars
<1>1. CASE setValidationRegistry /\ Indexes(index)
  <2>1. UNCHANGED <<versions, receipts>> /\ index' = index
    BY <1>1 DEF setValidationRegistry
  <2>2. index' \in Index /\ SameCounts(index.metrics, index'.metrics)
    BY <2>1 DEF IndexInv, SameCounts, SameTotals
  <2>. QED
    BY <1>0, <2>1, <2>2, IndexKept
<1>2. ASSUME NEW c \in Accounts, NEW d \in Defenses, NEW a \in Agents,
             registerDefense(c, d, a), Indexes(OnDefenseRegistered(index, d, a))
      PROVE  IndexInv'
  <2>. DEFINE M == [index.metrics EXCEPT !.defenseCount = @ + 1]
              D == [index.Defense EXCEPT ![d] = a]
  <2>1. UNCHANGED <<versions, receipts>>
    BY <1>2 DEF registerDefense
  <2>2. M \in ProtocolMetrics /\ SameCounts(index.metrics, M)
    BY DEF IndexInv, Index, ProtocolMetrics, SameCounts, SameTotals
  <2>3. D \in [Defenses -> Agents \cup {NoEntity}]
    BY DEF IndexInv, Index
  <2>4. index' = [index EXCEPT !.Defense = D, !.metrics = M]
    BY <1>2 DEF OnDefenseRegistered
  <2>. HIDE DEF M, D
  <2>5. /\ index' \in Index /\ index'.thrown = index.thrown
        /\ index'.DefenseVersion = index.DefenseVersion /\ index'.metrics = M
        /\ index'.ThreatReceipt = index.ThreatReceipt /\ index'.Validator = index.Validator
        /\ index'.Attestation = index.Attestation /\ index'.UsageBatch = index.UsageBatch
    BY <2>2, <2>3, <2>4 DEF IndexInv, Index
  <2>. QED
    BY <1>0, <2>1, <2>2, <2>5, IndexKept
<1>3. ASSUME NEW k \in VersionKeys, promoteVersion(k), Indexes(changeStatusEvents(k, "Stable"))
      PROVE  IndexInv'
  <2>1. status(k) # "None" /\ changeStatus(k, "Stable")
    BY <1>3 DEF promoteVersion
  <2>2. "Stable" \in DefenseStatus \ {"None"}
    BY DEF DefenseStatus
  <2>. QED
    BY <1>3, <2>1, <2>2, StatusChangeIndexed DEF changeStatusEvents
<1>4. ASSUME NEW k \in VersionKeys, NEW s \in {"Rejected", "Quarantined", "Revoked"},
             status(k) # "None", changeStatus(k, s),
             Indexes(OnVersionSafetyAction(changeStatusEvents(k, s), k))
      PROVE  IndexInv'
  <2>1. s \in DefenseStatus \ {"None"}
    BY DEF DefenseStatus
  <2>. QED
    BY <1>4, <2>1, StatusChangeIndexed DEF changeStatusEvents
<1>5. \A k \in VersionKeys : rejectVersion(k) => status(k) # "None" /\ changeStatus(k, "Rejected")
  BY DEF rejectVersion
<1>6. \A k \in VersionKeys, s \in VersionKeys \cup {NoKey} :
        /\ quarantineVersion(k, s) => status(k) # "None" /\ changeStatus(k, "Quarantined")
        /\ revokeVersion(k, s) => status(k) # "None" /\ changeStatus(k, "Revoked")
  BY DEF quarantineVersion, revokeVersion
<1>7. ASSUME NEW s \in RegistryScopes \cap PausableScopes, NEW p \in PauseInput,
             setProtocolPause(s, p), Indexes(OnProtocolPaused(index, s, p))
      PROVE  IndexInv'
  <2>1. UNCHANGED <<versions, receipts>>
    BY <1>7 DEF setProtocolPause
  <2>2. p \in PauseState
    BY PauseInputs DEF ReleaseInv, Types, RegistryTypeOK
  <2>. QED
    BY <1>0, <1>7, <2>1, <2>2, PauseIndexed
<1>. QED
  BY <1>1, <1>2, <1>3, <1>4, <1>5, <1>6, <1>7, PublicationIndexed, ReplayBundleIndexed,
     PublishReceiptIndexed, LinkIndexed, ResolutionIndexed DEF RegistryIndexed

(***************************************************************************)
(* The validation contract, indexed.                                       *)
(***************************************************************************)
\* The rows have natural numbers of counts, and finitely many agents have one.
LEMMA CountsAreNat ==
  /\ index \in Index =>
       /\ IsFiniteSet(Rows)
       /\ \A a \in Rows : SubmittedCounts[a] \in Nat /\ PassingCounts[a] \in Nat
  /\ index' \in Index =>
       /\ IsFiniteSet(Rows')
       /\ \A a \in Rows' : SubmittedCounts'[a] \in Nat /\ PassingCounts'[a] \in Nat
<1>1. index \in Index =>
       /\ IsFiniteSet(Rows)
       /\ \A a \in Rows : SubmittedCounts[a] \in Nat /\ PassingCounts[a] \in Nat
  <2>1. Rows \in SUBSET Agents
    BY DEF Rows
  <2>2. IsFiniteSet(Rows)
    BY <2>1, RegistryAssumption, FS_Subset
  <2>3. index \in Index => \A a \in Rows : index.Validator[a] \in ValidatorEntity
    BY DEF Rows, Index, OrNone
  <2>. QED
    BY <2>2, <2>3 DEF SubmittedCounts, PassingCounts, ValidatorEntity
<1>2. index' \in Index =>
       /\ IsFiniteSet(Rows')
       /\ \A a \in Rows' : SubmittedCounts'[a] \in Nat /\ PassingCounts'[a] \in Nat
  <2>1. Rows' \in SUBSET Agents
    BY DEF Rows
  <2>2. IsFiniteSet(Rows')
    BY <2>1, RegistryAssumption, FS_Subset
  <2>3. index' \in Index => \A a \in Rows' : index'.Validator[a] \in ValidatorEntity
    BY DEF Rows, Index, OrNone
  <2>. QED
    BY <2>2, <2>3 DEF SubmittedCounts, PassingCounts, ValidatorEntity
<1>. QED
  BY <1>1, <1>2

\* A handler rewrites the row of one validator and moves the totals as much.
LEMMA ValidatorRewritten ==
  ASSUME index \in Index, index' \in Index, TrackRecordsKept, NEW a \in Rows,
         NEW row \in ValidatorEntity, index'.Validator = RowAt(index.Validator, a, row),
         index'.metrics.attestationCount + index.Validator[a].submittedCount =
           index.metrics.attestationCount + row.submittedCount,
         index'.metrics.passingAttestationCount + index.Validator[a].passingCount =
           index.metrics.passingAttestationCount + row.passingCount,
         RecordKept(a)',
         \A b \in Agents \ {a} : \A k \in VersionKeys : attestations'[k][b] = attestations[k][b]
  PROVE  TrackRecordsKept'
<1>1. a \in Agents /\ row # NoEntity
  BY IndexerAssumption DEF Rows
<1>2. /\ \A b \in Agents \ {a} : index'.Validator[b] = index.Validator[b]
      /\ index'.Validator[a] = row
  BY <1>1 DEF RowAt, Index
<1>3. Rows' = Rows
  BY <1>1, <1>2 DEF Rows
<1>4. (\A b \in Rows : RecordKept(b)) /\ TotalsKept
  BY TrackRecordsSplit
<1>5. \A b \in Rows : RecordKept(b)'
  <2>1. ASSUME NEW b \in Rows \ {a} PROVE RecordKept(b)'
    <3>1. b \in Agents
      BY DEF Rows
    <3>2. /\ Attested(b)' = Attested(b) /\ AttestedPassing(b)' = AttestedPassing(b)
          /\ AttestedChallenged(b)' = AttestedChallenged(b)
      BY <3>1 DEF Attested, AttestedPassing, AttestedChallenged
    <3>. QED
      BY <1>2, <1>4, <3>1, <3>2 DEF RecordKept
  <2>. QED
    BY <2>1
<1>6. /\ \A b \in Rows \ {a} : SubmittedCounts'[b] = SubmittedCounts[b]
      /\ \A b \in Rows \ {a} : PassingCounts'[b] = PassingCounts[b]
      /\ SubmittedCounts[a] = index.Validator[a].submittedCount
      /\ PassingCounts[a] = index.Validator[a].passingCount
      /\ SubmittedCounts'[a] = row.submittedCount /\ PassingCounts'[a] = row.passingCount
  BY <1>1, <1>2, <1>3 DEF SubmittedCounts, PassingCounts, Rows
<1>7. /\ IsFiniteSet(Rows)
      /\ \A b \in Rows : SubmittedCounts[b] \in Nat /\ SubmittedCounts'[b] \in Nat
      /\ \A b \in Rows : PassingCounts[b] \in Nat /\ PassingCounts'[b] \in Nat
  BY <1>3, CountsAreNat
<1>8. SumFunctionOnSet(SubmittedCounts', Rows) + SubmittedCounts[a] =
        SumFunctionOnSet(SubmittedCounts, Rows) + SubmittedCounts'[a]
  BY <1>6, <1>7, SumChanges
<1>9. SumFunctionOnSet(PassingCounts', Rows) + PassingCounts[a] =
        SumFunctionOnSet(PassingCounts, Rows) + PassingCounts'[a]
  BY <1>6, <1>7, SumChanges
<1>10. /\ SumFunctionOnSet(SubmittedCounts, Rows) \in Nat /\ SumFunctionOnSet(PassingCounts, Rows) \in Nat
       /\ SumFunctionOnSet(SubmittedCounts', Rows) \in Nat /\ SumFunctionOnSet(PassingCounts', Rows) \in Nat
  BY <1>7, SumIsNat
<1>11. index'.metrics.attestationCount \in Int /\ index'.metrics.passingAttestationCount \in Int
  BY DEF Index, ProtocolMetrics
<1>12. index'.metrics.attestationCount = SumFunctionOnSet(SubmittedCounts', Rows)
  <2>1. index'.metrics.attestationCount + SubmittedCounts[a] =
          SumFunctionOnSet(SubmittedCounts, Rows) + SubmittedCounts'[a]
    BY <1>4, <1>6 DEF TotalsKept
  <2>2. SubmittedCounts[a] \in Nat /\ SubmittedCounts'[a] \in Nat
    BY <1>7
  <2>. QED
    BY <1>8, <1>10, <1>11, <2>1, <2>2
<1>13. index'.metrics.passingAttestationCount = SumFunctionOnSet(PassingCounts', Rows)
  <2>1. index'.metrics.passingAttestationCount + PassingCounts[a] =
          SumFunctionOnSet(PassingCounts, Rows) + PassingCounts'[a]
    BY <1>4, <1>6 DEF TotalsKept
  <2>2. PassingCounts[a] \in Nat /\ PassingCounts'[a] \in Nat
    BY <1>7
  <2>. QED
    BY <1>9, <1>10, <1>11, <2>1, <2>2
<1>14. TotalsKept'
  BY <1>3, <1>12, <1>13 DEF TotalsKept
<1>15. (\A b \in Rows : RecordKept(b))'
  BY <1>3, <1>5
<1>. QED
  BY <1>14, <1>15, TrackRecordsSplit

\* A validator's first row starts with nothing attested.
LEMMA ValidatorAdded ==
  ASSUME index \in Index, index' \in Index, TrackRecordsKept, NEW a \in Agents \ Rows,
         NEW row \in ValidatorEntity, index'.Validator = RowAt(index.Validator, a, row),
         row.submittedCount = 0, row.passingCount = 0, row.challengedCount = 0,
         SameTotals(index.metrics, index'.metrics), attestations' = attestations,
         \A k \in VersionKeys : ~ attestations[k][a].submitted
  PROVE  TrackRecordsKept'
<1>1. row # NoEntity
  BY IndexerAssumption
<1>2. /\ \A b \in Agents \ {a} : index'.Validator[b] = index.Validator[b]
      /\ index'.Validator[a] = row
  BY DEF RowAt, Index
<1>3. Rows' = Rows \cup {a}
  BY <1>1, <1>2 DEF Rows
<1>4. (\A b \in Rows : RecordKept(b)) /\ TotalsKept
  BY TrackRecordsSplit
<1>5. \A b \in Agents : /\ Attested(b)' = Attested(b) /\ AttestedPassing(b)' = AttestedPassing(b)
                        /\ AttestedChallenged(b)' = AttestedChallenged(b)
  BY DEF Attested, AttestedPassing, AttestedChallenged
<1>6. Attested(a) = {} /\ AttestedPassing(a) = {} /\ AttestedChallenged(a) = {}
  BY DEF Attested, AttestedPassing, AttestedChallenged
<1>7. RecordKept(a)'
  BY <1>2, <1>5, <1>6, FS_EmptySet DEF RecordKept
<1>8. \A b \in Rows : RecordKept(b)'
  <2>1. \A b \in Rows : b \in Agents \ {a}
    BY DEF Rows
  <2>. QED
    BY <1>2, <1>4, <1>5, <2>1 DEF RecordKept
<1>9. (\A b \in Rows : RecordKept(b))'
  BY <1>3, <1>7, <1>8
<1>10. /\ \A b \in Rows : SubmittedCounts'[b] = SubmittedCounts[b] /\ PassingCounts'[b] = PassingCounts[b]
       /\ SubmittedCounts'[a] = 0 /\ PassingCounts'[a] = 0
  BY <1>2, <1>3 DEF SubmittedCounts, PassingCounts, Rows
<1>11. /\ IsFiniteSet(Rows) /\ a \notin Rows
       /\ \A b \in Rows \cup {a} : SubmittedCounts'[b] \in Nat /\ PassingCounts'[b] \in Nat
  BY <1>3, CountsAreNat
<1>12. /\ SumFunctionOnSet(SubmittedCounts', Rows) = SumFunctionOnSet(SubmittedCounts, Rows)
       /\ SumFunctionOnSet(PassingCounts', Rows) = SumFunctionOnSet(PassingCounts, Rows)
  BY <1>10, <1>11, SumAgrees
<1>13. /\ SumFunctionOnSet(SubmittedCounts', Rows \cup {a}) = 0 + SumFunctionOnSet(SubmittedCounts', Rows)
       /\ SumFunctionOnSet(PassingCounts', Rows \cup {a}) = 0 + SumFunctionOnSet(PassingCounts', Rows)
  BY <1>10, <1>11, SumAdds
<1>14. SumFunctionOnSet(SubmittedCounts', Rows) \in Nat /\ SumFunctionOnSet(PassingCounts', Rows) \in Nat
  BY <1>11, SumIsNat
<1>15. TotalsKept'
  BY <1>3, <1>4, <1>12, <1>13, <1>14 DEF TotalsKept, SameTotals
<1>. QED
  BY <1>9, <1>15, TrackRecordsSplit

\* The frame of the validation contract's transactions.
LEMMA ValidationKeeps ==
  ASSUME IndexInv, index' \in Index, index'.thrown = index.thrown,
         index'.DefenseVersion = index.DefenseVersion, index'.ThreatReceipt = index.ThreatReceipt,
         index'.UsageBatch = index.UsageBatch,
         index'.metrics.stableVersionCount = index.metrics.stableVersionCount,
         index'.metrics.rewardClaimed = index.metrics.rewardClaimed,
         UNCHANGED <<versions, receipts, isValidationFinal, batches, batchRewardsAllocated, rewardAllocations, rewardClaimed>>,
         \A k \in VersionKeys : isValidationFinal[k] => passingAttestations'[k] = passingAttestations[k],
         AttestationsMirrored', ValidatorsMirrored', TrackRecordsKept'
  PROVE  IndexInv'
<1>1. StableSet' = StableSet
  BY DEF StableSet, status
<1>2. index.metrics.stableVersionCount \in Int
  BY DEF IndexInv, Index, ProtocolMetrics
<1>3. Cardinality(StableSet) \in Nat
  BY StableSetFinite, FS_CardinalityType
<1>4. MetricsAgree'
  BY <1>1, <1>2, <1>3, MetricsFrame DEF IndexInv
<1>. QED
  BY <1>4, Frames DEF IndexInv

\* bindIdentity and unbindIdentity: the wallet and the activity change, the
\* record of the agent does not.
LEMMA IdentityIndexed ==
  ASSUME IndexInv, ReleaseInv, NEW v \in Accounts, NEW a \in Agents, NEW active \in BOOLEAN,
         index' = OnValidatorIdentitySet(index, v, a, active),
         agentIdOwners' = [agentIdOwners EXCEPT ![a] = IF active THEN v ELSE NoAccount],
         UNCHANGED <<registryVars, attestations, passingAttestations, isValidationFinal, rewardsVars>>
  PROVE  IndexInv'
<1>. DEFINE old == index.Validator[a]
            fresh == [wallet |-> v, active |-> active, submittedCount |-> 0, passingCount |-> 0,
                      challengedCount |-> 0]
            row == IF old = NoEntity THEN fresh ELSE [old EXCEPT !.wallet = v, !.active = active]
<1>1. old # NoEntity => old \in ValidatorEntity
  BY DEF IndexInv, Index, OrNone
<1>2. /\ row \in ValidatorEntity /\ row.wallet = v /\ row.active = active
      /\ old = NoEntity =>
           row.submittedCount = 0 /\ row.passingCount = 0 /\ row.challengedCount = 0
      /\ old # NoEntity =>
           /\ row.submittedCount = old.submittedCount /\ row.passingCount = old.passingCount
           /\ row.challengedCount = old.challengedCount
  <2>1. CASE old = NoEntity
    BY <2>1 DEF ValidatorEntity
  <2>2. CASE old # NoEntity
    BY <1>1, <2>2 DEF ValidatorEntity
  <2>. QED
    BY <2>1, <2>2
<1>3. index' = [index EXCEPT !.Validator = RowAt(index.Validator, a, row)]
  BY DEF OnValidatorIdentitySet, RowAt
<1>4. index.Validator \in [Agents -> OrNone(ValidatorEntity)] /\ index \in Index
  BY DEF IndexInv, Index
<1>. HIDE DEF row
<1>5. RowAt(index.Validator, a, row) \in [Agents -> OrNone(ValidatorEntity)]
  BY <1>2, <1>4 DEF OrNone, RowAt
<1>6. /\ index' \in Index /\ index'.thrown = index.thrown
      /\ index'.DefenseVersion = index.DefenseVersion /\ index'.metrics = index.metrics
      /\ index'.Validator = RowAt(index.Validator, a, row)
      /\ index'.ThreatReceipt = index.ThreatReceipt
      /\ index'.Attestation = index.Attestation /\ index'.UsageBatch = index.UsageBatch
  BY <1>3, <1>4, <1>5 DEF Index
<1>7. UNCHANGED <<versions, receipts, isValidationFinal, passingAttestations, attestations, batches, batchRewardsAllocated,
                  rewardAllocations, rewardClaimed>>
  BY DEF registryVars, rewardsVars
<1>8. row # NoEntity
  BY <1>2, IndexerAssumption
<1>9. ValidatorsMirrored'
  <2>1. ASSUME NEW b \in Agents \ {a}
        PROVE  index'.Validator[b] = index.Validator[b] /\ agentIdOwners'[b] = agentIdOwners[b]
    BY <1>4, <1>6 DEF RowAt, ReleaseInv, Types, ValidationTypeOK
  <2>2. index'.Validator[a] = row /\ agentIdOwners'[a] = IF active THEN v ELSE NoAccount
    BY <1>4, <1>6 DEF RowAt, ReleaseInv, Types, ValidationTypeOK
  <2>3. v # NoAccount
    BY RegistryAssumption
  <2>. QED
    BY <1>2, <1>7, <1>8, <2>1, <2>2, <2>3 DEF IndexInv, ValidatorsMirrored
<1>10. TrackRecordsKept
  BY DEF IndexInv
<1>11. SameTotals(index.metrics, index'.metrics)
  BY <1>6 DEF SameTotals
<1>12. TrackRecordsKept'
  <2>1. CASE old = NoEntity
    <3>1. a \in Agents \ Rows
      BY <2>1 DEF Rows
    <3>2. \A k \in VersionKeys : ~ attestations[k][a].submitted
      BY <2>1 DEF IndexInv, ValidatorsMirrored
    <3>. QED
      BY <1>2, <1>4, <1>6, <1>7, <1>10, <1>11, <2>1, <3>1, <3>2, ValidatorAdded
  <2>2. CASE old # NoEntity
    <3>1. a \in Rows
      BY <2>2 DEF Rows
    <3>2. RecordKept(a)
      BY <1>10, <3>1, TrackRecordsSplit
    <3>3. index'.Validator[a] = row
      BY <1>4, <1>6 DEF RowAt
    <3>4. RecordKept(a)'
      BY <1>2, <1>7, <2>2, <3>2, <3>3 DEF RecordKept, Attested, AttestedPassing, AttestedChallenged
    <3>. QED
      BY <1>2, <1>4, <1>6, <1>7, <1>10, <2>2, <3>1, <3>4, ValidatorRewritten
  <2>. QED
    BY <2>1, <2>2
<1>13. AttestationsMirrored'
  BY <1>6, <1>7, Frames DEF IndexInv
<1>. QED
  BY <1>6, <1>7, <1>9, <1>12, <1>13, ValidationKeeps

\* One more member.
LEMMA OneMore ==
  ASSUME NEW s, NEW k, s \subseteq VersionKeys, k \in VersionKeys, k \notin s
  PROVE  Cardinality(s \cup {k}) = Cardinality(s) + 1 /\ Cardinality(s) \in Nat
BY StableSetFinite, FS_Subset, FS_AddElement, FS_CardinalityType

\* submitAttestation: a row for the attestation, and one more in the counts.
LEMMA SubmissionIndexed ==
  ASSUME IndexInv, ReleaseInv, NEW c \in Accounts, NEW k \in VersionKeys, NEW p \in BOOLEAN,
         NEW a, a = validatorAgentIds[c], submitAttestation(c, k, p),
         index' = OnAttestationSubmitted(index, k, a, p),
         UNCHANGED <<registryVars, rewardsVars>>
  PROVE  IndexInv'
<1>. DEFINE old == index.Validator[a]
            one == IF p THEN 1 ELSE 0
            submitted == old.submittedCount + 1
            passing == old.passingCount + one
            total == index.metrics.attestationCount + 1
            totalPassing == index.metrics.passingAttestationCount + one
            row == [old EXCEPT !.submittedCount = submitted, !.passingCount = passing]
            held == [passed |-> p, challenged |-> FALSE]
            A == RowAt(index.Attestation, k, RowAt(index.Attestation[k], a, held))
            M == [index.metrics EXCEPT !.attestationCount = total,
                                       !.passingAttestationCount = totalPassing]
<1>1. /\ a \in Agents /\ ~ attestations[k][a].submitted
      /\ attestations' \in [VersionKeys -> [Agents -> Attestation]]
      /\ attestations'[k][a].submitted /\ attestations'[k][a].passed = p
      /\ attestations'[k][a].challenged = FALSE
      /\ \A j \in VersionKeys, b \in Agents :
           ~ (j = k /\ b = a) => attestations'[j][b] = attestations[j][b]
  <2>1. attestations'[k][a] = [submitted |-> TRUE, passed |-> p, challenged |-> FALSE, sender |-> c]
    BY AttestationSubmitted DEF ReleaseInv, Types
  <2>. QED
    BY <2>1, AttestationSubmitted DEF ReleaseInv, Types
<1>2. /\ agentIdOwners[a] = c /\ ~ isValidationFinal[k]
      /\ UNCHANGED <<agentIdOwners, isValidationFinal>>
      /\ \A j \in VersionKeys : j # k => passingAttestations'[j] = passingAttestations[j]
  BY DEF submitAttestation, ReleaseInv, Types, ValidationTypeOK, identityVars
<1>3. old # NoEntity /\ old \in ValidatorEntity /\ a \in Rows
  BY <1>1, <1>2, RegistryAssumption DEF IndexInv, ValidatorsMirrored, Index, OrNone, Rows
<1>4. one \in Nat
  OBVIOUS
<1>. HIDE DEF one
<1>5. /\ row \in ValidatorEntity /\ row.wallet = old.wallet /\ row.active = old.active
      /\ row.submittedCount = submitted /\ row.passingCount = passing
      /\ row.challengedCount = old.challengedCount
      /\ old.submittedCount \in Nat /\ old.passingCount \in Nat
  <2>1. old.submittedCount \in Nat /\ old.passingCount \in Nat
    BY <1>3 DEF ValidatorEntity
  <2>2. submitted \in Nat /\ passing \in Nat
    BY <1>4, <2>1
  <2>. HIDE DEF submitted, passing, old
  <2>. QED
    BY <1>3, <2>1, <2>2 DEF ValidatorEntity
<1>6. held \in AttestationEntity /\ held # NoEntity /\ held.passed = p /\ held.challenged = FALSE
  <2>1. held \in AttestationEntity /\ held.passed = p /\ held.challenged = FALSE
    BY DEF AttestationEntity
  <2>. HIDE DEF held
  <2>. QED
    BY <2>1, IndexerAssumption
<1>7. /\ M \in ProtocolMetrics
      /\ M.attestationCount = total /\ M.passingAttestationCount = totalPassing
      /\ M.stableVersionCount = index.metrics.stableVersionCount
      /\ M.rewardClaimed = index.metrics.rewardClaimed
      /\ index.metrics.attestationCount \in Int /\ index.metrics.passingAttestationCount \in Int
  <2>1. /\ index.metrics \in ProtocolMetrics
        /\ index.metrics.attestationCount \in Int /\ index.metrics.passingAttestationCount \in Int
    BY DEF IndexInv, Index, ProtocolMetrics
  <2>2. total \in Int /\ totalPassing \in Int
    BY <1>4, <2>1
  <2>. HIDE DEF total, totalPassing
  <2>. QED
    BY <2>1, <2>2 DEF ProtocolMetrics
<1>8. /\ index.Validator \in [Agents -> OrNone(ValidatorEntity)] /\ index \in Index
      /\ index.Attestation \in [VersionKeys -> [Agents -> OrNone(AttestationEntity)]]
  BY DEF IndexInv, Index
<1>. DEFINE V1 == [index.Validator EXCEPT ![a].submittedCount = submitted]
            V2 == [V1 EXCEPT ![a].passingCount = passing]
            M1 == [index.metrics EXCEPT !.attestationCount = total]
            t1 == [index EXCEPT !.Attestation = A]
            t2 == [t1 EXCEPT !.Validator = V1]
            t3 == [t2 EXCEPT !.Validator = V2]
            t4 == [t3 EXCEPT !.metrics = M1]
<1>9. index' = [t4 EXCEPT !.metrics = M] /\ V2 = RowAt(index.Validator, a, row)
  <2>1. one = One(p)
    BY DEF one, One
  <2>2. index' = [index EXCEPT !.Attestation[k][a] = held,
                               !.Validator[a].submittedCount = submitted,
                               !.Validator[a].passingCount = passing,
                               !.metrics.attestationCount = total,
                               !.metrics.passingAttestationCount = totalPassing]
    BY <1>3, <2>1 DEF OnAttestationSubmitted, WithRow
  <2>. HIDE DEF submitted, passing, total, totalPassing, held
  <2>3. [[index.Validator EXCEPT ![a].submittedCount = submitted] EXCEPT ![a].passingCount = passing] =
          RowAt(index.Validator, a, row)
    <3>. DEFINE half == [old EXCEPT !.submittedCount = submitted]
                V == RowAt(index.Validator, a, half)
    <3>1. [index.Validator EXCEPT ![a].submittedCount = submitted] = V
      BY <1>1, <1>8 DEF RowAt
    <3>2. V[a] = half
      BY <1>1, <1>8 DEF RowAt
    <3>3. [V EXCEPT ![a].passingCount = passing] = [V EXCEPT ![a] = [half EXCEPT !.passingCount = passing]]
      BY <3>2
    <3>4. [half EXCEPT !.passingCount = passing] = row
      BY <1>3 DEF ValidatorEntity
    <3>. HIDE DEF half
    <3>5. [V EXCEPT ![a] = row] = RowAt(index.Validator, a, row)
      BY <1>1, <1>8 DEF RowAt
    <3>. QED
      BY <3>1, <3>3, <3>4, <3>5
  <2>4. index' = [[[[[index EXCEPT !.Attestation[k][a] = held]
                       EXCEPT !.Validator[a].submittedCount = submitted]
                      EXCEPT !.Validator[a].passingCount = passing]
                     EXCEPT !.metrics.attestationCount = total]
                    EXCEPT !.metrics.passingAttestationCount = totalPassing]
    BY <2>2
  <2>5. [index EXCEPT !.Attestation[k][a] = held] = t1 /\ t1.Validator = index.Validator
        /\ t1.metrics = index.metrics
    BY <1>8 DEF Index, RowAt
  <2>6. [t1 EXCEPT !.Validator[a].submittedCount = submitted] = t2
        /\ t2.Validator = V1 /\ t2.metrics = index.metrics
    BY <1>8, <2>5 DEF Index
  <2>7. [t2 EXCEPT !.Validator[a].passingCount = passing] = t3 /\ t3.metrics = index.metrics
    BY <1>8, <2>6 DEF Index
  <2>8. [t3 EXCEPT !.metrics.attestationCount = total] = t4 /\ t4.metrics = M1
    BY <1>8, <2>7 DEF Index
  <2>9. [t4 EXCEPT !.metrics.passingAttestationCount = totalPassing] = [t4 EXCEPT !.metrics = M]
    BY <2>8
  <2>10. V2 = RowAt(index.Validator, a, row)
    BY <2>3
  <2>. HIDE DEF t1, t2, t3, t4, M
  <2>11. index' = [t4 EXCEPT !.metrics = M]
    BY <2>4, <2>5, <2>6, <2>7, <2>8, <2>9
  <2>. QED
    BY <2>10, <2>11
<1>10. RowAt(index.Validator, a, row) \in [Agents -> OrNone(ValidatorEntity)]
  BY <1>5, <1>8 DEF OrNone, RowAt
<1>11. A \in [VersionKeys -> [Agents -> OrNone(AttestationEntity)]]
  BY <1>1, <1>6, <1>8 DEF OrNone, RowAt
<1>12. /\ A[k][a] = held
       /\ \A j \in VersionKeys, b \in Agents : ~ (j = k /\ b = a) => A[j][b] = index.Attestation[j][b]
  BY <1>1, <1>8 DEF RowAt
<1>. HIDE DEF row, A, M, M1, V1, V2, held
<1>13. /\ index' \in Index /\ index'.thrown = index.thrown
       /\ index'.DefenseVersion = index.DefenseVersion /\ index'.metrics = M
       /\ index'.Validator = RowAt(index.Validator, a, row)
       /\ index'.ThreatReceipt = index.ThreatReceipt
       /\ index'.Attestation = A /\ index'.UsageBatch = index.UsageBatch
  BY <1>7, <1>8, <1>9, <1>10, <1>11 DEF Index
<1>14. UNCHANGED <<versions, receipts, batches, batchRewardsAllocated, rewardAllocations, rewardClaimed>>
  BY DEF registryVars, rewardsVars
<1>15. AttestationsMirrored'
  <2>1. held = [passed |-> attestations'[k][a].passed, challenged |-> attestations'[k][a].challenged]
    BY <1>1 DEF held
  <2>2. ASSUME NEW j \in VersionKeys, NEW b \in Agents, ~ (j = k /\ b = a)
        PROVE  index'.Attestation[j][b] = index.Attestation[j][b]
               /\ attestations'[j][b] = attestations[j][b]
    BY <1>1, <1>12, <1>13, <2>2
  <2>3. index'.Attestation[k][a] = held
    BY <1>12, <1>13
  <2>. QED
    BY <1>1, <1>6, <2>1, <2>2, <2>3 DEF IndexInv, AttestationsMirrored
<1>16. row # NoEntity
  BY <1>5, IndexerAssumption
<1>17. /\ \A b \in Agents \ {a} : index'.Validator[b] = index.Validator[b]
       /\ index'.Validator[a] = row
  BY <1>1, <1>8, <1>13 DEF RowAt
<1>18. ValidatorsMirrored'
  BY <1>1, <1>2, <1>3, <1>5, <1>16, <1>17 DEF IndexInv, ValidatorsMirrored
<1>19. TrackRecordsKept
  BY DEF IndexInv
<1>20. RecordKept(a)'
  <2>1. RecordKept(a)
    BY <1>3, <1>19, TrackRecordsSplit
  <2>9. \A j \in VersionKeys : j # k => attestations'[j][a] = attestations[j][a]
    BY <1>1
  <2>2. /\ Attested(a)' = Attested(a) \cup {k} /\ k \notin Attested(a)
        /\ AttestedChallenged(a)' = AttestedChallenged(a)
        /\ Attested(a) \subseteq VersionKeys
    BY <1>1, <2>9 DEF Attested, AttestedChallenged
  <2>3. /\ p => AttestedPassing(a)' = AttestedPassing(a) \cup {k}
        /\ ~ p => AttestedPassing(a)' = AttestedPassing(a)
        /\ k \notin AttestedPassing(a) /\ AttestedPassing(a) \subseteq VersionKeys
    <3>1. CASE p
      BY <1>1, <2>9, <3>1 DEF Attested, AttestedPassing
    <3>2. CASE ~ p
      BY <1>1, <2>9, <3>2 DEF Attested, AttestedPassing
    <3>. QED
      BY <3>1, <3>2
  <2>4. Cardinality(Attested(a)') = Cardinality(Attested(a)) + 1
    BY <2>2, OneMore
  <2>5. Cardinality(AttestedPassing(a)') = Cardinality(AttestedPassing(a)) + one
    <3>1. CASE p
      BY <2>3, <3>1, OneMore DEF one
    <3>2. CASE ~ p
      <4>1. Cardinality(AttestedPassing(a)) \in Nat
        BY <2>3, OneMore
      <4>. QED
        BY <2>3, <3>2, <4>1 DEF one
    <3>. QED
      BY <3>1, <3>2
  <2>. QED
    BY <1>5, <1>17, <2>1, <2>2, <2>4, <2>5 DEF RecordKept, submitted, passing
<1>21. TrackRecordsKept'
  <2>1. /\ index'.metrics.attestationCount + old.submittedCount =
             index.metrics.attestationCount + row.submittedCount
        /\ index'.metrics.passingAttestationCount + old.passingCount =
             index.metrics.passingAttestationCount + row.passingCount
    BY <1>4, <1>5, <1>7, <1>13
  <2>2. \A b \in Agents \ {a} : \A j \in VersionKeys : attestations'[j][b] = attestations[j][b]
    BY <1>1
  <2>. HIDE DEF submitted, passing
  <2>. QED
    BY <1>3, <1>5, <1>8, <1>13, <1>19, <1>20, <2>1, <2>2, ValidatorRewritten
<1>22. \A j \in VersionKeys : isValidationFinal[j] => passingAttestations'[j] = passingAttestations[j]
  BY <1>2
<1>. QED
  BY <1>2, <1>7, <1>13, <1>14, <1>15, <1>18, <1>21, <1>22, ValidationKeeps

\* challengeAttestation: the row of the attestation, and one more in the count.
LEMMA ChallengeIndexed ==
  ASSUME IndexInv, ReleaseInv, NEW k \in VersionKeys, NEW a \in Agents, challengeAttestation(k, a),
         index' = OnAttestationChallenged(index, k, a), UNCHANGED <<registryVars, rewardsVars>>
  PROVE  IndexInv'
<1>. DEFINE old == index.Validator[a]
            count == old.challengedCount + 1
            row == [old EXCEPT !.challengedCount = count]
            was == index.Attestation[k][a]
            held == [was EXCEPT !.challenged = TRUE]
            A == RowAt(index.Attestation, k, RowAt(index.Attestation[k], a, held))
            V == RowAt(index.Validator, a, row)
            t == [index EXCEPT !.Attestation = A]
<1>1. /\ attestations[k][a].submitted /\ ~ attestations[k][a].challenged
      /\ ~ isValidationFinal[k]
      /\ attestations' \in [VersionKeys -> [Agents -> Attestation]]
      /\ attestations'[k][a].submitted /\ attestations'[k][a].passed = attestations[k][a].passed
      /\ attestations'[k][a].challenged = TRUE
      /\ \A j \in VersionKeys, b \in Agents :
           ~ (j = k /\ b = a) => attestations'[j][b] = attestations[j][b]
  <2>1. attestations' = [attestations EXCEPT ![k][a].challenged = TRUE]
        /\ attestations[k][a] \in Attestation
    BY DEF challengeAttestation, ReleaseInv, Types, ValidationTypeOK
  <2>2. /\ attestations'[k][a] = [attestations[k][a] EXCEPT !.challenged = TRUE]
        /\ \A j \in VersionKeys, b \in Agents :
             ~ (j = k /\ b = a) => attestations'[j][b] = attestations[j][b]
    BY <2>1 DEF ReleaseInv, Types, ValidationTypeOK
  <2>3. attestations' \in [VersionKeys -> [Agents -> Attestation]]
    BY AttestationChallenged DEF ReleaseInv, Types
  <2>. QED
    BY <2>1, <2>2, <2>3 DEF Attestation, challengeAttestation, challengeable
<1>2. /\ UNCHANGED <<agentIdOwners, isValidationFinal>>
      /\ \A j \in VersionKeys : j # k => passingAttestations'[j] = passingAttestations[j]
  BY DEF challengeAttestation, ReleaseInv, Types, ValidationTypeOK, identityVars
<1>3. /\ old # NoEntity /\ old \in ValidatorEntity /\ a \in Rows
      /\ was # NoEntity /\ was \in AttestationEntity /\ was.passed = attestations[k][a].passed
  <2>1. old # NoEntity /\ old \in ValidatorEntity /\ a \in Rows
    BY <1>1 DEF IndexInv, ValidatorsMirrored, Index, OrNone, Rows
  <2>2. was # NoEntity /\ was \in AttestationEntity
    <3>1. AttestationsMirrored /\ index \in Index
      BY DEF IndexInv
    <3>2. was # NoEntity
      BY <1>1, <3>1 DEF AttestationsMirrored
    <3>3. was \in OrNone(AttestationEntity)
      BY <3>1 DEF Index
    <3>. HIDE DEF was
    <3>. QED
      BY <3>2, <3>3 DEF OrNone
  <2>3. was = [passed |-> attestations[k][a].passed, challenged |-> attestations[k][a].challenged]
    <3>1. AttestationsMirrored
      BY DEF IndexInv
    <3>. QED
      BY <2>2, <3>1 DEF AttestationsMirrored
  <2>. HIDE DEF was
  <2>. QED
    BY <2>1, <2>2, <2>3
<1>4. count \in Nat
  BY <1>3 DEF ValidatorEntity
<1>5. /\ row \in ValidatorEntity /\ row.wallet = old.wallet /\ row.active = old.active
      /\ row.submittedCount = old.submittedCount /\ row.passingCount = old.passingCount
      /\ row.challengedCount = count
      /\ old.submittedCount \in Nat /\ old.passingCount \in Nat
  <2>. HIDE DEF count, old
  <2>. QED
    BY <1>3, <1>4 DEF ValidatorEntity
<1>6. /\ held \in AttestationEntity /\ held # NoEntity
      /\ held = [passed |-> attestations'[k][a].passed,
                 challenged |-> attestations'[k][a].challenged]
  <2>1. held \in AttestationEntity /\ held.passed = was.passed /\ held.challenged = TRUE
    BY <1>3 DEF AttestationEntity
  <2>. HIDE DEF held
  <2>. QED
    BY <1>1, <1>3, <2>1, IndexerAssumption DEF AttestationEntity
<1>7. /\ index.Validator \in [Agents -> OrNone(ValidatorEntity)] /\ index \in Index
      /\ index.Attestation \in [VersionKeys -> [Agents -> OrNone(AttestationEntity)]]
  BY DEF IndexInv, Index
<1>8. index' = [t EXCEPT !.Validator = V]
  <2>1. index' = [[index EXCEPT !.Attestation[k][a].challenged = TRUE]
                    EXCEPT !.Validator[a].challengedCount = @ + 1]
    BY <1>3 DEF OnAttestationChallenged
  <2>2. [index EXCEPT !.Attestation[k][a].challenged = TRUE] = t /\ t.Validator = index.Validator
    BY <1>7 DEF Index, RowAt
  <2>. HIDE DEF t
  <2>3. [t EXCEPT !.Validator[a].challengedCount = @ + 1] = [t EXCEPT !.Validator = V]
    BY <2>2 DEF RowAt
  <2>. QED
    BY <2>1, <2>2, <2>3
<1>9. V \in [Agents -> OrNone(ValidatorEntity)]
  BY <1>5, <1>7 DEF OrNone, RowAt
<1>10. A \in [VersionKeys -> [Agents -> OrNone(AttestationEntity)]]
  BY <1>6, <1>7 DEF OrNone, RowAt
<1>11. /\ A[k][a] = held
       /\ \A j \in VersionKeys, b \in Agents : ~ (j = k /\ b = a) => A[j][b] = index.Attestation[j][b]
  BY <1>7 DEF RowAt
<1>12. /\ \A b \in Agents \ {a} : V[b] = index.Validator[b]
       /\ V[a] = row
  BY <1>7 DEF RowAt
<1>. HIDE DEF A, V, row, held
<1>13. /\ index' \in Index /\ index'.thrown = index.thrown
       /\ index'.DefenseVersion = index.DefenseVersion /\ index'.metrics = index.metrics
       /\ index'.Validator = V /\ index'.ThreatReceipt = index.ThreatReceipt
       /\ index'.Attestation = A /\ index'.UsageBatch = index.UsageBatch
  BY <1>7, <1>8, <1>9, <1>10 DEF Index
<1>14. UNCHANGED <<versions, receipts, batches, batchRewardsAllocated, rewardAllocations, rewardClaimed>>
  BY DEF registryVars, rewardsVars
<1>15. AttestationsMirrored'
  <2>1. ASSUME NEW j \in VersionKeys, NEW b \in Agents, ~ (j = k /\ b = a)
        PROVE  index'.Attestation[j][b] = index.Attestation[j][b]
               /\ attestations'[j][b] = attestations[j][b]
    BY <1>1, <1>11, <1>13, <2>1
  <2>2. index'.Attestation[k][a] = held
    BY <1>11, <1>13
  <2>. QED
    BY <1>1, <1>6, <2>1, <2>2 DEF IndexInv, AttestationsMirrored
<1>16. row # NoEntity
  BY <1>5, IndexerAssumption
<1>17. ValidatorsMirrored'
  <2>1. \A b \in Agents, j \in VersionKeys : attestations'[j][b].submitted <=> attestations[j][b].submitted
    BY <1>1
  <2>. QED
    BY <1>2, <1>3, <1>5, <1>12, <1>13, <1>16, <2>1 DEF IndexInv, ValidatorsMirrored
<1>18. TrackRecordsKept
  BY DEF IndexInv
<1>19. RecordKept(a)'
  <2>1. RecordKept(a)
    BY <1>3, <1>18, TrackRecordsSplit
  <2>2. \A j \in VersionKeys : j # k => attestations'[j][a] = attestations[j][a]
    BY <1>1
  <2>3. Attested(a)' = Attested(a) /\ AttestedPassing(a)' = AttestedPassing(a)
    BY <1>1, <2>2 DEF Attested, AttestedPassing
  <2>4. /\ AttestedChallenged(a)' = AttestedChallenged(a) \cup {k}
        /\ k \notin AttestedChallenged(a) /\ AttestedChallenged(a) \subseteq VersionKeys
    BY <1>1, <2>2 DEF Attested, AttestedChallenged
  <2>5. Cardinality(AttestedChallenged(a)') = Cardinality(AttestedChallenged(a)) + 1
    BY <2>4, OneMore
  <2>. QED
    BY <1>5, <1>12, <1>13, <2>1, <2>3, <2>5 DEF RecordKept
<1>20. TrackRecordsKept'
  <2>1. /\ index'.metrics.attestationCount + old.submittedCount =
             index.metrics.attestationCount + row.submittedCount
        /\ index'.metrics.passingAttestationCount + old.passingCount =
             index.metrics.passingAttestationCount + row.passingCount
    BY <1>5, <1>13
  <2>2. \A b \in Agents \ {a} : \A j \in VersionKeys : attestations'[j][b] = attestations[j][b]
    BY <1>1
  <2>3. index'.Validator = RowAt(index.Validator, a, row)
    BY <1>13 DEF V
  <2>. HIDE DEF count
  <2>. QED
    BY <1>3, <1>5, <1>7, <1>13, <1>18, <1>19, <2>1, <2>2, <2>3, ValidatorRewritten
<1>21. \A j \in VersionKeys : isValidationFinal[j] => passingAttestations'[j] = passingAttestations[j]
  BY <1>1, <1>2
<1>. QED
  BY <1>2, <1>13, <1>14, <1>15, <1>17, <1>20, <1>21, ValidationKeeps

\* setValidatorThreshold: a counter that the properties do not speak of.
LEMMA ThresholdIndexed ==
  ASSUME IndexInv, NEW n \in 1 .. MAX_THRESHOLD, setValidatorThreshold(n),
         index' = OnValidatorThresholdChanged(index, n), UNCHANGED <<registryVars, rewardsVars>>
  PROVE  IndexInv'
<1>. DEFINE M == [index.metrics EXCEPT !.validatorThreshold = n]
<1>1. M \in ProtocolMetrics /\ SameCounts(index.metrics, M)
  BY DEF IndexInv, Index, ProtocolMetrics, SameCounts, SameTotals
<1>2. index' = [index EXCEPT !.metrics = M]
  BY DEF OnValidatorThresholdChanged
<1>. HIDE DEF M
<1>3. /\ index' \in Index /\ index'.thrown = index.thrown
      /\ index'.DefenseVersion = index.DefenseVersion /\ index'.metrics = M
      /\ index'.ThreatReceipt = index.ThreatReceipt /\ index'.Validator = index.Validator
      /\ index'.Attestation = index.Attestation /\ index'.UsageBatch = index.UsageBatch
  BY <1>1, <1>2 DEF IndexInv, Index
<1>4. UNCHANGED <<versions, receipts, isValidationFinal, passingAttestations, attestations,
                  agentIdOwners, batches, batchRewardsAllocated, rewardAllocations, rewardClaimed>>
  BY DEF setValidatorThreshold, identityVars, registryVars, rewardsVars
<1>. QED
  BY <1>1, <1>3, <1>4, IndexKept

\* finalizeValidation: the row of the version takes the decision and the count
\* it was taken on.
LEMMA FinalizationIndexed ==
  ASSUME IndexInv, ReleaseInv, NEW k \in VersionKeys, finalizeValidation(k),
         index' = OnValidationFinalized(index, k, passingAttestations[k], validatorThreshold),
         UNCHANGED <<registryVars, rewardsVars>>
  PROVE  IndexInv'
<1>. DEFINE old == index.DefenseVersion[k]
            passing == passingAttestations[k]
            threshold == validatorThreshold
            row == [old EXCEPT !.validationFinal = TRUE, !.passingAttestations = passing,
                               !.validationThreshold = threshold]
            D == RowAt(index.DefenseVersion, k, row)
<1>1. /\ status(k) # "None"
      /\ isValidationFinal'[k] = TRUE
      /\ \A j \in VersionKeys : j # k => isValidationFinal'[j] = isValidationFinal[j]
      /\ UNCHANGED <<passingAttestations, attestations, agentIdOwners>>
  BY DEF finalizeValidation, identityVars, ReleaseInv, Types, RegistryTypeOK, ValidationTypeOK
<1>2. UNCHANGED <<versions, receipts, batches, batchRewardsAllocated, rewardAllocations, rewardClaimed>>
  BY DEF registryVars, rewardsVars
<1>3. /\ old # NoEntity /\ old \in DefenseVersionEntity
      /\ old.status = StatusCode[status(k)] /\ old.replayReportHash = versions[k].replayReportHash
  BY <1>1 DEF IndexInv, VersionsMirrored, Index, OrNone
<1>4. passing \in Nat /\ threshold \in Nat
  BY ValidationAssumption DEF ReleaseInv, Types, ValidationTypeOK
<1>. HIDE DEF passing, threshold, old
<1>5. /\ row \in DefenseVersionEntity /\ row.status = old.status
      /\ row.replayReportHash = old.replayReportHash
      /\ row.validationFinal = TRUE /\ row.passingAttestations = passing
  BY <1>3, <1>4 DEF DefenseVersionEntity
<1>6. index.DefenseVersion \in [VersionKeys -> OrNone(DefenseVersionEntity)] /\ index \in Index
  BY DEF IndexInv, Index
<1>7. index' = [index EXCEPT !.DefenseVersion = D]
  <2>1. index' = [[[index EXCEPT !.DefenseVersion[k].validationFinal = TRUE]
                     EXCEPT !.DefenseVersion[k].passingAttestations = passing]
                    EXCEPT !.DefenseVersion[k].validationThreshold = threshold]
    BY <1>3 DEF OnValidationFinalized, WithRow, passing, threshold, old
  <2>. DEFINE row1 == [old EXCEPT !.validationFinal = TRUE]
              row2 == [row1 EXCEPT !.passingAttestations = passing]
              D1 == RowAt(index.DefenseVersion, k, row1)
              D2 == RowAt(index.DefenseVersion, k, row2)
              t1 == [index EXCEPT !.DefenseVersion = D1]
              t2 == [index EXCEPT !.DefenseVersion = D2]
  <2>2. [index EXCEPT !.DefenseVersion[k].validationFinal = TRUE] = t1
    BY <1>6 DEF Index, RowAt, old
  <2>3. row = [row2 EXCEPT !.validationThreshold = threshold]
    BY <1>3 DEF DefenseVersionEntity
  <2>. HIDE DEF row1, row
  <2>4. /\ [D1 EXCEPT ![k] = row2] = D2
        /\ [D2 EXCEPT ![k] = row] = D
        /\ t1.DefenseVersion = D1 /\ D1[k] = row1
    BY <1>6 DEF Index, RowAt
  <2>. HIDE DEF row2, D1
  <2>5. [t1 EXCEPT !.DefenseVersion = D2] = t2 /\ t2.DefenseVersion = D2
    BY <1>6 DEF Index
  <2>6. D2[k] = row2
    BY <1>6 DEF RowAt
  <2>. HIDE DEF D2, D
  <2>7. [t2 EXCEPT !.DefenseVersion = D] = [index EXCEPT !.DefenseVersion = D]
    BY <1>6 DEF Index
  <2>. HIDE DEF t1, t2
  <2>8. [t1 EXCEPT !.DefenseVersion[k].passingAttestations = passing] =
          [t1 EXCEPT !.DefenseVersion = [D1 EXCEPT ![k] = [row1 EXCEPT !.passingAttestations = passing]]]
    BY <2>4
  <2>9. [t2 EXCEPT !.DefenseVersion[k].validationThreshold = threshold] =
          [t2 EXCEPT !.DefenseVersion = [D2 EXCEPT ![k] = [row2 EXCEPT !.validationThreshold = threshold]]]
    BY <2>5, <2>6
  <2>10. [t1 EXCEPT !.DefenseVersion[k].passingAttestations = passing] = t2
    BY <2>4, <2>5, <2>8 DEF row2
  <2>11. [t2 EXCEPT !.DefenseVersion[k].validationThreshold = threshold] = [index EXCEPT !.DefenseVersion = D]
    BY <2>3, <2>4, <2>7, <2>9
  <2>. QED
    BY <2>1, <2>2, <2>10, <2>11
<1>8. D \in [VersionKeys -> OrNone(DefenseVersionEntity)]
  BY <1>5, <1>6 DEF OrNone, RowAt
<1>. HIDE DEF row, D
<1>9. /\ index' \in Index /\ index'.thrown = index.thrown
      /\ index'.DefenseVersion = D /\ index'.metrics = index.metrics
      /\ index'.ThreatReceipt = index.ThreatReceipt /\ index'.Validator = index.Validator
      /\ index'.Attestation = index.Attestation /\ index'.UsageBatch = index.UsageBatch
  BY <1>6, <1>7, <1>8 DEF Index
<1>10. VersionsMirrored'
  <2>1. VersionsMirrored
    BY DEF IndexInv
  <2>2. index'.DefenseVersion = RowAt(index.DefenseVersion, k, row)
    BY <1>9 DEF D
  <2>3. /\ versions'[k].status # "None" /\ row.status = StatusCode[versions'[k].status]
        /\ row.replayReportHash = versions'[k].replayReportHash
        /\ row.validationFinal = isValidationFinal'[k]
        /\ row.passingAttestations = passingAttestations'[k]
    BY <1>1, <1>2, <1>3, <1>5 DEF status, passing
  <2>4. \A j \in VersionKeys : j # k =>
           /\ versions'[j] = versions[j] /\ isValidationFinal'[j] = isValidationFinal[j]
           /\ passingAttestations'[j] = passingAttestations[j]
    BY <1>1, <1>2
  <2>. QED
    BY <1>5, <1>6, <2>1, <2>2, <2>3, <2>4, VersionWritten
<1>11. index'.metrics.stableVersionCount - index.metrics.stableVersionCount =
           One(versions'[k].status = "Stable") - One(status(k) = "Stable")
  BY <1>2, <1>6, <1>9 DEF One, status, Index, ProtocolMetrics
<1>12. SameTotals(index.metrics, index'.metrics)
  BY <1>9 DEF SameTotals
<1>. QED
  BY <1>1, <1>2, <1>9, <1>10, <1>11, <1>12, VersionStepKeeps

\* Every transaction of the validation contract, with the handlers of its events.
LEMMA ValidationIndexedStep ==
  ASSUME IndexInv, ReleaseInv, ValidationIndexed, UNCHANGED <<registryVars, rewardsVars, now>>
  PROVE  IndexInv'
<1>. USE DEF Indexes
<1>1. ASSUME NEW v \in Accounts, NEW a \in Agents, bindIdentity(v, a),
             Indexes(OnValidatorIdentitySet(index, v, a, TRUE))
      PROVE  IndexInv'
  <2>1. agentIdOwners' = [agentIdOwners EXCEPT ![a] = v]
        /\ UNCHANGED <<attestations, passingAttestations, isValidationFinal>>
    BY <1>1 DEF bindIdentity
  <2>. QED
    BY <1>1, <2>1, IdentityIndexed
<1>2. ASSUME NEW v \in Accounts, NEW a \in Agents, unbindIdentity(v, a),
             Indexes(OnValidatorIdentitySet(index, v, a, FALSE))
      PROVE  IndexInv'
  <2>1. agentIdOwners' = [agentIdOwners EXCEPT ![a] = NoAccount]
        /\ UNCHANGED <<attestations, passingAttestations, isValidationFinal>>
    BY <1>2 DEF unbindIdentity
  <2>. QED
    BY <1>2, <2>1, IdentityIndexed
<1>. QED
  BY <1>1, <1>2, ThresholdIndexed, SubmissionIndexed, ChallengeIndexed, FinalizationIndexed
     DEF ValidationIndexed

(***************************************************************************)
(* The rewards contract, indexed.                                          *)
(***************************************************************************)
\* What was paid out of each epoch.
Claims == [e \in Epochs |-> Claimed(e)]

\* The counters in the form the lemmas on sums speak of.
LEMMA ClaimsSum ==
  /\ MetricsAgree <=>
       /\ index.metrics.stableVersionCount = Cardinality(StableSet)
       /\ index.metrics.rewardClaimed = SumFunctionOnSet(Claims, Epochs)
  /\ MetricsAgree' <=>
       /\ index'.metrics.stableVersionCount = Cardinality(StableSet')
       /\ index'.metrics.rewardClaimed = SumFunctionOnSet(Claims', Epochs)
<1>1. MetricsAgree <=>
       /\ index.metrics.stableVersionCount = Cardinality(StableSet)
       /\ index.metrics.rewardClaimed = SumFunctionOnSet(Claims, Epochs)
  <2>1. SumFunction([e \in Epochs |->
          SumFunctionOnSet(rewardAllocations[e], {v \in Accounts : rewardClaimed[e][v]})]) =
          SumFunctionOnSet(Claims, Epochs)
    BY DEF SumFunction, Claims, Claimed
  <2>. QED
    BY <2>1 DEF MetricsAgree, StableSet
<1>2. (MetricsAgree <=>
         /\ index.metrics.stableVersionCount = Cardinality(StableSet)
         /\ index.metrics.rewardClaimed = SumFunctionOnSet(Claims, Epochs))'
  BY <1>1, PTL
<1>. QED
  BY <1>1, <1>2

\* What was claimed of an epoch is a natural number.
LEMMA ClaimedIsNat ==
  /\ RewardsTypeOK => \A e \in Epochs : Claims[e] \in Nat
  /\ RewardsTypeOK' => \A e \in Epochs : Claims'[e] \in Nat
<1>1. ASSUME RewardsTypeOK, NEW e \in Epochs PROVE Claims[e] \in Nat
  <2>. DEFINE claimed == {v \in Accounts : rewardClaimed[e][v]}
  <2>1. IsFiniteSet(claimed)
    BY RewardsAssumption, FS_Subset
  <2>2. \A v \in claimed : rewardAllocations[e][v] \in Nat
    BY <1>1 DEF RewardsTypeOK
  <2>. HIDE DEF claimed
  <2>3. SumFunctionOnSet(rewardAllocations[e], claimed) \in Nat
    BY <2>1, <2>2, SumIsNat
  <2>. QED
    BY <2>3 DEF Claims, Claimed, claimed
<1>2. ASSUME RewardsTypeOK', NEW e \in Epochs PROVE Claims'[e] \in Nat
  <2>. DEFINE claimed == {v \in Accounts : rewardClaimed'[e][v]}
  <2>1. IsFiniteSet(claimed)
    BY RewardsAssumption, FS_Subset
  <2>2. \A v \in claimed : rewardAllocations'[e][v] \in Nat
    BY <1>2 DEF RewardsTypeOK
  <2>. HIDE DEF claimed
  <2>3. SumFunctionOnSet(rewardAllocations'[e], claimed) \in Nat
    BY <2>1, <2>2, SumIsNat
  <2>. QED
    BY <2>3 DEF Claims, Claimed, claimed
<1>. QED
  BY <1>1, <1>2

\* The frame of the rewards contract's transactions.
LEMMA RewardsKeeps ==
  ASSUME IndexInv, index' \in Index, index'.thrown = index.thrown,
         index'.DefenseVersion = index.DefenseVersion, index'.ThreatReceipt = index.ThreatReceipt,
         index'.Validator = index.Validator, index'.Attestation = index.Attestation,
         SameTotals(index.metrics, index'.metrics),
         index'.metrics.stableVersionCount = index.metrics.stableVersionCount,
         index'.metrics.rewardClaimed = SumFunctionOnSet(Claims', Epochs),
         UNCHANGED <<registryVars, validationVars>>, BatchesMirrored'
  PROVE  IndexInv'
<1>1. UNCHANGED <<versions, receipts, isValidationFinal, passingAttestations, attestations, agentIdOwners>>
  BY DEF registryVars, validationVars, identityVars
<1>2. StableSet' = StableSet
  BY <1>1 DEF StableSet, status
<1>3. MetricsAgree'
  BY <1>2, ClaimsSum DEF IndexInv
<1>. QED
  BY <1>1, <1>3, Frames DEF IndexInv

ShowsBatch(row, held, allocated) ==
  /\ row.challenged = held.challenged
  /\ row.finalized = held.finalized
  /\ row.rewardAllocated # 0 <=> allocated

\* The row of a committed batch is written, as the storage now has it.
LEMMA BatchIndexed ==
  ASSUME IndexInv, RewardsInv, NEW id \in BatchIds, NEW row \in UsageBatchEntity,
         NEW M \in ProtocolMetrics, SameCounts(index.metrics, M),
         index' = [index EXCEPT !.UsageBatch = RowAt(index.UsageBatch, id, row), !.metrics = M],
         batches' \in [BatchIds -> UsageBatch], batches'[id].committed,
         ShowsBatch(row, batches'[id], batchRewardsAllocated'[id]),
         \A j \in BatchIds : j # id =>
           batches'[j] = batches[j] /\ batchRewardsAllocated'[j] = batchRewardsAllocated[j],
         \A e \in Epochs : Claimed(e)' = Claimed(e),
         UNCHANGED <<registryVars, validationVars>>
  PROVE  IndexInv'
<1>1. index.UsageBatch \in [BatchIds -> OrNone(UsageBatchEntity)] /\ index \in Index
  BY DEF IndexInv, Index
<1>2. RowAt(index.UsageBatch, id, row) \in [BatchIds -> OrNone(UsageBatchEntity)]
  BY <1>1 DEF OrNone, RowAt
<1>3. /\ index' \in Index /\ index'.thrown = index.thrown
      /\ index'.DefenseVersion = index.DefenseVersion /\ index'.metrics = M
      /\ index'.ThreatReceipt = index.ThreatReceipt /\ index'.Validator = index.Validator
      /\ index'.Attestation = index.Attestation
      /\ index'.UsageBatch = RowAt(index.UsageBatch, id, row)
  BY <1>1, <1>2 DEF Index
<1>4. row # NoEntity
  BY IndexerAssumption
<1>5. BatchesMirrored'
  <2>1. \A j \in BatchIds \ {id} : index'.UsageBatch[j] = index.UsageBatch[j]
    BY <1>1, <1>3 DEF RowAt
  <2>2. index'.UsageBatch[id] = row
    BY <1>1, <1>3 DEF RowAt
  <2>. QED
    BY <1>4, <2>1, <2>2 DEF IndexInv, BatchesMirrored, ShowsBatch
<1>6. Claims' = Claims
  BY DEF Claims
<1>7. index'.metrics.rewardClaimed = SumFunctionOnSet(Claims', Epochs)
  BY <1>3, <1>6, ClaimsSum DEF IndexInv, SameCounts
<1>. QED
  BY <1>3, <1>5, <1>7, RewardsKeeps DEF SameCounts

\* commitUsageBatch: the first row of a batch.
LEMMA CommitmentIndexed ==
  ASSUME IndexInv, RewardsInv, RewardsInv', NEW e \in Epochs, NEW u \in Usages, NEW k \in VersionKeys,
         commitUsageBatch(e, u, k), index' = OnUsageBatchRecorded(index, batchId(e, u, k)),
         UNCHANGED <<registryVars, validationVars>>
  PROVE  IndexInv'
<1>. DEFINE id == batchId(e, u, k)
            row == [challenged |-> FALSE, finalized |-> FALSE, rewardAllocated |-> 0]
            M == [index.metrics EXCEPT !.protectedEventCount = @ + 1]
<1>1. id \in BatchIds
  BY DEF batchId, BatchIds
<1>2. row \in UsageBatchEntity
  BY DEF UsageBatchEntity
<1>3. M \in ProtocolMetrics /\ SameCounts(index.metrics, M)
  BY DEF IndexInv, Index, ProtocolMetrics, SameCounts, SameTotals
<1>4. index' = [index EXCEPT !.UsageBatch = RowAt(index.UsageBatch, id, row), !.metrics = M]
  BY DEF OnUsageBatchRecorded, RowAt
<1>5. /\ batches' \in [BatchIds -> UsageBatch]
      /\ ~ batches[id].committed /\ batches' = [batches EXCEPT ![id].committed = TRUE]
      /\ \A j \in BatchIds : j # id => batches'[j] = batches[j]
      /\ UNCHANGED <<batchRewardsAllocated, rewardAllocations, rewardClaimed>>
  BY <1>1 DEF commitUsageBatch, RewardsInv, RewardsTypeOK, UsageBatch
<1>7. batches'[id].committed /\ ShowsBatch(row, batches'[id], batchRewardsAllocated'[id])
  <2>1. batches[id] = NoBatch /\ ~ batchRewardsAllocated[id]
    BY <1>1, <1>5 DEF IndexInv, BatchesMirrored
  <2>2. batches'[id] = [NoBatch EXCEPT !.committed = TRUE]
    BY <1>1, <1>5, <2>1 DEF RewardsInv, RewardsTypeOK
  <2>. QED
    BY <1>5, <2>1, <2>2 DEF ShowsBatch, NoBatch
<1>6. \A f \in Epochs : Claimed(f)' = Claimed(f)
  BY <1>5 DEF Claimed
<1>. HIDE DEF id, row, M
<1>. QED
  BY <1>1, <1>2, <1>3, <1>4, <1>5, <1>6, <1>7, BatchIndexed

\* A handler that updates the row of a committed batch.
LEMMA BatchUpdated ==
  ASSUME IndexInv, RewardsInv, RewardsInv', NEW id \in BatchIds, batches'[id].committed,
         NEW row \in UsageBatchEntity,
         index' = [index EXCEPT !.UsageBatch = [index.UsageBatch EXCEPT ![id] = row]],
         ShowsBatch(row, batches'[id], batchRewardsAllocated'[id]),
         \A j \in BatchIds : j # id =>
           batches'[j] = batches[j] /\ batchRewardsAllocated'[j] = batchRewardsAllocated[j],
         \A e \in Epochs : Claimed(e)' = Claimed(e),
         UNCHANGED <<registryVars, validationVars>>
  PROVE  IndexInv'
<1>. DEFINE M == index.metrics
<1>1. M \in ProtocolMetrics /\ SameCounts(index.metrics, M)
  BY DEF IndexInv, Index, SameCounts, SameTotals
<1>2. index' = [index EXCEPT !.UsageBatch = RowAt(index.UsageBatch, id, row), !.metrics = M]
  BY DEF IndexInv, Index, RowAt
<1>3. batches' \in [BatchIds -> UsageBatch]
  BY DEF RewardsInv, RewardsTypeOK
<1>. HIDE DEF M
<1>. QED
  BY <1>1, <1>2, <1>3, BatchIndexed

\* challengeBatch: the row of the batch.
LEMMA ChallengeOfBatchIndexed ==
  ASSUME IndexInv, RewardsInv, RewardsInv', NEW id \in BatchIds, challengeBatch(id),
         index' = OnUsageBatchChallenged(index, id), UNCHANGED <<registryVars, validationVars>>
  PROVE  IndexInv'
<1>. DEFINE row == [index.UsageBatch[id] EXCEPT !.challenged = TRUE]
<1>1. /\ batches[id].committed /\ batches'[id] = [batches[id] EXCEPT !.challenged = TRUE]
      /\ \A j \in BatchIds : j # id => batches'[j] = batches[j]
      /\ UNCHANGED <<batchRewardsAllocated, rewardAllocations, rewardClaimed>>
  BY DEF challengeBatch, batchOpen, RewardsInv, RewardsTypeOK, UsageBatch
<1>2. index.UsageBatch[id] # NoEntity /\ index.UsageBatch[id] \in UsageBatchEntity
  BY <1>1 DEF IndexInv, BatchesMirrored, Index, OrNone
<1>3. row \in UsageBatchEntity
  BY <1>2 DEF UsageBatchEntity
<1>4. index' = [index EXCEPT !.UsageBatch = [index.UsageBatch EXCEPT ![id] = row]]
  BY <1>2 DEF OnUsageBatchChallenged, WithRow
<1>5. \A f \in Epochs : Claimed(f)' = Claimed(f)
  BY <1>1 DEF Claimed
<1>6. batches'[id].committed /\ ShowsBatch(row, batches'[id], batchRewardsAllocated'[id])
  <2>1. ShowsBatch(index.UsageBatch[id], batches[id], batchRewardsAllocated[id])
    BY <1>2 DEF IndexInv, BatchesMirrored, ShowsBatch
  <2>2. batches[id] \in UsageBatch
    BY DEF RewardsInv, RewardsTypeOK
  <2>. QED
    BY <1>1, <1>2, <2>1, <2>2 DEF ShowsBatch, UsageBatchEntity, UsageBatch
<1>. HIDE DEF row
<1>. QED
  BY <1>1, <1>3, <1>4, <1>5, <1>6, BatchUpdated

\* finalizeBatch: the row of the batch.
LEMMA FinalizationOfBatchIndexed ==
  ASSUME IndexInv, RewardsInv, RewardsInv', NEW id \in BatchIds, finalizeBatch(id),
         index' = OnUsageBatchFinalized(index, id), UNCHANGED <<registryVars, validationVars>>
  PROVE  IndexInv'
<1>. DEFINE row == [index.UsageBatch[id] EXCEPT !.finalized = TRUE]
<1>1. /\ batches[id].committed /\ batches'[id] = [batches[id] EXCEPT !.finalized = TRUE]
      /\ \A j \in BatchIds : j # id => batches'[j] = batches[j]
      /\ UNCHANGED <<batchRewardsAllocated, rewardAllocations, rewardClaimed>>
  BY DEF finalizeBatch, batchOpen, RewardsInv, RewardsTypeOK, UsageBatch
<1>2. index.UsageBatch[id] # NoEntity /\ index.UsageBatch[id] \in UsageBatchEntity
  BY <1>1 DEF IndexInv, BatchesMirrored, Index, OrNone
<1>3. row \in UsageBatchEntity
  BY <1>2 DEF UsageBatchEntity
<1>4. index' = [index EXCEPT !.UsageBatch = [index.UsageBatch EXCEPT ![id] = row]]
  BY <1>2 DEF OnUsageBatchFinalized, WithRow
<1>5. \A f \in Epochs : Claimed(f)' = Claimed(f)
  BY <1>1 DEF Claimed
<1>6. batches'[id].committed /\ ShowsBatch(row, batches'[id], batchRewardsAllocated'[id])
  <2>1. ShowsBatch(index.UsageBatch[id], batches[id], batchRewardsAllocated[id])
    BY <1>2 DEF IndexInv, BatchesMirrored, ShowsBatch
  <2>2. batches[id] \in UsageBatch
    BY DEF RewardsInv, RewardsTypeOK
  <2>. QED
    BY <1>1, <1>2, <2>1, <2>2 DEF ShowsBatch, UsageBatchEntity, UsageBatch
<1>. HIDE DEF row
<1>. QED
  BY <1>1, <1>3, <1>4, <1>5, <1>6, BatchUpdated

\* An allocation goes to accounts that have not claimed: what was paid stays.
LEMMA AllocationLeavesClaims ==
  ASSUME RewardsInv, NEW id \in BatchIds, NEW payouts \in PayoutLists, allocateRewards(id, payouts),
         NEW f \in Epochs
  PROVE  Claimed(f)' = Claimed(f)
<1>. DEFINE claimed == {v \in Accounts : rewardClaimed[f][v]}
            old == rewardAllocations[f]
            new == rewardAllocations'[f]
<1>1. rewardClaimed' = rewardClaimed
  BY DEF allocateRewards
<1>2. CASE f # epochOf(id)
  BY <1>1, <1>2 DEF allocateRewards, Claimed, RewardsInv, RewardsTypeOK
<1>3. CASE f = epochOf(id)
  <2>1. new = [v \in Accounts |-> old[v] + paidTo(payouts, v)]
    BY <1>3 DEF allocateRewards, RewardsInv, RewardsTypeOK
  <2>2. ASSUME NEW v \in claimed PROVE new[v] = old[v]
    <3>1. {i \in DOMAIN payouts : payouts[i].to = v} = {}
      BY <1>3, <2>2 DEF allocateRewards, allUnclaimed
    <3>2. paidTo(payouts, v) = 0
      BY <3>1, SumOfNone DEF paidTo
    <3>3. old[v] \in Nat
      BY <2>2 DEF RewardsInv, RewardsTypeOK
    <3>. QED
      BY <2>1, <3>2, <3>3
  <2>3. IsFiniteSet(claimed)
    BY RewardsAssumption, FS_Subset
  <2>. HIDE DEF claimed, old, new
  <2>4. SumFunctionOnSet(new, claimed) = SumFunctionOnSet(old, claimed)
    BY <2>2, <2>3, SumAgrees
  <2>. QED
    BY <1>1, <2>4 DEF Claimed, claimed, old, new
<1>. QED
  BY <1>2, <1>3

\* No list of recipients is empty and no amount is 0: an allocation has a total.
LEMMA TotalIsPositive ==
  ASSUME NEW payouts \in PayoutLists
  PROVE  totalOf(payouts) # 0
<1>. DEFINE amount == amounts(payouts)
            D == DOMAIN payouts
<1>1. PICK n \in 1 .. MaxPayouts : payouts \in [1 .. n -> Payout]
  BY DEF PayoutLists
<1>2. n \in Nat /\ D = 1 .. n /\ 1 \in D
  BY <1>1, RewardsAssumption
<1>3. IsFiniteSet(D)
  BY <1>2, FS_Interval
<1>4. DOMAIN amount = D /\ \A i \in D : amount[i] \in Nat \ {0}
  BY <1>1, RewardsAssumption DEF Payout, amounts
<1>5. totalOf(payouts) = SumFunctionOnSet(amount, D)
  BY <1>4 DEF totalOf, SumFunction
<1>6. SumFunctionOnSet(amount, D) \in Nat /\ amount[1] <= SumFunctionOnSet(amount, D)
  <2>. HIDE DEF amount, D
  <2>. QED
    BY <1>2, <1>3, <1>4, SumIsNat, SumCovers
<1>. HIDE DEF amount, D
<1>. QED
  BY <1>2, <1>4, <1>5, <1>6

\* allocateRewards: the row of the batch gets the total; nothing is claimed yet.
LEMMA AllocationIndexed ==
  ASSUME IndexInv, RewardsInv, RewardsInv', NEW id \in BatchIds, NEW payouts \in PayoutLists,
         allocateRewards(id, payouts), index' = OnRewardsAllocated(index, id, totalOf(payouts)),
         UNCHANGED <<registryVars, validationVars>>
  PROVE  IndexInv'
<1>. DEFINE total == totalOf(payouts)
            row == [index.UsageBatch[id] EXCEPT !.rewardAllocated = total]
            unclaimed == {v \in Accounts : ~ rewardClaimed[epochOf(id)][v]}
<1>1. /\ batches[id].committed /\ batches' = batches
      /\ batchRewardsAllocated' = [batchRewardsAllocated EXCEPT ![id] = TRUE]
  BY DEF allocateRewards, IndexInv, BatchesMirrored, NoBatch
<1>2. index.UsageBatch[id] # NoEntity /\ index.UsageBatch[id] \in UsageBatchEntity
  BY <1>1 DEF IndexInv, BatchesMirrored, Index, OrNone
<1>3. total \in Nat /\ total # 0
  <2>1. \A i \in DOMAIN payouts : payouts[i].to \in unclaimed
    BY DEF allocateRewards, allUnclaimed, PayoutLists, Payout
  <2>2. unclaimed \in SUBSET Accounts
    OBVIOUS
  <2>. HIDE DEF unclaimed
  <2>. QED
    BY <2>1, <2>2, PayoutsAddUp, TotalIsPositive
<1>4. index' = [index EXCEPT !.UsageBatch = [index.UsageBatch EXCEPT ![id] = row]]
  BY <1>2 DEF OnRewardsAllocated, WithRow
<1>. HIDE DEF total
<1>5. row \in UsageBatchEntity
  BY <1>2, <1>3 DEF UsageBatchEntity
<1>6. ShowsBatch(row, batches'[id], batchRewardsAllocated'[id])
  <2>1. ShowsBatch(index.UsageBatch[id], batches[id], batchRewardsAllocated[id])
    BY <1>2 DEF IndexInv, BatchesMirrored, ShowsBatch
  <2>2. batchRewardsAllocated'[id] = TRUE
    BY <1>1 DEF RewardsInv, RewardsTypeOK
  <2>. QED
    BY <1>1, <1>2, <1>3, <2>1, <2>2 DEF ShowsBatch, UsageBatchEntity
<1>7. \A j \in BatchIds : j # id => batchRewardsAllocated'[j] = batchRewardsAllocated[j]
  BY <1>1 DEF RewardsInv, RewardsTypeOK
<1>. HIDE DEF row
<1>. QED
  BY <1>1, <1>4, <1>5, <1>6, <1>7, AllocationLeavesClaims, BatchUpdated

\* A claim is paid once, and added once.
LEMMA ClaimIndexed ==
  ASSUME IndexInv, RewardsInv, RewardsInv', NEW v \in Accounts, NEW e \in Epochs, claimReward(v, e),
         index' = OnRewardClaimed(index, rewardAllocations[e][v]),
         UNCHANGED <<registryVars, validationVars>>
  PROVE  IndexInv'
<1>. DEFINE claimed == {w \in Accounts : rewardClaimed[e][w]}
            amount == rewardAllocations[e][v]
            total == index.metrics.rewardClaimed + amount
            M == [index.metrics EXCEPT !.rewardClaimed = total]
<1>1. /\ amount \in Nat /\ v \notin claimed
      /\ rewardClaimed' = [rewardClaimed EXCEPT ![e][v] = TRUE]
      /\ UNCHANGED <<batches, batchRewardsAllocated, rewardAllocations>>
  BY DEF claimReward, claimable, RewardsInv, RewardsTypeOK
<1>2. {w \in Accounts : rewardClaimed'[e][w]} = claimed \cup {v}
  BY <1>1 DEF RewardsInv, RewardsTypeOK
<1>3. IsFiniteSet(claimed) /\ \A w \in claimed \cup {v} : rewardAllocations[e][w] \in Nat
  BY RewardsAssumption, FS_Subset DEF RewardsInv, RewardsTypeOK
<1>4. Claims'[e] = Claims[e] + amount
  <2>1. SumFunctionOnSet(rewardAllocations[e], claimed) \in Nat
    <3>. HIDE DEF claimed
    <3>. QED
      BY <1>3, SumIsNat
  <2>2. SumFunctionOnSet(rewardAllocations[e], claimed \cup {v}) =
          amount + SumFunctionOnSet(rewardAllocations[e], claimed)
    <3>. HIDE DEF claimed
    <3>. QED
      BY <1>1, <1>3, SumAdds
  <2>. QED
    <3>1. Claims[e] = SumFunctionOnSet(rewardAllocations[e], claimed)
      BY DEF Claims, Claimed
    <3>2. Claims'[e] = SumFunctionOnSet(rewardAllocations[e], claimed \cup {v})
      BY <1>1, <1>2 DEF Claims, Claimed
    <3>. HIDE DEF claimed, amount
    <3>. QED
      BY <1>1, <2>1, <2>2, <3>1, <3>2
<1>5. \A f \in Epochs \ {e} : Claims'[f] = Claims[f]
  BY <1>1 DEF Claims, Claimed, RewardsInv, RewardsTypeOK
<1>6. \A f \in Epochs : Claims[f] \in Nat /\ Claims'[f] \in Nat
  BY ClaimedIsNat DEF RewardsInv
<1>7. SumFunctionOnSet(Claims', Epochs) + Claims[e] = SumFunctionOnSet(Claims, Epochs) + Claims'[e]
  BY <1>5, <1>6, RewardsAssumption, SumChanges
<1>8. SumFunctionOnSet(Claims', Epochs) \in Nat /\ SumFunctionOnSet(Claims, Epochs) \in Nat
  BY <1>6, RewardsAssumption, SumIsNat
<1>9. total = SumFunctionOnSet(Claims', Epochs)
  BY <1>1, <1>4, <1>6, <1>7, <1>8, ClaimsSum DEF IndexInv
<1>10. total \in Int
  BY <1>8, <1>9
<1>11. index' = [index EXCEPT !.metrics = M]
  BY DEF OnRewardClaimed
<1>. HIDE DEF total
<1>12. /\ M \in ProtocolMetrics /\ SameTotals(index.metrics, M)
       /\ M.stableVersionCount = index.metrics.stableVersionCount /\ M.rewardClaimed = total
  BY <1>10 DEF IndexInv, Index, ProtocolMetrics, SameTotals
<1>. HIDE DEF M
<1>13. /\ index' \in Index /\ index'.thrown = index.thrown
       /\ index'.DefenseVersion = index.DefenseVersion /\ index'.metrics = M
       /\ index'.ThreatReceipt = index.ThreatReceipt /\ index'.Validator = index.Validator
       /\ index'.Attestation = index.Attestation /\ index'.UsageBatch = index.UsageBatch
  BY <1>11, <1>12 DEF IndexInv, Index
<1>14. BatchesMirrored'
  BY <1>1, <1>13, Frames DEF IndexInv
<1>. QED
  BY <1>9, <1>12, <1>13, <1>14, RewardsKeeps

\* Every transaction of the rewards contract, with the handlers of its events.
LEMMA RewardsIndexedStep ==
  ASSUME IndexInv, now \in Nat, RewardsInv, RewardsInv', RewardsIndexed,
         UNCHANGED <<registryVars, validationVars, now>>
  PROVE  IndexInv'
<1>. USE DEF Indexes
<1>0. UNCHANGED <<versions, receipts, isValidationFinal, passingAttestations, attestations,
                  agentIdOwners>>
  BY DEF registryVars, validationVars, identityVars
<1>1. ASSUME NEW e \in Epochs, NEW value \in 1 .. MaxFunding, fundEpoch(e, value), index' = index
      PROVE  IndexInv'
  <2>1. index' \in Index /\ SameCounts(index.metrics, index'.metrics)
    BY <1>1 DEF IndexInv, SameCounts, SameTotals
  <2>2. UNCHANGED <<batches, batchRewardsAllocated, rewardAllocations, rewardClaimed>>
    BY <1>1 DEF fundEpoch
  <2>. QED
    BY <1>0, <1>1, <2>1, <2>2, IndexKept
<1>2. ASSUME NEW s \in RewardScopes \cap PausableScopes, NEW p \in PauseInput, setRewardPause(s, p),
             Indexes(OnProtocolPaused(index, s, p))
      PROVE  IndexInv'
  <2>1. p \in PauseState
    BY PauseInputs
  <2>2. UNCHANGED <<batches, batchRewardsAllocated, rewardAllocations, rewardClaimed>>
    BY <1>2 DEF setRewardPause
  <2>. QED
    BY <1>0, <1>2, <2>1, <2>2, PauseIndexed
<1>. QED
  BY <1>1, <1>2, CommitmentIndexed, ChallengeOfBatchIndexed, FinalizationOfBatchIndexed,
     AllocationIndexed, ClaimIndexed DEF RewardsIndexed

(***************************************************************************)
(* The index follows the contracts.                                        *)
(***************************************************************************)
\* The parts of the invariant, from the storage of the contracts at deployment.
LEMMA IndexStart == IndexedInit => IndexInv
<1>. SUFFICES ASSUME IndexedInit PROVE IndexInv
  OBVIOUS
<1>. USE DEF IndexedInit
<1>0. RewardsTypeOK
  BY RewardsStart DEF RewardsInv
<1>1. metricsDefaults \in ProtocolMetrics
  BY DEF metricsDefaults, ProtocolMetrics
<1>2. index \in Index /\ ~ index.thrown /\ index.metrics = metricsDefaults
  BY <1>1 DEF EmptyIndex, Index, OrNone
<1>3. VersionsMirrored
  BY DEF VersionsMirrored, EmptyIndex, Init, RegistryInit, status, ZeroVersion
<1>4. AttestationsMirrored
  BY DEF AttestationsMirrored, EmptyIndex, Init, ValidationInit, NoAttestation
<1>5. ValidatorsMirrored
  BY DEF ValidatorsMirrored, EmptyIndex, Init, ValidationInit, NoAttestation
<1>6. ReceiptsMirrored
  BY DEF ReceiptsMirrored, EmptyIndex, Init, RegistryInit, ZeroReceipt
<1>7. BatchesMirrored
  BY DEF BatchesMirrored, EmptyIndex, Init, RewardsInit, NoBatch
<1>8. TrackRecordsKept
  <2>1. Rows = {}
    BY DEF Rows, EmptyIndex
  <2>2. SumFunctionOnSet(SubmittedCounts, {}) = 0 /\ SumFunctionOnSet(PassingCounts, {}) = 0
    BY SumOfNone
  <2>3. TotalsKept
    BY <1>2, <2>1, <2>2 DEF TotalsKept, metricsDefaults
  <2>. QED
    BY <2>1, <2>3, TrackRecordsSplit
<1>9. MetricsAgree
  <2>1. StableSet = {}
    BY DEF StableSet, status, Init, RegistryInit, ZeroVersion
  <2>2. ASSUME NEW e \in Epochs PROVE Claims[e] = 0
    <3>1. {v \in Accounts : rewardClaimed[e][v]} = {}
      BY DEF Init, RewardsInit
    <3>. QED
      BY <3>1, SumOfNone DEF Claims, Claimed
  <2>3. SumFunctionOnSet(Claims, Epochs) = 0
    BY <2>2, RewardsAssumption, SumOfZeros
  <2>. QED
    BY <1>2, <2>1, <2>3, ClaimsSum, FS_EmptySet DEF metricsDefaults
<1>. QED
  BY <1>2, <1>3, <1>4, <1>5, <1>6, <1>7, <1>8, <1>9 DEF IndexInv

\* Every transaction, of any of the three contracts, keeps the invariant.
LEMMA IndexStep ==
  IndexInv /\ ReleaseInv /\ RewardsInv /\ RewardsInv' /\ [IndexedNext]_indexedVars => IndexInv'
<1>. SUFFICES ASSUME IndexInv, ReleaseInv, RewardsInv, RewardsInv', [IndexedNext]_indexedVars
              PROVE  IndexInv'
  OBVIOUS
<1>1. now \in Nat
  BY DEF ReleaseInv, Types, RegistryTypeOK
<1>2. ASSUME UNCHANGED <<registryVars, validationVars, rewardsVars, index>> PROVE IndexInv'
  <2>1. UNCHANGED <<versions, receipts, isValidationFinal, passingAttestations, attestations,
                    agentIdOwners, batches, batchRewardsAllocated, rewardAllocations, rewardClaimed>>
    BY <1>2 DEF registryVars, validationVars, identityVars, rewardsVars
  <2>2. index' \in Index /\ SameCounts(index.metrics, index'.metrics)
    BY <1>2 DEF IndexInv, SameCounts, SameTotals
  <2>. QED
    BY <1>2, <2>1, <2>2, IndexKept
<1>3. CASE RegistryIndexed /\ UNCHANGED <<validationVars, rewardsVars, now>>
  BY <1>3, RegistryIndexedStep
<1>4. CASE ValidationIndexed /\ UNCHANGED <<registryVars, rewardsVars, now>>
  BY <1>4, ValidationIndexedStep
<1>5. CASE RewardsIndexed /\ UNCHANGED <<registryVars, validationVars, now>>
  BY <1>1, <1>5, RewardsIndexedStep
<1>6. CASE Tick /\ UNCHANGED <<validationVars, rewardsVars, index>>
  BY <1>2, <1>6 DEF Tick
<1>7. CASE UNCHANGED indexedVars
  BY <1>2, <1>7 DEF indexedVars, contractVars
<1>. QED
  BY <1>3, <1>4, <1>5, <1>6, <1>7 DEF IndexedNext

\* The invariant, at every block the index has reached.
LEMMA IndexHolds == IndexedSpec => []IndexInv
<1>1. IndexedInit => IndexInv /\ ReleaseInv /\ RewardsInv
  BY IndexStart, RewardsStart, ReleaseInitInv DEF IndexedInit, Init, ReleaseInit
<1>2. ReleaseInv /\ [IndexedNext]_indexedVars => ReleaseInv'
  BY IndexedStepIsStep, TrustStepIsReleaseStep, ReleaseStep
<1>3. ReleaseInv /\ RewardsInv /\ [IndexedNext]_indexedVars => RewardsInv'
  BY IndexedStepIsStep, RewardsStep DEF ReleaseInv, Types, RegistryTypeOK
<1>. QED
  BY <1>1, <1>2, <1>3, IndexStep, PTL DEF IndexedSpec

\* No handler ever misses its row, and the public rows of versions, attestations,
\* validators, receipts (their resolution by its code) and usage batches show,
\* from the first event on, what the contracts hold.
THEOREM IndexIsFaithful == IndexedSpec => []IndexMirrorsContracts
<1>1. IndexInv => IndexMirrorsContracts
  <2>. SUFFICES ASSUME IndexInv PROVE IndexMirrorsContracts
    OBVIOUS
  <2>1. \A k \in VersionKeys :
          LET row == index.DefenseVersion[k] IN
          IF row = NoEntity THEN status(k) = "None"
          ELSE /\ row.status = StatusCode[status(k)]
               /\ row.replayReportHash = versions[k].replayReportHash
               /\ row.validationFinal = isValidationFinal[k]
               /\ row.validationFinal => row.passingAttestations = passingAttestations[k]
    BY DEF IndexInv, VersionsMirrored
  <2>2. \A k \in VersionKeys, a \in Agents :
          LET row == index.Attestation[k][a]  held == attestations[k][a] IN
          IF row = NoEntity THEN ~ held.submitted
          ELSE row = [passed |-> held.passed, challenged |-> held.challenged]
    <3>1. AttestationsMirrored
      BY DEF IndexInv
    <3>. QED
      BY <3>1 DEF AttestationsMirrored
  <2>3. \A a \in Agents : index.Validator[a] # NoEntity =>
          (index.Validator[a].active <=> index.Validator[a].wallet = agentIdOwners[a])
    BY DEF IndexInv, ValidatorsMirrored
  <2>4. \A r \in Receipts :
          LET row == index.ThreatReceipt[r]  held == receipts[r] IN
          IF row = NoEntity THEN held.resolution = "None"
          ELSE /\ held.resolution # "None"
               /\ row.resolution = ResolutionCode[held.resolution]
               /\ row.linkedVersionKey = held.linkedVersionKey
    <3>1. ReceiptsMirrored
      BY DEF IndexInv
    <3>. QED
      BY <3>1 DEF ReceiptsMirrored
  <2>6. \A id \in BatchIds :
          LET row == index.UsageBatch[id]  held == batches[id] IN
          IF row = NoEntity THEN ~ held.committed
          ELSE /\ held.committed
               /\ row.challenged = held.challenged
               /\ row.finalized = held.finalized
               /\ row.rewardAllocated # 0 <=> batchRewardsAllocated[id]
    <3>1. BatchesMirrored
      BY DEF IndexInv
    <3>. QED
      BY <3>1 DEF BatchesMirrored
  <2>5. ~ index.thrown
    BY DEF IndexInv
  <2>. QED
    BY <2>1, <2>2, <2>3, <2>4, <2>5, <2>6 DEF IndexMirrorsContracts
<1>. QED
  BY <1>1, IndexHolds, PTL

\* Binding and unbinding identities never costs a validator its record, nor the
\* protocol a count: each attestation and each challenge is counted once.
THEOREM RecordsAreKept == IndexedSpec => []TrackRecordsKept
BY IndexHolds, PTL DEF IndexInv

\* The counters, moved event by event, agree with the contracts: of stable
\* versions through every change of status, and of the rewards paid.
THEOREM CountersAgree == IndexedSpec => []MetricsAgree
BY IndexHolds, PTL DEF IndexInv
================================================================================
