---------------------------- MODULE DadiengRegistry ----------------------------
(***************************************************************************)
(* The contract DadiengRegistry: the lifecycle of defense versions, the    *)
(* public receipts of threats and the scoped emergency pauses.             *)
(*                                                                         *)
(* A transaction is one atomic step; a transaction that reverts is no      *)
(* step at all, so every revert condition is a conjunct of the guard.      *)
(* Calls with malformed arguments (a zero hash, an empty URI, totals out   *)
(* of order) revert and are not enumerated.  A role whose holder the state *)
(* does not record (release manager, guardian, reporter, administrator)    *)
(* appears as "someone calls"; AUTHOR_ROLE is the constant set Authors,    *)
(* because the author's address matters later.                             *)
(*                                                                         *)
(* isValidationFinal belongs to the contract DadiengValidation, which this *)
(* one only reads (the interface IDadiengValidation).                      *)
(***************************************************************************)
EXTENDS Naturals, FiniteSets

CONSTANTS
  Defenses,     \* defense identifiers
  Numbers,      \* version numbers (major, minor, patch)
  Accounts,     \* addresses
  Authors,      \* the accounts holding AUTHOR_ROLE
  Agents,       \* ERC-8004 agent identifiers
  Hashes,       \* content commitments
  Receipts,     \* threat receipt identifiers
  NoDefense, NoKey, NoAccount, NoAgent, NoHash,   \* the zero values of storage
  PausableScopes,  \* the scopes the guardian ever pauses (bounds the model)
  MaxTime       \* bound of block.timestamp

ASSUME RegistryAssumption ==
  /\ Authors \subseteq Accounts
  /\ IsFiniteSet(Agents)
  /\ NoDefense \notin Defenses
  /\ NoKey \notin Defenses \X Numbers
  /\ NoAccount \notin Accounts
  /\ NoAgent \notin Agents
  /\ NoHash \notin Hashes
  /\ MaxTime \in Nat

VARIABLES
  defenses,                       \* defenses[d]: who registered d
  versions,                       \* _versions[k]
  receipts,                       \* _receipts[r]
  pauseStates,                    \* pauseStates[scope]
  validationRegistryConfigured,   \* setValidationRegistry has been called
  isValidationFinal,              \* read through IDadiengValidation
  now                             \* block.timestamp

registryVars == <<defenses, versions, receipts, pauseStates, validationRegistryConfigured>>

\* The key of a version is a hash of the defense and the number: injective.
versionKey(d, n) == <<d, n>>

VersionKeys == Defenses \X Numbers

DefenseStatus == {"None", "Draft", "Candidate", "Stable", "Rejected", "Quarantined", "Revoked"}

ReceiptResolution == {"None", "Open", "Linked", "Resolved", "Rejected"}

RegistryScopes == {"PUBLICATION", "PROMOTION", "RECEIPT"}

Defense == [author : Accounts \cup {NoAccount}, authorAgentId : Agents \cup {NoAgent}]

DefenseVersion ==
  [defenseId : Defenses \cup {NoDefense}, manifestHash : Hashes \cup {NoHash},
   authorAgentId : Agents \cup {NoAgent}, status : DefenseStatus,
   supersedes : VersionKeys \cup {NoKey}, replayReportHash : Hashes \cup {NoHash}]

ThreatReceipt == [resolution : ReceiptResolution, linkedVersionKey : VersionKeys \cup {NoKey}]

\* A lifted pause carries no expiry.
PauseState == {s \in [paused : BOOLEAN, expiresAt : Nat] : ~ s.paused => s.expiresAt = 0}

ZeroDefense == [author |-> NoAccount, authorAgentId |-> NoAgent]

ZeroVersion ==
  [defenseId |-> NoDefense, manifestHash |-> NoHash, authorAgentId |-> NoAgent,
   status |-> "None", supersedes |-> NoKey, replayReportHash |-> NoHash]

ZeroReceipt == [resolution |-> "None", linkedVersionKey |-> NoKey]

NotPaused == [paused |-> FALSE, expiresAt |-> 0]

\* Mutant: a pause without an expiry counts as one that has expired.
PauseHoldsUntil(state) == state.paused /\ now < state.expiresAt

\* A pause holds until the guardian lifts it or, when it carries one, its expiry.
PauseHolds(state) == state.paused /\ (state.expiresAt = 0 \/ now < state.expiresAt)

isPaused(scope) == PauseHolds(pauseStates[scope])

\* What the guardian may store for a scope: a future expiry, none (0), or no pause.
PauseInput == {NotPaused} \cup
  {[paused |-> TRUE, expiresAt |-> t] : t \in {0} \cup ((now + 1) .. (MaxTime + 1))}

status(k) == versions[k].status

RegistryInit ==
  /\ defenses = [d \in Defenses |-> ZeroDefense]
  /\ versions = [k \in VersionKeys |-> ZeroVersion]
  /\ receipts = [r \in Receipts |-> ZeroReceipt]
  /\ pauseStates = [s \in RegistryScopes |-> NotPaused]
  /\ validationRegistryConfigured = FALSE
  /\ now = 1

(***************************************************************************)
(* The transactions.                                                       *)
(***************************************************************************)
setValidationRegistry ==
  /\ ~ validationRegistryConfigured
  /\ validationRegistryConfigured' = TRUE
  /\ UNCHANGED <<defenses, versions, receipts, pauseStates>>

registerDefense(caller, d, agent) ==
  /\ caller \in Authors
  /\ ~ isPaused("PUBLICATION")
  /\ defenses[d] = ZeroDefense
  /\ defenses' = [defenses EXCEPT ![d] = [author |-> caller, authorAgentId |-> agent]]
  /\ UNCHANGED <<versions, receipts, pauseStates, validationRegistryConfigured>>

\* Mutant: the key's defense is compared, whether or not it was published.
supersedableByKey(d, supersedes) == supersedes # NoKey => supersedes[1] = d

supersedable(d, supersedes) == supersedes # NoKey => versions[supersedes].defenseId = d

publishVersion(caller, d, n, manifestHash, supersedes) ==
  LET key == versionKey(d, n) IN
  /\ caller \in Authors
  /\ ~ isPaused("PUBLICATION")
  /\ defenses[d].author = caller
  /\ supersedable(d, supersedes)
  /\ status(key) = "None"
  /\ versions' = [versions EXCEPT ![key] =
       [defenseId |-> d, manifestHash |-> manifestHash,
        authorAgentId |-> defenses[d].authorAgentId, status |-> "Draft",
        supersedes |-> supersedes, replayReportHash |-> NoHash]]
  /\ UNCHANGED <<defenses, receipts, pauseStates, validationRegistryConfigured>>

publishReplayBundle(caller, k, reportHash) ==
  /\ caller \in Authors
  /\ ~ isPaused("PUBLICATION")
  /\ status(k) = "Draft"
  /\ defenses[versions[k].defenseId].author = caller
  /\ versions' = [versions EXCEPT ![k] =
       [@ EXCEPT !.replayReportHash = reportHash, !.status = "Candidate"]]
  /\ UNCHANGED <<defenses, receipts, pauseStates, validationRegistryConfigured>>

\* _changeStatus, for the transactions that change nothing else.
changeStatus(k, newStatus) ==
  /\ versions' = [versions EXCEPT ![k].status = newStatus]
  /\ UNCHANGED <<defenses, receipts, pauseStates, validationRegistryConfigured>>

\* Mutant: the validation registry is only asked when one is configured.
promoteVersionUnvalidated(k) ==
  /\ ~ isPaused("PROMOTION")
  /\ status(k) = "Candidate"
  /\ validationRegistryConfigured => isValidationFinal[k]
  /\ changeStatus(k, "Stable")

promoteVersion(k) ==
  /\ ~ isPaused("PROMOTION")
  /\ status(k) = "Candidate"
  /\ validationRegistryConfigured
  /\ isValidationFinal[k]
  /\ changeStatus(k, "Stable")

\* Mutant: a release may be rejected like a candidate.
rejectVersionReleased(k) ==
  /\ status(k) \in {"Draft", "Candidate", "Stable"}
  /\ changeStatus(k, "Rejected")

rejectVersion(k) ==
  /\ status(k) \in {"Draft", "Candidate"}
  /\ changeStatus(k, "Rejected")

\* _requireReplacement: another version that is a candidate or stable, or none.
requireReplacement(k, replacement) ==
  replacement # NoKey => replacement # k /\ status(replacement) \in {"Candidate", "Stable"}

quarantineVersion(k, replacement) ==
  /\ status(k) \in {"Draft", "Candidate", "Stable"}
  /\ requireReplacement(k, replacement)
  /\ changeStatus(k, "Quarantined")

revokeVersion(k, replacement) ==
  /\ status(k) = "Quarantined"
  /\ requireReplacement(k, replacement)
  /\ changeStatus(k, "Revoked")

publishReceipt(r) ==
  /\ ~ isPaused("RECEIPT")
  /\ receipts[r].resolution = "None"
  /\ receipts' = [receipts EXCEPT ![r].resolution = "Open"]
  /\ UNCHANGED <<defenses, versions, pauseStates, validationRegistryConfigured>>

linkDefense(r, k) ==
  /\ ~ isPaused("RECEIPT")
  /\ receipts[r].resolution = "Open"
  /\ status(k) # "None"
  /\ receipts' = [receipts EXCEPT ![r] = [resolution |-> "Linked", linkedVersionKey |-> k]]
  /\ UNCHANGED <<defenses, versions, pauseStates, validationRegistryConfigured>>

updateResolution(r, resolution) ==
  /\ ~ isPaused("RECEIPT")
  /\ resolution \notin {"None", "Open", "Linked"}
  /\ receipts[r].resolution \in {"Open", "Linked"}
  /\ receipts' = [receipts EXCEPT ![r].resolution = resolution]
  /\ UNCHANGED <<defenses, versions, pauseStates, validationRegistryConfigured>>

setProtocolPause(scope, state) ==
  /\ state \in PauseInput
  /\ pauseStates' = [pauseStates EXCEPT ![scope] = state]
  /\ UNCHANGED <<defenses, versions, receipts, validationRegistryConfigured>>

\* Blocks carry non-decreasing timestamps; MaxTime bounds the model.
Tick == now < MaxTime /\ now' = now + 1 /\ UNCHANGED registryVars

RegistryTransaction ==
  \/ setValidationRegistry
  \/ \E c \in Accounts, d \in Defenses, a \in Agents : registerDefense(c, d, a)
  \/ \E c \in Accounts, d \in Defenses, n \in Numbers, h \in Hashes,
        s \in VersionKeys \cup {NoKey} : publishVersion(c, d, n, h, s)
  \/ \E c \in Accounts, k \in VersionKeys, h \in Hashes : publishReplayBundle(c, k, h)
  \/ \E k \in VersionKeys : promoteVersion(k)
  \/ \E k \in VersionKeys : rejectVersion(k)
  \/ \E k \in VersionKeys, s \in VersionKeys \cup {NoKey} : quarantineVersion(k, s)
  \/ \E k \in VersionKeys, s \in VersionKeys \cup {NoKey} : revokeVersion(k, s)
  \/ \E r \in Receipts : publishReceipt(r)
  \/ \E r \in Receipts, k \in VersionKeys : linkDefense(r, k)
  \/ \E r \in Receipts, s \in ReceiptResolution : updateResolution(r, s)
  \/ \E s \in RegistryScopes \cap PausableScopes, p \in PauseInput : setProtocolPause(s, p)

(***************************************************************************)
(* The registry beside an environment that may declare any candidate       *)
(* validated: the most the validation contract can do to it.               *)
(***************************************************************************)
ValidationFinalizes(k) ==
  /\ status(k) = "Candidate"
  /\ isValidationFinal' = [isValidationFinal EXCEPT ![k] = TRUE]
  /\ UNCHANGED <<registryVars, now>>

RegistryAloneInit == RegistryInit /\ isValidationFinal = [k \in VersionKeys |-> FALSE]

RegistryAloneNext ==
  \/ RegistryTransaction /\ UNCHANGED <<isValidationFinal, now>>
  \/ \E k \in VersionKeys : ValidationFinalizes(k)
  \/ Tick /\ UNCHANGED isValidationFinal

RegistryAloneSpec ==
  RegistryAloneInit /\ [][RegistryAloneNext]_<<registryVars, isValidationFinal, now>>

(***************************************************************************)
(* Properties.                                                             *)
(***************************************************************************)
\* The storage of the registry has the declared types.
RegistryTypeOK ==
  /\ defenses \in [Defenses -> Defense]
  /\ versions \in [VersionKeys -> DefenseVersion]
  /\ receipts \in [Receipts -> ThreatReceipt]
  /\ pauseStates \in [RegistryScopes -> PauseState]
  /\ validationRegistryConfigured \in BOOLEAN
  /\ isValidationFinal \in [VersionKeys -> BOOLEAN]
  /\ now \in Nat

\* Every published version is bound to the registration of its defense, which
\* cannot change afterwards: the author and the agent that validation compares
\* its validators with are those of the registration.
VersionsBoundToAuthor ==
  \A k \in VersionKeys : status(k) # "None" =>
    /\ versions[k].defenseId = k[1]
    /\ defenses[k[1]].author \in Authors
    /\ versions[k].authorAgentId = defenses[k[1]].authorAgentId

\* The history a version claims is real: what it supersedes was published
\* before it, for the same defense, so following supersedes ends.  (A set of
\* versions each superseding a member of the set would contain a cycle.)
SupersedesWellFounded ==
  /\ \A k \in VersionKeys : versions[k].supersedes # NoKey =>
       /\ status(versions[k].supersedes) # "None"
       /\ versions[k].supersedes[1] = k[1]
  /\ ~ \E S \in (SUBSET VersionKeys) \ {{}} : \A k \in S : versions[k].supersedes \in S

\* The moves the lifecycle of docs/architecture/0009 draws; nothing leaves
\* Rejected or Revoked, and only Quarantined leads to Revoked.
LifecycleMoves ==
  {<<"None", "Draft">>, <<"Draft", "Candidate">>, <<"Candidate", "Stable">>,
   <<"Draft", "Rejected">>, <<"Candidate", "Rejected">>, <<"Draft", "Quarantined">>,
   <<"Candidate", "Quarantined">>, <<"Stable", "Quarantined">>, <<"Quarantined", "Revoked">>}

\* Published versions are immutable (contracts/README.md: "Released versions
\* and attestations are immutable"): a step moves a version along the
\* lifecycle or leaves its status alone, never rewrites what was published,
\* and never replaces the replay commitment once there is one.
PublishedVersionImmutable ==
  [][\A k \in VersionKeys :
       LET old == versions[k]  new == versions'[k] IN
       /\ old.status # new.status => <<old.status, new.status>> \in LifecycleMoves
       /\ old.status # "None" =>
            [new EXCEPT !.status = old.status, !.replayReportHash = old.replayReportHash] = old
       /\ old.replayReportHash # NoHash => new.replayReportHash = old.replayReportHash]_versions

\* What the guardian ordered for a scope is still in force: a pause without an end, or
\* one whose end has not come.
InForce(scope) ==
  LET state == pauseStates[scope]
  IN state.paused /\ (state.expiresAt # 0 => state.expiresAt > now)

\* While a pause is in force nothing in its scope moves forward: no new defense,
\* version or candidate under PUBLICATION, no release under PROMOTION, no change to
\* a receipt under RECEIPT (safety actions go on; DadiengRegistry.sol:295-318).
PausedScopeIsFrozen ==
  [][/\ InForce("PUBLICATION") =>
          /\ defenses' = defenses
          /\ \A k \in VersionKeys :
               versions'[k].status \in {"Draft", "Candidate"} => versions'[k] = versions[k]
     /\ InForce("PROMOTION") =>
          \A k \in VersionKeys : versions'[k].status = "Stable" => status(k) = "Stable"
     /\ InForce("RECEIPT") => receipts' = receipts]_registryVars
================================================================================
