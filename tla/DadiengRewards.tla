----------------------------- MODULE DadiengRewards -----------------------------
(***************************************************************************)
(* The contract DadiengRewards: usage batches committed for stable         *)
(* versions, epochs funded by the treasury, allocations to recipients and  *)
(* their pull claims in the native token.  It reads the status of a        *)
(* version in the registry and changes nothing there.                      *)
(*                                                                         *)
(* claimReward records the claim before it calls the recipient, and a call *)
(* that fails reverts everything, so the recipient's own calls during the  *)
(* transfer see the state after the claim: one atomic step, followed by    *)
(* whatever the recipient does.                                            *)
(***************************************************************************)
EXTENDS DadiengRegistry, FiniteSetsExt

CONSTANTS
  Epochs,
  Usages,       \* the pairs (adopterId, root) a committer may report
  MaxFunding,   \* bound of what the treasury pays into one epoch
  MaxPayouts    \* bound of the recipients of one allocation (256 in the code)

\* Epochs are uint64 and accounts are addresses: there are finitely many.
ASSUME RewardsAssumption ==
  /\ IsFiniteSet(Epochs)
  /\ IsFiniteSet(Accounts)
  /\ MaxFunding \in Nat
  /\ MaxPayouts \in Nat \ {0}

VARIABLES
  batches,                 \* _batches[id]
  epochFunded,
  epochAllocated,
  rewardAllocations,       \* rewardAllocations[epoch][recipient]
  rewardClaimed,           \* rewardClaimed[epoch][recipient]
  batchRewardsAllocated,
  rewardPauseStates,       \* pauseStates of this contract
  balance                  \* the native tokens the contract holds

rewardsVars ==
  <<batches, epochFunded, epochAllocated, rewardAllocations, rewardClaimed,
    batchRewardsAllocated, rewardPauseStates, balance>>

RewardScopes == {"USAGE", "CLAIMS"}

\* A batch identifier is a hash of what it is about: injective.
batchId(epoch, usage, k) == <<epoch, usage, k>>

BatchIds == Epochs \X Usages \X VersionKeys

UsageBatch == [committed : BOOLEAN, challenged : BOOLEAN, finalized : BOOLEAN]

NoBatch == [committed |-> FALSE, challenged |-> FALSE, finalized |-> FALSE]

epochOf(id) == id[1]

rewardScopePaused(scope) == PauseHolds(rewardPauseStates[scope])

\* The lists of recipients and amounts of allocateRewards, index by index; a
\* recipient may appear more than once.
Payout == [to : Accounts, amount : 1 .. MaxFunding]
PayoutLists == UNION {[1 .. n -> Payout] : n \in 1 .. MaxPayouts}

amounts(payouts) == [i \in DOMAIN payouts |-> payouts[i].amount]

totalOf(payouts) == SumFunction(amounts(payouts))

paidTo(payouts, v) ==
  SumFunctionOnSet(amounts(payouts), {i \in DOMAIN payouts : payouts[i].to = v})

RewardsInit ==
  /\ batches = [id \in BatchIds |-> NoBatch]
  /\ epochFunded = [e \in Epochs |-> 0]
  /\ epochAllocated = [e \in Epochs |-> 0]
  /\ rewardAllocations = [e \in Epochs |-> [v \in Accounts |-> 0]]
  /\ rewardClaimed = [e \in Epochs |-> [v \in Accounts |-> FALSE]]
  /\ batchRewardsAllocated = [id \in BatchIds |-> FALSE]
  /\ rewardPauseStates = [s \in RewardScopes |-> NotPaused]
  /\ balance = 0

(***************************************************************************)
(* The transactions.                                                       *)
(***************************************************************************)

usable(k) == status(k) = "Stable"

commitUsageBatch(epoch, usage, k) ==
  LET id == batchId(epoch, usage, k) IN
  /\ ~ rewardScopePaused("USAGE")
  /\ usable(k)
  /\ ~ batches[id].committed
  /\ batches' = [batches EXCEPT ![id].committed = TRUE]
  /\ UNCHANGED <<epochFunded, epochAllocated, rewardAllocations, rewardClaimed,
                 batchRewardsAllocated, rewardPauseStates, balance>>

\* Neither challenged nor finalized yet.
batchOpen(id) == batches[id].committed /\ ~ batches[id].challenged /\ ~ batches[id].finalized

challengeBatch(id) ==
  /\ batchOpen(id)
  /\ batches' = [batches EXCEPT ![id].challenged = TRUE]
  /\ UNCHANGED <<epochFunded, epochAllocated, rewardAllocations, rewardClaimed,
                 batchRewardsAllocated, rewardPauseStates, balance>>

finalizeBatch(id) ==
  /\ ~ rewardScopePaused("USAGE")
  /\ batchOpen(id)
  /\ batches' = [batches EXCEPT ![id].finalized = TRUE]
  /\ UNCHANGED <<epochFunded, epochAllocated, rewardAllocations, rewardClaimed,
                 batchRewardsAllocated, rewardPauseStates, balance>>

fundEpoch(epoch, value) ==
  /\ epochFunded[epoch] + value <= MaxFunding
  /\ epochFunded' = [epochFunded EXCEPT ![epoch] = @ + value]
  /\ balance' = balance + value
  /\ UNCHANGED <<batches, epochAllocated, rewardAllocations, rewardClaimed,
                 batchRewardsAllocated, rewardPauseStates>>

allUnclaimed(epoch, payouts) == \A i \in DOMAIN payouts : ~ rewardClaimed[epoch][payouts[i].to]

allocateRewards(id, payouts) ==
  LET epoch == epochOf(id) IN
  /\ ~ rewardScopePaused("USAGE")
  /\ batches[id].finalized
  /\ ~ batchRewardsAllocated[id]
  /\ allUnclaimed(epoch, payouts)
  /\ epochAllocated[epoch] + totalOf(payouts) <= epochFunded[epoch]
  /\ epochAllocated' = [epochAllocated EXCEPT ![epoch] = @ + totalOf(payouts)]
  /\ batchRewardsAllocated' = [batchRewardsAllocated EXCEPT ![id] = TRUE]
  /\ rewardAllocations' = [rewardAllocations EXCEPT ![epoch] =
       [v \in Accounts |-> @[v] + paidTo(payouts, v)]]
  /\ UNCHANGED <<batches, epochFunded, rewardClaimed, rewardPauseStates, balance>>

\* Mutant: the claim is recorded but not looked up.
claimableAgain(caller, epoch) ==
  ~ rewardScopePaused("CLAIMS") /\ rewardAllocations[epoch][caller] # 0

claimable(caller, epoch) ==
  /\ ~ rewardScopePaused("CLAIMS")
  /\ rewardAllocations[epoch][caller] # 0
  /\ ~ rewardClaimed[epoch][caller]

\* The transfer succeeds when the contract holds the amount.
claimReward(caller, epoch) ==
  LET amount == rewardAllocations[epoch][caller] IN
  /\ claimable(caller, epoch)
  /\ rewardClaimed' = [rewardClaimed EXCEPT ![epoch][caller] = TRUE]
  /\ balance >= amount
  /\ balance' = balance - amount
  /\ UNCHANGED <<batches, epochFunded, epochAllocated, rewardAllocations,
                 batchRewardsAllocated, rewardPauseStates>>

setRewardPause(scope, state) ==
  /\ state \in PauseInput
  /\ rewardPauseStates' = [rewardPauseStates EXCEPT ![scope] = state]
  /\ UNCHANGED <<batches, epochFunded, epochAllocated, rewardAllocations, rewardClaimed,
                 batchRewardsAllocated, balance>>

RewardsTransaction ==
  \/ \E e \in Epochs, u \in Usages, k \in VersionKeys : commitUsageBatch(e, u, k)
  \/ \E id \in BatchIds : challengeBatch(id)
  \/ \E id \in BatchIds : finalizeBatch(id)
  \/ \E e \in Epochs, value \in 1 .. MaxFunding : fundEpoch(e, value)
  \/ \E id \in BatchIds, p \in PayoutLists : allocateRewards(id, p)
  \/ \E v \in Accounts, e \in Epochs : claimReward(v, e)
  \/ \E s \in RewardScopes \cap PausableScopes, p \in PauseInput : setRewardPause(s, p)

(***************************************************************************)
(* Properties.                                                             *)
(***************************************************************************)
\* The storage of the rewards contract has the declared types.
RewardsTypeOK ==
  /\ batches \in [BatchIds -> UsageBatch]
  /\ epochFunded \in [Epochs -> Nat]
  /\ epochAllocated \in [Epochs -> Nat]
  /\ rewardAllocations \in [Epochs -> [Accounts -> Nat]]
  /\ rewardClaimed \in [Epochs -> [Accounts -> BOOLEAN]]
  /\ batchRewardsAllocated \in [BatchIds -> BOOLEAN]
  /\ rewardPauseStates \in [RewardScopes -> PauseState]
  /\ balance \in Nat

\* What the recipients of an epoch may still claim.
Owed(e) == SumFunctionOnSet(rewardAllocations[e], {v \in Accounts : ~ rewardClaimed[e][v]})

\* The contract can pay everything it still owes, in every order of claims,
\* whatever the epochs share one balance for: no claim fails for lack of funds.
Solvent == balance >= SumFunction([e \in Epochs |-> Owed(e)])
================================================================================
