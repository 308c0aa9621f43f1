---------------------------- MODULE ChainOperations ----------------------------
(***************************************************************************)
(* The transaction outbox between the control plane and Monad: operations  *)
(* in Postgres, workers that advance one leased operation at a time, the   *)
(* adapter's RPC calls, and the node with its pool and chain (external).   *)
(*                                                                         *)
(* A turn of a worker is the three awaits of runNext: claim, adapter call, *)
(* update; everything else may happen between them.  The adapter's inspect *)
(* awaits twice more, so it is two steps.  Time is abstracted: a lease may *)
(* expire and a retry delay may elapse at any moment, which covers every   *)
(* delay, slow worker and difference of clocks.                            *)
(*                                                                         *)
(* A claim token is a fresh UUID; here it is the worker, which is as good: *)
(* a worker has one turn in flight and a crash forgets its token.  Counts  *)
(* of attempts, error codes and block numbers are left out.                *)
(***************************************************************************)
EXTENDS Naturals, FiniteSets

CONSTANTS
  Ops,             \* operations by deduplication key, numbered by created_at
  Workers,         \* the processes that run the worker loop of start.ts
  Confirmations,   \* DADIENG_CHAIN_CONFIRMATIONS
  NoTx, NoWorker, NoJob,
  MaxSigned,       \* bound: transactions signed for one operation
  MaxAbandons,     \* bound: turns that end in a crash or a failed database call
  RpcMayRefuse,    \* the RPC may answer any call with an error of its own
  MayEvict,        \* the node may drop a transaction from its pool
  MayReorg         \* blocks not yet Confirmations deep may be replaced

ASSUME ChainAssumption ==
  /\ Ops \subseteq Nat /\ IsFiniteSet(Ops)
  /\ Confirmations \in Nat \ {0}
  /\ NoWorker \notin Workers /\ NoTx \notin [op : Ops, nonce : Nat, serial : Nat]
  /\ MaxSigned \in Nat /\ MaxAbandons \in Nat
  /\ {RpcMayRefuse, MayEvict, MayReorg} \subseteq BOOLEAN

VARIABLES
  record,        \* record[o]: the durable row of o
  due,           \* due[o]: next_attempt_at has come
  claim,         \* claim[o]: claim_token, and whether claim_expires_at is ahead
  pc,            \* pc[w]: the await worker w is at
  job,           \* job[w]: the copy of the row that w works on
  receiptDepth,  \* receiptDepth[w]: head - receipt.blockNumber + 1 while w inspects
  signed,        \* signed[o]: how many transactions were signed for o
  sent,          \* transactions that reached the network, whatever was answered
  pool,          \* the node's pool
  mined,         \* the receipts of the signer's transactions in the chain
  abandons

dbVars == <<record, due, claim>>
workerVars == <<pc, job, receiptDepth, signed, abandons>>
nodeVars == <<sent, pool, mined>>
vars == <<dbVars, workerVars, nodeVars>>

ChainOperationStatus == {"none", "queued", "prepared", "submitted", "confirmed", "failed"}

\* Each signature is its own transaction: op and nonce do not identify it.
Tx == [op : Ops, nonce : Nat, serial : Nat]

\* The columns a status needs (the CHECK of the table).
Row == {r \in [status : ChainOperationStatus, tx : Tx \cup {NoTx}] :
  /\ r.status \in {"none", "queued"} => r.tx = NoTx
  /\ r.status \in {"prepared", "submitted", "confirmed"} => r.tx # NoTx}
Job == [op : Ops, status : ChainOperationStatus, tx : Tx \cup {NoTx}]
Receipt == [tx : Tx, ok : BOOLEAN, depth : 1 .. Confirmations]

Unclaimed == [token |-> NoWorker, live |-> FALSE]

\* Mutant: a submitted operation is not looked at again.
activeWithoutSubmitted(o) == record[o].status \in {"queued", "prepared"}

active(o) == record[o].status \in {"queued", "prepared", "submitted"}

Init ==
  /\ record = [o \in Ops |-> [status |-> "none", tx |-> NoTx]]
  /\ due = [o \in Ops |-> FALSE]
  /\ claim = [o \in Ops |-> Unclaimed]
  /\ pc = [w \in Workers |-> "idle"]
  /\ job = [w \in Workers |-> NoJob]
  /\ receiptDepth = [w \in Workers |-> 0]
  /\ signed = [o \in Ops |-> 0]
  /\ sent = {} /\ pool = {} /\ mined = {}
  /\ abandons = 0

(***************************************************************************)
(* The database.                                                           *)
(***************************************************************************)
\* A second enqueue under the same deduplication key returns the first.
enqueue(o) ==
  /\ record[o].status = "none"
  /\ \A p \in Ops : p < o => record[p].status # "none"
  /\ record' = [record EXCEPT ![o] = [status |-> "queued", tx |-> NoTx]]
  /\ due' = [due EXCEPT ![o] = TRUE]
  /\ UNCHANGED <<claim, workerVars, nodeVars>>

RetryElapses(o) ==
  /\ active(o) /\ ~ due[o]
  /\ due' = [due EXCEPT ![o] = TRUE]
  /\ UNCHANGED <<record, claim, workerVars, nodeVars>>

LeaseExpires(o) ==
  /\ claim[o].live
  /\ claim' = [claim EXCEPT ![o].live = FALSE]
  /\ UNCHANGED <<record, due, workerVars, nodeVars>>

claimable(o) == active(o) /\ due[o] /\ ~ \E p \in Ops : claim[p].live

\* The row the statement picks, and the unique index on claimed rows (error
\* 23505 is "nothing to do").
claimNextChainOperation(w, o) ==
  /\ claimable(o)
  /\ \A p \in Ops : claimable(p) => o <= p
  /\ \A p \in Ops \ {o} : claim[p].token = NoWorker
  /\ claim' = [claim EXCEPT ![o] = [token |-> w, live |-> TRUE]]

\* Mutant: the token is not compared.
updateClaimedUnchecked(w) ==
  /\ record' = [record EXCEPT ![job[w].op] = [status |-> job[w].status, tx |-> job[w].tx]]
  /\ due' = [due EXCEPT ![job[w].op] = FALSE]
  /\ claim' = [claim EXCEPT ![job[w].op] = Unclaimed]

\* Without the token the statement matches no row and the turn ends in an error.
updateClaimedChainOperation(w) ==
  LET o == job[w].op IN
  IF claim[o].token = w
  THEN /\ record' = [record EXCEPT ![o] = [status |-> job[w].status, tx |-> job[w].tx]]
       /\ due' = [due EXCEPT ![o] = FALSE]
       /\ claim' = [claim EXCEPT ![o] = Unclaimed]
  ELSE UNCHANGED dbVars

(***************************************************************************)
(* The node.  It takes a transaction whose nonce is free, it rejects one   *)
(* whose nonce is used or taken, it mines in the order of nonces.          *)
(***************************************************************************)
nextNonce == Cardinality(mined)

taken(n) == n < nextNonce \/ \E t \in pool : t.nonce = n

\* eth_getTransactionCount at "pending".
pendingNonce(n) == ~ taken(n) /\ \A m \in 0 .. (n - 1) : taken(m)

acceptable(t) == ~ taken(t.nonce)

Aged(receipts) ==
  {[r EXCEPT !.depth = IF @ < Confirmations THEN @ + 1 ELSE @] : r \in receipts}

\* A worker that has read a receipt sees the head move on.
AgeSeen == receiptDepth' = [w \in Workers |->
  IF receiptDepth[w] \in 1 .. (Confirmations - 1) THEN receiptDepth[w] + 1 ELSE receiptDepth[w]]

\* A transaction sent in a call that timed out arrives, or is gossiped again.
Arrives(t) ==
  /\ t \in sent /\ acceptable(t)
  /\ pool' = pool \cup {t}
  /\ UNCHANGED <<dbVars, workerVars, sent, mined>>

Mine(t, ok) ==
  /\ t \in pool /\ t.nonce = nextNonce
  /\ mined' = Aged(mined) \cup {[tx |-> t, ok |-> ok, depth |-> 1]}
  /\ pool' = pool \ {t}
  /\ AgeSeen
  /\ UNCHANGED <<dbVars, pc, job, signed, abandons, sent>>

EmptyBlock ==
  /\ mined' = Aged(mined)
  /\ AgeSeen
  /\ mined' # mined \/ receiptDepth' # receiptDepth
  /\ UNCHANGED <<dbVars, pc, job, signed, abandons, sent, pool>>

Evict(t) ==
  /\ MayEvict /\ t \in pool
  /\ pool' = pool \ {t}
  /\ UNCHANGED <<dbVars, workerVars, sent, mined>>

\* The last d blocks are replaced by d blocks without the signer's transactions.
Reorg(d) ==
  LET undone == {r \in mined : r.depth <= d} IN
  /\ MayReorg /\ d < Confirmations /\ undone # {}
  /\ mined' = mined \ undone
  /\ pool' = pool \cup {r.tx : r \in undone}
  /\ UNCHANGED <<dbVars, workerVars, sent>>

(***************************************************************************)
(* The turn of a worker, ChainOperationCoordinator.runNext.                *)
(***************************************************************************)
Claim(w) ==
  /\ pc[w] = "idle"
  /\ \E o \in Ops :
       /\ claimNextChainOperation(w, o)
       /\ job' = [job EXCEPT ![w] = [op |-> o, status |-> record[o].status, tx |-> record[o].tx]]
  /\ pc' = [pc EXCEPT ![w] = "claimed"]
  /\ UNCHANGED <<record, due, receiptDepth, signed, abandons, nodeVars>>

\* The adapter call of w is over and leaves w with this status and transaction.
Acted(w, status, tx) ==
  /\ pc' = [pc EXCEPT ![w] = "acted"]
  /\ job' = [job EXCEPT ![w] = [op |-> job[w].op, status |-> status, tx |-> tx]]
  /\ receiptDepth' = [receiptDepth EXCEPT ![w] = 0]
  /\ UNCHANGED <<dbVars, abandons>>

\* Mutant: a prepared operation is prepared again on its next turn.
PrepareAgain(w) ==
  LET o == job[w].op IN
  /\ pc[w] = "claimed" /\ job[w].status \in {"queued", "prepared"}
  /\ signed[o] < MaxSigned
  /\ signed' = [signed EXCEPT ![o] = @ + 1]
  /\ \E n \in 0 .. Cardinality(Ops) :
       pendingNonce(n) /\ Acted(w, "prepared", [op |-> o, nonce |-> n, serial |-> signed[o] + 1])
  /\ UNCHANGED nodeVars

\* prepare: the simulation passes, the pending nonce is read, the call signed.
Prepare(w) ==
  LET o == job[w].op IN
  /\ pc[w] = "claimed" /\ job[w].status = "queued"
  /\ signed[o] < MaxSigned
  /\ signed' = [signed EXCEPT ![o] = @ + 1]
  /\ \E n \in 0 .. Cardinality(Ops) :
       pendingNonce(n) /\ Acted(w, "prepared", [op |-> o, nonce |-> n, serial |-> signed[o] + 1])
  /\ UNCHANGED nodeVars

SimulationFails(w) ==
  /\ pc[w] = "claimed" /\ job[w].status = "queued"
  /\ Acted(w, "failed", job[w].tx)
  /\ UNCHANGED <<signed, nodeVars>>

\* broadcast: taken into the pool, or already known there.
Broadcast(w) ==
  LET t == job[w].tx IN
  /\ pc[w] = "claimed" /\ job[w].status = "prepared"
  /\ t \in pool \/ acceptable(t)
  /\ pool' = pool \cup {t}
  /\ sent' = sent \cup {t}
  /\ Acted(w, "submitted", t)
  /\ UNCHANGED <<signed, mined>>

\* The answer to the broadcast does not arrive; the transaction may.
BroadcastTimesOut(w) ==
  /\ pc[w] = "claimed" /\ job[w].status = "prepared"
  /\ sent' = sent \cup {job[w].tx}
  /\ Acted(w, "prepared", job[w].tx)
  /\ UNCHANGED <<signed, pool, mined>>

\* "nonce too low" or "replacement transaction underpriced": not retryable.
BroadcastRejected(w) ==
  LET t == job[w].tx IN
  /\ pc[w] = "claimed" /\ job[w].status = "prepared"
  /\ t \notin pool /\ taken(t.nonce)
  /\ Acted(w, "failed", t)
  /\ UNCHANGED <<signed, nodeVars>>

\* Mutant: the block that holds the transaction is not counted as a first one.
deepEnoughEarly(depth) == depth + 1 >= Confirmations

deepEnough(depth) == depth >= Confirmations

\* inspect, first call: no receipt yet, a failed execution, or a receipt.
ReceiptMissing(w) ==
  /\ pc[w] = "claimed" /\ job[w].status = "submitted"
  /\ ~ \E r \in mined : r.tx = job[w].tx
  /\ Acted(w, "submitted", job[w].tx)
  /\ UNCHANGED <<signed, nodeVars>>

ReceiptReverted(w) ==
  /\ pc[w] = "claimed" /\ job[w].status = "submitted"
  /\ \E r \in mined : r.tx = job[w].tx /\ ~ r.ok
  /\ Acted(w, "failed", job[w].tx)
  /\ UNCHANGED <<signed, nodeVars>>

ReadReceipt(w) ==
  /\ pc[w] = "claimed" /\ job[w].status = "submitted"
  /\ \E r \in mined :
       /\ r.tx = job[w].tx /\ r.ok
       /\ receiptDepth' = [receiptDepth EXCEPT ![w] = r.depth]
  /\ pc' = [pc EXCEPT ![w] = "receipt"]
  /\ UNCHANGED <<dbVars, job, signed, abandons, nodeVars>>

\* inspect, second call: the block number of the head.
ReadHead(w) ==
  /\ pc[w] = "receipt"
  /\ Acted(w, IF deepEnough(receiptDepth[w]) THEN "confirmed" ELSE "submitted", job[w].tx)
  /\ UNCHANGED <<signed, nodeVars>>

\* Any call may fail in transport (retryable) or be refused by the RPC (not).
RpcUnavailable(w) ==
  /\ pc[w] \in {"claimed", "receipt"}
  /\ Acted(w, job[w].status, job[w].tx)
  /\ UNCHANGED <<signed, nodeVars>>

RpcRefuses(w) ==
  /\ RpcMayRefuse /\ pc[w] \in {"claimed", "receipt"}
  /\ Acted(w, "failed", job[w].tx)
  /\ UNCHANGED <<signed, nodeVars>>

\* The RPC has taken the transaction and answers with an error of its own.
RefusesBroadcast(w) ==
  /\ RpcMayRefuse /\ pc[w] = "claimed" /\ job[w].status = "prepared"
  /\ sent' = sent \cup {job[w].tx}
  /\ Acted(w, "failed", job[w].tx)
  /\ UNCHANGED <<signed, pool, mined>>

Update(w) ==
  /\ pc[w] = "acted"
  /\ updateClaimedChainOperation(w)
  /\ pc' = [pc EXCEPT ![w] = "idle"]
  /\ job' = [job EXCEPT ![w] = NoJob]
  /\ UNCHANGED <<receiptDepth, signed, abandons, nodeVars>>

\* The process dies, or its database call fails: the claim stays behind.
Abandon(w) ==
  /\ pc[w] # "idle" /\ abandons < MaxAbandons
  /\ abandons' = abandons + 1
  /\ pc' = [pc EXCEPT ![w] = "idle"]
  /\ job' = [job EXCEPT ![w] = NoJob]
  /\ receiptDepth' = [receiptDepth EXCEPT ![w] = 0]
  /\ UNCHANGED <<dbVars, signed, nodeVars>>

Work(w) ==
  \/ Prepare(w) \/ SimulationFails(w)
  \/ Broadcast(w) \/ BroadcastTimesOut(w) \/ BroadcastRejected(w)
  \/ ReceiptMissing(w) \/ ReceiptReverted(w) \/ ReadReceipt(w) \/ ReadHead(w)
  \/ RpcUnavailable(w) \/ RpcRefuses(w) \/ RefusesBroadcast(w)

Next ==
  \/ \E o \in Ops : enqueue(o) \/ RetryElapses(o) \/ LeaseExpires(o)
  \/ \E w \in Workers : Claim(w) \/ Work(w) \/ Update(w) \/ Abandon(w)
  \/ \E t \in sent : Arrives(t)
  \/ \E t \in pool : Evict(t) \/ \E ok \in BOOLEAN : Mine(t, ok)
  \/ EmptyBlock
  \/ \E d \in 1 .. Confirmations : Reorg(d)

Spec == Init /\ [][Next]_vars

\* The loop of start.ts starts a turn every second and every await of a turn
\* returns (the RPC calls have timeouts); clocks advance; the node mines what
\* it can.  An RPC that is asked again and again answers some time.
Answered(w) ==
  \/ Prepare(w) \/ SimulationFails(w) \/ Broadcast(w) \/ BroadcastRejected(w)
  \/ ReceiptReverted(w) \/ (ReadHead(w) /\ deepEnough(receiptDepth[w]))

Fairness ==
  /\ \A o \in Ops : WF_vars(RetryElapses(o)) /\ WF_vars(LeaseExpires(o))
  /\ \A w \in Workers : /\ WF_vars(Claim(w)) /\ WF_vars(Work(w)) /\ WF_vars(Update(w))
                        /\ SF_vars(Answered(w)) /\ SF_vars(ReadReceipt(w))
  /\ WF_vars(\E t \in pool, ok \in BOOLEAN : Mine(t, ok))
  /\ WF_vars(EmptyBlock)

FairSpec == Spec /\ Fairness

(***************************************************************************)
(* Properties.                                                             *)
(***************************************************************************)
\* Every row has the columns its status needs (the CHECK of the table), every
\* worker at an await has a job, and the node keeps its types.
TypeOK ==
  /\ record \in [Ops -> Row]
  /\ due \in [Ops -> BOOLEAN]
  /\ claim \in [Ops -> [token : Workers \cup {NoWorker}, live : BOOLEAN]]
  /\ pc \in [Workers -> {"idle", "claimed", "receipt", "acted"}]
  /\ job \in [Workers -> Job \cup {NoJob}]
  /\ \A w \in Workers : pc[w] # "idle" => job[w] \in Job
  /\ receiptDepth \in [Workers -> 0 .. Confirmations]
  /\ signed \in [Ops -> Nat]
  /\ sent \subseteq Tx /\ pool \subseteq Tx /\ mined \subseteq Receipt
  /\ abandons \in Nat

\* docs/architecture/0010: a timeout leads to "rebroadcast of the same bytes
\* and transaction hash, never creation of a second logical write".  Whatever
\* workers crash, lag behind their lease or repeat a turn, only the one
\* transaction in the durable row ever reaches the network.
SingleTransaction == \A t \in sent : record[t.op].tx = t

\* docs/architecture/0010: an operation is "confirmed only after the
\* configured confirmation count": its transaction succeeded, that deep.
ConfirmedExecuted ==
  \A o \in Ops : record[o].status = "confirmed" =>
    \E r \in mined : r.tx = record[o].tx /\ r.ok /\ r.depth = Confirmations

\* The stages drawn in packages/contracts-client/README.md.
StageMoves ==
  {<<"none", "queued">>, <<"queued", "prepared">>, <<"prepared", "submitted">>,
   <<"submitted", "confirmed">>, <<"queued", "failed">>, <<"prepared", "failed">>,
   <<"submitted", "failed">>}

\* The durable stages go forward one at a time, a settled operation stays
\* settled, and the transaction once stored is never replaced, even when a
\* worker that lost its lease comes back.
StagesGoForward ==
  [][\A o \in Ops :
       LET old == record[o]  new == record'[o] IN
       /\ old.status # new.status => <<old.status, new.status>> \in StageMoves
       /\ old.tx # NoTx => new.tx = old.tx]_record

\* With one worker that never dies and a node that neither drops nor undoes
\* anything, every operation is confirmed or failed in the end, colliding
\* nonces or not.
EveryOperationSettles ==
  \A o \in Ops : active(o) ~> record[o].status \in {"confirmed", "failed"}

\* packages/contracts-client/README.md: "Leases expire after a worker crash,
\* and another worker can safely continue": no expired claim stays for good.
ExpiredClaim(o) == claim[o].token # NoWorker /\ ~ claim[o].live
LeaseRecovery == \A o \in Ops : ExpiredClaim(o) ~> ~ ExpiredClaim(o)

\* packages/contracts-client/README.md: the lease "prevents concurrent workers
\* from preparing colliding nonces".
NoNonceCollision ==
  \A o, p \in Ops :
    o # p /\ {record[o].status, record[p].status} \subseteq {"prepared", "submitted"} =>
      record[o].tx.nonce # record[p].tx.nonce

\* docs/architecture/0010: "failed: simulation, signing, or execution reached
\* a sanitized terminal failure": what failed was not executed.
FailedNotExecuted ==
  \A o \in Ops : record[o].status = "failed" =>
    ~ \E r \in mined : r.tx = record[o].tx /\ r.ok

(***************************************************************************)
(* The promise.                                                            *)
(***************************************************************************)
Durable == INSTANCE DurableWrites WITH
  Writes <- Ops,
  Unfixed <- NoTx,
  stage <- [o \in Ops |-> record[o].status],
  fixed <- [o \in Ops |-> record[o].tx],
  issued <- sent,
  executed <- {r.tx : r \in mined}

\* docs/architecture/0010: the bytes are stored before they are sent and only they are sent
\* again, so workers that die, lag or repeat a turn look to the author of a write like one
\* durable write that was issued once or more often.
ImplementsDurableWrites == Durable!DurableSpec
================================================================================
