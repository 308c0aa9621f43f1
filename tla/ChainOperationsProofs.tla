------------------------- MODULE ChainOperationsProofs -------------------------
(***************************************************************************)
(* For any operations, workers and bounds: one transaction per operation,  *)
(* stages that only go forward, and so a durable write to those who        *)
(* enqueue it, whatever the interleaving of turns, crashes, lost answers,  *)
(* evictions and reorganisations.                                          *)
(*                                                                         *)
(* The argument: the worker whose token is in a row has a copy of that     *)
(* very row, because nobody writes a row without its token and a claim     *)
(* replaces the token; so the update of a worker that was overtaken is     *)
(* refused, and the transaction a worker broadcasts is the durable one.    *)
(* Where no block is replaced, a receipt only gets deeper, so what a       *)
(* worker read of it before an await still holds after it.                 *)
(***************************************************************************)
EXTENDS ChainOperations, TLAPS

\* What a worker at an await holds is a row it could write.
HeldJob ==
  \A w \in Workers : pc[w] # "idle" =>
    /\ [status |-> job[w].status, tx |-> job[w].tx] \in Row
    /\ job[w].tx # NoTx => job[w].tx.op = job[w].op
    /\ pc[w] = "claimed" => job[w].status \in {"queued", "prepared", "submitted"}
    /\ pc[w] = "receipt" => job[w].status = "submitted"

\* A transaction a worker may broadcast or inspect is the durable one.
HeldTxDurable ==
  \A w \in Workers : pc[w] \in {"claimed", "receipt"} /\ job[w].tx # NoTx =>
    record[job[w].op].tx = job[w].tx

\* The worker that owns a row is one move of the row ahead of it.
OwnerIsOneMoveAhead ==
  \A o \in Ops, w \in Workers : claim[o].token = w /\ pc[w] # "idle" =>
    /\ job[w].op = o
    /\ record[o].tx # NoTx => job[w].tx = record[o].tx
    /\ job[w].status # record[o].status =>
         pc[w] = "acted" /\ <<record[o].status, job[w].status>> \in StageMoves

TxOfItsRow == \A o \in Ops : record[o].tx # NoTx => record[o].tx.op = o

\* The unique index; only rows with work to do are claimed.
OneClaim ==
  /\ \A o, p \in Ops : claim[o].token # NoWorker /\ claim[p].token # NoWorker => o = p
  /\ \A o \in Ops : claim[o].token # NoWorker => active(o)

Typed == TypeOK /\ HeldJob /\ TxOfItsRow

Owned == OwnerIsOneMoveAhead /\ OneClaim

IndInv == Typed /\ Owned /\ HeldTxDurable /\ SingleTransaction

(***************************************************************************)
(* Types.                                                                  *)
(***************************************************************************)
\* What the end of an adapter call does to the state of the worker.
LEMMA ActedTyped ==
  ASSUME Typed, NEW w \in Workers, pc[w] # "idle",
         NEW status, NEW tx, [status |-> status, tx |-> tx] \in Row,
         tx # NoTx => tx.op = job[w].op,
         Acted(w, status, tx)
  PROVE  /\ pc' \in [Workers -> {"idle", "claimed", "receipt", "acted"}]
         /\ job' \in [Workers -> Job \cup {NoJob}]
         /\ \A v \in Workers : pc'[v] # "idle" => job'[v] \in Job
         /\ receiptDepth' \in [Workers -> 0 .. Confirmations]
         /\ UNCHANGED <<record, due, claim, abandons>>
         /\ HeldJob' /\ TxOfItsRow'
<1>1. [op |-> job[w].op, status |-> status, tx |-> tx] \in Job
  BY DEF Typed, TypeOK, Job, Row
<1>2. UNCHANGED <<record, due, claim, abandons>> /\ TxOfItsRow'
  BY DEF Acted, dbVars, Typed, TxOfItsRow
<1>3. /\ job' = [job EXCEPT ![w] = [op |-> job[w].op, status |-> status, tx |-> tx]]
      /\ pc' = [pc EXCEPT ![w] = "acted"]
      /\ receiptDepth' = [receiptDepth EXCEPT ![w] = 0]
  BY DEF Acted
<1>4. HeldJob'
  BY <1>1, <1>3 DEF Typed, TypeOK, HeldJob
<1>. QED
  BY <1>1, <1>2, <1>3, <1>4, ChainAssumption DEF Typed, TypeOK

\* What a worker holds at an await: the next status of its row follows.
LEMMA HeldRow ==
  ASSUME Typed, NEW w \in Workers, pc[w] # "idle"
  PROVE  /\ job[w] \in Job
         /\ [status |-> job[w].status, tx |-> job[w].tx] \in Row
         /\ [status |-> "failed", tx |-> job[w].tx] \in Row
         /\ job[w].tx # NoTx => job[w].tx.op = job[w].op
         /\ job[w].status \in {"prepared", "submitted"} =>
              /\ job[w].tx \in Tx
              /\ \A s \in {"prepared", "submitted", "confirmed"} : [status |-> s, tx |-> job[w].tx] \in Row
BY DEF Typed, TypeOK, HeldJob, Row, Job, ChainOperationStatus

\* Types, through the steps of the database's side.
LEMMA DatabaseTyped ==
  ASSUME Typed, NEW o \in Ops, enqueue(o) \/ RetryElapses(o) \/ LeaseExpires(o)
  PROVE  Typed'
<1>1. CASE enqueue(o)
  <2>1. record' \in [Ops -> Row]
    BY <1>1 DEF enqueue, Typed, TypeOK, Row, ChainOperationStatus
  <2>. QED
    BY <1>1, <2>1 DEF enqueue, Typed, TypeOK, HeldJob, TxOfItsRow, workerVars, nodeVars
<1>2. CASE RetryElapses(o)
  <2>1. due' \in [Ops -> BOOLEAN] /\ UNCHANGED <<record, claim, workerVars, nodeVars>>
    BY <1>2 DEF RetryElapses, Typed, TypeOK
  <2>. QED
    BY <2>1 DEF Typed, TypeOK, HeldJob, TxOfItsRow, workerVars, nodeVars
<1>3. CASE LeaseExpires(o)
  <2>1. /\ claim' \in [Ops -> [token : Workers \cup {NoWorker}, live : BOOLEAN]]
        /\ UNCHANGED <<record, due, workerVars, nodeVars>>
    BY <1>3 DEF LeaseExpires, Typed, TypeOK
  <2>. QED
    BY <2>1 DEF Typed, TypeOK, HeldJob, TxOfItsRow, workerVars, nodeVars
<1>. QED
  BY <1>1, <1>2, <1>3

\* Types, through the beginning and the end of a worker's turn.
LEMMA TurnTyped ==
  ASSUME Typed, NEW w \in Workers, Claim(w) \/ Update(w) \/ Abandon(w)
  PROVE  Typed'
<1>1. CASE Claim(w)
  <2>1. PICK o \in Ops :
          /\ claimNextChainOperation(w, o)
          /\ job' = [job EXCEPT ![w] = [op |-> o, status |-> record[o].status, tx |-> record[o].tx]]
    BY <1>1 DEF Claim
  <2>2. [op |-> o, status |-> record[o].status, tx |-> record[o].tx] \in Job
    BY DEF Typed, TypeOK, Row, Job
  <2>3. claim' \in [Ops -> [token : Workers \cup {NoWorker}, live : BOOLEAN]]
    BY <2>1 DEF claimNextChainOperation, Typed, TypeOK
  <2>4. TypeOK'
    BY <1>1, <2>1, <2>2, <2>3 DEF Claim, Typed, TypeOK, nodeVars
  <2>5. [status |-> record[o].status, tx |-> record[o].tx] \in Row
    BY DEF Typed, TypeOK, Row
  <2>6. record[o].status \in {"queued", "prepared", "submitted"}
    BY <2>1 DEF claimNextChainOperation, claimable, active
  <2>7. HeldJob' /\ TxOfItsRow'
    BY <1>1, <2>1, <2>5, <2>6 DEF Claim, Typed, TypeOK, HeldJob, TxOfItsRow
  <2>. QED
    BY <2>4, <2>7 DEF Typed
<1>2. CASE Update(w)
  <2>. DEFINE o == job[w].op
  <2>1. o \in Ops /\ pc[w] # "idle" /\ [status |-> job[w].status, tx |-> job[w].tx] \in Row
    BY <1>2, HeldRow DEF Update, Job
  <2>2. CASE claim[o].token = w
    <3>1. /\ record' = [record EXCEPT ![o] = [status |-> job[w].status, tx |-> job[w].tx]]
          /\ due' = [due EXCEPT ![o] = FALSE]
          /\ claim' = [claim EXCEPT ![o] = Unclaimed]
      BY <1>2, <2>2 DEF Update, updateClaimedChainOperation
    <3>2. Unclaimed \in [token : Workers \cup {NoWorker}, live : BOOLEAN]
      BY DEF Unclaimed
    <3>3. TxOfItsRow'
      BY <2>1, <3>1, HeldRow DEF Typed, TypeOK, TxOfItsRow
    <3>. QED
      BY <1>2, <2>1, <3>1, <3>2, <3>3 DEF Update, Typed, TypeOK, HeldJob, nodeVars
  <2>3. CASE claim[o].token # w
    BY <1>2, <2>3 DEF Update, updateClaimedChainOperation, Typed, TypeOK, HeldJob, TxOfItsRow,
                      dbVars, nodeVars
  <2>. QED
    BY <2>2, <2>3
<1>3. CASE Abandon(w)
  BY <1>3, ChainAssumption DEF Abandon, Typed, TypeOK, HeldJob, TxOfItsRow, dbVars, nodeVars
<1>. QED
  BY <1>1, <1>2, <1>3

\* Types, through the calls of the adapter.
LEMMA WorkTyped ==
  ASSUME Typed, NEW w \in Workers, Work(w)
  PROVE  Typed'
<1>1. pc[w] # "idle"
  BY DEF Work, Prepare, SimulationFails, Broadcast, BroadcastTimesOut, BroadcastRejected,
         ReceiptMissing, ReceiptReverted, ReadReceipt, ReadHead, RpcUnavailable, RpcRefuses, RefusesBroadcast
<1>2. CASE Prepare(w)
  <2>. DEFINE o == job[w].op
              tx(n) == [op |-> o, nonce |-> n, serial |-> signed[o] + 1]
  <2>1. PICK n \in 0 .. Cardinality(Ops) : Acted(w, "prepared", tx(n))
    BY <1>2 DEF Prepare
  <2>2. o \in Ops /\ signed[o] \in Nat
    BY <1>1, HeldRow DEF Typed, TypeOK, Job
  <2>3. n \in Nat
    OBVIOUS
  <2>4. tx(n) \in Tx /\ [status |-> "prepared", tx |-> tx(n)] \in Row
    BY <2>2, <2>3, ChainAssumption DEF Tx, Row, ChainOperationStatus
  <2>5. signed' \in [Ops -> Nat]
    BY <1>2, <2>2 DEF Prepare, Typed, TypeOK
  <2>. QED
    BY <1>1, <1>2, <2>1, <2>4, <2>5, ActedTyped DEF Prepare, nodeVars, Typed, TypeOK
<1>3. CASE SimulationFails(w) \/ ReceiptReverted(w) \/ RpcRefuses(w) \/ BroadcastRejected(w)
  <2>1. Acted(w, "failed", job[w].tx) /\ UNCHANGED <<signed, nodeVars>>
    BY <1>3 DEF SimulationFails, ReceiptReverted, RpcRefuses, BroadcastRejected
  <2>. QED
    BY <1>1, <2>1, HeldRow, ActedTyped DEF nodeVars, Typed, TypeOK
<1>4. CASE Broadcast(w) \/ BroadcastTimesOut(w) \/ RefusesBroadcast(w)
  <2>1. job[w].tx \in Tx /\ job[w].status = "prepared"
    BY <1>1, <1>4, HeldRow DEF Broadcast, BroadcastTimesOut, RefusesBroadcast
  <2>2. PICK s \in {"prepared", "submitted", "failed"} : Acted(w, s, job[w].tx)
    BY <1>4 DEF Broadcast, BroadcastTimesOut, RefusesBroadcast
  <2>3. sent' \subseteq Tx /\ pool' \subseteq Tx /\ mined' = mined /\ signed' = signed
    BY <1>4, <2>1 DEF Broadcast, BroadcastTimesOut, RefusesBroadcast, Typed, TypeOK
  <2>. QED
    BY <1>1, <2>1, <2>2, <2>3, HeldRow, ActedTyped DEF Typed, TypeOK
<1>5. CASE ReceiptMissing(w) \/ RpcUnavailable(w)
  <2>1. Acted(w, job[w].status, job[w].tx) /\ UNCHANGED <<signed, nodeVars>>
    BY <1>5 DEF ReceiptMissing, RpcUnavailable
  <2>. QED
    BY <1>1, <2>1, HeldRow, ActedTyped DEF nodeVars, Typed, TypeOK
<1>6. CASE ReadHead(w)
  <2>1. job[w].status = "submitted"
    BY <1>6 DEF ReadHead, Typed, HeldJob
  <2>2. PICK s \in {"confirmed", "submitted"} : Acted(w, s, job[w].tx)
    BY <1>6 DEF ReadHead
  <2>. QED
    BY <1>1, <1>6, <2>1, <2>2, HeldRow, ActedTyped DEF ReadHead, nodeVars, Typed, TypeOK
<1>7. CASE ReadReceipt(w)
  <2>1. receiptDepth' \in [Workers -> 0 .. Confirmations]
    BY <1>7, ChainAssumption DEF ReadReceipt, Typed, TypeOK, Receipt
  <2>. QED
    BY <1>7, <2>1 DEF ReadReceipt, Typed, TypeOK, HeldJob, TxOfItsRow, dbVars, nodeVars
<1>. QED
  BY <1>2, <1>3, <1>4, <1>5, <1>6, <1>7 DEF Work

\* Types, through the steps of the node and of time.
LEMMA NodeTyped ==
  ASSUME Typed,
         \/ \E t \in sent : Arrives(t)
         \/ \E t \in pool : Evict(t) \/ \E ok \in BOOLEAN : Mine(t, ok)
         \/ EmptyBlock
         \/ \E d \in 1 .. Confirmations : Reorg(d)
  PROVE  Typed' /\ UNCHANGED <<dbVars, pc, job, sent>>
<1>1. Aged(mined) \subseteq Receipt
  BY ChainAssumption DEF Aged, Receipt, Typed, TypeOK
<1>2. AgeSeen => receiptDepth' \in [Workers -> 0 .. Confirmations]
  BY ChainAssumption DEF AgeSeen, Typed, TypeOK
<1>. DEFINE Rest == UNCHANGED <<dbVars, pc, job, signed, abandons, sent>>
<1>3. ASSUME NEW t \in sent, Arrives(t)
      PROVE  Rest /\ pool' \subseteq Tx /\ mined' = mined /\ receiptDepth' = receiptDepth
  BY <1>3 DEF Arrives, Typed, TypeOK, workerVars
<1>4. ASSUME NEW t \in pool, Evict(t)
      PROVE  Rest /\ pool' \subseteq Tx /\ mined' = mined /\ receiptDepth' = receiptDepth
  BY <1>4 DEF Evict, Typed, TypeOK, workerVars
<1>5. ASSUME NEW t \in pool, NEW ok \in BOOLEAN, Mine(t, ok)
      PROVE  Rest /\ pool' \subseteq Tx /\ mined' \subseteq Receipt
             /\ receiptDepth' \in [Workers -> 0 .. Confirmations]
  BY <1>1, <1>2, <1>5, ChainAssumption DEF Mine, Typed, TypeOK, Receipt
<1>6. CASE EmptyBlock
  BY <1>1, <1>2, <1>6 DEF EmptyBlock, Typed, TypeOK, HeldJob, TxOfItsRow, dbVars
<1>7. ASSUME NEW d \in 1 .. Confirmations, Reorg(d)
      PROVE  Rest /\ pool' \subseteq Tx /\ mined' \subseteq Receipt /\ receiptDepth' = receiptDepth
  BY <1>7 DEF Reorg, Typed, TypeOK, workerVars, Receipt
<1>8. Rest /\ pool' \subseteq Tx /\ mined' \subseteq Receipt
      /\ receiptDepth' \in [Workers -> 0 .. Confirmations]
  BY <1>3, <1>4, <1>5, <1>6, <1>7 DEF EmptyBlock, Typed, TypeOK
<1>. QED
  BY <1>8 DEF Typed, TypeOK, HeldJob, TxOfItsRow, dbVars

\* Types, through every step.
LEMMA TypedStep == Typed /\ [Next]_vars => Typed'
<1>1. CASE UNCHANGED vars
  BY <1>1 DEF vars, dbVars, workerVars, nodeVars, Typed, TypeOK, HeldJob, TxOfItsRow
<1>2. CASE Next
  BY <1>2, DatabaseTyped, TurnTyped, WorkTyped, NodeTyped DEF Next
<1>. QED
  BY <1>1, <1>2

(***************************************************************************)
(* Who owns a row.                                                         *)
(***************************************************************************)
\* The end of an adapter call is one move of the stage, or none.
LEMMA WorkMoves ==
  ASSUME Typed, NEW w \in Workers, Work(w)
  PROVE  /\ UNCHANGED <<record, claim>>
         /\ \A v \in Workers \ {w} : pc'[v] = pc[v] /\ job'[v] = job[v]
         /\ pc[w] \in {"claimed", "receipt"}
         /\ job'[w].op = job[w].op
         /\ job[w].tx # NoTx => job'[w].tx = job[w].tx
         /\ pc'[w] # "acted" => pc'[w] = "receipt" /\ job'[w] = job[w]
         /\ job'[w].status # job[w].status => <<job[w].status, job'[w].status>> \in StageMoves
<1>1. pc[w] \in {"claimed", "receipt"}
  BY DEF Work, Prepare, SimulationFails, Broadcast, BroadcastTimesOut, BroadcastRejected,
         ReceiptMissing, ReceiptReverted, ReadReceipt, ReadHead, RpcUnavailable, RpcRefuses, RefusesBroadcast
<1>2. CASE ReadReceipt(w)
  BY <1>1, <1>2 DEF ReadReceipt, dbVars, Typed, TypeOK
<1>3. ASSUME NEW status, NEW tx, Acted(w, status, tx), job[w].tx # NoTx => tx = job[w].tx,
             status # job[w].status => <<job[w].status, status>> \in StageMoves
      PROVE  /\ UNCHANGED <<record, claim>>
             /\ \A v \in Workers \ {w} : pc'[v] = pc[v] /\ job'[v] = job[v]
             /\ job'[w].op = job[w].op
             /\ job[w].tx # NoTx => job'[w].tx = job[w].tx
             /\ pc'[w] = "acted"
             /\ job'[w].status # job[w].status => <<job[w].status, job'[w].status>> \in StageMoves
  BY <1>3 DEF Acted, dbVars, Typed, TypeOK
<1>4. job[w].status \in {"queued", "prepared", "submitted"}
  BY <1>1 DEF Typed, HeldJob
<1>5. CASE Prepare(w)
  <2>1. job[w].tx = NoTx /\ job[w].status = "queued"
    BY <1>5, HeldRow DEF Prepare, Row
  <2>2. PICK tx : Acted(w, "prepared", tx)
    BY <1>5 DEF Prepare
  <2>. QED
    BY <1>1, <1>3, <2>1, <2>2 DEF StageMoves
<1>6. CASE SimulationFails(w) \/ ReceiptReverted(w) \/ RpcRefuses(w) \/ RefusesBroadcast(w)
           \/ BroadcastRejected(w)
  <2>1. Acted(w, "failed", job[w].tx)
    BY <1>6 DEF SimulationFails, ReceiptReverted, RpcRefuses, RefusesBroadcast, BroadcastRejected
  <2>. QED
    BY <1>1, <1>3, <1>4, <2>1 DEF StageMoves
<1>7. CASE Broadcast(w)
  <2>1. Acted(w, "submitted", job[w].tx) /\ job[w].status = "prepared"
    BY <1>7 DEF Broadcast
  <2>. QED
    BY <1>1, <1>3, <2>1 DEF StageMoves
<1>8. CASE BroadcastTimesOut(w) \/ ReceiptMissing(w) \/ RpcUnavailable(w)
  <2>1. Acted(w, job[w].status, job[w].tx)
    BY <1>8 DEF BroadcastTimesOut, ReceiptMissing, RpcUnavailable
  <2>. QED
    BY <1>1, <1>3, <2>1
<1>9. CASE ReadHead(w)
  <2>1. job[w].status = "submitted"
    BY <1>9 DEF ReadHead, Typed, HeldJob
  <2>2. PICK s \in {"confirmed", "submitted"} : Acted(w, s, job[w].tx)
    BY <1>9 DEF ReadHead
  <2>. QED
    BY <1>1, <1>3, <2>1, <2>2 DEF StageMoves
<1>. QED
  BY <1>2, <1>5, <1>6, <1>7, <1>8, <1>9 DEF Work

\* Only the owner of a row writes it, and then by one move.
LEMMA RowMoves ==
  ASSUME Typed, Owned, [Next]_vars, NEW o \in Ops
  PROVE  /\ record'[o].status # record[o].status =>
              <<record[o].status, record'[o].status>> \in StageMoves
         /\ record[o].tx # NoTx => record'[o].tx = record[o].tx
<1>1. ASSUME NEW p \in Ops, enqueue(p)
      PROVE  /\ record'[o].status # record[o].status =>
                  <<record[o].status, record'[o].status>> \in StageMoves
             /\ record[o].tx # NoTx => record'[o].tx = record[o].tx
  BY <1>1 DEF enqueue, StageMoves, Typed, TypeOK, Row
<1>2. ASSUME NEW w \in Workers, Update(w)
      PROVE  /\ record'[o].status # record[o].status =>
                  <<record[o].status, record'[o].status>> \in StageMoves
             /\ record[o].tx # NoTx => record'[o].tx = record[o].tx
  <2>1. CASE claim[job[w].op].token = w
    <3>1. pc[w] # "idle" /\ job[w].op \in Ops
      BY <1>2, HeldRow DEF Update, Job
    <3>2. record' = [record EXCEPT ![job[w].op] = [status |-> job[w].status, tx |-> job[w].tx]]
      BY <1>2, <2>1 DEF Update, updateClaimedChainOperation
    <3>. QED
      BY <2>1, <3>1, <3>2 DEF Owned, OwnerIsOneMoveAhead, Typed, TypeOK
  <2>2. CASE claim[job[w].op].token # w
    BY <1>2, <2>2 DEF Update, updateClaimedChainOperation, dbVars
  <2>. QED
    BY <2>1, <2>2
<1>3. CASE record' = record
  BY <1>3
<1>4. CASE UNCHANGED vars
  BY <1>3, <1>4 DEF vars, dbVars
<1>5. ASSUME NEW w \in Workers, Claim(w) \/ Abandon(w) \/ Work(w)
      PROVE  record' = record
  BY <1>5, WorkMoves DEF Claim, Abandon, dbVars
<1>6. ASSUME NEW p \in Ops, RetryElapses(p) \/ LeaseExpires(p)
      PROVE  record' = record
  BY <1>6 DEF RetryElapses, LeaseExpires
<1>. QED
  BY <1>1, <1>2, <1>3, <1>4, <1>5, <1>6, NodeTyped DEF Next, dbVars

\* Ownership of a row, through every step.
LEMMA OwnedStep == Typed /\ Owned /\ [Next]_vars => Owned'
<1>. SUFFICES ASSUME Typed, Owned, [Next]_vars PROVE Owned'
  OBVIOUS
<1>. USE DEF Owned
<1>1. ASSUME UNCHANGED <<record, claim, pc, job>>
      PROVE  Owned'
  BY <1>1 DEF OwnerIsOneMoveAhead, OneClaim, active
<1>2. ASSUME NEW p \in Ops, enqueue(p)
      PROVE  Owned'
  <2>1. claim[p].token = NoWorker
    BY <1>2 DEF enqueue, OneClaim, active
  <2>2. \A o \in Ops : o # p => record'[o] = record[o]
    BY <1>2 DEF enqueue, Typed, TypeOK
  <2>. QED
    BY <1>2, <2>1, <2>2, ChainAssumption
      DEF enqueue, OwnerIsOneMoveAhead, OneClaim, active, workerVars
<1>3. ASSUME NEW p \in Ops, LeaseExpires(p)
      PROVE  Owned'
  <2>1. \A o \in Ops : claim'[o].token = claim[o].token
    BY <1>3 DEF LeaseExpires, Typed, TypeOK
  <2>. QED
    BY <1>3, <2>1 DEF LeaseExpires, OwnerIsOneMoveAhead, OneClaim, active, workerVars
<1>4. ASSUME NEW w \in Workers, Claim(w)
      PROVE  Owned'
  <2>1. PICK p \in Ops :
          /\ claimNextChainOperation(w, p)
          /\ job' = [job EXCEPT ![w] = [op |-> p, status |-> record[p].status, tx |-> record[p].tx]]
    BY <1>4 DEF Claim
  <2>2. \A o \in Ops : claim'[o].token = IF o = p THEN w ELSE NoWorker
    BY <2>1 DEF claimNextChainOperation, Typed, TypeOK
  <2>3. job'[w] = [op |-> p, status |-> record[p].status, tx |-> record[p].tx]
    BY <2>1 DEF Typed, TypeOK
  <2>4. record' = record /\ active(p)
    BY <1>4, <2>1 DEF Claim, claimNextChainOperation, claimable
  <2>5. \A v \in Workers \ {w} : \A o \in Ops : claim'[o].token # v
    BY <2>2, ChainAssumption
  <2>6. OneClaim'
    BY <2>2, <2>4 DEF OneClaim, active
  <2>7. OwnerIsOneMoveAhead'
    <3>. SUFFICES ASSUME NEW o \in Ops, NEW v \in Workers, claim'[o].token = v
                  PROVE  /\ job'[v].op = o
                         /\ record'[o].tx # NoTx => job'[v].tx = record'[o].tx
                         /\ job'[v].status = record'[o].status
      BY DEF OwnerIsOneMoveAhead
    <3>1. v = w /\ o = p
      BY <2>2, <2>5, ChainAssumption
    <3>. QED
      BY <2>3, <2>4, <3>1
  <2>. QED
    BY <2>6, <2>7
<1>5. ASSUME NEW w \in Workers, Work(w)
      PROVE  Owned'
  <2>1. /\ UNCHANGED <<record, claim>>
        /\ \A v \in Workers \ {w} : pc'[v] = pc[v] /\ job'[v] = job[v]
        /\ pc[w] \in {"claimed", "receipt"}
        /\ job'[w].op = job[w].op
        /\ job[w].tx # NoTx => job'[w].tx = job[w].tx
        /\ pc'[w] # "acted" => job'[w] = job[w]
        /\ job'[w].status # job[w].status => <<job[w].status, job'[w].status>> \in StageMoves
    BY <1>5, WorkMoves
  <2>2. OneClaim'
    BY <2>1 DEF OneClaim, active
  <2>3. ASSUME NEW o \in Ops, claim[o].token = w
        PROVE  /\ job[w].op = o
               /\ record[o].tx # NoTx => job[w].tx = record[o].tx
               /\ job[w].status = record[o].status
    BY <2>1, <2>3 DEF OwnerIsOneMoveAhead
  <2>4. OwnerIsOneMoveAhead'
    <3>. SUFFICES ASSUME NEW o \in Ops, NEW v \in Workers, claim'[o].token = v, pc'[v] # "idle"
                  PROVE  /\ job'[v].op = o
                         /\ record'[o].tx # NoTx => job'[v].tx = record'[o].tx
                         /\ job'[v].status # record'[o].status =>
                              pc'[v] = "acted" /\ <<record'[o].status, job'[v].status>> \in StageMoves
      BY DEF OwnerIsOneMoveAhead
    <3>1. CASE v = w
      BY <2>1, <2>3, <3>1
    <3>2. CASE v # w
      BY <2>1, <3>2 DEF OwnerIsOneMoveAhead
    <3>. QED
      BY <3>1, <3>2
  <2>. QED
    BY <2>2, <2>4
<1>6. ASSUME NEW w \in Workers, Update(w)
      PROVE  Owned'
  <2>. DEFINE p == job[w].op
  <2>1. p \in Ops /\ pc' = [pc EXCEPT ![w] = "idle"] /\ job' = [job EXCEPT ![w] = NoJob]
    BY <1>6, HeldRow DEF Update, Job
  <2>2. CASE claim[p].token = w
    <3>1. \A o \in Ops : o # p => record'[o] = record[o] /\ claim'[o] = claim[o]
      BY <1>6, <2>1, <2>2 DEF Update, updateClaimedChainOperation, Typed, TypeOK
    <3>2. claim'[p].token = NoWorker
      BY <1>6, <2>1, <2>2 DEF Update, updateClaimedChainOperation, Unclaimed, Typed, TypeOK
    <3>3. OneClaim'
      BY <3>1, <3>2 DEF OneClaim, active
    <3>4. OwnerIsOneMoveAhead'
      <4>. SUFFICES ASSUME NEW o \in Ops, NEW v \in Workers, claim'[o].token = v, pc'[v] # "idle"
                    PROVE  /\ job'[v].op = o
                           /\ record'[o].tx # NoTx => job'[v].tx = record'[o].tx
                           /\ job'[v].status # record'[o].status =>
                                pc'[v] = "acted" /\ <<record'[o].status, job'[v].status>> \in StageMoves
        BY DEF OwnerIsOneMoveAhead
      <4>1. o # p
        BY <3>2, ChainAssumption
      <4>2. v # w /\ pc'[v] = pc[v] /\ job'[v] = job[v]
        BY <2>1 DEF Typed, TypeOK
      <4>. QED
        BY <3>1, <4>1, <4>2 DEF OwnerIsOneMoveAhead
    <3>. QED
      BY <3>3, <3>4
  <2>3. CASE claim[p].token # w
    <3>1. UNCHANGED <<record, claim>>
      BY <1>6, <2>3 DEF Update, updateClaimedChainOperation, dbVars
    <3>. QED
      BY <2>1, <3>1 DEF OwnerIsOneMoveAhead, OneClaim, active, Typed, TypeOK
  <2>. QED
    BY <2>2, <2>3
<1>7. ASSUME NEW w \in Workers, Abandon(w)
      PROVE  Owned'
  BY <1>7 DEF Abandon, OwnerIsOneMoveAhead, OneClaim, active, dbVars, Typed, TypeOK
<1>8. ASSUME NEW p \in Ops, RetryElapses(p)
      PROVE  Owned'
  BY <1>1, <1>8 DEF RetryElapses, workerVars
<1>9. CASE UNCHANGED vars
  BY <1>1, <1>9 DEF vars, dbVars, workerVars
<1>. QED
  BY <1>1, <1>2, <1>3, <1>4, <1>5, <1>6, <1>7, <1>8, <1>9, NodeTyped DEF Next, dbVars

(***************************************************************************)
(* The transaction.                                                        *)
(***************************************************************************)
\* What was broadcast is durable, because what may be broadcast is.
LEMMA TransactionStep ==
  Typed /\ Owned /\ HeldTxDurable /\ SingleTransaction /\ [Next]_vars
    => HeldTxDurable' /\ SingleTransaction'
<1>. SUFFICES ASSUME Typed, Owned, HeldTxDurable, SingleTransaction, [Next]_vars
              PROVE  HeldTxDurable' /\ SingleTransaction'
  OBVIOUS
<1>1. \A o \in Ops : record[o].tx # NoTx => record'[o].tx = record[o].tx
  BY RowMoves
<1>2. ASSUME sent' = sent
      PROVE  SingleTransaction'
  BY <1>1, <1>2, ChainAssumption DEF SingleTransaction, Typed, TypeOK, Tx
<1>3. ASSUME \A w \in Workers : pc'[w] \in {"claimed", "receipt"} => pc[w] # "idle" /\ job'[w] = job[w]
                                   /\ pc[w] \in {"claimed", "receipt"}
      PROVE  HeldTxDurable'
  <2>1. \A w \in Workers : pc[w] # "idle" => job[w].op \in Ops
    BY HeldRow DEF Job
  <2>. QED
    BY <1>1, <1>3, <2>1 DEF HeldTxDurable
<1>4. ASSUME NEW w \in Workers, Claim(w)
      PROVE  HeldTxDurable' /\ sent' = sent
  <2>1. PICK p \in Ops :
          job' = [job EXCEPT ![w] = [op |-> p, status |-> record[p].status, tx |-> record[p].tx]]
    BY <1>4 DEF Claim
  <2>2. /\ record' = record /\ sent' = sent
        /\ pc' = [pc EXCEPT ![w] = "claimed"]
    BY <1>4 DEF Claim, nodeVars
  <2>. QED
    BY <2>1, <2>2 DEF HeldTxDurable, Typed, TypeOK
<1>5. ASSUME NEW w \in Workers, Work(w)
      PROVE  HeldTxDurable' /\ SingleTransaction'
  <2>1. HeldTxDurable'
    BY <1>3, <1>5, WorkMoves
  <2>2. CASE Broadcast(w) \/ BroadcastTimesOut(w) \/ RefusesBroadcast(w)
    <3>1. sent' = sent \cup {job[w].tx} /\ pc[w] = "claimed" /\ job[w].status = "prepared"
      BY <2>2 DEF Broadcast, BroadcastTimesOut, RefusesBroadcast
    <3>2. job[w].tx \in Tx /\ job[w].tx.op = job[w].op /\ job[w].tx # NoTx
      BY <3>1, HeldRow, ChainAssumption DEF Tx
    <3>3. record[job[w].tx.op].tx = job[w].tx
      BY <3>1, <3>2 DEF HeldTxDurable
    <3>4. record' = record
      BY <1>5, WorkMoves
    <3>. QED
      BY <2>1, <3>1, <3>3, <3>4 DEF SingleTransaction
  <2>3. CASE ~ (Broadcast(w) \/ BroadcastTimesOut(w) \/ RefusesBroadcast(w))
    BY <1>2, <1>5, <2>1, <2>3
      DEF Work, Prepare, SimulationFails, BroadcastRejected, ReceiptMissing, ReceiptReverted,
          ReadReceipt, ReadHead, RpcUnavailable, RpcRefuses, nodeVars
  <2>. QED
    BY <2>2, <2>3
<1>6. ASSUME NEW w \in Workers, Update(w) \/ Abandon(w)
      PROVE  HeldTxDurable' /\ sent' = sent
  BY <1>3, <1>6 DEF Update, Abandon, nodeVars, Typed, TypeOK
<1>7. ASSUME NEW o \in Ops, enqueue(o) \/ RetryElapses(o) \/ LeaseExpires(o)
      PROVE  HeldTxDurable' /\ sent' = sent
  BY <1>3, <1>7 DEF enqueue, RetryElapses, LeaseExpires, workerVars, nodeVars
<1>8. CASE UNCHANGED <<pc, job, sent>>
  BY <1>2, <1>3, <1>8
<1>. QED
  BY <1>2, <1>4, <1>5, <1>6, <1>7, <1>8, NodeTyped DEF Next, vars, workerVars, nodeVars

\* The empty outbox.
LEMMA InitInv == Init => IndInv
BY ChainAssumption
  DEF Init, IndInv, Typed, TypeOK, HeldJob, TxOfItsRow, Owned, OwnerIsOneMoveAhead, OneClaim,
      HeldTxDurable, SingleTransaction, Row, ChainOperationStatus, Unclaimed

\* Every step keeps the invariant.
LEMMA NextInv == IndInv /\ [Next]_vars => IndInv'
BY TypedStep, OwnedStep, TransactionStep DEF IndInv

(***************************************************************************)
(* The theorems.                                                           *)
(***************************************************************************)
\* Every row keeps the columns its status needs, whatever is written to it.
THEOREM ChainTypes == Spec => []TypeOK
<1>1. IndInv => TypeOK
  BY DEF IndInv, Typed
<1>. QED
  BY InitInv, NextInv, <1>1, PTL DEF Spec

\* For each operation only the one durable transaction ever reaches the
\* network, for any number of workers, crashes, lost leases and lost answers.
THEOREM OneTransactionPerOperation == Spec => []SingleTransaction
<1>1. IndInv => SingleTransaction
  BY DEF IndInv
<1>. QED
  BY InitInv, NextInv, <1>1, PTL DEF Spec

\* Stages go forward one at a time and the stored transaction stays: a worker
\* that lost its claim writes nothing.
THEOREM DurableStagesGoForward == Spec => StagesGoForward
<1>1. IndInv /\ [Next]_vars =>
        [\A o \in Ops :
           LET old == record[o]  new == record'[o] IN
           /\ old.status # new.status => <<old.status, new.status>> \in StageMoves
           /\ old.tx # NoTx => new.tx = old.tx]_record
  BY RowMoves DEF IndInv
<1>. QED
  BY InitInv, NextInv, <1>1, PTL DEF Spec, StagesGoForward

(***************************************************************************)
(* What is confirmed was executed, where blocks are not replaced.          *)
(***************************************************************************)
\* The chain holds a successful receipt of t, at least that deep.
ExecutedAt(t, depth) == \E r \in mined : r.tx = t /\ r.ok /\ r.depth >= depth

\* What a worker read of the receipt is true of the chain: at the second await of
\* inspect, and of the confirmation it is about to store.
SeenInChain ==
  \A w \in Workers :
    /\ pc[w] = "receipt" => ExecutedAt(job[w].tx, receiptDepth[w])
    /\ pc[w] = "acted" /\ job[w].status = "confirmed" => ExecutedAt(job[w].tx, Confirmations)

ConfirmedInChain ==
  \A o \in Ops : record[o].status = "confirmed" => ExecutedAt(record[o].tx, Confirmations)

ConfirmInv == SeenInChain /\ ConfirmedInChain

\* Receipts age, and none is undone.
LEMMA ReceiptsAge ==
  ASSUME Typed, NEW t, NEW depth \in 0 .. Confirmations, ExecutedAt(t, depth),
         Aged(mined) \subseteq mined'
  PROVE  /\ ExecutedAt(t, depth)'
         /\ depth < Confirmations => ExecutedAt(t, depth + 1)'
<1>1. PICK r \in mined : r.tx = t /\ r.ok /\ r.depth >= depth
  BY DEF ExecutedAt
<1>. DEFINE s == [r EXCEPT !.depth = IF @ < Confirmations THEN @ + 1 ELSE @]
<1>2. s \in mined'
  BY DEF Aged
<1>3. r \in Receipt
  BY DEF Typed, TypeOK
<1>4. /\ s.tx = t /\ s.ok
      /\ s.depth = IF r.depth < Confirmations THEN r.depth + 1 ELSE r.depth
      /\ r.depth \in 1 .. Confirmations
  BY <1>1, <1>3 DEF Receipt
<1>. HIDE DEF s
<1>5. s.depth >= depth /\ (depth < Confirmations => s.depth >= depth + 1)
  BY <1>1, <1>4, ChainAssumption
<1>. QED
  BY <1>2, <1>4, <1>5 DEF ExecutedAt

\* A block of the node: the chain and what the workers saw of it age together.
LEMMA BlockKeepsSeen ==
  ASSUME Typed, ConfirmInv, Aged(mined) \subseteq mined', AgeSeen, UNCHANGED <<record, pc, job>>
  PROVE  ConfirmInv'
<1>. USE DEF ConfirmInv
<1>1. \A w \in Workers : /\ receiptDepth[w] \in 0 .. Confirmations
                         /\ receiptDepth'[w] = IF receiptDepth[w] \in 1 .. (Confirmations - 1)
                                               THEN receiptDepth[w] + 1 ELSE receiptDepth[w]
  BY DEF AgeSeen, Typed, TypeOK
<1>2. Confirmations \in 0 .. Confirmations
  BY ChainAssumption
<1>3. ASSUME NEW w \in Workers, pc'[w] = "receipt"
      PROVE  ExecutedAt(job[w].tx, receiptDepth[w])'
  <2>. DEFINE t == job[w].tx  depth == receiptDepth[w]
  <2>1. ExecutedAt(t, depth)
    BY <1>3 DEF SeenInChain
  <2>2. \E r \in mined' : r.tx = t /\ r.ok /\ r.depth >= receiptDepth'[w]
    <3>1. /\ \E r \in mined' : r.tx = t /\ r.ok /\ r.depth >= depth
          /\ depth < Confirmations => \E r \in mined' : r.tx = t /\ r.ok /\ r.depth >= depth + 1
      <4>. PICK d : d = depth
        OBVIOUS
      <4>1. d \in 0 .. Confirmations /\ ExecutedAt(t, d)
        BY <1>1, <2>1
      <4>. PICK u : u = t
        OBVIOUS
      <4>2. ExecutedAt(u, d)' /\ (d < Confirmations => ExecutedAt(u, d + 1)')
        BY <4>1, ReceiptsAge
      <4>. QED
        BY <4>2 DEF ExecutedAt
    <3>. QED
      BY <1>1, <3>1, ChainAssumption
  <2>. QED
    BY <2>2 DEF ExecutedAt
<1>4. ASSUME NEW t, ExecutedAt(t, Confirmations)
      PROVE  ExecutedAt(t, Confirmations)'
  BY <1>2, <1>4, ReceiptsAge
<1>5. SeenInChain'
  BY <1>3, <1>4 DEF SeenInChain
<1>6. ConfirmedInChain'
  BY <1>4 DEF ConfirmedInChain
<1>. QED
  BY <1>5, <1>6

\* The adapter calls: a receipt is read as it is, and confirmed when deep enough.
LEMMA WorkKeepsSeen ==
  ASSUME Typed, ConfirmInv, NEW w \in Workers, Work(w)
  PROVE  ConfirmInv'
<1>. USE DEF ConfirmInv
<1>1. /\ UNCHANGED record
      /\ \A v \in Workers \ {w} : pc'[v] = pc[v] /\ job'[v] = job[v]
      /\ pc'[w] # "acted" => pc'[w] = "receipt" /\ job'[w] = job[w]
  BY WorkMoves
<1>2. mined' = mined
  BY DEF Work, Prepare, SimulationFails, Broadcast, BroadcastTimesOut, BroadcastRejected,
         ReceiptMissing, ReceiptReverted, ReadReceipt, ReadHead, RpcUnavailable, RpcRefuses, RefusesBroadcast, nodeVars
<1>3. \A v \in Workers \ {w} : receiptDepth'[v] = receiptDepth[v]
  BY DEF Work, Prepare, SimulationFails, Broadcast, BroadcastTimesOut, BroadcastRejected,
         ReceiptMissing, ReceiptReverted, ReadReceipt, ReadHead, RpcUnavailable, RpcRefuses, RefusesBroadcast, Acted,
         Typed, TypeOK
<1>4. pc'[w] = "receipt" => ExecutedAt(job'[w].tx, receiptDepth'[w])
  <2>1. CASE ReadReceipt(w)
    <3>1. PICK r \in mined : r.tx = job[w].tx /\ r.ok
                             /\ receiptDepth' = [receiptDepth EXCEPT ![w] = r.depth]
      BY <2>1 DEF ReadReceipt
    <3>2. r.depth \in Nat /\ receiptDepth'[w] = r.depth
      BY <3>1 DEF Typed, TypeOK, Receipt
    <3>3. job' = job
      BY <2>1 DEF ReadReceipt
    <3>. QED
      BY <3>1, <3>2, <3>3 DEF ExecutedAt
  <2>2. CASE ~ ReadReceipt(w)
    <3>1. \A status, tx : Acted(w, status, tx) => pc'[w] = "acted"
      BY DEF Acted, Typed, TypeOK
    <3>2. pc'[w] = "acted"
      BY <2>2, <3>1 DEF Work, Prepare, SimulationFails, Broadcast, BroadcastTimesOut,
         BroadcastRejected, ReceiptMissing, ReceiptReverted, ReadHead, RpcUnavailable, RpcRefuses, RefusesBroadcast
    <3>. QED
      BY <3>2
  <2>. QED
    BY <2>1, <2>2
<1>5. pc'[w] = "acted" /\ job'[w].status = "confirmed" => ExecutedAt(job'[w].tx, Confirmations)
  <2>. SUFFICES ASSUME pc'[w] = "acted", job'[w].status = "confirmed"
                PROVE  ExecutedAt(job'[w].tx, Confirmations)
    OBVIOUS
  <2>0. /\ pc[w] = "claimed" => job[w].status \in {"queued", "prepared", "submitted"}
        /\ pc[w] = "receipt" => job[w].status = "submitted"
    BY DEF Typed, HeldJob
  <2>1. \A status, tx : Acted(w, status, tx) =>
          job'[w].status = status /\ job'[w].tx = tx
    BY DEF Acted, Typed, TypeOK
  <2>2. ReadHead(w)
    <3>1. ~ ReadReceipt(w)
      BY DEF ReadReceipt, Typed, TypeOK
    <3>2. ~ Prepare(w)
      <4>. SUFFICES ASSUME Prepare(w) PROVE FALSE
        OBVIOUS
      <4>1. PICK tx : Acted(w, "prepared", tx)
        BY DEF Prepare
      <4>2. job'[w].status = "prepared"
        BY <2>1, <4>1
      <4>. QED
        BY <4>2
    <3>5. ~ SimulationFails(w) /\ ~ RpcRefuses(w) /\ ~ RefusesBroadcast(w)
      BY <2>1 DEF SimulationFails, RpcRefuses, RefusesBroadcast
    <3>3. ~ Broadcast(w) /\ ~ BroadcastTimesOut(w) /\ ~ BroadcastRejected(w)
      BY <2>1 DEF Broadcast, BroadcastTimesOut, BroadcastRejected
    <3>4. ~ ReceiptMissing(w) /\ ~ ReceiptReverted(w) /\ ~ RpcUnavailable(w)
      BY <2>0, <2>1 DEF ReceiptMissing, ReceiptReverted, RpcUnavailable
    <3>. QED
      BY <3>1, <3>2, <3>3, <3>4, <3>5 DEF Work
  <2>3. job'[w].tx = job[w].tx /\ deepEnough(receiptDepth[w]) /\ pc[w] = "receipt"
    BY <2>1, <2>2 DEF ReadHead
  <2>4. ExecutedAt(job[w].tx, receiptDepth[w]) /\ receiptDepth[w] \in Nat
    BY <2>3 DEF SeenInChain, Typed, TypeOK
  <2>5. PICK r \in mined : r.tx = job[w].tx /\ r.ok /\ r.depth >= receiptDepth[w]
    BY <2>4 DEF ExecutedAt
  <2>6. r.depth \in Nat
    BY DEF Typed, TypeOK, Receipt
  <2>. QED
    BY <2>3, <2>4, <2>5, <2>6, ChainAssumption DEF ExecutedAt, deepEnough
<1>6. SeenInChain'
  <2>. SUFFICES ASSUME NEW v \in Workers
                PROVE  /\ pc'[v] = "receipt" => ExecutedAt(job'[v].tx, receiptDepth'[v])
                       /\ pc'[v] = "acted" /\ job'[v].status = "confirmed" =>
                            ExecutedAt(job'[v].tx, Confirmations)
    BY <1>2 DEF SeenInChain, ExecutedAt
  <2>1. CASE v = w
    BY <1>4, <1>5, <2>1
  <2>2. CASE v # w
    BY <1>1, <1>3, <2>2 DEF SeenInChain
  <2>. QED
    BY <2>1, <2>2
<1>7. ConfirmedInChain'
  BY <1>1, <1>2 DEF ConfirmedInChain, ExecutedAt
<1>. QED
  BY <1>6, <1>7

\* A row is confirmed by a worker that saw the depth.
LEMMA TurnKeepsSeen ==
  ASSUME Typed, ConfirmInv, NEW w \in Workers, Claim(w) \/ Update(w) \/ Abandon(w)
  PROVE  ConfirmInv'
<1>. USE DEF ConfirmInv
<1>1. mined' = mined
  BY DEF Claim, Update, Abandon, nodeVars
<1>2. \A v \in Workers \ {w} : /\ pc'[v] = pc[v] /\ job'[v] = job[v]
                               /\ receiptDepth'[v] = receiptDepth[v]
  BY DEF Claim, Update, Abandon, Typed, TypeOK
<1>3. pc'[w] \notin {"receipt", "acted"}
  BY DEF Claim, Update, Abandon, Typed, TypeOK
<1>4. SeenInChain'
  <2>. SUFFICES ASSUME NEW v \in Workers
                PROVE  /\ pc'[v] = "receipt" => ExecutedAt(job'[v].tx, receiptDepth'[v])
                       /\ pc'[v] = "acted" /\ job'[v].status = "confirmed" =>
                            ExecutedAt(job'[v].tx, Confirmations)
    BY <1>1 DEF SeenInChain, ExecutedAt
  <2>. QED
    BY <1>2, <1>3 DEF SeenInChain
<1>5. ConfirmedInChain'
  <2>. SUFFICES ASSUME NEW o \in Ops, record'[o].status = "confirmed"
                PROVE  ExecutedAt(record'[o].tx, Confirmations)
    BY <1>1 DEF ConfirmedInChain, ExecutedAt
  <2>1. CASE record'[o] = record[o]
    BY <2>1 DEF ConfirmedInChain
  <2>2. CASE record'[o] # record[o]
    <3>1. Update(w)
      BY <2>2 DEF Claim, Abandon, dbVars
    <3>2. pc[w] = "acted" /\ job[w].op \in Ops
      BY <3>1, HeldRow DEF Update, Job
    <3>3. record' = [record EXCEPT ![job[w].op] = [status |-> job[w].status, tx |-> job[w].tx]]
      BY <2>2, <3>1 DEF Update, updateClaimedChainOperation, dbVars
    <3>4. record'[o] = [status |-> job[w].status, tx |-> job[w].tx]
      BY <2>2, <3>2, <3>3 DEF Typed, TypeOK
    <3>. QED
      BY <3>2, <3>4 DEF SeenInChain
  <2>. QED
    BY <2>1, <2>2
<1>. QED
  BY <1>4, <1>5

\* Every step keeps what was seen and what is confirmed in the chain.
LEMMA ConfirmStep ==
  ASSUME ~ MayReorg, Typed, ConfirmInv, [Next]_vars
  PROVE  ConfirmInv'
<1>1. ASSUME UNCHANGED <<record, pc, job, receiptDepth, mined>>
      PROVE  ConfirmInv'
  BY <1>1 DEF ConfirmInv, SeenInChain, ConfirmedInChain, ExecutedAt
<1>2. ASSUME NEW o \in Ops, enqueue(o)
      PROVE  ConfirmInv'
  <2>1. /\ UNCHANGED <<pc, job, receiptDepth, mined>>
        /\ \A p \in Ops : record'[p].status = "confirmed" => record'[p] = record[p]
    BY <1>2 DEF enqueue, workerVars, nodeVars, Typed, TypeOK
  <2>. QED
    BY <2>1 DEF ConfirmInv, SeenInChain, ConfirmedInChain, ExecutedAt
<1>3. ASSUME NEW o \in Ops, RetryElapses(o) \/ LeaseExpires(o)
      PROVE  ConfirmInv'
  BY <1>1, <1>3 DEF RetryElapses, LeaseExpires, workerVars, nodeVars
<1>4. ASSUME NEW t \in sent, Arrives(t)
      PROVE  ConfirmInv'
  BY <1>1, <1>4 DEF Arrives, dbVars, workerVars
<1>5. ASSUME NEW t \in pool, Evict(t)
      PROVE  ConfirmInv'
  BY <1>1, <1>5 DEF Evict, dbVars, workerVars
<1>6. ASSUME NEW t \in pool, NEW ok \in BOOLEAN, Mine(t, ok)
      PROVE  ConfirmInv'
  BY <1>6, BlockKeepsSeen DEF Mine, dbVars
<1>7. CASE EmptyBlock
  BY <1>7, BlockKeepsSeen DEF EmptyBlock, dbVars
<1>8. CASE UNCHANGED vars
  BY <1>1, <1>8 DEF vars, dbVars, workerVars, nodeVars
<1>. QED
  BY <1>2, <1>3, <1>4, <1>5, <1>6, <1>7, <1>8, WorkKeepsSeen, TurnKeepsSeen DEF Next, Reorg

\* On a chain that replaces no block, an operation is confirmed only when its
\* transaction succeeded and is Confirmations deep, however late the head is read
\* and whatever happens to the worker.
THEOREM ConfirmedWasExecuted ==
  ASSUME ~ MayReorg
  PROVE  Spec => []ConfirmedExecuted
<1>1. Init => ConfirmInv
  BY DEF Init, ConfirmInv, SeenInChain, ConfirmedInChain
<1>2. Typed /\ ConfirmInv => ConfirmedExecuted
  <2>. SUFFICES ASSUME Typed, ConfirmInv, NEW o \in Ops, record[o].status = "confirmed"
                PROVE  \E r \in mined : r.tx = record[o].tx /\ r.ok /\ r.depth = Confirmations
    BY DEF ConfirmedExecuted
  <2>1. PICK r \in mined : r.tx = record[o].tx /\ r.ok /\ r.depth >= Confirmations
    BY DEF ConfirmInv, ConfirmedInChain, ExecutedAt
  <2>2. r.depth \in 1 .. Confirmations
    BY DEF Typed, TypeOK, Receipt
  <2>. QED
    BY <2>1, <2>2, ChainAssumption
<1>3. IndInv => Typed
  BY DEF IndInv
<1>4. IndInv /\ ConfirmInv /\ [Next]_vars => ConfirmInv'
  BY <1>3, ConfirmStep
<1>. QED
  BY <1>1, <1>2, <1>3, <1>4, InitInv, NextInv, PTL DEF Spec

(***************************************************************************)
(* The outbox is a durable write.                                          *)
(*                                                                         *)
(* A worker that has a row stored as submitted has issued its bytes, and   *)
(* the owner of a row without bytes has none either, unless it has just    *)
(* signed them; so each update of a row is one step of the durable write,  *)
(* and each call of a worker that was overtaken issues the stored bytes    *)
(* again or nothing.                                                       *)
(***************************************************************************)
\* Submitted means issued, in the rows and in the workers' copies of them, and the node
\* has nothing that was not issued.
SubmittedIsIssued ==
  /\ \A o \in Ops : record[o].status \in {"submitted", "confirmed"} => record[o].tx \in sent
  /\ \A w \in Workers : pc[w] # "idle" /\ job[w].status \in {"submitted", "confirmed"} =>
       job[w].tx \in sent

OnlyIssued == pool \subseteq sent /\ \A r \in mined : r.tx \in sent

\* New bytes come with the stage that stores them.
SignedIsPrepared ==
  \A o \in Ops, w \in Workers : claim[o].token = w /\ pc[w] # "idle" =>
    job[w].tx = record[o].tx \/ job[w].status = "prepared"

DurableInv == SubmittedIsIssued /\ OnlyIssued /\ SignedIsPrepared

\* What the end of an adapter call has issued, and what it leaves to the worker.
LEMMA WorkIssues ==
  ASSUME Typed, SubmittedIsIssued, OnlyIssued, NEW w \in Workers, Work(w)
  PROVE  /\ \/ sent' = sent
            \/ job[w].tx # NoTx /\ pc[w] = "claimed" /\ sent' = sent \cup {job[w].tx}
         /\ pool' \subseteq sent' /\ mined' = mined
         /\ job'[w].status \in {"submitted", "confirmed"} => job'[w].tx \in sent'
         /\ job'[w].tx = job[w].tx \/ job'[w].status = "prepared"
<1>1. pc[w] # "idle" /\ job[w] \in Job
  BY WorkMoves, HeldRow
<1>2. ASSUME NEW status, NEW tx, Acted(w, status, tx)
      PROVE  job'[w].status = status /\ job'[w].tx = tx
  BY <1>2 DEF Acted, Typed, TypeOK
<1>3. CASE Prepare(w)
  <2>1. PICK tx : Acted(w, "prepared", tx)
    BY <1>3 DEF Prepare
  <2>2. job'[w].status = "prepared"
    BY <1>2, <2>1
  <2>. QED
    BY <1>3, <2>2 DEF Prepare, nodeVars, OnlyIssued
<1>4. CASE SimulationFails(w) \/ ReceiptReverted(w) \/ RpcRefuses(w) \/ BroadcastRejected(w)
  <2>1. Acted(w, "failed", job[w].tx) /\ UNCHANGED nodeVars
    BY <1>4 DEF SimulationFails, ReceiptReverted, RpcRefuses, BroadcastRejected
  <2>. QED
    BY <1>2, <2>1 DEF nodeVars, OnlyIssued
<1>5. CASE Broadcast(w)
  <2>1. /\ Acted(w, "submitted", job[w].tx) /\ sent' = sent \cup {job[w].tx}
        /\ pool' = pool \cup {job[w].tx} /\ mined' = mined /\ pc[w] = "claimed"
        /\ job[w].status = "prepared"
    BY <1>5 DEF Broadcast
  <2>2. job[w].tx # NoTx
    BY <1>1, <2>1, HeldRow, ChainAssumption DEF Tx
  <2>3. job'[w].status = "submitted" /\ job'[w].tx = job[w].tx
    BY <1>2, <2>1
  <2>. QED
    BY <2>1, <2>2, <2>3 DEF OnlyIssued
<1>6. CASE BroadcastTimesOut(w) \/ RefusesBroadcast(w)
  <2>1. /\ sent' = sent \cup {job[w].tx}
        /\ pool' = pool /\ mined' = mined /\ pc[w] = "claimed" /\ job[w].status = "prepared"
    BY <1>6 DEF BroadcastTimesOut, RefusesBroadcast
  <2>2. job[w].tx # NoTx
    BY <1>1, <2>1, HeldRow, ChainAssumption DEF Tx
  <2>3. job'[w].status \in {"prepared", "failed"} /\ job'[w].tx = job[w].tx
    BY <1>2, <1>6 DEF BroadcastTimesOut, RefusesBroadcast
  <2>. QED
    BY <2>1, <2>2, <2>3 DEF OnlyIssued
<1>7. CASE ReceiptMissing(w) \/ RpcUnavailable(w)
  <2>1. Acted(w, job[w].status, job[w].tx) /\ UNCHANGED nodeVars
    BY <1>7 DEF ReceiptMissing, RpcUnavailable
  <2>2. job'[w].status = job[w].status /\ job'[w].tx = job[w].tx
    BY <1>2, <2>1
  <2>. QED
    BY <1>1, <2>1, <2>2 DEF nodeVars, OnlyIssued, SubmittedIsIssued
<1>8. CASE ReadHead(w)
  <2>1. job[w].tx \in sent
    BY <1>1, <1>8 DEF ReadHead, Typed, HeldJob, SubmittedIsIssued
  <2>2. PICK s : Acted(w, s, job[w].tx)
    BY <1>8 DEF ReadHead
  <2>3. job'[w].tx = job[w].tx
    BY <1>2, <2>2
  <2>. QED
    BY <1>8, <2>1, <2>3 DEF ReadHead, nodeVars, OnlyIssued
<1>9. CASE ReadReceipt(w)
  BY <1>1, <1>9 DEF ReadReceipt, nodeVars, OnlyIssued, SubmittedIsIssued
<1>. QED
  BY <1>3, <1>4, <1>5, <1>6, <1>7, <1>8, <1>9 DEF Work

\* Before its call is over, the owner of a row has the row's bytes.
LEMMA OwnerHasTheBytes ==
  ASSUME Typed, Owned, NEW o \in Ops, NEW w \in Workers, claim[o].token = w,
         pc[w] \in {"claimed", "receipt"}
  PROVE  job[w].tx = record[o].tx
<1>1. /\ record[o].tx # NoTx => job[w].tx = record[o].tx
      /\ job[w].status = record[o].status
  BY DEF Owned, OwnerIsOneMoveAhead
<1>2. active(o) /\ record[o] \in Row
  BY ChainAssumption DEF Owned, OneClaim, Typed, TypeOK
<1>3. record[o].tx = NoTx => record[o].status = "queued"
  BY <1>2 DEF active, Row
<1>. QED
  BY <1>1, <1>3, HeldRow DEF Row

\* The node issues nothing.
LEMMA NodeIssuesNothing ==
  ASSUME Typed, OnlyIssued,
         \/ \E t \in sent : Arrives(t)
         \/ \E t \in pool : Evict(t) \/ \E ok \in BOOLEAN : Mine(t, ok)
         \/ EmptyBlock
         \/ \E d \in 1 .. Confirmations : Reorg(d)
  PROVE  OnlyIssued'
<1>. USE DEF OnlyIssued
<1>1. \A r \in Aged(mined) : r.tx \in sent
  BY DEF Aged, Typed, TypeOK, Receipt
<1>2. ASSUME NEW t \in sent, Arrives(t)
      PROVE  OnlyIssued'
  BY <1>2 DEF Arrives
<1>3. ASSUME NEW t \in pool, Evict(t)
      PROVE  OnlyIssued'
  BY <1>3 DEF Evict
<1>4. ASSUME NEW t \in pool, NEW ok \in BOOLEAN, Mine(t, ok)
      PROVE  OnlyIssued'
  BY <1>1, <1>4 DEF Mine
<1>5. CASE EmptyBlock
  BY <1>1, <1>5 DEF EmptyBlock
<1>6. ASSUME NEW d \in 1 .. Confirmations, Reorg(d)
      PROVE  OnlyIssued'
  BY <1>6 DEF Reorg
<1>. QED
  BY <1>2, <1>3, <1>4, <1>5, <1>6

\* Every step keeps what is issued ahead of what is submitted.
LEMMA DurableInvStep ==
  ASSUME Typed, Owned, DurableInv, [Next]_vars
  PROVE  DurableInv'
<1>. USE DEF DurableInv
<1>1. ASSUME UNCHANGED <<record, pc, job, sent, pool, mined>>,
             \A o \in Ops : claim'[o].token = claim[o].token
      PROVE  DurableInv'
  BY <1>1 DEF SubmittedIsIssued, OnlyIssued, SignedIsPrepared
<1>2. ASSUME NEW p \in Ops, enqueue(p)
      PROVE  DurableInv'
  <2>1. claim[p].token = NoWorker
    BY <1>2 DEF enqueue, Owned, OneClaim, active
  <2>2. record'[p].status = "queued" /\ \A o \in Ops : o # p => record'[o] = record[o]
    BY <1>2 DEF enqueue, Typed, TypeOK
  <2>3. UNCHANGED <<claim, pc, job, sent, pool, mined>>
    BY <1>2 DEF enqueue, workerVars, nodeVars
  <2>. QED
    BY <2>1, <2>2, <2>3, ChainAssumption DEF SubmittedIsIssued, OnlyIssued, SignedIsPrepared
<1>3. ASSUME NEW p \in Ops, RetryElapses(p) \/ LeaseExpires(p)
      PROVE  DurableInv'
  BY <1>1, <1>3 DEF RetryElapses, LeaseExpires, workerVars, nodeVars, Typed, TypeOK
<1>4. ASSUME NEW w \in Workers, Claim(w)
      PROVE  DurableInv'
  <2>1. PICK p \in Ops :
          /\ claimNextChainOperation(w, p)
          /\ job' = [job EXCEPT ![w] = [op |-> p, status |-> record[p].status, tx |-> record[p].tx]]
    BY <1>4 DEF Claim
  <2>2. /\ job'[w] = [op |-> p, status |-> record[p].status, tx |-> record[p].tx]
        /\ \A v \in Workers \ {w} : job'[v] = job[v] /\ pc'[v] = pc[v]
        /\ \A o \in Ops : claim'[o].token = IF o = p THEN w ELSE NoWorker
    BY <1>4, <2>1 DEF Claim, claimNextChainOperation, Typed, TypeOK
  <2>3. UNCHANGED <<record, sent, pool, mined>>
    BY <1>4 DEF Claim, nodeVars
  <2>. QED
    BY <2>2, <2>3, ChainAssumption DEF SubmittedIsIssued, OnlyIssued, SignedIsPrepared
<1>5. ASSUME NEW w \in Workers, Work(w)
      PROVE  DurableInv'
  <2>1. /\ UNCHANGED <<record, claim>>
        /\ \A v \in Workers \ {w} : pc'[v] = pc[v] /\ job'[v] = job[v]
        /\ pc[w] \in {"claimed", "receipt"}
    BY <1>5, WorkMoves
  <2>2. /\ sent \subseteq sent' /\ pool' \subseteq sent' /\ mined' = mined
        /\ job'[w].status \in {"submitted", "confirmed"} => job'[w].tx \in sent'
        /\ job'[w].tx = job[w].tx \/ job'[w].status = "prepared"
    BY <1>5, WorkIssues
  <2>3. SubmittedIsIssued' /\ OnlyIssued'
    BY <2>1, <2>2 DEF SubmittedIsIssued, OnlyIssued
  <2>4. SignedIsPrepared'
    BY <2>1, <2>2, OwnerHasTheBytes DEF SignedIsPrepared
  <2>. QED
    BY <2>3, <2>4
<1>6. ASSUME NEW w \in Workers, Update(w)
      PROVE  DurableInv'
  <2>. DEFINE p == job[w].op
  <2>1. /\ p \in Ops /\ pc[w] # "idle"
        /\ pc' = [pc EXCEPT ![w] = "idle"] /\ job' = [job EXCEPT ![w] = NoJob]
        /\ UNCHANGED <<sent, pool, mined>>
    BY <1>6, HeldRow DEF Update, Job, nodeVars
  <2>2. CASE claim[p].token = w
    <3>1. /\ \A o \in Ops : o # p => record'[o] = record[o] /\ claim'[o] = claim[o]
          /\ record'[p] = [status |-> job[w].status, tx |-> job[w].tx]
          /\ claim'[p].token = NoWorker
      BY <1>6, <2>1, <2>2 DEF Update, updateClaimedChainOperation, Unclaimed, Typed, TypeOK
    <3>. QED
      BY <2>1, <3>1, ChainAssumption
        DEF SubmittedIsIssued, OnlyIssued, SignedIsPrepared, Typed, TypeOK
  <2>3. CASE claim[p].token # w
    <3>1. UNCHANGED <<record, claim>>
      BY <1>6, <2>3 DEF Update, updateClaimedChainOperation, dbVars
    <3>. QED
      BY <2>1, <3>1 DEF SubmittedIsIssued, OnlyIssued, SignedIsPrepared, Typed, TypeOK
  <2>. QED
    BY <2>2, <2>3
<1>7. ASSUME NEW w \in Workers, Abandon(w)
      PROVE  DurableInv'
  BY <1>7 DEF Abandon, dbVars, nodeVars, SubmittedIsIssued, OnlyIssued, SignedIsPrepared, Typed, TypeOK
<1>8. ASSUME UNCHANGED <<dbVars, pc, job, sent>>, OnlyIssued'
      PROVE  DurableInv'
  BY <1>8 DEF dbVars, SubmittedIsIssued, SignedIsPrepared
<1>9. CASE UNCHANGED vars
  BY <1>1, <1>9 DEF vars, dbVars, workerVars, nodeVars
<1>. QED
  BY <1>2, <1>3, <1>4, <1>5, <1>6, <1>7, <1>8, <1>9, NodeTyped, NodeIssuesNothing DEF Next

\* The rows as the durable write sees them.
Stages == [o \in Ops |-> record[o].status]
Bytes == [o \in Ops |-> record[o].tx]
Executed == {r.tx : r \in mined}

\* One row written.
LEMMA RowWritten ==
  ASSUME Typed, NEW o \in Ops, NEW status, NEW tx,
         record' = [record EXCEPT ![o] = [status |-> status, tx |-> tx]]
  PROVE  /\ Stages' = [Stages EXCEPT ![o] = status]
         /\ Bytes' = [Bytes EXCEPT ![o] = tx]
         /\ record[o].tx = tx => Bytes' = Bytes
BY DEF Stages, Bytes, Typed, TypeOK

\* A step of the durable write, in terms of the outbox.
LEMMA DurableStages ==
  ASSUME NEW o \in Ops, sent' = sent, Executed' = Executed, Bytes' = Bytes
  PROVE  /\ Stages[o] = "none" /\ Stages' = [Stages EXCEPT ![o] = "queued"] =>
              Durable!Accept(o)
         /\ Stages[o] = "prepared" /\ Bytes[o] \in sent /\ Stages' = [Stages EXCEPT ![o] = "submitted"] =>
              Durable!Submit(o)
         /\ Stages[o] = "submitted" /\ Stages' = [Stages EXCEPT ![o] = "confirmed"] /\ Bytes[o] \in sent =>
              Durable!Confirm(o)
         /\ Stages[o] \in {"queued", "prepared", "submitted"} /\ Stages' = [Stages EXCEPT ![o] = "failed"] =>
              Durable!Fail(o)
BY DEF Stages, Bytes, Executed, Durable!Accept, Durable!Submit, Durable!Confirm, Durable!Fail,
       Durable!Advance

\* The step that fixes the bytes.
LEMMA DurableFix ==
  ASSUME NEW o \in Ops, sent' = sent, Executed' = Executed, NEW tx,
         Stages[o] = "queued", Stages' = [Stages EXCEPT ![o] = "prepared"],
         Bytes' = [Bytes EXCEPT ![o] = tx],
         tx \notin sent, \A p \in Ops : tx # Bytes[p]
  PROVE  Durable!Fix(o)
<1>1. Bytes'[o] = tx
  BY DEF Bytes
<1>2. tx \notin sent \cup {Bytes[p] : p \in Ops}
  OBVIOUS
<1>. QED
  BY <1>1, <1>2 DEF Stages, Bytes, Executed, Durable!Fix, Durable!Advance

\* An update of a row is one step of the durable write, or leaves the row as it is.
LEMMA UpdateImplements ==
  ASSUME IndInv, DurableInv, NEW w \in Workers, Update(w)
  PROVE  [Durable!DurableNext]_(Durable!durableVars)
<1>. USE DEF IndInv
<1>. PICK o \in Ops : o = job[w].op
  BY HeldRow DEF Update, Job
<1>1. /\ pc[w] # "idle" /\ sent' = sent /\ Executed' = Executed
      /\ [status |-> job[w].status, tx |-> job[w].tx] \in Row
  BY HeldRow DEF Update, Job, nodeVars, Executed
<1>2. CASE claim[o].token # w
  <2>1. record' = record
    BY <1>2 DEF Update, updateClaimedChainOperation, dbVars
  <2>. QED
    BY <1>1, <2>1 DEF Durable!durableVars, Executed
<1>3. CASE claim[o].token = w
  <2>1. record' = [record EXCEPT ![o] = [status |-> job[w].status, tx |-> job[w].tx]]
    BY <1>3 DEF Update, updateClaimedChainOperation
  <2>2. /\ Stages' = [Stages EXCEPT ![o] = job[w].status]
        /\ Bytes' = [Bytes EXCEPT ![o] = job[w].tx]
        /\ record[o].tx = job[w].tx => Bytes' = Bytes
    BY <1>1, <2>1, RowWritten
  <2>3. /\ Stages[o] = record[o].status /\ Bytes[o] = record[o].tx
        /\ record[o] \in Row /\ active(o)
    BY <1>1, <1>3, ChainAssumption DEF Stages, Bytes, Typed, TypeOK, Owned, OneClaim
  <2>4. /\ record[o].tx # NoTx => job[w].tx = record[o].tx
        /\ job[w].status # record[o].status => <<record[o].status, job[w].status>> \in StageMoves
        /\ job[w].tx = record[o].tx \/ job[w].status = "prepared"
        /\ job[w].status \in {"submitted", "confirmed"} => job[w].tx \in sent
    BY <1>1, <1>3 DEF Owned, OwnerIsOneMoveAhead, DurableInv, SignedIsPrepared, SubmittedIsIssued
  <2>5. CASE job[w].status = record[o].status
    <3>1. job[w].tx = record[o].tx
      BY <2>3, <2>4, <2>5 DEF Row
    <3>2. Stages' = Stages /\ Bytes' = Bytes
      BY <2>2, <2>3, <2>5, <3>1 DEF Stages
    <3>. QED
      BY <1>1, <3>2 DEF Durable!durableVars, Stages, Bytes, Executed
  <2>6. CASE record[o].status = "queued" /\ job[w].status = "prepared"
    <3>1. record[o].tx = NoTx /\ job[w].tx # NoTx
      BY <1>1, <2>3, <2>6 DEF Row
    <3>2. job[w].tx.op = o
      BY <1>1, <3>1, HeldRow
    <3>3. job[w].tx \notin sent
      BY <3>1, <3>2 DEF SingleTransaction
    <3>4. \A p \in Ops : job[w].tx # Bytes[p]
      BY <3>1, <3>2 DEF Bytes, Typed, TxOfItsRow
    <3>5. Durable!Fix(o)
      BY <1>1, <2>2, <2>3, <2>6, <3>3, <3>4, DurableFix
    <3>. QED
      BY <1>1, <3>5 DEF Durable!DurableNext
  <2>7. CASE job[w].status \in {"submitted", "confirmed", "failed"} /\ job[w].status # record[o].status
    <3>1. /\ job[w].tx = record[o].tx /\ Bytes' = Bytes
          /\ <<record[o].status, job[w].status>> \in StageMoves
      BY <2>2, <2>4, <2>7
    <3>2. Durable!Submit(o) \/ Durable!Confirm(o) \/ Durable!Fail(o)
      <4>1. CASE job[w].status = "submitted"
        BY <1>1, <2>2, <2>3, <2>4, <3>1, <4>1, DurableStages DEF StageMoves
      <4>2. CASE job[w].status = "confirmed"
        BY <1>1, <2>2, <2>3, <2>4, <3>1, <4>2, DurableStages DEF StageMoves
      <4>3. CASE job[w].status = "failed"
        BY <1>1, <2>2, <2>3, <3>1, <4>3, DurableStages DEF StageMoves
      <4>. QED
        BY <2>7, <4>1, <4>2, <4>3
    <3>. QED
      BY <1>1, <3>2 DEF Durable!DurableNext
  <2>8. job[w].status # record[o].status =>
          \/ record[o].status = "queued" /\ job[w].status = "prepared"
          \/ job[w].status \in {"submitted", "confirmed", "failed"}
    BY <2>3, <2>4 DEF StageMoves, active
  <2>. QED
    BY <2>5, <2>6, <2>7, <2>8
<1>. QED
  BY <1>2, <1>3

\* A call of the adapter issues the stored bytes, or nothing.
LEMMA WorkImplements ==
  ASSUME IndInv, DurableInv, NEW w \in Workers, Work(w)
  PROVE  [Durable!DurableNext]_(Durable!durableVars)
<1>. DEFINE o == job[w].op
<1>. USE DEF IndInv
<1>1. record' = record /\ pc[w] # "idle"
  BY WorkMoves
<1>2. /\ \/ sent' = sent
         \/ job[w].tx # NoTx /\ pc[w] = "claimed" /\ sent' = sent \cup {job[w].tx}
      /\ mined' = mined
  BY WorkIssues DEF DurableInv
<1>3. CASE sent' = sent
  BY <1>1, <1>2, <1>3 DEF Durable!durableVars
<1>4. CASE job[w].tx # NoTx /\ pc[w] = "claimed" /\ sent' = sent \cup {job[w].tx}
  <2>1. o \in Ops
    BY <1>1, HeldRow DEF Job
  <2>2. record[o].tx = job[w].tx
    BY <1>4 DEF HeldTxDurable
  <2>3. Durable!Issue(o)
    BY <1>1, <1>2, <1>4, <2>1, <2>2 DEF Durable!Issue
  <2>. QED
    BY <2>1, <2>3 DEF Durable!DurableNext
<1>. QED
  BY <1>2, <1>3, <1>4

\* The node executes what was issued, or undoes it.
LEMMA NodeImplements ==
  ASSUME IndInv, DurableInv,
         \/ \E t \in sent : Arrives(t)
         \/ \E t \in pool : Evict(t) \/ \E ok \in BOOLEAN : Mine(t, ok)
         \/ EmptyBlock
         \/ \E d \in 1 .. Confirmations : Reorg(d)
  PROVE  [Durable!DurableNext]_(Durable!durableVars)
<1>1. record' = record /\ sent' = sent
  BY NodeTyped DEF IndInv, dbVars
<1>2. {r.tx : r \in Aged(mined)} = Executed
  <2>1. ASSUME NEW r \in mined PROVE \E q \in Aged(mined) : q.tx = r.tx
    <3>1. PICK q \in Aged(mined) : q = [r EXCEPT !.depth = IF @ < Confirmations THEN @ + 1 ELSE @]
      BY DEF Aged
    <3>. QED
      BY <3>1 DEF IndInv, Typed, TypeOK, Receipt
  <2>2. ASSUME NEW q \in Aged(mined) PROVE \E r \in mined : q.tx = r.tx
    <3>1. PICK r \in mined : q = [r EXCEPT !.depth = IF @ < Confirmations THEN @ + 1 ELSE @]
      BY DEF Aged
    <3>. QED
      BY <3>1 DEF IndInv, Typed, TypeOK, Receipt
  <2>. QED
    BY <2>1, <2>2 DEF Executed
<1>3. ASSUME NEW t \in pool, NEW ok \in BOOLEAN, Mine(t, ok)
      PROVE  Durable!DurableNext
  <2>1. mined' = Aged(mined) \cup {[tx |-> t, ok |-> ok, depth |-> 1]}
    BY <1>3 DEF Mine
  <2>2. Executed' = Executed \cup {t}
    <3>1. Executed' = {r.tx : r \in Aged(mined)} \cup {[tx |-> t, ok |-> ok, depth |-> 1].tx}
      BY <2>1 DEF Executed
    <3>. QED
      BY <1>2, <3>1
  <2>3. t \in sent
    BY DEF DurableInv, OnlyIssued
  <2>4. Durable!Execute(t)
    BY <1>1, <2>2, <2>3 DEF Durable!Execute, Executed
  <2>. QED
    BY <2>3, <2>4 DEF Durable!DurableNext
<1>4. ASSUME Executed' \subseteq Executed
      PROVE  Durable!DurableNext
  <2>1. Durable!Undo
    BY <1>1, <1>4 DEF Durable!Undo, Executed
  <2>. QED
    BY <2>1 DEF Durable!DurableNext
<1>5. ASSUME \/ \E t \in sent : Arrives(t)
             \/ \E t \in pool : Evict(t)
             \/ EmptyBlock
             \/ \E d \in 1 .. Confirmations : Reorg(d)
      PROVE  Executed' \subseteq Executed
  BY <1>2, <1>5 DEF Arrives, Evict, EmptyBlock, Reorg, Executed
<1>. QED
  BY <1>3, <1>4, <1>5

\* Every step of the outbox is one of the durable write, or none.
LEMMA StepImplements ==
  ASSUME IndInv, DurableInv, [Next]_vars
  PROVE  [Durable!DurableNext]_(Durable!durableVars)
<1>1. ASSUME UNCHANGED <<record, sent, mined>>
      PROVE  [Durable!DurableNext]_(Durable!durableVars)
  BY <1>1 DEF Durable!durableVars
<1>2. ASSUME NEW o \in Ops, enqueue(o)
      PROVE  Durable!DurableNext
  <2>1. /\ record' = [record EXCEPT ![o] = [status |-> "queued", tx |-> NoTx]]
        /\ record[o].status = "none" /\ sent' = sent /\ mined' = mined
    BY <1>2 DEF enqueue, nodeVars
  <2>2. record[o].tx = NoTx
    BY <2>1 DEF IndInv, Typed, TypeOK, Row
  <2>3. Stages' = [Stages EXCEPT ![o] = "queued"] /\ Bytes' = Bytes
    BY <2>1, <2>2, RowWritten DEF IndInv
  <2>4. Durable!Accept(o)
    BY <2>1, <2>3, DurableStages DEF Stages, Executed
  <2>. QED
    BY <2>4 DEF Durable!DurableNext
<1>3. ASSUME NEW o \in Ops, RetryElapses(o) \/ LeaseExpires(o)
      PROVE  UNCHANGED <<record, sent, mined>>
  BY <1>3 DEF RetryElapses, LeaseExpires, nodeVars
<1>4. ASSUME NEW w \in Workers, Claim(w) \/ Abandon(w)
      PROVE  UNCHANGED <<record, sent, mined>>
  BY <1>4 DEF Claim, Abandon, dbVars, nodeVars
<1>5. CASE UNCHANGED vars
  BY <1>1, <1>5 DEF vars, dbVars, nodeVars
<1>. QED
  BY <1>1, <1>2, <1>3, <1>4, <1>5, UpdateImplements, WorkImplements, NodeImplements DEF Next

\* Whatever workers die, lag or repeat a turn, and whatever the node drops or undoes: the
\* outbox is a durable write, whose bytes are stored before they are issued, and it issues,
\* and the chain executes, nothing else for an operation.
THEOREM OutboxIsDurable == Spec => ImplementsDurableWrites
<1>1. Init => Durable!DurableInit
  BY DEF Init, Durable!DurableInit
<1>2. Init => DurableInv
  BY ChainAssumption
    DEF Init, DurableInv, SubmittedIsIssued, OnlyIssued, SignedIsPrepared, Unclaimed
<1>3. IndInv /\ DurableInv /\ [Next]_vars => DurableInv'
  BY DurableInvStep DEF IndInv
<1>4. IndInv /\ DurableInv /\ [Next]_vars => [Durable!DurableNext]_(Durable!durableVars)
  BY StepImplements
<1>. QED
  BY InitInv, NextInv, <1>1, <1>2, <1>3, <1>4, PTL
    DEF Spec, ImplementsDurableWrites, Durable!DurableSpec
================================================================================
