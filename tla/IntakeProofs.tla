------------------------------ MODULE IntakeProofs ------------------------------
(***************************************************************************)
(* Theorems of ReceiptIntake, for any attempts, inputs, keys and bounds.   *)
(*                                                                         *)
(* Answers.  A stored response never changes, and an attempt answers only  *)
(* what it finds stored under its key: so all agree, and what is stored    *)
(* under a key has been recorded, because rows, operations and versions    *)
(* are not taken back.                                                     *)
(*                                                                         *)
(* Evidence.  The object of a row that is not old is deleted by an error   *)
(* only: a duplicate drops an object that no row names and none ever will, *)
(* as long as a receipt id comes with one deduplication key per evidence   *)
(* (EvidenceIdentifies); the retention command deletes what is old.        *)
(***************************************************************************)
EXTENDS ReceiptIntake, FiniteSetTheorems, TLAPS

(***************************************************************************)
(* The invariants.                                                         *)
(***************************************************************************)
\* What an attempt holds at each place.
Held(a) ==
  /\ pc[a] # "new" => input[a] \in Inputs
  /\ pc[a] \in {"put", "save", "drop", "enqueue", "undo"} => input[a].kind = "receipt"
  /\ pc[a] = "write" => input[a].kind # "receipt"
  /\ pc[a] \in {"drop", "enqueue", "complete", "answer"} => result[a] \in Results
  /\ pc[a] # "done" => answer[a] = NoResult

RowOf(in, res) ==
  /\ receipts[res.id] # NoRow
  /\ receipts[res.id].tenant = in.tenant /\ receipts[res.id].dedup = in.dedup

\* An entry is of the attempt that its token is of, and its response is recorded.
Entry(k) ==
  LET e == idem[k] IN
  e # NoEntry =>
    /\ pc[e.token] # "new" /\ e.hash = input[e.token] /\ e.hash.key = k
    /\ e.response # NoResult => Recorded(e.hash, e.response)

Stored(a, response) ==
  LET e == idem[input[a].key] IN
  e # NoEntry /\ e.hash = input[a] /\ e.response = response

Told(a) ==
  /\ pc[a] \in {"drop", "enqueue"} => RowOf(input[a], result[a])
  /\ pc[a] = "complete" => Recorded(input[a], result[a])
  /\ pc[a] = "answer" => Stored(a, result[a])
  /\ Succeeded(a) => Stored(a, answer[a])

\* The batch of the retention command is of old rows.
BatchIsOld ==
  \A r \in Ids : r \in purge.left \/ r = purge.at => receipts[r] # NoRow /\ receipts[r].old

AnswerInv ==
  /\ TypeOK /\ BatchIsOld
  /\ \A k \in Keys : Entry(k)
  /\ \A a \in Attempts : Held(a) /\ Told(a)

\* The last batch of the retention command has all old rows.
LastBatchIsAll ==
  purge.at \notin {"idle", "list"} /\ ~ purge.full => expired \subseteq purge.left \cup {purge.at}

\* A receipt id comes with one deduplication key per evidence.
EvidenceIdentifies ==
  \A in, jn \in Inputs :
    in.kind = "receipt" /\ jn.kind = "receipt" /\ uri(in) = uri(jn) => in.dedup = jn.dedup

RowsOfInputs ==
  /\ \A r \in Ids : receipts[r] # NoRow =>
       \E in \in Inputs : /\ in.kind = "receipt" /\ in.id = r
                          /\ receipts[r].tenant = in.tenant /\ receipts[r].dedup = in.dedup
                          /\ receipts[r].uri \in {NoUri, uri(in)}
  /\ \A r, s \in Ids :
       /\ receipts[r] # NoRow /\ receipts[s] # NoRow
       /\ receipts[r].tenant = receipts[s].tenant /\ receipts[r].dedup = receipts[s].dedup
       => r = s

\* The object of an attempt that is about to save or to drop it.
Kept(a) ==
  /\ pc[a] = "save" =>
       \/ uri(input[a]) \in objects \cup undone
       \/ accepted(input[a]) # {} \/ receipts[input[a].id] # NoRow
  /\ pc[a] = "drop" =>
       /\ accepted(input[a]) # {}
       /\ \A r \in Ids : receipts[r] # NoRow => receipts[r].uri # uri(input[a])

EvidenceInv ==
  EvidenceIdentifies /\ RowsOfInputs /\ EvidenceLossHasCause /\ \A a \in Attempts : Kept(a)

(***************************************************************************)
(* What the steps do to what they are not about.                           *)
(***************************************************************************)
LEMMA NewValues ==
  /\ \A a \in Attempts, in \in Inputs :
       /\ Claimed(a, in) \in Entries /\ Claimed(a, in).token = a /\ Claimed(a, in).hash = in
       /\ Claimed(a, in).response = NoResult
  /\ \A in \in Inputs : /\ uri(in) \in Uris /\ uri(in).receipt = in.id /\ uri(in).tenant = in.tenant
                         /\ newRow(in) \in Rows /\ in.id \in Ids /\ in.key \in Keys
  /\ Idle \in Purges /\ Idle.at = "idle"
<1>1. \A a \in Attempts, in \in Inputs :
       /\ Claimed(a, in) \in Entries /\ Claimed(a, in).token = a /\ Claimed(a, in).hash = in
       /\ Claimed(a, in).response = NoResult
  BY DEF Claimed, Entries
<1>2. \A in \in Inputs : /\ uri(in) \in Uris /\ uri(in).receipt = in.id /\ uri(in).tenant = in.tenant
                         /\ in.id \in Ids /\ in.key \in Keys
  BY WriteAssumption DEF uri, Uris, Tenants, Ids
<1>3. \A in \in Inputs : newRow(in) \in Rows
  BY <1>2 DEF newRow, Rows, Tenants
<1>4. QED BY <1>1, <1>2, <1>3 DEF Idle, Purges

\* A request claims a free key, or it is answered from the entry, or refused.
LEMMA ReceiveOutcomes ==
  ASSUME NEW a, NEW in, NEW first, Receive(a, in, first)
  PROVE  /\ pc[a] = "new" /\ input' = [input EXCEPT ![a] = in] /\ UNCHANGED <<result, faults, lapses>>
         /\ \/ /\ \/ idem[in.key] = NoEntry
                  \/ /\ idem[in.key] # NoEntry /\ idem[in.key].hash = in
                     /\ idem[in.key].response = NoResult
               /\ idem' = [idem EXCEPT ![in.key] = Claimed(a, in)]
               /\ pc' = [pc EXCEPT ![a] = first] /\ UNCHANGED answer
            \/ /\ idem[in.key] # NoEntry /\ idem[in.key].hash = in
               /\ idem[in.key].response # NoResult
               /\ UNCHANGED idem /\ pc' = [pc EXCEPT ![a] = "done"]
               /\ answer' = [answer EXCEPT ![a] = idem[in.key].response]
            \/ /\ UNCHANGED idem /\ pc' = [pc EXCEPT ![a] = "done"]
               /\ answer' = [answer EXCEPT ![a] = Problem]
<1> DEFINE e == idem[in.key]
<1>1. /\ ClaimOutcome(e, in) = "claimed" =>
           \/ e = NoEntry
           \/ e # NoEntry /\ e.hash = in /\ e.response = NoResult
      /\ ClaimOutcome(e, in) = "replay" =>
           e # NoEntry /\ e.hash = in /\ e.response # NoResult
  BY DEF ClaimOutcome
<1>2. QED BY <1>1 DEF Receive

\* The steps of an attempt keep the types and are nobody else's.
LEMMA StepTypes ==
  ASSUME TypeOK, NEW a \in Attempts, Held(a), Step(a)
  PROVE  /\ TypeOK'
         /\ pc'[a] # "new" /\ (pc[a] # "new" => input'[a] = input[a])
         /\ \A b \in Attempts \ {a} : /\ pc'[b] = pc[b] /\ input'[b] = input[b]
                                      /\ result'[b] = result[b] /\ answer'[b] = answer[b]
<1> DEFINE in == input[a]
<1> DEFINE Mine == /\ TypeOK'
                   /\ pc'[a] # "new" /\ (pc[a] # "new" => input'[a] = input[a])
                   /\ \A b \in Attempts \ {a} : /\ pc'[b] = pc[b] /\ input'[b] = input[b]
                                                /\ result'[b] = result[b] /\ answer'[b] = answer[b]
<1> USE DEF TypeOK
<1>0. /\ pc[a] # "new" => /\ in \in Inputs /\ in.key \in Keys /\ in.id \in Ids /\ uri(in) \in Uris
                          /\ newRow(in) \in Rows
      /\ MaxFaults \in Nat /\ MaxLapses \in Nat
  BY NewValues, WriteAssumption DEF Held
<1>1. ASSUME NEW jn \in Inputs, NEW first \in {"put", "write"}, Receive(a, jn, first),
             UNCHANGED <<storeVars, purgeVars>>
      PROVE  Mine
  <2>1. jn.key \in Keys /\ Claimed(a, jn) \in Entries
    BY NewValues
  <2>2. idem[jn.key] # NoEntry => idem[jn.key].response \in Results \cup {NoResult}
    BY <2>1 DEF Entries
  <2>3. UNCHANGED <<receipts, objects, undone, purge, result, faults, lapses>> /\ pc[a] = "new"
        /\ input' = [input EXCEPT ![a] = jn]
    BY <1>1, ReceiveOutcomes DEF storeVars, purgeVars
  <2>4. /\ idem' \in [Keys -> Entries \cup {NoEntry}] /\ pc' \in [Attempts -> Awaits]
        /\ answer' \in [Attempts -> Results \cup {NoResult, Problem}] /\ pc'[a] # "new"
        /\ \A b \in Attempts \ {a} : pc'[b] = pc[b] /\ answer'[b] = answer[b]
    BY <1>1, <2>1, <2>2, ReceiveOutcomes DEF Awaits
  <2>5. QED BY <2>3, <2>4
<1>2. CASE Put(a)
  BY <1>0, <1>2 DEF Put, Goes, purgeVars, Awaits
<1>3. CASE Save(a)
  <2>1. pc[a] = "save" /\ UNCHANGED <<idem, input, answer, lapses, objects, operations, stored, purgeVars>>
    BY <1>3 DEF Save
  <2>2. \A r \in Ids : /\ Result(a, "duplicate", r) \in Results
                      /\ Result(a, "sanitized", r) \in Results
    BY DEF Result, Results
  <2>3. accepted(in) \subseteq Ids
    BY DEF accepted
  <2>4. \E next \in Awaits \ {"new"} :
          \/ Goes(a, next, "undo")
          \/ pc' = [pc EXCEPT ![a] = next] /\ UNCHANGED faults
    BY <1>3 DEF Save, Awaits, afterSave
  <2>5. /\ pc' \in [Attempts -> Awaits] /\ faults' \in 0 .. MaxFaults /\ pc'[a] # "new"
        /\ \A b \in Attempts \ {a} : pc'[b] = pc[b]
    BY <1>0, <2>4 DEF Goes, Awaits
  <2>6. \/ UNCHANGED <<receipts, result>>
        \/ \E r \in Ids : UNCHANGED receipts /\ result' = [result EXCEPT ![a] = Result(a, "duplicate", r)]
        \/ /\ receipts' = [receipts EXCEPT ![in.id] = newRow(in)]
           /\ result' = [result EXCEPT ![a] = Result(a, "sanitized", in.id)]
    BY <1>3, <2>3 DEF Save
  <2>7. /\ receipts' \in [Ids -> Rows \cup {NoRow}] /\ result' \in [Attempts -> Results \cup {NoResult}]
        /\ \A b \in Attempts \ {a} : result'[b] = result[b]
    BY <1>0, <2>1, <2>2, <2>6
  <2>8. QED BY <2>1, <2>5, <2>7 DEF purgeVars
<1>4. CASE Drop(a)
  BY <1>0, <1>4 DEF Drop, afterSave, purgeVars, Awaits
<1>5. CASE Enqueue(a)
  BY <1>0, <1>5 DEF Enqueue, Goes, purgeVars, Awaits
<1>6. CASE Undo(a)
  BY <1>0, <1>6 DEF Undo, Awaits
<1>7. CASE Write(a)
  <2>1. pc[a] = "write" /\ UNCHANGED <<idem, input, answer, lapses, receipts, objects, purgeVars>>
    BY <1>7 DEF Write
  <2>2. Result(a, "accepted", in.id) \in Results
    BY <1>0, <2>1 DEF Result, Results
  <2>3. \/ UNCHANGED <<result, faults>> /\ pc' = [pc EXCEPT ![a] = "abandon"]
        \/ result' = [result EXCEPT ![a] = Result(a, "accepted", in.id)] /\ Goes(a, "complete", "abandon")
    BY <1>7 DEF Write
  <2>4. QED BY <1>0, <2>1, <2>2, <2>3 DEF Goes, purgeVars, Awaits
<1>8. ASSUME UNCHANGED <<storeVars, purgeVars>>,
             \/ Complete(a) \/ Answer(a) \/ Abandon(a)
             \/ AbandonFails(a) \/ Fails(a, onError(pc[a])) \/ Dies(a)
      PROVE  Mine
  <2>0. UNCHANGED <<receipts, objects, undone, purge>>
    BY <1>8 DEF storeVars, purgeVars
  <2>1. CASE Complete(a)
    <3>1. pc[a] = "complete" /\ UNCHANGED <<input, result, answer, lapses>>
          /\ result[a] \in Results
      BY <2>1 DEF Complete, Held
    <3>2. idem' \in [Keys -> Entries \cup {NoEntry}]
      <4>1. CASE UNCHANGED idem
        BY <4>1
      <4>2. CASE Holds(a) /\ idem' = [idem EXCEPT ![in.key].response = result[a]]
        <5>1. idem[in.key] \in Entries
          BY <1>0, <3>1, <4>2 DEF Holds
        <5>2. [idem[in.key] EXCEPT !.response = result[a]] \in Entries
          BY <3>1, <5>1 DEF Entries
        <5>3. QED BY <1>0, <3>1, <4>2, <5>2
      <4>3. QED BY <2>1, <4>1, <4>2 DEF Complete
    <3>3. /\ pc' \in [Attempts -> Awaits] /\ faults' \in 0 .. MaxFaults /\ pc'[a] # "new"
          /\ \A b \in Attempts \ {a} : pc'[b] = pc[b]
      BY <1>0, <2>1 DEF Complete, Goes, Awaits
    <3>4. QED BY <2>0, <3>1, <3>2, <3>3
  <2>2. CASE Answer(a)
    BY <2>0, <2>2 DEF Answer, Awaits
  <2>3. CASE Abandon(a) \/ AbandonFails(a)
    BY <1>0, <2>0, <2>3 DEF Abandon, AbandonFails, Awaits
  <2>4. CASE Fails(a, onError(pc[a])) \/ Dies(a)
    BY <1>0, <2>0, <2>4 DEF Fails, Dies, onError, Awaits
  <2>5. QED BY <1>8, <2>1, <2>2, <2>3, <2>4
<1>9. QED BY <1>1, <1>2, <1>3, <1>4, <1>5, <1>6, <1>7, <1>8 DEF Step

\* A row that was there is what it was; operations and versions are not taken back.
LEMMA StepGrows ==
  ASSUME TypeOK, NEW a \in Attempts, Held(a), Step(a)
  PROVE  /\ \A r \in Ids : receipts[r] # NoRow => receipts'[r] = receipts[r]
         /\ operations \subseteq operations' /\ stored \subseteq stored' /\ UNCHANGED purge
<1>1. CASE Save(a)
  <2>1. input[a].id \in Ids
    BY <1>1, NewValues DEF Save, Held
  <2>2. QED BY <1>1, <2>1 DEF Save, purgeVars, TypeOK
<1>2. CASE ~ Save(a)
  BY <1>2 DEF Step, Put, Drop, Enqueue, Undo, Write, storeVars, purgeVars
<1>3. QED BY <1>1, <1>2

\* The retention command: a row may lose its uri and get old.
LEMMA RetentionTypes ==
  ASSUME TypeOK, BatchIsOld, Retention
  PROVE  /\ TypeOK' /\ BatchIsOld'
         /\ UNCHANGED <<idem, pc, input, result, answer, operations, stored, undone>>
         /\ \A r \in Ids : receipts[r] # NoRow =>
              /\ receipts'[r] # NoRow /\ receipts'[r].tenant = receipts[r].tenant
              /\ receipts'[r].dedup = receipts[r].dedup
              /\ receipts'[r].uri \in {NoUri, receipts[r].uri}
              /\ receipts[r].old => receipts'[r].old
         /\ \A r \in Ids : receipts[r] = NoRow => receipts'[r] = NoRow
<1> DEFINE Changes ==
      /\ receipts' \in [Ids -> Rows \cup {NoRow}]
      /\ \A r \in Ids : receipts[r] # NoRow =>
           /\ receipts'[r] # NoRow /\ receipts'[r].tenant = receipts[r].tenant
           /\ receipts'[r].dedup = receipts[r].dedup
           /\ receipts'[r].uri \in {NoUri, receipts[r].uri}
           /\ receipts[r].old => receipts'[r].old
      /\ \A r \in Ids : receipts[r] = NoRow => receipts'[r] = NoRow
<1> USE DEF TypeOK
<1>0. /\ MaxFaults \in Nat /\ MaxLapses \in Nat /\ Idle \in Purges /\ expired \subseteq Ids
      /\ \A r \in Ids : r # "idle" /\ r # "list" /\ r # "delete"
      /\ purge \in Purges
  BY NewValues, WriteAssumption, ValuesAssumption DEF expired
<1>1. ASSUME NEW batch \in SUBSET expired, List(batch) PROVE purge' \in Purges /\ BatchIsOld'
  <2>1. batch \in SUBSET Ids /\ (Cardinality(batch) = Limit) \in BOOLEAN
    BY <1>0
  <2>2. purge' = [at |-> "delete", left |-> batch, full |-> Cardinality(batch) = Limit]
        /\ UNCHANGED receipts
    BY <1>1 DEF List, storeVars
  <2>3. purge' \in Purges
    BY <2>1, <2>2 DEF Purges
  <2>4. purge'.left = batch /\ purge'.at = "delete"
    BY <2>2
  <2>5. QED BY <1>0, <2>2, <2>3, <2>4 DEF BatchIsOld, expired
<1>2. ASSUME NEW r \in Ids, Delete(r) PROVE purge' \in Purges /\ BatchIsOld'
  <2>1. purge' = [purge EXCEPT !.at = r] /\ r \in purge.left /\ UNCHANGED receipts
    BY <1>2 DEF Delete
  <2>2. purge' \in Purges /\ purge'.left = purge.left /\ purge'.at = r
    BY <1>0, <2>1 DEF Purges
  <2>3. QED BY <2>1, <2>2 DEF BatchIsOld
<1>3. ASSUME NEW r \in Ids, receipts[r] # NoRow,
             \/ receipts' = [receipts EXCEPT ![r].old = TRUE]
             \/ receipts' = [receipts EXCEPT ![r].uri = NoUri]
      PROVE  Changes
  <2>1. receipts[r] \in Rows
    BY <1>3
  <2>2. PICK row \in Rows : /\ receipts' = [receipts EXCEPT ![r] = row]
                            /\ row.tenant = receipts[r].tenant /\ row.dedup = receipts[r].dedup
                            /\ row.uri \in {NoUri, receipts[r].uri} /\ (receipts[r].old => row.old)
    <3>1. CASE receipts' = [receipts EXCEPT ![r].old = TRUE]
      <4>1. [receipts[r] EXCEPT !.old = TRUE] \in Rows
        BY <2>1 DEF Rows
      <4>2. QED BY <2>1, <3>1, <4>1 DEF Rows
    <3>2. CASE receipts' = [receipts EXCEPT ![r].uri = NoUri]
      <4>1. [receipts[r] EXCEPT !.uri = NoUri] \in Rows
        BY <2>1 DEF Rows
      <4>2. QED BY <2>1, <3>2, <4>1 DEF Rows
    <3>3. QED BY <1>3, <3>1, <3>2
  <2>3. row # NoRow
    BY ValuesAssumption
  <2>4. receipts'[r] = row /\ \A s \in Ids \ {r} : receipts'[s] = receipts[s]
        /\ receipts' \in [Ids -> Rows \cup {NoRow}]
    BY <2>2
  <2>5. QED BY <1>3, <2>2, <2>3, <2>4
<1>4. ASSUME NEW r \in Ids, Mark(r) PROVE purge' \in Purges /\ BatchIsOld' /\ Changes
  <2> DEFINE left == purge.left \ {r}
  <2>1. left \in SUBSET Ids /\ purge.at = r /\ purge' = nextBatch(left)
        /\ receipts' = [receipts EXCEPT ![r].uri = NoUri] /\ receipts[r] # NoRow
    BY <1>0, <1>4 DEF Mark, BatchIsOld, Purges
  <2>2. [purge EXCEPT !.at = "delete", !.left = left] \in Purges /\ [Idle EXCEPT !.at = "list"] \in Purges
    BY <2>1, <1>0 DEF Purges
  <2>3. purge' \in Purges /\ purge'.at \in {"idle", "list", "delete"} /\ purge'.left = left
    BY <1>0, <2>1, <2>2 DEF nextBatch, Purges, Idle
  <2>4. Changes
    BY <1>3, <2>1
  <2>5. QED BY <1>0, <2>3, <2>4 DEF BatchIsOld
<1>5. ASSUME NEW r \in Ids, Ages(r) PROVE BatchIsOld' /\ Changes
  <2>1. Changes
    BY <1>3, <1>5 DEF Ages
  <2>2. UNCHANGED purge /\ purge = Idle
    BY <1>5 DEF Ages, purgeVars
  <2>3. QED BY <1>0, <2>1, <2>2 DEF BatchIsOld, Idle
<1>6. ASSUME UNCHANGED receipts PROVE Changes
  BY <1>6
<1>7. CASE NothingLeft \/ PurgeDies
  <2>1. purge' = Idle
    BY <1>7 DEF NothingLeft, PurgeDies
  <2>2. purge' \in Purges /\ BatchIsOld'
    BY <1>0, <2>1 DEF BatchIsOld, Idle
  <2>3. QED BY <1>0, <1>6, <1>7, <2>2 DEF NothingLeft, PurgeDies, writeVars, storeVars
<1>8. QED
  <2>1. UNCHANGED <<idem, pc, input, result, answer, operations, stored, undone>>
    BY DEF Retention, List, Ages, Delete, Mark, NothingLeft, PurgeDies, writeVars, storeVars, purgeVars
  <2>2. CASE \E batch \in SUBSET expired : List(batch)
    BY <1>1, <1>6, <2>1, <2>2 DEF List, writeVars, storeVars
  <2>3. CASE \E r \in Ids : Delete(r)
    BY <1>2, <1>6, <2>1, <2>3 DEF Delete, writeVars
  <2>4. CASE \E r \in Ids : Mark(r)
    BY <1>4, <2>1, <2>4 DEF Mark, writeVars
  <2>5. CASE \E r \in Ids : Ages(r)
    BY <1>5, <2>1, <2>5 DEF Ages, writeVars, purgeVars
  <2>6. QED BY <1>7, <2>2, <2>3, <2>4, <2>5 DEF Retention

(***************************************************************************)
(* Answers.                                                                *)
(***************************************************************************)
StoresGrow ==
  /\ \A r \in Ids : receipts[r] # NoRow =>
       /\ receipts'[r] # NoRow /\ receipts'[r].tenant = receipts[r].tenant
       /\ receipts'[r].dedup = receipts[r].dedup
  /\ operations \subseteq operations' /\ stored \subseteq stored'

\* What is recorded stays recorded.
LEMMA RecordedStays ==
  ASSUME StoresGrow, NEW in, NEW res \in Results
  PROVE  (RowOf(in, res) => RowOf(in, res)') /\ (Recorded(in, res) => Recorded(in, res)')
<1>1. res.id \in Ids
  BY DEF Results
<1>2. RowOf(in, res) => RowOf(in, res)'
  BY <1>1 DEF StoresGrow, RowOf
<1>3. ASSUME Recorded(in, res) PROVE Recorded(in, res)'
  <2>1. CASE in.kind = "receipt"
    BY <1>1, <1>3, <2>1 DEF StoresGrow, Recorded
  <2>2. CASE in.kind # "receipt"
    BY <1>3, <2>2 DEF StoresGrow, Recorded
  <2>3. QED BY <2>1, <2>2
<1>4. QED BY <1>2, <1>3

\* What a step of a may do to an entry: nothing, take it away, claim it, or store
\* the response.
LEMMA EntryChanges ==
  ASSUME AnswerInv, NEW a \in Attempts, Step(a), NEW k \in Keys
  PROVE  \/ idem'[k] = idem[k]
         \/ idem[k].response = NoResult /\ idem'[k] = NoEntry
         \/ /\ pc[a] = "new" /\ k = input'[a].key /\ idem'[k] = Claimed(a, input'[a])
            /\ idem[k] = NoEntry \/ idem[k].response = NoResult
            /\ UNCHANGED storeVars
         \/ /\ pc[a] = "complete" /\ k = input[a].key /\ Holds(a)
            /\ idem'[k] = [idem[k] EXCEPT !.response = result[a]] /\ UNCHANGED <<storeVars, result>>
<1>1. ASSUME NEW in \in Inputs, NEW first, Receive(a, in, first), UNCHANGED storeVars
      PROVE  \/ idem'[k] = idem[k]
             \/ /\ pc[a] = "new" /\ k = input'[a].key /\ idem'[k] = Claimed(a, input'[a])
                /\ idem[k] = NoEntry \/ idem[k].response = NoResult
  <2>1. input'[a] = in
    BY <1>1, ReceiveOutcomes DEF AnswerInv, TypeOK
  <2>2. QED BY <1>1, <2>1, ReceiveOutcomes DEF AnswerInv, TypeOK
<1>2. CASE Complete(a) /\ UNCHANGED storeVars
  BY <1>2 DEF Complete, AnswerInv, TypeOK
<1>3. CASE Abandon(a)
  BY <1>3 DEF Abandon, Holds, AnswerInv, TypeOK
<1>4. CASE UNCHANGED idem
  BY <1>4
<1>5. \/ \E in \in Inputs, first \in {"put", "write"} : Receive(a, in, first) /\ UNCHANGED storeVars
      \/ Complete(a) /\ UNCHANGED storeVars
      \/ Abandon(a)
      \/ UNCHANGED idem
  BY DEF Step, Put, Save, Drop, Enqueue, Undo, Write, Answer, AbandonFails, Fails, Dies
<1>6. QED BY <1>1, <1>2, <1>3, <1>4, <1>5

\* A step of an attempt keeps what is said of every entry; a stored response stays.
LEMMA EntriesKeep ==
  ASSUME AnswerInv, NEW a \in Attempts, Step(a), StoresGrow, NEW k \in Keys
  PROVE  /\ Entry(k)'
         /\ idem[k] # NoEntry /\ idem[k].response # NoResult => idem'[k] = idem[k]
<1> DEFINE e == idem[k]
<1>1. /\ pc'[a] # "new" /\ (pc[a] # "new" => input'[a] = input[a])
      /\ \A b \in Attempts \ {a} : pc'[b] = pc[b] /\ input'[b] = input[b]
  BY StepTypes DEF AnswerInv
<1>2. e # NoEntry => e \in Entries /\ e.token \in Attempts /\ e.hash \in Inputs
                     /\ (e.response # NoResult => e.response \in Results)
  BY DEF AnswerInv, TypeOK, Entries
<1>3. Entry(k)
  BY DEF AnswerInv
<1>4. CASE idem'[k] = e
  <2> SUFFICES ASSUME e # NoEntry PROVE Entry(k)'
    BY <1>4 DEF Entry
  <2>1. PICK x \in Entries : x = e
    BY <1>2
  <2>2. /\ pc'[x.token] # "new" /\ x.hash = input'[x.token] /\ x.hash.key = k
    BY <1>1, <1>2, <1>3, <2>1 DEF Entry
  <2>3. PICK res : res = x.response
    OBVIOUS
  <2>4. PICK in : in = x.hash
    OBVIOUS
  <2>5. res # NoResult => Recorded(in, res)'
    <3>1. ASSUME res # NoResult PROVE res \in Results /\ Recorded(in, res)
      BY <1>2, <1>3, <2>1, <2>3, <2>4, <3>1 DEF Entry
    <3>2. QED BY <3>1, RecordedStays
  <2>6. QED BY <1>4, <2>1, <2>2, <2>3, <2>4, <2>5 DEF Entry
<1>5. CASE idem'[k] = NoEntry /\ e.response = NoResult
  BY <1>5 DEF Entry
<1>6. CASE /\ pc[a] = "new" /\ k = input'[a].key /\ idem'[k] = Claimed(a, input'[a])
           /\ e = NoEntry \/ e.response = NoResult
  <2>1. /\ idem'[k].token = a /\ idem'[k].hash = input'[a] /\ idem'[k].response = NoResult
    BY <1>6 DEF Claimed
  <2>2. QED BY <1>1, <1>6, <2>1 DEF Entry
<1>7. CASE /\ pc[a] = "complete" /\ k = input[a].key /\ Holds(a)
           /\ idem'[k] = [e EXCEPT !.response = result[a]] /\ UNCHANGED <<storeVars, result>>
  <2>1. /\ e # NoEntry /\ e.token = a /\ e.response = NoResult /\ e \in Entries
        /\ e.hash = input[a] /\ input'[a] = input[a] /\ e.hash.key = k
    BY <1>1, <1>2, <1>3, <1>7 DEF Holds, Entry
  <2>2. /\ idem'[k].token = a /\ idem'[k].hash = input[a] /\ idem'[k].response = result[a]
    BY <1>7, <2>1 DEF Entries
  <2>3. PICK in : in = input[a]
    OBVIOUS
  <2>4. PICK res \in Results : res = result[a]
    BY <1>7 DEF AnswerInv, Held
  <2>5. Recorded(in, res)'
    BY <1>7, <2>3, <2>4, RecordedStays DEF AnswerInv, Told
  <2>6. QED BY <1>1, <2>1, <2>2, <2>3, <2>4, <2>5 DEF Entry
<1>8. QED BY <1>4, <1>5, <1>6, <1>7, EntryChanges

\* A stored response stays stored.
LEMMA StoredStays ==
  ASSUME AnswerInv, NEW a \in Attempts, Step(a), StoresGrow, NEW b \in Attempts,
         input'[b] = input[b], input[b] \in Inputs, NEW res, res # NoResult, Stored(b, res)
  PROVE  Stored(b, res)'
<1>1. input[b].key \in Keys
  BY WriteAssumption
<1>2. QED BY <1>1, EntriesKeep DEF Stored

\* The other attempts.
LEMMA OthersKeep ==
  ASSUME AnswerInv, NEW a \in Attempts, Step(a), StoresGrow, NEW b \in Attempts \ {a}
  PROVE  Held(b)' /\ Told(b)'
<1>1. /\ pc'[b] = pc[b] /\ input'[b] = input[b] /\ result'[b] = result[b] /\ answer'[b] = answer[b]
      /\ Held(b) /\ Told(b)
  BY StepTypes DEF AnswerInv
<1>2. Held(b)'
  BY <1>1 DEF Held
<1>3. PICK in : in = input[b]
  OBVIOUS
<1>4. PICK res : res = result[b]
  OBVIOUS
<1>5. PICK ans : ans = answer[b]
  OBVIOUS
<1>6. pc[b] \in {"drop", "enqueue"} => RowOf(in, res)'
  BY <1>1, <1>3, <1>4, RecordedStays DEF Held, Told
<1>7. pc[b] = "complete" => Recorded(in, res)'
  BY <1>1, <1>3, <1>4, RecordedStays DEF Held, Told
<1>8. pc[b] = "answer" => Stored(b, res)'
  BY <1>1, <1>4, StoredStays, ValuesAssumption DEF Held, Told
<1>9. Succeeded(b) => Stored(b, ans)'
  <2>1. Succeeded(b) => pc[b] # "new"
    BY <1>1 DEF Held, Succeeded
  <2>2. QED BY <1>1, <1>5, <2>1, StoredStays DEF Held, Told, Succeeded
<1>10. Succeeded(b)' => Succeeded(b)
  BY <1>1 DEF Succeeded
<1>11. QED BY <1>1, <1>2, <1>3, <1>4, <1>5, <1>6, <1>7, <1>8, <1>9, <1>10 DEF Told

\* The attempt that steps.
LEMMA MineReceives ==
  ASSUME AnswerInv, NEW a \in Attempts, NEW in \in Inputs,
         Receive(a, in, IF in.kind = "receipt" THEN "put" ELSE "write")
  PROVE  Held(a)' /\ Told(a)'
<1>1. /\ pc[a] = "new" /\ input'[a] = in /\ UNCHANGED result /\ answer[a] = NoResult
      /\ in.key \in Keys
  BY ReceiveOutcomes, NewValues DEF AnswerInv, TypeOK, Held
<1>2. CASE pc' = [pc EXCEPT ![a] = IF in.kind = "receipt" THEN "put" ELSE "write"] /\ UNCHANGED answer
  BY <1>1, <1>2 DEF Held, Told, Succeeded, AnswerInv, TypeOK
<1>3. CASE /\ idem[in.key] # NoEntry /\ idem[in.key].hash = in
           /\ UNCHANGED idem /\ pc' = [pc EXCEPT ![a] = "done"]
           /\ answer' = [answer EXCEPT ![a] = idem[in.key].response]
  <2>1. pc'[a] = "done" /\ answer'[a] = idem[in.key].response
    BY <1>3 DEF AnswerInv, TypeOK
  <2>2. Stored(a, answer[a])'
    BY <1>1, <1>3, <2>1 DEF Stored
  <2>3. QED BY <1>1, <2>1, <2>2 DEF Held, Told
<1>4. CASE pc' = [pc EXCEPT ![a] = "done"] /\ answer' = [answer EXCEPT ![a] = Problem]
  BY <1>1, <1>4 DEF Held, Told, Succeeded, AnswerInv, TypeOK
<1>5. QED BY <1>2, <1>3, <1>4, ReceiveOutcomes

\* Save keeps what is said of the attempt that takes it.
LEMMA MineSaves ==
  ASSUME AnswerInv, NEW a \in Attempts, Save(a)
  PROVE  Held(a)' /\ Told(a)'
<1> DEFINE in == input[a]
<1>1. /\ pc[a] = "save" /\ UNCHANGED <<input, answer, operations, stored>> /\ answer[a] = NoResult
      /\ in \in Inputs /\ in.kind = "receipt" /\ in.id \in Ids /\ newRow(in) \in Rows
  BY NewValues DEF Save, AnswerInv, Held
<1>2. CASE pc'[a] = "undo"
  BY <1>1, <1>2 DEF Held, Told, Succeeded
<1>3. CASE pc'[a] # "undo"
  <2>1. PICK r \in Ids, res \in Results :
          /\ res.id = r /\ result'[a] = res
          /\ receipts'[r] # NoRow /\ receipts'[r].tenant = in.tenant /\ receipts'[r].dedup = in.dedup
          /\ pc'[a] = "drop" \/ pc'[a] = afterSave(in)
    <3>1. CASE \E r \in accepted(in) :
                 /\ result' = [result EXCEPT ![a] = Result(a, "duplicate", r)]
                 /\ Goes(a, IF receipts[r].uri # uri(in) THEN "drop" ELSE afterSave(in), "undo")
                 /\ UNCHANGED receipts
      <4>1. PICK r \in accepted(in) :
                 /\ result' = [result EXCEPT ![a] = Result(a, "duplicate", r)]
                 /\ Goes(a, IF receipts[r].uri # uri(in) THEN "drop" ELSE afterSave(in), "undo")
                 /\ UNCHANGED receipts
        BY <3>1
      <4>2. r \in Ids /\ Result(a, "duplicate", r) \in Results /\ Result(a, "duplicate", r).id = r
            /\ receipts[r] # NoRow /\ receipts[r].tenant = in.tenant /\ receipts[r].dedup = in.dedup
        BY DEF accepted, Result, Results
      <4>3. result'[a] = Result(a, "duplicate", r)
        BY <4>1 DEF AnswerInv, TypeOK
      <4>4. pc'[a] = "drop" \/ pc'[a] = afterSave(in)
        BY <1>3, <4>1 DEF Goes, AnswerInv, TypeOK
      <4>5. QED BY <4>1, <4>2, <4>3, <4>4
    <3>2. CASE /\ receipts' = [receipts EXCEPT ![in.id] = newRow(in)]
               /\ result' = [result EXCEPT ![a] = Result(a, "sanitized", in.id)]
               /\ Goes(a, afterSave(in), "undo")
      <4>1. Result(a, "sanitized", in.id) \in Results /\ Result(a, "sanitized", in.id).id = in.id
        BY <1>1 DEF Result, Results
      <4>2. /\ receipts'[in.id] = newRow(in) /\ newRow(in) # NoRow
            /\ newRow(in).tenant = in.tenant /\ newRow(in).dedup = in.dedup
        BY <1>1, <3>2, ValuesAssumption DEF AnswerInv, TypeOK, newRow
      <4>3. pc'[a] = afterSave(in) /\ result'[a] = Result(a, "sanitized", in.id)
        BY <1>3, <3>2 DEF Goes, AnswerInv, TypeOK
      <4>4. QED BY <1>1, <4>1, <4>2, <4>3
    <3>3. CASE pc' = [pc EXCEPT ![a] = "undo"]
      BY <1>3, <3>3 DEF AnswerInv, TypeOK
    <3>4. QED BY <3>1, <3>2, <3>3 DEF Save
  <2>2. RowOf(in, res)'
    BY <1>1, <2>1 DEF RowOf
  <2>3. pc'[a] = "complete" => Recorded(in, res)'
    BY <1>1, <2>1 DEF Recorded, afterSave
  <2>4. pc'[a] \in {"drop", "enqueue", "complete"}
    BY <2>1 DEF afterSave
  <2>5. QED BY <1>1, <2>1, <2>2, <2>3, <2>4 DEF Held, Told, Succeeded
<1>4. QED BY <1>2, <1>3

\* Write keeps what is said of the attempt that takes it.
LEMMA MineWrites ==
  ASSUME AnswerInv, NEW a \in Attempts, Write(a)
  PROVE  Held(a)' /\ Told(a)'
<1> DEFINE in == input[a]
<1>1. /\ pc[a] = "write" /\ UNCHANGED <<input, answer>> /\ answer[a] = NoResult
      /\ in \in Inputs /\ in.kind # "receipt" /\ in.id \in Ids
  BY NewValues DEF Write, AnswerInv, Held
<1>2. CASE pc'[a] = "abandon"
  BY <1>1, <1>2 DEF Held, Told, Succeeded
<1>3. CASE pc'[a] # "abandon"
  <2>1. /\ result' = [result EXCEPT ![a] = Result(a, "accepted", in.id)]
        /\ IF in.kind = "quarantine"
             THEN operations' = operations \cup {writes(a)}
             ELSE stored' = stored \cup {writes(a)}
        /\ pc'[a] = "complete"
    BY <1>3 DEF Write, Goes, AnswerInv, TypeOK
  <2>2. PICK res \in Results : res = Result(a, "accepted", in.id)
    BY <1>1 DEF Result, Results
  <2>3. result'[a] = res /\ res.request = a
    BY <2>1, <2>2 DEF AnswerInv, TypeOK, Result
  <2>4. PICK w : w = writes(a)
    OBVIOUS
  <2>5. Recorded(in, res)'
    <3>1. CASE in.kind = "quarantine"
      BY <1>1, <2>1, <3>1 DEF Recorded, writes
    <3>2. CASE in.kind = "replay"
      BY <1>1, <2>1, <2>3, <3>2 DEF Recorded, writes
    <3>3. CASE in.kind \notin {"quarantine", "replay"}
      BY <1>1, <2>1, <3>3 DEF Recorded, writes
    <3>4. QED BY <3>1, <3>2, <3>3
  <2>6. QED BY <1>1, <2>1, <2>3, <2>5 DEF Held, Told, Succeeded
<1>4. QED BY <1>2, <1>3

\* Enqueue keeps what is said of the attempt that takes it.
LEMMA MineEnqueues ==
  ASSUME AnswerInv, NEW a \in Attempts, Enqueue(a)
  PROVE  Held(a)' /\ Told(a)'
<1> DEFINE in == input[a]
<1>1. /\ pc[a] = "enqueue" /\ UNCHANGED <<input, answer, result, receipts>> /\ answer[a] = NoResult
      /\ in \in Inputs /\ in.kind = "receipt" /\ result[a] \in Results /\ RowOf(in, result[a])
      /\ operations' = operations \cup {<<"receipt", result[a].id>>}
      /\ pc'[a] \in {"complete", "undo"}
  BY DEF Enqueue, Goes, AnswerInv, TypeOK, Held, Told
<1>2. PICK res \in Results : res = result[a]
  BY <1>1
<1>3. Recorded(in, res)'
  BY <1>1, <1>2 DEF Recorded, RowOf
<1>4. QED BY <1>1, <1>2, <1>3 DEF Held, Told, Succeeded

\* Complete keeps what is said of the attempt that takes it.
LEMMA MineCompletes ==
  ASSUME AnswerInv, NEW a \in Attempts, Complete(a)
  PROVE  Held(a)' /\ Told(a)'
<1> DEFINE in == input[a]
<1>1. /\ pc[a] = "complete" /\ UNCHANGED <<input, answer, result>> /\ answer[a] = NoResult
      /\ in \in Inputs /\ in.key \in Keys /\ result[a] \in Results
      /\ pc'[a] \in {"answer", "abandon"}
  BY NewValues DEF Complete, Goes, AnswerInv, TypeOK, Held
<1>2. ASSUME pc'[a] = "answer" PROVE Stored(a, result[a])'
  <2>1. Holds(a) /\ idem' = [idem EXCEPT ![in.key].response = result[a]]
    BY <1>1, <1>2 DEF Complete, Goes, AnswerInv, TypeOK
  <2>2. /\ idem[in.key] \in Entries /\ idem[in.key].hash = in
    BY <1>1, <2>1 DEF Holds, AnswerInv, TypeOK, Entry
  <2>3. [idem[in.key] EXCEPT !.response = result[a]] \in Entries
    BY <1>1, <2>2 DEF Entries
  <2>4. idem'[in.key] # NoEntry
    BY <1>1, <2>1, <2>2, <2>3, ValuesAssumption DEF AnswerInv, TypeOK
  <2>5. idem'[in.key].hash = in /\ idem'[in.key].response = result[a]
    BY <1>1, <2>1, <2>2 DEF AnswerInv, TypeOK, Entries
  <2>6. QED BY <1>1, <2>4, <2>5 DEF Stored
<1>3. QED BY <1>1, <1>2 DEF Held, Told, Succeeded

\* Any step of an attempt keeps what is said of it.
LEMMA MineKeeps ==
  ASSUME AnswerInv, NEW a \in Attempts, Step(a)
  PROVE  Held(a)' /\ Told(a)'
<1> USE DEF AnswerInv, TypeOK
<1>1. CASE Put(a)
  BY <1>1 DEF Put, Goes, Held, Told, Succeeded
<1>2. CASE Drop(a)
  <2>1. /\ pc[a] = "drop" /\ UNCHANGED <<input, result, answer, receipts, operations, stored>>
        /\ pc'[a] = afterSave(input[a]) /\ answer[a] = NoResult
        /\ input[a] \in Inputs /\ input[a].kind = "receipt" /\ result[a] \in Results
        /\ RowOf(input[a], result[a])
    BY <1>2 DEF Drop, Held, Told
  <2>2. PICK in : in = input[a]
    OBVIOUS
  <2>3. PICK res \in Results : res = result[a]
    BY <2>1
  <2>4. RowOf(in, res)' /\ (pc'[a] = "complete" => Recorded(in, res)')
    BY <2>1, <2>2, <2>3 DEF RowOf, Recorded, afterSave
  <2>5. QED BY <2>1, <2>2, <2>3, <2>4 DEF Held, Told, Succeeded, afterSave
<1>3. CASE Undo(a)
  BY <1>3 DEF Undo, Held, Told, Succeeded
<1>4. CASE Answer(a)
  <2>1. /\ pc[a] = "answer" /\ pc'[a] = "done" /\ UNCHANGED <<idem, input, result>>
        /\ answer'[a] = result[a] /\ input[a] \in Inputs /\ Stored(a, result[a])
    BY <1>4 DEF Answer, Held, Told
  <2>2. Stored(a, answer[a])'
    BY <2>1 DEF Stored
  <2>3. QED BY <2>1, <2>2 DEF Held, Told
<1>5. CASE Abandon(a) \/ AbandonFails(a)
  BY <1>5 DEF Abandon, AbandonFails, Held, Told, Succeeded
<1>6. CASE Fails(a, onError(pc[a])) \/ Dies(a)
  <2>1. /\ pc[a] \notin {"new", "done"} /\ pc'[a] \in {"undo", "abandon", "done"}
        /\ UNCHANGED <<input, result, answer>>
        /\ pc'[a] = "undo" => pc[a] \in {"save", "drop", "enqueue"}
    BY <1>6 DEF Fails, Dies, onError
  <2>2. QED BY <2>1 DEF Held, Told, Succeeded
<1>7. QED BY <1>1, <1>2, <1>3, <1>4, <1>5, <1>6, MineReceives, MineSaves, MineWrites,
             MineEnqueues, MineCompletes DEF Step

\* A step of an attempt keeps what is said of all entries and attempts.
LEMMA StepKeepsAnswers ==
  ASSUME AnswerInv, NEW a \in Attempts, Step(a)
  PROVE  AnswerInv'
<1>1. TypeOK' /\ UNCHANGED purge /\ \A r \in Ids : receipts[r] # NoRow => receipts'[r] = receipts[r]
  BY StepTypes, StepGrows DEF AnswerInv
<1>2. StoresGrow
  BY StepGrows DEF AnswerInv, StoresGrow
<1>3. BatchIsOld'
  BY <1>1 DEF AnswerInv, BatchIsOld
<1>4. \A k \in Keys : Entry(k)'
  BY <1>2, EntriesKeep
<1>5. \A b \in Attempts : Held(b)' /\ Told(b)'
  BY <1>2, OthersKeep, MineKeeps
<1>6. QED BY <1>1, <1>3, <1>4, <1>5 DEF AnswerInv

\* The end of a claim, and the retention command.
LEMMA RestKeepsAnswers ==
  ASSUME AnswerInv, StoresGrow, TypeOK', BatchIsOld', UNCHANGED <<pc, input, result, answer>>,
         \A k \in Keys :
           \/ idem'[k] = idem[k]
           \/ /\ idem[k] # NoEntry /\ idem'[k] # NoEntry
              /\ idem[k].response = NoResult /\ idem'[k].response = NoResult
              /\ idem'[k].token = idem[k].token /\ idem'[k].hash = idem[k].hash
  PROVE  AnswerInv'
<1>1. ASSUME NEW k \in Keys PROVE Entry(k)'
  <2>1. Entry(k) /\ (idem[k] # NoEntry => idem[k] \in Entries)
    BY DEF AnswerInv, TypeOK
  <2>2. CASE idem'[k] = idem[k] /\ idem[k] # NoEntry
    <3>1. PICK e \in Entries : e = idem[k]
      BY <2>1, <2>2
    <3>2. PICK in : in = e.hash
      OBVIOUS
    <3>3. PICK res : res = e.response
      OBVIOUS
    <3>4. res # NoResult => res \in Results /\ Recorded(in, res)
      BY <2>1, <2>2, <3>1, <3>2, <3>3 DEF Entry, Entries
    <3>5. res # NoResult => Recorded(in, res)'
      BY <3>4, RecordedStays
    <3>6. QED BY <2>1, <2>2, <3>1, <3>2, <3>3, <3>5 DEF Entry
  <2>3. CASE /\ idem[k] # NoEntry /\ idem'[k] # NoEntry
             /\ idem[k].response = NoResult /\ idem'[k].response = NoResult
             /\ idem'[k].token = idem[k].token /\ idem'[k].hash = idem[k].hash
    BY <2>1, <2>3 DEF Entry
  <2>4. CASE idem'[k] = NoEntry
    BY <2>4 DEF Entry
  <2>5. QED BY <2>2, <2>3, <2>4
<1>2. ASSUME NEW b \in Attempts PROVE Held(b)' /\ Told(b)'
  <2>1. Held(b) /\ Told(b)
    BY DEF AnswerInv
  <2>2. Held(b)'
    BY <2>1 DEF Held
  <2>3. PICK in : in = input[b]
    OBVIOUS
  <2>4. PICK res : res = result[b]
    OBVIOUS
  <2>5. PICK ans : ans = answer[b]
    OBVIOUS
  <2>6. /\ pc[b] \in {"drop", "enqueue"} => RowOf(in, res)'
        /\ pc[b] = "complete" => Recorded(in, res)'
    BY <2>1, <2>3, <2>4, RecordedStays DEF Held, Told
  <2>7. pc[b] # "new" => input[b].key \in Keys
    BY <2>1, WriteAssumption DEF Held
  <2>8. pc[b] = "answer" => Stored(b, res)'
    BY <2>1, <2>4, <2>7, ValuesAssumption DEF Held, Told, Stored
  <2>9. Succeeded(b) => Stored(b, ans)'
    BY <2>1, <2>5, <2>7 DEF Held, Told, Stored, Succeeded
  <2>10. QED BY <2>1, <2>2, <2>3, <2>4, <2>5, <2>6, <2>8, <2>9 DEF Told, Succeeded
<1>3. QED BY <1>1, <1>2 DEF AnswerInv

\* A claim that runs out takes nothing from what was answered.
LEMMA LeaseKeepsAnswers ==
  ASSUME AnswerInv, NEW k \in Keys, LeaseEnds(k), UNCHANGED <<storeVars, purgeVars>>
  PROVE  AnswerInv'
<1>1. /\ UNCHANGED <<pc, input, result, answer, faults, receipts, objects, operations, stored, purge, undone>>
  BY DEF LeaseEnds, storeVars, purgeVars
<1>2. /\ idem[k] \in Entries /\ idem[k].response = NoResult /\ lapses' \in 0 .. MaxLapses
      /\ idem' = [idem EXCEPT ![k].expired = TRUE]
  BY WriteAssumption DEF LeaseEnds, AnswerInv, TypeOK
<1>3. PICK e \in Entries : e = [idem[k] EXCEPT !.expired = TRUE]
  BY <1>2 DEF Entries
<1>4. idem' = [idem EXCEPT ![k] = e]
  BY <1>2, <1>3 DEF AnswerInv, TypeOK
<1>5. /\ e.token = idem[k].token /\ e.hash = idem[k].hash /\ e.response = NoResult
      /\ e # NoEntry /\ idem[k] # NoEntry
  BY <1>2, <1>3, ValuesAssumption DEF Entries
<1>6. /\ idem' \in [Keys -> Entries \cup {NoEntry}]
      /\ idem'[k] = e /\ \A j \in Keys \ {k} : idem'[j] = idem[j]
  BY <1>4 DEF AnswerInv, TypeOK
<1>7. TypeOK' /\ StoresGrow /\ BatchIsOld'
  BY <1>1, <1>2, <1>6 DEF AnswerInv, TypeOK, StoresGrow, BatchIsOld
<1>8. QED BY <1>1, <1>2, <1>5, <1>6, <1>7, RestKeepsAnswers

\* The retention command takes evidence, and no row.
LEMMA RetentionKeepsAnswers ==
  ASSUME AnswerInv, Retention
  PROVE  AnswerInv'
<1>1. /\ TypeOK' /\ BatchIsOld' /\ UNCHANGED <<idem, pc, input, result, answer>> /\ StoresGrow
  BY RetentionTypes DEF AnswerInv, StoresGrow
<1>2. QED BY <1>1, RestKeepsAnswers

\* At the start nothing is claimed and nothing answered.
LEMMA InitAnswers == Init => AnswerInv
<1> SUFFICES ASSUME Init PROVE AnswerInv
  OBVIOUS
<1>1. TypeOK
  BY NewValues, WriteAssumption DEF Init, WritesInit, TypeOK, Awaits
<1>2. BatchIsOld
  BY ValuesAssumption DEF Init, BatchIsOld, Idle
<1>3. \A k \in Keys : Entry(k)
  BY DEF Init, WritesInit, Entry
<1>4. \A a \in Attempts : Held(a) /\ Told(a)
  BY DEF Init, WritesInit, Held, Told, Succeeded
<1>5. QED BY <1>1, <1>2, <1>3, <1>4 DEF AnswerInv

\* Every step keeps the invariant of the answers.
LEMMA NextKeepsAnswers == AnswerInv /\ [Next]_vars => AnswerInv'
<1> SUFFICES ASSUME AnswerInv, [Next]_vars PROVE AnswerInv'
  OBVIOUS
<1>1. CASE UNCHANGED vars
  <2>1. UNCHANGED <<idem, pc, input, result, answer, faults, lapses, receipts, objects, operations,
                   stored, purge, undone>>
    BY <1>1 DEF vars, writeVars, storeVars, purgeVars
  <2>2. TypeOK' /\ StoresGrow /\ BatchIsOld'
    BY <2>1 DEF AnswerInv, TypeOK, StoresGrow, BatchIsOld
  <2>3. QED BY <2>1, <2>2, RestKeepsAnswers
<1>2. QED BY <1>1, StepKeepsAnswers, LeaseKeepsAnswers, RetentionKeepsAnswers DEF Next

\* The stores, the requests and the retention command keep to their types.
THEOREM IntakeTypes == Spec => []TypeOK
<1>1. AnswerInv => TypeOK
  BY DEF AnswerInv
<1>2. QED BY <1>1, InitAnswers, NextKeepsAnswers, PTL DEF Spec

\* Every success answered under a key is the same response: each is the response
\* stored under the key, and that never changes (http.ts 349-365).
THEOREM OneAnswer == Spec => []AnswersAgree
<1>1. AnswerInv => AnswersAgree
  BY DEF AnswerInv, AnswersAgree, Told, Stored
<1>2. QED BY <1>1, InitAnswers, NextKeepsAnswers, PTL DEF Spec

\* What a client was told has happened is in the database, whatever was retried,
\* raced or cut short (service.ts 146-162, http.ts 349-368).
THEOREM AnswersAreRecorded == Spec => []AckedIsStored
<1>1. ASSUME AnswerInv, NEW a \in Attempts, Succeeded(a) PROVE Recorded(input[a], answer[a])
  <2>1. Stored(a, answer[a]) /\ input[a] \in Inputs /\ answer[a] # NoResult
    BY <1>1 DEF AnswerInv, Told, Held, Succeeded
  <2>2. Entry(input[a].key)
    BY <1>1, <2>1, WriteAssumption DEF AnswerInv
  <2>3. QED BY <2>1, <2>2 DEF Stored, Entry
<1>2. AnswerInv => AckedIsStored
  BY <1>1 DEF AckedIsStored
<1>3. QED BY <1>2, InitAnswers, NextKeepsAnswers, PTL DEF Spec

(***************************************************************************)
(* The retention command.                                                  *)
(***************************************************************************)
LEMMA InitBatches == Init => LastBatchIsAll
  BY DEF Init, LastBatchIsAll, Idle

\* A batch that is not full is all there is.
LEMMA ListsAll ==
  ASSUME NEW batch \in SUBSET expired, lists(batch), Cardinality(batch) # Limit
  PROVE  batch = expired
<1>1. expired \subseteq Ids
  BY DEF expired
<1>2. IsFiniteSet(expired)
  BY <1>1, ValuesAssumption, FS_Subset
<1>3. Cardinality(batch) = Cardinality(expired)
  BY DEF lists
<1>4. QED BY <1>2, <1>3, FS_Subset

\* Every step keeps it true of the last batch; a run that ends has left nothing behind.
LEMMA NextKeepsBatches ==
  AnswerInv /\ LastBatchIsAll /\ [Next]_vars
    => /\ LastBatchIsAll'
       /\ purge # Idle /\ purge' = Idle /\ faults' = faults => expired' = {}
<1> SUFFICES ASSUME AnswerInv, LastBatchIsAll, [Next]_vars
             PROVE  /\ LastBatchIsAll'
                    /\ purge # Idle /\ purge' = Idle /\ faults' = faults => expired' = {}
  OBVIOUS
<1>0. /\ \A r \in Ids : r # "idle" /\ r # "list" /\ r # "delete"
      /\ expired \subseteq Ids /\ Idle.at = "idle" /\ purge \in Purges
  BY NewValues, ValuesAssumption DEF expired, AnswerInv, TypeOK
<1>1. ASSUME UNCHANGED purge, expired' \subseteq expired PROVE LastBatchIsAll'
  BY <1>1 DEF LastBatchIsAll
<1>2. ASSUME NEW a \in Attempts, Step(a) PROVE UNCHANGED purge /\ expired' \subseteq expired
  <2>1. /\ \A r \in Ids : receipts[r] # NoRow => receipts'[r] = receipts[r]
        /\ UNCHANGED purge /\ Held(a)
    BY <1>2, StepGrows DEF AnswerInv
  <2>2. ASSUME NEW r \in Ids, receipts[r] = NoRow, receipts'[r] # NoRow PROVE ~ receipts'[r].old
    <3>1. CASE Save(a)
      <4>1. input[a].id \in Ids
        BY <2>1, <3>1, NewValues DEF Save, Held
      <4>2. QED BY <2>2, <3>1, <4>1 DEF Save, newRow, AnswerInv, TypeOK
    <3>2. CASE ~ Save(a)
      BY <1>2, <2>2, <3>2 DEF Step, Put, Drop, Enqueue, Undo, Write, storeVars
    <3>3. QED BY <3>1, <3>2
  <2>3. QED BY <2>1, <2>2 DEF expired
<1>3. ASSUME NEW k \in Keys, LeaseEnds(k), UNCHANGED <<storeVars, purgeVars>>
      PROVE  UNCHANGED <<purge, receipts>>
  BY <1>3 DEF storeVars, purgeVars
<1>4. ASSUME NEW batch \in SUBSET expired, List(batch) PROVE LastBatchIsAll' /\ purge' # Idle
  <2>1. /\ purge' = [at |-> "delete", left |-> batch, full |-> Cardinality(batch) = Limit]
        /\ UNCHANGED receipts /\ lists(batch)
    BY <1>4 DEF List, storeVars
  <2>2. purge'.at = "delete" /\ purge'.left = batch /\ (~ purge'.full => batch = expired)
    BY <2>1, ListsAll
  <2>3. expired' = expired
    BY <2>1 DEF expired
  <2>4. QED BY <1>0, <2>2, <2>3 DEF LastBatchIsAll
<1>5. ASSUME NEW r \in Ids, Delete(r) PROVE LastBatchIsAll' /\ purge' # Idle
  <2>1. /\ purge.at = "delete" /\ purge'.at = r /\ purge'.left = purge.left
        /\ purge'.full = purge.full /\ UNCHANGED receipts
    BY <1>0, <1>5 DEF Delete, Purges
  <2>2. expired' = expired
    BY <2>1 DEF expired
  <2>3. QED BY <1>0, <2>1, <2>2 DEF LastBatchIsAll
<1>6. ASSUME NEW r \in Ids, Mark(r)
      PROVE  LastBatchIsAll' /\ (purge' = Idle => expired' = {})
  <2> DEFINE left == purge.left \ {r}
  <2>1. /\ purge.at = r /\ purge' = nextBatch(left) /\ receipts' = [receipts EXCEPT ![r].uri = NoUri]
        /\ receipts[r] \in Rows
    BY <1>0, <1>6 DEF Mark, AnswerInv, BatchIsOld, TypeOK
  <2>2. expired' \subseteq expired \ {r}
    <3>1. receipts'[r].uri = NoUri /\ \A s \in Ids \ {r} : receipts'[s] = receipts[s]
      BY <2>1 DEF Rows, AnswerInv, TypeOK
    <3>2. QED BY <3>1 DEF expired
  <2>3. ~ purge.full => expired' \subseteq left
    BY <1>0, <2>1, <2>2 DEF LastBatchIsAll
  <2>4. CASE left # {}
    <3>1. purge'.at = "delete" /\ purge'.left = left /\ purge'.full = purge.full
      BY <1>0, <2>1, <2>4 DEF nextBatch, Purges
    <3>2. QED BY <1>0, <2>3, <3>1 DEF LastBatchIsAll
  <2>5. CASE left = {} /\ purge.full
    <3>1. purge'.at = "list"
      BY <2>1, <2>5 DEF nextBatch, Idle
    <3>2. QED BY <1>0, <3>1 DEF LastBatchIsAll
  <2>6. CASE left = {} /\ ~ purge.full
    <3>1. purge' = Idle
      BY <2>1, <2>6 DEF nextBatch
    <3>2. QED BY <1>0, <2>3, <2>6, <3>1 DEF LastBatchIsAll
  <2>7. QED BY <2>4, <2>5, <2>6
<1>7. ASSUME NEW r \in Ids, Ages(r) PROVE LastBatchIsAll' /\ purge = Idle
  BY <1>0, <1>7 DEF Ages, purgeVars, LastBatchIsAll
<1>8. CASE NothingLeft
  <2>1. expired = {} /\ UNCHANGED receipts /\ purge' = Idle
    BY <1>8 DEF NothingLeft, storeVars
  <2>2. expired' = {}
    BY <2>1 DEF expired
  <2>3. QED BY <1>0, <2>1, <2>2 DEF LastBatchIsAll
<1>9. CASE PurgeDies
  <2>1. purge' = Idle /\ faults' # faults
    BY <1>9, WriteAssumption DEF PurgeDies, AnswerInv, TypeOK
  <2>2. QED BY <1>0, <2>1 DEF LastBatchIsAll
<1>10. CASE UNCHANGED vars
  BY <1>10 DEF vars, storeVars, purgeVars, LastBatchIsAll, expired
<1>11. ASSUME UNCHANGED <<purge, receipts>> PROVE LastBatchIsAll'
  BY <1>11 DEF LastBatchIsAll, expired
<1>12. QED BY <1>1, <1>2, <1>3, <1>4, <1>5, <1>6, <1>7, <1>8, <1>9, <1>10, <1>11 DEF Next, Retention

\* A run of the retention command that ends by itself leaves no evidence older than
\* its cutoff, however many batches that takes (retention.ts 28-33): a batch that is
\* not full was all there was, and nothing gets older than the cutoff while it runs.
THEOREM PurgesAreComplete == Spec => PurgeComplete
<1>1. Init => AnswerInv /\ LastBatchIsAll
  BY InitAnswers, InitBatches
<1>2. AnswerInv /\ LastBatchIsAll /\ [Next]_vars
        => /\ AnswerInv' /\ LastBatchIsAll'
           /\ [purge # Idle /\ purge' = Idle /\ faults' = faults => expired' = {}]_vars
  BY NextKeepsAnswers, NextKeepsBatches
<1>3. QED BY <1>1, <1>2, PTL DEF Spec, PurgeComplete

(***************************************************************************)
(* Evidence.                                                               *)
(***************************************************************************)
\* A row that names the object of a request is of its tenant, id and key.
LEMMA RowOfUri ==
  ASSUME EvidenceIdentifies, RowsOfInputs, NEW in \in Inputs, in.kind = "receipt"
  PROVE  /\ uri(in) # NoUri
         /\ \A r \in Ids : receipts[r] # NoRow /\ receipts[r].uri = uri(in) =>
              r = in.id /\ receipts[r].tenant = in.tenant /\ receipts[r].dedup = in.dedup
         /\ \A jn \in Inputs : jn.kind = "receipt" /\ uri(jn) = uri(in) =>
              jn.id = in.id /\ jn.tenant = in.tenant /\ jn.dedup = in.dedup
<1>1. uri(in) # NoUri
  BY NewValues, ValuesAssumption
<1>2. ASSUME NEW jn \in Inputs, jn.kind = "receipt", uri(jn) = uri(in)
      PROVE  jn.id = in.id /\ jn.tenant = in.tenant /\ jn.dedup = in.dedup
  <2>1. /\ uri(jn).receipt = jn.id /\ uri(jn).tenant = jn.tenant
        /\ uri(in).receipt = in.id /\ uri(in).tenant = in.tenant
    BY NewValues
  <2>2. QED BY <1>2, <2>1 DEF EvidenceIdentifies
<1>3. ASSUME NEW r \in Ids, receipts[r] # NoRow, receipts[r].uri = uri(in)
      PROVE  r = in.id /\ receipts[r].tenant = in.tenant /\ receipts[r].dedup = in.dedup
  <2>1. PICK jn \in Inputs : /\ jn.kind = "receipt" /\ jn.id = r
                             /\ receipts[r].tenant = jn.tenant /\ receipts[r].dedup = jn.dedup
                             /\ receipts[r].uri \in {NoUri, uri(jn)}
    BY <1>3 DEF RowsOfInputs
  <2>2. QED BY <1>1, <1>2, <1>3, <2>1
<1>4. QED BY <1>1, <1>2, <1>3

\* Each object is of one row.
LEMMA OneRowPerUri ==
  ASSUME EvidenceIdentifies, RowsOfInputs, NEW r \in Ids, receipts[r] # NoRow,
         NEW s \in Ids, receipts[s] # NoRow, receipts[r].uri = receipts[s].uri, receipts[r].uri # NoUri
  PROVE  r = s
<1>1. PICK in \in Inputs : in.kind = "receipt" /\ in.id = r /\ receipts[r].uri = uri(in)
  BY DEF RowsOfInputs
<1>2. QED BY <1>1, RowOfUri

\* Rows that keep who they belong to and their object, or lose that.
RowsStay ==
  /\ \A r \in Ids : receipts[r] # NoRow =>
       /\ receipts'[r] # NoRow /\ receipts'[r].tenant = receipts[r].tenant
       /\ receipts'[r].dedup = receipts[r].dedup
       /\ receipts'[r].uri \in {NoUri, receipts[r].uri}
       /\ receipts[r].old => receipts'[r].old
  /\ \A r \in Ids : receipts[r] = NoRow => receipts'[r] = NoRow

\* Rows that stay are still rows of the inputs.
LEMMA RowsOfInputsStay ==
  ASSUME RowsOfInputs, RowsStay
  PROVE  RowsOfInputs'
<1>1. ASSUME NEW r \in Ids, receipts'[r] # NoRow
      PROVE  \E in \in Inputs : /\ in.kind = "receipt" /\ in.id = r
                                /\ receipts'[r].tenant = in.tenant /\ receipts'[r].dedup = in.dedup
                                /\ receipts'[r].uri \in {NoUri, uri(in)}
  <2>1. PICK in \in Inputs : /\ in.kind = "receipt" /\ in.id = r
                             /\ receipts[r].tenant = in.tenant /\ receipts[r].dedup = in.dedup
                             /\ receipts[r].uri \in {NoUri, uri(in)}
    BY <1>1 DEF RowsOfInputs, RowsStay
  <2>2. QED BY <1>1, <2>1 DEF RowsStay
<1>2. ASSUME NEW r \in Ids, NEW s \in Ids, receipts'[r] # NoRow, receipts'[s] # NoRow,
             receipts'[r].tenant = receipts'[s].tenant, receipts'[r].dedup = receipts'[s].dedup
      PROVE  r = s
  BY <1>2 DEF RowsOfInputs, RowsStay
<1>3. QED BY <1>1, <1>2 DEF RowsOfInputs

\* What has been accepted stays accepted, and has its row.
LEMMA AcceptedStays ==
  ASSUME RowsStay, NEW in \in Inputs
  PROVE  /\ accepted(in) # {} => accepted(in)' # {}
         /\ receipts[in.id] # NoRow => receipts'[in.id] # NoRow
<1>1. ASSUME NEW r \in accepted(in) PROVE r \in accepted(in)'
  BY DEF accepted, RowsStay
<1>2. in.id \in Ids
  BY NewValues
<1>3. QED BY <1>1, <1>2 DEF RowsStay

\* What deletes an object: if rows stay and every object that goes is one that was
\* cleaned up, or one that belongs to no row and never will, or one of an old row,
\* then evidence is lost for a cause only.
Cleared(u) ==
  \/ u \in undone'
  \/ /\ \A r \in Ids : receipts[r] # NoRow => receipts[r].uri # u
     /\ \A in \in Inputs : in.kind = "receipt" /\ uri(in) = u => accepted(in) # {}
  \/ \E r \in Ids : receipts[r] # NoRow /\ receipts[r].uri = u /\ receipts[r].old

\* An object that goes has one of the causes; they last.
LEMMA CausesStay ==
  ASSUME EvidenceInv, RowsStay, undone \subseteq undone', \A u \in objects \ objects' : Cleared(u)
  PROVE  EvidenceLossHasCause'
<1> SUFFICES ASSUME NEW r \in Ids, receipts'[r] # NoRow, receipts'[r].uri # NoUri,
                    receipts'[r].uri \notin objects'
             PROVE  receipts'[r].old \/ receipts'[r].uri \in undone'
  BY DEF EvidenceLossHasCause
<1>1. PICK u : u = receipts[r].uri
  OBVIOUS
<1>2. receipts[r] # NoRow /\ receipts'[r].uri = u /\ u # NoUri /\ (receipts[r].old => receipts'[r].old)
  BY <1>1 DEF RowsStay
<1>3. CASE u \notin objects
  BY <1>1, <1>2, <1>3 DEF EvidenceInv, EvidenceLossHasCause
<1>4. CASE u \in objects
  <2>1. Cleared(u)
    BY <1>2, <1>4
  <2>2. ASSUME NEW s \in Ids, receipts[s] # NoRow, receipts[s].uri = u, receipts[s].old
        PROVE  receipts[r].old
    BY <1>1, <1>2, <2>2, OneRowPerUri DEF EvidenceInv
  <2>3. QED BY <1>1, <1>2, <2>1, <2>2 DEF Cleared
<1>5. QED BY <1>3, <1>4

\* What an attempt relies on when it is about to save or to drop its object stays.
LEMMA KeptStays ==
  ASSUME EvidenceInv, RowsStay, undone \subseteq undone', \A u \in objects \ objects' : Cleared(u),
         NEW b \in Attempts, pc'[b] = pc[b], input'[b] = input[b], Kept(b),
         pc[b] \in {"save", "drop"} => input[b] \in Inputs /\ input[b].kind = "receipt"
  PROVE  Kept(b)'
<1>1. CASE pc[b] = "save"
  <2>1. PICK in \in Inputs : in = input[b] /\ in.kind = "receipt"
    BY <1>1
  <2>2. CASE uri(in) \in objects \ objects'
    <3>1. Cleared(uri(in))
      BY <2>2
    <3>2. ASSUME NEW r \in Ids, receipts[r] # NoRow, receipts[r].uri = uri(in)
          PROVE  receipts[in.id] # NoRow
      BY <2>1, <3>2, RowOfUri DEF EvidenceInv
    <3>3. uri(in) \in undone' \/ accepted(in) # {} \/ receipts[in.id] # NoRow
      BY <2>1, <3>1, <3>2 DEF Cleared
    <3>4. QED BY <1>1, <2>1, <3>3, AcceptedStays DEF Kept
  <2>3. CASE uri(in) \notin objects \ objects'
    BY <1>1, <2>1, <2>3, AcceptedStays DEF Kept
  <2>4. QED BY <2>2, <2>3
<1>2. CASE pc[b] = "drop"
  <2>1. PICK in \in Inputs : in = input[b] /\ in.kind = "receipt"
    BY <1>2
  <2>2. uri(in) # NoUri
    BY <2>1, RowOfUri DEF EvidenceInv
  <2>3. accepted(in)' # {}
    BY <1>2, <2>1, AcceptedStays DEF Kept
  <2>4. \A r \in Ids : receipts'[r] # NoRow => receipts'[r].uri # uri(in)
    BY <1>2, <2>1, <2>2 DEF Kept, RowsStay
  <2>5. QED BY <1>2, <2>1, <2>3, <2>4 DEF Kept
<1>3. QED BY <1>1, <1>2 DEF Kept

\* A new row: its object is there, and nobody is about to drop it.
LEMMA NewRowKeepsEvidence ==
  ASSUME AnswerInv, EvidenceInv, NEW a \in Attempts, NEW in \in Inputs, in = input[a],
         in.kind = "receipt", pc[a] = "save", pc'[a] \notin {"save", "drop"},
         \A b \in Attempts \ {a} : pc'[b] = pc[b],
         accepted(in) = {}, receipts[in.id] = NoRow,
         receipts' = [receipts EXCEPT ![in.id] = newRow(in)],
         UNCHANGED <<input, objects, undone>>
  PROVE  EvidenceInv'
<1>0. /\ in.id \in Ids /\ newRow(in) \in Rows /\ newRow(in) # NoRow
      /\ newRow(in).tenant = in.tenant /\ newRow(in).dedup = in.dedup /\ newRow(in).uri = uri(in)
  BY NewValues, ValuesAssumption DEF newRow
<1>1. receipts'[in.id] = newRow(in) /\ \A r \in Ids \ {in.id} : receipts'[r] = receipts[r]
  BY <1>0 DEF AnswerInv, TypeOK
<1>2. uri(in) \in objects \cup undone
  BY DEF EvidenceInv, Kept
<1>3. RowsOfInputs'
  <2>1. ASSUME NEW r \in Ids, receipts'[r] # NoRow
        PROVE  \E jn \in Inputs : /\ jn.kind = "receipt" /\ jn.id = r
                                  /\ receipts'[r].tenant = jn.tenant /\ receipts'[r].dedup = jn.dedup
                                  /\ receipts'[r].uri \in {NoUri, uri(jn)}
    <3>1. CASE r = in.id
      BY <1>0, <1>1, <3>1
    <3>2. CASE r # in.id
      BY <1>1, <2>1, <3>2 DEF EvidenceInv, RowsOfInputs
    <3>3. QED BY <3>1, <3>2
  <2>2. ASSUME NEW r \in Ids, receipts[r] # NoRow
        PROVE  ~ (receipts[r].tenant = in.tenant /\ receipts[r].dedup = in.dedup)
    BY <2>2 DEF accepted
  <2>3. ASSUME NEW r \in Ids, NEW s \in Ids, receipts'[r] # NoRow, receipts'[s] # NoRow,
               receipts'[r].tenant = receipts'[s].tenant, receipts'[r].dedup = receipts'[s].dedup
        PROVE  r = s
    <3>1. CASE r # in.id /\ s # in.id
      BY <1>1, <2>3, <3>1 DEF EvidenceInv, RowsOfInputs
    <3>2. CASE r = in.id \/ s = in.id
      BY <1>0, <1>1, <2>2, <2>3, <3>2
    <3>3. QED BY <3>1, <3>2
  <2>4. QED BY <2>1, <2>3 DEF RowsOfInputs
<1>4. EvidenceLossHasCause'
  <2>1. ASSUME NEW r \in Ids, receipts'[r] # NoRow, receipts'[r].uri # NoUri, receipts'[r].uri \notin objects
        PROVE  receipts'[r].old \/ receipts'[r].uri \in undone
    <3>1. CASE r = in.id
      BY <1>0, <1>1, <1>2, <2>1, <3>1
    <3>2. CASE r # in.id
      BY <1>1, <2>1, <3>2 DEF EvidenceInv, EvidenceLossHasCause
    <3>3. QED BY <3>1, <3>2
  <2>2. QED BY <2>1 DEF EvidenceLossHasCause
<1>5. ASSUME NEW b \in Attempts PROVE Kept(b)'
  <2>1. CASE b = a
    BY <2>1 DEF Kept
  <2>2. CASE b # a /\ pc[b] \in {"save", "drop"}
    <3>1. PICK jn \in Inputs : jn = input[b] /\ jn.kind = "receipt"
      BY <2>2 DEF AnswerInv, Held
    <3>2. /\ accepted(jn) # {} => accepted(jn)' # {}
          /\ receipts[jn.id] # NoRow => receipts'[jn.id] # NoRow
      <4>1. \A r \in Ids : receipts[r] # NoRow => receipts'[r] = receipts[r]
        BY <1>1
      <4>2. accepted(jn) \subseteq accepted(jn)'
        BY <4>1 DEF accepted
      <4>3. jn.id \in Ids
        BY NewValues
      <4>4. QED BY <4>1, <4>2, <4>3
    <3>3. accepted(jn) # {} => uri(jn) # uri(in)
      <4>1. ASSUME uri(jn) = uri(in) PROVE accepted(jn) = accepted(in)
        BY <3>1, <4>1, RowOfUri DEF EvidenceInv, accepted
      <4>2. QED BY <4>1
    <3>4. CASE pc[b] = "save"
      BY <2>2, <3>1, <3>2, <3>4 DEF EvidenceInv, Kept
    <3>5. CASE pc[b] = "drop"
      <4>1. accepted(jn) # {} /\ \A r \in Ids : receipts[r] # NoRow => receipts[r].uri # uri(jn)
        BY <3>1, <3>5 DEF EvidenceInv, Kept
      <4>2. \A r \in Ids : receipts'[r] # NoRow => receipts'[r].uri # uri(jn)
        BY <1>0, <1>1, <3>3, <4>1
      <4>3. QED BY <2>2, <3>1, <3>2, <3>5, <4>1, <4>2 DEF Kept
    <3>6. QED BY <2>2, <3>4, <3>5
  <2>3. CASE b # a /\ pc[b] \notin {"save", "drop"}
    BY <2>3 DEF Kept
  <2>4. QED BY <2>1, <2>2, <2>3
<1>6. QED BY <1>3, <1>4, <1>5 DEF EvidenceInv, EvidenceIdentifies

\* The other steps of an attempt.
LEMMA OldRowsKeepEvidence ==
  ASSUME AnswerInv, EvidenceInv, RowsStay, undone \subseteq undone',
         \A u \in objects \ objects' : Cleared(u),
         \A b \in Attempts : \/ Kept(b)'
                             \/ pc'[b] = pc[b] /\ input'[b] = input[b]
  PROVE  EvidenceInv'
<1>1. RowsOfInputs' /\ EvidenceLossHasCause'
  BY RowsOfInputsStay, CausesStay DEF EvidenceInv
<1>2. ASSUME NEW b \in Attempts PROVE Kept(b)'
  <2>1. /\ pc[b] \in {"save", "drop"} => input[b] \in Inputs /\ input[b].kind = "receipt"
        /\ Kept(b)
    BY DEF AnswerInv, Held, EvidenceInv
  <2>2. CASE pc'[b] = pc[b] /\ input'[b] = input[b]
    BY <2>1, <2>2, KeptStays
  <2>3. QED BY <2>2
<1>3. QED BY <1>1, <1>2 DEF EvidenceInv, EvidenceIdentifies

\* A step of an attempt keeps the invariant of the evidence.
LEMMA StepKeepsEvidence ==
  ASSUME AnswerInv, EvidenceInv, NEW a \in Attempts, Step(a)
  PROVE  EvidenceInv'
<1> DEFINE Other(b) == pc'[b] = pc[b] /\ input'[b] = input[b]
<1>0. /\ TypeOK /\ Held(a) /\ Kept(a) /\ \A b \in Attempts \ {a} : Other(b)
  BY StepTypes DEF AnswerInv, EvidenceInv
<1>1. CASE Save(a)
  <2>1. /\ pc[a] = "save" /\ input[a] \in Inputs /\ input[a].kind = "receipt" /\ input[a].id \in Ids
        /\ UNCHANGED <<input, objects, undone>>
    BY <1>0, <1>1, NewValues DEF Save, Held, purgeVars
  <2>2. PICK in \in Inputs : in = input[a]
    BY <2>1
  <2>3. CASE UNCHANGED receipts
    <3>1. RowsStay
      BY <2>3 DEF RowsStay
    <3>2. Kept(a)'
      <4>1. CASE pc'[a] = "drop"
        <5>1. PICK r \in accepted(in) : receipts[r].uri # uri(in)
          <6>1. afterSave(in) \notin {"drop", "undo"} /\ in.id \in Ids
            BY <2>1, <2>2 DEF afterSave
          <6>2. CASE \E r \in accepted(in) :
                       Goes(a, IF receipts[r].uri # uri(in) THEN "drop" ELSE afterSave(in), "undo")
            BY <1>0, <4>1, <6>1, <6>2 DEF Goes, TypeOK
          <6>3. CASE accepted(in) = {} /\ receipts[in.id] = NoRow /\ Goes(a, afterSave(in), "undo")
            BY <1>0, <4>1, <6>1, <6>3 DEF Goes, TypeOK
          <6>4. CASE pc' = [pc EXCEPT ![a] = "undo"]
            BY <1>0, <4>1, <6>4 DEF TypeOK
          <6>5. QED BY <1>1, <2>2, <6>2, <6>3, <6>4 DEF Save
        <5>2. r \in Ids /\ receipts[r] # NoRow /\ receipts[r].tenant = in.tenant /\ receipts[r].dedup = in.dedup
          BY DEF accepted
        <5>3. ASSUME NEW s \in Ids, receipts[s] # NoRow, receipts[s].uri = uri(in) PROVE FALSE
          <6>1. receipts[s].tenant = in.tenant /\ receipts[s].dedup = in.dedup
            BY <2>1, <2>2, <5>3, RowOfUri DEF EvidenceInv
          <6>2. r = s
            BY <5>2, <5>3, <6>1 DEF EvidenceInv, RowsOfInputs
          <6>3. QED BY <5>1, <5>3, <6>2
        <5>4. accepted(in)' # {}
          BY <3>1, <5>1, AcceptedStays
        <5>5. \A s \in Ids : receipts'[s] # NoRow => receipts'[s].uri # uri(in)
          BY <2>3, <5>3
        <5>6. QED BY <2>1, <2>2, <4>1, <5>4, <5>5 DEF Kept
      <4>2. CASE pc'[a] # "drop"
        <5>1. pc'[a] # "save"
          BY <1>0, <1>1, <2>1 DEF Save, Goes, afterSave, TypeOK
        <5>2. QED BY <4>2, <5>1 DEF Kept
      <4>3. QED BY <4>1, <4>2
    <3>3. QED BY <1>0, <2>1, <3>1, <3>2, OldRowsKeepEvidence
  <2>4. CASE /\ accepted(in) = {} /\ receipts[in.id] = NoRow
             /\ receipts' = [receipts EXCEPT ![in.id] = newRow(in)]
             /\ Goes(a, afterSave(in), "undo")
    <3>1. pc'[a] \notin {"save", "drop"}
      BY <1>0, <2>4 DEF Goes, afterSave, TypeOK
    <3>2. QED BY <1>0, <2>1, <2>2, <2>4, <3>1, NewRowKeepsEvidence
  <2>5. QED BY <1>1, <2>2, <2>3, <2>4 DEF Save
<1>2. CASE Put(a)
  <2>1. /\ pc'[a] \in {"save", "abandon"} /\ UNCHANGED <<input, receipts, undone>>
        /\ objects' = objects \cup {uri(input[a])}
    BY <1>0, <1>2 DEF Put, Goes, purgeVars, TypeOK
  <2>2. Kept(a)'
    BY <2>1 DEF Kept, uri
  <2>3. QED BY <1>0, <2>1, <2>2, OldRowsKeepEvidence DEF RowsStay
<1>3. CASE Drop(a)
  <2>1. /\ pc[a] = "drop" /\ pc'[a] \notin {"save", "drop"} /\ UNCHANGED <<receipts, undone>>
        /\ objects' = objects \ {uri(input[a])}
        /\ input[a] \in Inputs /\ input[a].kind = "receipt"
    BY <1>0, <1>3 DEF Drop, Held, afterSave, purgeVars, TypeOK
  <2>2. Cleared(uri(input[a]))
    <3>1. /\ accepted(input[a]) # {}
          /\ \A r \in Ids : receipts[r] # NoRow => receipts[r].uri # uri(input[a])
      BY <1>0, <2>1 DEF Kept
    <3>2. ASSUME NEW in \in Inputs, in.kind = "receipt", uri(in) = uri(input[a])
          PROVE  accepted(in) = accepted(input[a])
      BY <2>1, <3>2, RowOfUri DEF EvidenceInv, accepted
    <3>3. QED BY <3>1, <3>2 DEF Cleared
  <2>3. Kept(a)'
    BY <2>1 DEF Kept
  <2>4. QED BY <1>0, <2>1, <2>2, <2>3, OldRowsKeepEvidence DEF RowsStay
<1>4. CASE Undo(a)
  <2>1. /\ pc'[a] \notin {"save", "drop"} /\ UNCHANGED receipts
        /\ objects' = objects \ {uri(input[a])} /\ undone' = undone \cup {uri(input[a])}
    BY <1>0, <1>4 DEF Undo, TypeOK
  <2>2. Kept(a)'
    BY <2>1 DEF Kept
  <2>3. QED BY <1>0, <2>1, <2>2, OldRowsKeepEvidence DEF RowsStay, Cleared
<1>5. CASE ~ (Save(a) \/ Put(a) \/ Drop(a) \/ Undo(a))
  <2>1. UNCHANGED <<receipts, objects, undone>>
    BY <1>5 DEF Step, Enqueue, Write, storeVars, purgeVars
  <2>2. pc'[a] \notin {"save", "drop"}
    <3>1. ASSUME NEW in \in Inputs, Receive(a, in, IF in.kind = "receipt" THEN "put" ELSE "write")
          PROVE  pc'[a] \in {"put", "write", "done"}
      BY <1>0, <3>1, ReceiveOutcomes DEF TypeOK
    <3>2. CASE Enqueue(a) \/ Write(a) \/ Complete(a)
      BY <1>0, <3>2 DEF Enqueue, Write, Complete, Goes, TypeOK
    <3>3. CASE Answer(a) \/ Abandon(a) \/ AbandonFails(a) \/ Fails(a, onError(pc[a])) \/ Dies(a)
      BY <1>0, <3>3 DEF Answer, Abandon, AbandonFails, Fails, Dies, onError, TypeOK
    <3>4. QED BY <1>5, <3>1, <3>2, <3>3 DEF Step
  <2>3. Kept(a)'
    BY <2>2 DEF Kept
  <2>4. QED BY <1>0, <2>1, <2>3, OldRowsKeepEvidence DEF RowsStay
<1>6. QED BY <1>1, <1>2, <1>3, <1>4, <1>5

\* At the start no object is there, and no row.
LEMMA InitEvidence == EvidenceIdentifies /\ Init => EvidenceInv
  BY DEF Init, WritesInit, EvidenceInv, RowsOfInputs, EvidenceLossHasCause, Kept

\* Every step keeps the invariant of the evidence.
LEMMA NextKeepsEvidence == AnswerInv /\ EvidenceInv /\ [Next]_vars => EvidenceInv'
<1> SUFFICES ASSUME AnswerInv, EvidenceInv, [Next]_vars PROVE EvidenceInv'
  OBVIOUS
<1>1. CASE Retention
  <2>1. RowsStay /\ UNCHANGED <<pc, input, undone>>
    BY <1>1, RetentionTypes DEF AnswerInv, RowsStay
  <2>2. ASSUME NEW u \in objects \ objects' PROVE Cleared(u)
    <3>1. PICK r \in Ids : Delete(r)
      BY <1>1, <2>2 DEF Retention, List, Ages, Mark, NothingLeft, PurgeDies, storeVars
    <3>2. u = receipts[r].uri /\ receipts[r] # NoRow /\ receipts[r].old
      BY <2>2, <3>1 DEF Delete, AnswerInv, BatchIsOld
    <3>3. QED BY <3>2 DEF Cleared
  <2>3. QED BY <2>1, <2>2, OldRowsKeepEvidence
<1>2. CASE UNCHANGED vars \/ \E k \in Keys : LeaseEnds(k) /\ UNCHANGED <<storeVars, purgeVars>>
  <2>1. UNCHANGED <<pc, input, receipts, objects, undone>>
    BY <1>2 DEF vars, writeVars, LeaseEnds, storeVars, purgeVars
  <2>2. QED BY <2>1, OldRowsKeepEvidence DEF RowsStay
<1>3. QED BY <1>1, <1>2, StepKeepsEvidence DEF Next

\* Where a receipt id comes with one deduplication key per evidence, evidence that a
\* row names is missing only because an error cleaned it up or because it was old:
\* the object a duplicate drops is of no row, and none will name it, since the row
\* that it duplicates has its key for good (service.ts 148-151).
THEOREM EvidenceIsKept == EvidenceIdentifies /\ Spec => []EvidenceLossHasCause
<1>1. EvidenceIdentifies /\ Init => AnswerInv /\ EvidenceInv
  BY InitAnswers, InitEvidence
<1>2. AnswerInv /\ EvidenceInv /\ [Next]_vars => AnswerInv' /\ EvidenceInv'
  BY NextKeepsAnswers, NextKeepsEvidence
<1>3. EvidenceInv => EvidenceLossHasCause
  BY DEF EvidenceInv
<1>4. QED BY <1>1, <1>2, <1>3, PTL DEF Spec

(***************************************************************************)
(* Repetitions.  The standing claim of a key pays for one request that may *)
(* take effect; every other one has a misfortune to account for it.        *)
(***************************************************************************)
\* A request that has taken effect again, or still may.
Spends(a) == input[a] \in Inputs /\ (pc[a] = "write" \/ <<"replay", a>> \in stored)

Spending(k) == {a \in Attempts : Spends(a) /\ input[a].key = k}

\* The claim of a key is about to be given back.
GoingBack(k) == idem[k].response = NoResult /\ pc[idem[k].token] = "abandon"

Paid(k) == IF idem[k] # NoEntry /\ ~ idem[k].expired /\ ~ GoingBack(k) THEN 1 ELSE 0

ReplayRan(a) ==
  <<"replay", a>> \in stored => pc[a] \notin {"new", "write"} /\ input[a].kind = "replay"

RepeatInv ==
  /\ \A a \in Attempts : ReplayRan(a)
  /\ \A k \in Keys : /\ IsFiniteSet(Spending(k))
                     /\ Cardinality(Spending(k)) <= faults + lapses + Paid(k)

\* An entry that is held pays for one request.
LEMMA PaidIsBit == ASSUME NEW k PROVE Paid(k) \in {0, 1}
BY DEF Paid

\* A statement schedules the replay of its own request only.
LEMMA ReplaysAreOwn ==
  ASSUME AnswerInv, NEW a \in Attempts, Step(a), NEW b \in Attempts, b # a
  PROVE  <<"replay", b>> \in stored' <=> <<"replay", b>> \in stored
<1>1. CASE Write(a)
  <2>1. input[a].kind \in Kinds
    BY <1>1, IntakeAssumption DEF Write, AnswerInv, Held
  <2>2. stored' = stored \/ (input[a].kind # "quarantine" /\ stored' = stored \cup {writes(a)})
    BY <1>1 DEF Write
  <2>3. input[a].kind # "quarantine" => writes(a) # <<"replay", b>>
    <3>1. CASE input[a].kind = "replay"
      BY <3>1 DEF writes
    <3>2. CASE input[a].kind \notin {"replay", "quarantine"}
      <4>1. writes(a) = <<input[a].kind, input[a].id>>
        BY <3>2 DEF writes
      <4>. QED
        BY <3>2, <4>1
    <3>. QED
      BY <3>1, <3>2
  <2>. QED
    BY <2>2, <2>3
<1>2. CASE ~ Write(a)
  BY <1>2 DEF Step, Put, Save, Drop, Enqueue, Undo, storeVars
<1>. QED
  BY <1>1, <1>2

\* A request touches the claim of its own key only.
LEMMA OtherKeysKeep ==
  ASSUME AnswerInv, NEW a \in Attempts, Step(a), NEW j \in Keys, j # input'[a].key
  PROVE  Paid(j)' = Paid(j)
<1>1. /\ pc[a] # "new" => input'[a] = input[a]
      /\ \A b \in Attempts \ {a} : pc'[b] = pc[b]
  BY StepTypes DEF AnswerInv
<1>2. idem'[j] = idem[j]
  <2>1. ASSUME NEW in \in Inputs, NEW first, Receive(a, in, first)
        PROVE  idem'[j] = idem[j]
    <3>1. input'[a] = in
      BY <2>1, ReceiveOutcomes DEF AnswerInv, TypeOK
    <3>. QED
      BY <2>1, <3>1, ReceiveOutcomes DEF AnswerInv, TypeOK
  <2>2. CASE Complete(a) \/ Abandon(a)
    <3>1. j # input[a].key
      BY <1>1, <2>2 DEF Complete, Abandon
    <3>. QED
      BY <2>2, <3>1 DEF Complete, Abandon, AnswerInv, TypeOK
  <2>. QED
    BY <2>1, <2>2
    DEF Step, Put, Save, Drop, Enqueue, Undo, Write, Answer, AbandonFails, Fails, Dies
<1>3. idem[j] # NoEntry => idem[j].token \in Attempts /\ idem[j].token # a
  <2>. SUFFICES ASSUME idem[j] # NoEntry PROVE idem[j].token \in Attempts /\ idem[j].token # a
    OBVIOUS
  <2>1. Entry(j) /\ idem[j] \in Entries
    BY DEF AnswerInv, TypeOK
  <2>. QED
    BY <1>1, <2>1 DEF Entry, Entries
<1>. QED
  BY <1>1, <1>2, <1>3 DEF Paid, GoingBack

\* An entry that stays pays as before, unless its own request turns to give it back.
LEMMA PaidStays ==
  ASSUME NEW a, NEW k, idem'[k] = idem[k],
         idem[k] # NoEntry /\ idem[k].token # a => pc'[idem[k].token] = pc[idem[k].token],
         idem[k] # NoEntry /\ idem[k].token = a /\ idem[k].response = NoResult => pc'[a] # "abandon"
  PROVE  Paid(k)' >= Paid(k)
BY DEF Paid, GoingBack

\* What a step of a request costs the claim of its key: nothing, or it has a misfortune or
\* its own place among those that may take effect to show for it.  Receipts schedule none.
LEMMA StepAccounts ==
  ASSUME AnswerInv, NEW a \in Attempts, Step(a), ReplayRan(a),
         NEW k \in Keys, k = input'[a].key
  PROVE  /\ ReplayRan(a)' /\ UNCHANGED lapses /\ faults' \in {faults, faults + 1}
         /\ \/ ~ Spends(a) /\ Paid(k) = 0 /\ Paid(k)' = 1
            \/ (Spends(a)' => Spends(a)) /\ (Paid(k)' >= Paid(k) \/ faults' = faults + 1)
            \/ Spends(a) /\ ~ Spends(a)'
            \/ input'[a].kind = "receipt"
<1>1. /\ pc'[a] # "new" /\ (pc[a] # "new" => input'[a] = input[a])
      /\ \A b \in Attempts \ {a} : pc'[b] = pc[b]
      /\ faults \in Nat
  BY StepTypes DEF AnswerInv, TypeOK
<1>2. idem[k] # NoEntry =>
        /\ idem[k].token \in Attempts /\ idem[k] \in Entries
        /\ idem[k].token # a => pc'[idem[k].token] = pc[idem[k].token]
        /\ idem[k].token = a => pc[a] # "new"
  BY <1>1 DEF AnswerInv, TypeOK, Entry, Entries
<1>3. Paid(k) \in {0, 1} /\ Paid(k)' \in {0, 1}
  BY DEF Paid
<1>4. Held(a) /\ (pc[a] # "new" => input[a] \in Inputs)
  BY DEF AnswerInv, Held
<1>5. ASSUME NEW in \in Inputs, Receive(a, in, IF in.kind = "receipt" THEN "put" ELSE "write"),
             UNCHANGED storeVars
      PROVE  /\ ReplayRan(a)' /\ UNCHANGED lapses /\ faults' \in {faults, faults + 1}
             /\ \/ ~ Spends(a) /\ Paid(k) = 0 /\ Paid(k)' = 1
                \/ (Spends(a)' => Spends(a)) /\ Paid(k)' >= Paid(k)
  <2>. PICK first \in {"put", "write"} : first = IF in.kind = "receipt" THEN "put" ELSE "write"
    OBVIOUS
  <2>1. /\ pc[a] = "new" /\ input'[a] = in /\ in.key = k /\ UNCHANGED <<faults, lapses, stored>>
        /\ <<"replay", a>> \notin stored
    BY <1>5, ReceiveOutcomes DEF AnswerInv, TypeOK, ReplayRan, storeVars
  <2>2. ReplayRan(a)' /\ ~ Spends(a)
    BY <2>1 DEF ReplayRan, Spends
  <2>3. CASE /\ idem[k] = NoEntry \/ idem[k].expired
             /\ idem' = [idem EXCEPT ![k] = Claimed(a, in)]
             /\ pc' = [pc EXCEPT ![a] = first]
    <3>1. Claimed(a, in) # NoEntry /\ Claimed(a, in).token = a /\ ~ Claimed(a, in).expired
      BY NewValues, ValuesAssumption DEF Claimed
    <3>2. idem'[k] = Claimed(a, in) /\ pc'[a] # "abandon"
      BY <2>3 DEF AnswerInv, TypeOK
    <3>3. Paid(k) = 0 /\ Paid(k)' = 1
      BY <2>3, <3>1, <3>2 DEF Paid, GoingBack
    <3>. QED
      BY <2>1, <2>2, <3>3
  <2>4. CASE UNCHANGED idem /\ pc' = [pc EXCEPT ![a] = "done"]
    <3>1. pc'[a] = "done"
      BY <2>4 DEF AnswerInv, TypeOK
    <3>2. ~ Spends(a)'
      BY <2>1, <3>1 DEF Spends
    <3>3. Paid(k)' >= Paid(k)
      BY <1>2, <2>1, <2>4, PaidStays
    <3>. QED
      BY <2>1, <2>2, <3>2, <3>3
  <2>5. \/ /\ idem' = [idem EXCEPT ![k] = Claimed(a, in)]
           /\ pc' = [pc EXCEPT ![a] = first]
           /\ idem[k] = NoEntry \/ idem[k].expired
        \/ UNCHANGED idem /\ pc' = [pc EXCEPT ![a] = "done"]
    BY <1>5, <2>1 DEF Receive, ClaimOutcome
  <2>. QED
    BY <2>3, <2>4, <2>5
<1>6. CASE Put(a) \/ Save(a) \/ Drop(a) \/ Enqueue(a) \/ Undo(a)
  <2>1. pc[a] \in {"put", "save", "drop", "enqueue", "undo"} /\ UNCHANGED <<input, lapses, stored>>
    BY <1>6 DEF Put, Save, Drop, Enqueue, Undo, purgeVars
  <2>2. input'[a].kind = "receipt"
    BY <1>4, <2>1 DEF Held
  <2>3. faults' \in {faults, faults + 1}
    BY <1>6 DEF Put, Save, Drop, Enqueue, Undo, Goes
  <2>4. ReplayRan(a)'
    BY <2>1, <2>2 DEF ReplayRan
  <2>. QED
    BY <2>1, <2>2, <2>3, <2>4
<1>7. CASE Write(a)
  <2>1. /\ pc[a] = "write" /\ UNCHANGED <<input, idem, lapses>>
        /\ faults' \in {faults, faults + 1} /\ <<"replay", a>> \notin stored
    BY <1>7 DEF Write, Goes, ReplayRan
  <2>2. Spends(a)
    BY <1>4, <2>1 DEF Spends
  <2>3. CASE refused(a)
    <3>1. pc'[a] = "abandon" /\ stored' = stored
      BY <1>7, <2>3 DEF Write, AnswerInv, TypeOK
    <3>2. ReplayRan(a)' /\ ~ Spends(a)'
      BY <2>1, <3>1 DEF ReplayRan, Spends
    <3>. QED
      BY <2>1, <2>2, <3>2
  <2>4. CASE ~ refused(a)
    <3>1. pc'[a] = "complete" \/ faults' = faults + 1
      BY <1>7, <2>4 DEF Write, Goes, AnswerInv, TypeOK
    <3>2. pc'[a] \in {"complete", "abandon"}
      BY <1>7, <2>4 DEF Write, Goes, AnswerInv, TypeOK
    <3>3. ReplayRan(a)'
      <4>. SUFFICES ASSUME <<"replay", a>> \in stored' PROVE input[a].kind = "replay"
        BY <2>1, <3>2 DEF ReplayRan
      <4>1. input[a].kind # "quarantine" /\ writes(a) = <<"replay", a>>
        BY <1>7, <2>1, <2>4 DEF Write
      <4>2. CASE input[a].kind \notin {"replay", "quarantine"}
        <5>1. writes(a) = <<input[a].kind, input[a].id>>
          BY <4>2 DEF writes
        <5>. QED
          BY <4>1, <4>2, <5>1
      <4>. QED
        BY <4>1, <4>2
    <3>4. Paid(k)' >= Paid(k) \/ faults' = faults + 1
      BY <1>2, <2>1, <3>1, PaidStays
    <3>. QED
      BY <2>1, <2>2, <3>3, <3>4
  <2>. QED
    BY <2>3, <2>4
<1>8. ASSUME UNCHANGED stored, pc[a] # "new", pc'[a] # "write", UNCHANGED input
      PROVE  ReplayRan(a)' /\ (Spends(a)' => Spends(a))
  BY <1>1, <1>8 DEF ReplayRan, Spends
<1>9. CASE Complete(a) /\ UNCHANGED storeVars
  <2>1. /\ pc[a] = "complete" /\ UNCHANGED <<input, lapses, stored>> /\ input[a].key = k
        /\ pc'[a] \in {"answer", "abandon"} /\ faults' \in {faults, faults + 1}
    BY <1>1, <1>9 DEF Complete, Goes, AnswerInv, TypeOK, storeVars
  <2>2. CASE Holds(a)
    <3>1. /\ idem' = [idem EXCEPT ![k].response = result[a]] /\ idem[k] # NoEntry
          /\ idem[k].token = a /\ idem[k] \in Entries
      BY <1>2, <1>9, <2>1, <2>2 DEF Complete, Holds
    <3>2. PICK res \in Results : res = result[a]
      BY <1>4, <2>1 DEF Held
    <3>3. PICK e \in Entries : e = [idem[k] EXCEPT !.response = res]
      BY <3>1, <3>2 DEF Entries
    <3>4. idem'[k] = e /\ e # NoEntry /\ e.expired = idem[k].expired /\ e.response # NoResult
      BY <3>1, <3>2, <3>3, ValuesAssumption DEF AnswerInv, TypeOK, Entries
    <3>5. Paid(k)' >= Paid(k)
      <4>1. ~ GoingBack(k)'
        BY <3>4 DEF GoingBack
      <4>2. CASE idem[k].expired
        BY <1>3, <4>2 DEF Paid
      <4>3. CASE ~ idem[k].expired
        <5>1. idem'[k] # NoEntry /\ ~ idem'[k].expired
          BY <3>4, <4>3
        <5>2. Paid(k)' = 1
          BY <4>1, <5>1 DEF Paid
        <5>. QED
          BY <1>3, <5>2
      <4>. QED
        BY <4>2, <4>3
    <3>. QED
      BY <1>8, <2>1, <3>5
  <2>3. CASE ~ Holds(a)
    <3>1. idem' = idem
      BY <1>9, <2>3 DEF Complete
    <3>2. idem[k] # NoEntry /\ idem[k].token = a => idem[k].response # NoResult
      BY <2>1, <2>3 DEF Holds
    <3>3. Paid(k)' >= Paid(k)
      BY <1>2, <3>1, <3>2, PaidStays
    <3>. QED
      BY <1>8, <2>1, <3>3
  <2>. QED
    BY <2>2, <2>3
<1>10. CASE Answer(a) /\ UNCHANGED storeVars
  <2>1. /\ pc[a] = "answer" /\ UNCHANGED <<input, lapses, faults, stored, idem>> /\ pc'[a] = "done"
    BY <1>10 DEF Answer, AnswerInv, TypeOK, storeVars
  <2>2. Paid(k)' >= Paid(k)
    BY <1>2, <2>1, PaidStays
  <2>. QED
    BY <1>8, <2>1, <2>2
<1>11. CASE Abandon(a) /\ UNCHANGED storeVars
  <2>1. /\ pc[a] = "abandon" /\ UNCHANGED <<input, lapses, faults, stored>> /\ pc'[a] = "done"
        /\ input[a].key = k
        /\ idem' = IF Holds(a) THEN [idem EXCEPT ![k] = NoEntry] ELSE idem
    BY <1>1, <1>11 DEF Abandon, AnswerInv, TypeOK, storeVars
  <2>2. Holds(a) => Paid(k) = 0
    BY <2>1 DEF Holds, Paid, GoingBack
  <2>3. ~ Holds(a) => Paid(k)' >= Paid(k)
    BY <1>2, <2>1, PaidStays
  <2>4. Paid(k)' >= Paid(k)
    BY <1>3, <2>2, <2>3
  <2>. QED
    BY <1>8, <2>1, <2>4
<1>12. CASE (AbandonFails(a) \/ Fails(a, onError(pc[a])) \/ Dies(a)) /\ UNCHANGED storeVars
  <2>1. /\ pc[a] # "new" /\ UNCHANGED <<input, lapses, stored>> /\ faults' = faults + 1
        /\ pc'[a] \in {"done", "undo", "abandon"}
    BY <1>12 DEF AbandonFails, Fails, Dies, onError, AnswerInv, TypeOK, storeVars
  <2>. QED
    BY <1>8, <2>1
<1>. QED
  BY <1>5, <1>6, <1>7, <1>9, <1>10, <1>11, <1>12 DEF Step

\* A step of a request keeps the account of every key.
LEMMA StepKeepsRepeats ==
  ASSUME AnswerInv, AnswerInv', RepeatInv, NEW a \in Attempts, Step(a)
  PROVE  RepeatInv'
<1>1. /\ pc'[a] # "new" /\ (pc[a] # "new" => input'[a] = input[a])
      /\ \A b \in Attempts \ {a} : pc'[b] = pc[b] /\ input'[b] = input[b]
      /\ faults \in Nat /\ lapses \in Nat
  BY StepTypes DEF AnswerInv, TypeOK
<1>. PICK in \in Inputs : in = input'[a]
  BY <1>1 DEF AnswerInv, Held
<1>. PICK k \in Keys : k = in.key
  BY WriteAssumption
<1>2. /\ ReplayRan(a)' /\ UNCHANGED lapses /\ faults' \in {faults, faults + 1}
      /\ \/ ~ Spends(a) /\ Paid(k) = 0 /\ Paid(k)' = 1
         \/ (Spends(a)' => Spends(a)) /\ (Paid(k)' >= Paid(k) \/ faults' = faults + 1)
         \/ Spends(a) /\ ~ Spends(a)'
         \/ in.kind = "receipt"
  BY StepAccounts DEF RepeatInv
<1>3. ASSUME NEW b \in Attempts \ {a}
      PROVE  ReplayRan(b)' /\ (Spends(b)' <=> Spends(b)) /\ input'[b] = input[b]
  BY <1>1, ReplaysAreOwn DEF RepeatInv, ReplayRan, Spends
<1>4. Spends(a) => pc[a] # "new" /\ input[a].key = k
  BY <1>1 DEF RepeatInv, ReplayRan, Spends
<1>5. ASSUME NEW j \in Keys, j # k
      PROVE  IsFiniteSet(Spending(j)') /\ Cardinality(Spending(j)') <= faults' + lapses' + Paid(j)'
  <2>1. Spending(j)' = Spending(j)
    BY <1>3, <1>4, <1>5 DEF Spending
  <2>2. Paid(j)' = Paid(j) /\ Paid(j) \in {0, 1}
    BY <1>5, OtherKeysKeep, PaidIsBit
  <2>3. IsFiniteSet(Spending(j)) /\ Cardinality(Spending(j)) <= faults + lapses + Paid(j)
        /\ Cardinality(Spending(j)) \in Nat
    BY FS_CardinalityType DEF RepeatInv
  <2>. QED
    BY <1>1, <1>2, <2>1, <2>2, <2>3
<1>6. IsFiniteSet(Spending(k)') /\ Cardinality(Spending(k)') <= faults' + lapses' + Paid(k)'
  <2>1. /\ IsFiniteSet(Spending(k)) /\ Cardinality(Spending(k)) \in Nat
        /\ Cardinality(Spending(k)) <= faults + lapses + Paid(k)
        /\ Paid(k) \in {0, 1} /\ Paid(k)' \in {0, 1}
    BY FS_CardinalityType DEF RepeatInv, Paid
  <2>2. Spending(k)' = IF Spends(a)' THEN Spending(k) \cup {a} ELSE Spending(k) \ {a}
    BY <1>3 DEF Spending
  <2>3. a \in Spending(k) <=> Spends(a)
    BY <1>4 DEF Spending
  <2>4. CASE ~ Spends(a) /\ Paid(k) = 0 /\ Paid(k)' = 1
    <3>1. IsFiniteSet(Spending(k) \cup {a}) /\ Cardinality(Spending(k) \cup {a}) = Cardinality(Spending(k)) + 1
      BY <2>1, <2>3, <2>4, FS_AddElement
    <3>2. Spending(k) \ {a} = Spending(k)
      BY <2>3, <2>4
    <3>3. IsFiniteSet(Spending(k)') /\ Cardinality(Spending(k)') <= Cardinality(Spending(k)) + 1
          /\ Cardinality(Spending(k)') \in Nat
      BY <2>1, <2>2, <3>1, <3>2
    <3>. QED
      BY <1>1, <1>2, <2>1, <2>4, <3>3
  <2>5. CASE (Spends(a)' => Spends(a)) /\ (Paid(k)' >= Paid(k) \/ faults' = faults + 1)
    <3>1. Spending(k)' \subseteq Spending(k)
      BY <2>2, <2>3, <2>5
    <3>2. IsFiniteSet(Spending(k)') /\ Cardinality(Spending(k)') <= Cardinality(Spending(k))
          /\ Cardinality(Spending(k)') \in Nat
      BY <2>1, <3>1, FS_Subset, FS_CardinalityType
    <3>. QED
      BY <1>1, <1>2, <2>1, <2>5, <3>2
  <2>6. CASE Spends(a) /\ ~ Spends(a)'
    <3>1. IsFiniteSet(Spending(k) \ {a}) /\ Cardinality(Spending(k) \ {a}) = Cardinality(Spending(k)) - 1
      BY <2>1, <2>3, <2>6, FS_RemoveElement
    <3>. QED
      BY <1>1, <1>2, <2>1, <2>2, <2>6, <3>1
  <2>7. CASE in.kind = "receipt"
    <3>1. ASSUME NEW b \in Attempts, Spends(b)', input'[b].key = k
          PROVE  FALSE
      <4>1. input'[b] \in Inputs /\ input'[b].kind = "receipt"
        BY <2>7, <3>1, IntakeAssumption DEF Spends
      <4>2. ReplayRan(b)' /\ Held(b)'
        BY <1>2, <1>3 DEF AnswerInv
      <4>. QED
        BY <3>1, <4>1, <4>2 DEF Spends, ReplayRan, Held
    <3>2. Spending(k)' = {}
      BY <3>1 DEF Spending
    <3>. QED
      BY <1>1, <1>2, <2>1, <3>2, FS_EmptySet
  <2>. QED
    BY <1>2, <2>4, <2>5, <2>6, <2>7
<1>. QED
  BY <1>2, <1>3, <1>5, <1>6 DEF RepeatInv

\* The end of a claim is a misfortune itself; the retention command leaves the keys alone.
LEMMA RestKeepsRepeats ==
  ASSUME AnswerInv, RepeatInv, UNCHANGED <<pc, input, stored>>, faults' \in {faults, faults + 1},
         \/ UNCHANGED <<idem, lapses>>
         \/ \E j \in Keys : LeaseEnds(j)
  PROVE  RepeatInv'
<1>1. /\ \A b \in Attempts : ReplayRan(b)'
      /\ \A k \in Keys : Spending(k)' = Spending(k)
  BY DEF RepeatInv, ReplayRan, Spending, Spends
<1>2. ASSUME NEW k \in Keys
      PROVE  Paid(k) \in {0, 1} /\ Paid(k)' \in {0, 1}
             /\ faults + lapses + Paid(k) <= faults' + lapses' + Paid(k)'
  <2>1. Paid(k) \in {0, 1} /\ Paid(k)' \in {0, 1} /\ faults \in Nat /\ lapses \in Nat
    BY DEF Paid, AnswerInv, TypeOK
  <2>2. CASE UNCHANGED <<idem, lapses>>
    <3>1. Paid(k)' = Paid(k)
      BY <2>2 DEF Paid, GoingBack
    <3>. QED
      BY <2>1, <2>2, <3>1
  <2>3. ASSUME NEW j \in Keys, LeaseEnds(j)
        PROVE  lapses' = lapses + 1
    BY <2>3 DEF LeaseEnds
  <2>. QED
    BY <2>1, <2>2, <2>3
<1>3. ASSUME NEW k \in Keys
      PROVE  IsFiniteSet(Spending(k)) /\ Cardinality(Spending(k)) <= faults' + lapses' + Paid(k)'
  <2>1. /\ IsFiniteSet(Spending(k)) /\ Cardinality(Spending(k)) \in Nat
        /\ Cardinality(Spending(k)) <= faults + lapses + Paid(k)
    BY FS_CardinalityType DEF RepeatInv
  <2>2. faults \in Nat /\ lapses \in Nat /\ faults' \in Nat /\ lapses' \in Nat
    BY DEF AnswerInv, TypeOK, LeaseEnds
  <2>. QED
    BY <1>2, <2>1, <2>2
<1>. QED
  BY <1>1, <1>3 DEF RepeatInv

\* At first no request has come.
LEMMA InitRepeats == Init => RepeatInv
<1>. SUFFICES ASSUME Init PROVE RepeatInv
  OBVIOUS
<1>1. \A a \in Attempts : <<"replay", a>> \notin stored
  <2>. SUFFICES ASSUME NEW a \in Attempts, <<"replay", a>> \in Published PROVE FALSE
    BY DEF Init
  <2>1. <<"replay", a>>[1] \in {"defense", "version"}
    BY IntakeAssumption
  <2>. QED
    BY <2>1
<1>2. \A k \in Keys : Spending(k) = {}
  BY WriteAssumption DEF Init, WritesInit, Spending, Spends
<1>3. \A k \in Keys : Paid(k) = 0
  BY DEF Init, WritesInit, Paid
<1>4. faults = 0 /\ lapses = 0
  BY DEF Init, WritesInit
<1>. QED
  BY <1>1, <1>2, <1>3, <1>4, FS_EmptySet DEF RepeatInv, ReplayRan

\* For any requests and retries: each replay scheduled under a key beyond the first has a
\* failed call, a death or a claim that ran out to account for it (http.ts 349-368).
THEOREM RepetitionsHaveCause == Spec => []RepeatsHaveCause
<1>1. AnswerInv /\ AnswerInv' /\ RepeatInv /\ [Next]_vars => RepeatInv'
  <2>. SUFFICES ASSUME AnswerInv, AnswerInv', RepeatInv, [Next]_vars PROVE RepeatInv'
    OBVIOUS
  <2>1. ASSUME NEW k \in Keys, LeaseEnds(k), UNCHANGED <<storeVars, purgeVars>>
        PROVE  RepeatInv'
    BY <2>1, RestKeepsRepeats DEF LeaseEnds, storeVars
  <2>2. CASE Retention
    <3>1. UNCHANGED <<pc, input, stored, idem, lapses>> /\ faults' \in {faults, faults + 1}
      BY <2>2 DEF Retention, List, Ages, Delete, Mark, NothingLeft, PurgeDies, writeVars, storeVars
    <3>. QED
      BY <3>1, RestKeepsRepeats
  <2>3. CASE UNCHANGED vars
    BY <2>3, RestKeepsRepeats DEF vars, writeVars, storeVars
  <2>. QED
    BY <2>1, <2>2, <2>3, StepKeepsRepeats DEF Next
<1>2. AnswerInv /\ RepeatInv => RepeatsHaveCause
  <2>. SUFFICES ASSUME AnswerInv, RepeatInv, NEW k \in Keys
                PROVE  Cardinality(effects(k)) <= 1 + faults + lapses
    BY DEF RepeatsHaveCause
  <2>1. effects(k) \subseteq Spending(k)
    BY DEF effects, Spending, Spends, AnswerInv, TypeOK
  <2>2. /\ IsFiniteSet(Spending(k)) /\ Cardinality(Spending(k)) <= faults + lapses + Paid(k)
        /\ faults \in Nat /\ lapses \in Nat /\ Paid(k) \in {0, 1}
    BY PaidIsBit DEF RepeatInv, AnswerInv, TypeOK
  <2>3. /\ Cardinality(effects(k)) <= Cardinality(Spending(k))
        /\ Cardinality(effects(k)) \in Nat /\ Cardinality(Spending(k)) \in Nat
    BY <2>1, <2>2, FS_Subset, FS_CardinalityType
  <2>. QED
    BY <2>2, <2>3
<1>. QED
  BY <1>1, <1>2, InitAnswers, NextKeepsAnswers, InitRepeats, PTL DEF Spec

================================================================================
