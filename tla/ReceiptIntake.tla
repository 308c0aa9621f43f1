----------------------------- MODULE ReceiptIntake -----------------------------
(***************************************************************************)
(* The intake of the control plane: receipts with their encrypted evidence,*)
(* defenses, versions, replays and quarantine requests written through the *)
(* boundary of HttpWrites, and the retention command that deletes evidence *)
(* beside it.                                                              *)
(*                                                                         *)
(* createReceipt awaits three stores in turn: the object is put, the row is*)
(* saved, the operation is enqueued; an error after the put deletes the    *)
(* object again.  A request here has passed validation, authentication and *)
(* the rate limit; what those refuse changes nothing.  The state of the    *)
(* operation that a receipt's answer quotes is left out.                   *)
(***************************************************************************)
EXTENDS HttpWrites

CONSTANTS
  NoRow, NoUri,
  Published,     \* defenses and versions that are registered already
  Limit          \* records per purgeEvidenceBefore (100 in retention.ts)

Kinds == {"receipt", "defense", "version", "replay", "quarantine"}
Tenants == {in.tenant : in \in Inputs}
Ids == {in.id : in \in Inputs}      \* of receipts, defenses and versions

Results == [status : {"sanitized", "duplicate", "accepted"}, id : Ids, request : Attempts]
Uris == [tenant : Tenants, receipt : Ids, hash : {in.evidence : in \in Inputs}]
Rows == [tenant : Tenants, dedup : {in.dedup : in \in Inputs}, uri : Uris \cup {NoUri}, old : BOOLEAN]
Entries == [hash : Inputs, token : Attempts, expired : BOOLEAN, response : Results \cup {NoResult}]
Awaits == {"new", "put", "save", "drop", "enqueue", "undo", "write", "complete", "answer", "abandon", "done"}
Purges == [at : {"idle", "list", "delete"} \cup Ids, left : SUBSET Ids, full : BOOLEAN]

\* dedup is the receipt's deduplication key and the defense of a version.
ASSUME IntakeAssumption ==
  /\ \A in \in Inputs : in.kind \in Kinds /\ in.publish \in BOOLEAN
  /\ \A in, jn \in Inputs :
       in.key = jn.key => in.tenant = jn.tenant /\ in.kind = jn.kind
  /\ \A s \in Published : s[1] \in {"defense", "version"}
  /\ Limit \in Nat \ {0}

ASSUME ValuesAssumption ==
  /\ NoResult \notin Results /\ Problem \notin Results /\ NoResult # Problem
  /\ NoEntry \notin Entries /\ NoRow \notin Rows /\ NoUri \notin Uris
  /\ IsFiniteSet(Ids) /\ {"idle", "list", "delete"} \cap Ids = {}

VARIABLES
  receipts,    \* receipts[r]: the row of threat_receipts
  objects,     \* the uris that the object store holds
  operations,  \* the deduplication keys of the enqueued chain operations
  stored,      \* defenses and versions, and replays by the attempt they come from
  purge,       \* the retention command: where it is and its batch
  undone       \* history: objects deleted because of an error

storeVars == <<receipts, objects, operations, stored>>
purgeVars == <<purge, undone>>
vars == <<writeVars, storeVars, purgeVars>>

uri(in) == [tenant |-> in.tenant, receipt |-> in.id, hash |-> in.evidence]
Result(a, status, id) == [status |-> status, id |-> id, request |-> a]
Idle == [at |-> "idle", left |-> {}, full |-> FALSE]

Init ==
  /\ WritesInit
  /\ receipts = [r \in Ids |-> NoRow]
  /\ objects = {} /\ operations = {} /\ stored = Published
  /\ purge = Idle /\ undone = {}

(***************************************************************************)
(* POST /v1/receipts                                                       *)
(***************************************************************************)
Put(a) ==
  /\ pc[a] = "put"
  /\ objects' = objects \cup {uri(input[a])}
  /\ Goes(a, "save", "abandon")
  /\ UNCHANGED <<idem, input, result, answer, lapses, receipts, operations, stored, purgeVars>>

afterSave(in) == IF in.publish THEN "enqueue" ELSE "complete"

accepted(in) ==
  {r \in Ids : receipts[r] # NoRow /\ receipts[r].tenant = in.tenant /\ receipts[r].dedup = in.dedup}

newRow(in) == [tenant |-> in.tenant, dedup |-> in.dedup, uri |-> uri(in), old |-> FALSE]

\* Mutant: the object of a duplicate is dropped without a look at the row.
SaveDropsAlways(a) ==
  LET in == input[a] IN
  /\ pc[a] = "save"
  /\ UNCHANGED <<idem, input, answer, lapses, objects, operations, stored, purgeVars>>
  /\ \/ \E r \in accepted(in) :
          /\ result' = [result EXCEPT ![a] = Result(a, "duplicate", r)]
          /\ Goes(a, "drop", "undo")
          /\ UNCHANGED receipts
     \/ /\ accepted(in) = {} /\ receipts[in.id] = NoRow
        /\ receipts' = [receipts EXCEPT ![in.id] = newRow(in)]
        /\ result' = [result EXCEPT ![a] = Result(a, "sanitized", in.id)]
        /\ Goes(a, afterSave(in), "undo")

\* The row is new, or the tenant has one with this deduplication key, or the
\* receipt id belongs to another receipt (409).
Save(a) ==
  LET in == input[a] IN
  /\ pc[a] = "save"
  /\ UNCHANGED <<idem, input, answer, lapses, objects, operations, stored, purgeVars>>
  /\ \/ \E r \in accepted(in) :
          /\ result' = [result EXCEPT ![a] = Result(a, "duplicate", r)]
          /\ Goes(a, IF receipts[r].uri # uri(in) THEN "drop" ELSE afterSave(in), "undo")
          /\ UNCHANGED receipts
     \/ /\ accepted(in) = {} /\ receipts[in.id] = NoRow
        /\ receipts' = [receipts EXCEPT ![in.id] = newRow(in)]
        /\ result' = [result EXCEPT ![a] = Result(a, "sanitized", in.id)]
        /\ Goes(a, afterSave(in), "undo")
     \/ /\ accepted(in) = {} /\ receipts[in.id] # NoRow
        /\ pc' = [pc EXCEPT ![a] = "undo"]
        /\ UNCHANGED <<receipts, result, faults>>

\* A duplicate uploaded an object that its row does not name.
Drop(a) ==
  /\ pc[a] = "drop"
  /\ objects' = objects \ {uri(input[a])}
  /\ pc' = [pc EXCEPT ![a] = afterSave(input[a])]
  /\ UNCHANGED <<idem, input, result, answer, faults, lapses, receipts, operations, stored, purgeVars>>

\* Mutant: the answer does not wait for the operation.
EnqueueLater(a) ==
  /\ pc[a] = "enqueue"
  /\ Goes(a, "complete", "undo")
  /\ UNCHANGED <<idem, input, result, answer, lapses, receipts, objects, operations, stored, purgeVars>>

Enqueue(a) ==
  /\ pc[a] = "enqueue"
  /\ operations' = operations \cup {<<"receipt", result[a].id>>}
  /\ Goes(a, "complete", "undo")
  /\ UNCHANGED <<idem, input, result, answer, lapses, receipts, objects, stored, purgeVars>>

\* The catch block: the object goes, whatever row names it by now.
Undo(a) ==
  /\ pc[a] = "undo"
  /\ objects' = objects \ {uri(input[a])}
  /\ undone' = undone \cup {uri(input[a])}
  /\ pc' = [pc EXCEPT ![a] = "abandon"]
  /\ UNCHANGED <<idem, input, result, answer, faults, lapses, receipts, operations, stored, purge>>

(***************************************************************************)
(* POST /v1/defenses, versions, replays and quarantine: one statement each.*)
(***************************************************************************)
writes(a) == CASE input[a].kind = "replay"     -> <<"replay", a>>
               [] input[a].kind = "quarantine" -> <<"quarantine", input[a].id, input[a].evidence>>
               [] OTHER                        -> <<input[a].kind, input[a].id>>

\* An id is published once; what a version or a quarantine is about must exist.
refused(a) ==
  LET in == input[a] IN
  \/ in.kind \in {"defense", "version"} /\ <<in.kind, in.id>> \in stored
  \/ in.kind = "version" /\ <<"defense", in.dedup>> \notin stored
  \/ in.kind \in {"replay", "quarantine"} /\ <<"version", in.id>> \notin stored

Write(a) ==
  /\ pc[a] = "write"
  /\ IF refused(a)
       THEN /\ pc' = [pc EXCEPT ![a] = "abandon"]
            /\ UNCHANGED <<result, faults, operations, stored>>
       ELSE /\ result' = [result EXCEPT ![a] = Result(a, "accepted", input[a].id)]
            /\ IF input[a].kind = "quarantine"
                 THEN operations' = operations \cup {writes(a)} /\ UNCHANGED stored
                 ELSE stored' = stored \cup {writes(a)} /\ UNCHANGED operations
            /\ Goes(a, "complete", "abandon")
  /\ UNCHANGED <<idem, input, answer, lapses, receipts, objects, purgeVars>>

(***************************************************************************)
(* The retention command.                                                  *)
(***************************************************************************)
expired == {r \in Ids : receipts[r] # NoRow /\ receipts[r].uri # NoUri /\ receipts[r].old}

\* Evidence grows older than the cutoff, which a run of the command fixes.
Ages(r) ==
  /\ purge = Idle
  /\ receipts[r] # NoRow /\ ~ receipts[r].old
  /\ receipts' = [receipts EXCEPT ![r].old = TRUE]
  /\ UNCHANGED <<writeVars, objects, operations, stored, purgeVars>>

lists(batch) ==
  /\ batch \subseteq expired
  /\ Cardinality(batch) = IF Cardinality(expired) < Limit THEN Cardinality(expired) ELSE Limit

List(batch) ==
  /\ purge.at \in {"idle", "list"} /\ expired # {} /\ lists(batch)
  /\ purge' = [at |-> "delete", left |-> batch, full |-> Cardinality(batch) = Limit]
  /\ UNCHANGED <<writeVars, storeVars, undone>>

Delete(r) ==
  /\ purge.at = "delete" /\ r \in purge.left
  /\ objects' = objects \ {receipts[r].uri}
  /\ purge' = [purge EXCEPT !.at = r]
  /\ UNCHANGED <<writeVars, receipts, operations, stored, undone>>

\* Mutant: one batch is all.
nextBatchNever(left) == IF left = {} THEN Idle ELSE [purge EXCEPT !.at = "delete", !.left = left]

nextBatch(left) ==
  CASE left # {}                 -> [purge EXCEPT !.at = "delete", !.left = left]
    [] left = {} /\ purge.full   -> [Idle EXCEPT !.at = "list"]
    [] left = {} /\ ~ purge.full -> Idle

Mark(r) ==
  /\ purge.at = r
  /\ receipts' = [receipts EXCEPT ![r].uri = NoUri]
  /\ purge' = nextBatch(purge.left \ {r})
  /\ UNCHANGED <<writeVars, objects, operations, stored, undone>>

NothingLeft ==
  /\ purge.at = "list" /\ expired = {}
  /\ purge' = Idle
  /\ UNCHANGED <<writeVars, storeVars, undone>>

PurgeDies ==
  /\ purge # Idle
  /\ faults < MaxFaults /\ faults' = faults + 1
  /\ purge' = Idle
  /\ UNCHANGED <<idem, pc, input, result, answer, lapses, storeVars, undone>>

-----------------------------------------------------------------------------
onError(l) == IF l \in {"save", "drop", "enqueue"} THEN "undo" ELSE "abandon"

Step(a) ==
  \/ \E in \in Inputs : /\ Receive(a, in, IF in.kind = "receipt" THEN "put" ELSE "write")
                        /\ UNCHANGED <<storeVars, purgeVars>>
  \/ Put(a) \/ Save(a) \/ Drop(a) \/ Enqueue(a) \/ Undo(a) \/ Write(a)
  \/ /\ \/ Complete(a) \/ Answer(a) \/ Abandon(a)
        \/ AbandonFails(a) \/ Fails(a, onError(pc[a])) \/ Dies(a)
     /\ UNCHANGED <<storeVars, purgeVars>>

Retention ==
  \/ \E batch \in SUBSET expired : List(batch)
  \/ \E r \in Ids : Ages(r) \/ Delete(r) \/ Mark(r)
  \/ NothingLeft \/ PurgeDies

Next ==
  \/ \E a \in Attempts : Step(a)
  \/ \E k \in Keys : LeaseEnds(k) /\ UNCHANGED <<storeVars, purgeVars>>
  \/ Retention

Spec == Init /\ [][Next]_vars

-----------------------------------------------------------------------------
\* The values that the stores, the requests and the retention command take.
TypeOK ==
  /\ idem \in [Keys -> Entries \cup {NoEntry}]
  /\ pc \in [Attempts -> Awaits]
  /\ input \in [Attempts -> Inputs \cup {NoInput}]
  /\ result \in [Attempts -> Results \cup {NoResult}]
  /\ answer \in [Attempts -> Results \cup {NoResult, Problem}]
  /\ faults \in 0 .. MaxFaults /\ lapses \in 0 .. MaxLapses
  /\ receipts \in [Ids -> Rows \cup {NoRow}]
  /\ objects \in SUBSET Uris /\ undone \in SUBSET Uris
  /\ purge \in Purges

Recorded(in, res) ==
  CASE in.kind = "receipt" ->
         /\ receipts[res.id] # NoRow
         /\ receipts[res.id].tenant = in.tenant /\ receipts[res.id].dedup = in.dedup
         /\ in.publish => <<"receipt", res.id>> \in operations
    [] in.kind = "replay"     -> <<"replay", res.request>> \in stored
    [] in.kind = "quarantine" -> <<"quarantine", in.id, in.evidence>> \in operations
    [] OTHER                  -> <<in.kind, in.id>> \in stored

\* What a client was told has happened is in the database: the receipt it named
\* belongs to its tenant and deduplication key, the operation it was promised is in
\* the outbox, through every retry, crash and replayed answer (service.ts 146-162).
AckedIsStored ==
  \A a \in Attempts : Succeeded(a) => Recorded(input[a], answer[a])

effects(k) == {a \in Attempts : input[a] # NoInput /\ input[a].key = k /\ <<"replay", a>> \in stored}

\* A key takes effect again only after a misfortune: each replay scheduled under a
\* key beyond the first has a failed call, a crash or a claim that ran out to
\* account for it (http.ts 349-368: the error path gives the key back).
RepeatsHaveCause ==
  \A k \in Keys : Cardinality(effects(k)) <= 1 + faults + lapses

\* Evidence that a row names is missing only because an error cleaned it up or
\* because it was old: a duplicate never takes the object of the row it
\* duplicates, nor, if evidence identifies its receipt, does another receipt
\* (service.ts 148-151).
EvidenceLossHasCause ==
  \A r \in Ids : (receipts[r] # NoRow /\ receipts[r].uri # NoUri /\ receipts[r].uri \notin objects)
                   => receipts[r].old \/ receipts[r].uri \in undone

\* A run of the retention command that ends by itself leaves no evidence older than
\* its cutoff referred to, however many batches that takes (retention.ts 28-33).
PurgeComplete ==
  [][purge # Idle /\ purge' = Idle /\ faults' = faults => expired' = {}]_vars

\* The retry of an accepted receipt, with the object its row names, never deletes
\* that object (ADR 0008: "an exact crash retry never deletes the object already
\* referenced by the accepted receipt").
ExactRetryKeepsEvidence ==
  [][\A a \in Attempts :
       (/\ pc[a] # pc'[a] /\ result[a] # NoResult /\ result[a].status = "duplicate"
        /\ receipts[result[a].id].uri = uri(input[a]) /\ uri(input[a]) \in objects)
         => uri(input[a]) \in objects']_vars
================================================================================
