------------------------------ MODULE JobsProofs ------------------------------
(***************************************************************************)
(* Theorems of ValidationJobs and ValidatorCli, for any replays, workers,  *)
(* validators, authors and bounds.                                         *)
(*                                                                         *)
(* A job belongs to a completed replay because a replay that a worker is   *)
(* executing, saving or failing is running and no other worker's: nobody   *)
(* is left to fail it once its report is stored.  A validator has one      *)
(* attestation on its way to the chain because an attestation is in the    *)
(* workspace before its operation is, and stays there.                     *)
(***************************************************************************)
EXTENDS ValidatorCli, FiniteSetTheorems, TLAPS

Attestations == [validator : Validators, id : Nat, claim : Nat, report : Nat]
Reports == [serial : Nat, claim : Nat]
JobRows == [status : {"none", "open", "claimed", "submitted"}, by : Validators \cup {Nobody},
            live : BOOLEAN, claim : Nat, attestation : Attestations \cup {NoAttestation}]
WorkerPlaces == {"idle", "execute", "save", "job", "fail", "failWithReport"}

ServerTypeOK ==
  /\ replay \in [Replays -> ReplayStatus]
  /\ worker \in [Workers -> [at : WorkerPlaces, replay : Replays \cup {NoReplay}]]
  /\ job \in [Replays -> JobRows]

\* The worker that claimed a replay has it to itself until the report is stored.
Owns(w) == worker[w].at \in {"execute", "save", "fail"}

ClaimedByOne ==
  /\ \A w \in Workers :
       /\ worker[w].at # "idle" => worker[w].replay \in Replays
       /\ Owns(w) => replay[worker[w].replay] = "running"
       /\ worker[w].at = "job" => replay[worker[w].replay] = "completed"
  /\ \A w, x \in Workers :
       Owns(w) /\ Owns(x) /\ worker[w].replay = worker[x].replay => w = x

CliPlaces == {"idle", "saveJob", "saveReport", "saveAttestation", "enqueue", "run", "complete"}
CliRows == [at : CliPlaces, replay : Replays \cup {NoReplay},
            attestation : Attestations \cup {NoAttestation}, report : Reports \cup {NoReport}]
WorkRows == [claim : Nat, report : Reports \cup {NoReport},
             attestation : Attestations \cup {NoAttestation}]

CliTypeOK ==
  /\ cli \in [Validators -> CliRows]
  /\ workspace \in [Validators -> [Replays -> WorkRows]]
  /\ answered \in [Validators -> [Replays -> Nat]]
  /\ signed \in [Validators -> [Replays -> Nat]]
  /\ DOMAIN operation = Validators
  /\ \A v \in Validators : DOMAIN operation[v] = Replays

\* What is in a workspace as an attestation of v was signed by v.
Own(v) == \A r \in Replays :
  workspace[v][r].attestation # NoAttestation => workspace[v][r].attestation.validator = v

\* Where the attestation of a command is, and the operations it may have.
Saved(v) ==
  LET r == cli[v].replay IN
  /\ cli[v].at # "idle" => r \in Replays
  /\ cli[v].at \in {"saveAttestation", "enqueue", "run", "complete"} =>
       cli[v].attestation \in Attestations /\ cli[v].attestation.validator = v
  /\ cli[v].at = "saveAttestation" => workspace[v][r].attestation = NoAttestation
  /\ cli[v].at \in {"enqueue", "run", "complete"} =>
       workspace[v][r].attestation = cli[v].attestation

SavedFirst == \A v \in Validators : Saved(v)

OwnSaved == \A v \in Validators : Own(v)

OperationOfSaved ==
  \A v \in Validators, r \in Replays :
    \A i \in DOMAIN operation[v][r] :
      /\ workspace[v][r].attestation # NoAttestation
      /\ i = workspace[v][r].attestation.id


(***************************************************************************)
(* Replays and their jobs.                                                 *)
(***************************************************************************)
ServerInv == ServerTypeOK /\ ClaimedByOne /\ JobOfCompletedReplay

\* The values of the start are values of the types.
LEMMA ConstantRows ==
  NoJob \in JobRows /\ NoJob.status = "none" /\ Resting.at = "idle"
  /\ Resting \in [at : WorkerPlaces, replay : Replays \cup {NoReplay}]
BY DEF NoJob, JobRows, Resting, WorkerPlaces

\* What a worker does keeps the types, its claim and the replays of the jobs.
LEMMA WorkerKeeps ==
  ASSUME ServerInv, NEW w \in Workers, WorkerStep(w)
  PROVE  ServerInv'
<1> USE DEF ServerInv, ServerTypeOK, ClaimedByOne, Owns, JobOfCompletedReplay
<1> USE ConstantRows
<1>1. ASSUME NEW r \in Replays, claimNextReplay(w, r) PROVE ServerInv'
  <2>1. ServerTypeOK'
    BY <1>1 DEF claimNextReplay, ReplayStatus, WorkerPlaces
  <2>2. ClaimedByOne'
    BY <1>1 DEF claimNextReplay
  <2>3. QED BY <1>1, <2>1, <2>2 DEF claimNextReplay
<1>2. CASE Execute(w)
  BY <1>2 DEF Execute, At, WorkerPlaces
<1>3. CASE SaveReplay(w)
  <2>1. worker'[w].at \in {"job", "failWithReport"} /\ worker'[w].replay = worker[w].replay
    BY <1>3 DEF SaveReplay, Proceeds, At
  <2>2. \A x \in Workers \ {w} : worker'[x] = worker[x]
    BY <1>3 DEF SaveReplay, Proceeds, At
  <2>3. ServerTypeOK'
    BY <1>3 DEF SaveReplay, Proceeds, At, WorkerPlaces, ReplayStatus
  <2>4. ClaimedByOne'
    BY <1>3, <2>1, <2>2 DEF SaveReplay
  <2>5. QED BY <1>3, <2>3, <2>4 DEF SaveReplay
<1>4. CASE SaveValidationJob(w)
  <2> DEFINE r == worker[w].replay
  <2>1. r \in Replays /\ replay[r] = "completed" /\ UNCHANGED replay
    BY <1>4 DEF SaveValidationJob
  <2>2. job' \in [Replays -> JobRows] /\ \A x \in Replays \ {r} : job'[x] = job[x]
    <3>1. [NoJob EXCEPT !.status = "open"] \in JobRows
      BY DEF NoJob, JobRows
    <3>2. QED BY <1>4, <2>1, <3>1 DEF SaveValidationJob
  <2>3. worker' \in [Workers -> [at : WorkerPlaces, replay : Replays \cup {NoReplay}]]
    BY <1>4 DEF SaveValidationJob, At, WorkerPlaces
  <2>4. /\ worker'[w].at \in {"idle", "failWithReport"}
        /\ worker'[w].at # "idle" => worker'[w].replay = r
        /\ \A x \in Workers \ {w} : worker'[x] = worker[x]
    BY <1>4 DEF SaveValidationJob, At
  <2>5. ClaimedByOne'
    BY <2>1, <2>4
  <2>6. QED BY <2>1, <2>2, <2>3, <2>5
<1>5. CASE SaveFails(w)
  BY <1>5 DEF SaveFails, At, WorkerPlaces
<1>6. CASE FailReplay(w)
  <2>1. worker' = [worker EXCEPT ![w] = Resting] /\ UNCHANGED job
    BY <1>6 DEF FailReplay
  <2>2. CASE worker[w].at = "fail"
    <3>1. replay' = [replay EXCEPT ![worker[w].replay] = "failed"]
          /\ replay[worker[w].replay] = "running" /\ worker[w].replay \in Replays
      BY <1>6, <2>2 DEF FailReplay
    <3>2. ServerTypeOK'
      BY <2>1, <3>1 DEF ReplayStatus
    <3>3. ClaimedByOne'
      BY <2>1, <2>2, <3>1
    <3>4. QED BY <2>1, <3>1, <3>2, <3>3
  <2>3. CASE worker[w].at # "fail"
    BY <1>6, <2>1, <2>3 DEF FailReplay
  <2>4. QED BY <2>2, <2>3
<1>7. CASE WorkerDies(w)
  BY <1>7 DEF WorkerDies
<1>8. QED BY <1>1, <1>2, <1>3, <1>4, <1>5, <1>6, <1>7 DEF WorkerStep

\* What is done with a job keeps its row, and does nothing to one that is not there.
LEMMA JobChange ==
  ASSUME ServerTypeOK, CliTypeOK, NEW r \in Replays, NEW v \in Validators,
         \/ LeaseLapses(r)
         \/ claimValidationJob(v, r)
         \/ /\ completeValidationJob(v, r, cli[v].attestation)
            /\ cli[v].attestation \in Attestations
  PROVE  /\ job' \in [Replays -> JobRows]
         /\ job[r].status \in {"open", "claimed"}
         /\ \A x \in Replays \ {r} : job'[x] = job[x]
         /\ job'[r].by # job[r].by => job[r].status = "open" \/ ~ job[r].live
         /\ job'[r].status = "submitted" =>
              /\ job[r].by = v /\ job'[r].by = v
              /\ job'[r].attestation = cli[v].attestation
              /\ ~ claimValidationJob(v, r)
<1> USE DEF ServerTypeOK
<1>1. job[r] \in JobRows
  OBVIOUS
<1>2. CASE LeaseLapses(r)
  BY <1>1, <1>2 DEF LeaseLapses, JobRows
<1>3. CASE claimValidationJob(v, r)
  <2> DEFINE row == [job[r] EXCEPT !.status = "claimed", !.by = v, !.live = TRUE, !.claim = @ + 1]
  <2>1. job' = [job EXCEPT ![r] = row] /\ claimable(v, r)
    BY <1>3 DEF claimValidationJob
  <2>2. job[r].claim \in Nat /\ job[r].claim + 1 \in Nat
    BY <1>1 DEF JobRows
  <2>3. row \in JobRows /\ row.by = v /\ row.status = "claimed"
    BY <1>1, <2>2 DEF JobRows
  <2>4. QED BY <2>1, <2>3 DEF claimable
<1>4. claimValidationJob(v, r) => job'[r].status = "claimed"
  <2> DEFINE row == [job[r] EXCEPT !.status = "claimed", !.by = v, !.live = TRUE, !.claim = @ + 1]
  <2>1. row.status = "claimed"
    BY <1>1 DEF JobRows
  <2>2. QED BY <2>1 DEF claimValidationJob
<1>5. CASE completeValidationJob(v, r, cli[v].attestation) /\ cli[v].attestation \in Attestations
  <2> DEFINE a == cli[v].attestation
  <2> DEFINE row == [job[r] EXCEPT !.status = "submitted", !.live = FALSE, !.attestation = a]
  <2>1. job' = [job EXCEPT ![r] = row] /\ job[r].status = "claimed" /\ job[r].by = v
    BY <1>5 DEF completeValidationJob
  <2>2. row \in JobRows /\ row.by = job[r].by /\ row.attestation = a
    BY <1>1, <1>5 DEF JobRows
  <2>3. QED BY <1>4, <2>1, <2>2
<1>6. QED BY <1>2, <1>3, <1>5

\* A job that changes was there before.
LEMMA JobChangeKeeps ==
  ASSUME ServerInv, CliTypeOK, NEW r \in Replays, NEW v \in Validators,
         UNCHANGED replayVars,
         \/ LeaseLapses(r)
         \/ claimValidationJob(v, r)
         \/ /\ completeValidationJob(v, r, cli[v].attestation)
            /\ cli[v].attestation \in Attestations
  PROVE  ServerInv'
<1>1. /\ job' \in [Replays -> JobRows]
      /\ job[r].status \in {"open", "claimed"}
      /\ \A x \in Replays \ {r} : job'[x] = job[x]
  BY JobChange DEF ServerInv
<1>2. job[r] # NoJob
  BY <1>1, ConstantRows
<1>3. QED BY <1>1, <1>2 DEF ServerInv, ServerTypeOK, ClaimedByOne, Owns, JobOfCompletedReplay, replayVars

\* The invariant is about the server's variables only.
LEMMA ServerStays == ServerInv /\ UNCHANGED <<replayVars, job>> => ServerInv'
BY DEF ServerInv, ServerTypeOK, ClaimedByOne, Owns, JobOfCompletedReplay, replayVars

(***************************************************************************)
(* The commands.                                                           *)
(***************************************************************************)
CliInv == CliTypeOK /\ SavedFirst /\ OwnSaved /\ OperationOfSaved

\* The invariant of the commands is of their variables only.
LEMMA CliStays == CliInv /\ UNCHANGED cliVars => CliInv'
BY DEF CliInv, CliTypeOK, SavedFirst, Saved, OwnSaved, Own, OperationOfSaved, cliVars

\* No attestation is none.
LEMMA AttestationThere == \A a \in Attestations : a # NoAttestation
BY CliAssumption, Zenon DEF Attestations

\* A command that is not running is a value of the type.
LEMMA TerminalRow ==
  Terminal \in CliRows /\ Terminal.at = "idle"
BY DEF Terminal, CliRows, CliPlaces

\* A command that ends leaves the workspaces and operations as they are.
LEMMA ExitKeeps ==
  ASSUME CliInv, NEW v \in Validators, Exit(v),
         UNCHANGED <<workspace, answered, operation, signed>>
  PROVE  CliInv'
BY TerminalRow DEF CliInv, CliTypeOK, SavedFirst, Saved, OwnSaved, Own, OperationOfSaved, Exit

\* A command begins at a place where it has no attestation yet.
LEMMA StartKeeps ==
  ASSUME CliInv, NEW v \in Validators, NEW r \in Replays,
         NEW row \in CliRows, row.at \in {"saveJob", "saveReport"}, row.replay = r,
         cli' = [cli EXCEPT ![v] = row],
         UNCHANGED <<workspace, operation, signed>>,
         answered' \in [Validators -> [Replays -> Nat]]
  PROVE  CliInv'
<1> USE DEF CliInv
<1>1. cli' \in [Validators -> CliRows] /\ cli'[v] = row
      /\ \A u \in Validators \ {v} : cli'[u] = cli[u]
  BY DEF CliTypeOK
<1>2. SavedFirst'
  BY <1>1 DEF SavedFirst, Saved
<1>3. OwnSaved'
  BY DEF OwnSaved, Own
<1>4. QED BY <1>1, <1>2, <1>3 DEF CliTypeOK, OperationOfSaved

\* A command that attests.
LEMMA AttestKeeps ==
  ASSUME ServerTypeOK, CliInv, NEW v \in Validators, NEW r \in Replays, Attest(v, r)
  PROVE  CliInv'
<1> DEFINE w == workspace[v][r]
<1> DEFINE again == [at |-> "enqueue", replay |-> r, report |-> w.report, attestation |-> w.attestation]
<1> DEFINE anew == [at |-> "saveAttestation", replay |-> r, report |-> w.report,
                    attestation |-> createSignedAttestation(v, r)]
<1> USE DEF CliInv, CliTypeOK
<1>1. /\ w \in WorkRows /\ w.report # NoReport /\ UNCHANGED <<workspace, answered, operation>>
      /\ job[r].claim \in Nat /\ signed[v][r] \in Nat
  BY DEF Attest, ServerTypeOK, JobRows
<1>5. OwnSaved'
  BY <1>1 DEF OwnSaved, Own
<1>2. CASE w.attestation # NoAttestation
  <2>1. again \in CliRows /\ again.at = "enqueue" /\ again.replay = r
        /\ again.attestation = w.attestation /\ w.attestation \in Attestations
        /\ w.attestation.validator = v
    BY <1>1, <1>2 DEF WorkRows, CliRows, CliPlaces, OwnSaved, Own
  <2>2. cli' = [cli EXCEPT ![v] = again] /\ UNCHANGED signed
    BY <1>2 DEF Attest
  <2>3. SavedFirst'
    BY <1>1, <2>1, <2>2 DEF SavedFirst, Saved
  <2>4. QED BY <1>1, <1>5, <2>1, <2>2, <2>3 DEF OperationOfSaved
<1>3. CASE w.attestation = NoAttestation
  <2>1. createSignedAttestation(v, r) \in Attestations
          /\ createSignedAttestation(v, r).validator = v
    BY <1>1 DEF createSignedAttestation, Attestations, WorkRows, Reports
  <2>2. anew \in CliRows /\ anew.at = "saveAttestation" /\ anew.replay = r
        /\ anew.attestation \in Attestations /\ anew.attestation.validator = v
    BY <1>1, <2>1 DEF WorkRows, CliRows, CliPlaces
  <2>3. cli' = [cli EXCEPT ![v] = anew] /\ signed' = [signed EXCEPT ![v][r] = @ + 1]
    BY <1>3 DEF Attest
  <2>4. signed' \in [Validators -> [Replays -> Nat]]
    BY <2>3, <1>1
  <2>5. SavedFirst'
    BY <1>1, <1>3, <2>2, <2>3 DEF SavedFirst, Saved
  <2>6. QED BY <1>1, <1>5, <2>2, <2>3, <2>4, <2>5 DEF OperationOfSaved
<1>4. QED BY <1>2, <1>3

\* The awaits of a command.
LEMMA CommandKeeps ==
  ASSUME CliInv, NEW v \in Validators, Command(v)
  PROVE  CliInv'
<1> DEFINE r == cli[v].replay
<1> USE DEF CliInv, CliTypeOK
<1>1. cli[v] \in CliRows /\ (cli[v].at # "idle" => r \in Replays /\ workspace[v][r] \in WorkRows)
  BY DEF SavedFirst, Saved
<1>2. ASSUME SaveJob(v) \/ SaveReport(v) PROVE CliInv'
  <2>1. r \in Replays /\ workspace[v][r] \in WorkRows /\ answered[v][r] \in Nat
    BY <1>1, <1>2 DEF SaveJob, SaveReport
  <2>2. PICK row \in WorkRows : /\ workspace' = [workspace EXCEPT ![v][r] = row]
                                /\ row.attestation = workspace[v][r].attestation
    <3>1. CASE SaveJob(v)
      <4>1. [workspace[v][r] EXCEPT !.claim = answered[v][r]] \in WorkRows
        BY <2>1 DEF WorkRows
      <4>2. QED BY <3>1, <4>1, <2>1 DEF SaveJob, Saves, work, WorkRows
    <3>2. CASE SaveReport(v)
      <4>1. [workspace[v][r] EXCEPT !.report = cli[v].report] \in WorkRows
        BY <1>1, <2>1 DEF WorkRows, CliRows
      <4>2. QED BY <3>2, <4>1, <2>1 DEF SaveReport, Saves, work, WorkRows
    <3>3. QED BY <1>2, <3>1, <3>2
  <2>3. Exit(v) /\ UNCHANGED <<answered, operation, signed>>
    BY <1>2 DEF SaveJob, SaveReport
  <2>4. \A u \in Validators, x \in Replays :
          workspace'[u][x].attestation = workspace[u][x].attestation
    BY <2>1, <2>2
  <2>5. workspace' \in [Validators -> [Replays -> WorkRows]]
    BY <2>1, <2>2
  <2>6. cli' \in [Validators -> CliRows] /\ cli'[v].at = "idle"
        /\ \A u \in Validators \ {v} : cli'[u] = cli[u]
    BY <2>3, TerminalRow DEF Exit
  <2>7. SavedFirst'
    <3> SUFFICES ASSUME NEW u \in Validators PROVE Saved(u)'
      BY DEF SavedFirst
    <3>1. CASE u = v
      BY <2>6, <3>1 DEF Saved
    <3>2. CASE u # v
      <4>1. cli'[u] = cli[u] /\ Saved(u)
        BY <2>6, <3>2 DEF SavedFirst
      <4>2. QED BY <2>4, <4>1 DEF Saved
    <3>3. QED BY <3>1, <3>2
  <2>8. OperationOfSaved'
    BY <2>3, <2>4 DEF OperationOfSaved
  <2>9. OwnSaved'
    <3> SUFFICES ASSUME NEW u \in Validators, NEW x \in Replays,
                        workspace'[u][x].attestation # NoAttestation
                 PROVE  workspace'[u][x].attestation.validator = u
      BY DEF OwnSaved, Own
    <3>1. workspace'[u][x].attestation = workspace[u][x].attestation
      BY <2>4
    <3>2. QED BY <3>1 DEF OwnSaved, Own
  <2>10. QED BY <2>3, <2>5, <2>6, <2>7, <2>8, <2>9
<1>3. CASE SaveAttestation(v)
  <2> DEFINE row == [workspace[v][r] EXCEPT !.attestation = cli[v].attestation]
  <2>1. /\ r \in Replays /\ workspace[v][r] \in WorkRows
        /\ cli[v].attestation \in Attestations /\ cli[v].attestation.validator = v
        /\ workspace[v][r].attestation = NoAttestation
    BY <1>1, <1>3 DEF SaveAttestation, SavedFirst, Saved
  <2>2. row \in WorkRows /\ row.attestation = cli[v].attestation
    BY <2>1 DEF WorkRows
  <2>3. /\ workspace' = [workspace EXCEPT ![v][r] = row]
        /\ cli' = [cli EXCEPT ![v].at = "enqueue"] /\ UNCHANGED <<answered, operation, signed>>
    BY <1>3 DEF SaveAttestation, Saves, work, Goto
  <2>4. /\ cli' \in [Validators -> CliRows] /\ cli'[v].at = "enqueue" /\ cli'[v].replay = r
        /\ cli'[v].attestation = cli[v].attestation /\ \A u \in Validators \ {v} : cli'[u] = cli[u]
    BY <1>1, <2>3 DEF CliRows, CliPlaces
  <2>5. workspace' \in [Validators -> [Replays -> WorkRows]]
    BY <2>1, <2>2, <2>3
  <2>6. /\ workspace'[v][r].attestation = cli[v].attestation
        /\ \A u \in Validators, x \in Replays :
             u # v \/ x # r => workspace'[u][x] = workspace[u][x]
    BY <2>1, <2>2, <2>3
  <2>7. DOMAIN operation[v][r] = {}
    BY <2>1 DEF OperationOfSaved
  <2>8. SavedFirst'
    BY <2>1, <2>4, <2>6 DEF SavedFirst, Saved
  <2>9. OperationOfSaved'
    BY <2>3, <2>6, <2>7 DEF OperationOfSaved
  <2>10. OwnSaved'
    <3> SUFFICES ASSUME NEW u \in Validators, NEW x \in Replays,
                        workspace'[u][x].attestation # NoAttestation
                 PROVE  workspace'[u][x].attestation.validator = u
      BY DEF OwnSaved, Own
    <3>1. CASE u = v /\ x = r
      BY <2>1, <2>6, <3>1
    <3>2. CASE u # v \/ x # r
      <4>1. workspace'[u][x] = workspace[u][x]
        BY <2>6, <3>2
      <4>2. QED BY <4>1 DEF OwnSaved, Own
    <3>3. QED BY <3>1, <3>2
  <2>11. QED BY <2>3, <2>4, <2>5, <2>8, <2>9, <2>10
<1>4. CASE EnqueueOperation(v)
  <2> DEFINE id == cli[v].attestation.id
  <2>1. r \in Replays /\ cli[v].attestation \in Attestations
        /\ cli[v].attestation.validator = v
        /\ workspace[v][r].attestation = cli[v].attestation
    BY <1>4 DEF EnqueueOperation, SavedFirst, Saved
  <2>2. /\ DOMAIN operation'[v][r] = DOMAIN operation[v][r] \cup {id}
        /\ DOMAIN operation' = Validators
        /\ \A u \in Validators : DOMAIN operation'[u] = Replays
        /\ \A u \in Validators, x \in Replays :
             u # v \/ x # r => operation'[u][x] = operation[u][x]
    BY <1>4, <2>1 DEF EnqueueOperation
  <2>3. cli' = [cli EXCEPT ![v].at = "run"] /\ UNCHANGED <<workspace, answered, signed>>
    BY <1>4 DEF EnqueueOperation, Goto
  <2>4. cli' \in [Validators -> CliRows] /\ cli'[v].at = "run" /\ cli'[v].replay = r
        /\ cli'[v].attestation = cli[v].attestation /\ \A u \in Validators \ {v} : cli'[u] = cli[u]
    BY <1>1, <2>3 DEF CliRows, CliPlaces
  <2>5. cli[v].attestation # NoAttestation
    BY <2>1, AttestationThere
  <2>6. SavedFirst'
    <3> SUFFICES ASSUME NEW u \in Validators PROVE Saved(u)'
      BY DEF SavedFirst
    <3>1. CASE u = v
      BY <2>1, <2>3, <2>4, <3>1 DEF Saved
    <3>2. CASE u # v
      <4>1. cli'[u] = cli[u] /\ Saved(u)
        BY <2>4, <3>2 DEF SavedFirst
      <4>2. QED BY <2>3, <4>1 DEF Saved
    <3>3. QED BY <3>1, <3>2
  <2>7. OperationOfSaved'
    <3> SUFFICES ASSUME NEW u \in Validators, NEW x \in Replays, NEW i \in DOMAIN operation'[u][x]
                 PROVE  /\ workspace[u][x].attestation # NoAttestation
                        /\ i = workspace[u][x].attestation.id
      BY <2>3 DEF OperationOfSaved
    <3>1. i \in DOMAIN operation[u][x] \/ (u = v /\ x = r /\ i = id)
      BY <2>2
    <3>2. QED BY <2>1, <2>5, <3>1 DEF OperationOfSaved
  <2>8. OwnSaved'
    BY <2>3 DEF OwnSaved, Own
  <2>9. QED BY <2>2, <2>3, <2>4, <2>6, <2>7, <2>8
<1>5. CASE RunOperation(v)
  <2>1. UNCHANGED <<workspace, answered, signed>>
    BY <1>5 DEF RunOperation
  <2>2. CASE Exit(v) /\ UNCHANGED operation
    BY <2>1, <2>2, ExitKeeps
  <2>3. CASE UNCHANGED cli
    <3> DEFINE id == cli[v].attestation.id
    <3>1. r \in Replays
      BY <1>5 DEF RunOperation, SavedFirst, Saved
    <3>2. PICK end : operation' = [operation EXCEPT ![v][r][id] = end] \/ UNCHANGED operation
      BY <1>5, Zenon DEF RunOperation
    <3> HIDE DEF id
    <3>3. /\ DOMAIN operation' = Validators
          /\ \A u \in Validators : DOMAIN operation'[u] = Replays
          /\ \A u \in Validators, x \in Replays : DOMAIN operation'[u][x] = DOMAIN operation[u][x]
      <4>1. CASE UNCHANGED operation
        BY <4>1
      <4>2. CASE operation' = [operation EXCEPT ![v][r][id] = end]
        <5> DEFINE ops == [operation[v][r] EXCEPT ![id] = end]
        <5>1. operation' = [operation EXCEPT ![v] = [operation[v] EXCEPT ![r] = ops]]
              /\ DOMAIN ops = DOMAIN operation[v][r]
          BY <4>2
        <5> HIDE DEF ops
        <5>2. QED BY <3>1, <5>1
      <4>3. QED BY <3>2, <4>1, <4>2
    <3>4. SavedFirst' /\ OwnSaved'
      BY <2>1, <2>3 DEF SavedFirst, Saved, OwnSaved, Own
    <3>5. QED BY <2>1, <2>3, <3>3, <3>4 DEF OperationOfSaved
  <2>4. QED BY <1>5, <2>2, <2>3 DEF RunOperation
<1>6. CASE OperationFailed(v) \/ Complete(v)
  BY <1>6, ExitKeeps DEF OperationFailed, Complete
<1>7. CASE Submit(v)
  <2>1. UNCHANGED <<workspace, answered, operation, signed>>
    BY <1>7 DEF Submit
  <2>2. CASE Exit(v)
    BY <2>1, <2>2, ExitKeeps
  <2>3. CASE Goto(v, "complete")
    <3>1. cli[v].at = "run"
      BY <1>7 DEF Submit
    <3>2. cli' \in [Validators -> CliRows] /\ cli'[v].at = "complete" /\ cli'[v].replay = r
          /\ cli'[v].attestation = cli[v].attestation
          /\ \A u \in Validators \ {v} : cli'[u] = cli[u]
      BY <1>1, <2>3 DEF Goto, CliRows, CliPlaces
    <3>3. SavedFirst'
      BY <2>1, <3>1, <3>2 DEF SavedFirst, Saved
    <3>4. OperationOfSaved'
      BY <2>1 DEF OperationOfSaved
    <3>5. OwnSaved'
      BY <2>1 DEF OwnSaved, Own
    <3>6. QED BY <2>1, <3>2, <3>3, <3>4, <3>5
  <2>4. QED BY <1>7, <2>2, <2>3 DEF Submit
<1>8. QED BY <1>2, <1>3, <1>4, <1>5, <1>6, <1>7 DEF Command

(***************************************************************************)
(* The invariant.                                                          *)
(***************************************************************************)
JobsInv == ServerInv /\ CliInv

\* At the start there is no job and no command.
LEMMA JobsInvInit == Init => JobsInv
<1> SUFFICES ASSUME Init PROVE JobsInv
  OBVIOUS
<1>1. NoWork \in WorkRows /\ NoWork.attestation = NoAttestation
  BY DEF NoWork, WorkRows
<1>2. ServerInv
  BY ConstantRows DEF Init, JobsInit, ServerInv, ServerTypeOK, ClaimedByOne, Owns,
                      JobOfCompletedReplay, ReplayStatus
<1>3. CliInv
  BY <1>1, TerminalRow DEF Init, CliInv, CliTypeOK, SavedFirst, Saved, OwnSaved, Own, OperationOfSaved
<1>4. QED BY <1>2, <1>3 DEF JobsInv

\* A command, or the request at its beginning, does to the server what JobChange
\* lets it do.
LEMMA ClaimKeeps ==
  ASSUME JobsInv, NEW v \in Validators, NEW r \in Replays, Claim(v, r)
  PROVE  JobsInv'
<1> DEFINE row == [Terminal EXCEPT !.at = "saveJob", !.replay = r]
<1>1. claimValidationJob(v, r) /\ UNCHANGED replayVars
  BY DEF Claim, claimValidationJob
<1>2. ServerInv'
  BY <1>1, JobChangeKeeps DEF JobsInv, CliInv
<1>3. row \in CliRows /\ row.at = "saveJob" /\ row.replay = r
  BY DEF Terminal, CliRows, CliPlaces
<1>4. job'[r].claim \in Nat
  BY <1>2 DEF ServerInv, ServerTypeOK, JobRows
<1>5. cli' = [cli EXCEPT ![v] = row] /\ UNCHANGED <<workspace, operation, signed>>
      /\ answered' = [answered EXCEPT ![v][r] = job'[r].claim]
  BY DEF Claim, Starts
<1>6. answered' \in [Validators -> [Replays -> Nat]]
  BY <1>4, <1>5 DEF JobsInv, CliInv, CliTypeOK
<1>7. CliInv'
  BY <1>3, <1>5, <1>6, StartKeeps DEF JobsInv
<1>8. QED BY <1>2, <1>7 DEF JobsInv

\* The replay of a job by a command keeps the invariant.
LEMMA VerifyKeeps ==
  ASSUME JobsInv, NEW v \in Validators, NEW r \in Replays, Verify(v, r)
  PROVE  JobsInv'
<1> DEFINE report == [serial |-> serial(v, r), claim |-> job[r].claim]
<1> DEFINE row == [Terminal EXCEPT !.at = "saveReport", !.replay = r, !.report = report]
<1>1. workspace[v][r] \in WorkRows /\ job[r].claim \in Nat
  BY DEF JobsInv, CliInv, CliTypeOK, ServerInv, ServerTypeOK, JobRows
<1>2. serial(v, r) \in Nat
  BY <1>1 DEF serial, WorkRows, Reports
<1>3. row \in CliRows /\ row.at = "saveReport" /\ row.replay = r
  BY <1>1, <1>2 DEF Terminal, CliRows, CliPlaces, Reports
<1>4. cli' = [cli EXCEPT ![v] = row] /\ UNCHANGED <<serverVars, workspace, answered, operation, signed>>
  BY DEF Verify
<1>5. CliInv'
  BY <1>3, <1>4, StartKeeps DEF JobsInv, CliInv, CliTypeOK
<1>6. QED BY <1>4, <1>5, ServerStays DEF JobsInv, serverVars

\* The steps of the invariant.
LEMMA JobsInvStep ==
  ASSUME JobsInv, [Next]_vars
  PROVE  JobsInv'
<1>1. CASE UNCHANGED vars
  BY <1>1, ServerStays, CliStays DEF JobsInv, vars, serverVars
<1>2. ASSUME NEW r \in Replays, createReplay(r) \/ LeaseLapses(r), UNCHANGED cliVars
      PROVE  JobsInv'
  <2>1. CliInv'
    BY <1>2, CliStays DEF JobsInv
  <2>2. CASE createReplay(r)
    <3>1. ServerInv'
      BY <2>2 DEF JobsInv, ServerInv, ServerTypeOK, ClaimedByOne, Owns, JobOfCompletedReplay,
                  createReplay, ReplayStatus
    <3>2. QED BY <2>1, <3>1 DEF JobsInv
  <2>3. CASE LeaseLapses(r)
    <3>1. /\ job' \in [Replays -> JobRows] /\ job[r] # NoJob /\ UNCHANGED replayVars
          /\ \A x \in Replays \ {r} : job'[x] = job[x]
      BY <2>3, ConstantRows DEF LeaseLapses, JobsInv, ServerInv, ServerTypeOK, JobRows
    <3>2. ServerInv'
      BY <3>1 DEF JobsInv, ServerInv, ServerTypeOK, ClaimedByOne, Owns,
                  JobOfCompletedReplay, replayVars
    <3>3. QED BY <2>1, <3>2 DEF JobsInv
  <2>4. QED BY <1>2, <2>2, <2>3
<1>3. ASSUME NEW w \in Workers, WorkerStep(w), UNCHANGED cliVars PROVE JobsInv'
  BY <1>3, WorkerKeeps, CliStays DEF JobsInv
<1>4. ASSUME NEW v \in Validators, NEW r \in Replays,
             Claim(v, r) \/ ClaimUnanswered(v, r) \/ ClaimReplayed(v, r) \/ Verify(v, r) \/ Attest(v, r)
      PROVE  JobsInv'
  <2>1. CASE ClaimUnanswered(v, r)
    BY <2>1, JobChangeKeeps, CliStays DEF JobsInv, CliInv, ClaimUnanswered, claimValidationJob
  <2>2. CASE ClaimReplayed(v, r)
    <3> DEFINE row == [Terminal EXCEPT !.at = "saveJob", !.replay = r]
    <3>1. row \in CliRows /\ row.at = "saveJob" /\ row.replay = r
      BY DEF Terminal, CliRows, CliPlaces
    <3>2. cli' = [cli EXCEPT ![v] = row]
          /\ UNCHANGED <<serverVars, workspace, answered, operation, signed>>
      BY <2>2 DEF ClaimReplayed, Starts
    <3>3. CliInv'
      BY <3>1, <3>2, StartKeeps DEF JobsInv, CliInv, CliTypeOK
    <3>4. QED BY <3>2, <3>3, ServerStays DEF JobsInv, serverVars
  <2>3. CASE Attest(v, r)
    BY <2>3, AttestKeeps, ServerStays DEF JobsInv, ServerInv, Attest, serverVars
  <2>4. QED BY <1>4, <2>1, <2>2, <2>3, ClaimKeeps, VerifyKeeps
<1>5. ASSUME NEW v \in Validators, Command(v) PROVE JobsInv'
  <2>1. CliInv'
    BY <1>5, CommandKeeps DEF JobsInv
  <2>2. CASE Complete(v)
    <3> DEFINE r == cli[v].replay
    <3>1. r \in Replays /\ cli[v].attestation \in Attestations
      BY <2>2 DEF Complete, JobsInv, CliInv, SavedFirst, Saved
    <3>2. UNCHANGED replayVars
          /\ (completeValidationJob(v, r, cli[v].attestation) \/ UNCHANGED job)
      BY <2>2 DEF Complete
    <3>3. CASE completeValidationJob(v, r, cli[v].attestation)
      BY <2>1, <3>1, <3>2, <3>3, JobChangeKeeps DEF JobsInv, CliInv
    <3>4. CASE UNCHANGED job
      BY <2>1, <3>2, <3>4, ServerStays DEF JobsInv
    <3>5. QED BY <3>2, <3>3, <3>4
  <2>3. CASE ~ Complete(v)
    <3>1. UNCHANGED serverVars
      BY <1>5, <2>3 DEF Command, SaveJob, SaveReport, SaveAttestation, EnqueueOperation,
                        RunOperation, OperationFailed, Submit
    <3>2. QED BY <2>1, <3>1, ServerStays DEF JobsInv, serverVars
  <2>4. QED BY <2>2, <2>3
<1>6. ASSUME NEW v \in Validators, CommandDies(v) PROVE JobsInv'
  BY <1>6, ExitKeeps, ServerStays DEF JobsInv, CommandDies
<1>7. QED BY <1>1, <1>2, <1>3, <1>4, <1>5, <1>6 DEF Next

\* The invariant, always.
LEMMA JobsInvAlways == Spec => []JobsInv
<1>1. QED BY JobsInvInit, JobsInvStep, PTL DEF Spec

\* A validation job belongs to a replay whose report is stored, however many
\* workers there are and whatever fails or dies between the two statements.
THEOREM JobsHaveReports == Spec => []JobOfCompletedReplay
<1>1. JobsInv => JobOfCompletedReplay
  BY DEF JobsInv, ServerInv
<1>2. QED BY <1>1, JobsInvAlways, PTL

\* A validator has at most one attestation of a job on its way to the chain,
\* however often its commands die and are run again.
THEOREM AttestationsAreSingle == Spec => []OneAttestation
<1>1. JobsInv => OneAttestation
  <2> SUFFICES ASSUME JobsInv, NEW v \in Validators, NEW r \in Replays
               PROVE  Cardinality(DOMAIN operation[v][r]) <= 1
    BY DEF OneAttestation
  <2> DEFINE id == workspace[v][r].attestation.id
  <2>1. DOMAIN operation[v][r] = {} \/ DOMAIN operation[v][r] = {id}
    BY DEF JobsInv, CliInv, OperationOfSaved
  <2>2. Cardinality({}) = 0 /\ Cardinality({id}) = 1
    BY FS_EmptySet, FS_Singleton
  <2>3. QED BY <2>1, <2>2
<1>2. QED BY <1>1, JobsInvAlways, PTL

\* A submitted job stays, only a claim that ran out is taken over, and the attestation
\* submitted is that of the one who has the claim, whoever claims, verifies and submits
\* in between.
THEOREM ClaimsHold == Spec => ClaimsAreRespected
<1> DEFINE Respected(r) ==
      job[r].status # "none" /\ job'[r] # job[r] =>
        /\ job[r].status # "submitted"
        /\ job'[r].by # job[r].by => job[r].status = "open" \/ ~ job[r].live
        /\ job'[r].status = "submitted" =>
             job'[r].by = job[r].by /\ job'[r].attestation.validator = job[r].by
<1>1. ASSUME JobsInv, [Next]_vars PROVE [\A r \in Replays : Respected(r)]_serverVars
  <2>0. ServerTypeOK /\ CliTypeOK
    BY <1>1 DEF JobsInv, ServerInv, CliInv
  <2>1. SUFFICES ASSUME NEW r \in Replays, job[r].status # "none", job'[r] # job[r]
                 PROVE  /\ job[r].status # "submitted"
                        /\ job'[r].by # job[r].by => job[r].status = "open" \/ ~ job[r].live
                        /\ job'[r].status = "submitted" =>
                             job'[r].by = job[r].by /\ job'[r].attestation.validator = job[r].by
    OBVIOUS
  <2>2. CASE \E x \in Replays, v \in Validators :
               \/ claimValidationJob(v, x)
               \/ /\ completeValidationJob(v, x, cli[v].attestation)
                  /\ cli[v].attestation \in Attestations /\ cli[v].attestation.validator = v
    <3>1. PICK x \in Replays, v \in Validators :
               \/ claimValidationJob(v, x)
               \/ /\ completeValidationJob(v, x, cli[v].attestation)
                  /\ cli[v].attestation \in Attestations /\ cli[v].attestation.validator = v
      BY <2>2
    <3>2. /\ job[x].status \in {"open", "claimed"}
          /\ \A y \in Replays \ {x} : job'[y] = job[y]
          /\ job'[x].by # job[x].by => job[x].status = "open" \/ ~ job[x].live
          /\ job'[x].status = "submitted" =>
               job[x].by = v /\ job'[x].by = v /\ job'[x].attestation = cli[v].attestation
               /\ ~ claimValidationJob(v, x)
      BY <2>0, <3>1, JobChange
    <3>3. job'[x].status = "submitted" => cli[v].attestation.validator = v
      BY <3>1, <3>2
    <3>4. QED BY <2>1, <3>2, <3>3
  <2>3. CASE \E x \in Replays : LeaseLapses(x)
    BY <2>0, <2>1, <2>3 DEF LeaseLapses, ServerTypeOK, JobRows
  <2>4. CASE \E w \in Workers : SaveValidationJob(w)
    BY <2>0, <2>1, <2>4, ConstantRows DEF SaveValidationJob, ServerTypeOK
  <2>5. CASE UNCHANGED job
    BY <2>1, <2>5
  <2>6. QED
    <3>1. ASSUME NEW w \in Workers, WorkerStep(w) PROVE SaveValidationJob(w) \/ UNCHANGED job
      BY <3>1 DEF WorkerStep, claimNextReplay, Execute, SaveReplay, SaveFails, FailReplay, WorkerDies
    <3>2. ASSUME NEW v \in Validators, Command(v) \/ CommandDies(v)
          PROVE  \/ UNCHANGED job
                 \/ /\ completeValidationJob(v, cli[v].replay, cli[v].attestation)
                    /\ cli[v].replay \in Replays /\ cli[v].attestation \in Attestations /\ cli[v].attestation.validator = v
      <4>1. CASE Complete(v)
        BY <1>1, <4>1 DEF Complete, JobsInv, CliInv, SavedFirst, Saved
      <4>2. QED BY <3>2, <4>1 DEF Command, CommandDies, SaveJob, SaveReport, SaveAttestation,
                  EnqueueOperation, RunOperation, OperationFailed, Submit, serverVars
    <3>3. ASSUME NEW v \in Validators, NEW x \in Replays,
             Claim(v, x) \/ ClaimUnanswered(v, x) \/ ClaimReplayed(v, x) \/ Verify(v, x) \/ Attest(v, x)
          PROVE  UNCHANGED job \/ claimValidationJob(v, x)
      BY <3>3 DEF Claim, ClaimUnanswered, ClaimReplayed, Verify, Attest, serverVars
    <3>4. ASSUME NEW x \in Replays, createReplay(x) PROVE UNCHANGED job
      BY <3>4 DEF createReplay
    <3>5. UNCHANGED vars => UNCHANGED job
      BY DEF vars, serverVars
    <3>6. QED BY <1>1, <2>2, <2>3, <2>4, <2>5, <3>1, <3>2, <3>3, <3>4, <3>5 DEF Next
<1>2. QED BY <1>1, JobsInvAlways, PTL DEF Spec, ClaimsAreRespected
================================================================================
