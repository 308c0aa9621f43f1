------------------------------ MODULE ValidatorCli ------------------------------
(***************************************************************************)
(* Validators with the command line tool, beside the control plane of      *)
(* ValidationJobs.  Each runs one command at a time (claim, verify, attest)*)
(* against a workspace file that keeps jobs, reports, attestations and the *)
(* chain operation of each attestation; a command may die at any await and *)
(* is run again.                                                           *)
(*                                                                         *)
(* The three turns of the coordinator that attest makes are abstracted to  *)
(* the outcome of the operation (ChainOperations has them in detail): the  *)
(* contract takes one attestation of a validator for a version.            *)
(***************************************************************************)
EXTENDS ValidationJobs

CONSTANTS
  NoReport,
  MaxReports    \* bound: replays a validator runs for one job

ASSUME CliAssumption ==
  /\ MaxReports \in Nat \ {0}
  /\ NoAttestation \notin [validator : Validators, id : Nat, claim : Nat, report : Nat]
  /\ NoReport \notin [serial : Nat, claim : Nat]

VARIABLES
  cli,        \* cli[v]: the await of the command v runs, its job and what it has read
  workspace,  \* workspace[v][r]: state.json
  answered,   \* answered[v][r]: the claim stored under v's key claim-r (0: none)
  operation,  \* operation[v][r]: attestation id -> status of its chain operation
  signed      \* signed[v][r]: how many attestations v signed

cliVars == <<cli, workspace, answered, operation, signed>>
vars == <<serverVars, cliVars>>

Terminal == [at |-> "idle", replay |-> NoReplay, attestation |-> NoAttestation, report |-> NoReport]
NoWork == [claim |-> 0, report |-> NoReport, attestation |-> NoAttestation]

Init ==
  /\ JobsInit
  /\ cli = [v \in Validators |-> Terminal]
  /\ workspace = [v \in Validators |-> [r \in Replays |-> NoWork]]
  /\ answered = [v \in Validators |-> [r \in Replays |-> 0]]
  /\ operation = [v \in Validators |-> [r \in Replays |-> <<>>]]
  /\ signed = [v \in Validators |-> [r \in Replays |-> 0]]

Goto(v, l) == cli' = [cli EXCEPT ![v].at = l]
Exit(v) == cli' = [cli EXCEPT ![v] = Terminal]
Starts(v, r, l) == cli[v] = Terminal /\ cli' = [cli EXCEPT ![v] = [Terminal EXCEPT !.at = l, !.replay = r]]
work(v) == workspace[v][cli[v].replay]
Saves(v, w) == workspace' = [workspace EXCEPT ![v][cli[v].replay] = w]

(***************************************************************************)
(* jobs claim: the key of the request is claim-<job>, so the answer to the *)
(* first claim is the answer to every later one.                           *)
(***************************************************************************)
Claim(v, r) ==
  /\ answered[v][r] = 0
  /\ Starts(v, r, "saveJob")
  /\ claimValidationJob(v, r)
  /\ answered' = [answered EXCEPT ![v][r] = job'[r].claim]
  /\ UNCHANGED <<faults, workspace, operation, signed>>

\* The claim was made but its answer could not be stored: the key is given back.
ClaimUnanswered(v, r) ==
  /\ answered[v][r] = 0 /\ cli[v] = Terminal
  /\ claimValidationJob(v, r)
  /\ Misfortune
  /\ UNCHANGED cliVars

ClaimReplayed(v, r) ==
  /\ answered[v][r] # 0
  /\ Starts(v, r, "saveJob")
  /\ UNCHANGED <<serverVars, workspace, answered, operation, signed>>

SaveJob(v) ==
  /\ cli[v].at = "saveJob"
  /\ Saves(v, [work(v) EXCEPT !.claim = answered[v][cli[v].replay]])
  /\ Exit(v)
  /\ UNCHANGED <<serverVars, answered, operation, signed>>

(***************************************************************************)
(* verify                                                                  *)
(***************************************************************************)
\* The claim in the workspace is the one that the server has, and not over.
claimHolds(v, r) ==
  workspace[v][r].claim # 0 /\ workspace[v][r].claim = job[r].claim /\ job[r].live

serial(v, r) == IF workspace[v][r].report = NoReport THEN 1 ELSE workspace[v][r].report.serial + 1

Verify(v, r) ==
  /\ claimHolds(v, r) /\ serial(v, r) <= MaxReports
  /\ cli[v] = Terminal
  /\ cli' = [cli EXCEPT ![v] =
       [Terminal EXCEPT !.at = "saveReport", !.replay = r,
                        !.report = [serial |-> serial(v, r), claim |-> job[r].claim]]]
  /\ UNCHANGED <<serverVars, workspace, answered, operation, signed>>

SaveReport(v) ==
  /\ cli[v].at = "saveReport"
  /\ Saves(v, [work(v) EXCEPT !.report = cli[v].report])
  /\ Exit(v)
  /\ UNCHANGED <<serverVars, answered, operation, signed>>

(***************************************************************************)
(* attest                                                                  *)
(***************************************************************************)
\* A new attestation of the report in the workspace.
createSignedAttestation(v, r) ==
  [validator |-> v, id |-> signed[v][r] + 1, claim |-> job[r].claim,
   report |-> workspace[v][r].report.serial]

\* Mutant: the attestation is not saved.
AttestUnsaved(v, r) ==
  /\ cli[v] = Terminal /\ workspace[v][r].claim # 0 /\ workspace[v][r].report # NoReport
  /\ signed[v][r] < 2
  /\ signed' = [signed EXCEPT ![v][r] = @ + 1]
  /\ cli' = [cli EXCEPT ![v] =
       [at |-> "enqueue", replay |-> r, report |-> workspace[v][r].report,
        attestation |-> createSignedAttestation(v, r)]]
  /\ UNCHANGED <<serverVars, workspace, answered, operation>>

\* An attestation that is in the workspace is used again.
Attest(v, r) ==
  LET w == workspace[v][r] IN
  /\ cli[v] = Terminal /\ w.claim # 0 /\ w.report # NoReport
  /\ IF w.attestation # NoAttestation
       THEN /\ cli' = [cli EXCEPT ![v] =
                 [at |-> "enqueue", replay |-> r, report |-> w.report, attestation |-> w.attestation]]
            /\ UNCHANGED signed
       ELSE /\ cli' = [cli EXCEPT ![v] =
                 [at |-> "saveAttestation", replay |-> r, report |-> w.report,
                  attestation |-> createSignedAttestation(v, r)]]
            /\ signed' = [signed EXCEPT ![v][r] = @ + 1]
  /\ UNCHANGED <<serverVars, workspace, answered, operation>>

SaveAttestation(v) ==
  /\ cli[v].at = "saveAttestation"
  /\ Saves(v, [work(v) EXCEPT !.attestation = cli[v].attestation])
  /\ Goto(v, "enqueue")
  /\ UNCHANGED <<serverVars, answered, operation, signed>>

statusOf(v) == operation[v][cli[v].replay][cli[v].attestation.id]

\* The workspace returns the operation that it has for the attestation.
EnqueueOperation(v) ==
  LET id == cli[v].attestation.id IN
  /\ cli[v].at = "enqueue"
  /\ operation' = [operation EXCEPT ![v][cli[v].replay] =
       [i \in DOMAIN @ \cup {id} |-> IF i \in DOMAIN @ THEN @[i] ELSE "pending"]]
  /\ Goto(v, "run")
  /\ UNCHANGED <<serverVars, workspace, answered, signed>>

\* Three turns bring the operation to an end, or the command leaves it pending.  The
\* contract may refuse the attestation, and refuses a second one.
RunOperation(v) ==
  LET r == cli[v].replay
      Refused == \E i \in DOMAIN operation[v][r] : operation[v][r][i] = "confirmed" IN
  /\ cli[v].at = "run" /\ statusOf(v) = "pending"
  /\ \/ /\ \E end \in IF Refused THEN {"failed"} ELSE {"confirmed", "failed"} :
             operation' = [operation EXCEPT ![v][r][cli[v].attestation.id] = end]
        /\ UNCHANGED cli
     \/ Exit(v) /\ UNCHANGED operation
  /\ UNCHANGED <<serverVars, workspace, answered, signed>>

OperationFailed(v) ==
  /\ cli[v].at = "run" /\ statusOf(v) = "failed"
  /\ Exit(v)
  /\ UNCHANGED <<serverVars, workspace, answered, operation, signed>>

\* The server reads the job and checks; a refusal is an error of the command.
Submit(v) ==
  LET r == cli[v].replay IN
  /\ cli[v].at = "run" /\ statusOf(v) = "confirmed"
  /\ IF submittable(v, r, cli[v].attestation, cli[v].report)
       THEN Goto(v, "complete") ELSE Exit(v)
  /\ UNCHANGED <<serverVars, workspace, answered, operation, signed>>

Complete(v) ==
  LET r == cli[v].replay IN
  /\ cli[v].at = "complete"
  /\ \/ completeValidationJob(v, r, cli[v].attestation)
     \/ (job[r].status # "claimed" \/ job[r].by # v) /\ UNCHANGED job
  /\ Exit(v)
  /\ UNCHANGED <<replayVars, faults, lapses, workspace, answered, operation, signed>>

\* The command dies, or an await of it fails and it ends.
CommandDies(v) ==
  /\ cli[v] # Terminal
  /\ Exit(v) /\ Misfortune
  /\ UNCHANGED <<replayVars, job, lapses, workspace, answered, operation, signed>>

Command(v) ==
  \/ SaveJob(v) \/ SaveReport(v) \/ SaveAttestation(v) \/ EnqueueOperation(v)
  \/ RunOperation(v) \/ OperationFailed(v) \/ Submit(v) \/ Complete(v)

Next ==
  \/ /\ \/ \E r \in Replays : createReplay(r) \/ LeaseLapses(r)
        \/ \E w \in Workers : WorkerStep(w)
     /\ UNCHANGED cliVars
  \/ \E v \in Validators, r \in Replays :
       Claim(v, r) \/ ClaimUnanswered(v, r) \/ ClaimReplayed(v, r) \/ Verify(v, r) \/ Attest(v, r)
  \/ \E v \in Validators : Command(v) \/ CommandDies(v)

Spec == Init /\ [][Next]_vars

\* Workers and commands go on; a validator who has not submitted runs the next
\* command again and again, and an operation is not pending for ever.
Fairness ==
  /\ \A w \in Workers : WF_vars(Works(w) /\ UNCHANGED cliVars)
  /\ \A v \in Validators : WF_vars(Command(v))
  /\ \A v \in Validators, r \in Replays :
       /\ SF_vars(Claim(v, r) \/ ClaimReplayed(v, r))
       /\ SF_vars(Verify(v, r))
       /\ SF_vars(Attest(v, r))
  /\ \A v \in Validators : SF_vars(RunOperation(v) /\ operation' # operation)

FairSpec == Spec /\ Fairness

-----------------------------------------------------------------------------
\* Through deaths at any await, a validator's job has one attestation on its way
\* to the chain: a second would revert there and be the one that is remembered
\* (cli.ts 75-80 saves the attestation before its operation).
OneAttestation ==
  \A v \in Validators, r \in Replays : Cardinality(DOMAIN operation[v][r]) <= 1

confirmed(v, r) == \E i \in DOMAIN operation[v][r] : operation[v][r][i] = "confirmed"

reverified(v, r) ==
  LET w == workspace[v][r] IN
  w.report # NoReport /\ w.attestation # NoAttestation /\ w.report.serial # w.attestation.report

\* What was confirmed on the chain is recorded by the control plane in the end,
\* whatever command died on the way, unless its claim ran out or verify has put
\* another report in the place of the attested one (cli.ts 97-130).
ConfirmedIsRecorded ==
  \A v \in Validators, r \in Replays :
    confirmed(v, r) ~> \/ job[r].status = "submitted" \/ lapses > 0
                       \/ reverified(v, r)

\* The same when claims run out and are made again (service.ts 385: "Claim the
\* validation job again before submitting an attestation.").
ReclaimWorks ==
  \A v \in Validators, r \in Replays : confirmed(v, r) ~> job[r].status = "submitted"

\* A replay that was claimed comes to an end, also when its worker died (recovery.md
\* 8: "Replay stuck: allow the lease to expire ... and requeue the idempotent job").
ReplayRecovers == \A r \in Replays : replay[r] = "running" ~> replay[r] \in {"completed", "failed"}
================================================================================
