----------------------------- MODULE ValidationJobs -----------------------------
(***************************************************************************)
(* The control plane's replays and the validation jobs that come from them.*)
(* A worker claims a queued replay, executes it, stores its report and then*)
(* the job; validators claim a job for half an hour and submit an          *)
(* attestation of their own replay.  The validators are in ValidatorCli.   *)
(*                                                                         *)
(* Every await of a worker may fail, with or without its effect, and a     *)
(* worker may die at any of them.  Reports, bundles and identities are     *)
(* taken to verify; what is compared of times is which claim came first,   *)
(* so a claim has a number and a report that of the claim it ran under.    *)
(***************************************************************************)
EXTENDS Naturals, FiniteSets

CONSTANTS
  Replays,      \* replays, each of the version of a defense
  Workers,      \* processes that call runNextReplay
  Validators,   \* subjects with a validator identity
  Authors,      \* <<v, r>>: v is the author of the version that r replays
  NoReplay, Nobody, NoAttestation,
  MaxFaults,    \* bound: calls that fail and processes that die
  MaxLapses     \* bound: claims whose half hour ends

ASSUME JobsAssumption ==
  /\ NoReplay \notin Replays /\ Nobody \notin Validators
  /\ Authors \subseteq Validators \X Replays
  /\ MaxFaults \in Nat /\ MaxLapses \in Nat

VARIABLES
  replay,    \* replay[r]: the status of its row
  worker,    \* worker[w]: the await it is at, and the replay it has claimed
  job,       \* job[r]: the validation job of r
  faults, lapses

replayVars == <<replay, worker>>
serverVars == <<replayVars, job, faults, lapses>>

ReplayStatus == {"none", "queued", "running", "completed", "failed"}
NoJob == [status |-> "none", by |-> Nobody, live |-> FALSE, claim |-> 0, attestation |-> NoAttestation]
Resting == [at |-> "idle", replay |-> NoReplay]

JobsInit ==
  /\ replay = [r \in Replays |-> "none"]
  /\ worker = [w \in Workers |-> Resting]
  /\ job = [r \in Replays |-> NoJob]
  /\ faults = 0 /\ lapses = 0

Misfortune == faults < MaxFaults /\ faults' = faults + 1

createReplay(r) ==
  /\ replay[r] = "none"
  /\ replay' = [replay EXCEPT ![r] = "queued"]
  /\ UNCHANGED <<worker, job, faults, lapses>>

(***************************************************************************)
(* runNextReplay                                                           *)
(***************************************************************************)

claimNextReplay(w, r) ==
  /\ worker[w].at = "idle" /\ replay[r] = "queued"
  /\ replay' = [replay EXCEPT ![r] = "running"]
  /\ worker' = [worker EXCEPT ![w] = [at |-> "execute", replay |-> r]]
  /\ UNCHANGED <<job, faults, lapses>>

At(w, l) == worker' = [worker EXCEPT ![w].at = l]

\* The replay runs and its report verifies, or something throws.
Execute(w) ==
  /\ worker[w].at = "execute"
  /\ At(w, "save") \/ At(w, "fail")
  /\ UNCHANGED <<replay, job, faults, lapses>>

\* A statement took effect and returns, or is reported as failed all the same.
Proceeds(w, l) ==
  \/ At(w, l) /\ UNCHANGED faults
  \/ At(w, "failWithReport") /\ Misfortune

SaveReplay(w) ==
  /\ worker[w].at = "save"
  /\ replay' = [replay EXCEPT ![worker[w].replay] = "completed"]
  /\ Proceeds(w, "job")
  /\ UNCHANGED <<job, lapses>>

SaveValidationJob(w) ==
  LET r == worker[w].replay IN
  /\ worker[w].at = "job"
  /\ job' = [job EXCEPT ![r] = IF @ = NoJob THEN [NoJob EXCEPT !.status = "open"] ELSE @]
  /\ \/ worker' = [worker EXCEPT ![w] = Resting] /\ UNCHANGED faults
     \/ At(w, "failWithReport") /\ Misfortune
  /\ UNCHANGED <<replay, lapses>>

SaveFails(w) ==
  /\ worker[w].at \in {"save", "job"}
  /\ At(w, "failWithReport") /\ Misfortune
  /\ UNCHANGED <<replay, job, lapses>>

\* Mutant: the report is cleared, so that the row passes the CHECK.
FailReplayClears(w) ==
  /\ worker[w].at \in {"fail", "failWithReport"}
  /\ replay' = [replay EXCEPT ![worker[w].replay] = "failed"]
  /\ worker' = [worker EXCEPT ![w] = Resting]
  /\ UNCHANGED <<job, faults, lapses>>

\* A failed replay has no report (a CHECK of the table): once the report was
\* set, the statement is refused and the error leaves runNextReplay.
FailReplay(w) ==
  /\ worker[w].at \in {"fail", "failWithReport"}
  /\ replay' = IF worker[w].at = "fail"
                 THEN [replay EXCEPT ![worker[w].replay] = "failed"] ELSE replay
  /\ worker' = [worker EXCEPT ![w] = Resting]
  /\ UNCHANGED <<job, faults, lapses>>

WorkerDies(w) ==
  /\ worker[w] # Resting
  /\ worker' = [worker EXCEPT ![w] = Resting]
  /\ Misfortune
  /\ UNCHANGED <<replay, job, lapses>>

WorkerStep(w) ==
  \/ \E r \in Replays : claimNextReplay(w, r)
  \/ Execute(w) \/ SaveReplay(w) \/ SaveValidationJob(w) \/ SaveFails(w)
  \/ FailReplay(w) \/ WorkerDies(w)

\* What a worker does unless something goes wrong.
Works(w) ==
  \/ \E r \in Replays : claimNextReplay(w, r)
  \/ /\ Execute(w) \/ SaveReplay(w) \/ SaveValidationJob(w) \/ FailReplay(w)
     /\ UNCHANGED faults

(***************************************************************************)
(* The jobs.                                                               *)
(***************************************************************************)
LeaseLapses(r) ==
  /\ job[r].status = "claimed" /\ job[r].live
  /\ lapses < MaxLapses /\ lapses' = lapses + 1
  /\ job' = [job EXCEPT ![r].live = FALSE]
  /\ UNCHANGED <<replayVars, faults>>

claimable(v, r) ==
  /\ <<v, r>> \notin Authors
  /\ \/ job[r].status = "open"
     \/ job[r].status = "claimed" /\ (job[r].by = v \/ ~ job[r].live)

claimValidationJob(v, r) ==
  /\ claimable(v, r)
  /\ job' = [job EXCEPT ![r] =
       [job[r] EXCEPT !.status = "claimed", !.by = v, !.live = TRUE, !.claim = @ + 1]]
  /\ UNCHANGED <<replayVars, lapses>>

\* Mutant: a report and a signature of the time of the claim are too old.
submittableAfter(v, r, attestation, report) ==
  /\ job[r].status = "claimed" /\ job[r].by = v /\ job[r].live
  /\ attestation.validator = v /\ attestation.report = report.serial
  /\ attestation.claim > job[r].claim /\ report.claim > job[r].claim

\* The checks of submitValidatorAttestation on the job it has read: claimed by
\* v, half an hour not over, the attestation v's own and of this report, report and
\* signature not older than the claim.
submittable(v, r, attestation, report) ==
  /\ job[r].status = "claimed" /\ job[r].by = v /\ job[r].live
  /\ attestation.validator = v /\ attestation.report = report.serial
  /\ attestation.claim >= job[r].claim /\ report.claim >= job[r].claim

\* Mutant: the update at its end does not look at claimed_by.
completeClaimedJob(v, r, attestation) ==
  /\ job[r].status = "claimed"
  /\ job' = [job EXCEPT ![r] =
       [job[r] EXCEPT !.status = "submitted", !.live = FALSE, !.attestation = attestation]]

\* The update at its end looks at status and claimed_by only.
completeValidationJob(v, r, attestation) ==
  /\ job[r].status = "claimed" /\ job[r].by = v
  /\ job' = [job EXCEPT ![r] =
       [job[r] EXCEPT !.status = "submitted", !.live = FALSE, !.attestation = attestation]]

-----------------------------------------------------------------------------
\* A validation job belongs to a replay whose report is stored, whatever failed or
\* died between the statements that stored them (service.ts 311-340).
JobOfCompletedReplay ==
  \A r \in Replays : job[r] # NoJob => replay[r] = "completed"

\* A submitted job stays as it is, a claimed one changes hands only when its half
\* hour has run out, and what is submitted is the attestation of the validator who
\* has the claim then, although the claim was checked before a verification during
\* which it may have passed to another (repository.ts 642-669, service.ts 376-446).
ClaimsAreRespected ==
  [][\A r \in Replays :
       job[r].status # "none" /\ job'[r] # job[r] =>
         /\ job[r].status # "submitted"
         /\ job'[r].by # job[r].by => job[r].status = "open" \/ ~ job[r].live
         /\ job'[r].status = "submitted" =>
              job'[r].by = job[r].by /\ job'[r].attestation.validator = job[r].by]_serverVars
================================================================================
