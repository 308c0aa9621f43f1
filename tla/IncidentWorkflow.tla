----------------------------- MODULE IncidentWorkflow -----------------------------
(***************************************************************************)
(* The coordinator of incidents: one receipt, delivered again and again,   *)
(* becomes one issue, one alert and one page, in that order.               *)
(*                                                                         *)
(* A delivery is a call of coordinateIncident; every await of it is a step *)
(* and other deliveries of the receipt run in between.  A process holds    *)
(* one store, whose lock is in its memory and whose file is on the disk    *)
(* that all processes share.  A save may fail, an app may refuse or lose   *)
(* its answer, and a process may die at every await.                       *)
(*                                                                         *)
(* The apps are external: each keeps the actions it took, GitHub and       *)
(* Notion are asked for an earlier one first, and Slack takes a message    *)
(* with the same client_msg_id only once.                                  *)
(***************************************************************************)
EXTENDS Naturals, FiniteSets

CONSTANTS
  Deliveries,    \* records [process, incident, number]: calls for one receipt
  Sanitized,     \* the incidents that validateSanitizedIncident lets pass
  NoWorkflow, NoDelivery,
  maxAttempts,
  SearchLags,    \* a search may miss what was created a moment ago
  MaxFaults      \* bound: failed loads and saves, app errors and deaths of a process

ASSUME WorkflowAssumption ==
  /\ maxAttempts \in 1 .. 10
  /\ SearchLags \in BOOLEAN
  /\ MaxFaults \in Nat
  /\ NoDelivery \notin Deliveries

VARIABLES
  disk,          \* the checkpoint of the receipt's workflow
  lock,          \* lock[p]: the delivery that holds the lock in process p
  at,            \* at[d]: the await delivery d is at
  workflow,      \* workflow[d]: the copy d works on
  runAttempts,   \* runAttempts[d], of the step d is at
  actions,       \* actions[app][i]: how often the app acted on incident i
  faults

deliveryVars == <<lock, at, workflow, runAttempts>>
workflowVars == <<disk, deliveryVars, actions, faults>>

APP_ORDER == <<"github", "slack", "notion">>
AppName == {APP_ORDER[i] : i \in DOMAIN APP_ORDER}
Processes == {d.process : d \in Deliveries}
Incidents == {d.incident : d \in Deliveries}

Running == {"load", "begin", "attempt", "search", "create", "checkpoint", "fail", "finish"}

Workflow ==
  [incident : Incidents, status : {"running", "completed", "failed"},
   steps : [AppName -> {"pending", "completed", "failed"}]]

ASSUME NoWorkflowAssumption == NoWorkflow \notin Workflow

\* inputHash stands for the incident it is the hash of.
freshWorkflow(incident) ==
  [incident |-> incident, status |-> "running", steps |-> [a \in AppName |-> "pending"]]

\* The loop over the steps: the first one that is not completed.
Step(w) ==
  LET open == {i \in DOMAIN APP_ORDER : w.steps[APP_ORDER[i]] # "completed"}
  IN APP_ORDER[CHOOSE i \in open : \A j \in open : i <= j]

AllCompleted(w) == \A a \in AppName : w.steps[a] = "completed"

WorkflowInit ==
  /\ disk = NoWorkflow
  /\ lock = [p \in Processes |-> NoDelivery]
  /\ at = [d \in Deliveries |-> "waiting"]
  /\ workflow = [d \in Deliveries |-> NoWorkflow]
  /\ runAttempts = [d \in Deliveries |-> 0]
  /\ actions = [a \in AppName |-> [i \in Incidents |-> 0]]
  /\ faults = 0

(***************************************************************************)
(* The steps of a delivery.                                                *)
(***************************************************************************)
Goes(d, place, w) ==
  /\ at' = [at EXCEPT ![d] = place]
  /\ workflow' = [workflow EXCEPT ![d] = w]

\* The promise settles, with the workflow or an error: the lock is released.
Settles(d) ==
  /\ at' = [at EXCEPT ![d] = "settled"]
  /\ workflow' = [workflow EXCEPT ![d] = NoWorkflow]
  /\ lock' = [lock EXCEPT ![d.process] = NoDelivery]
  /\ UNCHANGED runAttempts

\* Mutant: an error leaves the lock taken.
ThrowsLocked(d) ==
  /\ at' = [at EXCEPT ![d] = "settled"]
  /\ workflow' = [workflow EXCEPT ![d] = NoWorkflow]
  /\ UNCHANGED <<lock, runAttempts>>

\* An error that leaves operation() goes through the finally of withLock.
Throws(d) == Settles(d)

\* An incident that does not validate is refused before anything else.
Refuse(d) ==
  /\ at[d] = "waiting" /\ d.incident \notin Sanitized
  /\ at' = [at EXCEPT ![d] = "settled"]
  /\ UNCHANGED <<disk, lock, workflow, runAttempts, actions, faults>>

\* The queue of the store, per process: whoever came first, in any order.
withLock(d) ==
  /\ at[d] = "waiting" /\ d.incident \in Sanitized
  /\ lock[d.process] = NoDelivery
  /\ lock' = [lock EXCEPT ![d.process] = d]
  /\ at' = [at EXCEPT ![d] = "load"]
  /\ UNCHANGED <<disk, workflow, runAttempts, actions, faults>>

\* Mutant: the input of the stored workflow is not compared.
sameInputAlways(d) == TRUE

sameInput(d) == disk # NoWorkflow => disk.incident = d.incident

\* Mutant: the stored workflow is compared and then begun anew.
resumedNever(d) == freshWorkflow(d.incident)

resumed(d) == IF disk = NoWorkflow THEN freshWorkflow(d.incident) ELSE disk

load(d) ==
  /\ at[d] = "load"
  /\ IF ~ sameInput(d) THEN Throws(d)
     ELSE IF disk # NoWorkflow /\ disk.status = "completed" THEN Settles(d)
     ELSE /\ Goes(d, "begin", [resumed(d) EXCEPT !.status = "running"])
          /\ UNCHANGED <<lock, runAttempts>>
  /\ UNCHANGED <<disk, actions, faults>>

\* On to the next open step with a fresh count, or to the end.
Enters(d, w) ==
  /\ IF AllCompleted(w)
     THEN Goes(d, "finish", [w EXCEPT !.status = "completed"])
     ELSE Goes(d, "attempt", [w EXCEPT !.steps[Step(w)] = "pending"])
  /\ runAttempts' = [runAttempts EXCEPT ![d] = 0]
  /\ UNCHANGED lock

Saved(d) == disk' = workflow[d]

SaveBegin(d) ==
  /\ at[d] = "begin"
  /\ Saved(d) /\ Enters(d, workflow[d])
  /\ UNCHANGED <<actions, faults>>

\* The checkpoint before the action; Slack is not asked for an earlier one.
SaveAttempt(d) ==
  /\ at[d] = "attempt"
  /\ Saved(d)
  /\ Goes(d, IF Step(workflow[d]) = "slack" THEN "create" ELSE "search", workflow[d])
  /\ runAttempts' = [runAttempts EXCEPT ![d] = @ + 1]
  /\ UNCHANGED <<lock, actions, faults>>

Recorded(app) == \E i \in Incidents : actions[app][i] > 0

\* Mutant: what the search found is not used.
foundNever(app) == {FALSE}

\* The answers a search for an earlier action may give.
found(app) == {Recorded(app)} \cup (IF SearchLags THEN {FALSE} ELSE {})

\* execute has returned: the step counts as completed in memory.
Executed(d) ==
  /\ Goes(d, "checkpoint", [workflow[d] EXCEPT !.steps[Step(workflow[d])] = "completed"])
  /\ UNCHANGED <<lock, runAttempts>>

Search(d) ==
  /\ at[d] = "search"
  /\ \E match \in found(Step(workflow[d])) :
       IF match THEN Executed(d)
       ELSE Goes(d, "create", workflow[d]) /\ UNCHANGED <<lock, runAttempts>>
  /\ UNCHANGED <<disk, actions, faults>>

\* What the POST does in the app.
Takes(d, app) ==
  IF app = "slack" /\ Recorded(app) THEN UNCHANGED actions
  ELSE actions' = [actions EXCEPT ![app][d.incident] = @ + 1]

Create(d) ==
  /\ at[d] = "create"
  /\ Takes(d, Step(workflow[d])) /\ Executed(d)
  /\ UNCHANGED <<disk, faults>>

Checkpoint(d) ==
  /\ at[d] = "checkpoint"
  /\ Saved(d) /\ Enters(d, workflow[d])
  /\ UNCHANGED <<actions, faults>>

\* The catch: a retryable error is tried again while attempts are left (the
\* wait is a delay), any other one fails the step and the workflow.
Caught(d, app, retryable) ==
  /\ IF retryable /\ runAttempts[d] < maxAttempts
     THEN Goes(d, "attempt", [workflow[d] EXCEPT !.steps[app] = "pending"])
     ELSE Goes(d, "fail", [workflow[d] EXCEPT !.steps[app] = "failed", !.status = "failed"])
  /\ UNCHANGED <<lock, runAttempts>>

SaveFailed(d) ==
  /\ at[d] = "fail"
  /\ Saved(d) /\ Settles(d)
  /\ UNCHANGED <<actions, faults>>

Finish(d) ==
  /\ at[d] = "finish"
  /\ Saved(d) /\ Settles(d)
  /\ UNCHANGED <<actions, faults>>

DeliveryStep(d) ==
  \/ Refuse(d) \/ withLock(d) \/ load(d) \/ SaveBegin(d) \/ SaveAttempt(d)
  \/ Search(d) \/ Create(d) \/ Checkpoint(d) \/ SaveFailed(d) \/ Finish(d)

(***************************************************************************)
(* What goes wrong.                                                        *)
(***************************************************************************)
Fault == faults < MaxFaults /\ faults' = faults + 1

\* HTTP 429 and 5xx are retryable; another status, or a request that breaks
\* off, is not.  Either way the app may have acted before the answer was lost.
RequestFails(d) ==
  /\ Fault /\ at[d] \in {"search", "create"}
  /\ \E retryable \in BOOLEAN : Caught(d, Step(workflow[d]), retryable)
  /\ \/ UNCHANGED actions
     \/ at[d] = "create" /\ Takes(d, Step(workflow[d]))
  /\ UNCHANGED disk

\* The step whose success is being saved: the one the disk has not completed.
\* The catch takes the error of the save for an error of the app.
CheckpointFails(d) ==
  /\ Fault /\ at[d] = "checkpoint"
  /\ Caught(d, Step(disk), FALSE)
  /\ UNCHANGED <<disk, actions>>

\* The load and the other saves are not in the try.
StoreThrows(d) ==
  /\ Fault /\ at[d] \in {"load", "begin", "attempt", "fail", "finish"}
  /\ Throws(d)
  /\ UNCHANGED <<disk, actions>>

ProcessDies(p) ==
  LET dead == {d \in Deliveries : d.process = p /\ at[d] \in Running} IN
  /\ Fault /\ dead # {}
  /\ at' = [d \in Deliveries |-> IF d \in dead THEN "settled" ELSE at[d]]
  /\ workflow' = [d \in Deliveries |-> IF d \in dead THEN NoWorkflow ELSE workflow[d]]
  /\ lock' = [lock EXCEPT ![p] = NoDelivery]
  /\ UNCHANGED <<disk, runAttempts, actions>>

WorkflowNext ==
  \/ \E d \in Deliveries : DeliveryStep(d)
  \/ \E d \in Deliveries : RequestFails(d) \/ CheckpointFails(d) \/ StoreThrows(d)
  \/ \E p \in Processes : ProcessDies(p)

WorkflowSpec == WorkflowInit /\ [][WorkflowNext]_workflowVars

\* Every await of a live process returns.
FairWorkflowSpec == WorkflowSpec /\ \A d \in Deliveries : WF_workflowVars(DeliveryStep(d))

(***************************************************************************)
(* Properties.                                                             *)
(***************************************************************************)
\* The checkpoint, the copies and the places of the deliveries have their types.
WorkflowTypeOK ==
  /\ disk \in Workflow \cup {NoWorkflow}
  /\ lock \in [Processes -> Deliveries \cup {NoDelivery}]
  /\ at \in [Deliveries -> Running \cup {"waiting", "settled"}]
  /\ workflow \in [Deliveries -> Workflow \cup {NoWorkflow}]
  /\ runAttempts \in [Deliveries -> 0 .. maxAttempts]
  /\ actions \in [AppName -> [Incidents -> Nat]]
  /\ faults \in 0 .. MaxFaults

\* docs/MULTI_APP_HACKATHON_BRIEF.md: "no-duplicate resume": however often the
\* receipt is delivered, and whatever save, request or process fails on the
\* way, an app acts on it once, and never on two versions of it.
NoDuplicateActions ==
  \A a \in AppName : \A i, j \in Incidents :
    /\ actions[a][i] <= 1
    /\ actions[a][i] > 0 /\ actions[a][j] > 0 => i = j

\* Every action belongs to the incident whose workflow is on the disk: "A
\* receipt ID cannot be reused with changed incident data", even when the
\* first delivery died between its first save and its first action.
ActionsAreOfRecord ==
  \A a \in AppName, i \in Incidents : actions[a][i] > 0 =>
    disk # NoWorkflow /\ disk.incident = i

\* "Responders receive the durable work item before the alert, and the
\* knowledge-base record is created only after notification succeeds": an app
\* has acted only when every app before it is completed on the disk, and a
\* workflow is completed only when all three have acted.
ActionsInOrder ==
  /\ \A i, j \in DOMAIN APP_ORDER : i < j /\ Recorded(APP_ORDER[j]) =>
       disk # NoWorkflow /\ disk.steps[APP_ORDER[i]] = "completed"
  /\ disk # NoWorkflow =>
       /\ \A a \in AppName : disk.steps[a] = "completed" => Recorded(a)
       /\ disk.status = "completed" => AllCompleted(disk)

\* What is completed stays completed through every later delivery.
ResumeSkipsCompleted ==
  [][\A a \in AppName : disk # NoWorkflow /\ disk.steps[a] = "completed" =>
       disk'.steps[a] = "completed" /\ (disk.status = "completed" => disk' = disk)]_disk

\* Every delivery gets its answer: none waits for ever behind one that failed,
\* threw or died with its process.
DeliveriesSettle == \A d \in Deliveries : <>(at[d] = "settled")
================================================================================
