----------------------------- MODULE IncidentProofs -----------------------------
(***************************************************************************)
(* Theorems of IncidentWorkflow, for any deliveries, attempts and faults,  *)
(* as long as one process serves them all (SingleProcess): what the store's*)
(* lock, which is in the memory of a process, is able to promise.          *)
(*                                                                         *)
(* The lock lets one delivery run at a time.  Its copy of the workflow is  *)
(* of the incident on the disk and never behind it: what is completed on   *)
(* the disk is completed in the copy, and what is completed in the copy    *)
(* has been done in the app.  With that the disk only moves forward, and   *)
(* an app is asked to act only by a delivery that found it had not.        *)
(***************************************************************************)
EXTENDS IncidentWorkflow, TLAPS

SingleProcess == \A d, e \in Deliveries : d.process = e.process

HoldsLock == \A d \in Deliveries : at[d] \in Running => lock[d.process] = d

\* How the copy that d works on relates to the disk and to the apps.
Consistent(d) ==
  LET w == workflow[d] IN
  /\ at[d] \in Running \ {"load"} =>
       /\ w \in Workflow /\ w.incident = d.incident
       /\ disk # NoWorkflow =>
            /\ disk.incident = d.incident /\ disk.status # "completed"
            /\ \A a \in AppName : disk.steps[a] = "completed" => w.steps[a] = "completed"
       /\ \A a \in AppName : w.steps[a] = "completed" => Recorded(a)
       /\ at[d] = "finish" => AllCompleted(w)
       /\ at[d] # "finish" => w.status # "completed"
  /\ at[d] \in Running \ {"load", "begin"} => disk # NoWorkflow
  /\ at[d] \in {"attempt", "search", "create"} => ~ AllCompleted(w)
  /\ at[d] \in {"attempt", "search", "create", "checkpoint"} => ~ AllCompleted(disk)
  /\ at[d] \in {"search", "create"} => disk = w
  /\ at[d] = "attempt" => runAttempts[d] < maxAttempts

OfRecord == ActionsAreOfRecord /\ ActionsInOrder

WorkflowInv ==
  /\ SingleProcess /\ WorkflowTypeOK /\ HoldsLock /\ OfRecord
  /\ \A d \in Deliveries : Consistent(d)

(***************************************************************************)
(* The steps of a workflow.                                                *)
(***************************************************************************)
LEMMA Apps == DOMAIN APP_ORDER = 1 .. 3 /\ AppName = {"github", "slack", "notion"}
              /\ APP_ORDER[1] = "github" /\ APP_ORDER[2] = "slack" /\ APP_ORDER[3] = "notion"
<1>1. DOMAIN APP_ORDER = 1 .. 3 /\ APP_ORDER[1] = "github" /\ APP_ORDER[2] = "slack"
      /\ APP_ORDER[3] = "notion"
  BY DEF APP_ORDER
<1>2. \A i \in 1 .. 3 : i = 1 \/ i = 2 \/ i = 3
  OBVIOUS
<1>3. QED BY <1>1, <1>2 DEF AppName

\* The step that is taken up is the first one that is open.
LEMMA StepIsOpen ==
  ASSUME NEW w, ~ AllCompleted(w)
  PROVE  /\ Step(w) \in AppName /\ w.steps[Step(w)] # "completed"
         /\ \A i, j \in DOMAIN APP_ORDER :
              i < j /\ Step(w) = APP_ORDER[j] => w.steps[APP_ORDER[i]] = "completed"
<1> DEFINE open == {i \in 1 .. 3 : w.steps[APP_ORDER[i]] # "completed"}
<1> DEFINE first == CHOOSE i \in open : \A j \in open : i <= j
<1>1. \E i \in open : \A j \in open : i <= j
  <2>1. open # {}
    BY Apps DEF AllCompleted
  <2>2. CASE 1 \in open
    BY <2>2
  <2>3. CASE 1 \notin open /\ 2 \in open
    BY <2>3
  <2>4. CASE 1 \notin open /\ 2 \notin open
    BY <2>1, <2>4
  <2>5. QED BY <2>2, <2>3, <2>4
<1>2. first \in open /\ \A j \in open : first <= j
  BY <1>1
<1>3. Step(w) = APP_ORDER[first]
  BY Apps DEF Step
<1> HIDE DEF first
<1>4. first \in 1 .. 3 /\ \A i \in 1 .. 3 : i < first => w.steps[APP_ORDER[i]] = "completed"
  BY <1>2
<1>5. \A j \in 1 .. 3 : APP_ORDER[first] = APP_ORDER[j] => first = j
  BY <1>4, Apps
<1>6. APP_ORDER[first] \in AppName
  BY <1>4, Apps
<1>7. QED BY <1>2, <1>3, <1>4, <1>5, <1>6, Apps

\* One delivery runs at a time.
LEMMA Alone ==
  ASSUME WorkflowInv, NEW d \in Deliveries, at[d] \in Running,
         NEW e \in Deliveries, e # d
  PROVE  at[e] \notin Running
BY DEF WorkflowInv, HoldsLock, SingleProcess

\* What is to be shown of the step of a delivery.
LEMMA OneMoves ==
  ASSUME WorkflowInv, NEW d \in Deliveries,
         \A e \in Deliveries \ {d} : at'[e] = at[e] /\ at[e] \notin Running,
         at'[d] \in Running => Consistent(d)' /\ lock'[d.process] = d
  PROVE  HoldsLock' /\ \A e \in Deliveries : Consistent(e)'
<1>1. ASSUME NEW e \in Deliveries, at'[e] \notin Running PROVE Consistent(e)'
  BY <1>1 DEF Consistent, Running
<1>2. HoldsLock'
  BY DEF HoldsLock
<1>3. QED BY <1>1, <1>2

\* A step without the disk and the apps does nothing to the record.
LEMMA RecordStays == OfRecord /\ UNCHANGED <<disk, actions>> => OfRecord'
BY DEF OfRecord, ActionsAreOfRecord, ActionsInOrder, Recorded, AllCompleted

\* The place and the copy of a delivery that goes on.
LEMMA GoesTo ==
  ASSUME WorkflowInv, NEW d \in Deliveries, at[d] \in Running, NEW place \in Running,
         NEW w \in Workflow, Goes(d, place, w)
  PROVE  /\ at' \in [Deliveries -> Running \cup {"waiting", "settled"}]
         /\ workflow' \in [Deliveries -> Workflow \cup {NoWorkflow}]
         /\ at'[d] = place /\ workflow'[d] = w
         /\ \A e \in Deliveries \ {d} : at'[e] = at[e] /\ at[e] \notin Running
BY Alone DEF Goes, WorkflowInv, WorkflowTypeOK

\* A delivery that settles, whatever it did before.
LEMMA SettlesTo ==
  ASSUME WorkflowInv, NEW d \in Deliveries, at[d] \in Running, Settles(d)
  PROVE  /\ at' \in [Deliveries -> Running \cup {"waiting", "settled"}]
         /\ workflow' \in [Deliveries -> Workflow \cup {NoWorkflow}]
         /\ lock' \in [Processes -> Deliveries \cup {NoDelivery}]
         /\ UNCHANGED runAttempts
         /\ HoldsLock' /\ \A e \in Deliveries : Consistent(e)'
<1>1. at'[d] = "settled" /\ \A e \in Deliveries \ {d} : at'[e] = at[e] /\ at[e] \notin Running
  BY Alone DEF Settles, WorkflowInv, WorkflowTypeOK
<1>2. HoldsLock' /\ \A e \in Deliveries : Consistent(e)'
  BY <1>1, OneMoves DEF Running
<1>3. QED BY <1>2 DEF Settles, WorkflowInv, WorkflowTypeOK

\* A save puts on the disk what is not behind it.
LEMMA SavesForward ==
  ASSUME WorkflowInv, NEW d \in Deliveries, at[d] \in Running \ {"load"}, Saved(d),
         UNCHANGED actions
  PROVE  /\ OfRecord' /\ disk' \in Workflow /\ disk'.incident = d.incident
         /\ disk # NoWorkflow =>
              /\ disk.status # "completed"
              /\ \A a \in AppName : disk.steps[a] = "completed" => disk'.steps[a] = "completed"
<1> DEFINE w == workflow[d]
<1>1. /\ disk' = w /\ w \in Workflow /\ w.incident = d.incident /\ w # NoWorkflow
      /\ w.status = "completed" => AllCompleted(w)
      /\ \A a \in AppName : w.steps[a] = "completed" => Recorded(a)
      /\ disk # NoWorkflow =>
           /\ disk.incident = d.incident /\ disk.status # "completed"
           /\ \A a \in AppName : disk.steps[a] = "completed" => w.steps[a] = "completed"
  BY NoWorkflowAssumption DEF WorkflowInv, Consistent, Saved
<1> HIDE DEF w
<1>2. ActionsAreOfRecord'
  BY <1>1 DEF WorkflowInv, OfRecord, ActionsAreOfRecord
<1>3. ActionsInOrder'
  <2>1. ASSUME NEW i \in DOMAIN APP_ORDER, NEW j \in DOMAIN APP_ORDER, i < j, Recorded(APP_ORDER[j])'
        PROVE  disk' # NoWorkflow /\ disk'.steps[APP_ORDER[i]] = "completed"
    <3>1. disk # NoWorkflow /\ disk.steps[APP_ORDER[i]] = "completed" /\ APP_ORDER[i] \in AppName
      BY <2>1 DEF WorkflowInv, OfRecord, ActionsInOrder, Recorded, AppName
    <3>2. QED BY <1>1, <3>1
  <2>2. QED BY <1>1, <2>1 DEF ActionsInOrder, Recorded, AllCompleted
<1>4. QED BY <1>1, <1>2, <1>3 DEF OfRecord

\* The POST: the app acts on the incident of the disk, and every app before it
\* has acted.
LEMMA TakesInOrder ==
  ASSUME WorkflowInv, NEW d \in Deliveries, at[d] = "create",
         NEW app, app = Step(workflow[d]), Takes(d, app), UNCHANGED disk
  PROVE  /\ actions' \in [AppName -> [Incidents -> Nat]]
         /\ OfRecord' /\ Recorded(app)'
         /\ \A a \in AppName : Recorded(a) => Recorded(a)'
<1> DEFINE w == workflow[d]
<1>1. /\ disk = w /\ disk.incident = d.incident /\ ~ AllCompleted(w) /\ w # NoWorkflow
      /\ d.incident \in Incidents
  BY NoWorkflowAssumption DEF WorkflowInv, Consistent, Running, Incidents
<1>2. /\ app \in AppName
      /\ \A i, j \in DOMAIN APP_ORDER :
           i < j /\ app = APP_ORDER[j] => w.steps[APP_ORDER[i]] = "completed"
  BY <1>1, StepIsOpen
<1>3. actions \in [AppName -> [Incidents -> Nat]]
  BY DEF WorkflowInv, WorkflowTypeOK
<1>4. CASE UNCHANGED actions /\ Recorded(app)
  BY <1>3, <1>4, RecordStays DEF WorkflowInv, Recorded
<1>5. CASE actions' = [actions EXCEPT ![app][d.incident] = @ + 1]
  <2>1. /\ actions' \in [AppName -> [Incidents -> Nat]]
        /\ actions'[app][d.incident] > 0
        /\ \A a \in AppName, i \in Incidents :
             /\ actions[a][i] > 0 => actions'[a][i] > 0
             /\ a # app \/ i # d.incident => actions'[a][i] = actions[a][i]
    BY <1>1, <1>2, <1>3, <1>5
  <2>2. /\ Recorded(app)'
        /\ \A a \in AppName : Recorded(a) => Recorded(a)'
        /\ \A a \in AppName : Recorded(a)' => a = app \/ Recorded(a)
    BY <1>1, <1>2, <2>1 DEF Recorded
  <2>3. ActionsAreOfRecord'
    BY <1>1, <2>1 DEF WorkflowInv, OfRecord, ActionsAreOfRecord
  <2>4. ActionsInOrder'
    <3>1. ASSUME NEW i \in DOMAIN APP_ORDER, NEW j \in DOMAIN APP_ORDER, i < j, Recorded(APP_ORDER[j])'
          PROVE  disk.steps[APP_ORDER[i]] = "completed"
      <4>1. APP_ORDER[j] = app \/ Recorded(APP_ORDER[j])
        BY <2>2, <3>1 DEF AppName
      <4>2. QED BY <1>1, <1>2, <3>1, <4>1 DEF WorkflowInv, OfRecord, ActionsInOrder
    <3>2. /\ \A a \in AppName : disk.steps[a] = "completed" => Recorded(a)
          /\ disk.status = "completed" => AllCompleted(disk)
      BY <1>1 DEF WorkflowInv, OfRecord, ActionsInOrder
    <3>3. /\ \A a \in AppName : disk'.steps[a] = "completed" => Recorded(a)'
          /\ disk'.status = "completed" => AllCompleted(disk)'
      BY <2>2, <3>2 DEF AllCompleted
    <3>4. QED BY <1>1, <3>1, <3>3 DEF ActionsInOrder
  <2>5. QED BY <2>1, <2>2, <2>3, <2>4 DEF OfRecord
<1>6. QED BY <1>4, <1>5 DEF Takes

(***************************************************************************)
(* The invariant.                                                          *)
(***************************************************************************)
\* A step was executed: the copy gets ahead of the disk.
LEMMA ExecutedKeeps ==
  ASSUME WorkflowInv, NEW d \in Deliveries, at[d] \in {"search", "create"}, Executed(d),
         UNCHANGED disk, NEW app, app = Step(workflow[d]), Recorded(app)',
         \A a \in AppName : Recorded(a) => Recorded(a)'
  PROVE  /\ at' \in [Deliveries -> Running \cup {"waiting", "settled"}]
         /\ workflow' \in [Deliveries -> Workflow \cup {NoWorkflow}]
         /\ HoldsLock' /\ \A e \in Deliveries : Consistent(e)'
<1> DEFINE w == workflow[d]
<1> DEFINE x == [w EXCEPT !.steps[app] = "completed"]
<1>1. /\ w \in Workflow /\ w.incident = d.incident /\ disk = w /\ disk # NoWorkflow
      /\ disk.status # "completed" /\ ~ AllCompleted(w) /\ w.status # "completed"
      /\ \A a \in AppName : w.steps[a] = "completed" => Recorded(a)
      /\ at[d] \in Running /\ lock[d.process] = d
  BY DEF WorkflowInv, Consistent, Running, HoldsLock
<1>2. app \in AppName
  BY <1>1, StepIsOpen
<1>3. /\ x \in Workflow /\ x.incident = w.incident /\ x.status = w.status
      /\ x.steps[app] = "completed" /\ \A b \in AppName \ {app} : x.steps[b] = w.steps[b]
  BY <1>1, <1>2 DEF Workflow
<1>4. Goes(d, "checkpoint", x) /\ UNCHANGED lock
  BY DEF Executed
<1> HIDE DEF x
<1>5. /\ at' \in [Deliveries -> Running \cup {"waiting", "settled"}]
      /\ workflow' \in [Deliveries -> Workflow \cup {NoWorkflow}]
      /\ at'[d] = "checkpoint" /\ workflow'[d] = x
      /\ \A e \in Deliveries \ {d} : at'[e] = at[e] /\ at[e] \notin Running
  BY <1>1, <1>3, <1>4, GoesTo DEF Running
<1>6. \A a \in AppName : x.steps[a] = "completed" => Recorded(a)'
  BY <1>1, <1>3
<1>7. ~ AllCompleted(disk)'
  BY <1>1 DEF AllCompleted
<1>8. Consistent(d)'
  BY <1>1, <1>3, <1>5, <1>6, <1>7 DEF Consistent
<1>9. QED BY <1>1, <1>4, <1>5, <1>8, OneMoves

\* The catch: the step that failed is not completed on the disk.
LEMMA CaughtKeeps ==
  ASSUME WorkflowInv, NEW d \in Deliveries, at[d] \in {"search", "create", "checkpoint"},
         NEW app \in AppName, disk.steps[app] # "completed",
         NEW retryable \in BOOLEAN, Caught(d, app, retryable),
         UNCHANGED disk, \A a \in AppName : Recorded(a) => Recorded(a)'
  PROVE  /\ at' \in [Deliveries -> Running \cup {"waiting", "settled"}]
         /\ workflow' \in [Deliveries -> Workflow \cup {NoWorkflow}]
         /\ HoldsLock' /\ \A e \in Deliveries : Consistent(e)'
<1> DEFINE w == workflow[d]
<1>1. /\ w \in Workflow /\ w.incident = d.incident /\ disk # NoWorkflow
      /\ disk.incident = d.incident /\ disk.status # "completed" /\ w.status # "completed"
      /\ \A a \in AppName : disk.steps[a] = "completed" => w.steps[a] = "completed"
      /\ \A a \in AppName : w.steps[a] = "completed" => Recorded(a)
      /\ at[d] \in Running /\ lock[d.process] = d
  BY DEF WorkflowInv, Consistent, Running, HoldsLock
<1>2. ~ AllCompleted(disk)'
  BY DEF AllCompleted
<1>3. ASSUME NEW s \in {"pending", "failed"}, NEW x, x \in Workflow, x.incident = w.incident,
             x.status # "completed", x.steps[app] = s,
             \A b \in AppName \ {app} : x.steps[b] = w.steps[b]
      PROVE  /\ \A a \in AppName : disk.steps[a] = "completed" => x.steps[a] = "completed"
             /\ \A a \in AppName : x.steps[a] = "completed" => Recorded(a)'
             /\ ~ AllCompleted(x)
  BY <1>1, <1>3 DEF AllCompleted
<1>4. CASE retryable /\ runAttempts[d] < maxAttempts
  <2> DEFINE x == [w EXCEPT !.steps[app] = "pending"]
  <2>1. /\ x \in Workflow /\ x.incident = w.incident /\ x.status = w.status
        /\ x.steps[app] = "pending" /\ \A b \in AppName \ {app} : x.steps[b] = w.steps[b]
    BY <1>1 DEF Workflow
  <2>2. Goes(d, "attempt", x) /\ UNCHANGED <<lock, runAttempts>>
    BY <1>4 DEF Caught
  <2> HIDE DEF x
  <2>3. /\ at' \in [Deliveries -> Running \cup {"waiting", "settled"}]
        /\ workflow' \in [Deliveries -> Workflow \cup {NoWorkflow}]
        /\ at'[d] = "attempt" /\ workflow'[d] = x
        /\ \A e \in Deliveries \ {d} : at'[e] = at[e] /\ at[e] \notin Running
    BY <1>1, <2>1, <2>2, GoesTo DEF Running
  <2>4. ~ AllCompleted(x) /\ ~ AllCompleted(workflow'[d])
    BY <1>1, <1>3, <2>1, <2>3
  <2>5. Consistent(d)'
    BY <1>1, <1>2, <1>3, <1>4, <2>1, <2>2, <2>3, <2>4 DEF Consistent, AllCompleted
  <2>6. QED BY <1>1, <2>2, <2>3, <2>5, OneMoves
<1>5. CASE ~ (retryable /\ runAttempts[d] < maxAttempts)
  <2> DEFINE y == [w EXCEPT !.steps[app] = "failed"]
  <2>1. /\ y \in Workflow /\ y.incident = w.incident
        /\ y.steps[app] = "failed" /\ \A b \in AppName \ {app} : y.steps[b] = w.steps[b]
    BY <1>1 DEF Workflow
  <2> DEFINE x == [w EXCEPT !.steps[app] = "failed", !.status = "failed"]
  <2>2. x = [y EXCEPT !.status = "failed"]
    OBVIOUS
  <2> HIDE DEF x, y
  <2>3. /\ x \in Workflow /\ x.incident = w.incident /\ x.status = "failed"
        /\ x.steps[app] = "failed" /\ \A b \in AppName \ {app} : x.steps[b] = w.steps[b]
    BY <2>1, <2>2 DEF Workflow
  <2>4. Goes(d, "fail", x) /\ UNCHANGED <<lock, runAttempts>>
    BY <1>5 DEF Caught, x
  <2>5. /\ at' \in [Deliveries -> Running \cup {"waiting", "settled"}]
        /\ workflow' \in [Deliveries -> Workflow \cup {NoWorkflow}]
        /\ at'[d] = "fail" /\ workflow'[d] = x
        /\ \A e \in Deliveries \ {d} : at'[e] = at[e] /\ at[e] \notin Running
    BY <1>1, <2>3, <2>4, GoesTo DEF Running
  <2>6. Consistent(d)'
    BY <1>1, <1>3, <2>3, <2>5 DEF Consistent
  <2>7. QED BY <1>1, <2>4, <2>5, <2>6, OneMoves
<1>6. QED BY <1>4, <1>5

\* The saves that go on to the next step: those of the beginning and of a success.
LEMMA EntersKeeps ==
  ASSUME WorkflowInv, NEW d \in Deliveries, at[d] \in {"begin", "checkpoint"},
         Saved(d), Enters(d, workflow[d]), UNCHANGED <<actions, faults>>
  PROVE  WorkflowInv'
<1> DEFINE w == workflow[d]
<1>1. /\ w \in Workflow /\ w.incident = d.incident /\ w.status # "completed"
      /\ \A a \in AppName : w.steps[a] = "completed" => Recorded(a)
      /\ at[d] \in Running /\ lock[d.process] = d
  BY DEF WorkflowInv, Consistent, Running, HoldsLock
<1>2. OfRecord' /\ disk' = w /\ w # NoWorkflow
  BY <1>1, SavesForward, NoWorkflowAssumption DEF Saved, Running
<1>3. UNCHANGED lock /\ runAttempts' = [runAttempts EXCEPT ![d] = 0]
      /\ \A a \in AppName : Recorded(a) => Recorded(a)'
  BY DEF Enters, Recorded
<1>4. runAttempts' \in [Deliveries -> 0 .. maxAttempts] /\ runAttempts'[d] = 0 /\ 0 < maxAttempts
  BY <1>3, WorkflowAssumption DEF WorkflowInv, WorkflowTypeOK
<1>5. CASE AllCompleted(w)
  <2> DEFINE x == [w EXCEPT !.status = "completed"]
  <2>1. /\ x \in Workflow /\ x.incident = w.incident /\ x.status = "completed" /\ x.steps = w.steps
    BY <1>1 DEF Workflow
  <2>2. Goes(d, "finish", x)
    BY <1>5 DEF Enters
  <2> HIDE DEF x
  <2>3. /\ at' \in [Deliveries -> Running \cup {"waiting", "settled"}]
        /\ workflow' \in [Deliveries -> Workflow \cup {NoWorkflow}]
        /\ at'[d] = "finish" /\ workflow'[d] = x
        /\ \A e \in Deliveries \ {d} : at'[e] = at[e] /\ at[e] \notin Running
    BY <1>1, <2>1, <2>2, GoesTo DEF Running
  <2>4. AllCompleted(x)
    BY <1>5, <2>1 DEF AllCompleted
  <2>5. Consistent(d)'
    BY <1>1, <1>2, <1>3, <2>1, <2>3, <2>4 DEF Consistent, AllCompleted
  <2>6. HoldsLock' /\ \A e \in Deliveries : Consistent(e)'
    BY <1>1, <1>3, <2>3, <2>5, OneMoves
  <2>7. QED BY <1>1, <1>2, <1>3, <1>4, <2>3, <2>6 DEF WorkflowInv, WorkflowTypeOK
<1>6. CASE ~ AllCompleted(w)
  <2> DEFINE app == Step(w)
  <2> DEFINE x == [w EXCEPT !.steps[app] = "pending"]
  <2>1. app \in AppName /\ w.steps[app] # "completed"
    BY <1>6, StepIsOpen
  <2>2. /\ x \in Workflow /\ x.incident = w.incident /\ x.status = w.status
        /\ x.steps[app] = "pending" /\ \A b \in AppName \ {app} : x.steps[b] = w.steps[b]
    BY <1>1, <2>1 DEF Workflow
  <2>3. Goes(d, "attempt", x)
    BY <1>6 DEF Enters
  <2> HIDE DEF x, app
  <2>4. /\ at' \in [Deliveries -> Running \cup {"waiting", "settled"}]
        /\ workflow' \in [Deliveries -> Workflow \cup {NoWorkflow}]
        /\ at'[d] = "attempt" /\ workflow'[d] = x
        /\ \A e \in Deliveries \ {d} : at'[e] = at[e] /\ at[e] \notin Running
    BY <1>1, <2>2, <2>3, GoesTo DEF Running
  <2>5. /\ \A a \in AppName : w.steps[a] = "completed" => x.steps[a] = "completed"
        /\ \A a \in AppName : x.steps[a] = "completed" => Recorded(a)'
        /\ x.steps[app] # "completed"
    BY <1>1, <1>3, <2>1, <2>2
  <2>6. Consistent(d)'
    BY <1>1, <1>2, <1>4, <2>1, <2>2, <2>4, <2>5 DEF Consistent, AllCompleted
  <2>7. HoldsLock' /\ \A e \in Deliveries : Consistent(e)'
    BY <1>1, <1>3, <2>4, <2>6, OneMoves
  <2>8. QED BY <1>1, <1>2, <1>3, <1>4, <2>4, <2>7 DEF WorkflowInv, WorkflowTypeOK
<1>7. QED BY <1>5, <1>6

\* Nothing is stored and nobody works at the start.
LEMMA InitKeeps == SingleProcess /\ WorkflowInit => WorkflowInv
<1> SUFFICES ASSUME SingleProcess, WorkflowInit PROVE WorkflowInv
  OBVIOUS
<1>1. WorkflowTypeOK
  BY WorkflowAssumption DEF WorkflowInit, WorkflowTypeOK
<1>2. \A a \in AppName : ~ Recorded(a)
  BY DEF WorkflowInit, Recorded
<1>3. OfRecord
  <2>1. ActionsAreOfRecord
    BY DEF WorkflowInit, ActionsAreOfRecord
  <2>2. ActionsInOrder
    BY <1>2 DEF WorkflowInit, ActionsInOrder, AppName
  <2>3. QED BY <2>1, <2>2 DEF OfRecord
<1>4. HoldsLock /\ \A d \in Deliveries : Consistent(d)
  BY DEF WorkflowInit, HoldsLock, Consistent, Running
<1>5. QED BY <1>1, <1>3, <1>4 DEF WorkflowInv

\* A settling without an effect.
LEMMA SettlesKeeps ==
  ASSUME WorkflowInv, NEW d \in Deliveries, at[d] \in Running, Settles(d),
         UNCHANGED <<disk, actions>>, faults' \in 0 .. MaxFaults
  PROVE  WorkflowInv'
BY SettlesTo, RecordStays DEF WorkflowInv, WorkflowTypeOK

\* The steps of one delivery, and what goes wrong with it.
LEMMA DeliveryKeeps ==
  ASSUME WorkflowInv, NEW d \in Deliveries, DeliveryStep(d)
  PROVE  WorkflowInv'
<1> DEFINE w == workflow[d]
<1>0. faults \in 0 .. MaxFaults
  BY DEF WorkflowInv, WorkflowTypeOK
<1>1. CASE Refuse(d)
  <2>1. /\ at'[d] = "settled" /\ \A e \in Deliveries \ {d} : at'[e] = at[e]
        /\ at' \in [Deliveries -> Running \cup {"waiting", "settled"}]
        /\ UNCHANGED <<disk, lock, workflow, runAttempts, actions, faults>>
    BY <1>1 DEF Refuse, WorkflowInv, WorkflowTypeOK
  <2>2. ASSUME NEW e \in Deliveries PROVE Consistent(e)'
    <3>1. CASE e = d
      BY <2>1, <3>1 DEF Consistent, Running
    <3>2. CASE e # d
      BY <2>1, <3>2 DEF WorkflowInv, Consistent, Recorded, AllCompleted
    <3>3. QED BY <3>1, <3>2
  <2>3. HoldsLock'
    BY <2>1 DEF WorkflowInv, HoldsLock, Running
  <2>4. QED BY <2>1, <2>2, <2>3, RecordStays DEF WorkflowInv, WorkflowTypeOK
<1>2. CASE withLock(d)
  <2>1. /\ at'[d] = "load" /\ \A e \in Deliveries \ {d} : at'[e] = at[e]
        /\ lock[d.process] = NoDelivery /\ d.process \in Processes
        /\ lock' = [lock EXCEPT ![d.process] = d]
        /\ at' \in [Deliveries -> Running \cup {"waiting", "settled"}]
        /\ UNCHANGED <<disk, workflow, runAttempts, actions, faults>>
    BY <1>2 DEF withLock, WorkflowInv, WorkflowTypeOK, Running, Processes
  <2>2. \A e \in Deliveries : at[e] \notin Running
    BY <2>1, WorkflowAssumption DEF WorkflowInv, HoldsLock, SingleProcess
  <2>3. lock'[d.process] = d /\ lock' \in [Processes -> Deliveries \cup {NoDelivery}]
    BY <2>1 DEF WorkflowInv, WorkflowTypeOK
  <2>4. Consistent(d)'
    BY <2>1 DEF Consistent
  <2>5. HoldsLock' /\ \A e \in Deliveries : Consistent(e)'
    BY <2>1, <2>2, <2>3, <2>4, OneMoves
  <2>6. QED BY <2>1, <2>3, <2>5, RecordStays DEF WorkflowInv, WorkflowTypeOK
<1>3. CASE load(d)
  <2>1. CASE Settles(d)
    BY <1>0, <1>3, <2>1, SettlesKeeps DEF load, Running
  <2>2. CASE ~ Settles(d)
    <3> DEFINE x == [resumed(d) EXCEPT !.status = "running"]
    <3>1. /\ Goes(d, "begin", x) /\ UNCHANGED <<disk, lock, runAttempts, actions, faults>>
          /\ disk # NoWorkflow => disk.incident = d.incident /\ disk.status # "completed"
          /\ at[d] \in Running /\ lock[d.process] = d
      BY <1>3, <2>2 DEF load, Throws, sameInput, WorkflowInv, HoldsLock, Running
    <3>2. disk # NoWorkflow => disk \in Workflow
      BY DEF WorkflowInv, WorkflowTypeOK
    <3>3. /\ resumed(d) \in Workflow /\ resumed(d).incident = d.incident
          /\ disk # NoWorkflow => resumed(d) = disk
          /\ \A a \in AppName : resumed(d).steps[a] = "completed" => Recorded(a)
      <4>1. CASE disk = NoWorkflow
        BY <4>1 DEF resumed, freshWorkflow, Workflow, Incidents
      <4>2. CASE disk # NoWorkflow
        BY <3>1, <3>2, <4>2 DEF resumed, WorkflowInv, OfRecord, ActionsInOrder
      <4>3. QED BY <4>1, <4>2
    <3> DEFINE r == resumed(d)
    <3> HIDE DEF r
    <3>4. x = [r EXCEPT !.status = "running"]
      BY DEF r
    <3> HIDE DEF x
    <3>5. /\ x \in Workflow /\ x.incident = d.incident /\ x.status = "running"
          /\ x.steps = r.steps
      BY <3>3, <3>4 DEF Workflow, r
    <3>6. /\ at' \in [Deliveries -> Running \cup {"waiting", "settled"}]
          /\ workflow' \in [Deliveries -> Workflow \cup {NoWorkflow}]
          /\ at'[d] = "begin" /\ workflow'[d] = x
          /\ \A e \in Deliveries \ {d} : at'[e] = at[e] /\ at[e] \notin Running
      BY <3>1, <3>5, GoesTo DEF Running, x
    <3>7. /\ \A a \in AppName : x.steps[a] = "completed" => Recorded(a)'
          /\ disk # NoWorkflow => disk.steps = x.steps
      BY <3>1, <3>3, <3>5 DEF Recorded, r
    <3>8. Consistent(d)'
      BY <3>1, <3>5, <3>6, <3>7 DEF Consistent
    <3>9. HoldsLock' /\ \A e \in Deliveries : Consistent(e)'
      BY <3>1, <3>6, <3>8, OneMoves
    <3>10. QED BY <3>1, <3>6, <3>9, RecordStays DEF WorkflowInv, WorkflowTypeOK
  <2>3. QED BY <2>1, <2>2
<1>4. CASE SaveBegin(d) \/ Checkpoint(d)
  BY <1>4, EntersKeeps DEF SaveBegin, Checkpoint
<1>5. CASE SaveAttempt(d)
  <2> DEFINE place == IF Step(w) = "slack" THEN "create" ELSE "search"
  <2>1. /\ Goes(d, place, w) /\ place \in {"search", "create"}
        /\ runAttempts' = [runAttempts EXCEPT ![d] = @ + 1]
        /\ UNCHANGED <<lock, actions, faults>> /\ Saved(d)
    BY <1>5 DEF SaveAttempt
  <2>2. /\ w \in Workflow /\ w.incident = d.incident /\ w.status # "completed" /\ ~ AllCompleted(w)
        /\ \A a \in AppName : w.steps[a] = "completed" => Recorded(a)
        /\ at[d] \in Running /\ lock[d.process] = d /\ runAttempts[d] < maxAttempts
    BY <1>5 DEF SaveAttempt, WorkflowInv, Consistent, Running, HoldsLock
  <2>3. OfRecord' /\ disk' = w /\ w # NoWorkflow
    BY <1>5, <2>1, <2>2, SavesForward, NoWorkflowAssumption DEF Saved, SaveAttempt, Running
  <2> HIDE DEF place
  <2>4. /\ at' \in [Deliveries -> Running \cup {"waiting", "settled"}]
        /\ workflow' \in [Deliveries -> Workflow \cup {NoWorkflow}]
        /\ at'[d] = place /\ workflow'[d] = w
        /\ \A e \in Deliveries \ {d} : at'[e] = at[e] /\ at[e] \notin Running
    BY <2>1, <2>2, GoesTo DEF Running
  <2>5. \A a \in AppName : Recorded(a) => Recorded(a)'
    BY <2>1 DEF Recorded
  <2>6. Consistent(d)'
    BY <2>1, <2>2, <2>3, <2>4, <2>5 DEF Consistent, AllCompleted
  <2>7. HoldsLock' /\ \A e \in Deliveries : Consistent(e)'
    BY <2>1, <2>2, <2>4, <2>6, OneMoves
  <2>8. runAttempts' \in [Deliveries -> 0 .. maxAttempts]
    BY <2>1, <2>2, WorkflowAssumption DEF WorkflowInv, WorkflowTypeOK
  <2>9. QED BY <2>1, <2>3, <2>4, <2>7, <2>8 DEF WorkflowInv, WorkflowTypeOK
<1>6. CASE Search(d)
  <2> DEFINE app == Step(w)
  <2>1. /\ UNCHANGED <<disk, lock, runAttempts, actions, faults>> /\ at[d] = "search"
        /\ at[d] \in Running /\ lock[d.process] = d
        /\ (Executed(d) /\ Recorded(app)) \/ Goes(d, "create", w)
    BY <1>6 DEF Search, found, Executed, WorkflowInv, HoldsLock, Running
  <2>2. CASE Executed(d) /\ Recorded(app)
    <3>1. \A a : Recorded(a) => Recorded(a)'
      BY <2>1 DEF Recorded
    <3>2. PICK step : step = app
      OBVIOUS
    <3>3. Recorded(step)' /\ step = Step(workflow[d])
      BY <2>2, <3>1, <3>2
    <3> HIDE DEF app
    <3>4. QED BY <2>1, <2>2, <3>1, <3>3, ExecutedKeeps, RecordStays DEF WorkflowInv, WorkflowTypeOK
  <2>3. CASE Goes(d, "create", w)
    <3>1. w \in Workflow
      BY <2>1 DEF WorkflowInv, Consistent, Running
    <3>2. /\ at' \in [Deliveries -> Running \cup {"waiting", "settled"}]
          /\ workflow' \in [Deliveries -> Workflow \cup {NoWorkflow}]
          /\ at'[d] = "create" /\ workflow'[d] = w
          /\ \A e \in Deliveries \ {d} : at'[e] = at[e] /\ at[e] \notin Running
      BY <2>1, <2>3, <3>1, GoesTo DEF Running
    <3>3. Consistent(d)'
      BY <2>1, <3>2 DEF WorkflowInv, Consistent, Running, Recorded, AllCompleted
    <3>4. HoldsLock' /\ \A e \in Deliveries : Consistent(e)'
      BY <2>1, <3>2, <3>3, OneMoves
    <3>5. QED BY <2>1, <3>2, <3>4, RecordStays DEF WorkflowInv, WorkflowTypeOK
  <2>4. QED BY <2>1, <2>2, <2>3
<1>7. CASE Create(d)
  <2>1. PICK app : app = Step(workflow[d])
    OBVIOUS
  <2>2. Takes(d, app) /\ Executed(d) /\ at[d] = "create"
        /\ UNCHANGED <<disk, lock, runAttempts, faults>>
    BY <1>7, <2>1 DEF Create, Executed
  <2>3. /\ actions' \in [AppName -> [Incidents -> Nat]]
        /\ OfRecord' /\ Recorded(app)' /\ \A a \in AppName : Recorded(a) => Recorded(a)'
    BY <2>1, <2>2, TakesInOrder
  <2>4. QED BY <2>1, <2>2, <2>3, ExecutedKeeps DEF WorkflowInv, WorkflowTypeOK
<1>8. CASE SaveFailed(d) \/ Finish(d)
  <2>1. at[d] \in Running \ {"load"} /\ Saved(d) /\ Settles(d) /\ UNCHANGED <<actions, faults>>
    BY <1>8 DEF SaveFailed, Finish, Running
  <2>2. QED BY <2>1, SavesForward, SettlesTo DEF WorkflowInv, WorkflowTypeOK
<1>9. QED BY <1>1, <1>2, <1>3, <1>4, <1>5, <1>6, <1>7, <1>8 DEF DeliveryStep

\* What fails, outside the process.
LEMMA FaultsKeep ==
  ASSUME WorkflowInv, NEW d \in Deliveries, RequestFails(d) \/ CheckpointFails(d) \/ StoreThrows(d)
  PROVE  WorkflowInv'
<1>0. Fault
  BY DEF RequestFails, CheckpointFails, StoreThrows
<1>1. faults' \in 0 .. MaxFaults
  BY <1>0, WorkflowAssumption DEF WorkflowInv, WorkflowTypeOK, Fault
<1>2. CASE StoreThrows(d)
  BY <1>1, <1>2, SettlesKeeps DEF StoreThrows, Throws, Running
<1>3. CASE CheckpointFails(d)
  <2> DEFINE app == Step(disk)
  <2>1. ~ AllCompleted(disk)
    BY <1>3 DEF CheckpointFails, WorkflowInv, Consistent
  <2>2. app \in AppName /\ disk.steps[app] # "completed"
    BY <2>1, StepIsOpen
  <2>3. Caught(d, app, FALSE) /\ at[d] = "checkpoint" /\ UNCHANGED <<disk, lock, runAttempts, actions>>
    BY <1>3 DEF CheckpointFails, Caught
  <2>4. \A a \in AppName : Recorded(a) => Recorded(a)'
    BY <2>3 DEF Recorded
  <2> HIDE DEF app
  <2>5. QED BY <1>1, <2>2, <2>3, <2>4, CaughtKeeps, RecordStays DEF WorkflowInv, WorkflowTypeOK
<1>4. CASE RequestFails(d)
  <2>1. PICK app : app = Step(workflow[d])
    OBVIOUS
  <2>2. PICK retryable \in BOOLEAN : Caught(d, app, retryable)
    BY <1>4, <2>1 DEF RequestFails
  <2>3. /\ at[d] \in {"search", "create"} /\ UNCHANGED <<disk, lock, runAttempts>>
        /\ UNCHANGED actions \/ (at[d] = "create" /\ Takes(d, app))
    BY <1>4, <2>1, <2>2 DEF RequestFails, Caught
  <2>4. disk = workflow[d] /\ ~ AllCompleted(workflow[d])
    BY <2>3 DEF WorkflowInv, Consistent
  <2>5. app \in AppName /\ disk.steps[app] # "completed"
    BY <2>1, <2>4, StepIsOpen
  <2>6. /\ actions' \in [AppName -> [Incidents -> Nat]] /\ OfRecord'
        /\ \A a \in AppName : Recorded(a) => Recorded(a)'
    <3>1. CASE UNCHANGED actions
      BY <2>3, <3>1, RecordStays DEF WorkflowInv, WorkflowTypeOK, Recorded
    <3>2. CASE at[d] = "create" /\ Takes(d, app)
      BY <2>1, <2>3, <3>2, TakesInOrder
    <3>3. QED BY <2>3, <3>1, <3>2
  <2>7. QED BY <1>1, <2>2, <2>3, <2>5, <2>6, CaughtKeeps DEF WorkflowInv, WorkflowTypeOK
<1>5. QED BY <1>2, <1>3, <1>4

\* The process dies: the lock and the copies go with it.
LEMMA DeathKeeps ==
  ASSUME WorkflowInv, NEW p \in Processes, ProcessDies(p)
  PROVE  WorkflowInv'
<1> DEFINE dead == {d \in Deliveries : d.process = p /\ at[d] \in Running}
<1>1. /\ at' = [d \in Deliveries |-> IF d \in dead THEN "settled" ELSE at[d]]
      /\ workflow' = [d \in Deliveries |-> IF d \in dead THEN NoWorkflow ELSE workflow[d]]
      /\ lock' = [lock EXCEPT ![p] = NoDelivery]
      /\ UNCHANGED <<disk, runAttempts, actions>> /\ faults' = faults + 1 /\ faults < MaxFaults
  BY DEF ProcessDies, Fault
<1>2. \A d \in Deliveries : d.process = p
  BY DEF WorkflowInv, SingleProcess, Processes
<1>3. \A d \in Deliveries : at'[d] \notin Running
  BY <1>1, <1>2 DEF Running
<1>4. HoldsLock' /\ \A d \in Deliveries : Consistent(d)'
  BY <1>3 DEF HoldsLock, Consistent, Running
<1>5. WorkflowTypeOK'
  BY <1>1, WorkflowAssumption DEF WorkflowInv, WorkflowTypeOK
<1>6. QED BY <1>1, <1>4, <1>5, RecordStays DEF WorkflowInv

\* Every step keeps the invariant.
LEMMA StepKeeps == WorkflowInv /\ [WorkflowNext]_workflowVars => WorkflowInv'
<1>1. WorkflowInv /\ UNCHANGED workflowVars => WorkflowInv'
  BY DEF WorkflowInv, WorkflowTypeOK, HoldsLock, OfRecord, ActionsAreOfRecord, ActionsInOrder,
         Consistent, Recorded, AllCompleted, workflowVars, deliveryVars
<1>2. ASSUME WorkflowInv, WorkflowNext PROVE WorkflowInv'
  <2>1. CASE \E d \in Deliveries : DeliveryStep(d)
    BY <1>2, <2>1, DeliveryKeeps
  <2>2. CASE \E d \in Deliveries : RequestFails(d) \/ CheckpointFails(d) \/ StoreThrows(d)
    BY <1>2, <2>2, FaultsKeep
  <2>3. CASE \E p \in Processes : ProcessDies(p)
    BY <1>2, <2>3, DeathKeeps
  <2>4. QED BY <1>2, <2>1, <2>2, <2>3 DEF WorkflowNext
<1>3. QED BY <1>1, <1>2

\* The invariant of one process.
LEMMA WorkflowInvAlways == SingleProcess /\ WorkflowSpec => []WorkflowInv
BY InitKeeps, StepKeeps, PTL DEF WorkflowSpec

(***************************************************************************)
(* Theorems.                                                               *)
(***************************************************************************)
\* The types, for any deliveries to one process.
THEOREM WorkflowTypes == SingleProcess /\ WorkflowSpec => []WorkflowTypeOK
<1>1. WorkflowInv => WorkflowTypeOK
  BY DEF WorkflowInv
<1>2. QED BY <1>1, WorkflowInvAlways, PTL

\* Every action in an app is for the incident whose workflow is on the disk,
\* whichever deliveries ran and died before.
THEOREM RecordOfActions == SingleProcess /\ WorkflowSpec => []ActionsAreOfRecord
<1>1. WorkflowInv => ActionsAreOfRecord
  BY DEF WorkflowInv, OfRecord
<1>2. QED BY <1>1, WorkflowInvAlways, PTL

\* The issue is there before the alert and the alert before the page, and the disk
\* says of no app that it has acted when it has not.
THEOREM OrderOfActions == SingleProcess /\ WorkflowSpec => []ActionsInOrder
<1>1. WorkflowInv => ActionsInOrder
  BY DEF WorkflowInv, OfRecord
<1>2. QED BY <1>1, WorkflowInvAlways, PTL

\* No delivery, failure or death takes back a step that the disk has completed, or
\* touches a completed workflow.
THEOREM CompletedStays == SingleProcess /\ WorkflowSpec => ResumeSkipsCompleted
<1>1. ASSUME WorkflowInv, [WorkflowNext]_workflowVars
      PROVE  [\A a \in AppName : disk # NoWorkflow /\ disk.steps[a] = "completed" =>
                disk'.steps[a] = "completed" /\ (disk.status = "completed" => disk' = disk)]_disk
  <2> SUFFICES ASSUME disk' # disk
               PROVE  \A a \in AppName : disk # NoWorkflow /\ disk.steps[a] = "completed" =>
                       disk'.steps[a] = "completed" /\ (disk.status = "completed" => disk' = disk)
    OBVIOUS
  <2>1. PICK d \in Deliveries : at[d] \in Running \ {"load"} /\ Saved(d) /\ UNCHANGED actions
    <3>1. ~ UNCHANGED workflowVars /\ \A p \in Processes : ~ ProcessDies(p)
      BY DEF workflowVars, ProcessDies
    <3>2. \A d \in Deliveries : ~ (RequestFails(d) \/ CheckpointFails(d) \/ StoreThrows(d))
      BY DEF RequestFails, CheckpointFails, StoreThrows
    <3>3. PICK d \in Deliveries : DeliveryStep(d)
      BY <1>1, <3>1, <3>2 DEF WorkflowNext
    <3>4. SaveBegin(d) \/ SaveAttempt(d) \/ Checkpoint(d) \/ SaveFailed(d) \/ Finish(d)
      BY <3>3 DEF DeliveryStep, Refuse, withLock, load, Search, Create
    <3>5. QED BY <3>4 DEF SaveBegin, SaveAttempt, Checkpoint, SaveFailed, Finish, Running
  <2>2. QED BY <1>1, <2>1, SavesForward
<1>2. QED BY <1>1, WorkflowInvAlways, PTL DEF WorkflowSpec, ResumeSkipsCompleted

(***************************************************************************)
(* Each app acts once, provided that a search finds what is there: the     *)
(* delivery at the POST found that the app had not acted, and is alone.    *)
(***************************************************************************)
OnceInv ==
  /\ ~ SearchLags
  /\ \A a \in AppName, i \in Incidents : actions[a][i] <= 1
  /\ \A d \in Deliveries : at[d] = "create" =>
       Step(workflow[d]) = "slack" \/ ~ Recorded(Step(workflow[d]))

\* A POST that follows such a search, or goes to Slack, does not act again.
LEMMA TakesOnce ==
  ASSUME WorkflowInv, OnceInv, NEW d \in Deliveries, at[d] = "create",
         Takes(d, Step(workflow[d]))
  PROVE  \A a \in AppName, i \in Incidents : actions'[a][i] <= 1
<1> DEFINE app == Step(workflow[d])
<1>1. app \in AppName /\ d.incident \in Incidents /\ actions \in [AppName -> [Incidents -> Nat]]
  BY StepIsOpen DEF WorkflowInv, WorkflowTypeOK, Consistent, Incidents
<1>2. CASE UNCHANGED actions
  BY <1>2 DEF OnceInv
<1>3. CASE ~ Recorded(app) /\ actions' = [actions EXCEPT ![app][d.incident] = @ + 1]
  <2> HIDE DEF app
  <2>1. actions[app][d.incident] = 0
    BY <1>1, <1>3 DEF Recorded
  <2>2. QED BY <1>1, <1>3, <2>1 DEF OnceInv
<1>4. QED BY <1>2, <1>3 DEF Takes, OnceInv

\* Every step keeps that what was created is found, where a search finds what is there.
LEMMA OnceKeeps ==
  ASSUME WorkflowInv, OnceInv, [WorkflowNext]_workflowVars
  PROVE  OnceInv'
<1> DEFINE Found(d) == Step(workflow[d]) = "slack" \/ ~ Recorded(Step(workflow[d]))
<1>0. ~ SearchLags
  BY DEF OnceInv
\* Only the delivery at the POST makes an app act, and it leaves the POST.
<1>1. ASSUME NEW d \in Deliveries, at[d] = "create", Takes(d, Step(workflow[d])),
             at'[d] # "create", \A e \in Deliveries \ {d} : at'[e] = at[e]
      PROVE  OnceInv'
  <2>1. \A e \in Deliveries : at'[e] # "create"
    BY <1>1, Alone DEF Running
  <2>2. QED BY <1>1, <2>1, TakesOnce DEF OnceInv
\* A step that makes no app act brings a delivery to the POST only when Found.
<1>2. ASSUME UNCHANGED actions,
             \A d \in Deliveries : at'[d] = "create" =>
               workflow'[d] = workflow[d] /\ (at[d] = "create" \/ Found(d))
      PROVE  OnceInv'
  BY <1>2 DEF OnceInv, Recorded
<1>3. ASSUME NEW d \in Deliveries, DeliveryStep(d) PROVE OnceInv'
  <2>1. \A e \in Deliveries \ {d} : at'[e] = at[e] /\ workflow'[e] = workflow[e]
    BY <1>3 DEF DeliveryStep, Refuse, withLock, load, SaveBegin, SaveAttempt, Search, Create, Checkpoint,
                SaveFailed, Finish, Settles, Throws, Goes, Enters, Executed, WorkflowInv, WorkflowTypeOK
  <2>2. CASE Create(d)
    <3>1. at'[d] = "checkpoint" /\ at[d] = "create" /\ Takes(d, Step(workflow[d]))
      BY <2>2 DEF Create, Executed, Goes, WorkflowInv, WorkflowTypeOK
    <3>2. QED BY <1>1, <2>1, <3>1
  <2>3. CASE SaveAttempt(d) \/ Search(d)
    <3>1. UNCHANGED actions /\ (at'[d] = "create" => workflow'[d] = workflow[d] /\ Found(d))
      BY <1>0, <1>3, <2>3 DEF SaveAttempt, Search, found, Executed, Goes, WorkflowInv, WorkflowTypeOK
    <3>2. QED BY <1>2, <2>1, <3>1
  <2>4. CASE ~ Create(d) /\ ~ SaveAttempt(d) /\ ~ Search(d)
    <3>1. UNCHANGED actions /\ at'[d] # "create"
      BY <1>3, <2>4 DEF DeliveryStep, Refuse, withLock, load, SaveBegin, Checkpoint,
                SaveFailed, Finish, Settles, Throws, Goes, Enters, WorkflowInv, WorkflowTypeOK
    <3>2. QED BY <1>2, <2>1, <3>1
  <2>5. QED BY <2>2, <2>3, <2>4
<1>4. ASSUME NEW d \in Deliveries, RequestFails(d) \/ CheckpointFails(d) \/ StoreThrows(d) PROVE OnceInv'
  <2>1. /\ at'[d] # "create"
        /\ \A e \in Deliveries \ {d} : at'[e] = at[e] /\ workflow'[e] = workflow[e]
    BY <1>4 DEF RequestFails, CheckpointFails, StoreThrows, Caught, Throws, Settles, Goes,
                WorkflowInv, WorkflowTypeOK
  <2>2. UNCHANGED actions \/ (at[d] = "create" /\ Takes(d, Step(workflow[d])))
    BY <1>4 DEF RequestFails, CheckpointFails, StoreThrows
  <2>3. QED BY <1>1, <1>2, <2>1, <2>2
<1>5. ASSUME NEW p \in Processes, ProcessDies(p) PROVE OnceInv'
  <2>1. \A d \in Deliveries : at'[d] = "create" => at[d] = "create" /\ workflow'[d] = workflow[d]
    BY <1>5 DEF ProcessDies
  <2>2. UNCHANGED actions
    BY <1>5 DEF ProcessDies
  <2>3. QED BY <1>2, <2>1, <2>2
<1>6. CASE UNCHANGED workflowVars
  BY <1>2, <1>6 DEF workflowVars, deliveryVars
<1>7. QED BY <1>3, <1>4, <1>5, <1>6 DEF WorkflowNext

\* However often the receipt is delivered to the process, and whatever fails or dies
\* on the way, an app acts on it once and never on two versions of it.
THEOREM ActionsAreSingle ==
  SingleProcess /\ ~ SearchLags /\ WorkflowSpec => []NoDuplicateActions
<1>1. ~ SearchLags /\ WorkflowInit => OnceInv
  BY DEF WorkflowInit, OnceInv
<1>2. WorkflowInv /\ OnceInv /\ [WorkflowNext]_workflowVars => OnceInv'
  BY OnceKeeps
<1>3. WorkflowInv /\ OnceInv => NoDuplicateActions
  BY DEF WorkflowInv, OfRecord, ActionsAreOfRecord, OnceInv, NoDuplicateActions
<1>4. QED BY <1>1, <1>2, <1>3, WorkflowInvAlways, PTL DEF WorkflowSpec
================================================================================
