------------------------------ MODULE ReplayEngine ------------------------------
(***************************************************************************)
(* Replays of a defense bundle.  A worker runs every case of the suite and *)
(* writes a report; the control plane and the validators verify a report   *)
(* against the bundle before they rely on it, and a report may come from   *)
(* a program that made it otherwise.                                       *)
(*                                                                         *)
(* Rates are compared as fractions, in percent.                            *)
(***************************************************************************)
EXTENDS DefenseRules, SequencesExt

CONSTANTS
  ReplayBundles,   \* the bundles that are replayed
  Durations,       \* what measure may return, in milliseconds
  Thresholds       \* the thresholds a job may ask for

ASSUME ReplayAssumption ==
  /\ \A b \in ReplayBundles : b.suite.cases \in Seq(ToSet(b.suite.cases))
  /\ Durations \subseteq Nat
  /\ \A t \in Thresholds : t \in [attackPassRate : 0 .. 100, controlPassRate : 0 .. 100, p95LatencyMs : Nat]

VARIABLES
  bundle,    \* the bundle of the job
  report,    \* the report at hand
  own,       \* it is the one runReplay wrote
  verdict    \* "none", of verifyReplayReport "accepted" or "refused", of runReplay "thrown"

replayVars == <<bundle, report, own, verdict>>

Kinds == {"attack", "control"}

\* No report is at hand yet.
NoReport == [error |-> "report"]

DEFAULT_THRESHOLDS == [attackPassRate |-> 95, controlPassRate |-> 95, p95LatencyMs |-> 50]

ReplayInit ==
  /\ bundle \in ReplayBundles
  /\ report = NoReport
  /\ own = FALSE
  /\ verdict = "none"

\* The values in ascending order.
sorted(values) ==
  LET order == CHOOSE p \in [DOMAIN values -> DOMAIN values] :
                 \A i, j \in DOMAIN values : i < j => p[i] # p[j] /\ values[p[i]] <= values[p[j]]
  IN [i \in DOMAIN values |-> values[order[i]]]

\* Mutant: the index is rounded down.
percentileRoundedDown(values, percentage) ==
  IF values = <<>> THEN 0
  ELSE LET n == (percentage * Len(values)) \div 100
       IN sorted(values)[IF n = 0 THEN 1 ELSE n]

\* index = max(0, ceil(p n) - 1), counted from 0.
percentile(values, percentage) ==
  IF values = <<>> THEN 0
  ELSE LET n == (percentage * Len(values) + 99) \div 100
       IN sorted(values)[IF n = 0 THEN 1 ELSE n]

summarize(cases, kind) ==
  LET selected == {i \in DOMAIN cases : cases[i].kind = kind}
      passed == {i \in selected : cases[i].passed}
  IN [passed |-> Cardinality(passed), failed |-> Cardinality(selected) - Cardinality(passed),
      total |-> Cardinality(selected)]

durationsOf(cases) == [i \in DOMAIN cases |-> cases[i].durationMs]

latencySummary(cases) ==
  [p50 |-> percentile(durationsOf(cases), 50),
   p95 |-> percentile(durationsOf(cases), 95),
   max |-> percentile(durationsOf(cases), 100)]

reaches(summary, rate) == summary.passed * 100 >= rate * summary.total

eligible(summary, thresholds) ==
  /\ reaches(summary.attack, thresholds.attackPassRate)
  /\ reaches(summary.control, thresholds.controlPassRate)
  /\ summary.latencyMs.p95 <= thresholds.p95LatencyMs

body(r) == [f \in DOMAIN r \ {"reportHash"} |-> r[f]]
Sealed(b) == [f \in DOMAIN b \cup {"reportHash"} |-> IF f = "reportHash" THEN contentHash(b) ELSE b[f]]

\* Mutant: a suite with cases of one kind only is replayed.
replayableOfOneKind(b) ==
  /\ verifyDefenseBundle(b)
  /\ b.manifest.filesystem = "none"
  /\ "dadieng.event.v1" \in b.manifest.eventSchemas

\* The bundles that runReplay does not throw on.
replayable(b) ==
  /\ verifyDefenseBundle(b)
  /\ b.manifest.filesystem = "none"
  /\ "dadieng.event.v1" \in b.manifest.eventSchemas
  /\ \A kind \in Kinds : \E i \in DOMAIN b.suite.cases : b.suite.cases[i].kind = kind

\* One case, run and timed.
caseResult(b, case, duration) ==
  LET actual == actualOutcome(b, case)
  IN [caseId |-> case.caseId, kind |-> case.kind, expectedOutcome |-> case.expectedOutcome,
      actualOutcome |-> actual, passed |-> actual = case.expectedOutcome, durationMs |-> duration]

artifacts(b) ==
  [manifestHash |-> contentHash(b.manifest), artifactHash |-> b.manifest.artifactHash,
   suiteHash |-> b.manifest.suiteHash, sbomHash |-> b.manifest.sbomHash]

\* The report of the bundle where the i-th case takes durations[i].
runReplay(b, durations, thresholds) ==
  LET cases == [i \in DOMAIN b.suite.cases |-> caseResult(b, b.suite.cases[i], durations[i])]
      summary == [attack |-> summarize(cases, "attack"), control |-> summarize(cases, "control"),
                  latencyMs |-> latencySummary(cases)]
  IN Sealed([defenseVersionId |-> versionId(b), artifacts |-> artifacts(b), thresholds |-> thresholds,
             summary |-> summary, cases |-> cases, releaseEligible |-> eligible(summary, thresholds)])

\* replayReportSchema: what the report says of itself agrees.
reportSchema(r) ==
  /\ \A kind \in Kinds :
       LET s == r.summary[kind] IN s.total > 0 /\ s = summarize(r.cases, kind)
  /\ \A i \in DOMAIN r.cases :
       r.cases[i].passed = (r.cases[i].expectedOutcome = r.cases[i].actualOutcome)
  /\ \A i, j \in DOMAIN r.cases : r.cases[i].caseId = r.cases[j].caseId => i = j
  /\ r.summary.latencyMs.p50 <= r.summary.latencyMs.p95
  /\ r.summary.latencyMs.p95 <= r.summary.latencyMs.max
  /\ r.releaseEligible = eligible(r.summary, r.thresholds)

\* Whether verifyReplayReport returns the report.
verifyReplayReport(r, b) ==
  /\ reportSchema(r)
  /\ contentHash(body(r)) = r.reportHash
  /\ r.summary.latencyMs = latencySummary(r.cases)
  /\ verifyDefenseBundle(b)
  /\ r.defenseVersionId = versionId(b)
  /\ r.artifacts = artifacts(b)
  /\ Len(r.cases) = Len(b.suite.cases)
  /\ \A i \in DOMAIN r.cases : \A f \in {"caseId", "kind", "expectedOutcome"} :
       r.cases[i][f] = b.suite.cases[i][f]

\* The report is parsed before it is returned, and runReplay throws if that fails.
RunReplay ==
  /\ verdict = "none" /\ report = NoReport
  /\ replayable(bundle)
  /\ \E durations \in [DOMAIN bundle.suite.cases -> Durations], t \in Thresholds :
       LET built == runReplay(bundle, durations, t)
       IN IF reportSchema(built)
            THEN report' = built /\ UNCHANGED verdict
            ELSE verdict' = "thrown" /\ UNCHANGED report
  /\ own' = TRUE
  /\ UNCHANGED bundle

(***************************************************************************)
(* Another program writes a report that differs in one place, and seals it *)
(* or does not.                                                            *)
(***************************************************************************)
Alterations(r) ==
  {[r EXCEPT !.releaseEligible = ~@]}
    \cup {[r EXCEPT !.cases[i].passed = ~@] : i \in DOMAIN r.cases}
    \cup {[r EXCEPT !.cases[i].passed = TRUE, !.cases[i].actualOutcome = r.cases[i].expectedOutcome] :
            i \in DOMAIN r.cases}
    \cup {[r EXCEPT !.cases = RemoveAt(r.cases, i)] : i \in DOMAIN r.cases}
    \cup {[r EXCEPT !.summary[k].passed = @ + 1] : k \in Kinds}
    \cup {[r EXCEPT !.summary.latencyMs.p95 = d] : d \in Durations}
    \cup {[r EXCEPT !.thresholds = t] : t \in Thresholds}
    \cup {[r EXCEPT !.artifacts = artifacts(b)] : b \in ReplayBundles}

Resummarized(r) ==
  LET summary == [attack |-> summarize(r.cases, "attack"), control |-> summarize(r.cases, "control"),
                  latencyMs |-> latencySummary(r.cases)]
  IN [r EXCEPT !.summary = summary, !.releaseEligible = eligible(summary, r.thresholds)]

AlterReport ==
  /\ own /\ verdict = "none"
  /\ \E altered \in Alterations(report) :
       \/ report' = altered
       \/ report' = Sealed(body(altered))
       \/ report' = Sealed(body(Resummarized(altered)))
  /\ own' = FALSE
  /\ UNCHANGED <<bundle, verdict>>

Verify ==
  /\ report # NoReport /\ verdict = "none"
  /\ verdict' = IF verifyReplayReport(report, bundle) THEN "accepted" ELSE "refused"
  /\ UNCHANGED <<bundle, report, own>>

ReplayNext == RunReplay \/ AlterReport \/ Verify

ReplaySpec == ReplayInit /\ [][ReplayNext]_replayVars

(***************************************************************************)
(* Properties.                                                             *)
(***************************************************************************)

\* A replay's own report is accepted: whatever was measured, and for every bundle that
\* runReplay takes, it passes the parse at runReplay's end, and verifyReplayReport computes
\* what runReplay computed (replay-engine index.ts:168, service.ts:311).
OwnReportsVerify == own => verdict \in {"none", "accepted"}

\* What an accepted report says of the release follows from its cases and the suite of the
\* bundle: the cases are the suite's, each counts as passed when it had its outcome, and
\* the report is eligible exactly when the shares of passed cases and the latency that 95
\* of 100 cases keep to reach the thresholds.  Nothing else is there to take on trust.
AcceptedReportsAddUp ==
  verdict = "accepted" =>
    LET cases == report.cases
        Of(kind) == {i \in DOMAIN bundle.suite.cases : bundle.suite.cases[i].kind = kind}
        Good(kind) == {i \in Of(kind) : cases[i].actualOutcome = bundle.suite.cases[i].expectedOutcome}
        Share(kind, rate) == 100 * Cardinality(Good(kind)) >= rate * Cardinality(Of(kind))
        Within(ms) == {i \in DOMAIN cases : cases[i].durationMs <= ms}
    IN /\ \A kind \in Kinds : Of(kind) # {}
       /\ report.releaseEligible <=>
            /\ Share("attack", report.thresholds.attackPassRate)
            /\ Share("control", report.thresholds.controlPassRate)
            /\ 100 * Cardinality(Within(report.thresholds.p95LatencyMs)) >= 95 * Len(cases)
================================================================================
