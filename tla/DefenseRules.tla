------------------------------ MODULE DefenseRules ------------------------------
(***************************************************************************)
(* Defense bundles and what they decide: the checks a bundle passes before *)
(* it is loaded, the evaluation of its rules, the suite it is shipped with *)
(* and the engine that asks one defense after the other.                   *)
(*                                                                         *)
(* Of a text only the indicators matter that it mentions, so a content is  *)
(* a set of indicators.  A hash is a record that holds what it is of, so   *)
(* two hashes are equal exactly when the contents are.                     *)
(***************************************************************************)
EXTENDS Integers, Sequences, FiniteSets

CONSTANTS
  BrokenDefense   \* a defense of the adopter's own whose evaluate throws

Stage == {"before_model", "after_model", "before_tool", "after_tool"}
TrustZone == {"trusted", "tenant", "external", "untrusted"}
DecisionOutcome == {"ALLOW", "BLOCK", "REDACT", "REQUIRE_APPROVAL", "SANDBOX", "OBSERVE"}

contentHash(value) == [sha256 |-> value]

\* createDefenseBundle: the manifest commits to the other three files.
createDefenseBundle(manifest, artifact, suite, sbom) ==
  [manifest |-> [f \in DOMAIN manifest \cup {"artifactHash", "suiteHash", "sbomHash"} |->
                  CASE f = "artifactHash" -> contentHash(artifact)
                    [] f = "suiteHash" -> contentHash(suite)
                    [] f = "sbomHash" -> contentHash(sbom)
                    [] OTHER -> manifest[f]],
   artifact |-> artifact, suite |-> suite, sbom |-> sbom]

\* defenseTestSuiteSchema: at least one case, and no case twice.
suiteSchema(suite) ==
  /\ suite.cases # <<>>
  /\ \A i, j \in DOMAIN suite.cases : suite.cases[i].caseId = suite.cases[j].caseId => i = j

\* Whether verifyDefenseBundle lets the bundle pass.
verifyDefenseBundle(b) ==
  /\ suiteSchema(b.suite)
  /\ b.manifest.runtime = "dadieng-rules"
  /\ b.manifest.entrypoint = "artifact.json"
  /\ \A part \in {b.artifact, b.suite, b.sbom} : part.defenseId = b.manifest.defenseId
  /\ contentHash(b.artifact) = b.manifest.artifactHash
  /\ contentHash(b.sbom) = b.manifest.sbomHash
  /\ contentHash(b.suite) = b.manifest.suiteHash
  /\ \A i \in DOMAIN b.artifact.rules : b.artifact.rules[i].outcome \in b.manifest.expectedOutcomes

versionId(b) == <<b.manifest.defenseId, b.manifest.version>>

\* Every group of the rule has an indicator that the content mentions.
matches(rule, event) ==
  /\ event.stage \in rule.stages
  /\ event.trustZone \in rule.trustZones
  /\ \A group \in rule.indicatorGroups : group \cap event.content # {}

matching(b, event) == {i \in DOMAIN b.artifact.rules : matches(b.artifact.rules[i], event)}

\* Where a loop over a list, that returns at the first of these places, does so.
earliest(places) == CHOOSE i \in places : \A j \in places : i <= j

\* evaluate of a loaded defense, where it matches: the first matching rule decides.
evaluate(b, event) ==
  LET rule == b.artifact.rules[earliest(matching(b, event))]
  IN [outcome |-> IF event.mode = "observe" /\ rule.outcome = "BLOCK" THEN "OBSERVE"
                  ELSE rule.outcome,
      reasonCodes |-> rule.reasonCodes,
      matchedDefenseIds |-> <<versionId(b)>>]

answers(d, event) == d # BrokenDefense /\ matching(d, event) # {}

NoMatch == [outcome |-> "ALLOW", reasonCodes |-> <<"NO_DEFENSE_MATCH">>, matchedDefenseIds |-> <<>>]

(***************************************************************************)
(* LocalPolicyEngine: the first defense that answers decides, and later    *)
(* ones are not asked; one that throws before ends the evaluation.         *)
(***************************************************************************)
speaking(defenses, event) ==
  {i \in DOMAIN defenses : defenses[i] = BrokenDefense \/ answers(defenses[i], event)}

firstSpeaking(defenses, event) == defenses[earliest(speaking(defenses, event))]

engineThrows(defenses, event) ==
  /\ speaking(defenses, event) # {}
  /\ firstSpeaking(defenses, event) = BrokenDefense

engineDecides(defenses, event) ==
  IF speaking(defenses, event) = {} THEN NoMatch
  ELSE evaluate(firstSpeaking(defenses, event), event)

\* The event runDefenseSuite and runReplay make of a case.
caseEvent(case) ==
  [stage |-> case.stage, trustZone |-> case.trustZone, content |-> case.content, mode |-> "enforce"]

actualOutcome(b, case) ==
  IF answers(b, caseEvent(case)) THEN evaluate(b, caseEvent(case)).outcome ELSE "ALLOW"

\* runDefenseSuite: whether every case has the outcome it is to have.
suitePasses(b) ==
  \A i \in DOMAIN b.suite.cases :
    actualOutcome(b, b.suite.cases[i]) = b.suite.cases[i].expectedOutcome
================================================================================
