-------------------------------- MODULE MCDefense --------------------------------
(***************************************************************************)
(* Instance of Protection and ReplayEngine for TLC.  The two share the     *)
(* evaluation of rules but no state, so they are not interleaved: one of   *)
(* them steps only while the other is as it began.                         *)
(***************************************************************************)
EXTENDS Protection, ReplayEngine

CONSTANTS c1, c2, unreadable

Symmetry == Permutations(Calls)

override == {"system override"}
secret == {"api key"}
exfiltration == {"upload"}

Rule(groups, outcome, reasons) ==
  [stages |-> {"after_tool", "after_model"}, trustZones |-> {"untrusted"}, indicatorGroups |-> groups,
   outcome |-> outcome, reasonCodes |-> reasons]

BlockSecret ==
  Rule({override, secret}, "BLOCK", <<"UNTRUSTED_TOOL_INSTRUCTION", "SECRET_ACCESS_REQUEST">>)
BlockUpload ==
  Rule({override, exfiltration}, "BLOCK", <<"UNTRUSTED_TOOL_INSTRUCTION", "EXFILTRATION_REQUEST">>)
ObserveUpload == Rule({exfiltration}, "OBSERVE", <<"EXFILTRATION_REQUEST">>)
ApproveSecret ==
  [Rule({secret}, "REQUIRE_APPROVAL", <<"SECRET_ACCESS_REQUEST">>) EXCEPT
     !.stages = {"before_tool", "before_model"}, !.trustZones = {"untrusted", "tenant"}]

Case(id, kind, content, outcome) ==
  [caseId |-> id, kind |-> kind, stage |-> "after_tool", trustZone |-> "untrusted",
   content |-> content, expectedOutcome |-> outcome]

Attack == Case("attack", "attack", override \cup secret, "BLOCK")
SubtleAttack == Case("subtle", "attack", secret, "BLOCK")
Control == Case("control", "control", override, "ALLOW")
StrictControl == Case("strict", "control", secret, "ALLOW")

Bundle(id, outcomes, rules, cases) ==
  createDefenseBundle(
    [defenseId |-> id, version |-> "0.2.0", runtime |-> "dadieng-rules", entrypoint |-> "artifact.json",
     filesystem |-> "none", eventSchemas |-> {"dadieng.event.v1"}, expectedOutcomes |-> outcomes],
    [defenseId |-> id, rules |-> rules], [defenseId |-> id, cases |-> cases], [defenseId |-> id])

Boundary == Bundle("mcp-boundary", {"BLOCK"}, <<BlockSecret, BlockUpload>>, <<Attack, Control>>)
Watcher == Bundle("watcher", {"OBSERVE", "REQUIRE_APPROVAL"}, <<ObserveUpload, ApproveSecret>>,
                  <<Case("upload", "attack", exfiltration, "OBSERVE"), StrictControl>>)
Failing == Bundle("failing", {"BLOCK"}, <<BlockSecret>>, <<Attack, SubtleAttack, Control>>)
Changed == [Boundary EXCEPT !.artifact.rules = <<>>]
Undeclared == Bundle("mcp-boundary", {"OBSERVE"}, <<BlockSecret>>, <<Attack, Control>>)
AttacksOnly == Bundle("mcp-boundary", {"BLOCK"}, <<BlockSecret>>, <<Attack>>)
Longer == Bundle("failing", {"BLOCK"}, <<BlockSecret>>, <<Attack, SubtleAttack, Control, StrictControl>>)

EnginesHere ==
  {<<Boundary>>, <<Boundary, Watcher>>, <<BrokenDefense>>, <<Changed>>}
ContentsHere == {override \cup secret, exfiltration}
NamesHere == {{"file write", "write"}, {"search"}}
BundlesHere == {Boundary, Failing, Longer, Undeclared, AttacksOnly}
ThresholdsHere ==
  {DEFAULT_THRESHOLDS, [attackPassRate |-> 50, controlPassRate |-> 95, p95LatencyMs |-> 20]}

Init == ProtectionInit /\ ReplayInit
OneOfProtection ==
  /\ config = [mode |-> "enforce", failMode |-> "open", keyIsValid |-> TRUE]
  /\ engine = <<Boundary>>
  /\ decided = Zero(DecisionOutcome)
Next ==
  \/ report = NoReport /\ bundle = Boundary /\ ProtectionNext /\ UNCHANGED replayVars
  \/ OneOfProtection /\ ReplayNext /\ UNCHANGED protectionVars
vars == <<protectionVars, replayVars>>
Spec == Init /\ [][Next]_vars
================================================================================
