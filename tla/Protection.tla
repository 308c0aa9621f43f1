------------------------------ MODULE Protection ------------------------------
(***************************************************************************)
(* The SDK in an agent, between the agent and its tools and models.  An    *)
(* adapter lets the SDK look at a request before it leaves and at the      *)
(* result before the agent gets it; in between the tool runs, other calls  *)
(* go on and a sync may replace the defenses.                              *)
(*                                                                         *)
(* protect is synchronous, so a hook is one step: normalize the content,   *)
(* ask the engine, tell the listeners, and make a receipt and encrypted    *)
(* evidence of what is blocked or observed.                                *)
(*                                                                         *)
(* Words stand for the patterns that capability names are tested for.      *)
(***************************************************************************)
EXTENDS DefenseRules, SequencesExt, TLC

CONSTANTS
  Calls,         \* guarded calls
  Names,         \* capability names: the sets of words they contain
  Contents,      \* contents of requests and results: sets of indicators
  Unreadable,    \* a content that normalizeContent throws on
  Public,        \* a content whose text occurs in public receipts
  Engines        \* sequences of defenses an adopter or a sync may install

ASSUME ProtectionAssumption ==
  /\ Unreadable \notin Contents /\ Public \in Contents
  /\ \A defenses \in Engines :
       /\ defenses \in Seq(ToSet(defenses))
       /\ \A d \in ToSet(defenses) \ {BrokenDefense} :
            d.artifact.rules \in Seq(ToSet(d.artifact.rules))

VARIABLES
  config,        \* mode, failMode and whether the evidence key is 32 bytes long
  engine,        \* the defenses of the policy engine
  call,          \* call[c]: where the call is, its adapter, its capability and what passed last
  incidents,     \* what onIncident listeners got: receipts with encrypted evidence
  decided,       \* how many decisions were made, by outcome
  diagnostics    \* how many diagnostics of each type there are

protectionVars == <<config, engine, call, incidents, decided, diagnostics>>

Diagnostic == {"policy_evaluation_error", "receipt_pipeline_error", "manifest_sync_error"}
Zero(S) == [s \in S |-> 0]

(***************************************************************************)
(* The adapters: the stages they look at, the trust zones they tell and    *)
(* the impact they declare.                                                *)
(***************************************************************************)
Hooks ==
  [mcp |-> [before |-> [stage |-> "before_tool", trustZone |-> "untrusted"],
            after |-> [stage |-> "after_tool", trustZone |-> "untrusted"], impact |-> "inferred"],
   tool |-> [before |-> [stage |-> "before_tool", trustZone |-> "tenant"],
             after |-> [stage |-> "after_tool", trustZone |-> "untrusted"], impact |-> "inferred"],
   model |-> [before |-> [stage |-> "before_model", trustZone |-> "tenant"],
              after |-> [stage |-> "after_model", trustZone |-> "untrusted"], impact |-> "medium"]]

Adapter == DOMAIN Hooks

inferImpact(name) ==
  CASE name \cap {"secret", "credential", "private key", "shell", "payment", "transfer"} # {} -> "critical"
    [] name \cap {"write", "delete", "network send", "email send"} # {} -> "high"
    [] name \cap {"read", "fetch", "search"} # {} -> "medium"
    [] OTHER -> "low"

impactOf(adapter, name) ==
  IF Hooks[adapter].impact = "inferred" THEN inferImpact(name) ELSE Hooks[adapter].impact

\* classifyCapabilities: the words that put a name into a class of capabilities.
CapabilityWords ==
  ("secrets.read" :> {"secret", "credential", "private key"}) @@
  ("network.send" :> {"network send", "http", "upload"}) @@
  ("filesystem.write" :> {"file write"}) @@ ("filesystem.read" :> {"file read"}) @@
  ("process.execute" :> {"shell"}) @@ ("payment.transfer" :> {"payment", "transfer"}) @@
  ("communications.send" :> {"email send"}) @@ ("data.write" :> {"data write"}) @@
  ("data.read" :> {"data read", "fetch", "search"})

classifyCapabilities(name) ==
  LET classes == {k \in DOMAIN CapabilityWords : name \cap CapabilityWords[k] # {}}
  IN IF classes = {} THEN {"unknown"} ELSE classes

\* The class of the first reason that has one.
classify(reasonCodes) ==
  LET ClassOf(r) == CASE r = "UNTRUSTED_TOOL_INSTRUCTION" -> "tool_poisoning"
                      [] r \in {"SECRET_ACCESS_REQUEST", "EXFILTRATION_REQUEST"} -> "data_exfiltration"
                      [] OTHER -> "none"
      known == SelectSeq(reasonCodes, LAMBDA r : ClassOf(r) # "none")
  IN IF known = <<>> THEN "prompt_injection" ELSE ClassOf(Head(known))

\* failureDecision: the outcome when nothing could be evaluated.
failureOutcome(impact) ==
  CASE config.failMode = "open" -> "ALLOW"
    [] config.failMode = "closed" -> "BLOCK"
    [] OTHER -> IF impact \in {"high", "critical"} THEN "BLOCK" ELSE "OBSERVE"

failureReason ==
  CASE config.failMode = "open" -> "SDK_EVALUATION_FAILED_OPEN"
    [] config.failMode = "closed" -> "SDK_EVALUATION_FAILED_CLOSED"
    [] OTHER -> "SDK_EVALUATION_FAILED_LAST_KNOWN_GOOD"

evaluationFails(event) == event.content = Unreadable \/ engineThrows(engine, event)

decide(event) ==
  IF evaluationFails(event)
    THEN [outcome |-> failureOutcome(event.impact),
          reasonCodes |-> <<failureReason>>, matchedDefenseIds |-> <<>>]
    ELSE engineDecides(engine, event)

(***************************************************************************)
(* The receipt pipeline.  Encryption authenticates the ciphertext together *)
(* with the receipt id, here the number of the incident: a fresh one.      *)
(***************************************************************************)
encryptThreatEvidence(id, event, decision) ==
  [receiptId |-> id, authenticated |-> id, iv |-> id,
   plaintext |-> [receiptId |-> id, event |-> event, decision |-> decision]]

\* No plaintext: the tag does not answer the ciphertext and its receipt.
NoEvidence == [error |-> "authentication"]

decryptThreatEvidence(evidence) ==
  IF evidence.authenticated = evidence.receiptId /\ evidence.plaintext.receiptId = evidence.receiptId
    THEN evidence.plaintext ELSE NoEvidence

verifyEvidenceCommitment(receipt, evidence) ==
  receipt.receiptId = evidence.receiptId /\ receipt.evidenceHash = contentHash(evidence)

\* Mutant: the key has the reason codes in the order of the rule, and the receipt id.
deduplicationKeyOfReceipt(id, event, decision) ==
  [attackClass |-> classify(decision.reasonCodes), capabilities |-> classifyCapabilities(event.name),
   sourceFingerprint |-> contentHash(event.content), reasonCodes |-> <<decision.reasonCodes, id>>]

deduplicationKey(id, event, decision) ==
  [attackClass |-> classify(decision.reasonCodes), capabilities |-> classifyCapabilities(event.name),
   sourceFingerprint |-> contentHash(event.content), reasonCodes |-> ToSet(decision.reasonCodes)]

createThreatReceipt(id, event, decision) ==
  LET evidence == encryptThreatEvidence(id, event, decision)
  IN [receipt |-> [receiptId |-> id, severity |-> event.impact,
                   evidenceHash |-> contentHash(evidence),
                   deduplicationKey |-> deduplicationKey(id, event, decision),
                   manualReviewRequired |-> event.impact \in {"high", "critical"}],
      evidence |-> evidence]

\* The pipeline throws: the key is too short, or the content is in the receipt.
pipelineFails(event) == ~config.keyIsValid \/ event.content = Public

\* Mutant: what is only observed makes no incident.
reportableBlocked(decision) == decision.outcome = "BLOCK"

reportable(decision) == decision.outcome \in {"BLOCK", "OBSERVE"}

\* All that protect does besides its answer, the decision.
Protects(event, decision) ==
  LET reports == reportable(decision)
  IN /\ decided' = [decided EXCEPT ![decision.outcome] = @ + 1]
     /\ incidents' = IF reports /\ ~pipelineFails(event)
                       THEN incidents \cup {createThreatReceipt(Cardinality(incidents), event, decision)}
                       ELSE incidents
     /\ diagnostics' = [diagnostics EXCEPT
          !["policy_evaluation_error"] = IF evaluationFails(event) THEN @ + 1 ELSE @,
          !["receipt_pipeline_error"] = IF reports /\ pipelineFails(event) THEN @ + 1 ELSE @]

\* Mutant: only a block stops a call.
requireNotBlocked(decision) == decision.outcome # "BLOCK"

requireAllowed(decision) == decision.outcome \in {"ALLOW", "OBSERVE"}

eventOf(hook, adapter, name, content) ==
  [stage |-> Hooks[adapter][hook].stage, trustZone |-> Hooks[adapter][hook].trustZone,
   name |-> name, impact |-> impactOf(adapter, name), content |-> content, mode |-> config.mode]

Idle == [at |-> "idle", adapter |-> "none", name |-> {}, content |-> {}]
Blocked == [Idle EXCEPT !.at = "blocked"]
Failed == [Idle EXCEPT !.at = "failed"]

ProtectionInit ==
  /\ config \in [mode : {"observe", "enforce"}, failMode : {"open", "closed", "last-known-good"},
                 keyIsValid : BOOLEAN]
  /\ engine \in {defenses \in Engines : \A i \in DOMAIN defenses :
                    defenses[i] = BrokenDefense \/ verifyDefenseBundle(defenses[i])}
  /\ call = [c \in Calls |-> Idle]
  /\ incidents = {}
  /\ decided = Zero(DecisionOutcome)
  /\ diagnostics = Zero(Diagnostic)

(***************************************************************************)
(* The agent calls: the tool or the model is asked when the request may    *)
(* leave, and DadiengBlockedError is thrown otherwise.                     *)
(***************************************************************************)
Request(c) ==
  /\ call[c].at = "idle"
  /\ \E adapter \in Adapter, name \in Names, content \in Contents \cup {Unreadable} :
       LET event == eventOf("before", adapter, name, content)
           decision == decide(event)
       IN /\ Protects(event, decision)
          /\ call' = [call EXCEPT ![c] =
               IF requireAllowed(decision)
                 THEN [at |-> "asked", adapter |-> adapter, name |-> name, content |-> content]
                 ELSE Blocked]
  /\ UNCHANGED <<config, engine>>

\* The tool or the model answers, and the agent gets the answer if it may.
Answers(c, content) ==
  LET event == eventOf("after", call[c].adapter, call[c].name, content)
      decision == decide(event)
  IN /\ Protects(event, decision)
     /\ call' = [call EXCEPT ![c] =
          IF requireAllowed(decision) THEN [@ EXCEPT !.at = "returned", !.content = content]
          ELSE Blocked]

Answer(c) ==
  /\ call[c].at = "asked"
  /\ \E content \in Contents \cup {Unreadable} : Answers(c, content)
  /\ UNCHANGED <<config, engine>>

ToolFails(c) ==
  /\ call[c].at = "asked"
  /\ call' = [call EXCEPT ![c] = Failed]
  /\ UNCHANGED <<config, engine, incidents, decided, diagnostics>>

\* verifyLocalVersion: every defense of the manifest is loadable and its shadow suite passes.
loadable(defenses) ==
  \A i \in DOMAIN defenses :
    defenses[i] # BrokenDefense /\ verifyDefenseBundle(defenses[i]) /\ suitePasses(defenses[i])

\* syncDefenses: all defenses of a manifest are activated, or none is.
SyncDefenses ==
  /\ \E defenses \in Engines :
       IF loadable(defenses)
         THEN engine' = defenses /\ UNCHANGED diagnostics
         ELSE /\ diagnostics["manifest_sync_error"] = 0   \* bound: one failed sync
              /\ diagnostics' = [diagnostics EXCEPT !["manifest_sync_error"] = @ + 1]
              /\ UNCHANGED engine
  /\ UNCHANGED <<config, call, incidents, decided>>

ProtectionNext == SyncDefenses \/ \E c \in Calls : Request(c) \/ Answer(c) \/ ToolFails(c)

ProtectionSpec == ProtectionInit /\ [][ProtectionNext]_protectionVars

(***************************************************************************)
(* Properties.                                                             *)
(***************************************************************************)

(***************************************************************************)
(* What may go on to the tool or back to the agent, whatever the order of  *)
(* defenses and rules: what could not be evaluated only as the failure     *)
(* mode says, and what a rule speaks to only if some rule lets it pass or  *)
(* the adopter only observes.                                              *)
(***************************************************************************)
RulesOn(event) ==
  UNION {{r \in ToSet(engine[i].artifact.rules) :
            /\ event.stage \in r.stages /\ event.trustZone \in r.trustZones
            /\ \A group \in r.indicatorGroups : \E indicator \in group : indicator \in event.content} :
         i \in {k \in DOMAIN engine : engine[k] # BrokenDefense}}

MayPass(event) ==
  \/ /\ event.content = Unreadable \/ BrokenDefense \in ToSet(engine)
     /\ \/ config.failMode = "open"
        \/ config.failMode = "last-known-good" /\ event.impact \in {"low", "medium"}
  \/ /\ event.content # Unreadable
     /\ \/ RulesOn(event) = {} /\ BrokenDefense \notin ToSet(engine)
        \/ \E r \in RulesOn(event) :
             \/ r.outcome \in {"ALLOW", "OBSERVE"}
             \/ r.outcome = "BLOCK" /\ config.mode = "observe"

\* No request leaves for a tool or a model, and no result is handed to the agent, that the
\* defenses installed at that moment hold back: not one for which they want an approval, a
\* sandbox or a redaction, which no adapter can give, and not one that could not be
\* evaluated, unless the failure mode says so (errors.ts:18, index.ts:259-271, 296-303).
NothingHeldBackPasses ==
  [][\A c \in Calls :
       LET passed(hook) == MayPass(eventOf(hook, call'[c].adapter, call'[c].name, call'[c].content))
       IN /\ call[c].at # "asked" /\ call'[c].at = "asked" => passed("before")
          /\ call[c].at # "returned" /\ call'[c].at = "returned" => passed("after")]_protectionVars

\* Whatever is blocked or observed is either an incident that the listeners get, whole, or
\* a diagnostic: none is lost between the decision and the adapter's exception, through
\* failures of the evaluation and of the pipeline (index.ts:275-293).  Whole: its own
\* evidence, and no other, answers the receipt's commitment, and opens to the decision that
\* made the incident (receipt-sanitizer index.ts:194-201, 160-177).
IncidentsAreWhole ==
  /\ decided["BLOCK"] + decided["OBSERVE"] =
       Cardinality(incidents) + diagnostics["receipt_pipeline_error"]
  /\ \A i \in incidents :
       /\ \A j \in incidents : verifyEvidenceCommitment(i.receipt, j.evidence) <=> i = j
       /\ decryptThreatEvidence(i.evidence) # NoEvidence
       /\ decryptThreatEvidence(i.evidence).decision.outcome \in {"BLOCK", "OBSERVE"}

\* Reports of the same incident converge and others do not: two receipts have the same
\* deduplication key exactly when the text, the classes of the capability, the class of the
\* attack and the reasons are the same, whichever call, adapter, rule and moment they are
\* from (receipt-sanitizer index.ts:261-267).
EquivalentIncidentsConverge ==
  \A i, j \in incidents :
    LET e(k) == decryptThreatEvidence(k.evidence)
        same == /\ e(i).event.content = e(j).event.content
                /\ classifyCapabilities(e(i).event.name) = classifyCapabilities(e(j).event.name)
                /\ classify(e(i).decision.reasonCodes) = classify(e(j).decision.reasonCodes)
                /\ ToSet(e(i).decision.reasonCodes) = ToSet(e(j).decision.reasonCodes)
    IN (i.receipt.deduplicationKey = j.receipt.deduplicationKey) <=> same
================================================================================
