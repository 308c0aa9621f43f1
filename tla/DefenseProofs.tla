----------------------------- MODULE DefenseProofs -----------------------------
(***************************************************************************)
(* The client and the replay engine, for any defenses, rules, suites and   *)
(* contents.                                                               *)
(***************************************************************************)
EXTENDS Protection, ReplayEngine, FiniteSetTheorems, WellFoundedInduction, TLAPS

(***************************************************************************)
(* The evaluation of rules.                                                *)
(***************************************************************************)
\* Of natural numbers one is the least.
LEMMA LeastNumber ==
  ASSUME NEW S \in SUBSET Nat, S # {}
  PROVE  \E n \in S : \A m \in S : n <= m
<1>. DEFINE R == OpToRel(<, Nat)
<1>1. \A x, y \in Nat : x < y => <<x, y>> \in R
  BY DEF OpToRel
<1>2. IsWellFoundedOn(R, Nat)
  BY NatLessThanWellFounded
<1>. HIDE DEF R
<1>3. PICK n \in S : \A m \in S : <<m, n>> \notin R
  BY <1>2, WFMin
<1>4. n \in Nat /\ \A m \in S : m \in Nat /\ ~ (m < n)
  BY <1>1, <1>3
<1>. QED
  BY <1>4

\* A loop over a list that returns at one of some places does so at one of them.
LEMMA EarliestIsOne ==
  ASSUME NEW n \in Nat, NEW places \in SUBSET (1 .. n), places # {}
  PROVE  earliest(places) \in places /\ \A j \in places : earliest(places) <= j
<1>1. \E i \in places : \A j \in places : i <= j
  BY LeastNumber
<1>. QED
  BY <1>1 DEF earliest

\* Lists are functions on an initial segment of the numbers.
LEMMA ListDomain ==
  ASSUME NEW s, s \in Seq(ToSet(s))
  PROVE  Len(s) \in Nat /\ DOMAIN s = 1 .. Len(s) /\ ToSet(s) = {s[i] : i \in DOMAIN s}
BY DEF ToSet

\* The outcome of a bundle that answers is that of a rule which speaks to the event, or
\* OBSERVE for a rule that blocks, where the adopter only observes.
LEMMA AnswerIsOfARule ==
  ASSUME NEW b, b.artifact.rules \in Seq(ToSet(b.artifact.rules)), NEW event, answers(b, event)
  PROVE  \E i \in DOMAIN b.artifact.rules :
           /\ matches(b.artifact.rules[i], event)
           /\ evaluate(b, event).outcome =
                IF event.mode = "observe" /\ b.artifact.rules[i].outcome = "BLOCK" THEN "OBSERVE"
                ELSE b.artifact.rules[i].outcome
<1>. DEFINE rules == b.artifact.rules  i == earliest(matching(b, event))
<1>1. Len(rules) \in Nat /\ DOMAIN rules = 1 .. Len(rules)
  BY ListDomain
<1>2. matching(b, event) # {} /\ matching(b, event) \in SUBSET (1 .. Len(rules))
  BY <1>1 DEF answers, matching
<1>3. i \in matching(b, event)
  BY <1>1, <1>2, EarliestIsOne
<1>4. i \in DOMAIN rules /\ matches(rules[i], event)
  BY <1>3 DEF matching
<1>5. evaluate(b, event).outcome =
        IF event.mode = "observe" /\ rules[i].outcome = "BLOCK" THEN "OBSERVE" ELSE rules[i].outcome
  BY DEF evaluate
<1>. HIDE DEF i
<1>. QED
  BY <1>4, <1>5

\* The first defense that speaks is one of the engine's, and speaks.
LEMMA FirstSpeaks ==
  ASSUME NEW defenses, defenses \in Seq(ToSet(defenses)), NEW event, speaking(defenses, event) # {}
  PROVE  \E i \in DOMAIN defenses :
           /\ firstSpeaking(defenses, event) = defenses[i]
           /\ defenses[i] = BrokenDefense \/ answers(defenses[i], event)
<1>1. Len(defenses) \in Nat /\ DOMAIN defenses = 1 .. Len(defenses)
  BY ListDomain
<1>2. speaking(defenses, event) \in SUBSET (1 .. Len(defenses))
  BY <1>1 DEF speaking
<1>3. earliest(speaking(defenses, event)) \in speaking(defenses, event)
  BY <1>1, <1>2, EarliestIsOne
<1>. QED
  BY <1>3 DEF speaking, firstSpeaking

(***************************************************************************)
(* What passes.                                                            *)
(***************************************************************************)
Impact == {"low", "medium", "high", "critical"}

Config ==
  [mode : {"observe", "enforce"}, failMode : {"open", "closed", "last-known-good"},
   keyIsValid : BOOLEAN]

CallRow ==
  [at : {"idle", "asked", "returned", "blocked", "failed"}, adapter : Adapter \cup {"none"},
   name : Names \cup {{}}, content : Contents \cup {Unreadable, {}}]

\* What the steps of the client rely on: the engine has one of the lists of defenses,
\* and a call that is out went through an adapter.
ClientInv ==
  /\ config \in Config
  /\ engine \in Engines
  /\ call \in [Calls -> CallRow]
  /\ \A c \in Calls : call[c].at = "asked" => call[c].adapter \in Adapter

\* Every capability has an impact.
LEMMA ImpactOfAny ==
  ASSUME NEW adapter, NEW name
  PROVE  adapter \in Adapter => impactOf(adapter, name) \in Impact
BY DEF Adapter, Hooks, impactOf, inferImpact, Impact

\* An event that could not be evaluated passes as the failure mode says.
LEMMA FailurePasses ==
  ASSUME ClientInv, NEW event, evaluationFails(event), event.impact \in Impact,
         requireAllowed(decide(event))
  PROVE  MayPass(event)
<1>1. failureOutcome(event.impact) \in {"ALLOW", "OBSERVE"}
  BY DEF decide, requireAllowed
<1>2. event.content = Unreadable \/ BrokenDefense \in ToSet(engine)
  <2>. SUFFICES ASSUME engineThrows(engine, event) PROVE BrokenDefense \in ToSet(engine)
    BY DEF evaluationFails
  <2>1. engine \in Seq(ToSet(engine))
    BY ProtectionAssumption DEF ClientInv
  <2>2. PICK i \in DOMAIN engine : firstSpeaking(engine, event) = engine[i]
    BY <2>1, FirstSpeaks DEF engineThrows
  <2>. QED
    BY <2>1, <2>2, ListDomain DEF engineThrows
<1>. QED
  BY <1>1, <1>2 DEF MayPass, failureOutcome, ClientInv, Config, Impact

\* A rule of an installed defense that matches is one of those that speak to the event.
LEMMA MatchingSpeaks ==
  ASSUME ClientInv, NEW event, NEW i \in DOMAIN engine, engine[i] # BrokenDefense,
         NEW j \in DOMAIN engine[i].artifact.rules, matches(engine[i].artifact.rules[j], event)
  PROVE  engine[i].artifact.rules[j] \in RulesOn(event)
<1>1. engine \in Seq(ToSet(engine)) /\ engine[i] \in ToSet(engine)
  BY ProtectionAssumption, ListDomain DEF ClientInv
<1>2. engine[i].artifact.rules \in Seq(ToSet(engine[i].artifact.rules))
  BY <1>1, ProtectionAssumption DEF ClientInv
<1>3. engine[i].artifact.rules[j] \in ToSet(engine[i].artifact.rules)
  BY <1>2, ListDomain
<1>. QED
  BY <1>3 DEF RulesOn, matches

\* An event that was evaluated passes as a rule says, or where none speaks.
LEMMA DecisionPasses ==
  ASSUME ClientInv, NEW event, ~ evaluationFails(event), event.mode = config.mode,
         requireAllowed(decide(event))
  PROVE  MayPass(event)
<1>1. /\ event.content # Unreadable
      /\ ~ engineThrows(engine, event)
      /\ engineDecides(engine, event).outcome \in {"ALLOW", "OBSERVE"}
  BY DEF evaluationFails, decide, requireAllowed
<1>2. engine \in Seq(ToSet(engine))
  BY ProtectionAssumption DEF ClientInv
<1>3. CASE speaking(engine, event) = {}
  <2>1. \A i \in DOMAIN engine : engine[i] # BrokenDefense /\ matching(engine[i], event) = {}
    BY <1>3 DEF speaking, answers
  <2>2. BrokenDefense \notin ToSet(engine)
    BY <1>2, <2>1, ListDomain
  <2>3. RulesOn(event) = {}
    <3>. SUFFICES ASSUME NEW i \in DOMAIN engine, NEW r \in ToSet(engine[i].artifact.rules),
                         event.stage \in r.stages, event.trustZone \in r.trustZones,
                         \A group \in r.indicatorGroups :
                            \E indicator \in group : indicator \in event.content
                  PROVE  FALSE
      BY DEF RulesOn
    <3>1. engine[i].artifact.rules \in Seq(ToSet(engine[i].artifact.rules))
      BY <1>2, <2>1, ListDomain, ProtectionAssumption DEF ClientInv
    <3>2. PICK j \in DOMAIN engine[i].artifact.rules : r = engine[i].artifact.rules[j]
      BY <3>1, ListDomain
    <3>3. matches(engine[i].artifact.rules[j], event)
      BY <3>2 DEF matches
    <3>. QED
      BY <2>1, <3>3 DEF matching
  <2>. QED
    BY <1>1, <2>2, <2>3 DEF MayPass
<1>4. CASE speaking(engine, event) # {}
  <2>1. PICK i \in DOMAIN engine :
          /\ firstSpeaking(engine, event) = engine[i]
          /\ engine[i] = BrokenDefense \/ answers(engine[i], event)
    BY <1>2, <1>4, FirstSpeaks
  <2>2. engine[i] # BrokenDefense /\ answers(engine[i], event)
    BY <1>1, <1>4, <2>1 DEF engineThrows
  <2>3. engine[i].artifact.rules \in Seq(ToSet(engine[i].artifact.rules))
    BY <1>2, <2>2, ListDomain, ProtectionAssumption DEF ClientInv
  <2>4. PICK j \in DOMAIN engine[i].artifact.rules :
          /\ matches(engine[i].artifact.rules[j], event)
          /\ evaluate(engine[i], event).outcome =
               IF event.mode = "observe" /\ engine[i].artifact.rules[j].outcome = "BLOCK"
                 THEN "OBSERVE" ELSE engine[i].artifact.rules[j].outcome
    BY <2>2, <2>3, AnswerIsOfARule
  <2>5. engine[i].artifact.rules[j] \in RulesOn(event)
    BY <2>2, <2>4, MatchingSpeaks
  <2>6. evaluate(engine[i], event).outcome \in {"ALLOW", "OBSERVE"}
    BY <1>1, <1>4, <2>1 DEF engineDecides
  <2>. QED
    BY <1>1, <2>4, <2>5, <2>6 DEF MayPass
<1>. QED
  BY <1>3, <1>4

\* What a hook of an adapter lets through may pass.
LEMMA AllowedMayPass ==
  ASSUME ClientInv, NEW hook, NEW adapter \in Adapter, NEW name, NEW content, NEW event,
         event = eventOf(hook, adapter, name, content), requireAllowed(decide(event))
  PROVE  MayPass(event)
<1>1. event.impact \in Impact /\ event.mode = config.mode
  BY ImpactOfAny DEF eventOf
<1>. QED
  BY <1>1, FailurePasses, DecisionPasses

\* A request or an answer goes on only where the decision of its hook allows it.
LEMMA CallsPass ==
  ASSUME ClientInv, NEW c \in Calls, Request(c) \/ Answer(c) \/ ToolFails(c)
  PROVE  /\ \A d \in Calls \ {c} : call'[d] = call[d]
         /\ call' \in [Calls -> CallRow]
         /\ call'[c].at = "asked" =>
              /\ call'[c].adapter \in Adapter
              /\ MayPass(eventOf("before", call'[c].adapter, call'[c].name, call'[c].content))
         /\ call'[c].at = "returned" =>
              MayPass(eventOf("after", call'[c].adapter, call'[c].name, call'[c].content))
<1>. USE DEF ClientInv
<1>0. Blocked \in CallRow /\ Failed \in CallRow /\ Blocked.at = "blocked" /\ Failed.at = "failed"
  BY DEF Blocked, Failed, Idle, CallRow
<1>1. CASE Request(c)
  <2>1. PICK adapter \in Adapter, name \in Names, content \in Contents \cup {Unreadable} :
          call' = [call EXCEPT ![c] =
            IF requireAllowed(decide(eventOf("before", adapter, name, content)))
              THEN [at |-> "asked", adapter |-> adapter, name |-> name, content |-> content]
              ELSE Blocked]
    BY <1>1 DEF Request
  <2>2. CASE requireAllowed(decide(eventOf("before", adapter, name, content)))
    <3>. DEFINE row == [at |-> "asked", adapter |-> adapter, name |-> name, content |-> content]
    <3>1. row \in CallRow
      BY DEF CallRow
    <3>2. call' = [call EXCEPT ![c] = row]
      BY <2>1, <2>2
    <3>3. MayPass(eventOf("before", adapter, name, content))
      BY <2>2, AllowedMayPass
    <3>. QED
      BY <3>1, <3>2, <3>3
  <2>3. CASE ~ requireAllowed(decide(eventOf("before", adapter, name, content)))
    <3>1. call' = [call EXCEPT ![c] = Blocked]
      BY <2>1, <2>3
    <3>. QED
      BY <1>0, <3>1
  <2>. QED
    BY <2>2, <2>3
<1>2. CASE Answer(c)
  <2>1. PICK content \in Contents \cup {Unreadable} : Answers(c, content)
    BY <1>2 DEF Answer
  <2>. DEFINE event == eventOf("after", call[c].adapter, call[c].name, content)
              row == [call[c] EXCEPT !.at = "returned", !.content = content]
  <2>2. call[c] \in CallRow /\ call[c].adapter \in Adapter
    BY <1>2 DEF Answer
  <2>3. CASE requireAllowed(decide(event))
    <3>1. /\ row \in CallRow /\ row.at = "returned" /\ row.content = content
          /\ row.adapter = call[c].adapter /\ row.name = call[c].name
      BY <2>2 DEF CallRow
    <3>2. call' = [call EXCEPT ![c] = row]
      BY <2>1, <2>3 DEF Answers
    <3>3. MayPass(event)
      BY <2>2, <2>3, AllowedMayPass
    <3>. HIDE DEF row
    <3>4. call'[c] = row /\ call' \in [Calls -> CallRow]
      BY <3>1, <3>2
    <3>. QED
      BY <3>1, <3>2, <3>3, <3>4
  <2>4. CASE ~ requireAllowed(decide(event))
    <3>1. call' = [call EXCEPT ![c] = Blocked]
      BY <2>1, <2>4 DEF Answers
    <3>. QED
      BY <1>0, <3>1
  <2>. QED
    BY <2>3, <2>4
<1>3. CASE ToolFails(c)
  BY <1>0, <1>3 DEF ToolFails
<1>. QED
  BY <1>1, <1>2, <1>3

\* Every step of the client keeps what its steps rely on.
LEMMA ClientStep == ClientInv /\ [ProtectionNext]_protectionVars => ClientInv'
<1>. SUFFICES ASSUME ClientInv, [ProtectionNext]_protectionVars PROVE ClientInv'
  OBVIOUS
<1>. USE DEF ClientInv
<1>1. CASE SyncDefenses
  <2>1. engine' \in Engines
    BY <1>1 DEF SyncDefenses
  <2>. QED
    BY <1>1, <2>1 DEF SyncDefenses
<1>2. ASSUME NEW c \in Calls, Request(c) \/ Answer(c) \/ ToolFails(c)
      PROVE  ClientInv'
  <2>1. UNCHANGED <<config, engine>>
    BY <1>2 DEF Request, Answer, ToolFails
  <2>. QED
    BY <1>2, <2>1, CallsPass
<1>3. CASE UNCHANGED protectionVars
  BY <1>3 DEF protectionVars
<1>. QED
  BY <1>1, <1>2, <1>3 DEF ProtectionNext

\* The client's start.
LEMMA ClientStart == ProtectionInit => ClientInv
BY DEF ProtectionInit, ClientInv, Config, CallRow, Idle

\* For any defenses, however many and in whatever order their rules are, no request leaves
\* and no result is handed over that the defenses installed at that moment hold back.
THEOREM HeldBackIsHeld == ProtectionSpec => NothingHeldBackPasses
<1>1. ASSUME ClientInv, ProtectionNext, NEW c \in Calls
      PROVE  LET passed(hook) ==
                   MayPass(eventOf(hook, call'[c].adapter, call'[c].name, call'[c].content))
             IN /\ call[c].at # "asked" /\ call'[c].at = "asked" => passed("before")
                /\ call[c].at # "returned" /\ call'[c].at = "returned" => passed("after")
  <2>1. CASE SyncDefenses
    BY <2>1 DEF SyncDefenses
  <2>2. ASSUME NEW d \in Calls, Request(d) \/ Answer(d) \/ ToolFails(d)
        PROVE  \/ call'[c] = call[c]
               \/ /\ call'[c].at = "asked" =>
                       MayPass(eventOf("before", call'[c].adapter, call'[c].name, call'[c].content))
                  /\ call'[c].at = "returned" =>
                       MayPass(eventOf("after", call'[c].adapter, call'[c].name, call'[c].content))
    BY <1>1, <2>2, CallsPass
  <2>. QED
    BY <1>1, <2>1, <2>2 DEF ProtectionNext
<1>2. ClientInv /\ [ProtectionNext]_protectionVars =>
        [\A c \in Calls :
           LET passed(hook) ==
                 MayPass(eventOf(hook, call'[c].adapter, call'[c].name, call'[c].content))
           IN /\ call[c].at # "asked" /\ call'[c].at = "asked" => passed("before")
              /\ call[c].at # "returned" /\ call'[c].at = "returned" => passed("after")]_protectionVars
  BY <1>1
<1>. QED
  BY <1>2, ClientStart, ClientStep, PTL DEF ProtectionSpec, NothingHeldBackPasses

(***************************************************************************)
(* Incidents.                                                              *)
(***************************************************************************)
\* An incident is what createThreatReceipt made of a decision to block or to observe.
Opened(i) ==
  LET p == i.evidence.plaintext
  IN /\ i = createThreatReceipt(p.receiptId, p.event, p.decision)
     /\ p.decision.outcome \in {"BLOCK", "OBSERVE"}

\* Incidents are numbered, and each reportable decision is an incident or a diagnostic.
IncidentInv ==
  /\ IsFiniteSet(incidents)
  /\ decided \in [DecisionOutcome -> Nat]
  /\ diagnostics \in [Diagnostic -> Nat]
  /\ decided["BLOCK"] + decided["OBSERVE"] =
       Cardinality(incidents) + diagnostics["receipt_pipeline_error"]
  /\ \A i \in incidents : Opened(i) /\ i.evidence.plaintext.receiptId \in 0 .. (Cardinality(incidents) - 1)

\* What createThreatReceipt makes opens to what it was made of.
LEMMA ReceiptOpens ==
  ASSUME NEW id, NEW event, NEW decision
  PROVE  /\ createThreatReceipt(id, event, decision).evidence.plaintext =
              [receiptId |-> id, event |-> event, decision |-> decision]
         /\ verifyEvidenceCommitment(createThreatReceipt(id, event, decision).receipt,
                                     createThreatReceipt(id, event, decision).evidence)
         /\ decision.outcome \in {"BLOCK", "OBSERVE"} => Opened(createThreatReceipt(id, event, decision))
<1>. DEFINE i == createThreatReceipt(id, event, decision)  p == i.evidence.plaintext
<1>1. p = [receiptId |-> id, event |-> event, decision |-> decision]
  BY DEF createThreatReceipt, encryptThreatEvidence
<1>2. p.receiptId = id /\ p.event = event /\ p.decision = decision
  BY <1>1
<1>3. verifyEvidenceCommitment(i.receipt, i.evidence)
  BY DEF createThreatReceipt, encryptThreatEvidence, verifyEvidenceCommitment
<1>. QED
  BY <1>1, <1>2, <1>3 DEF Opened

\* A hook counts its decision, and makes one incident or one diagnostic of it or neither.
LEMMA ProtectsKeeps ==
  ASSUME IncidentInv, NEW event, NEW decision, Protects(event, decision)
  PROVE  IncidentInv'
<1>. USE DEF IncidentInv
<1>. DEFINE n == Cardinality(incidents)  i == createThreatReceipt(n, event, decision)
            reports == reportable(decision)
<1>1. n \in Nat
  BY FS_CardinalityType
<1>2. /\ decided' \in [DecisionOutcome -> Nat]
      /\ decided'["BLOCK"] + decided'["OBSERVE"] =
           decided["BLOCK"] + decided["OBSERVE"] + IF reports THEN 1 ELSE 0
  <2>. PICK o : o = decision.outcome
    OBVIOUS
  <2>1. decided' = [decided EXCEPT ![o] = @ + 1]
    BY DEF Protects
  <2>2. decided' \in [DecisionOutcome -> Nat]
    <3>1. CASE o \in DecisionOutcome
      BY <2>1, <3>1
    <3>2. CASE o \notin DecisionOutcome
      BY <2>1, <3>2
    <3>. QED
      BY <3>1, <3>2
  <2>3. \A x \in DecisionOutcome : decided'[x] = IF x = o THEN decided[x] + 1 ELSE decided[x]
    BY <2>1
  <2>4. reports <=> o = "BLOCK" \/ o = "OBSERVE"
    BY DEF reportable
  <2>5. {"BLOCK", "OBSERVE"} \subseteq DecisionOutcome
    BY DEF DecisionOutcome
  <2>. QED
    BY <2>2, <2>3, <2>4, <2>5
<1>3. /\ diagnostics' \in [Diagnostic -> Nat]
      /\ diagnostics'["receipt_pipeline_error"] =
           diagnostics["receipt_pipeline_error"] + IF reports /\ pipelineFails(event) THEN 1 ELSE 0
  BY DEF Protects, Diagnostic
<1>4. CASE reports /\ ~ pipelineFails(event)
  <2>1. incidents' = incidents \cup {i}
    BY <1>4 DEF Protects
  <2>2. i.evidence.plaintext.receiptId = n /\ Opened(i)
    <3>1. i.evidence.plaintext = [receiptId |-> n, event |-> event, decision |-> decision]
      BY ReceiptOpens
    <3>2. Opened(i)
      BY <1>4, ReceiptOpens DEF reportable
    <3>. QED
      BY <3>1, <3>2
  <2>. HIDE DEF i
  <2>3. i \notin incidents
    BY <1>1, <2>2
  <2>4. IsFiniteSet(incidents') /\ Cardinality(incidents') = n + 1
    BY <2>1, <2>3, FS_AddElement
  <2>5. \A j \in incidents' :
          Opened(j) /\ j.evidence.plaintext.receiptId \in 0 .. (Cardinality(incidents') - 1)
    BY <1>1, <2>1, <2>2, <2>4
  <2>. QED
    BY <1>1, <1>2, <1>3, <1>4, <2>4, <2>5 DEF DecisionOutcome, Diagnostic
<1>5. CASE ~ (reports /\ ~ pipelineFails(event))
  <2>1. incidents' = incidents
    BY <1>5 DEF Protects
  <2>. QED
    BY <1>1, <1>2, <1>3, <1>5, <2>1 DEF DecisionOutcome, Diagnostic
<1>. QED
  BY <1>4, <1>5

\* Every step of the client keeps the account of its incidents.
LEMMA IncidentStep == IncidentInv /\ [ProtectionNext]_protectionVars => IncidentInv'
<1>. SUFFICES ASSUME IncidentInv, [ProtectionNext]_protectionVars PROVE IncidentInv'
  OBVIOUS
<1>1. CASE SyncDefenses
  <2>1. /\ diagnostics' \in [Diagnostic -> Nat]
        /\ diagnostics'["receipt_pipeline_error"] = diagnostics["receipt_pipeline_error"]
    BY <1>1 DEF SyncDefenses, IncidentInv, Diagnostic
  <2>. QED
    BY <1>1, <2>1 DEF SyncDefenses, IncidentInv
<1>2. ASSUME NEW c \in Calls, Request(c) \/ Answer(c)
      PROVE  IncidentInv'
  <2>1. \E event, decision : Protects(event, decision)
    BY <1>2 DEF Request, Answer, Answers
  <2>. QED
    BY <2>1, ProtectsKeeps
<1>3. ASSUME NEW c \in Calls, ToolFails(c)
      PROVE  IncidentInv'
  BY <1>3 DEF ToolFails, IncidentInv
<1>4. CASE UNCHANGED protectionVars
  BY <1>4 DEF protectionVars, IncidentInv
<1>. QED
  BY <1>1, <1>2, <1>3, <1>4 DEF ProtectionNext

\* At the start nothing has been decided.
LEMMA IncidentStart == ProtectionInit => IncidentInv
BY FS_EmptySet DEF ProtectionInit, IncidentInv, Zero, DecisionOutcome, Diagnostic

\* The evidence of an incident opens to what it was made of.
LEMMA EvidenceOpens ==
  ASSUME NEW i, Opened(i)
  PROVE  /\ decryptThreatEvidence(i.evidence) = i.evidence.plaintext
         /\ i.evidence.plaintext # NoEvidence
<1>. DEFINE p == i.evidence.plaintext
<1>1. i.evidence = [receiptId |-> p.receiptId, authenticated |-> p.receiptId, iv |-> p.receiptId,
                    plaintext |-> [receiptId |-> p.receiptId, event |-> p.event,
                                   decision |-> p.decision]]
  BY DEF Opened, createThreatReceipt, encryptThreatEvidence
<1>2. p = [receiptId |-> p.receiptId, event |-> p.event, decision |-> p.decision]
  BY <1>1
<1>3. DOMAIN p # DOMAIN NoEvidence
  BY <1>2 DEF NoEvidence
<1>. QED
  BY <1>1, <1>3 DEF decryptThreatEvidence

\* None is lost between the decision and the adapter's exception, and each is whole, however
\* many calls there are and whatever fails.
THEOREM EveryIncidentIsWhole == ProtectionSpec => []IncidentsAreWhole
<1>1. IncidentInv => IncidentsAreWhole
  <2>. SUFFICES ASSUME IncidentInv, NEW i \in incidents
                PROVE  /\ \A j \in incidents : verifyEvidenceCommitment(i.receipt, j.evidence) <=> i = j
                       /\ decryptThreatEvidence(i.evidence) # NoEvidence
                       /\ decryptThreatEvidence(i.evidence).decision.outcome \in {"BLOCK", "OBSERVE"}
    BY DEF IncidentInv, IncidentsAreWhole
  <2>1. ASSUME NEW j \in incidents
        PROVE  verifyEvidenceCommitment(j.receipt, j.evidence)
    <3>. PICK id, event, decision : /\ id = j.evidence.plaintext.receiptId
                                    /\ event = j.evidence.plaintext.event
                                    /\ decision = j.evidence.plaintext.decision
      OBVIOUS
    <3>1. j = createThreatReceipt(id, event, decision)
      <4>1. Opened(j)
        BY DEF IncidentInv
      <4>. QED
        BY <4>1 DEF Opened
    <3>2. verifyEvidenceCommitment(createThreatReceipt(id, event, decision).receipt,
                                   createThreatReceipt(id, event, decision).evidence)
      BY ReceiptOpens
    <3>. QED
      BY <3>1, <3>2, Zenon
  <2>2. ASSUME NEW j \in incidents, verifyEvidenceCommitment(i.receipt, j.evidence)
        PROVE  i = j
    <3>1. contentHash(i.evidence) = contentHash(j.evidence)
      BY <2>1, <2>2 DEF verifyEvidenceCommitment
    <3>2. i.evidence = j.evidence
      BY <3>1 DEF contentHash
    <3>. QED
      BY <3>2 DEF IncidentInv, Opened
  <2>3. Opened(i)
    BY DEF IncidentInv
  <2>. QED
    BY <2>1, <2>2, <2>3, EvidenceOpens DEF Opened
<1>. QED
  BY <1>1, IncidentStart, IncidentStep, PTL DEF ProtectionSpec

\* For any two incidents, of any calls: equal keys exactly for the same text, classes of
\* capability, class of attack and set of reasons.
THEOREM IncidentsConverge == ProtectionSpec => []EquivalentIncidentsConverge
<1>1. IncidentInv => EquivalentIncidentsConverge
  <2>. SUFFICES ASSUME IncidentInv, NEW i \in incidents, NEW j \in incidents
                PROVE  LET e(k) == decryptThreatEvidence(k.evidence)
                           same ==
                             /\ e(i).event.content = e(j).event.content
                             /\ classifyCapabilities(e(i).event.name) = classifyCapabilities(e(j).event.name)
                             /\ classify(e(i).decision.reasonCodes) = classify(e(j).decision.reasonCodes)
                             /\ ToSet(e(i).decision.reasonCodes) = ToSet(e(j).decision.reasonCodes)
                       IN (i.receipt.deduplicationKey = j.receipt.deduplicationKey) <=> same
    BY DEF EquivalentIncidentsConverge
  <2>1. ASSUME NEW k \in incidents
        PROVE  /\ decryptThreatEvidence(k.evidence) = k.evidence.plaintext
               /\ k.receipt.deduplicationKey =
                    [attackClass |-> classify(k.evidence.plaintext.decision.reasonCodes),
                     capabilities |-> classifyCapabilities(k.evidence.plaintext.event.name),
                     sourceFingerprint |-> [sha256 |-> k.evidence.plaintext.event.content],
                     reasonCodes |-> ToSet(k.evidence.plaintext.decision.reasonCodes)]
    <3>1. Opened(k)
      BY DEF IncidentInv
    <3>2. decryptThreatEvidence(k.evidence) = k.evidence.plaintext
      BY <3>1, EvidenceOpens
    <3>. QED
      BY <3>1, <3>2 DEF Opened, createThreatReceipt, deduplicationKey, contentHash
  <2>2. (i.receipt.deduplicationKey = j.receipt.deduplicationKey) <=>
          /\ classify(i.evidence.plaintext.decision.reasonCodes) =
               classify(j.evidence.plaintext.decision.reasonCodes)
          /\ classifyCapabilities(i.evidence.plaintext.event.name) =
               classifyCapabilities(j.evidence.plaintext.event.name)
          /\ i.evidence.plaintext.event.content = j.evidence.plaintext.event.content
          /\ ToSet(i.evidence.plaintext.decision.reasonCodes) =
               ToSet(j.evidence.plaintext.decision.reasonCodes)
    <3>1. ASSUME NEW a, NEW b, NEW c, NEW d, NEW a2, NEW b2, NEW c2, NEW d2
          PROVE  [attackClass |-> a, capabilities |-> b, sourceFingerprint |-> [sha256 |-> c],
                  reasonCodes |-> d] =
                 [attackClass |-> a2, capabilities |-> b2, sourceFingerprint |-> [sha256 |-> c2],
                  reasonCodes |-> d2] <=>
                   a = a2 /\ b = b2 /\ c = c2 /\ d = d2
      OBVIOUS
    <3>. PICK a, b, c, d :
           /\ a = classify(i.evidence.plaintext.decision.reasonCodes)
           /\ b = classifyCapabilities(i.evidence.plaintext.event.name)
           /\ c = i.evidence.plaintext.event.content
           /\ d = ToSet(i.evidence.plaintext.decision.reasonCodes)
      OBVIOUS
    <3>. PICK a2, b2, c2, d2 :
           /\ a2 = classify(j.evidence.plaintext.decision.reasonCodes)
           /\ b2 = classifyCapabilities(j.evidence.plaintext.event.name)
           /\ c2 = j.evidence.plaintext.event.content
           /\ d2 = ToSet(j.evidence.plaintext.decision.reasonCodes)
      OBVIOUS
    <3>2. /\ i.receipt.deduplicationKey =
               [attackClass |-> a, capabilities |-> b, sourceFingerprint |-> [sha256 |-> c],
                reasonCodes |-> d]
          /\ j.receipt.deduplicationKey =
               [attackClass |-> a2, capabilities |-> b2, sourceFingerprint |-> [sha256 |-> c2],
                reasonCodes |-> d2]
      BY <2>1
    <3>3. (i.receipt.deduplicationKey = j.receipt.deduplicationKey) <=>
            a = a2 /\ b = b2 /\ c = c2 /\ d = d2
      <4>1. ASSUME NEW x, NEW y, x = i.receipt.deduplicationKey, y = j.receipt.deduplicationKey
            PROVE  x = y <=> a = a2 /\ b = b2 /\ c = c2 /\ d = d2
        BY <3>1, <3>2, <4>1
      <4>. QED
        BY <4>1
    <3>. QED
      BY <3>3
  <2>. QED
    BY <2>1, <2>2, Zenon
<1>. QED
  BY <1>1, IncidentStart, IncidentStep, PTL DEF ProtectionSpec

(***************************************************************************)
(* Sorting and percentiles.                                                *)
(***************************************************************************)
\* The first places of an ascending order of v, and nothing smaller left for later ones.
Ordered(v, n, p) ==
  \A i, j \in 1 .. n : i < j => p[i] # p[j] /\ v[p[i]] <= v[p[j]]

Leads(v, n, p) ==
  \A k \in DOMAIN v : (\A i \in 1 .. n : p[i] # k) => \A i \in 1 .. n : v[p[i]] <= v[k]

\* One more place, for the least of what is left.
LEMMA OneMoreSorted ==
  ASSUME NEW L \in Nat, NEW v \in [1 .. L -> Nat], NEW n \in 0 .. (L - 1),
         NEW p \in [1 .. n -> 1 .. L], Ordered(v, n, p), Leads(v, n, p)
  PROVE  \E q \in [1 .. (n + 1) -> 1 .. L] : Ordered(v, n + 1, q) /\ Leads(v, n + 1, q)
<1>. DEFINE left == {k \in 1 .. L : \A i \in 1 .. n : p[i] # k}
<1>1. left # {}
  <2>. SUFFICES ASSUME left = {} PROVE FALSE
    OBVIOUS
  <2>1. p \in Surjection(1 .. n, 1 .. L)
    <3>1. \A k \in 1 .. L : \E i \in 1 .. n : p[i] = k
      OBVIOUS
    <3>. QED
      BY <3>1 DEF Surjection
  <2>2. Cardinality(1 .. L) <= Cardinality(1 .. n)
    BY <2>1, FS_Surjection, FS_Interval
  <2>3. Cardinality(1 .. L) = L /\ Cardinality(1 .. n) = n
    BY FS_Interval
  <2>. QED
    BY <2>2, <2>3
<1>2. PICK k \in left : \A m \in left : v[k] <= v[m]
  <2>. DEFINE values == {v[m] : m \in left}
  <2>1. values \in SUBSET Nat /\ values # {}
    BY <1>1
  <2>2. PICK x \in values : \A y \in values : x <= y
    BY <2>1, LeastNumber
  <2>. QED
    BY <2>2
<1>. DEFINE q == [i \in 1 .. (n + 1) |-> IF i = n + 1 THEN k ELSE p[i]]
<1>3. q \in [1 .. (n + 1) -> 1 .. L] /\ q[n + 1] = k /\ \A i \in 1 .. n : q[i] = p[i]
  OBVIOUS
<1>. HIDE DEF q
<1>4. \A i \in 1 .. n : p[i] # k /\ v[p[i]] <= v[k]
  BY DEF Leads
<1>5. Ordered(v, n + 1, q)
  <2>. SUFFICES ASSUME NEW i \in 1 .. (n + 1), NEW j \in 1 .. (n + 1), i < j
                PROVE  q[i] # q[j] /\ v[q[i]] <= v[q[j]]
    BY DEF Ordered
  <2>1. i \in 1 .. n /\ q[i] = p[i]
    BY <1>3
  <2>2. CASE j = n + 1
    BY <1>3, <1>4, <2>1, <2>2
  <2>3. CASE j # n + 1
    <3>1. j \in 1 .. n /\ q[j] = p[j]
      BY <1>3, <2>3
    <3>. QED
      BY <2>1, <3>1 DEF Ordered
  <2>. QED
    BY <2>2, <2>3
<1>6. Leads(v, n + 1, q)
  <2>. SUFFICES ASSUME NEW m \in 1 .. L, \A i \in 1 .. (n + 1) : q[i] # m,
                       NEW i \in 1 .. (n + 1)
                PROVE  v[q[i]] <= v[m]
    BY DEF Leads
  <2>1. \A a \in 1 .. n : p[a] # m
    BY <1>3
  <2>2. CASE i = n + 1
    BY <1>2, <1>3, <2>1, <2>2
  <2>3. CASE i # n + 1
    <3>1. i \in 1 .. n /\ q[i] = p[i]
      BY <1>3, <2>3
    <3>. QED
      BY <2>1, <3>1 DEF Leads
  <2>. QED
    BY <2>2, <2>3
<1>. QED
  BY <1>3, <1>5, <1>6

\* Any list of numbers has an ascending order.
LEMMA OrderExists ==
  ASSUME NEW L \in Nat, NEW v \in [1 .. L -> Nat]
  PROVE  \E p \in [1 .. L -> 1 .. L] : Ordered(v, L, p)
<1>. DEFINE Sorts(n) == \E p \in [1 .. n -> 1 .. L] : Ordered(v, n, p) /\ Leads(v, n, p)
            Unsorted == {n \in 0 .. L : ~ Sorts(n)}
<1>1. Sorts(0)
  <2>. DEFINE p == [i \in 1 .. 0 |-> 1]
  <2>1. p \in [1 .. 0 -> 1 .. L] /\ Ordered(v, 0, p) /\ Leads(v, 0, p)
    BY DEF Ordered, Leads
  <2>. QED
    BY <2>1
<1>2. ASSUME NEW n \in 0 .. (L - 1), Sorts(n)
      PROVE  Sorts(n + 1)
  <2>1. PICK p \in [1 .. n -> 1 .. L] : Ordered(v, n, p) /\ Leads(v, n, p)
    BY <1>2
  <2>. QED
    BY <2>1, OneMoreSorted
<1>3. Sorts(L) => \E p \in [1 .. L -> 1 .. L] : Ordered(v, L, p)
  OBVIOUS
<1>. HIDE DEF Sorts
<1>4. Unsorted = {}
  <2>. SUFFICES ASSUME Unsorted # {} PROVE FALSE
    OBVIOUS
  <2>1. Unsorted \in SUBSET Nat
    OBVIOUS
  <2>2. PICK n \in Unsorted : \A m \in Unsorted : n <= m
    <3>. HIDE DEF Unsorted
    <3>. QED
      BY <2>1, LeastNumber
  <2>3. n \in 1 .. L
    BY <1>1
  <2>4. n - 1 \in 0 .. (L - 1) /\ n - 1 \notin Unsorted
    BY <2>2, <2>3
  <2>5. Sorts((n - 1) + 1)
    BY <1>2, <2>4
  <2>6. (n - 1) + 1 = n
    BY <2>3
  <2>. QED
    BY <2>5, <2>6
<1>5. L \in 0 .. L
  OBVIOUS
<1>. QED
  BY <1>3, <1>4, <1>5

\* So sorted is in ascending order, by some order of the places.
LEMMA SortedOrder ==
  ASSUME NEW L \in Nat, NEW v \in [1 .. L -> Nat]
  PROVE  \E p \in [1 .. L -> 1 .. L] : Ordered(v, L, p) /\ sorted(v) = [i \in 1 .. L |-> v[p[i]]]
<1>. DEFINE IsOrder(p) == \A i, j \in DOMAIN v : i < j => p[i] # p[j] /\ v[p[i]] <= v[p[j]]
            order == CHOOSE p \in [DOMAIN v -> DOMAIN v] : IsOrder(p)
<1>1. DOMAIN v = 1 .. L
  OBVIOUS
<1>2. \E p \in [DOMAIN v -> DOMAIN v] : IsOrder(p)
  BY <1>1, OrderExists DEF Ordered
<1>3. order \in [DOMAIN v -> DOMAIN v] /\ IsOrder(order)
  <2>. HIDE DEF IsOrder
  <2>. QED
    BY <1>2
<1>4. sorted(v) = [i \in DOMAIN v |-> v[order[i]]]
  BY DEF sorted
<1>. HIDE DEF order
<1>. QED
  BY <1>1, <1>3, <1>4 DEF Ordered

\* Ascending: an earlier place has no larger value.
LEMMA SortedAscends ==
  ASSUME NEW L \in Nat, NEW v \in [1 .. L -> Nat], NEW i \in 1 .. L, NEW j \in 1 .. L, i <= j
  PROVE  sorted(v)[i] \in Nat /\ sorted(v)[j] \in Nat /\ sorted(v)[i] <= sorted(v)[j]
<1>1. PICK p \in [1 .. L -> 1 .. L] : Ordered(v, L, p) /\ sorted(v) = [k \in 1 .. L |-> v[p[k]]]
  BY SortedOrder
<1>2. CASE i = j
  BY <1>1, <1>2
<1>3. CASE i < j
  BY <1>1, <1>3 DEF Ordered
<1>. QED
  BY <1>2, <1>3

\* The n-th value in ascending order is within t exactly when n values are.
LEMMA Rank ==
  ASSUME NEW L \in Nat, NEW v \in [1 .. L -> Nat], NEW n \in 1 .. L, NEW t \in Nat
  PROVE  LET within == {i \in 1 .. L : v[i] <= t}
         IN /\ IsFiniteSet(within) /\ Cardinality(within) \in Nat
            /\ sorted(v)[n] <= t <=> Cardinality(within) >= n
<1>. DEFINE within == {i \in 1 .. L : v[i] <= t}
<1>1. PICK p \in [1 .. L -> 1 .. L] : Ordered(v, L, p) /\ sorted(v) = [k \in 1 .. L |-> v[p[k]]]
  BY SortedOrder
<1>2. IsFiniteSet(1 .. L) /\ Cardinality(1 .. L) = L
  BY FS_Interval
<1>3. IsFiniteSet(within) /\ Cardinality(within) \in Nat
  BY <1>2, FS_Subset, FS_CardinalityType
<1>4. \A i, j \in 1 .. L : p[i] = p[j] => i = j
  BY <1>1 DEF Ordered
<1>5. CASE sorted(v)[n] <= t
  <2>. DEFINE f == [i \in 1 .. n |-> p[i]]
  <2>1. \A i \in 1 .. n : p[i] \in within
    <3>. SUFFICES ASSUME NEW i \in 1 .. n PROVE p[i] \in within
      OBVIOUS
    <3>1. i \in 1 .. L /\ i <= n
      OBVIOUS
    <3>2. sorted(v)[i] <= sorted(v)[n] /\ sorted(v)[n] \in Nat /\ sorted(v)[i] \in Nat
      BY <3>1, SortedAscends
    <3>3. sorted(v)[i] = v[p[i]] /\ p[i] \in 1 .. L
      BY <1>1, <3>1
    <3>4. v[p[i]] <= t
      <4>1. ASSUME NEW x \in Nat, NEW y \in Nat, x <= y, y <= t
            PROVE  x <= t
        BY <4>1
      <4>. QED
        BY <1>5, <3>2, <3>3, <4>1
    <3>. QED
      BY <3>3, <3>4
  <2>2. f \in Injection(1 .. n, within)
    <3>1. f \in [1 .. n -> within] /\ \A a, b \in 1 .. n : f[a] = f[b] => a = b
      BY <1>4, <2>1
    <3>. QED
      BY <3>1 DEF Injection, IsInjective
  <2>3. Cardinality(1 .. n) <= Cardinality(within)
    BY <1>3, <2>2, FS_Injection
  <2>4. Cardinality(1 .. n) = n
    BY FS_Interval
  <2>. QED
    BY <1>3, <1>5, <2>3, <2>4
<1>6. CASE ~ (sorted(v)[n] <= t)
  <2>. DEFINE beyond == (1 .. L) \ within  f == [i \in n .. L |-> p[i]]
  <2>1. \A i \in n .. L : p[i] \in beyond
    <3>. SUFFICES ASSUME NEW i \in n .. L PROVE p[i] \in beyond
      OBVIOUS
    <3>1. i \in 1 .. L /\ n <= i
      OBVIOUS
    <3>2. sorted(v)[n] <= sorted(v)[i] /\ sorted(v)[n] \in Nat /\ sorted(v)[i] \in Nat
      BY <3>1, SortedAscends
    <3>3. sorted(v)[i] = v[p[i]] /\ p[i] \in 1 .. L
      BY <1>1, <3>1
    <3>4. ~ (v[p[i]] <= t)
      <4>1. ASSUME NEW x \in Nat, NEW y \in Nat, y <= x, x <= t
            PROVE  y <= t
        BY <4>1
      <4>. QED
        BY <1>6, <3>2, <3>3, <4>1
    <3>. QED
      BY <3>3, <3>4
  <2>2. f \in Injection(n .. L, beyond)
    BY <1>4, <2>1 DEF Injection, IsInjective
  <2>3. IsFiniteSet(beyond)
    BY <1>2, FS_Subset
  <2>. HIDE DEF f
  <2>6. Cardinality(n .. L) <= Cardinality(beyond)
    BY <2>2, <2>3, FS_Injection
  <2>4. Cardinality(n .. L) = L - n + 1
    BY FS_Interval
  <2>5. Cardinality(beyond) = L - Cardinality(within)
    <3>1. (1 .. L) \cap within = within
      OBVIOUS
    <3>2. Cardinality(beyond) = Cardinality(1 .. L) - Cardinality((1 .. L) \cap within)
      <4>. HIDE DEF within
      <4>. QED
        BY <1>2, <1>3, FS_Difference
    <3>. QED
      BY <1>2, <3>1, <3>2
  <2>. QED
    <3>1. ASSUME NEW c \in Nat, NEW d, d = L - c, L - n + 1 <= d
          PROVE  ~ (c >= n)
      BY <3>1
    <3>2. L - n + 1 <= Cardinality(beyond)
      BY <2>4, <2>6
    <3>. QED
      BY <1>3, <1>6, <2>5, <3>1, <3>2
<1>. QED
  BY <1>3, <1>5, <1>6

\* The percentile of a list that is not empty is the value at a place of the order, the
\* first one that has at least that share of the values up to it.
LEMMA PercentilePlace ==
  ASSUME NEW L \in Nat \ {0}, NEW v \in [1 .. L -> Nat], v # <<>>, Len(v) = L, NEW q \in 1 .. 100
  PROVE  \E n \in 1 .. L : /\ percentile(v, q) = sorted(v)[n]
                           /\ \A m \in Nat : m >= n <=> 100 * m >= q * L
                           /\ n = (q * L + 99) \div 100
<1>. DEFINE n == (q * L + 99) \div 100
<1>1. q * L \in Nat /\ q * L >= L /\ q * L <= 100 * L
  OBVIOUS
<1>2. n \in 1 .. L
  BY <1>1
<1>3. \A m \in Nat : m >= n <=> 100 * m >= q * L
  BY <1>1
<1>4. percentile(v, q) = sorted(v)[n]
  BY <1>2 DEF percentile
<1>. QED
  BY <1>2, <1>3, <1>4

(***************************************************************************)
(* Reports.                                                                *)
(***************************************************************************)
\* What runs and alterations of reports keep: a list of timed cases, and thresholds.
ReportFields ==
  {"defenseVersionId", "artifacts", "thresholds", "summary", "cases", "releaseEligible", "reportHash"}

Timed(case) == "durationMs" \in DOMAIN case /\ case.durationMs \in Nat

Measured(r) ==
  /\ DOMAIN r = ReportFields
  /\ r.cases \in Seq(ToSet(r.cases))
  /\ \A case \in ToSet(r.cases) : Timed(case)
  /\ r.thresholds \in Thresholds

\* A list is one of its own members.
LEMMA ListOfItsOwn ==
  ASSUME NEW S, NEW s \in Seq(S)
  PROVE  s \in Seq(ToSet(s)) /\ ToSet(s) \subseteq S
BY DEF ToSet

\* The durations of timed cases are a list of numbers.
LEMMA DurationsAreNat ==
  ASSUME NEW cases, cases \in Seq(ToSet(cases)), \A case \in ToSet(cases) : Timed(case)
  PROVE  /\ Len(cases) \in Nat
         /\ durationsOf(cases) \in [1 .. Len(cases) -> Nat]
         /\ Len(durationsOf(cases)) = Len(cases)
         /\ \A i \in 1 .. Len(cases) : durationsOf(cases)[i] = cases[i].durationMs
<1>1. Len(cases) \in Nat /\ DOMAIN cases = 1 .. Len(cases)
  BY ListDomain
<1>2. \A i \in 1 .. Len(cases) : cases[i].durationMs \in Nat
  BY <1>1, ListDomain DEF Timed
<1>3. durationsOf(cases) = [i \in 1 .. Len(cases) |-> cases[i].durationMs]
  BY <1>1 DEF durationsOf
<1>4. durationsOf(cases) \in Seq(Nat)
  BY <1>1, <1>2, <1>3
<1>. QED
  BY <1>1, <1>2, <1>3, <1>4

\* The percentiles of a report are in order.
LEMMA LatencyAscends ==
  ASSUME NEW cases, cases \in Seq(ToSet(cases)), \A case \in ToSet(cases) : Timed(case),
         Len(cases) # 0
  PROVE  /\ latencySummary(cases).p50 <= latencySummary(cases).p95
         /\ latencySummary(cases).p95 <= latencySummary(cases).max
<1>. DEFINE v == durationsOf(cases)  L == Len(cases)
<1>1. L \in Nat \ {0} /\ v \in [1 .. L -> Nat] /\ v # <<>> /\ Len(v) = L
  BY DurationsAreNat
<1>. HIDE DEF v, L
<1>2. ASSUME NEW q \in 1 .. 100, NEW r \in 1 .. 100, q <= r
      PROVE  percentile(v, q) <= percentile(v, r)
  <2>1. PICK n \in 1 .. L : /\ percentile(v, q) = sorted(v)[n]
                            /\ \A m \in Nat : m >= n <=> 100 * m >= q * L
    BY <1>1, PercentilePlace
  <2>2. PICK m \in 1 .. L : /\ percentile(v, r) = sorted(v)[m]
                            /\ \A k \in Nat : k >= m <=> 100 * k >= r * L
    BY <1>1, PercentilePlace
  <2>3. 100 * m >= r * L
    BY <2>2
  <2>4. r * L >= q * L /\ r * L \in Nat /\ q * L \in Nat
    BY <1>1, <1>2
  <2>5. n <= m
    <3>1. ASSUME NEW x \in Nat, NEW y \in Nat, y >= x, 100 * m >= y
          PROVE  100 * m >= x
      BY <1>1, <3>1
    <3>2. 100 * m >= q * L
      BY <2>3, <2>4, <3>1
    <3>3. m \in Nat /\ n \in Nat
      BY <1>1
    <3>4. m >= n
      BY <2>1, <3>2, <3>3
    <3>. QED
      BY <3>3, <3>4
  <2>. QED
    BY <1>1, <2>1, <2>2, <2>5, SortedAscends
<1>. QED
  BY <1>2 DEF latencySummary, v

\* Sealing adds the hash, and the body is what was sealed.
LEMMA SealedBody ==
  ASSUME NEW b, "reportHash" \notin DOMAIN b, b = [f \in DOMAIN b |-> b[f]]
  PROVE  /\ DOMAIN Sealed(b) = DOMAIN b \cup {"reportHash"}
         /\ \A f \in DOMAIN b : Sealed(b)[f] = b[f]
         /\ Sealed(b).reportHash = contentHash(b)
         /\ body(Sealed(b)) = b
<1>1. Sealed(b) = [f \in DOMAIN b \cup {"reportHash"} |->
                     IF f = "reportHash" THEN contentHash(b) ELSE b[f]]
  BY DEF Sealed
<1>2. DOMAIN Sealed(b) = DOMAIN b \cup {"reportHash"}
  BY <1>1
<1>3. \A f \in DOMAIN b : Sealed(b)[f] = b[f]
  BY <1>1
<1>4. Sealed(b).reportHash = contentHash(b)
  BY <1>1
<1>5. (DOMAIN b \cup {"reportHash"}) \ {"reportHash"} = DOMAIN b
  OBVIOUS
<1>6. body(Sealed(b)) = [f \in DOMAIN b |-> b[f]]
  BY <1>2, <1>3, <1>5 DEF body
<1>. QED
  BY <1>2, <1>3, <1>4, <1>6

\* The fields of the report of a run.
LEMMA RunReport ==
  ASSUME NEW b, NEW durations, NEW t, NEW r, r = runReplay(b, durations, t)
  PROVE  /\ DOMAIN r = ReportFields
         /\ r.defenseVersionId = versionId(b) /\ r.artifacts = artifacts(b) /\ r.thresholds = t
         /\ r.cases = [i \in DOMAIN b.suite.cases |-> caseResult(b, b.suite.cases[i], durations[i])]
         /\ r.summary = [attack |-> summarize(r.cases, "attack"),
                         control |-> summarize(r.cases, "control"),
                         latencyMs |-> latencySummary(r.cases)]
         /\ r.releaseEligible = eligible(r.summary, t)
         /\ contentHash(body(r)) = r.reportHash
<1>. PICK cs : cs = [i \in DOMAIN b.suite.cases |-> caseResult(b, b.suite.cases[i], durations[i])]
  OBVIOUS
<1>. PICK sm : sm = [attack |-> summarize(cs, "attack"), control |-> summarize(cs, "control"),
                     latencyMs |-> latencySummary(cs)]
  OBVIOUS
<1>. PICK v, a, e : v = versionId(b) /\ a = artifacts(b) /\ e = eligible(sm, t)
  OBVIOUS
<1>. DEFINE inner == [defenseVersionId |-> v, artifacts |-> a, thresholds |-> t, summary |-> sm,
                      cases |-> cs, releaseEligible |-> e]
<1>1. r = Sealed(inner)
  BY DEF runReplay
<1>2. /\ DOMAIN inner = ReportFields \ {"reportHash"}
      /\ inner = [f \in DOMAIN inner |-> inner[f]]
  BY DEF ReportFields
<1>3. /\ inner.defenseVersionId = v /\ inner.artifacts = a /\ inner.thresholds = t
      /\ inner.summary = sm /\ inner.cases = cs /\ inner.releaseEligible = e
  OBVIOUS
<1>. HIDE DEF inner
<1>4. /\ DOMAIN r = DOMAIN inner \cup {"reportHash"}
      /\ \A f \in DOMAIN inner : r[f] = inner[f]
      /\ r.reportHash = contentHash(inner) /\ body(r) = inner
  BY <1>1, <1>2, SealedBody
<1>5. DOMAIN r = ReportFields
  BY <1>2, <1>4 DEF ReportFields
<1>6. /\ r.defenseVersionId = v /\ r.artifacts = a /\ r.thresholds = t
      /\ r.summary = sm /\ r.cases = cs /\ r.releaseEligible = e
  BY <1>2, <1>3, <1>4 DEF ReportFields
<1>. QED
  BY <1>4, <1>5, <1>6

\* verifyReplayReport computes what runReplay computed, for any timing of the cases.
LEMMA RunVerifies ==
  ASSUME NEW b \in ReplayBundles, replayable(b), NEW t \in Thresholds,
         NEW durations \in [DOMAIN b.suite.cases -> Durations]
  PROVE  Measured(runReplay(b, durations, t)) /\ verifyReplayReport(runReplay(b, durations, t), b)
<1>. PICK r : r = runReplay(b, durations, t)
  OBVIOUS
<1>. DEFINE suite == b.suite.cases  cases == r.cases
<1>1. /\ DOMAIN r = ReportFields
      /\ r.defenseVersionId = versionId(b) /\ r.artifacts = artifacts(b) /\ r.thresholds = t
      /\ cases = [i \in DOMAIN suite |-> caseResult(b, suite[i], durations[i])]
      /\ r.summary = [attack |-> summarize(cases, "attack"),
                      control |-> summarize(cases, "control"),
                      latencyMs |-> latencySummary(cases)]
      /\ r.releaseEligible = eligible(r.summary, t)
      /\ contentHash(body(r)) = r.reportHash
  BY RunReport
<1>2. suite \in Seq(ToSet(suite))
  BY ReplayAssumption
<1>3. Len(suite) \in Nat /\ DOMAIN suite = 1 .. Len(suite)
  BY <1>2, ListDomain
<1>4. cases \in Seq(ToSet(cases)) /\ Len(cases) = Len(suite) /\ DOMAIN cases = 1 .. Len(suite)
  <2>1. cases \in [1 .. Len(suite) -> {cases[i] : i \in 1 .. Len(suite)}]
    BY <1>1, <1>3
  <2>2. cases \in Seq({cases[i] : i \in 1 .. Len(suite)})
    BY <1>3, <2>1
  <2>3. DOMAIN cases = 1 .. Len(suite) /\ Len(cases) = Len(suite)
    BY <1>3, <2>1, <2>2
  <2>. HIDE DEF cases, suite
  <2>. QED
    BY <2>2, <2>3, ListOfItsOwn
<1>5. \A i \in 1 .. Len(suite) :
        /\ cases[i].caseId = suite[i].caseId /\ cases[i].kind = suite[i].kind
        /\ cases[i].expectedOutcome = suite[i].expectedOutcome
        /\ cases[i].passed = (cases[i].expectedOutcome = cases[i].actualOutcome)
        /\ Timed(cases[i])
  <2>. SUFFICES ASSUME NEW i \in 1 .. Len(suite)
                PROVE  /\ cases[i].caseId = suite[i].caseId /\ cases[i].kind = suite[i].kind
                       /\ cases[i].expectedOutcome = suite[i].expectedOutcome
                       /\ cases[i].passed = (cases[i].expectedOutcome = cases[i].actualOutcome)
                       /\ Timed(cases[i])
    OBVIOUS
  <2>1. durations[i] \in Nat
    BY <1>3, ReplayAssumption
  <2>. PICK c, d, a : c = suite[i] /\ d = durations[i] /\ a = actualOutcome(b, c)
    OBVIOUS
  <2>2. cases[i] = [caseId |-> c.caseId, kind |-> c.kind, expectedOutcome |-> c.expectedOutcome,
                    actualOutcome |-> a, passed |-> a = c.expectedOutcome, durationMs |-> d]
    BY <1>1, <1>3 DEF caseResult
  <2>3. Timed(cases[i])
    BY <2>1, <2>2 DEF Timed
  <2>. QED
    BY <2>2, <2>3
<1>6. Measured(r)
  <2>1. \A case \in ToSet(cases) : Timed(case)
    <3>1. ToSet(cases) = {cases[i] : i \in 1 .. Len(suite)}
      BY <1>4 DEF ToSet
    <3>2. \A i \in 1 .. Len(suite) : Timed(cases[i])
      BY <1>5
    <3>. HIDE DEF cases, suite
    <3>. QED
      BY <3>1, <3>2
  <2>. QED
    BY <1>1, <1>4, <2>1 DEF Measured
<1>7. /\ \A kind \in Kinds : \E i \in 1 .. Len(suite) : suite[i].kind = kind
      /\ \A i, j \in 1 .. Len(suite) : suite[i].caseId = suite[j].caseId => i = j
      /\ verifyDefenseBundle(b)
  BY <1>3 DEF replayable, verifyDefenseBundle, suiteSchema
<1>8. \A kind \in Kinds : summarize(cases, kind).total > 0
  <2>. SUFFICES ASSUME NEW kind \in Kinds PROVE summarize(cases, kind).total > 0
    OBVIOUS
  <2>. DEFINE selected == {i \in DOMAIN cases : cases[i].kind = kind}
  <2>1. summarize(cases, kind).total = Cardinality(selected)
    BY DEF summarize
  <2>2. IsFiniteSet(DOMAIN cases)
    <3>1. PICK n \in Nat : n = Len(suite)
      BY <1>3
    <3>2. IsFiniteSet(1 .. n)
      BY FS_Interval
    <3>. QED
      BY <1>4, <3>1, <3>2
  <2>3. IsFiniteSet(selected) /\ Cardinality(selected) \in Nat
    BY <2>2, FS_Subset, FS_CardinalityType
  <2>4. selected # {}
    BY <1>4, <1>5, <1>7
  <2>5. Cardinality(selected) # 0
    <3>. HIDE DEF selected
    <3>. QED
      BY <2>3, <2>4, FS_EmptySet
  <2>. QED
    BY <2>1, <2>3, <2>5
<1>9. \A kind \in Kinds : r.summary[kind] = summarize(cases, kind)
  BY <1>1 DEF Kinds
<1>10. r.summary.latencyMs = latencySummary(cases)
  BY <1>1
<1>11. Len(cases) # 0
  BY <1>3, <1>4, <1>7 DEF Kinds
<1>12. reportSchema(r)
  <2>1. /\ r.summary.latencyMs.p50 <= r.summary.latencyMs.p95
        /\ r.summary.latencyMs.p95 <= r.summary.latencyMs.max
    BY <1>6, <1>10, <1>11, LatencyAscends DEF Measured
  <2>2. \A i, j \in DOMAIN cases : cases[i].caseId = cases[j].caseId => i = j
    BY <1>4, <1>5, <1>7
  <2>3. \A i \in DOMAIN cases : cases[i].passed = (cases[i].expectedOutcome = cases[i].actualOutcome)
    BY <1>4, <1>5
  <2>4. r.releaseEligible = eligible(r.summary, r.thresholds)
    BY <1>1
  <2>. HIDE DEF cases
  <2>5. \A kind \in Kinds : r.summary[kind].total > 0 /\ r.summary[kind] = summarize(cases, kind)
    BY <1>8, <1>9
  <2>. QED
    BY <2>1, <2>2, <2>3, <2>4, <2>5 DEF reportSchema, cases
<1>13. \A i \in DOMAIN cases : \A f \in {"caseId", "kind", "expectedOutcome"} : cases[i][f] = suite[i][f]
  BY <1>4, <1>5
<1>. QED
  BY <1>1, <1>4, <1>6, <1>7, <1>10, <1>12, <1>13 DEF verifyReplayReport

\* Measured is about the cases and the thresholds, and what keeps these keeps it.
LEMMA MeasuredKept ==
  ASSUME NEW r, Measured(r), NEW s, DOMAIN s = ReportFields,
         s.cases = r.cases, s.thresholds \in Thresholds
  PROVE  Measured(s)
BY DEF Measured

\* A report is measured still with one case changed or left out.
LEMMA MeasuredCases ==
  ASSUME NEW r, Measured(r), NEW cases, cases \in Seq(ToSet(cases)),
         \A case \in ToSet(cases) : Timed(case)
  PROVE  Measured([r EXCEPT !.cases = cases])
BY DEF Measured, ReportFields

\* Changing one case replaces the list of cases.
LEMMA MeasuredCase ==
  ASSUME NEW r, Measured(r), NEW i \in DOMAIN r.cases, NEW case, Timed(case)
  PROVE  Measured([r EXCEPT !.cases[i] = case])
<1>. PICK cases : cases = r.cases
  OBVIOUS
<1>. PICK changed : changed = [cases EXCEPT ![i] = case]
  OBVIOUS
<1>1. cases \in Seq(ToSet(cases)) /\ \A c \in ToSet(cases) : Timed(c)
  BY DEF Measured
<1>2. Len(cases) \in Nat /\ DOMAIN cases = 1 .. Len(cases)
      /\ ToSet(cases) = {cases[j] : j \in DOMAIN cases}
  BY <1>1, ListDomain
<1>3. DOMAIN changed = 1 .. Len(cases) /\ changed = [j \in 1 .. Len(cases) |-> changed[j]]
  BY <1>1, <1>2
<1>4. \A j \in 1 .. Len(cases) : Timed(changed[j])
  BY <1>1, <1>2
<1>5. changed \in Seq(ToSet(changed)) /\ ToSet(changed) = {changed[j] : j \in 1 .. Len(cases)}
  <2>. PICK n \in Nat : n = Len(cases)
    BY <1>2
  <2>. PICK S : S = ToSet(changed)
    OBVIOUS
  <2>1. S = {changed[j] : j \in 1 .. n}
    BY <1>3 DEF ToSet
  <2>2. changed = [j \in 1 .. n |-> changed[j]] /\ \A j \in 1 .. n : changed[j] \in S
    BY <1>3, <2>1
  <2>3. changed \in [1 .. n -> S]
    BY <2>2
  <2>4. changed \in Seq(S)
    <3>1. ASSUME NEW m \in Nat, NEW T, NEW f \in [1 .. m -> T] PROVE f \in Seq(T)
      OBVIOUS
    <3>. QED
      BY <2>3, <3>1
  <2>. QED
    BY <2>1, <2>4
<1>6. \A c \in ToSet(changed) : Timed(c)
  BY <1>4, <1>5
<1>7. [r EXCEPT !.cases[i] = case] = [r EXCEPT !.cases = changed]
  OBVIOUS
<1>. QED
  BY <1>5, <1>6, <1>7, MeasuredCases

\* Whatever another program changes, the report is one of timed cases.
LEMMA AlterationsAreMeasured ==
  ASSUME NEW r, Measured(r), NEW altered \in Alterations(r)
  PROVE  Measured(altered)
<1>0. DOMAIN r = ReportFields /\ r.thresholds \in Thresholds
  BY DEF Measured
<1>1. CASE altered = [r EXCEPT !.releaseEligible = ~@]
  BY <1>0, <1>1, MeasuredKept DEF ReportFields
<1>2. ASSUME NEW i \in DOMAIN r.cases,
             \/ altered = [r EXCEPT !.cases[i].passed = ~@]
             \/ altered = [r EXCEPT !.cases[i].passed = TRUE,
                                    !.cases[i].actualOutcome = r.cases[i].expectedOutcome]
      PROVE  Measured(altered)
  <2>. PICK case, outcome : case = r.cases[i] /\ outcome = r.cases[i].expectedOutcome
    OBVIOUS
  <2>1. Timed(case)
    BY ListDomain DEF Measured
  <2>2. CASE altered = [r EXCEPT !.cases[i].passed = ~@]
    <3>. PICK c : c = [case EXCEPT !.passed = ~@]
      OBVIOUS
    <3>1. Timed(c)
      BY <2>1 DEF Timed
    <3>2. altered = [r EXCEPT !.cases[i] = c]
      BY <2>2
    <3>. QED
      BY <3>1, <3>2, MeasuredCase
  <2>3. CASE altered = [r EXCEPT !.cases[i].passed = TRUE, !.cases[i].actualOutcome = outcome]
    <3>. PICK c : c = [case EXCEPT !.passed = TRUE, !.actualOutcome = outcome]
      OBVIOUS
    <3>1. Timed(c)
      BY <2>1 DEF Timed
    <3>2. altered = [r EXCEPT !.cases[i] = c]
      BY <1>0, <2>3 DEF ReportFields
    <3>. QED
      BY <3>1, <3>2, MeasuredCase
  <2>. QED
    BY <1>2, <2>2, <2>3
<1>3. ASSUME NEW i \in DOMAIN r.cases, altered = [r EXCEPT !.cases = RemoveAt(r.cases, i)]
      PROVE  Measured(altered)
  <2>. PICK cases : cases = r.cases
    OBVIOUS
  <2>. PICK fewer : fewer = RemoveAt(cases, i)
    OBVIOUS
  <2>1. /\ cases \in Seq(ToSet(cases)) /\ \A c \in ToSet(cases) : Timed(c)
        /\ Len(cases) \in Nat /\ DOMAIN cases = 1 .. Len(cases)
    BY ListDomain DEF Measured
  <2>2. fewer \in Seq(ToSet(cases))
    BY <2>1 DEF RemoveAt
  <2>3. fewer \in Seq(ToSet(fewer)) /\ ToSet(fewer) \subseteq ToSet(cases)
    <3>1. Len(fewer) \in Nat /\ fewer \in [1 .. Len(fewer) -> ToSet(cases)]
      BY <2>2
    <3>2. ToSet(fewer) = {fewer[j] : j \in 1 .. Len(fewer)}
      BY <3>1 DEF ToSet
    <3>3. fewer \in [1 .. Len(fewer) -> ToSet(fewer)]
      BY <3>1, <3>2
    <3>4. ToSet(fewer) \subseteq ToSet(cases)
      BY <3>1, <3>2
    <3>5. fewer \in Seq(ToSet(fewer))
      <4>. PICK n \in Nat : n = Len(fewer)
        BY <3>1
      <4>. PICK S : S = ToSet(fewer)
        OBVIOUS
      <4>. QED
        BY <3>3
    <3>. QED
      BY <3>4, <3>5
  <2>. QED
    BY <1>3, <2>1, <2>3, MeasuredCases
<1>4. ASSUME NEW summary, altered = [r EXCEPT !.summary = summary]
      PROVE  Measured(altered)
  BY <1>0, <1>4, MeasuredKept DEF ReportFields
<1>5. ASSUME NEW k \in Kinds, altered = [r EXCEPT !.summary[k].passed = @ + 1]
      PROVE  Measured(altered)
  BY <1>0, <1>5, MeasuredKept DEF ReportFields
<1>6. ASSUME NEW d \in Durations, altered = [r EXCEPT !.summary.latencyMs.p95 = d]
      PROVE  Measured(altered)
  BY <1>0, <1>6, MeasuredKept DEF ReportFields
<1>7. ASSUME NEW t \in Thresholds, altered = [r EXCEPT !.thresholds = t]
      PROVE  Measured(altered)
  BY <1>0, <1>7, MeasuredKept DEF ReportFields
<1>8. ASSUME NEW b \in ReplayBundles, altered = [r EXCEPT !.artifacts = artifacts(b)]
      PROVE  Measured(altered)
  <2>. PICK a : a = artifacts(b)
    OBVIOUS
  <2>. QED
    BY <1>0, <1>8, MeasuredKept DEF ReportFields
<1>. QED
  BY <1>1, <1>2, <1>3, <1>5, <1>6, <1>7, <1>8 DEF Alterations

\* So is the report sealed, with its summary computed again or as it stands.
LEMMA SealedIsMeasured ==
  ASSUME NEW r, Measured(r)
  PROVE  Measured(Sealed(body(r))) /\ Measured(Sealed(body(Resummarized(r))))
<1>1. ASSUME NEW s, Measured(s) PROVE Measured(Sealed(body(s)))
  <2>. PICK b : b = body(s)
    OBVIOUS
  <2>1. /\ DOMAIN b = ReportFields \ {"reportHash"} /\ b = [f \in DOMAIN b |-> b[f]]
        /\ b.cases = s.cases /\ b.thresholds = s.thresholds
    BY <1>1 DEF body, Measured, ReportFields
  <2>2. DOMAIN Sealed(b) = ReportFields /\ \A f \in DOMAIN b : Sealed(b)[f] = b[f]
    BY <2>1, SealedBody DEF ReportFields
  <2>3. Sealed(b).cases = s.cases /\ Sealed(b).thresholds = s.thresholds
    BY <2>1, <2>2 DEF ReportFields
  <2>. QED
    BY <1>1, <2>2, <2>3, MeasuredKept DEF Measured
<1>2. Measured(Resummarized(r))
  <2>. PICK m : m = [attack |-> summarize(r.cases, "attack"), control |-> summarize(r.cases, "control"),
                     latencyMs |-> latencySummary(r.cases)]
    OBVIOUS
  <2>. PICK e : e = eligible(m, r.thresholds)
    OBVIOUS
  <2>1. Resummarized(r) = [r EXCEPT !.summary = m, !.releaseEligible = e]
    BY DEF Resummarized
  <2>2. DOMAIN r = ReportFields /\ r.thresholds \in Thresholds
    BY DEF Measured
  <2>. QED
    BY <2>1, <2>2, MeasuredKept DEF ReportFields
<1>. QED
  BY <1>1, <1>2

(***************************************************************************)
(* Verification of reports.                                                *)
(***************************************************************************)
\* The report at hand is one of timed cases, and the one runReplay wrote verifies.  A verdict
\* is only given on a report, and it is that of verifyReplayReport.
ReportInv ==
  /\ bundle \in ReplayBundles
  /\ report # NoReport => Measured(report)
  /\ own => report # NoReport /\ verifyReplayReport(report, bundle)
  /\ verdict \in {"none", "accepted", "refused"}
  /\ verdict # "none" => report # NoReport
  /\ verdict = "accepted" => verifyReplayReport(report, bundle)
  /\ verdict = "refused" => ~ verifyReplayReport(report, bundle)

\* A report has fields, which the absence of one has not.
LEMMA MeasuredIsReport ==
  ASSUME NEW r, Measured(r)
  PROVE  r # NoReport
BY DEF Measured, NoReport, ReportFields

\* Every step of a run, of another program and of the verification keeps the invariant.
LEMMA ReportStep == ReportInv /\ [ReplayNext]_replayVars => ReportInv'
<1>. SUFFICES ASSUME ReportInv, [ReplayNext]_replayVars PROVE ReportInv'
  OBVIOUS
<1>. USE DEF ReportInv
<1>1. CASE RunReplay
  <2>1. PICK durations \in [DOMAIN bundle.suite.cases -> Durations], t \in Thresholds :
          reportSchema(runReplay(bundle, durations, t)) =>
            report' = runReplay(bundle, durations, t) /\ verdict' = verdict
    BY <1>1 DEF RunReplay
  <2>2. /\ replayable(bundle) /\ own' /\ bundle' = bundle /\ verdict = "none"
    BY <1>1 DEF RunReplay
  <2>. PICK r : r = runReplay(bundle, durations, t)
    OBVIOUS
  <2>3. Measured(r) /\ verifyReplayReport(r, bundle) /\ r # NoReport
    BY <2>2, RunVerifies, MeasuredIsReport
  <2>4. report' = r /\ verdict' = verdict
    BY <2>1, <2>3 DEF verifyReplayReport
  <2>. QED
    BY <2>2, <2>3, <2>4
<1>2. CASE AlterReport
  <2>1. /\ own /\ verdict = "none" /\ bundle' = bundle /\ verdict' = verdict /\ ~ own'
    BY <1>2 DEF AlterReport
  <2>2. Measured(report)
    BY <2>1
  <2>3. PICK altered \in Alterations(report) :
          \/ report' = altered
          \/ report' = Sealed(body(altered))
          \/ report' = Sealed(body(Resummarized(altered)))
    BY <1>2 DEF AlterReport
  <2>4. PICK r : r = report'
    OBVIOUS
  <2>5. Measured(r) /\ r # NoReport
    BY <2>2, <2>3, <2>4, AlterationsAreMeasured, SealedIsMeasured, MeasuredIsReport
  <2>. QED
    BY <2>1, <2>4, <2>5
<1>3. CASE Verify
  <2>1. /\ report # NoReport /\ report' = report /\ bundle' = bundle /\ own' = own
        /\ verdict' = IF verifyReplayReport(report, bundle) THEN "accepted" ELSE "refused"
    BY <1>3 DEF Verify
  <2>. QED
    BY <2>1
<1>4. CASE UNCHANGED replayVars
  BY <1>4 DEF replayVars
<1>. QED
  BY <1>1, <1>2, <1>3, <1>4 DEF ReplayNext

\* At first there is no report.
LEMMA ReportStart == ReplayInit => ReportInv
BY DEF ReplayInit, ReportInv

\* So the invariant holds in every behaviour.
LEMMA ReportAlways == ReplaySpec => []ReportInv
BY ReportStart, ReportStep, PTL DEF ReplaySpec

\* For any suite, timing and thresholds, verifyReplayReport accepts what runReplay wrote.
THEOREM OwnVerifies == ReplaySpec => []OwnReportsVerify
<1>1. ReportInv => OwnReportsVerify
  BY DEF ReportInv, OwnReportsVerify
<1>. QED
  BY <1>1, ReportAlways, PTL

\* The nearest-rank percentile reaches a threshold exactly when that share of values does.
LEMMA LatencyShare ==
  ASSUME NEW cases, cases \in Seq(ToSet(cases)), \A case \in ToSet(cases) : Timed(case),
         Len(cases) # 0, NEW ms \in Nat
  PROVE  latencySummary(cases).p95 <= ms
           <=> 100 * Cardinality({i \in DOMAIN cases : cases[i].durationMs <= ms}) >= 95 * Len(cases)
<1>. DEFINE v == durationsOf(cases)  L == Len(cases)  within == {i \in 1 .. L : v[i] <= ms}
<1>1. /\ L \in Nat \ {0} /\ v \in [1 .. L -> Nat] /\ v # <<>> /\ Len(v) = L
      /\ \A i \in 1 .. L : v[i] = cases[i].durationMs
      /\ DOMAIN cases = 1 .. L
  BY DurationsAreNat, ListDomain
<1>. HIDE DEF v, L
<1>2. PICK n \in 1 .. L : /\ percentile(v, 95) = sorted(v)[n]
                          /\ \A m \in Nat : m >= n <=> 100 * m >= 95 * L
  <2>1. ASSUME NEW q \in 1 .. 100
        PROVE  \E n \in 1 .. L : /\ percentile(v, q) = sorted(v)[n]
                                 /\ \A m \in Nat : m >= n <=> 100 * m >= q * L
    BY <1>1, PercentilePlace
  <2>2. 95 \in 1 .. 100
    OBVIOUS
  <2>. QED
    BY <2>1, <2>2
<1>3. Cardinality(within) \in Nat /\ (sorted(v)[n] <= ms <=> Cardinality(within) >= n)
  <2>1. L \in Nat /\ v \in [1 .. L -> Nat] /\ n \in 1 .. L /\ ms \in Nat
    BY <1>1
  <2>. QED
    BY <2>1, Rank, Zenon
<1>4. within = {i \in DOMAIN cases : cases[i].durationMs <= ms}
  BY <1>1
<1>5. latencySummary(cases).p95 = sorted(v)[n]
  BY <1>2 DEF latencySummary, v
<1>. HIDE DEF within
<1>6. sorted(v)[n] <= ms <=> 100 * Cardinality(within) >= 95 * L
  BY <1>2, <1>3
<1>. QED
  BY <1>4, <1>5, <1>6 DEF L

\* Whatever another program made of a report: once it is accepted, the suite of the bundle
\* has cases of both kinds, and the verdict on the release follows from the outcomes and the
\* times of its cases.
THEOREM AcceptedAddUp == ReplaySpec => []AcceptedReportsAddUp
<1>1. ASSUME NEW b \in ReplayBundles, NEW r, Measured(r), verifyReplayReport(r, b)
      PROVE  LET cases == r.cases
                 Of(kind) == {i \in DOMAIN b.suite.cases : b.suite.cases[i].kind = kind}
                 Good(kind) == {i \in Of(kind) : cases[i].actualOutcome = b.suite.cases[i].expectedOutcome}
                 Share(kind, rate) == 100 * Cardinality(Good(kind)) >= rate * Cardinality(Of(kind))
                 Within(ms) == {i \in DOMAIN cases : cases[i].durationMs <= ms}
             IN /\ \A kind \in Kinds : Of(kind) # {}
                /\ r.releaseEligible <=>
                     /\ Share("attack", r.thresholds.attackPassRate)
                     /\ Share("control", r.thresholds.controlPassRate)
                     /\ 100 * Cardinality(Within(r.thresholds.p95LatencyMs)) >= 95 * Len(cases)
  <2>. PICK cases, suite, t : cases = r.cases /\ suite = b.suite.cases /\ t = r.thresholds
    OBVIOUS
  <2>. DEFINE Of(kind) == {i \in DOMAIN suite : suite[i].kind = kind}
              Good(kind) == {i \in Of(kind) : cases[i].actualOutcome = suite[i].expectedOutcome}
              Within(ms) == {i \in DOMAIN cases : cases[i].durationMs <= ms}
  <2>1. /\ cases \in Seq(ToSet(cases)) /\ \A case \in ToSet(cases) : Timed(case)
        /\ t.attackPassRate \in Nat /\ t.controlPassRate \in Nat /\ t.p95LatencyMs \in Nat
    <3>1. t \in [attackPassRate : 0 .. 100, controlPassRate : 0 .. 100, p95LatencyMs : Nat]
      BY <1>1, ReplayAssumption DEF Measured
    <3>2. t.attackPassRate \in Nat /\ t.controlPassRate \in Nat /\ t.p95LatencyMs \in Nat
      BY <3>1
    <3>3. cases \in Seq(ToSet(cases)) /\ \A case \in ToSet(cases) : Timed(case)
      BY <1>1 DEF Measured
    <3>. QED
      BY <3>2, <3>3
  <2>2. /\ Len(cases) \in Nat /\ DOMAIN cases = 1 .. Len(cases)
        /\ Len(suite) = Len(cases) /\ DOMAIN suite = DOMAIN cases
    <3>1. suite \in Seq(ToSet(suite))
      BY <1>1, ReplayAssumption
    <3>2. Len(suite) = Len(cases)
      BY <1>1 DEF verifyReplayReport
    <3>. QED
      BY <2>1, <3>1, <3>2, ListDomain
  <2>3. \A i \in DOMAIN cases :
          /\ cases[i].kind = suite[i].kind /\ cases[i].expectedOutcome = suite[i].expectedOutcome
          /\ cases[i].passed <=> cases[i].actualOutcome = suite[i].expectedOutcome
    BY <1>1 DEF verifyReplayReport, reportSchema
  <2>4. ASSUME NEW kind \in Kinds
        PROVE  /\ Cardinality(Of(kind)) \in Nat /\ Cardinality(Good(kind)) \in Nat
               /\ Cardinality(Of(kind)) > 0 /\ Of(kind) # {}
               /\ r.summary[kind].passed = Cardinality(Good(kind))
               /\ r.summary[kind].total = Cardinality(Of(kind))
    <3>. PICK all, good : all = Of(kind) /\ good = Good(kind)
      OBVIOUS
    <3>1. /\ all = {i \in DOMAIN cases : cases[i].kind = kind}
          /\ good = {i \in all : cases[i].passed}
          /\ good \subseteq all /\ all \subseteq DOMAIN cases
      BY <2>2, <2>3
    <3>2. IsFiniteSet(DOMAIN cases)
      <4>. PICK n \in Nat : n = Len(cases)
        BY <2>2
      <4>1. IsFiniteSet(1 .. n)
        BY FS_Interval
      <4>. QED
        BY <2>2, <4>1
    <3>3. /\ IsFiniteSet(all) /\ IsFiniteSet(good)
          /\ Cardinality(all) \in Nat /\ Cardinality(good) \in Nat
      BY <3>1, <3>2, FS_Subset, FS_CardinalityType
    <3>4. r.summary[kind] = summarize(cases, kind) /\ r.summary[kind].total > 0
      BY <1>1 DEF verifyReplayReport, reportSchema
    <3>5. summarize(cases, kind).passed = Cardinality(good) /\ summarize(cases, kind).total = Cardinality(all)
      BY <3>1 DEF summarize
    <3>6. all # {}
      BY <3>3, <3>4, <3>5, FS_EmptySet
    <3>. HIDE DEF Of, Good
    <3>. QED
      BY <3>3, <3>4, <3>5, <3>6
  <2>5. r.summary.latencyMs.p95 <= t.p95LatencyMs
          <=> 100 * Cardinality(Within(t.p95LatencyMs)) >= 95 * Len(cases)
    <3>1. r.summary.latencyMs = latencySummary(cases)
      BY <1>1 DEF verifyReplayReport
    <3>2. Len(cases) # 0
      BY <2>2, <2>4 DEF Kinds
    <3>. QED
      BY <2>1, <3>1, <3>2, LatencyShare
  <2>6. ASSUME NEW kind \in Kinds, NEW rate \in Nat
        PROVE  reaches(r.summary[kind], rate)
                 <=> 100 * Cardinality(Good(kind)) >= rate * Cardinality(Of(kind))
    <3>. PICK good, all : good = Cardinality(Good(kind)) /\ all = Cardinality(Of(kind))
      OBVIOUS
    <3>1. good \in Nat /\ all \in Nat /\ r.summary[kind].passed = good /\ r.summary[kind].total = all
      BY <2>4
    <3>. QED
      BY <3>1 DEF reaches
  <2>7. r.releaseEligible = eligible(r.summary, t)
    BY <1>1 DEF verifyReplayReport, reportSchema
  <2>8. r.releaseEligible <=>
          /\ 100 * Cardinality(Good("attack")) >= t.attackPassRate * Cardinality(Of("attack"))
          /\ 100 * Cardinality(Good("control")) >= t.controlPassRate * Cardinality(Of("control"))
          /\ 100 * Cardinality(Within(t.p95LatencyMs)) >= 95 * Len(cases)
    <3>1. /\ reaches(r.summary["attack"], t.attackPassRate)
               <=> 100 * Cardinality(Good("attack")) >= t.attackPassRate * Cardinality(Of("attack"))
          /\ reaches(r.summary["control"], t.controlPassRate)
               <=> 100 * Cardinality(Good("control")) >= t.controlPassRate * Cardinality(Of("control"))
      BY <2>1, <2>6 DEF Kinds
    <3>. HIDE DEF Of, Good, Within
    <3>. QED
      BY <2>5, <2>7, <3>1 DEF eligible
  <2>9. \A kind \in Kinds : Of(kind) # {}
    BY <2>4
  <2>. QED
    BY <2>8, <2>9
<1>2. ReportInv => AcceptedReportsAddUp
  <2>. SUFFICES ASSUME ReportInv, verdict = "accepted" PROVE AcceptedReportsAddUp
    BY DEF AcceptedReportsAddUp
  <2>1. bundle \in ReplayBundles /\ Measured(report) /\ verifyReplayReport(report, bundle)
    BY DEF ReportInv
  <2>. QED
    BY <1>1, <2>1 DEF AcceptedReportsAddUp
<1>. QED
  BY <1>2, ReportAlways, PTL

================================================================================
