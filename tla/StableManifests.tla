---------------------------- MODULE StableManifests ----------------------------
(***************************************************************************)
(* The publisher of the stable channel: StableManifestPublisher.get, run   *)
(* by any number of calls at once, in one control plane or in several with *)
(* clocks of their own, over one table of manifests and the registry.      *)
(*                                                                         *)
(* A call is cut at its awaits: the latest manifest is read, versions are  *)
(* read from Monad one by one, the manifest is stored.  A manifest is      *)
(* identified by its hash; here by its place in the table, 0 being the     *)
(* null of previousManifestHash.  Bundles and commitments are taken to     *)
(* match, and every version to be stored before the registry knows it.     *)
(***************************************************************************)
EXTENDS Naturals, Sequences

CONSTANTS
  Defenses,      \* defense families
  Numbers,       \* semantic versions, by their order
  Callers,       \* the requests for the manifest
  TTL,           \* DADIENG_MANIFEST_TTL_SECONDS
  MaxSkew,       \* how far the clock of a control plane may be behind
  MaxTime,       \* bound of the time
  MaxFailures    \* bound: calls that an RPC or the database fails

ASSUME ManifestAssumption ==
  /\ Numbers \subseteq Nat
  /\ TTL \in Nat \ {0} /\ MaxSkew \in Nat /\ MaxTime \in Nat /\ MaxFailures \in Nat

VARIABLES
  status,        \* status[v]: the lifecycle of v in the registry
  clock,
  stored,        \* the table stable_manifests in the order of insertion
  call,          \* call[r]: the call of get for request r
  barred,        \* barred[r]: history, the versions quarantined when r came in
  failures

manifestVars == <<status, clock, stored, call, barred, failures>>

Versions == Defenses \X Numbers

Manifest == [generatedAt : Nat, versions : SUBSET Versions, parent : Nat]

\* at: the await the call is at; now, latest: what it has read; todo: the
\* versions it still has to look up; found: the stable ones among the others.
Call == [at : {"idle", "started", "recheck", "scan", "conflict", "answered"},
         now : Nat, latest : Nat, todo : SUBSET Versions, found : SUBSET Versions]

NoCall == [at |-> "idle", now |-> 0, latest |-> 0, todo |-> {}, found |-> {}]

expiresAt(m) == stored[m].generatedAt + TTL

\* ORDER BY generated_at DESC; between equal times the hash decides, that is,
\* nothing the model knows.
isLatest(m) ==
  IF stored = << >> THEN m = 0
  ELSE /\ m \in DOMAIN stored
       /\ \A n \in DOMAIN stored : stored[n].generatedAt <= stored[m].generatedAt

\* The highest version of every defense.
highest(vs) == {v \in vs : \A u \in vs : u[1] = v[1] => u[2] <= v[2]}

ManifestInit ==
  /\ status \in [Versions -> {"Candidate", "Stable"}]
  /\ clock = 0
  /\ stored = << >>
  /\ call = [r \in Callers |-> NoCall]
  /\ barred = [r \in Callers |-> {}]
  /\ failures = 0

(***************************************************************************)
(* The registry and the time.                                              *)
(***************************************************************************)
promoteVersion(v) ==
  /\ status[v] = "Candidate"
  /\ status' = [status EXCEPT ![v] = "Stable"]
  /\ UNCHANGED <<clock, stored, call, barred, failures>>

quarantineVersion(v) ==
  /\ status[v] = "Stable"
  /\ status' = [status EXCEPT ![v] = "Quarantined"]
  /\ UNCHANGED <<clock, stored, call, barred, failures>>

Tick ==
  /\ clock < MaxTime
  /\ clock' = clock + 1
  /\ UNCHANGED <<status, stored, call, barred, failures>>

(***************************************************************************)
(* The call of get.                                                        *)
(***************************************************************************)
\* The clock is read before the table is.
Start(r) ==
  /\ call[r].at = "idle"
  /\ \E n \in 0 .. clock :
       /\ clock <= n + MaxSkew
       /\ call' = [call EXCEPT ![r] = [NoCall EXCEPT !.at = "started", !.now = n]]
  /\ barred' = [barred EXCEPT ![r] = {v \in Versions : status[v] = "Quarantined"}]
  /\ UNCHANGED <<status, clock, stored, failures>>

Moves(r, new) ==
  /\ call' = [call EXCEPT ![r] = new]
  /\ UNCHANGED <<status, clock, barred, failures>>

\* The call is over; latest is what it answers.
Answered(c, m) == [c EXCEPT !.at = "answered", !.latest = m, !.todo = {}, !.found = {}]

\* Look every stored version up afresh.
Scanning(c) == [c EXCEPT !.at = "scan", !.todo = Versions, !.found = {}]

ReadLatest(r) ==
  /\ call[r].at = "started"
  /\ \E m \in 0 .. Len(stored) :
       /\ isLatest(m)
       /\ LET c == [call[r] EXCEPT !.latest = m] IN
          Moves(r, IF m # 0 /\ expiresAt(m) > c.now
                   THEN [c EXCEPT !.at = "recheck", !.todo = stored[m].versions]
                   ELSE Scanning(c))
  /\ UNCHANGED stored

\* isStillStable: one version of the latest manifest, or the answer.
Recheck(r) ==
  LET c == call[r] IN
  /\ c.at = "recheck"
  /\ \/ /\ c.todo = {}
        /\ Moves(r, Answered(c, c.latest))
     \/ \E v \in c.todo :
          Moves(r, IF status[v] = "Stable" THEN [c EXCEPT !.todo = @ \ {v}] ELSE Scanning(c))
  /\ UNCHANGED stored

Scan(r) ==
  LET c == call[r] IN
  /\ c.at = "scan"
  /\ \E v \in c.todo :
       Moves(r, [c EXCEPT !.todo = @ \ {v},
                          !.found = IF status[v] = "Stable" THEN @ \cup {v} ELSE @])
  /\ UNCHANGED stored

\* Mutant: only the hash of the manifest is unique in the table.
unclaimedHash(parent) == TRUE

\* The unique index on (channel, lineage_parent).
unclaimed(parent) == \A m \in DOMAIN stored : stored[m].parent # parent

\* Mutant: the lineage starts over with every manifest.
PublishUnlinked(r) ==
  LET c == call[r]
      manifest == [generatedAt |-> c.now, versions |-> highest(c.found), parent |-> 0]
  IN
  /\ c.at = "scan" /\ c.todo = {}
  /\ IF unclaimed(0)
     THEN stored' = Append(stored, manifest) /\ Moves(r, Answered(c, Len(stored) + 1))
     ELSE Moves(r, [c EXCEPT !.at = "conflict"]) /\ UNCHANGED stored

\* The manifest is signed and inserted; a conflict is read back.
Publish(r) ==
  LET c == call[r]
      manifest == [generatedAt |-> c.now, versions |-> highest(c.found), parent |-> c.latest]
  IN
  /\ c.at = "scan" /\ c.todo = {}
  /\ IF unclaimed(c.latest)
     THEN stored' = Append(stored, manifest) /\ Moves(r, Answered(c, Len(stored) + 1))
     ELSE Moves(r, [c EXCEPT !.at = "conflict"]) /\ UNCHANGED stored

Reread(r) ==
  /\ call[r].at = "conflict"
  /\ \E m \in DOMAIN stored : isLatest(m) /\ Moves(r, Answered(call[r], m))
  /\ UNCHANGED stored

\* An RPC or database call throws: 503, which is answer 0.
Fails(r) ==
  /\ call[r].at \in {"started", "recheck", "scan", "conflict"}
  /\ failures < MaxFailures
  /\ failures' = failures + 1
  /\ call' = [call EXCEPT ![r] = Answered(call[r], 0)]
  /\ UNCHANGED <<status, clock, stored, barred>>

Finish(r) ==
  /\ call[r].at = "answered"
  /\ Moves(r, NoCall)
  /\ UNCHANGED stored

Advance(r) == ReadLatest(r) \/ Recheck(r) \/ Scan(r) \/ Publish(r) \/ Reread(r)

World == Tick \/ \E v \in Versions : promoteVersion(v) \/ quarantineVersion(v)

ManifestNext ==
  \/ World
  \/ \E r \in Callers : Start(r) \/ Advance(r) \/ Fails(r) \/ Finish(r)

ManifestSpec == ManifestInit /\ [][ManifestNext]_manifestVars

\* No other call reads this time, and no manifest bears it.
FreshTime ==
  /\ \A r \in Callers : call[r].at # "idle" => call[r].now < clock
  /\ \A m \in DOMAIN stored : stored[m].generatedAt < clock

\* Requests keep coming, no two in the same millisecond, and every await of a
\* call returns.  Nothing is said of the registry, nor of the time.
FairManifestSpec ==
  /\ ManifestInit
  /\ [][ManifestNext /\ \A r \in Callers : Start(r) => FreshTime]_manifestVars
  /\ \A r \in Callers : /\ WF_manifestVars(Start(r) /\ FreshTime)
                        /\ WF_manifestVars(Advance(r))
                        /\ WF_manifestVars(Finish(r))

(***************************************************************************)
(* Properties.                                                             *)
(***************************************************************************)
\* The table and the calls have the types of the code, and what a call has
\* read stays within the table.
ManifestTypeOK ==
  /\ status \in [Versions -> {"Candidate", "Stable", "Quarantined"}]
  /\ clock \in Nat /\ failures \in Nat
  /\ stored \in Seq(Manifest)
  /\ call \in [Callers -> Call]
  /\ barred \in [Callers -> SUBSET Versions]
  /\ \A r \in Callers : call[r].latest \in 0 .. Len(stored)

\* docs/architecture/0012: "stores this append-only lineage in Postgres and
\* prevents two manifests from claiming the same parent": whatever the clocks
\* and however calls overlap, every manifest continues the one before it.
Lineage == \A m \in DOMAIN stored : stored[m].parent = m - 1

\* docs/architecture/0013: nothing that was quarantined when the request came
\* in is signed for it, however long its look-ups take: what a call has found
\* so far, or has checked of the latest manifest, is free of it.
SignedRechecked ==
  \A r \in Callers :
    /\ call[r].found \cap barred[r] = {}
    /\ call[r].at = "recheck" =>
         stored[call[r].latest].versions \cap barred[r] \subseteq call[r].todo

\* What is stored stays as it was signed, and each manifest was released when
\* it was stored: no version in it that the registry has never called stable,
\* and at most one of every defense.
LineageOfReleases ==
  \A m \in DOMAIN stored :
    /\ \A v \in stored[m].versions : status[v] # "Candidate"
    /\ \A u, v \in stored[m].versions : u[1] = v[1] => u = v

\* docs/architecture/0013: "When a selected version becomes Quarantined, the
\* publisher creates a new signed manifest linked to the prior manifest hash",
\* so the version leaves the latest manifest in the end, if time goes on.
carried(v) == \E m \in DOMAIN stored : isLatest(m) /\ v \in stored[m].versions
QuarantineIsPublished ==
  []<>FreshTime => \A v \in Versions : status[v] = "Quarantined" ~> ~ carried(v)

\* docs/architecture/0013: publication "rechecks every active entry against
\* current Monad state even while the cached manifest is unexpired": no answer
\* carries what was quarantined before the request.
AnswersRechecked ==
  \A r \in Callers : call[r].at = "answered" /\ call[r].latest # 0 =>
    stored[call[r].latest].versions \cap barred[r] = {}
================================================================================
