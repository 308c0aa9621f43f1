------------------------------ MODULE SyncProofs ------------------------------
(***************************************************************************)
(* Theorems of StableManifests and of ManifestSync, for any versions,      *)
(* number of calls, clocks, clients, caches, fail modes and bounds.  Of    *)
(* the publisher: the types, the lineage of the manifests and what a call  *)
(* signs.  Of the clients: that they are a behaviour of the publisher, the *)
(* types, and what a client activates and caches.                          *)
(***************************************************************************)
EXTENDS ManifestSync, TLAPS

(***************************************************************************)
(* The publisher.                                                          *)
(***************************************************************************)
\* The step of a call, as the proofs split it.
LEMMA CallSteps ==
  ASSUME ManifestNext
  PROVE  \/ World
         \/ \E r \in Callers : Start(r) \/ ReadLatest(r) \/ Recheck(r) \/ Scan(r)
                               \/ Publish(r) \/ Reread(r) \/ Fails(r) \/ Finish(r)
BY DEF ManifestNext, Advance

\* What the code assigns to a call is a call, of the manifest it had read or
\* has now read.
LEMMA AnsweredCall ==
  ASSUME NEW c \in Call, NEW m \in Nat
  PROVE  /\ Answered(c, m) \in Call /\ Answered(c, m).latest = m
         /\ Answered(c, m).found = {} /\ Answered(c, m).at = "answered"
BY DEF Answered, Call

\* The latest manifest is read.
LEMMA ReadCall ==
  ASSUME NEW c \in Call, NEW m \in Nat
  PROVE  /\ [c EXCEPT !.latest = m] \in Call /\ [c EXCEPT !.latest = m].latest = m
         /\ [c EXCEPT !.latest = m].found = c.found
BY DEF Call

\* The scan of the versions begins.
LEMMA ScanningCall ==
  ASSUME NEW c \in Call
  PROVE  Scanning(c) \in Call /\ Scanning(c).latest = c.latest
BY DEF Scanning, Call

\* The insertion met the unique index.
LEMMA ConflictCall ==
  ASSUME NEW c \in Call
  PROVE  /\ [c EXCEPT !.at = "conflict"] \in Call
         /\ [c EXCEPT !.at = "conflict"].latest = c.latest
BY DEF Call

\* A call moves from one state of the type to another.
LEMMA MovesTypes ==
  ASSUME ManifestTypeOK, NEW r \in Callers, NEW new \in Call,
         Moves(r, new), new.latest \in 0 .. Len(stored), UNCHANGED stored
  PROVE  ManifestTypeOK'
BY DEF ManifestTypeOK, Moves

\* What is published continues the table with a manifest.
LEMMA PublishTypes ==
  ASSUME ManifestTypeOK, NEW r \in Callers, Publish(r)
  PROVE  ManifestTypeOK'
<1> DEFINE c == call[r]
<1> DEFINE m == [generatedAt |-> c.now, versions |-> highest(c.found), parent |-> c.latest]
<1>1. /\ c \in Call /\ c.latest \in 0 .. Len(stored) /\ m \in Manifest
      /\ stored \in Seq(Manifest) /\ Len(stored) \in Nat
  BY DEF ManifestTypeOK, Call, Manifest, highest
<1>2. CASE unclaimed(c.latest)
  <2>1. stored' = Append(stored, m) /\ Moves(r, Answered(c, Len(stored) + 1))
    BY <1>2 DEF Publish
  <2>2. stored' \in Seq(Manifest) /\ Len(stored') = Len(stored) + 1
    BY <1>1, <2>1
  <2>3. /\ Answered(c, Len(stored) + 1) \in Call
        /\ Answered(c, Len(stored) + 1).latest = Len(stored) + 1
    <3>1. c \in Call /\ Len(stored) + 1 \in Nat BY <1>1
    <3> HIDE DEF c
    <3>2. QED BY <3>1, AnsweredCall
  <2>4. call'[r] = Answered(c, Len(stored) + 1) /\ call'[r].latest = Len(stored) + 1
    BY <2>1, <2>3 DEF Moves, ManifestTypeOK
  <2>5. call' \in [Callers -> Call]
    BY <2>1, <2>3 DEF Moves, ManifestTypeOK
  <2>6. \A s \in Callers : call'[s].latest \in 0 .. Len(stored')
    BY <1>1, <2>1, <2>2, <2>4 DEF Moves, ManifestTypeOK
  <2>7. QED BY <2>1, <2>2, <2>5, <2>6 DEF Moves, ManifestTypeOK
<1>3. CASE ~ unclaimed(c.latest)
  <2>1. [c EXCEPT !.at = "conflict"] \in Call /\ [c EXCEPT !.at = "conflict"].latest = c.latest
    <3> HIDE DEF c
    <3> QED BY <1>1, ConflictCall
  <2>2. Moves(r, [c EXCEPT !.at = "conflict"]) /\ UNCHANGED stored
    BY <1>3 DEF Publish
  <2>3. QED BY <1>1, <2>1, <2>2, MovesTypes
<1>4. QED BY <1>2, <1>3

\* StableManifestPublisher.get: the table and the calls keep their types, and
\* a call has read no manifest but one of the table.
THEOREM ManifestTypes == ManifestSpec => []ManifestTypeOK
<1>1. ManifestInit => ManifestTypeOK
  BY ManifestAssumption DEF ManifestInit, ManifestTypeOK, NoCall, Call
<1>2. ManifestTypeOK /\ [ManifestNext]_manifestVars => ManifestTypeOK'
  <2> SUFFICES ASSUME ManifestTypeOK, [ManifestNext]_manifestVars PROVE ManifestTypeOK'
    OBVIOUS
  <2>1. CASE World
    BY <2>1 DEF World, Tick, promoteVersion, quarantineVersion, ManifestTypeOK
  <2>2. ASSUME NEW r \in Callers, Start(r) PROVE ManifestTypeOK'
    <3>1. PICK n \in Nat : call' = [call EXCEPT ![r] = [NoCall EXCEPT !.at = "started", !.now = n]]
      <4>1. 0 .. clock \subseteq Nat BY DEF ManifestTypeOK
      <4>2. QED BY <2>2, <4>1 DEF Start
    <3>2. [NoCall EXCEPT !.at = "started", !.now = n] \in Call
      BY DEF NoCall, Call
    <3>3. [NoCall EXCEPT !.at = "started", !.now = n].latest = 0
      BY DEF NoCall
    <3>4. QED BY <2>2, <3>1, <3>2, <3>3 DEF Start, ManifestTypeOK
  <2>3. ASSUME NEW r \in Callers, ReadLatest(r) PROVE ManifestTypeOK'
    <3>1. PICK m \in 0 .. Len(stored) :
            LET c == [call[r] EXCEPT !.latest = m] IN
            Moves(r, IF m # 0 /\ expiresAt(m) > c.now
                     THEN [c EXCEPT !.at = "recheck", !.todo = stored[m].versions]
                     ELSE Scanning(c))
      BY <2>3 DEF ReadLatest
    <3> DEFINE c == [call[r] EXCEPT !.latest = m]
    <3>2. c \in Call /\ c.latest = m
      <4>1. call[r] \in Call /\ m \in Nat BY DEF ManifestTypeOK
      <4>2. QED BY <4>1, ReadCall
    <3>3. Scanning(c) \in Call /\ Scanning(c).latest = m
      BY <3>2, ScanningCall
    <3>4. ASSUME m # 0
          PROVE  /\ [c EXCEPT !.at = "recheck", !.todo = stored[m].versions] \in Call
                 /\ [c EXCEPT !.at = "recheck", !.todo = stored[m].versions].latest = m
      <4>1. stored[m] \in Manifest BY <3>4 DEF ManifestTypeOK
      <4>2. QED BY <3>2, <4>1 DEF Call, Manifest
    <3>5. QED BY <2>3, <3>1, <3>3, <3>4, MovesTypes DEF ReadLatest
  <2>4. ASSUME NEW r \in Callers, Recheck(r) PROVE ManifestTypeOK'
    <3> DEFINE c == call[r]
    <3>1. c \in Call /\ c.latest \in 0 .. Len(stored) /\ c.latest \in Nat
      BY DEF ManifestTypeOK
    <3>2. /\ Answered(c, c.latest) \in Call /\ Answered(c, c.latest).latest = c.latest
          /\ Scanning(c) \in Call /\ Scanning(c).latest = c.latest
      <4> HIDE DEF c
      <4> QED BY <3>1, AnsweredCall, ScanningCall
    <3>3. \A v \in c.todo : /\ [c EXCEPT !.todo = @ \ {v}] \in Call
                            /\ [c EXCEPT !.todo = @ \ {v}].latest = c.latest
      <4> HIDE DEF c
      <4> QED BY <3>1 DEF Call
    <3>4. QED BY <2>4, <3>1, <3>2, <3>3, MovesTypes DEF Recheck
  <2>5. ASSUME NEW r \in Callers, Scan(r) PROVE ManifestTypeOK'
    <3> DEFINE c == call[r]
    <3> DEFINE next(v) == [c EXCEPT !.todo = @ \ {v},
                                    !.found = IF status[v] = "Stable" THEN @ \cup {v} ELSE @]
    <3>1. c \in Call /\ c.latest \in 0 .. Len(stored) BY DEF ManifestTypeOK
    <3>2. PICK v \in c.todo : Moves(r, next(v)) BY <2>5 DEF Scan
    <3>3. next(v) \in Call /\ next(v).latest = c.latest BY <3>1 DEF Call
    <3>4. QED BY <2>5, <3>1, <3>2, <3>3, MovesTypes DEF Scan
  <2>6. ASSUME NEW r \in Callers, Publish(r) PROVE ManifestTypeOK'
    BY <2>6, PublishTypes
  <2>7. ASSUME NEW r \in Callers, Reread(r) PROVE ManifestTypeOK'
    <3>1. PICK m \in DOMAIN stored : Moves(r, Answered(call[r], m)) BY <2>7 DEF Reread
    <3>2. m \in 0 .. Len(stored) /\ m \in Nat BY DEF ManifestTypeOK
    <3>3. Answered(call[r], m) \in Call /\ Answered(call[r], m).latest = m
      BY <3>2, AnsweredCall DEF ManifestTypeOK
    <3>4. QED BY <2>7, <3>1, <3>2, <3>3, MovesTypes DEF Reread
  <2>8. ASSUME NEW r \in Callers, Fails(r) PROVE ManifestTypeOK'
    <3>1. Answered(call[r], 0) \in Call /\ Answered(call[r], 0).latest = 0
      <4>1. call[r] \in Call BY DEF ManifestTypeOK
      <4>2. QED BY <4>1, AnsweredCall
    <3>2. QED BY <2>8, <3>1 DEF Fails, ManifestTypeOK
  <2>9. ASSUME NEW r \in Callers, Finish(r) PROVE ManifestTypeOK'
    <3>1. NoCall \in Call /\ NoCall.latest \in 0 .. Len(stored)
      BY DEF NoCall, Call, ManifestTypeOK
    <3>2. QED BY <2>9, <3>1, MovesTypes DEF Finish
  <2>10. CASE UNCHANGED manifestVars
    BY <2>10 DEF manifestVars, ManifestTypeOK
  <2>11. QED
    BY <2>1, <2>2, <2>3, <2>4, <2>5, <2>6, <2>7, <2>8, <2>9, <2>10, CallSteps
<1>3. QED BY <1>1, <1>2, PTL DEF ManifestSpec

(***************************************************************************)
(* The lineage: a parent in the table that nobody has claimed is the last  *)
(* manifest, since all the others have been.                               *)
(***************************************************************************)
\* saveStableManifest: what a publication does to the table.
LEMMA PublishStores ==
  ASSUME ManifestTypeOK, NEW r \in Callers, Publish(r)
  PROVE  \/ UNCHANGED stored
         \/ /\ unclaimed(call[r].latest)
            /\ stored' = Append(stored, [generatedAt |-> call[r].now,
                                         versions |-> highest(call[r].found),
                                         parent |-> call[r].latest])
BY DEF Publish

\* Nothing but a publication touches the table.
LEMMA OnlyPublishStores ==
  ASSUME [ManifestNext]_manifestVars, ~ \E r \in Callers : Publish(r)
  PROVE  UNCHANGED stored
<1>1. CASE World
  BY <1>1 DEF World, Tick, promoteVersion, quarantineVersion
<1>2. CASE UNCHANGED manifestVars
  BY <1>2 DEF manifestVars
<1>3. ASSUME NEW r \in Callers, Start(r) PROVE UNCHANGED stored
  BY <1>3 DEF Start
<1>4. ASSUME NEW r \in Callers, ReadLatest(r) \/ Recheck(r) \/ Scan(r) PROVE UNCHANGED stored
  BY <1>4 DEF ReadLatest, Recheck, Scan
<1>5. ASSUME NEW r \in Callers, Reread(r) \/ Fails(r) \/ Finish(r) PROVE UNCHANGED stored
  BY <1>5 DEF Reread, Fails, Finish
<1>6. QED BY <1>1, <1>2, <1>3, <1>4, <1>5, CallSteps

\* A continued table: what was in it stays, what is new is its last.
LEMMA Appended ==
  ASSUME stored \in Seq(Manifest), NEW m, stored' = Append(stored, m)
  PROVE  /\ Len(stored) \in Nat /\ DOMAIN stored = 1 .. Len(stored)
         /\ DOMAIN stored' = 1 .. Len(stored) + 1
         /\ \A n \in 1 .. Len(stored) : stored'[n] = stored[n]
         /\ stored'[Len(stored) + 1] = m
OBVIOUS

\* stable_manifests_lineage_parent_idx: whatever the clocks and the overlap of
\* calls, the manifests are a chain without forks.
THEOREM LineageHolds == ManifestSpec => []Lineage
<1>1. ManifestInit => Lineage
  BY DEF ManifestInit, Lineage
<1>2. ManifestTypeOK /\ Lineage /\ [ManifestNext]_manifestVars => Lineage'
  <2> SUFFICES ASSUME ManifestTypeOK, Lineage, [ManifestNext]_manifestVars PROVE Lineage'
    OBVIOUS
  <2>1. CASE UNCHANGED stored
    BY <2>1 DEF Lineage
  <2>2. ASSUME NEW r \in Callers, unclaimed(call[r].latest),
               stored' = Append(stored, [generatedAt |-> call[r].now,
                                         versions |-> highest(call[r].found),
                                         parent |-> call[r].latest])
        PROVE  Lineage'
    <3> DEFINE p == call[r].latest
    <3>1. stored \in Seq(Manifest) /\ p \in 0 .. Len(stored)
      BY DEF ManifestTypeOK
    <3>2. /\ Len(stored) \in Nat /\ DOMAIN stored = 1 .. Len(stored)
          /\ DOMAIN stored' = 1 .. Len(stored) + 1
          /\ \A n \in 1 .. Len(stored) : stored'[n] = stored[n]
          /\ stored'[Len(stored) + 1].parent = p
      BY <2>2, <3>1, Appended
    <3>3. p = Len(stored)
      <4>1. SUFFICES ASSUME p # Len(stored) PROVE FALSE
        OBVIOUS
      <4>2. p + 1 \in DOMAIN stored /\ (p + 1) - 1 = p
        BY <3>1, <3>2, <4>1
      <4>3. stored[p + 1].parent = p
        BY <4>2 DEF Lineage
      <4>4. QED BY <2>2, <4>2, <4>3 DEF unclaimed
    <3>4. QED BY <3>2, <3>3 DEF Lineage
  <2>3. QED BY <2>1, <2>2, PublishStores, OnlyPublishStores
<1>3. QED BY <1>1, <1>2, ManifestTypes, PTL DEF ManifestSpec

(***************************************************************************)
(* What is signed.  A version that is quarantined stays so, and one that   *)
(* is looked up as stable is not a candidate again.                        *)
(***************************************************************************)
\* What was barred is quarantined still, what was found has been released, and
\* the manifest a call rechecks is one.
Lookups ==
  \A r \in Callers :
    /\ \A v \in barred[r] : status[v] = "Quarantined"
    /\ \A v \in call[r].found : status[v] # "Candidate"
    /\ call[r].at = "recheck" => call[r].latest \in DOMAIN stored

SignedInv == ManifestTypeOK /\ Lookups /\ SignedRechecked /\ LineageOfReleases

\* What one call has read, and what that means for the state of the registry.
LookedUp(r) ==
  /\ \A v \in barred[r] : status[v] = "Quarantined"
  /\ \A v \in call[r].found : status[v] # "Candidate"
  /\ call[r].found \cap barred[r] = {}
  /\ call[r].at = "recheck" =>
       /\ call[r].latest \in DOMAIN stored
       /\ stored[call[r].latest].versions \cap barred[r] \subseteq call[r].todo

\* The two invariants of the look-ups, call by call.
LEMMA LookedUpAll ==
  Lookups /\ SignedRechecked <=> \A r \in Callers : LookedUp(r)
BY DEF Lookups, SignedRechecked, LookedUp

\* The step of a call leaves what the others have read.
LEMMA OthersLookedUp ==
  ASSUME ManifestTypeOK, NEW r \in Callers, NEW s \in Callers \ {r}, LookedUp(s),
         UNCHANGED <<status, barred>>, call'[s] = call[s],
         UNCHANGED stored \/ \E m : stored' = Append(stored, m)
  PROVE  LookedUp(s)'
<1>1. CASE UNCHANGED stored
  BY <1>1 DEF LookedUp
<1>2. ASSUME NEW m, stored' = Append(stored, m) PROVE LookedUp(s)'
  <2>1. \A n \in DOMAIN stored : n \in DOMAIN stored' /\ stored'[n] = stored[n]
    <3>1. stored \in Seq(Manifest) BY DEF ManifestTypeOK
    <3>2. QED BY <1>2, <3>1, Appended
  <2>2. QED BY <2>1 DEF LookedUp
<1>3. QED BY <1>1, <1>2

\* A step that makes of the call one whose reading is right.
LEMMA MovesLookedUp ==
  ASSUME ManifestTypeOK, \A r \in Callers : LookedUp(r),
         NEW r \in Callers, NEW new, Moves(r, new), UNCHANGED stored,
         \A v \in new.found : status[v] # "Candidate",
         new.found \cap barred[r] = {},
         new.at = "recheck" =>
           /\ new.latest \in DOMAIN stored
           /\ stored[new.latest].versions \cap barred[r] \subseteq new.todo
  PROVE  \A s \in Callers : LookedUp(s)'
<1>1. call'[r] = new /\ \A s \in Callers \ {r} : call'[s] = call[s]
  BY DEF Moves, ManifestTypeOK
<1>2. LookedUp(r)'
  BY <1>1 DEF LookedUp, Moves
<1>3. ASSUME NEW s \in Callers \ {r} PROVE LookedUp(s)'
  BY <1>1, <1>3, OthersLookedUp DEF Moves
<1>4. QED BY <1>2, <1>3

\* The registry releases and quarantines; it takes nothing back.
LEMMA WorldLookedUp ==
  ASSUME ManifestTypeOK, \A r \in Callers : LookedUp(r), World
  PROVE  /\ \A s \in Callers : LookedUp(s)'
         /\ UNCHANGED stored
         /\ \A v \in Versions : status[v] # "Candidate" => status'[v] # "Candidate"
<1>1. /\ UNCHANGED <<stored, call, barred>>
      /\ \A v \in Versions : /\ status[v] # "Candidate" => status'[v] # "Candidate"
                             /\ status[v] = "Quarantined" => status'[v] = "Quarantined"
  BY DEF World, Tick, promoteVersion, quarantineVersion, ManifestTypeOK
<1>2. \A r \in Callers : barred[r] \subseteq Versions /\ call[r].found \subseteq Versions
  BY DEF ManifestTypeOK, Call
<1>3. QED BY <1>1, <1>2 DEF LookedUp

\* What a call reads in one step.
LEMMA StepsLookedUp ==
  ASSUME ManifestTypeOK, \A r \in Callers : LookedUp(r), [ManifestNext]_manifestVars
  PROVE  \A s \in Callers : LookedUp(s)'
<1>1. CASE World
  BY <1>1, WorldLookedUp
<1>2. ASSUME NEW r \in Callers, Start(r) PROVE \A s \in Callers : LookedUp(s)'
  <2>1. /\ UNCHANGED <<status, stored>>
        /\ call'[r].found = {} /\ call'[r].at = "started"
        /\ barred'[r] = {v \in Versions : status[v] = "Quarantined"}
        /\ \A s \in Callers \ {r} : call'[s] = call[s] /\ barred'[s] = barred[s]
    BY <1>2 DEF Start, NoCall, ManifestTypeOK
  <2>2. QED BY <2>1 DEF LookedUp
<1>3. ASSUME NEW r \in Callers, ReadLatest(r) PROVE \A s \in Callers : LookedUp(s)'
  <2>1. PICK m \in 0 .. Len(stored) :
          LET c == [call[r] EXCEPT !.latest = m] IN
          Moves(r, IF m # 0 /\ expiresAt(m) > c.now
                   THEN [c EXCEPT !.at = "recheck", !.todo = stored[m].versions]
                   ELSE Scanning(c))
    BY <1>3 DEF ReadLatest
  <2> DEFINE c == [call[r] EXCEPT !.latest = m]
  <2>2. c \in Call /\ c.latest = m /\ c.found = call[r].found
    <3>1. call[r] \in Call /\ m \in Nat BY DEF ManifestTypeOK
    <3>2. QED BY <3>1, ReadCall
  <2>3. CASE m # 0 /\ expiresAt(m) > c.now
    <3> DEFINE new == [c EXCEPT !.at = "recheck", !.todo = stored[m].versions]
    <3>1. /\ new.found = call[r].found /\ new.latest = m
          /\ new.todo = stored[m].versions /\ m \in DOMAIN stored
      BY <2>2, <2>3 DEF Call, ManifestTypeOK
    <3>2. Moves(r, new) /\ UNCHANGED stored
      BY <1>3, <2>1, <2>3 DEF ReadLatest
    <3>3. LookedUp(r) OBVIOUS
    <3> HIDE DEF new
    <3>4. QED BY <3>1, <3>2, <3>3, MovesLookedUp DEF LookedUp
  <2>4. CASE ~ (m # 0 /\ expiresAt(m) > c.now)
    <3>1. Scanning(c).found = {} /\ Scanning(c).at = "scan"
      BY <2>2 DEF Scanning, Call
    <3>2. Moves(r, Scanning(c)) /\ UNCHANGED stored
      BY <1>3, <2>1, <2>4 DEF ReadLatest
    <3>3. QED BY <3>1, <3>2, MovesLookedUp
  <2>5. QED BY <2>3, <2>4
<1>4. ASSUME NEW r \in Callers, Recheck(r) PROVE \A s \in Callers : LookedUp(s)'
  <2> DEFINE c == call[r]
  <2>1. c \in Call /\ LookedUp(r) /\ c.at = "recheck" /\ UNCHANGED stored
    BY <1>4 DEF ManifestTypeOK, Recheck
  <2>2. CASE c.todo = {} /\ Moves(r, Answered(c, c.latest))
    <3>1. Answered(c, c.latest).found = {} /\ Answered(c, c.latest).at = "answered"
      BY <2>1 DEF Answered, Call
    <3>2. QED BY <2>1, <2>2, <3>1, MovesLookedUp
  <2>3. ASSUME NEW v \in c.todo, status[v] = "Stable", Moves(r, [c EXCEPT !.todo = @ \ {v}])
        PROVE  \A s \in Callers : LookedUp(s)'
    <3> DEFINE new == [c EXCEPT !.todo = @ \ {v}]
    <3>1. /\ new.found = c.found /\ new.latest = c.latest /\ new.todo = c.todo \ {v}
          /\ new.at = "recheck"
      BY <2>1 DEF Call
    <3>2. v \notin barred[r]
      BY <2>1, <2>3 DEF LookedUp
    <3>3. stored[c.latest].versions \cap barred[r] \subseteq c.todo \ {v}
      BY <2>1, <3>2 DEF LookedUp
    <3> HIDE DEF new
    <3>4. QED BY <2>1, <2>3, <3>1, <3>3, MovesLookedUp DEF LookedUp, new
  <2>4. CASE Moves(r, Scanning(c))
    <3>1. Scanning(c).found = {} /\ Scanning(c).at = "scan"
      BY <2>1 DEF Scanning, Call
    <3>2. QED BY <2>1, <2>4, <3>1, MovesLookedUp
  <2>5. QED BY <1>4, <2>2, <2>3, <2>4 DEF Recheck
<1>5. ASSUME NEW r \in Callers, Scan(r) PROVE \A s \in Callers : LookedUp(s)'
  <2> DEFINE c == call[r]
  <2> DEFINE next(v) == [c EXCEPT !.todo = @ \ {v},
                                  !.found = IF status[v] = "Stable" THEN @ \cup {v} ELSE @]
  <2>1. c \in Call /\ LookedUp(r) /\ c.at = "scan" /\ UNCHANGED stored
    BY <1>5 DEF ManifestTypeOK, Scan
  <2>2. PICK v \in c.todo : Moves(r, next(v))
    BY <1>5 DEF Scan
  <2>3. /\ next(v).at = "scan"
        /\ next(v).found = IF status[v] = "Stable" THEN c.found \cup {v} ELSE c.found
    BY <2>1 DEF Call
  <2>4. status[v] = "Stable" => v \notin barred[r] /\ status[v] # "Candidate"
    BY <2>1 DEF LookedUp
  <2>5. /\ \A u \in next(v).found : status[u] # "Candidate"
        /\ next(v).found \cap barred[r] = {}
    BY <2>1, <2>3, <2>4 DEF LookedUp
  <2> HIDE DEF next
  <2>6. QED BY <2>1, <2>2, <2>3, <2>5, MovesLookedUp
<1>6. ASSUME NEW r \in Callers, Publish(r) PROVE \A s \in Callers : LookedUp(s)'
  <2> DEFINE c == call[r]
  <2>1. c \in Call /\ LookedUp(r)
    BY DEF ManifestTypeOK
  <2>2. CASE unclaimed(c.latest)
    <3>1. /\ UNCHANGED <<status, barred>>
          /\ \E m : stored' = Append(stored, m)
          /\ call' = [call EXCEPT ![r] = Answered(c, Len(stored) + 1)]
      BY <1>6, <2>2 DEF Publish, Moves
    <3>2. /\ Answered(c, Len(stored) + 1).found = {}
          /\ Answered(c, Len(stored) + 1).at = "answered"
      BY <2>1 DEF Answered, Call
    <3>3. /\ call'[r].found = {} /\ call'[r].at = "answered"
          /\ \A s \in Callers \ {r} : call'[s] = call[s]
      BY <3>1, <3>2 DEF ManifestTypeOK
    <3>4. LookedUp(r)'
      BY <2>1, <3>1, <3>3 DEF LookedUp
    <3>5. ASSUME NEW s \in Callers \ {r} PROVE LookedUp(s)'
      BY <3>1, <3>3, <3>5, OthersLookedUp
    <3>6. QED BY <3>4, <3>5
  <2>3. CASE ~ unclaimed(c.latest)
    <3> DEFINE new == [c EXCEPT !.at = "conflict"]
    <3>1. new.found = c.found /\ new.at = "conflict"
      BY <2>1 DEF Call
    <3>2. Moves(r, new) /\ UNCHANGED stored
      BY <1>6, <2>3 DEF Publish
    <3> HIDE DEF new
    <3>3. QED BY <2>1, <3>1, <3>2, MovesLookedUp DEF LookedUp
  <2>4. QED BY <2>2, <2>3
<1>7. ASSUME NEW r \in Callers, Reread(r) PROVE \A s \in Callers : LookedUp(s)'
  <2>1. PICK m : Moves(r, Answered(call[r], m)) /\ UNCHANGED stored
    BY <1>7 DEF Reread
  <2>2. Answered(call[r], m).found = {} /\ Answered(call[r], m).at = "answered"
    BY DEF Answered, ManifestTypeOK, Call
  <2>3. QED BY <2>1, <2>2, MovesLookedUp
<1>8. ASSUME NEW r \in Callers, Fails(r) \/ Finish(r) PROVE \A s \in Callers : LookedUp(s)'
  <2>1. /\ UNCHANGED <<status, stored, barred>>
        /\ call'[r].found = {} /\ call'[r].at # "recheck"
        /\ \A s \in Callers \ {r} : call'[s] = call[s]
    <3>1. ASSUME NEW new \in {Answered(call[r], 0), NoCall}
          PROVE  new.found = {} /\ new.at # "recheck"
      <4>1. NoCall.found = {} /\ NoCall.at # "recheck"
        BY DEF NoCall
      <4>2. call[r] \in Call
        BY DEF ManifestTypeOK
      <4>3. Answered(call[r], 0).found = {} /\ Answered(call[r], 0).at = "answered"
        BY <4>2, AnsweredCall
      <4>4. QED BY <3>1, <4>1, <4>3
    <3>2. PICK new \in {Answered(call[r], 0), NoCall} :
            call' = [call EXCEPT ![r] = new] /\ UNCHANGED <<status, stored, barred>>
      BY <1>8 DEF Fails, Finish, Moves
    <3>3. new.found = {} /\ new.at # "recheck"
      BY <3>1
    <3>4. QED BY <3>2, <3>3 DEF ManifestTypeOK
  <2>2. QED BY <2>1 DEF LookedUp
<1>9. CASE UNCHANGED manifestVars
  BY <1>9 DEF manifestVars, LookedUp
<1>10. QED
  BY <1>1, <1>2, <1>3, <1>4, <1>5, <1>6, <1>7, <1>8, <1>9, CallSteps

\* What the table and the registry agree on.
LEMMA ReleasesStep ==
  ASSUME SignedInv, [ManifestNext]_manifestVars
  PROVE  LineageOfReleases'
<1>1. \A v \in Versions : status[v] # "Candidate" => status'[v] # "Candidate"
  <2>1. CASE World
    BY <2>1 DEF World, Tick, promoteVersion, quarantineVersion, SignedInv, ManifestTypeOK
  <2>2. CASE UNCHANGED manifestVars
    BY <2>2 DEF manifestVars
  <2>3. ASSUME NEW r \in Callers, Start(r) \/ ReadLatest(r) \/ Recheck(r) \/ Scan(r)
        PROVE  UNCHANGED status
    BY <2>3 DEF Start, ReadLatest, Recheck, Scan, Moves
  <2>4. ASSUME NEW r \in Callers, Publish(r) PROVE UNCHANGED status
    BY <2>4 DEF Publish, Moves
  <2>5. ASSUME NEW r \in Callers, Reread(r) \/ Fails(r) \/ Finish(r) PROVE UNCHANGED status
    BY <2>5 DEF Reread, Fails, Finish, Moves
  <2>6. QED BY <2>1, <2>2, <2>3, <2>4, <2>5, CallSteps
<1>2. \A m \in DOMAIN stored : stored[m].versions \subseteq Versions
  <2>1. \A m \in DOMAIN stored : stored[m] \in Manifest
    BY DEF SignedInv, ManifestTypeOK
  <2>2. QED BY <2>1 DEF Manifest
<1>3. CASE UNCHANGED stored
  BY <1>1, <1>2, <1>3 DEF SignedInv, LineageOfReleases
<1>4. ASSUME NEW r \in Callers,
             stored' = Append(stored, [generatedAt |-> call[r].now,
                                       versions |-> highest(call[r].found),
                                       parent |-> call[r].latest])
      PROVE  LineageOfReleases'
  <2> DEFINE f == call[r].found
  <2>1. stored \in Seq(Manifest) /\ f \subseteq Versions
    BY DEF SignedInv, ManifestTypeOK, Call
  <2>2. /\ Len(stored) \in Nat /\ DOMAIN stored = 1 .. Len(stored)
        /\ DOMAIN stored' = 1 .. Len(stored) + 1
        /\ \A n \in 1 .. Len(stored) : stored'[n] = stored[n]
        /\ stored'[Len(stored) + 1].versions = highest(f)
    BY <1>4, <2>1, Appended
  <2>3. \A v \in highest(f) : v \in Versions /\ status'[v] # "Candidate"
    BY <1>1, <2>1 DEF highest, SignedInv, Lookups
  <2>4. ASSUME NEW u \in highest(f), NEW v \in highest(f), u[1] = v[1] PROVE u = v
    <3>1. u \in Defenses \X Numbers /\ v \in Defenses \X Numbers
      BY <2>1 DEF highest, Versions
    <3>2. u[2] \in Nat /\ v[2] \in Nat /\ u[2] <= v[2] /\ v[2] <= u[2]
      BY <2>4, <3>1, ManifestAssumption DEF highest
    <3>3. u[2] = v[2]
      BY <3>2
    <3>4. QED BY <2>4, <3>1, <3>3
  <2>5. ASSUME NEW m \in DOMAIN stored'
        PROVE  /\ \A v \in stored'[m].versions : status'[v] # "Candidate"
               /\ \A u, v \in stored'[m].versions : u[1] = v[1] => u = v
    <3>1. CASE m = Len(stored) + 1
      BY <2>2, <2>3, <2>4, <3>1
    <3>2. CASE m \in 1 .. Len(stored)
      BY <1>1, <1>2, <2>2, <3>2 DEF SignedInv, LineageOfReleases
    <3>3. QED BY <2>2, <2>5, <3>1, <3>2
  <2>6. QED BY <2>5 DEF LineageOfReleases
<1>5. QED BY <1>3, <1>4, PublishStores, OnlyPublishStores DEF SignedInv

\* The inductive invariant of what is signed.
LEMMA SignedInvHolds == ManifestSpec => []SignedInv
<1>1. ManifestInit => Lookups /\ SignedRechecked /\ LineageOfReleases
  BY DEF ManifestInit, NoCall, Lookups, SignedRechecked, LineageOfReleases
<1>2. /\ ManifestTypeOK /\ ManifestTypeOK'
      /\ Lookups /\ SignedRechecked /\ LineageOfReleases /\ [ManifestNext]_manifestVars
      => (Lookups /\ SignedRechecked /\ LineageOfReleases)'
  BY StepsLookedUp, ReleasesStep, LookedUpAll DEF SignedInv, Lookups, SignedRechecked, LookedUp
<1>3. QED BY <1>1, <1>2, ManifestTypes, PTL DEF ManifestSpec, SignedInv

\* ADR 0013: what was quarantined when a request came in is in nothing that is
\* signed for it.
THEOREM QuarantinedIsNotSigned == ManifestSpec => []SignedRechecked
<1>1. SignedInv => SignedRechecked BY DEF SignedInv
<1>2. QED BY <1>1, SignedInvHolds, PTL

\* Every manifest of the table is made of releases, one of every defense.
THEOREM ManifestsAreOfReleases == ManifestSpec => []LineageOfReleases
<1>1. SignedInv => LineageOfReleases BY DEF SignedInv
<1>2. QED BY <1>1, SignedInvHolds, PTL

(***************************************************************************)
(* The composition.                                                        *)
(***************************************************************************)
\* To the publisher a client is a caller.
LEMMA ClientsAreCallers ==
  ASSUME [SyncNext]_syncVars
  PROVE  [ManifestNext]_manifestVars
<1>1. CASE World \/ \E r \in Callers : Advance(r) \/ Fails(r)
  BY <1>1 DEF ManifestNext
<1>2. ASSUME NEW r \in Callers, Start(r) \/ Finish(r) PROVE ManifestNext
  BY <1>2 DEF ManifestNext
<1>3. ASSUME NEW c \in Clients,
             ClientStep(c) \/ SyncFails(c) \/ SaveFails(c) \/ Crash(c)
      PROVE  Finish(c) \/ UNCHANGED manifestVars
  BY <1>3 DEF ClientStep, Receive, VerifyVersion, Unchanged, Save, Activate,
              SyncFails, SaveFails, Crash, Misfortune
<1>4. CASE UNCHANGED syncVars
  BY <1>4 DEF syncVars
<1>5. ASSUME NEW c \in Clients, BeginSync(c) PROVE Start(c)
  BY <1>5 DEF BeginSync
<1>6. QED
  BY <1>1, <1>2, <1>3, <1>4, <1>5, SyncAssumption DEF SyncNext, Others

\* Whatever the clients do, the publisher is the one of StableManifests: its
\* lineage and all else that is proved of it hold here.
THEOREM SyncImplementsManifests == SyncSpec => ManifestSpec
<1>1. SyncInit => ManifestInit
  BY DEF SyncInit
<1>2. [SyncNext]_syncVars => [ManifestNext]_manifestVars
  BY ClientsAreCallers
<1>3. QED BY <1>1, <1>2, PTL DEF SyncSpec, ManifestSpec

\* A manifest that is stored stays where and what it is.
LEMMA StoredStays ==
  ASSUME ManifestTypeOK, [ManifestNext]_manifestVars
  PROVE  /\ \A m \in DOMAIN stored : m \in DOMAIN stored' /\ stored'[m] = stored[m]
         /\ Len(stored) \in Nat /\ Len(stored') \in Nat /\ Len(stored) <= Len(stored')
         /\ DOMAIN stored = 1 .. Len(stored) /\ DOMAIN stored' = 1 .. Len(stored')
<1>1. stored \in Seq(Manifest)
  BY DEF ManifestTypeOK
<1>2. CASE UNCHANGED stored
  BY <1>1, <1>2
<1>3. ASSUME NEW m, stored' = Append(stored, m)
      PROVE  /\ \A n \in DOMAIN stored : n \in DOMAIN stored' /\ stored'[n] = stored[n]
             /\ Len(stored) \in Nat /\ Len(stored') = Len(stored) + 1
             /\ DOMAIN stored = 1 .. Len(stored) /\ DOMAIN stored' = 1 .. Len(stored) + 1
  BY <1>1, <1>3
<1>4. UNCHANGED stored \/ \E m : stored' = Append(stored, m)
  BY PublishStores, OnlyPublishStores
<1>5. CASE \E m : stored' = Append(stored, m)
  <2>1. /\ Len(stored) \in Nat /\ Len(stored') = Len(stored) + 1
        /\ \A n \in DOMAIN stored : n \in DOMAIN stored' /\ stored'[n] = stored[n]
        /\ DOMAIN stored = 1 .. Len(stored) /\ DOMAIN stored' = 1 .. Len(stored) + 1
    BY <1>3, <1>5
  <2>2. QED BY <2>1
<1>6. QED BY <1>2, <1>4, <1>5

(***************************************************************************)
(* Types.                                                                  *)
(***************************************************************************)
\* The end of a failed sync.
LEMMA FallsBackTypes ==
  ASSUME SyncTypeOK, NEW c \in Clients, NEW k \in 0 .. Len(stored), FallsBack(c, k)
  PROVE  /\ active' \in [Clients -> SUBSET Versions]
         /\ sync' = [sync EXCEPT ![c] = Idle] /\ sync' \in [Clients -> Sync]
         /\ outcome' \in [Clients -> Outcomes]
<1>1. entries(k) \subseteq Versions
  <2>1. k # 0 => stored[k] \in Manifest
    BY DEF SyncTypeOK, ManifestTypeOK
  <2>2. QED BY <2>1 DEF entries, Manifest
<1>2. Idle \in Sync
  BY DEF Idle, Sync
<1>3. QED BY <1>1, <1>2 DEF FallsBack, SyncTypeOK, ClientTypeOK, Outcomes

\* The steps of a client keep its types.
LEMMA ClientStepTypes ==
  ASSUME SyncTypeOK, NEW c \in Clients,
         \/ BeginSync(c) \/ ClientStep(c)
         \/ SyncFails(c) \/ SaveFails(c) \/ Crash(c)
  PROVE  ClientTypeOK'
<1> DEFINE k == cache[c].current
<1> DEFINE m == sync[c].manifest
<1>1. /\ sync[c] \in Sync /\ k \in 0 .. Len(stored) /\ stored \in Seq(Manifest)
      /\ cache[c] \in [current : 0 .. Len(stored), previous : 0 .. Len(stored)]
      /\ misfortunes \in Nat /\ misfortunes + 1 \in Nat
  BY DEF SyncTypeOK, ManifestTypeOK, ClientTypeOK
<1>2. Idle \in Sync /\ Idle.at = "idle"
  BY DEF Idle, Sync
<1>3. \A n \in DOMAIN stored : n \in 0 .. Len(stored) /\ stored[n].versions \subseteq Versions
  <2>1. \A n \in DOMAIN stored : n \in 0 .. Len(stored) /\ stored[n] \in Manifest
    BY <1>1
  <2>2. QED BY <2>1 DEF Manifest
<1>4. CASE BeginSync(c)
  <2>1. [sync[c] EXCEPT !.at = "fetching"] \in Sync /\ [sync[c] EXCEPT !.at = "fetching"].at = "fetching"
    BY <1>1 DEF Sync
  <2>2. /\ sync' = [sync EXCEPT ![c] = [sync[c] EXCEPT !.at = "fetching"]]
        /\ UNCHANGED <<stored, cache, active, misfortunes>>
        /\ outcome' = [outcome EXCEPT ![c] = "none"] /\ rejected' = [rejected EXCEPT ![c] = {}]
    BY <1>4 DEF BeginSync, Start
  <2>3. QED BY <2>1, <2>2 DEF SyncTypeOK, ClientTypeOK, Outcomes
<1>5. CASE Receive(c)
  <2> DEFINE n == call[c].latest
  <2> DEFINE next == [at |-> "verifying", manifest |-> n, todo |-> toVerify(k, n)]
  <2>1. UNCHANGED <<stored, cache, rejected, misfortunes>>
    BY <1>5 DEF Receive, Finish
  <2>2. CASE FallsBack(c, k)
    <3>1. QED BY <1>1, <1>2, <2>1, <2>2, FallsBackTypes DEF SyncTypeOK, ClientTypeOK
  <2>3. CASE /\ n # 0 /\ sync' = [sync EXCEPT ![c] = next]
             /\ UNCHANGED <<active, outcome>>
    <3>1. n \in DOMAIN stored /\ n \in Nat
      BY <1>1, <2>3, SyncAssumption DEF SyncTypeOK, ManifestTypeOK
    <3>2. next \in Sync /\ next.at = "verifying" /\ next.manifest = n
      BY <1>3, <3>1 DEF Sync, toVerify
    <3> HIDE DEF next
    <3>3. QED BY <2>1, <2>3, <3>1, <3>2 DEF SyncTypeOK, ClientTypeOK
  <2>4. QED BY <1>5, <2>2, <2>3 DEF Receive
<1>6. CASE VerifyVersion(c)
  <2>1. UNCHANGED <<stored, cache, misfortunes>> /\ sync[c].at = "verifying"
    BY <1>6 DEF VerifyVersion, manifestVars
  <2>2. m \in DOMAIN stored
    BY <2>1 DEF SyncTypeOK, ClientTypeOK
  <2>3. ASSUME NEW v \in sync[c].todo, sync' = [sync EXCEPT ![c].todo = @ \ {v}],
               UNCHANGED <<active, outcome, rejected>>
        PROVE  ClientTypeOK'
    <3>1. /\ [sync[c] EXCEPT !.todo = @ \ {v}] \in Sync
          /\ [sync[c] EXCEPT !.todo = @ \ {v}].at = "verifying"
          /\ [sync[c] EXCEPT !.todo = @ \ {v}].manifest = m
      BY <1>1, <2>1 DEF Sync
    <3>2. QED BY <2>1, <2>2, <2>3, <3>1 DEF SyncTypeOK, ClientTypeOK
  <2>4. ASSUME NEW v \in sync[c].todo, FallsBack(c, k), rejected' = [rejected EXCEPT ![c] = @ \cup {v}]
        PROVE  ClientTypeOK'
    <3>1. v \in Versions
      BY <1>1 DEF Sync
    <3>2. rejected' \in [Clients -> SUBSET Versions]
      BY <2>4, <3>1 DEF SyncTypeOK, ClientTypeOK
    <3>3. QED BY <1>1, <1>2, <2>1, <2>4, <3>2, FallsBackTypes DEF SyncTypeOK, ClientTypeOK
  <2>5. QED BY <1>6, <2>3, <2>4 DEF VerifyVersion
<1>7. CASE Unchanged(c) \/ Activate(c)
  <2>1. /\ UNCHANGED <<stored, cache, rejected, misfortunes>>
        /\ sync[c].at \in {"verifying", "saved"}
        /\ sync' = [sync EXCEPT ![c] = Idle]
        /\ active' = [active EXCEPT ![c] = entries(m)]
        /\ \E o \in Outcomes : outcome' = [outcome EXCEPT ![c] = o]
    BY <1>7 DEF Unchanged, Activate, Verified, manifestVars, Outcomes
  <2>2. m \in DOMAIN stored /\ entries(m) \subseteq Versions
    BY <1>3, <2>1 DEF SyncTypeOK, ClientTypeOK, entries
  <2>3. QED BY <1>2, <2>1, <2>2 DEF SyncTypeOK, ClientTypeOK
<1>8. CASE Save(c)
  <2>1. UNCHANGED <<stored, rejected, misfortunes>> /\ m \in DOMAIN stored
    BY <1>8 DEF Save, Verified, manifestVars, SyncTypeOK, ClientTypeOK
  <2>2. CASE FallsBack(c, k) /\ UNCHANGED cache
    BY <1>1, <1>2, <2>1, <2>2, FallsBackTypes DEF SyncTypeOK, ClientTypeOK
  <2>3. CASE /\ cache' = [cache EXCEPT ![c] = nextCache(k, m)]
             /\ sync' = [sync EXCEPT ![c].at = "saved"]
             /\ UNCHANGED <<active, outcome>>
    <3>1. /\ [sync[c] EXCEPT !.at = "saved"] \in Sync
          /\ [sync[c] EXCEPT !.at = "saved"].at = "saved"
          /\ [sync[c] EXCEPT !.at = "saved"].manifest = m
      BY <1>1 DEF Sync
    <3>2. /\ nextCache(k, m) \in [current : 0 .. Len(stored), previous : 0 .. Len(stored)]
          /\ nextCache(k, m).current = m
      BY <1>1, <1>3, <2>1 DEF nextCache
    <3>3. QED BY <2>1, <2>3, <3>1, <3>2 DEF SyncTypeOK, ClientTypeOK
  <2>4. QED BY <1>8, <2>2, <2>3 DEF Save
<1>9. CASE SyncFails(c)
  <2>1. UNCHANGED <<stored, cache, rejected>> /\ misfortunes' = misfortunes + 1 /\ FallsBack(c, k)
    BY <1>9 DEF SyncFails, Misfortune, manifestVars
  <2>2. QED BY <1>1, <1>2, <2>1, FallsBackTypes DEF SyncTypeOK, ClientTypeOK
<1>10. CASE SaveFails(c)
  <2>1. /\ UNCHANGED <<stored, rejected>> /\ misfortunes' = misfortunes + 1
        /\ m \in DOMAIN stored
        /\ cache' = [cache EXCEPT ![c] = nextCache(k, m)] /\ FallsBack(c, nextCache(k, m).current)
    BY <1>10 DEF SaveFails, Misfortune, manifestVars, Verified, SyncTypeOK, ClientTypeOK
  <2>2. /\ nextCache(k, m) \in [current : 0 .. Len(stored), previous : 0 .. Len(stored)]
        /\ nextCache(k, m).current \in 0 .. Len(stored)
    BY <1>1, <1>3, <2>1 DEF nextCache
  <2>3. QED BY <1>1, <1>2, <2>1, <2>2, FallsBackTypes DEF SyncTypeOK, ClientTypeOK
<1>11. CASE Crash(c)
  <2>1. /\ UNCHANGED stored /\ misfortunes' = misfortunes + 1
        /\ sync' = [sync EXCEPT ![c] = Idle] /\ active' = [active EXCEPT ![c] = {}]
        /\ outcome' = [outcome EXCEPT ![c] = "none"] /\ rejected' = [rejected EXCEPT ![c] = {}]
        /\ cache' \in {cache, [cache EXCEPT ![c] = NoCache]}
    BY <1>11 DEF Crash, Misfortune, manifestVars
  <2>2. NoCache \in [current : 0 .. Len(stored), previous : 0 .. Len(stored)]
    BY <1>1 DEF NoCache
  <2>3. QED BY <1>1, <1>2, <2>1, <2>2 DEF SyncTypeOK, ClientTypeOK, Outcomes
<1>12. QED
  BY <1>4, <1>5, <1>6, <1>7, <1>8, <1>9, <1>10, <1>11 DEF ClientStep

\* Nothing but its own step changes what is a client's.
LEMMA SyncSteps ==
  ASSUME ManifestTypeOK, [SyncNext]_syncVars
  PROVE  \/ UNCHANGED clientVars /\ \A c \in Clients : barred'[c] = barred[c]
         \/ \E c \in Clients : \/ BeginSync(c) \/ ClientStep(c)
                               \/ SyncFails(c) \/ SaveFails(c) \/ Crash(c)
<1>1. CASE UNCHANGED syncVars
  BY <1>1 DEF syncVars, manifestVars
<1>2. ASSUME World \/ \E r \in Callers : Advance(r) \/ Fails(r)
      PROVE  UNCHANGED barred
  <2>1. CASE World
    BY <2>1 DEF World, Tick, promoteVersion, quarantineVersion
  <2>2. ASSUME NEW r, ReadLatest(r) \/ Recheck(r) \/ Scan(r) PROVE UNCHANGED barred
    BY <2>2 DEF ReadLatest, Recheck, Scan, Moves
  <2>3. ASSUME NEW r, Publish(r) \/ Reread(r) \/ Fails(r) PROVE UNCHANGED barred
    BY <2>3 DEF Publish, Reread, Fails, Moves
  <2>4. QED BY <1>2, <2>1, <2>2, <2>3 DEF Advance
<1>3. ASSUME NEW r \in Others, Start(r) PROVE \A c \in Clients : barred'[c] = barred[c]
  BY <1>3, SyncAssumption DEF Start, Others, ManifestTypeOK
<1>4. ASSUME NEW r, Finish(r) PROVE UNCHANGED barred
  BY <1>4 DEF Finish, Moves
<1>5. QED BY <1>1, <1>2, <1>3, <1>4 DEF SyncNext

\* ManifestSynchronizer: the types of the cache, the engine and the syncs, and
\* that what is saved is what was verified.
THEOREM SyncTypes == SyncSpec => []SyncTypeOK
<1>1. SyncInit => ClientTypeOK
  <2> SUFFICES ASSUME SyncInit PROVE ClientTypeOK
    OBVIOUS
  <2>1. stored = << >> /\ Len(stored) = 0 /\ Len(stored) \in Nat
    BY DEF SyncInit, ManifestInit
  <2>2. Idle \in Sync /\ Idle.at = "idle"
    BY DEF Idle, Sync
  <2>3. NoCache \in [current : 0 .. Len(stored), previous : 0 .. Len(stored)]
    BY <2>1 DEF NoCache
  <2>4. QED BY <2>2, <2>3 DEF SyncInit, ClientTypeOK, Outcomes
<1>2. ManifestTypeOK /\ ClientTypeOK /\ [SyncNext]_syncVars => ClientTypeOK'
  <2> SUFFICES ASSUME ManifestTypeOK, ClientTypeOK, [SyncNext]_syncVars PROVE ClientTypeOK'
    OBVIOUS
  <2>1. CASE UNCHANGED clientVars
    <3>1. /\ \A m \in DOMAIN stored : m \in DOMAIN stored'
          /\ 0 .. Len(stored) \subseteq 0 .. Len(stored')
      BY StoredStays, ClientsAreCallers
    <3>2. [current : 0 .. Len(stored), previous : 0 .. Len(stored)]
            \subseteq [current : 0 .. Len(stored'), previous : 0 .. Len(stored')]
      BY <3>1
    <3>3. QED BY <2>1, <3>1, <3>2 DEF clientVars, ClientTypeOK
  <2>2. ASSUME NEW c \in Clients,
               \/ BeginSync(c) \/ ClientStep(c)
               \/ SyncFails(c) \/ SaveFails(c) \/ Crash(c)
        PROVE  ClientTypeOK'
    BY <2>2, ClientStepTypes DEF SyncTypeOK
  <2>3. QED BY <2>1, <2>2, SyncSteps
<1>3. SyncSpec => []ManifestTypeOK
  BY SyncImplementsManifests, ManifestTypes, PTL
<1>4. QED BY <1>1, <1>2, <1>3, PTL DEF SyncSpec, SyncTypeOK

(***************************************************************************)
(* What a sync activates.  What was barred when it began is still barred   *)
(* when its version is looked up, so it is either rejected or still to be  *)
(* looked up: this rests on the registry alone, not on the publisher.      *)
(***************************************************************************)
\* What is barred for a client, of the manifest it verifies, is yet to verify.
Checked(c) ==
  /\ sync[c].at = "verifying" => stored[sync[c].manifest].versions \cap barred[c] \subseteq sync[c].todo
  /\ sync[c].at = "saved" => stored[sync[c].manifest].versions \cap barred[c] = {}
  /\ outcome[c] \in {"activated", "unchanged"} => active[c] \cap barred[c] = {}

\* The step of one client leaves the others.
LEMMA OthersStay ==
  ASSUME SyncTypeOK, NEW c \in Clients, NEW d \in Clients \ {c},
         \/ BeginSync(c) \/ ClientStep(c)
         \/ SyncFails(c) \/ SaveFails(c) \/ Crash(c)
  PROVE  /\ cache'[d] = cache[d] /\ active'[d] = active[d]
         /\ sync'[d] = sync[d] /\ outcome'[d] = outcome[d]
         /\ barred'[d] = barred[d]
<1>1. CASE BeginSync(c)
  BY <1>1, SyncAssumption DEF BeginSync, Start, SyncTypeOK, ManifestTypeOK, ClientTypeOK
<1>2. CASE Receive(c)
  BY <1>2 DEF Receive, Finish, Moves, FallsBack, SyncTypeOK, ClientTypeOK
<1>3. CASE VerifyVersion(c)
  BY <1>3 DEF VerifyVersion, FallsBack, manifestVars, SyncTypeOK, ClientTypeOK
<1>4. CASE Unchanged(c) \/ Activate(c)
  BY <1>4 DEF Unchanged, Activate, manifestVars, SyncTypeOK, ClientTypeOK
<1>5. CASE Save(c)
  BY <1>5 DEF Save, FallsBack, manifestVars, SyncTypeOK, ClientTypeOK
<1>6. CASE SyncFails(c) \/ SaveFails(c)
  BY <1>6 DEF SyncFails, SaveFails, FallsBack, Misfortune, manifestVars, SyncTypeOK, ClientTypeOK
<1>7. CASE Crash(c)
  BY <1>7 DEF Crash, Misfortune, manifestVars, SyncTypeOK, ClientTypeOK
<1>8. QED BY <1>1, <1>2, <1>3, <1>4, <1>5, <1>6, <1>7 DEF ClientStep

\* The table is the publisher's.
LEMMA ClientKeepsTable ==
  ASSUME NEW c, \/ BeginSync(c) \/ ClientStep(c)
                \/ SyncFails(c) \/ SaveFails(c) \/ Crash(c)
  PROVE  UNCHANGED stored
BY DEF BeginSync, Start, ClientStep, Receive, Finish, VerifyVersion, Unchanged, Save, Activate,
       SyncFails, SaveFails, Crash, Misfortune, manifestVars

\* The end of a failed sync, for its client.
LEMMA FallsBackEnds ==
  ASSUME SyncTypeOK, NEW c \in Clients, NEW k, FallsBack(c, k)
  PROVE  /\ sync'[c].at = "idle"
         /\ outcome'[c] \in {"last-known-good", "failed-open", "failed"}
         /\ FailMode = "last-known-good" =>
              active'[c] = IF k # 0 THEN entries(k) ELSE active[c]
BY DEF FallsBack, Idle, SyncTypeOK, ClientTypeOK

\* The step of a client keeps it checked.
LEMMA OwnStepChecked ==
  ASSUME SyncTypeOK, Lookups, NEW c \in Clients, Checked(c),
         \/ BeginSync(c) \/ ClientStep(c)
         \/ SyncFails(c) \/ SaveFails(c) \/ Crash(c)
  PROVE  Checked(c)'
<1> DEFINE m == sync[c].manifest
<1>1. sync[c] \in Sync /\ \A v \in barred[c] : status[v] = "Quarantined"
  BY SyncAssumption DEF SyncTypeOK, ClientTypeOK, Lookups
<1>2. CASE BeginSync(c)
  <2>1. sync'[c].at = "fetching" /\ outcome'[c] = "none"
    BY <1>1, <1>2 DEF BeginSync, SyncTypeOK, ClientTypeOK, Sync
  <2>2. QED BY <2>1 DEF Checked
<1>3. ASSUME NEW k, FallsBack(c, k) PROVE Checked(c)'
  <2>1. sync'[c].at = "idle" /\ outcome'[c] \notin {"activated", "unchanged"}
    BY <1>3, FallsBackEnds
  <2>2. QED BY <2>1 DEF Checked
<1>4. CASE Receive(c)
  <2> DEFINE n == call[c].latest
  <2>1. UNCHANGED <<stored, barred>>
    BY <1>4 DEF Receive, Finish, Moves
  <2>2. CASE /\ sync' = [sync EXCEPT ![c] = [at |-> "verifying", manifest |-> n,
                                             todo |-> toVerify(cache[c].current, n)]]
             /\ UNCHANGED <<active, outcome>>
    <3>1. sync'[c] = [at |-> "verifying", manifest |-> n, todo |-> stored[n].versions]
      BY <2>2 DEF toVerify, SyncTypeOK, ClientTypeOK
    <3>2. QED BY <2>1, <2>2, <3>1 DEF Checked
  <2>3. QED BY <1>3, <1>4, <2>2 DEF Receive
<1>5. CASE VerifyVersion(c)
  <2>1. UNCHANGED <<stored, barred>> /\ sync[c].at = "verifying"
    BY <1>5 DEF VerifyVersion, manifestVars
  <2>2. ASSUME NEW v \in sync[c].todo, status[v] = "Stable",
               sync' = [sync EXCEPT ![c].todo = @ \ {v}], UNCHANGED <<active, outcome>>
        PROVE  Checked(c)'
    <3>1. sync'[c].at = "verifying" /\ sync'[c].manifest = m /\ sync'[c].todo = sync[c].todo \ {v}
      BY <1>1, <2>1, <2>2 DEF SyncTypeOK, ClientTypeOK, Sync
    <3>2. v \notin barred[c]
      BY <1>1, <2>2
    <3>3. QED BY <2>1, <2>2, <3>1, <3>2 DEF Checked
  <2>3. QED BY <1>3, <1>5, <2>2 DEF VerifyVersion
<1>6. CASE Unchanged(c) \/ Activate(c)
  <2>1. /\ UNCHANGED <<stored, barred>> /\ sync'[c].at = "idle" /\ active'[c] = entries(m)
        /\ \/ sync[c].at = "verifying" /\ sync[c].todo = {}
           \/ sync[c].at = "saved"
    BY <1>6 DEF Unchanged, Activate, Verified, manifestVars, Idle, SyncTypeOK, ClientTypeOK
  <2>2. entries(m) \subseteq stored[m].versions
    BY DEF entries
  <2>3. QED BY <2>1, <2>2 DEF Checked
<1>7. CASE Save(c)
  <2>1. UNCHANGED <<stored, barred>> /\ sync[c].at = "verifying" /\ sync[c].todo = {}
    BY <1>7 DEF Save, Verified, manifestVars
  <2>2. CASE sync' = [sync EXCEPT ![c].at = "saved"] /\ UNCHANGED <<active, outcome>>
    <3>1. sync'[c].at = "saved" /\ sync'[c].manifest = m
      BY <1>1, <2>2 DEF SyncTypeOK, ClientTypeOK, Sync
    <3>2. QED BY <2>1, <2>2, <3>1 DEF Checked
  <2>3. QED BY <1>3, <1>7, <2>2 DEF Save
<1>8. CASE SyncFails(c) \/ SaveFails(c)
  BY <1>3, <1>8 DEF SyncFails, SaveFails
<1>9. CASE Crash(c)
  <2>1. sync'[c].at = "idle" /\ outcome'[c] = "none"
    BY <1>9 DEF Crash, Idle, SyncTypeOK, ClientTypeOK
  <2>2. QED BY <2>1 DEF Checked
<1>10. QED
  BY <1>2, <1>4, <1>5, <1>6, <1>7, <1>8, <1>9 DEF ClientStep

\* verifyVersion, ADR 0013: a sync that succeeds activates nothing that was
\* quarantined when it began, whatever was published and cached.
THEOREM SyncActivatesStable == SyncSpec => []SyncedWasStable
<1> DEFINE AllChecked == \A c \in Clients : Checked(c)
<1>1. SyncInit => AllChecked
  BY DEF SyncInit, Checked, Idle
<1>2. SyncTypeOK /\ Lookups /\ AllChecked /\ [SyncNext]_syncVars => AllChecked'
  <2> SUFFICES ASSUME SyncTypeOK, Lookups, AllChecked, [SyncNext]_syncVars,
                      NEW d \in Clients
               PROVE  Checked(d)'
    OBVIOUS
  <2>1. \A m \in DOMAIN stored : stored'[m] = stored[m]
    BY StoredStays, ClientsAreCallers DEF SyncTypeOK
  <2>2. sync[d].at \in {"verifying", "saved"} => sync[d].manifest \in DOMAIN stored
    BY DEF SyncTypeOK, ClientTypeOK
  <2>3. CASE UNCHANGED clientVars /\ \A c \in Clients : barred'[c] = barred[c]
    BY <2>1, <2>2, <2>3 DEF Checked, clientVars
  <2>4. ASSUME NEW c \in Clients,
               \/ BeginSync(c) \/ ClientStep(c)
               \/ SyncFails(c) \/ SaveFails(c) \/ Crash(c)
        PROVE  Checked(d)'
    <3>1. CASE c = d
      BY <2>4, <3>1, OwnStepChecked
    <3>2. CASE c # d
      <4>1. active'[d] = active[d] /\ sync'[d] = sync[d] /\ outcome'[d] = outcome[d] /\ barred'[d] = barred[d]
        BY <2>4, <3>2, OthersStay
      <4>2. QED BY <2>1, <2>2, <4>1 DEF Checked
    <3>3. QED BY <3>1, <3>2
  <2>5. QED BY <2>3, <2>4, SyncSteps DEF SyncTypeOK
<1>3. SyncSpec => []Lookups
  <2>1. SignedInv => Lookups BY DEF SignedInv
  <2>2. QED BY <2>1, SyncImplementsManifests, SignedInvHolds, PTL
<1>4. AllChecked => SyncedWasStable
  BY DEF Checked, SyncedWasStable
<1>5. QED BY <1>1, <1>2, <1>3, <1>4, SyncTypes, PTL DEF SyncSpec

(***************************************************************************)
(* The engine and the cache.                                               *)
(***************************************************************************)
\* A manifest in the cache has the same versions for ever.
LEMMA EntriesStay ==
  ASSUME ManifestTypeOK, [ManifestNext]_manifestVars, NEW k \in 0 .. Len(stored)
  PROVE  entries(k)' = entries(k)
<1>1. k # 0 => k \in DOMAIN stored /\ stored'[k] = stored[k]
  BY StoredStays
<1>2. QED BY <1>1 DEF entries

\* Outside the save, an engine runs on the current set or on none.
Runs(c) == sync[c].at # "saved" => active[c] \in {{}, entries(cache[c].current)}

\* The step of a client that may fall back keeps its engine and cache together.
LEMMA OwnStepRuns ==
  ASSUME SyncTypeOK, FailMode = "last-known-good", NEW c \in Clients, Runs(c),
         \/ BeginSync(c) \/ ClientStep(c)
         \/ SyncFails(c) \/ SaveFails(c) \/ Crash(c)
  PROVE  sync'[c].at # "saved" => active'[c] \in {{}, entries(cache'[c].current)}
<1> DEFINE k == cache[c].current
<1> DEFINE m == sync[c].manifest
<1>1. sync[c] \in Sync
  BY DEF SyncTypeOK, ClientTypeOK
<1>2. ASSUME FallsBack(c, k), UNCHANGED cache, sync[c].at # "saved"
      PROVE  active'[c] \in {{}, entries(cache'[c].current)}
  <2>1. active'[c] = IF k # 0 THEN entries(k) ELSE active[c]
    BY <1>2, FallsBackEnds
  <2>2. QED BY <1>2, <2>1 DEF Runs
<1>3. CASE BeginSync(c)
  BY <1>3 DEF BeginSync, Runs
<1>4. CASE Receive(c)
  BY <1>2, <1>4 DEF Receive, Runs
<1>5. CASE VerifyVersion(c)
  BY <1>2, <1>5 DEF VerifyVersion, Runs
<1>6. CASE Unchanged(c) \/ Activate(c)
  <2>1. active'[c] = entries(m) /\ UNCHANGED cache /\ m = k
    BY <1>6 DEF Unchanged, Activate, SyncTypeOK, ClientTypeOK
  <2>2. QED BY <2>1
<1>7. CASE Save(c)
  <2>1. CASE sync' = [sync EXCEPT ![c].at = "saved"]
    BY <1>1, <2>1 DEF SyncTypeOK, ClientTypeOK, Sync
  <2>2. QED BY <1>2, <1>7, <2>1 DEF Save, Verified
<1>8. CASE SyncFails(c)
  BY <1>2, <1>8 DEF SyncFails
<1>9. CASE SaveFails(c)
  <2>1. cache'[c].current = m /\ FallsBack(c, m) /\ m \in DOMAIN stored
    BY <1>9 DEF SaveFails, nextCache, Verified, SyncTypeOK, ClientTypeOK
  <2>2. m # 0
    BY <2>1 DEF SyncTypeOK, ManifestTypeOK
  <2>3. QED BY <2>1, <2>2, FallsBackEnds
<1>10. CASE Crash(c)
  BY <1>10 DEF Crash, SyncTypeOK, ClientTypeOK
<1>11. QED
  BY <1>3, <1>4, <1>5, <1>6, <1>7, <1>8, <1>9, <1>10 DEF ClientStep

\* ADR 0012: a client that may fall back runs on the current set of its cache,
\* or on none, except between the save and the activation.
THEOREM EngineFollowsCache == SyncSpec => []EngineIsCached
<1>1. SyncInit => EngineIsCached
  BY DEF SyncInit, EngineIsCached
<1>2. SyncTypeOK /\ EngineIsCached /\ [SyncNext]_syncVars => EngineIsCached'
  <2> SUFFICES ASSUME SyncTypeOK, EngineIsCached, [SyncNext]_syncVars,
                      FailMode = "last-known-good", NEW d \in Clients
               PROVE  Runs(d)'
    BY DEF EngineIsCached, Runs
  <2>1. Runs(d)
    BY DEF EngineIsCached, Runs
  <2>2. CASE UNCHANGED clientVars
    <3>1. cache[d].current \in 0 .. Len(stored)
      BY DEF SyncTypeOK, ClientTypeOK
    <3>2. ASSUME NEW k \in 0 .. Len(stored) PROVE entries(k)' = entries(k)
      BY EntriesStay, ClientsAreCallers DEF SyncTypeOK
    <3>3. entries(cache[d].current)' = entries(cache[d].current)
      <4>1. cache' = cache BY <2>2 DEF clientVars
      <4>2. QED BY <3>1, <3>2, <4>1 DEF entries
    <3>4. QED BY <2>1, <2>2, <3>3 DEF Runs, clientVars
  <2>3. ASSUME NEW c \in Clients,
               \/ BeginSync(c) \/ ClientStep(c)
               \/ SyncFails(c) \/ SaveFails(c) \/ Crash(c)
        PROVE  Runs(d)'
    <3>1. UNCHANGED stored
      BY <2>3, ClientKeepsTable
    <3>2. CASE c = d
      BY <2>1, <2>3, <3>1, <3>2, OwnStepRuns DEF Runs, entries
    <3>3. CASE c # d
      <4>1. active'[d] = active[d] /\ sync'[d] = sync[d] /\ cache'[d] = cache[d]
        BY <2>3, <3>3, OthersStay
      <4>2. QED BY <2>1, <3>1, <4>1 DEF Runs, entries
    <3>4. QED BY <3>2, <3>3
  <2>4. QED BY <2>2, <2>3, SyncSteps DEF SyncTypeOK
<1>3. QED BY <1>1, <1>2, SyncTypes, PTL DEF SyncSpec

(***************************************************************************)
(* The way of the cache along the lineage.                                 *)
(***************************************************************************)
\* A sync goes on with the cached manifest or with its successor only.
Continuing(c) == sync[c].at = "verifying" => continues(cache[c].current, sync[c].manifest)

\* The check of Receive holds until the save: the cache is the client's own.
LEMMA ContinuingStep ==
  ASSUME SyncTypeOK, [SyncNext]_syncVars, NEW d \in Clients, Continuing(d)
  PROVE  Continuing(d)'
<1> DEFINE k == cache[d].current
<1> DEFINE m == sync[d].manifest
<1>1. sync[d] \in Sync /\ k \in 0 .. Len(stored)
  BY DEF SyncTypeOK, ClientTypeOK
<1>2. ASSUME sync'[d].at = "verifying" => sync[d].at = "verifying",
             sync'[d].manifest = m, cache'[d].current = k
      PROVE  Continuing(d)'
  <2>1. \A n \in DOMAIN stored : stored'[n] = stored[n]
    BY StoredStays, ClientsAreCallers DEF SyncTypeOK
  <2>2. sync[d].at = "verifying" => m \in DOMAIN stored
    BY DEF SyncTypeOK, ClientTypeOK
  <2>3. k # 0 => k \in DOMAIN stored
    BY <1>1 DEF SyncTypeOK, ManifestTypeOK
  <2>4. QED BY <1>2, <2>1, <2>2, <2>3 DEF Continuing, continues
<1>3. CASE UNCHANGED clientVars
  BY <1>2, <1>3 DEF clientVars
<1>4. ASSUME NEW c \in Clients \ {d},
             \/ BeginSync(c) \/ ClientStep(c)
             \/ SyncFails(c) \/ SaveFails(c) \/ Crash(c)
      PROVE  Continuing(d)'
  BY <1>2, <1>4, OthersStay
<1>5. ASSUME NEW n, FallsBack(d, n) PROVE Continuing(d)'
  BY <1>5, FallsBackEnds DEF Continuing
<1>6. CASE BeginSync(d)
  <2>1. sync'[d].at = "fetching"
    BY <1>1, <1>6 DEF BeginSync, SyncTypeOK, ClientTypeOK, Sync
  <2>2. QED BY <2>1 DEF Continuing
<1>7. CASE Receive(d)
  <2> DEFINE n == call[d].latest
  <2>1. CASE /\ continues(k, n)
             /\ sync' = [sync EXCEPT ![d] = [at |-> "verifying", manifest |-> n,
                                             todo |-> toVerify(k, n)]]
    <3>1. sync'[d].manifest = n /\ UNCHANGED <<cache, stored>>
      BY <1>7, <2>1 DEF Receive, Finish, SyncTypeOK, ClientTypeOK
    <3>2. QED BY <2>1, <3>1 DEF Continuing, continues
  <2>2. QED BY <1>5, <1>7, <2>1 DEF Receive
<1>8. CASE VerifyVersion(d)
  <2>1. ASSUME NEW v \in sync[d].todo, sync' = [sync EXCEPT ![d].todo = @ \ {v}]
        PROVE  Continuing(d)'
    <3>1. sync'[d].at = sync[d].at /\ sync'[d].manifest = m /\ UNCHANGED cache
      BY <1>1, <1>8, <2>1 DEF VerifyVersion, SyncTypeOK, ClientTypeOK, Sync
    <3>2. QED BY <1>2, <3>1
  <2>2. QED BY <1>5, <1>8, <2>1 DEF VerifyVersion
<1>9. CASE Unchanged(d) \/ Activate(d) \/ Crash(d)
  <2>1. sync'[d].at = "idle"
    BY <1>9 DEF Unchanged, Activate, Crash, Idle, SyncTypeOK, ClientTypeOK
  <2>2. QED BY <2>1 DEF Continuing
<1>10. CASE Save(d)
  <2>1. CASE sync' = [sync EXCEPT ![d].at = "saved"]
    <3>1. sync'[d].at = "saved"
      BY <1>1, <2>1 DEF SyncTypeOK, ClientTypeOK, Sync
    <3>2. QED BY <3>1 DEF Continuing
  <2>2. QED BY <1>5, <1>10, <2>1 DEF Save
<1>11. CASE SyncFails(d) \/ SaveFails(d)
  BY <1>5, <1>11 DEF SyncFails, SaveFails
<1>12. QED
  BY <1>3, <1>4, <1>6, <1>7, <1>8, <1>9, <1>10, <1>11, SyncSteps DEF ClientStep, SyncTypeOK

\* The continuity and rollback checks: along whatever is published, the cached
\* manifest goes to its successor only, and to a later time.
THEOREM CacheGoesForward == SyncSpec => ForwardOnly
<1> DEFINE AllContinue == \A c \in Clients : Continuing(c)
<1> DEFINE Forward == \A c \in Clients :
      LET k == cache[c].current  m == cache'[c].current IN
      k # m /\ k # 0 /\ m # 0 =>
        stored[m].parent = k /\ stored[k].generatedAt < stored[m].generatedAt
<1>1. SyncInit => AllContinue
  BY DEF SyncInit, Continuing, Idle
<1>2. SyncTypeOK /\ AllContinue /\ [SyncNext]_syncVars => AllContinue'
  BY ContinuingStep
<1>3. SyncTypeOK /\ AllContinue /\ [SyncNext]_syncVars => [Forward]_syncVars
  <2> SUFFICES ASSUME SyncTypeOK, AllContinue, [SyncNext]_syncVars, NEW d \in Clients,
                      cache'[d].current # cache[d].current,
                      cache[d].current # 0, cache'[d].current # 0
               PROVE  /\ stored[cache'[d].current].parent = cache[d].current
                      /\ stored[cache[d].current].generatedAt < stored[cache'[d].current].generatedAt
    OBVIOUS
  <2>1. PICK c \in Clients : \/ BeginSync(c) \/ ClientStep(c)
                             \/ SyncFails(c) \/ SaveFails(c) \/ Crash(c)
    BY SyncSteps DEF clientVars, SyncTypeOK
  <2>2. c = d
    BY <2>1, OthersStay
  <2>3. /\ sync[d].at = "verifying" /\ sync[d].manifest # cache[d].current
        /\ cache'[d].current = sync[d].manifest
    <3>1. CASE Save(d) \/ SaveFails(d)
      <4>1. cache' = [cache EXCEPT ![d] = nextCache(cache[d].current, sync[d].manifest)]
        BY <3>1 DEF Save, SaveFails
      <4>2. cache'[d].current = sync[d].manifest
        BY <4>1 DEF nextCache, SyncTypeOK, ClientTypeOK
      <4>3. QED BY <3>1, <4>2 DEF Save, SaveFails, Verified
    <3>2. CASE Crash(d)
      BY <3>2 DEF Crash, NoCache, SyncTypeOK, ClientTypeOK
    <3>3. CASE BeginSync(d) \/ Receive(d) \/ VerifyVersion(d) \/ Unchanged(d)
               \/ Activate(d) \/ SyncFails(d)
      BY <3>3 DEF BeginSync, Receive, VerifyVersion, Unchanged, Activate, SyncFails
    <3>4. QED BY <2>1, <2>2, <3>1, <3>2, <3>3 DEF ClientStep
  <2>4. continues(cache[d].current, sync[d].manifest)
    BY <2>3 DEF Continuing
  <2>5. /\ stored[sync[d].manifest] \in Manifest
        /\ stored[cache[d].current] \in Manifest
    BY <2>3 DEF SyncTypeOK, ManifestTypeOK, ClientTypeOK
  <2>6. QED BY <2>3, <2>4, <2>5 DEF continues, Manifest
<1>4. QED BY <1>1, <1>2, <1>3, SyncTypes, PTL DEF SyncSpec, ForwardOnly
================================================================================
