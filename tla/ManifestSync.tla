------------------------------ MODULE ManifestSync ------------------------------
(***************************************************************************)
(* ManifestSynchronizer.performSync and the SDK's engine, over the         *)
(* publisher: a client asks for the manifest as any caller does, checks    *)
(* it, looks its versions up on Monad one by one, saves it and activates   *)
(* it.  The syncs of a client follow one another, and its cache is its own.*)
(*                                                                         *)
(* Signatures, hashes, bundles, compatibility and the shadow suite are     *)
(* taken to be in order.  The engine starts with the defenses of its       *)
(* configuration, which are no part of the model.                          *)
(***************************************************************************)
EXTENDS StableManifests

CONSTANTS
  Clients,       \* the callers that are synchronizers
  FileClients,   \* those with a FileSystemManifestCache; the others' is in memory
  FailMode,      \* "last-known-good", "closed" or "open"
  ClockSkew,     \* maxClockSkewMs
  MaxMisfortunes \* bound: crashes, and failures of what a client calls

ASSUME SyncAssumption ==
  /\ Clients \subseteq Callers /\ FileClients \subseteq Clients
  /\ FailMode \in {"last-known-good", "closed", "open"}
  /\ ClockSkew \in Nat /\ MaxMisfortunes \in Nat

VARIABLES
  cache,         \* cache[c]: ManifestCacheState, as places in the table
  active,        \* active[c]: the versions of the engine
  sync,          \* sync[c]: the await performSync is at
  outcome,       \* outcome[c]: history, how the last sync ended
  rejected,      \* rejected[c]: history, what this sync found not Stable
  misfortunes

clientVars == <<cache, active, sync, outcome, rejected, misfortunes>>
syncVars == <<manifestVars, clientVars>>

Idle == [at |-> "idle", manifest |-> 0, todo |-> {}]
NoCache == [current |-> 0, previous |-> 0]

Sync == [at : {"idle", "fetching", "verifying", "saved"},
         manifest : Nat, todo : SUBSET Versions]

Outcomes == {"none", "activated", "unchanged", "last-known-good", "failed-open", "failed"}

\* The versions of a manifest; none if there is no manifest.
entries(m) == IF m = 0 THEN {} ELSE stored[m].versions

SyncInit ==
  /\ ManifestInit
  /\ cache = [c \in Clients |-> NoCache]
  /\ active = [c \in Clients |-> {}]
  /\ sync = [c \in Clients |-> Idle]
  /\ outcome = [c \in Clients |-> "none"]
  /\ rejected = [c \in Clients |-> {}]
  /\ misfortunes = 0

\* Mutant: the handler of the failure answers without activating.
FallsBackSilently(c, k) ==
  /\ sync' = [sync EXCEPT ![c] = Idle]
  /\ outcome' = [outcome EXCEPT ![c] =
       IF FailMode = "last-known-good" /\ k # 0 THEN "last-known-good" ELSE "failed"]
  /\ UNCHANGED active

\* The catch of performSync, with manifest k in the cache: it is activated
\* after local checks only, or the engine stays as it is.
FallsBack(c, k) ==
  /\ sync' = [sync EXCEPT ![c] = Idle]
  /\ IF FailMode = "last-known-good" /\ k # 0
     THEN /\ active' = [active EXCEPT ![c] = entries(k)]
          /\ outcome' = [outcome EXCEPT ![c] = "last-known-good"]
     ELSE /\ outcome' = [outcome EXCEPT ![c] =
                           IF FailMode = "open" THEN "failed-open" ELSE "failed"]
          /\ UNCHANGED active

\* syncDefenses: the manifest is requested.
BeginSync(c) ==
  /\ sync[c].at = "idle"
  /\ Start(c)
  /\ sync' = [sync EXCEPT ![c].at = "fetching"]
  /\ outcome' = [outcome EXCEPT ![c] = "none"]
  /\ rejected' = [rejected EXCEPT ![c] = {}]
  /\ UNCHANGED <<cache, active, misfortunes>>

\* Mutant: any manifest that names the cached one is its successor.
continuesByHash(k, m) == k \in {0, m} \/ stored[m].parent = k

\* Mutant: a first manifest has to be the first of the lineage.
continuesGenesis(k, m) ==
  \/ m = k
  \/ stored[m].parent = k /\ (k # 0 => stored[m].generatedAt > stored[k].generatedAt)

\* Continuity and rollback: the cached manifest itself or its successor.
continues(k, m) ==
  \/ k \in {0, m}
  \/ stored[m].parent = k /\ stored[m].generatedAt > stored[k].generatedAt

\* Neither from the future nor expired, by the clock n of the client.
inWindow(m, n) == stored[m].generatedAt <= n + ClockSkew /\ n < expiresAt(m)

\* Mutant: an unchanged manifest has been looked up already.
toVerifyNew(k, m) == IF k = m THEN {} ELSE stored[m].versions

\* The versions whose state is read from Monad before activation.
toVerify(k, m) == stored[m].versions

\* The answer arrives (0: it failed) and its trust, window and lineage are
\* checked against the cache.
Receive(c) ==
  LET m == call[c].latest
      k == cache[c].current
  IN
  /\ sync[c].at = "fetching" /\ call[c].at = "answered"
  /\ Finish(c)
  /\ \E n \in 0 .. clock :
       /\ clock <= n + MaxSkew
       /\ IF m # 0 /\ inWindow(m, n) /\ continues(k, m)
          THEN /\ sync' = [sync EXCEPT ![c] = [at |-> "verifying", manifest |-> m,
                                               todo |-> toVerify(k, m)]]
               /\ UNCHANGED <<active, outcome>>
          ELSE FallsBack(c, k)
  /\ UNCHANGED <<cache, rejected, misfortunes>>

\* verifyVersion: the state of one version on Monad.
VerifyVersion(c) ==
  /\ sync[c].at = "verifying"
  /\ \E v \in sync[c].todo :
       IF status[v] = "Stable"
       THEN /\ sync' = [sync EXCEPT ![c].todo = @ \ {v}]
            /\ UNCHANGED <<active, outcome, rejected>>
       ELSE /\ FallsBack(c, cache[c].current)
            /\ rejected' = [rejected EXCEPT ![c] = @ \cup {v}]
  /\ UNCHANGED <<manifestVars, cache, misfortunes>>

Verified(c) == sync[c].at = "verifying" /\ sync[c].todo = {}

Unchanged(c) ==
  /\ Verified(c) /\ sync[c].manifest = cache[c].current
  /\ active' = [active EXCEPT ![c] = entries(sync[c].manifest)]
  /\ outcome' = [outcome EXCEPT ![c] = "unchanged"]
  /\ sync' = [sync EXCEPT ![c] = Idle]
  /\ UNCHANGED <<manifestVars, cache, rejected, misfortunes>>

nextCache(k, m) == [current |-> m, previous |-> k]

\* verifyState of the file cache: a set needs its predecessor beside it.
continuous(c, s) == c \in FileClients => stored[s.current].parent = s.previous

Save(c) ==
  LET k == cache[c].current
      s == nextCache(k, sync[c].manifest)
  IN
  /\ Verified(c) /\ sync[c].manifest # k
  /\ IF continuous(c, s)
     THEN /\ cache' = [cache EXCEPT ![c] = s]
          /\ sync' = [sync EXCEPT ![c].at = "saved"]
          /\ UNCHANGED <<active, outcome>>
     ELSE FallsBack(c, k) /\ UNCHANGED cache
  /\ UNCHANGED <<manifestVars, rejected, misfortunes>>

Activate(c) ==
  /\ sync[c].at = "saved"
  /\ active' = [active EXCEPT ![c] = entries(sync[c].manifest)]
  /\ outcome' = [outcome EXCEPT ![c] = "activated"]
  /\ sync' = [sync EXCEPT ![c] = Idle]
  /\ UNCHANGED <<manifestVars, cache, rejected, misfortunes>>

Misfortune ==
  /\ misfortunes < MaxMisfortunes
  /\ misfortunes' = misfortunes + 1
  /\ UNCHANGED manifestVars

\* An artifact or a look-up cannot be had.
SyncFails(c) ==
  /\ sync[c].at = "verifying"
  /\ FallsBack(c, cache[c].current)
  /\ Misfortune
  /\ UNCHANGED <<cache, rejected>>

\* The file is written, and the chmod after the rename fails.
SaveFails(c) ==
  LET s == nextCache(cache[c].current, sync[c].manifest) IN
  /\ c \in FileClients
  /\ Verified(c) /\ sync[c].manifest # cache[c].current /\ continuous(c, s)
  /\ cache' = [cache EXCEPT ![c] = s]
  /\ FallsBack(c, s.current)
  /\ Misfortune
  /\ UNCHANGED rejected

\* The process of the agent ends and starts again; a file stays.  The request
\* it has made goes on, and nobody takes its answer.
Crash(c) ==
  /\ sync' = [sync EXCEPT ![c] = Idle]
  /\ active' = [active EXCEPT ![c] = {}]
  /\ outcome' = [outcome EXCEPT ![c] = "none"]
  /\ rejected' = [rejected EXCEPT ![c] = {}]
  /\ cache' = IF c \in FileClients THEN cache ELSE [cache EXCEPT ![c] = NoCache]
  /\ Misfortune

ClientStep(c) ==
  Receive(c) \/ VerifyVersion(c) \/ Unchanged(c) \/ Save(c) \/ Activate(c)

Others == Callers \ Clients

SyncNext ==
  \/ /\ \/ World
        \/ \E r \in Callers : Advance(r) \/ Fails(r)
        \/ \E r \in Others : Start(r) \/ Finish(r)
        \/ \E c \in Clients : sync[c].at # "fetching" /\ Finish(c)
     /\ UNCHANGED clientVars
  \/ \E c \in Clients : \/ BeginSync(c) \/ ClientStep(c)
                        \/ SyncFails(c) \/ SaveFails(c) \/ Crash(c)

SyncSpec == SyncInit /\ [][SyncNext]_syncVars

\* As for the publisher; a client syncs again and again, and its awaits return.
FairSyncSpec ==
  /\ SyncInit
  /\ [][SyncNext /\ \A r \in Callers : Start(r) => FreshTime]_syncVars
  /\ \A r \in Callers : WF_syncVars(Advance(r) /\ UNCHANGED clientVars)
  /\ \A r \in Others : /\ WF_syncVars(Start(r) /\ FreshTime /\ UNCHANGED clientVars)
                       /\ WF_syncVars(Finish(r) /\ UNCHANGED clientVars)
  /\ \A c \in Clients :
       /\ WF_syncVars(BeginSync(c) /\ FreshTime) /\ WF_syncVars(ClientStep(c))
       /\ WF_syncVars(sync[c].at # "fetching" /\ Finish(c) /\ UNCHANGED clientVars)

(***************************************************************************)
(* Properties.                                                             *)
(***************************************************************************)
\* ManifestCacheState and the progress of a sync have the types of the code;
\* what is saved is what was verified.
ClientTypeOK ==
  /\ cache \in [Clients -> [current : 0 .. Len(stored), previous : 0 .. Len(stored)]]
  /\ active \in [Clients -> SUBSET Versions]
  /\ sync \in [Clients -> Sync]
  /\ outcome \in [Clients -> Outcomes]
  /\ rejected \in [Clients -> SUBSET Versions]
  /\ misfortunes \in Nat
  /\ \A c \in Clients :
       /\ sync[c].at \in {"verifying", "saved"} => sync[c].manifest \in DOMAIN stored
       /\ sync[c].at = "saved" => cache[c].current = sync[c].manifest

SyncTypeOK == ManifestTypeOK /\ ClientTypeOK

\* docs/architecture/0013: the former set "cannot reactivate through an online
\* sync": when a sync succeeds, the engine has nothing that was quarantined
\* when the sync began, whatever the publisher and the cache held.
SyncedWasStable ==
  \A c \in Clients : outcome[c] \in {"activated", "unchanged"} =>
    active[c] \cap barred[c] = {}

\* docs/architecture/0012: a set is activated as one, and it is the cached one:
\* through crashes and failures between the save and the activation, an engine
\* that may fall back never runs on anything but the current set of the cache.
EngineIsCached ==
  FailMode = "last-known-good" =>
    \A c \in Clients : sync[c].at # "saved" =>
      active[c] \in {{}, entries(cache[c].current)}

\* packages/sdk/README.md, "manifest lineage": from one cached manifest a
\* client goes only to its successor, and to a later time.
ForwardOnly ==
  [][\A c \in Clients :
       LET k == cache[c].current  m == cache'[c].current IN
       k # m /\ k # 0 /\ m # 0 =>
         stored[m].parent = k /\ stored[k].generatedAt < stored[m].generatedAt]_syncVars

\* packages/sdk/README.md: the SDK verifies the manifest "before replacing the
\* active local rules", and the cache "retains current and previous verified
\* sets": a client that starts without a cache comes to have one.
FreshClientSyncs ==
  []<>FreshTime /\ []<>(\E m \in DOMAIN stored : isLatest(m) /\ inWindow(m, clock)) =>
    \A c \in Clients : <>(cache[c].current # 0)

\* docs/architecture/0013: clients expose last-known-good use as degraded
\* behaviour "until they can observe current Monad state": a client that goes
\* on syncing with a publisher and a registry that answer drops what is
\* quarantined in the end.
ClientsCatchUp ==
  []<>FreshTime =>
    \A c \in Clients, v \in Versions : status[v] = "Quarantined" ~> v \notin active[c]

\* docs/architecture/0013: "A signed manifest cannot keep a quarantined version
\* active after an online Monad recheck": a version that a sync has found not to
\* be Stable is not active when that sync ends.
RecheckIsObeyed ==
  \A c \in Clients : sync[c].at = "idle" => active[c] \cap rejected[c] = {}
================================================================================
