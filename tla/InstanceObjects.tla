--------------------------- MODULE InstanceObjects ---------------------------
(***************************************************************************)
(* The Secrets and PodMonitors of an instance, in the order in which Sync  *)
(* writes them around the Milvus CR (credentials.go, storage_location.go,  *)
(* monitoring.go).  The keys of the bundled MinIO are generated by a pass  *)
(* that finds none and have to stay; those of a storage location are       *)
(* copied; the PodMonitor is the provider's, and one the Milvus operator   *)
(* made before goes.  The provider reads its own objects from a cache that *)
(* nothing waits for, and a pass may stop between any two calls.           *)
(***************************************************************************)
EXTENDS Naturals, FiniteSets

CONSTANTS Keys,       \* of object storage, generated or a user's
          UIDs,       \* of PodMonitors
          None,       \* no key, no PodMonitor
          MaxEdits,   \* bound on what users change
          MaxFaults   \* bound on failed calls and crashes

\* Two keys, or UIDs, are known at most when a new one is needed.
ASSUME SupplyAssumption == /\ IsFiniteSet(Keys) /\ Cardinality(Keys) >= 4
                           /\ IsFiniteSet(UIDs) /\ Cardinality(UIDs) >= 3
                           /\ None \notin Keys \cup UIDs
ASSUME BoundAssumption == {MaxEdits, MaxFaults} \subseteq Nat

VARIABLES store,     \* "bundled", or "location" for a BackupStorage
          scrape,    \* the spec enables Prometheus
          location,  \* keys of the BackupStorage, None if it has lost them
          cr,        \* the Milvus CR: existingSecret is ours, the operator's metrics
          secret,    \* keys in the Secret of the bundled storage
          helm,      \* that Secret is one the chart renders
          minio,     \* keys MinIO was started with
          copy,      \* keys in the Secret of the location
          own,       \* the provider's PodMonitor exists
          other,     \* the PodMonitor of the operator's name
          working,   \* the operator works on a CR with metrics on
          seen,      \* the provider's cached copies
          pass, edits, faults

vars == <<store, scrape, location, cr, secret, helm, minio, copy, own, other, working,
          seen, pass, edits, faults>>
external == <<store, scrape, location, minio, working, seen>>
counters == <<edits, faults>>

NoCR == [made |-> FALSE]
CRs == [made : {TRUE}, ours : BOOLEAN, metrics : BOOLEAN]
NoMonitor == [owner |-> "none", uid |-> None]
Monitors == {NoMonitor} \cup [owner : {"operator", "user"}, uid : UIDs]
\* A pass at "secret" has read, or made, the keys it is about to write.
Idle == [at |-> "idle", ours |-> FALSE, scrape |-> FALSE, key |-> None]
Passes == [at : {"idle", "secret", "location", "apply", "operator", "monitor"},
           ours : BOOLEAN, scrape : BOOLEAN, key : Keys \cup {None}]

TypeOK == /\ store \in {"bundled", "location"}
          /\ {scrape, helm, own, working} \subseteq BOOLEAN
          /\ cr \in CRs \cup {NoCR}
          /\ {location, secret, minio, copy} \subseteq Keys \cup {None}
          /\ other \in Monitors
          /\ seen \in [cr : CRs \cup {NoCR}, secret : Keys \cup {None}, other : Monitors]
          /\ pass \in Passes
          /\ edits \in 0..MaxEdits /\ faults \in 0..MaxFaults

\* A new instance, or one of an earlier release: MinIO of the chart's own Secret,
\* a storage location, and the operator's PodMonitor.
Init == /\ store \in {"bundled", "location"}
        /\ scrape \in BOOLEAN
        /\ location = CHOOSE k \in Keys : TRUE
        /\ cr \in {NoCR, [made |-> TRUE, ours |-> FALSE, metrics |-> TRUE]}
        /\ helm = (cr # NoCR /\ store = "bundled")
        /\ secret = IF helm THEN location ELSE None
        /\ minio = secret
        /\ copy = IF cr # NoCR /\ store = "location" THEN location ELSE None
        /\ own = FALSE
        /\ other \in {NoMonitor} \cup IF cr = NoCR THEN {} ELSE [owner : {"operator"}, uid : {CHOOSE u \in UIDs : TRUE}]
        /\ working = (cr # NoCR)
        /\ seen = [cr |-> cr, secret |-> secret, other |-> other]
        /\ pass = Idle
        /\ edits = 0 /\ faults = 0

Fault == faults < MaxFaults /\ faults' = faults + 1
Step(at) == pass' = [pass EXCEPT !.at = at]
-----------------------------------------------------------------------------
\* generatedStorageCredentials: MinIO of an earlier release keeps its Secret.
\* Variants with a bug, for mutation runs, carry the operator's name and a suffix.
GeneratedStorageCredentials_Always == TRUE
GeneratedStorageCredentials == seen.cr.made => seen.cr.ours

\* generatePassword: a key nobody has.
FreshKey_Empty == ""
FreshKey == CHOOSE k \in Keys : k \notin {secret, minio, seen.secret}

\* applyStorageCredentials, and what ensureStorageSecret reads: the keys in the
\* Secret, or where the cache shows none, keys generated anew.
ApplyStorageCredentials_SecondPass ==
    /\ pass.at = "idle"
    /\ LET ours == store = "bundled" /\ GeneratedStorageCredentials
       IN  pass' = [at |-> IF ours /\ seen.cr.made THEN "secret" ELSE "location", ours |-> ours,
                    scrape |-> scrape, key |-> IF ours THEN FreshKey ELSE None]
    /\ UNCHANGED <<external, cr, secret, helm, copy, own, other, counters>>
ApplyStorageCredentials ==
    /\ pass.at = "idle"
    /\ LET ours == store = "bundled" /\ GeneratedStorageCredentials
           key  == IF seen.secret = None THEN FreshKey ELSE seen.secret
       IN  pass' = [at |-> IF ours THEN "secret" ELSE "location", ours |-> ours,
                    scrape |-> scrape, key |-> IF ours THEN key ELSE None]
    /\ UNCHANGED <<external, cr, secret, helm, copy, own, other, counters>>

\* ensureStorageSecret applies what it has read over whatever is there by then.
EnsureStorageSecret ==
    /\ pass.at = "secret"
    /\ secret' = pass.key
    /\ pass' = [pass EXCEPT !.at = "location", !.key = None]
    /\ UNCHANGED <<external, cr, helm, copy, own, other, counters>>

\* storageLocationKeys and syncStorageLocationSecret; without keys the pass ends.
SyncStorageLocationSecret ==
    /\ pass.at = "location"
    /\ IF store = "location"
         THEN IF location = None THEN pass' = Idle /\ UNCHANGED copy
                                 ELSE Step("apply") /\ copy' = location
         ELSE Step("apply") /\ UNCHANGED copy
    /\ UNCHANGED <<external, cr, secret, helm, own, other, counters>>

\* The CR always turns the operator's metrics off (BuildMilvusSpec).
ApplyCR ==
    /\ pass.at = "apply"
    /\ cr' = [made |-> TRUE, ours |-> pass.ours, metrics |-> FALSE]
    /\ Step("operator")
    /\ UNCHANGED <<external, secret, helm, copy, own, other, counters>>

\* deleteOperatorPodMonitor: what the cache shows to be the Milvus CR's, by UID.
DeleteOperatorPodMonitor_AnyUID ==
    /\ pass.at = "operator"
    /\ other' = IF seen.other.owner = "operator" THEN NoMonitor ELSE other
    /\ Step("monitor")
    /\ UNCHANGED <<external, cr, secret, helm, copy, own, counters>>
DeleteOperatorPodMonitor_WhenEnabled ==
    /\ pass.at = "operator"
    /\ other' = IF pass.scrape /\ seen.other.owner = "operator" /\ seen.other.uid = other.uid
                  THEN NoMonitor ELSE other
    /\ Step("monitor")
    /\ UNCHANGED <<external, cr, secret, helm, copy, own, counters>>
DeleteOperatorPodMonitor ==
    /\ pass.at = "operator"
    /\ other' = IF seen.other.owner = "operator" /\ seen.other.uid = other.uid
                  THEN NoMonitor ELSE other
    /\ Step("monitor")
    /\ UNCHANGED <<external, cr, secret, helm, copy, own, counters>>

\* The rest of syncPodMonitor.
SyncPodMonitor ==
    /\ pass.at = "monitor"
    /\ own' = pass.scrape
    /\ pass' = Idle
    /\ UNCHANGED <<external, cr, secret, helm, copy, other, counters>>

Abort ==
    /\ pass.at # "idle" /\ Fault
    /\ pass' = Idle
    /\ UNCHANGED <<external, cr, secret, helm, copy, own, other, edits>>

PassSteps == \/ ApplyStorageCredentials \/ EnsureStorageSecret
             \/ SyncStorageLocationSecret \/ ApplyCR
             \/ DeleteOperatorPodMonitor \/ SyncPodMonitor
-----------------------------------------------------------------------------
Current == [cr |-> cr, secret |-> secret, other |-> other]
WatchDelivers ==
    /\ seen # Current
    /\ \E f \in DOMAIN seen : seen[f] # Current[f] /\ seen' = [seen EXCEPT ![f] = Current[f]]
    /\ UNCHANGED <<store, scrape, location, cr, secret, helm, minio, copy, own, other, working,
                   pass, counters>>

\* The operator installs the charts.  MinIO starts once its Secret is there,
\* whatever the provider's cache shows by then; a chart that is told to use another
\* Secret deletes its own.
InstallMinIO ==
    /\ cr # NoCR /\ store = "bundled"
    /\ \/ /\ ~helm /\ minio = None /\ secret # None
          /\ minio' = secret
          /\ UNCHANGED <<secret, helm>>
       \/ /\ helm /\ cr.ours
          /\ helm' = FALSE /\ secret' = None
          /\ UNCHANGED minio
    /\ UNCHANGED <<store, scrape, location, cr, copy, own, other, working, seen, pass, counters>>

\* It makes its PodMonitor as long as the CR it works on has metrics on.
OperatorMonitors ==
    /\ \/ /\ working /\ other = NoMonitor
          /\ \E u \in UIDs \ {seen.other.uid} : other' = [owner |-> "operator", uid |-> u]
          /\ UNCHANGED working
       \/ /\ working /\ cr.made /\ ~cr.metrics
          /\ working' = FALSE
          /\ UNCHANGED other
    /\ UNCHANGED <<store, scrape, location, cr, secret, helm, minio, copy, own, seen, pass, counters>>

\* Users turn Prometheus on and off, rotate the keys of a location, and replace
\* the operator's PodMonitor, or the lack of one, by one of their own.
Edit == edits < MaxEdits /\ edits' = edits + 1
EditInstance ==
    /\ Edit /\ scrape' = ~scrape
    /\ UNCHANGED <<store, location, cr, secret, helm, minio, copy, own, other, working, seen, pass, faults>>
RotateLocation ==
    /\ Edit /\ store = "location"
    /\ location' \in (Keys \cup {None}) \ {location}
    /\ UNCHANGED <<store, scrape, cr, secret, helm, minio, copy, own, other, working, seen, pass, faults>>
ReplaceMonitor ==
    /\ Edit
    /\ \E u \in UIDs \ {other.uid, seen.other.uid} : other' = [owner |-> "user", uid |-> u]
    /\ UNCHANGED <<store, scrape, location, cr, secret, helm, minio, copy, own, working, seen, pass, faults>>

Next == \/ PassSteps \/ Abort \/ WatchDelivers
        \/ InstallMinIO \/ OperatorMonitors
        \/ EditInstance \/ RotateLocation \/ ReplaceMonitor

Spec == Init /\ [][Next]_vars

\* Passes are started again and again, if only by the resync of the caches.
FairSpec == /\ Spec
            /\ WF_vars(PassSteps) /\ WF_vars(WatchDelivers) /\ WF_vars(InstallMinIO)
            /\ WF_vars(working /\ OperatorMonitors /\ other' = other)
-----------------------------------------------------------------------------
\* The keys are known: the cache shows them, no pass is about to write others, and
\* MinIO has not been started with others.
KeysKnown == /\ secret # None /\ seen.secret = secret
             /\ pass.at = "secret" => pass.key = secret
             /\ minio \in {None, secret}

\* Keys that are known stay for good, however old the cached CR, wherever passes
\* stop, and those of a MinIO that an earlier release installed from the start
\* (generatedStorageCredentials, ensureStorageSecret).  Until they are known a pass
\* may read that there are none, and its keys then replace those MinIO may have
\* started with: credentials.go:145 promises stable ones across reconciles, but
\* nothing makes a pass wait for the cache.
StorageKeysStay == [][KeysKnown => secret' = secret /\ KeysKnown']_vars

\* Wherever passes stop and whatever becomes of a location's keys, Milvus is never
\* pointed at a Secret without them (applyStorageCredentials before Apply,
\* storageLocationKeys).
SecretsComeFirst == cr # NoCR => /\ cr.ours => secret # None
                                 /\ store = "location" => copy # None

\* A PodMonitor that a user put in the place of the operator's is not deleted,
\* although the cache may still show the operator's (deleteOperatorPodMonitor).
UserMonitorStays == [][other.owner = "user" /\ other' # other => other'.owner = "user"]_vars

\* In the end the keys of the location are copied, Prometheus finds the provider's
\* PodMonitor if and only if it is to, and never the operator's, even one that
\* the operator made anew from an old copy of the CR (syncPodMonitor).
ObjectsSettle ==
    <>[](location # None => /\ store = "location" => copy = location
                            /\ own = scrape
                            /\ other.owner # "operator")
=============================================================================
