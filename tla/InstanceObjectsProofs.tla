------------------------ MODULE InstanceObjectsProofs ------------------------
(***************************************************************************)
(* Proofs about InstanceObjects, for every supply of keys and UIDs and any *)
(* number of edits and faults: keys of the bundled MinIO that are known    *)
(* stay, no CR comes before its Secrets, and no user's PodMonitor is       *)
(* deleted.                                                                *)
(***************************************************************************)
EXTENDS InstanceObjects, FiniteSetTheorems, TLAPS

\* Three things are less than the supply of keys (generatePassword).
LEMMA ThreeAreTooFew ==
    ASSUME NEW S, IsFiniteSet(S), Cardinality(S) >= 4, NEW a, NEW b, NEW c
    PROVE  \E x \in S : x \notin {a, b, c}
  <1> SUFFICES ASSUME S \subseteq {a, b, c}
               PROVE  FALSE
    OBVIOUS
  <1> DEFINE A == {} \cup {a}
             B == A \cup {b}
             C == B \cup {c}
  <1>1. IsFiniteSet({}) /\ Cardinality({}) = 0
    BY FS_EmptySet
  <1>2. IsFiniteSet(A) /\ Cardinality(A) \in 0..1
    BY <1>1, FS_AddElement
  <1>3. IsFiniteSet(B) /\ Cardinality(B) \in 0..2
    <2>1. Cardinality(B) = Cardinality(A) \/ Cardinality(B) = Cardinality(A) + 1
      BY <1>2, FS_AddElement
    <2>2. QED
      BY <1>2, <2>1, FS_AddElement
  <1>4. IsFiniteSet(C) /\ Cardinality(C) \in 0..3
    <2>1. Cardinality(C) = Cardinality(B) \/ Cardinality(C) = Cardinality(B) + 1
      BY <1>3, FS_AddElement
    <2>2. QED
      BY <1>3, <2>1, FS_AddElement
  <1>5. Cardinality(S) <= Cardinality(C)
    <2>1. S \subseteq C
      OBVIOUS
    <2>2. QED
      BY <1>4, <2>1, FS_Subset
  <1>6. Cardinality(S) \in Nat
    BY FS_CardinalityType
  <1>7. QED
    BY <1>4, <1>5, <1>6

\* A generated key is one, and new to everybody.
LEMMA FreshKeyIsNew == FreshKey \in Keys /\ FreshKey \notin {secret, minio, seen.secret}
  <1>1. \E k \in Keys : k \notin {secret, minio, seen.secret}
    BY SupplyAssumption, ThreeAreTooFew
  <1>2. QED
    BY <1>1 DEF FreshKey

\* There is a key, and a UID, to start with.
LEMMA Supply == (\E k \in Keys : TRUE) /\ (\E u \in UIDs : TRUE)
  BY SupplyAssumption, FS_EmptySet

\* No pass under way is a pass.
LEMMA IdleIsAPass == Idle \in Passes
  BY DEF Idle, Passes

\* A new instance and one of an earlier release are typed.
LEMMA InitTypes == Init => TypeOK
  <1> SUFFICES ASSUME Init
               PROVE  TypeOK
    OBVIOUS
  <1>1. location \in Keys
    BY Supply DEF Init
  <1>2. (CHOOSE u \in UIDs : TRUE) \in UIDs
    BY Supply
  <1>3. cr \in CRs \cup {NoCR}
    <2>1. [made |-> TRUE, ours |-> FALSE, metrics |-> TRUE] \in CRs
      BY DEF CRs
    <2>2. QED
      BY <2>1 DEF Init
  <1>4. {secret, minio, copy} \subseteq Keys \cup {None}
    BY <1>1 DEF Init
  <1>5. other \in Monitors
    BY <1>2 DEF Init, Monitors, NoMonitor
  <1>6. seen \in [cr : CRs \cup {NoCR}, secret : Keys \cup {None}, other : Monitors]
    BY <1>3, <1>4, <1>5 DEF Init
  <1>7. pass = Idle /\ edits \in 0..MaxEdits /\ faults \in 0..MaxFaults
    BY BoundAssumption DEF Init
  <1>8. {scrape, helm, own, working} \subseteq BOOLEAN /\ store \in {"bundled", "location"}
    BY DEF Init
  <1>9. QED
    BY <1>1, <1>3, <1>4, <1>5, <1>6, <1>7, <1>8, IdleIsAPass DEF TypeOK

\* Every step keeps the types.
LEMMA TypeStep == TypeOK /\ [Next]_vars => TypeOK'
  <1> SUFFICES ASSUME TypeOK, [Next]_vars
               PROVE  TypeOK'
    OBVIOUS
  <1> USE BoundAssumption DEF TypeOK, external, counters, Step
  <1>0. \A at \in {"secret", "location", "apply", "operator", "monitor"} :
          [pass EXCEPT !.at = at] \in Passes
    BY DEF Passes
  <1>1. CASE ApplyStorageCredentials
    <2>1. PICK k \in {FreshKey, seen.secret}, ours \in BOOLEAN :
            pass' = [at |-> IF ours THEN "secret" ELSE "location", ours |-> ours,
                     scrape |-> scrape, key |-> IF ours THEN k ELSE None]
      BY <1>1 DEF ApplyStorageCredentials, GeneratedStorageCredentials
    <2>2. k \in Keys \cup {None}
      BY <2>1, FreshKeyIsNew
    <2>3. pass' \in Passes
      BY <2>1, <2>2 DEF Passes
    <2>4. QED
      BY <1>1, <2>3 DEF ApplyStorageCredentials
  <1>15. CASE EnsureStorageSecret
    <2>1. pass.key \in Keys \cup {None} /\ [pass EXCEPT !.at = "location", !.key = None] \in Passes
      BY DEF Passes
    <2>2. QED
      BY <1>15, <2>1 DEF EnsureStorageSecret
  <1>2. CASE SyncStorageLocationSecret
    <2>1. pass' \in Passes
      BY <1>0, <1>2, IdleIsAPass DEF SyncStorageLocationSecret
    <2>2. copy' \in {copy, location}
      BY <1>2 DEF SyncStorageLocationSecret
    <2>3. QED
      BY <1>2, <2>1, <2>2 DEF SyncStorageLocationSecret
  <1>3. CASE ApplyCR
    <2>1. cr' \in CRs
      BY <1>3 DEF ApplyCR, CRs, Passes
    <2>2. QED
      BY <1>0, <1>3, <2>1 DEF ApplyCR
  <1>4. CASE DeleteOperatorPodMonitor
    <2>1. other' \in Monitors
      BY <1>4 DEF DeleteOperatorPodMonitor, Monitors
    <2>2. QED
      BY <1>0, <1>4, <2>1 DEF DeleteOperatorPodMonitor
  <1>5. CASE SyncPodMonitor
    <2>1. pass.scrape \in BOOLEAN
      BY DEF Passes
    <2>2. QED
      BY <1>5, <2>1, IdleIsAPass DEF SyncPodMonitor
  <1>6. CASE Abort
    BY <1>6, IdleIsAPass DEF Abort, Fault
  <1>7. CASE WatchDelivers
    <2>1. PICK f \in DOMAIN seen : seen' = [seen EXCEPT ![f] = Current[f]]
      BY <1>7 DEF WatchDelivers
    <2>2. f \in {"cr", "secret", "other"}
      BY <2>1
    <2>3. seen' \in [cr : CRs \cup {NoCR}, secret : Keys \cup {None}, other : Monitors]
      BY <2>1, <2>2 DEF Current
    <2>4. QED
      BY <1>7, <2>3 DEF WatchDelivers
  <1>8. CASE InstallMinIO
    BY <1>8 DEF InstallMinIO
  <1>9. CASE OperatorMonitors
    <2>1. other' \in Monitors
      BY <1>9 DEF OperatorMonitors, Monitors
    <2>2. QED
      BY <1>9, <2>1 DEF OperatorMonitors
  <1>10. CASE EditInstance
    BY <1>10 DEF EditInstance, Edit
  <1>11. CASE RotateLocation
    BY <1>11 DEF RotateLocation, Edit
  <1>12. CASE ReplaceMonitor
    <2>1. other' \in Monitors
      BY <1>12 DEF ReplaceMonitor, Monitors
    <2>2. QED
      BY <1>12, <2>1 DEF ReplaceMonitor, Edit
  <1>13. CASE UNCHANGED vars
    BY <1>13 DEF vars
  <1>14. QED
    BY <1>1, <1>2, <1>3, <1>4, <1>5, <1>6, <1>7, <1>8, <1>9, <1>10, <1>11, <1>12, <1>13, <1>15
       DEF Next, PassSteps

\* Secrets, PodMonitors and their cached copies keep their types.
THEOREM TypeCorrect == Spec => []TypeOK
  BY InitTypes, TypeStep, PTL DEF Spec
-----------------------------------------------------------------------------
\* MinIO of an earlier release keeps the chart's Secret: no pass, no CR and no
\* cached CR names another one (generatedStorageCredentials).
HelmInv == helm => /\ store = "bundled"
                   /\ cr.made /\ ~cr.ours
                   /\ seen.cr.made /\ ~seen.cr.ours
                   /\ ~pass.ours

\* What a pass is going to write into the CR is in its Secret already, and what it
\* is going to write into the Secret are keys.
SecretsInv == /\ pass.at = "secret" => pass.ours /\ pass.key # None
              /\ pass.ours /\ pass.at # "secret" => secret # None
              /\ cr # NoCR /\ cr.ours => secret # None
              /\ store = "location" /\ (cr # NoCR \/ pass.at = "apply") => copy # None

\* A PodMonitor of the UID that the cache shows is the one it shows.
MonitorInv == seen.other.uid = other.uid => seen.other = other

IInv == TypeOK /\ HelmInv /\ SecretsInv /\ MonitorInv

\* Both satisfy the invariant.
LEMMA InitHolds == Init => IInv
  <1> SUFFICES ASSUME Init
               PROVE  IInv
    OBVIOUS
  <1>1. TypeOK
    BY InitTypes
  <1>2. location # None
    BY Supply, SupplyAssumption DEF Init
  <1>3. seen.cr = cr /\ seen.secret = secret /\ seen.other = other /\ minio = secret /\ pass = Idle
    BY DEF Init
  <1>4. HelmInv
    <2>1. helm => store = "bundled" /\ cr = [made |-> TRUE, ours |-> FALSE, metrics |-> TRUE]
      BY DEF Init
    <2>2. QED
      BY <1>3, <2>1 DEF HelmInv, Idle
  <1>5. MonitorInv
    BY <1>3 DEF MonitorInv
  <1>6. SecretsInv
    <2>1. ~pass.ours /\ pass.at = "idle"
      BY <1>3 DEF Idle
    <2>2. cr # NoCR => ~cr.ours
      BY DEF Init
    <2>3. store = "location" /\ cr # NoCR => copy # None
      BY <1>2 DEF Init
    <2>4. QED
      BY <2>1, <2>2, <2>3 DEF SecretsInv
  <1>7. QED
    BY <1>1, <1>4, <1>5, <1>6 DEF IInv

\* A watch event leaves each cached copy as it was or makes it the object.
LEMMA CachedCopies ==
    ASSUME TypeOK, WatchDelivers
    PROVE  /\ seen'.cr \in {seen.cr, cr}
           /\ seen'.secret \in {seen.secret, secret}
           /\ seen'.other \in {seen.other, other}
  <1>1. PICK f \in DOMAIN seen : seen' = [seen EXCEPT ![f] = Current[f]]
    BY DEF WatchDelivers
  <1>2. f \in {"cr", "secret", "other"}
    BY <1>1 DEF TypeOK
  <1>3. QED
    BY <1>1, <1>2 DEF Current, TypeOK

\* While a chart's Secret is there its keys are in nobody's way, and no step
\* names another Secret.
LEMMA HelmStep == IInv /\ [Next]_vars => HelmInv'
  <1> SUFFICES ASSUME IInv, [Next]_vars, helm'
               PROVE  HelmInv'
    BY DEF HelmInv
  <1> USE DEF IInv, HelmInv, external, counters, Idle, Step
  <1>1. helm /\ store' = store
    BY DEF Next, PassSteps, vars, ApplyStorageCredentials, EnsureStorageSecret,
       SyncStorageLocationSecret, ApplyCR, DeleteOperatorPodMonitor, SyncPodMonitor, Abort,
       WatchDelivers, InstallMinIO, OperatorMonitors, EditInstance, RotateLocation,
       ReplaceMonitor
  <1>2. CASE ApplyStorageCredentials
    <2>1. ~GeneratedStorageCredentials
      BY <1>1 DEF GeneratedStorageCredentials
    <2>2. QED
      BY <1>1, <1>2, <2>1 DEF ApplyStorageCredentials
  <1>3. CASE SyncStorageLocationSecret
    <2>1. pass' = [pass EXCEPT !.at = "apply"]
      BY <1>1, <1>3 DEF SyncStorageLocationSecret
    <2>2. pass'.ours = pass.ours
      BY <2>1 DEF TypeOK, Passes
    <2>3. QED
      BY <1>1, <1>3, <2>2 DEF SyncStorageLocationSecret
  <1>11. CASE EnsureStorageSecret
    BY <1>1, <1>11 DEF EnsureStorageSecret, TypeOK, Passes
  <1>4. CASE ApplyCR
    BY <1>1, <1>4 DEF ApplyCR, TypeOK, Passes
  <1>5. CASE DeleteOperatorPodMonitor
    BY <1>1, <1>5 DEF DeleteOperatorPodMonitor, TypeOK, Passes
  <1>6. CASE SyncPodMonitor \/ Abort
    BY <1>1, <1>6 DEF SyncPodMonitor, Abort
  <1>7. CASE WatchDelivers
    BY <1>1, <1>7, CachedCopies DEF WatchDelivers
  <1>8. CASE InstallMinIO \/ OperatorMonitors \/ EditInstance \/ RotateLocation \/ ReplaceMonitor
    BY <1>1, <1>8 DEF InstallMinIO, OperatorMonitors, EditInstance, RotateLocation, ReplaceMonitor
  <1>9. CASE UNCHANGED vars
    BY <1>1, <1>9 DEF vars
  <1>10. QED
    BY <1>2, <1>3, <1>4, <1>5, <1>6, <1>7, <1>8, <1>9, <1>11 DEF Next, PassSteps

\* A pass fills a Secret before it names it, and nobody empties one.
LEMMA SecretsStep == IInv /\ [Next]_vars => SecretsInv'
  <1> SUFFICES ASSUME IInv, [Next]_vars
               PROVE  SecretsInv'
    OBVIOUS
  <1> USE DEF IInv, SecretsInv, external, counters, Idle, Step
  <1>1. CASE ApplyStorageCredentials
    <2>1. pass'.ours <=> pass'.at = "secret"
      BY <1>1 DEF ApplyStorageCredentials, GeneratedStorageCredentials
    <2>2. FreshKey # None
      BY FreshKeyIsNew, SupplyAssumption
    <2>3. pass'.ours => pass'.key # None
      BY <1>1, <2>2 DEF ApplyStorageCredentials
    <2>4. pass'.at # "apply"
      BY <1>1 DEF ApplyStorageCredentials
    <2>5. QED
      BY <1>1, <2>1, <2>3, <2>4 DEF ApplyStorageCredentials
  <1>9. CASE EnsureStorageSecret
    <2>1. pass'.at = "location" /\ secret' # None
      BY <1>9 DEF EnsureStorageSecret, TypeOK, Passes
    <2>2. QED
      BY <1>9, <2>1 DEF EnsureStorageSecret
  <1>2. CASE SyncStorageLocationSecret
    <2>1. UNCHANGED <<store, cr, secret>>
      BY <1>2 DEF SyncStorageLocationSecret
    <2>2. CASE pass' = Idle /\ copy' = copy
      BY <2>1, <2>2
    <2>3. CASE pass' = [pass EXCEPT !.at = "apply"] /\ (store = "location" => copy' # None)
      <3>1. pass'.ours = pass.ours /\ pass'.at = "apply" /\ pass.at = "location"
        BY <1>2, <2>3 DEF SyncStorageLocationSecret, TypeOK, Passes
      <3>2. QED
        BY <2>1, <2>3, <3>1
    <2>4. QED
      BY <1>2, <2>2, <2>3 DEF SyncStorageLocationSecret
  <1>3. CASE ApplyCR
    <2>1. cr'.ours = pass.ours /\ pass'.ours = pass.ours /\ pass'.at = "operator"
      BY <1>3 DEF ApplyCR, TypeOK, Passes
    <2>2. QED
      BY <1>3, <2>1 DEF ApplyCR
  <1>4. CASE DeleteOperatorPodMonitor
    <2>1. pass'.ours = pass.ours /\ pass'.at = "monitor"
      BY <1>4 DEF DeleteOperatorPodMonitor, TypeOK, Passes
    <2>2. QED
      BY <1>4, <2>1 DEF DeleteOperatorPodMonitor
  <1>5. CASE SyncPodMonitor \/ Abort
    BY <1>5 DEF SyncPodMonitor, Abort
  <1>6. CASE InstallMinIO
    BY <1>6 DEF InstallMinIO, HelmInv
  <1>7. CASE UNCHANGED <<store, cr, secret, copy, pass>>
    BY <1>7
  <1>8. QED
    BY <1>1, <1>2, <1>3, <1>4, <1>5, <1>6, <1>7, <1>9
       DEF Next, PassSteps, vars, WatchDelivers, OperatorMonitors, EditInstance, RotateLocation,
       ReplaceMonitor

\* A PodMonitor made anew has a UID of its own.
LEMMA MonitorStep == IInv /\ [Next]_vars => MonitorInv'
  <1> SUFFICES ASSUME IInv, [Next]_vars
               PROVE  MonitorInv'
    OBVIOUS
  <1> USE DEF IInv, MonitorInv, external
  <1>1. seen.other.uid = None => seen.other = NoMonitor
    BY SupplyAssumption DEF TypeOK, Monitors, NoMonitor
  <1>2. CASE DeleteOperatorPodMonitor
    BY <1>1, <1>2 DEF DeleteOperatorPodMonitor, NoMonitor
  <1>3. CASE WatchDelivers
    BY <1>3, CachedCopies DEF WatchDelivers
  <1>4. CASE OperatorMonitors
    BY <1>4 DEF OperatorMonitors
  <1>5. CASE ReplaceMonitor
    BY <1>5 DEF ReplaceMonitor
  <1>6. CASE other' = other /\ seen' = seen
    BY <1>6
  <1>7. QED
    BY <1>2, <1>3, <1>4, <1>5, <1>6
       DEF Next, PassSteps, vars, ApplyStorageCredentials, EnsureStorageSecret,
       SyncStorageLocationSecret, ApplyCR, SyncPodMonitor, Abort, InstallMinIO, EditInstance, RotateLocation

\* The inductive invariant, for every number of edits, faults and passes.
THEOREM InvariantHolds == Spec => []IInv
  <1>1. IInv /\ [Next]_vars => IInv'
    BY TypeStep, HelmStep, SecretsStep, MonitorStep DEF IInv
  <1>2. QED
    BY InitHolds, <1>1, PTL DEF Spec

\* Keys that the cache has shown, and that no pass is about to replace, stay for good
\* with any MinIO that starts with them: a pass writes what it reads, and no pass
\* has the chart's Secret deleted (ensureStorageSecret, generatedStorageCredentials).
THEOREM KeysNeverChange == Spec => StorageKeysStay
  <1>1. IInv /\ [Next]_vars => [KeysKnown => secret' = secret /\ KeysKnown']_vars
    <2> SUFFICES ASSUME IInv, [Next]_vars, KeysKnown
                 PROVE  secret' = secret /\ KeysKnown'
      OBVIOUS
    <2> USE DEF IInv, KeysKnown, external, counters, Idle, Step
    <2>1. CASE ApplyStorageCredentials
      <3>1. pass'.at = "secret" => pass'.key = secret
        BY <2>1 DEF ApplyStorageCredentials
      <3>2. QED
        BY <2>1, <3>1 DEF ApplyStorageCredentials
    <2>2. CASE EnsureStorageSecret
      <3>1. pass'.at = "location" /\ secret' = secret
        BY <2>2 DEF EnsureStorageSecret, TypeOK, Passes
      <3>2. QED
        BY <2>2, <3>1 DEF EnsureStorageSecret
    <2>3. CASE InstallMinIO
      <3>1. ~(helm /\ cr.ours)
        BY DEF HelmInv
      <3>2. QED
        BY <2>3, <3>1 DEF InstallMinIO
    <2>4. CASE WatchDelivers
      BY <2>4, CachedCopies DEF WatchDelivers
    <2>5. CASE SyncStorageLocationSecret \/ ApplyCR \/ DeleteOperatorPodMonitor \/ SyncPodMonitor
                 \/ Abort
      <3>1. pass'.at # "secret"
        BY <2>5 DEF SyncStorageLocationSecret, ApplyCR, DeleteOperatorPodMonitor, SyncPodMonitor,
                    Abort, TypeOK, Passes
      <3>2. UNCHANGED <<secret, seen, minio>>
        BY <2>5 DEF SyncStorageLocationSecret, ApplyCR, DeleteOperatorPodMonitor, SyncPodMonitor,
                    Abort
      <3>3. QED
        BY <3>1, <3>2
    <2>6. CASE UNCHANGED <<secret, seen, minio, pass>>
      BY <2>6
    <2>7. QED
      BY <2>1, <2>2, <2>3, <2>4, <2>5, <2>6
         DEF Next, PassSteps, vars, OperatorMonitors, EditInstance, RotateLocation, ReplaceMonitor
  <1>2. QED
    BY <1>1, InvariantHolds, PTL DEF Spec, StorageKeysStay

\* Milvus is never pointed at a Secret without keys, wherever a pass stops
\* (applyStorageCredentials, syncStorageLocationSecret).
THEOREM SecretsBeforeMilvus == Spec => []SecretsComeFirst
  <1>1. IInv => SecretsComeFirst
    BY DEF IInv, SecretsInv, SecretsComeFirst
  <1>2. QED
    BY <1>1, InvariantHolds, PTL

\* The provider never deletes a user's PodMonitor, and the operator does not make
\* its own over it (deleteOperatorPodMonitor).
THEOREM NoUserMonitorDeleted == Spec => UserMonitorStays
  <1>1. IInv /\ [Next]_vars
          => [other.owner = "user" /\ other' # other => other'.owner = "user"]_vars
    <2> SUFFICES ASSUME IInv, [Next]_vars, other.owner = "user", other' # other
                 PROVE  other'.owner = "user"
      OBVIOUS
    <2>1. ~DeleteOperatorPodMonitor
      BY DEF DeleteOperatorPodMonitor, IInv, MonitorInv
    <2>2. ~OperatorMonitors
      BY DEF OperatorMonitors, NoMonitor
    <2>3. ReplaceMonitor
      BY <2>1, <2>2
         DEF Next, PassSteps, vars, external, ApplyStorageCredentials, EnsureStorageSecret,
         SyncStorageLocationSecret, ApplyCR, SyncPodMonitor, Abort, WatchDelivers, InstallMinIO, EditInstance, RotateLocation
    <2>4. QED
      BY <2>3 DEF ReplaceMonitor
  <1>2. QED
    BY <1>1, InvariantHolds, PTL DEF Spec, UserMonitorStays
=============================================================================
