------------------------ MODULE InstanceStatusProofs ------------------------
(***************************************************************************)
(* Proofs about InstanceStatus, for any workloads, pods and Restores and   *)
(* any number of edits and faults: no address is given before the data is  *)
(* in, nor while a Restore that the pass knew of replaces it, and when the *)
(* provider rests, what it reported is right.                              *)
(***************************************************************************)
EXTENDS InstanceStatus, Totals

\* An instance without a CR is typed, whatever its spec.
LEMMA InitTypes == Init => TypeOK
  <1> SUFFICES ASSUME Init
               PROVE  TypeOK
    OBVIOUS
  <1>1. 1 \in Images /\ 0 \in 0..MaxEdits /\ 0 \in 0..MaxFaults
    BY BoundAssumption DEF Images
  <1>2. want \in [service : Services, image : Images] /\ want.image <= edits + 1
    BY <1>1 DEF Init
  <1>3. /\ pods \in [Deployments -> [desired : Nat, ready : Nat]]
        /\ \A d \in Deployments : pods[d].desired \in {0, Pods[d]} /\ pods[d].ready <= Pods[d]
    <2>1. ASSUME NEW d \in Deployments
          PROVE  /\ Pods[d] \in Nat
                 /\ pods[d].desired \in {0, Pods[d]} /\ pods[d].ready = pods[d].desired
                 /\ pods[d] \in [desired : Nat, ready : Nat]
      BY <2>1, WorkloadAssumption DEF Init
    <2>2. \A d \in Deployments : pods[d].ready <= Pods[d]
      BY <2>1
    <2>3. pods = [d \in Deployments |-> pods[d]]
      BY DEF Init
    <2>4. QED
      BY <2>1, <2>2, <2>3
  <1>4. restore \in [Restores -> RestoreStates]
    BY DEF Init, RestoreStates
  <1>5. seen \in [cr : CRs \cup {NoCR}, restore : [Restores -> RestoreStates]]
    BY <1>4 DEF Init
  <1>6. pass \in [at : {"idle", "seed", "report"}, source : {"none", "waiting", "done"},
                  known : SUBSET Restores]
    BY DEF Init, Idle
  <1>7. reported \in [phase : Phases, host : {"none"} \cup Services, short : SUBSET Workloads]
    BY DEF Init, Nothing, Phases
  <1>8. source \in BOOLEAN /\ seeded \in BOOLEAN /\ unseen \in BOOLEAN /\ queued \in BOOLEAN
    BY DEF Init
  <1>9. QED
    BY <1>1, <1>2, <1>3, <1>4, <1>5, <1>6, <1>7, <1>8 DEF Init, TypeOK, Services

\* A status is a phase with a host and short workloads, whatever CR it is of.
LEMMA StatusType ==
    ASSUME NEW c \in CRs \cup {NoCR}, NEW state, service \in Services
    PROVE  Status(c, state) \in
             [phase : Phases, host : {"none"} \cup Services, short : SUBSET Workloads]
  <1> DEFINE Reports == [phase : Phases, host : {"none"} \cup Services, short : SUBSET Workloads]
  <1>1. \A p \in Phases : Phase(p) \in Reports
    BY DEF Phase, Nothing, Phases
  <1>2. {"Provisioning", "Restoring", "Updating", "Ready", "Pending"} \subseteq Phases
    BY DEF Phases
  <1>3. ASSUME c \in CRs
        PROVE  HealthyStatus(c) \in Reports
    <2>1. Endpoint(c) \in {"none"} \cup Services
      BY <1>3 DEF Endpoint, CRs, Services
    <2>2. ShortWorkloads \in SUBSET Workloads
      BY DEF ShortWorkloads
    <2>3. [phase |-> "Updating", host |-> Endpoint(c), short |-> {}] \in Reports
      BY <1>2, <2>1
    <2>4. [phase |-> "Ready", host |-> Endpoint(c), short |-> ShortWorkloads] \in Reports
      BY <1>2, <2>1, <2>2
    <2>5. Phase("Provisioning") \in Reports
      BY <1>1, <1>2
    <2>6. QED
      BY <2>3, <2>4, <2>5 DEF HealthyStatus
  <1>4. CASE ~c.made
    BY <1>1, <1>2, <1>4 DEF Status
  <1>5. CASE c.made
    <2>1. c \in CRs
      BY <1>5 DEF NoCR
    <2>2. QED
      BY <1>1, <1>2, <1>3, <1>5, <2>1 DEF Status
  <1>6. c.made \in BOOLEAN
    <2>1. CASE c = NoCR
      BY <2>1 DEF NoCR
    <2>2. CASE c \in CRs
      BY <2>2 DEF CRs
    <2>3. QED
      BY <2>1, <2>2
  <1>7. QED
    BY <1>4, <1>5, <1>6

\* What Sync applies and what the operator makes of it is a CR.
LEMMA CRStep == TypeOK /\ Next => cr' \in CRs \cup {NoCR}
  <1> SUFFICES ASSUME TypeOK, Next
               PROVE  cr' \in CRs \cup {NoCR}
    OBVIOUS
  <1>1. CASE ApplyCR
    <2>1. want.service \in Services /\ want.image \in Images
      BY DEF TypeOK
    <2>2. CASE cr = NoCR
      BY <1>1, <2>1, <2>2 DEF ApplyCR, WriteCR, CRs
    <2>3. CASE cr # NoCR
      <3>1. cr \in CRs
        BY <2>3 DEF TypeOK
      <3>2. [cr EXCEPT !.service = want.service, !.image = want.image, !.observed = FALSE] \in CRs
        BY <2>1, <3>1 DEF CRs
      <3>3. QED
        BY <1>1, <2>3, <3>1, <3>2 DEF ApplyCR, WriteCR
    <2>4. QED
      BY <2>2, <2>3
  <1>2. CASE Observe
    <2>1. cr \in CRs
      BY <1>2 DEF Observe, TypeOK
    <2>2. PICK rolling \in BOOLEAN :
            cr' = [cr EXCEPT !.observed = TRUE, !.updated = @ /\ ~rolling,
                             !.status = IF @ = "" THEN "Pending" ELSE @,
                             !.endpoint = IF cr.service = "ClusterIP" THEN "ClusterIP" ELSE
                                          IF @ = cr.service THEN @ ELSE ""]
      BY <1>2 DEF Observe, WriteCR
    <2>3. (cr.updated /\ ~rolling) \in BOOLEAN
      OBVIOUS
    <2>4. QED
      BY <2>1, <2>2, <2>3 DEF CRs
  <1>3. CASE RolloutEnds
    BY <1>3 DEF RolloutEnds, WriteCR, TypeOK, CRs
  <1>4. CASE AssignAddress
    BY <1>4 DEF AssignAddress, WriteCR, TypeOK, CRs
  <1>5. CASE ReportHealth
    <2>1. cr \in CRs
      BY <1>5 DEF ReportHealth, TypeOK
    <2>2. \/ \E s \in {"Healthy", "Unhealthy", "Stopped"} : cr' = [cr EXCEPT !.status = s]
          \/ \E b \in BOOLEAN : cr' = [cr EXCEPT !.deps = b]
      BY <1>5 DEF ReportHealth, WriteCR
    <2>3. QED
      BY <2>1, <2>2 DEF CRs
  <1>6. CASE ~(ApplyCR \/ Observe \/ RolloutEnds \/ AssignAddress \/ ReportHealth)
    BY <1>6 DEF TypeOK, Next, PassSteps, SyncDataSource, Report, Abort, WatchCR, WatchRestores,
                RolloutStarts, PodChange, RestoreProceeds, ChangeRestore, EditInstance
  <1>7. QED
    BY <1>1, <1>2, <1>3, <1>4, <1>5, <1>6

\* Pods come and go within what each Deployment is made for.
LEMMA PodsStep ==
    ASSUME TypeOK, Next
    PROVE  /\ pods' \in [Deployments -> [desired : Nat, ready : Nat]]
           /\ \A d \in Deployments : pods'[d].desired \in {0, Pods[d]} /\ pods'[d].ready <= Pods[d]
  <1> USE WorkloadAssumption
  <1>1. CASE RolloutStarts
    <2>1. ASSUME NEW d \in Deployments
          PROVE  /\ pods'[d] \in [desired : Nat, ready : Nat]
                 /\ pods'[d].desired \in {0, Pods[d]} /\ pods'[d].ready <= Pods[d]
      BY <1>1, <2>1 DEF RolloutStarts, TypeOK
    <2>2. QED
      BY <1>1, <2>1 DEF RolloutStarts
  <1>2. CASE RolloutEnds
    <2>1. ASSUME NEW d \in Deployments
          PROVE  /\ pods'[d] \in [desired : Nat, ready : Nat]
                 /\ pods'[d].desired \in {0, Pods[d]} /\ pods'[d].ready <= Pods[d]
      BY <1>2, <2>1 DEF RolloutEnds, TypeOK
    <2>2. QED
      BY <1>2, <2>1 DEF RolloutEnds
  <1>3. ASSUME NEW e \in Deployments, PodChange(e)
        PROVE  /\ pods' \in [Deployments -> [desired : Nat, ready : Nat]]
               /\ \A d \in Deployments : pods'[d].desired \in {0, Pods[d]} /\ pods'[d].ready <= Pods[d]
    <2>1. /\ pods[e].ready \in Nat /\ pods[e].desired \in Nat /\ Pods[e] \in Nat
          /\ pods[e].desired <= Pods[e] /\ pods[e].ready <= Pods[e]
      BY DEF TypeOK
    <2>2. PICK n \in Nat : n <= Pods[e] /\ pods' = [pods EXCEPT ![e].ready = n]
      <3>1. CASE pods[e].ready < pods[e].desired /\ pods' = [pods EXCEPT ![e].ready = @ + 1]
        <4>1. pods[e].ready + 1 \in Nat /\ pods[e].ready + 1 <= Pods[e]
          BY <2>1, <3>1
        <4>2. QED
          BY <3>1, <4>1, Zenon
      <3>2. CASE pods[e].ready > pods[e].desired /\ pods' = [pods EXCEPT ![e].ready = @ - 1]
        <4>1. pods[e].ready - 1 \in Nat /\ pods[e].ready - 1 <= Pods[e]
          BY <2>1, <3>2
        <4>2. QED
          BY <3>2, <4>1, Zenon
      <3>3. CASE \E n \in 0 .. pods[e].ready - 1 : pods' = [pods EXCEPT ![e].ready = n]
        <4>1. \A n \in 0 .. pods[e].ready - 1 : n \in Nat /\ n <= Pods[e]
          BY <2>1
        <4>2. QED
          BY <3>3, <4>1, Zenon
      <3>4. QED
        BY <1>3, <3>1, <3>2, <3>3 DEF PodChange
    <2>3. QED
      BY <2>1, <2>2 DEF TypeOK
  <1>4. CASE UNCHANGED pods
    BY <1>4 DEF TypeOK
  <1>5. QED
    BY <1>1, <1>2, <1>3, <1>4
    DEF Next, PassSteps, ApplyCR, SyncDataSource, Report, Abort, WatchCR, WatchRestores, Observe,
        AssignAddress, ReportHealth, RestoreProceeds, ChangeRestore, EditInstance, cluster

\* The Restore that a step moves on stays in one of its states.
LEMMA RestoreStep == TypeOK /\ Next => restore' \in [Restores -> RestoreStates]
  <1> SUFFICES ASSUME TypeOK, Next
               PROVE  restore' \in [Restores -> RestoreStates]
    OBVIOUS
  <1>1. restore \in [Restores -> RestoreStates]
    BY DEF TypeOK
  <1>2. {"Pending", "Deleting"} \subseteq RestoreStates
    BY DEF RestoreStates
  <1>3. CASE SyncDataSource
    BY <1>1, <1>2, <1>3 DEF SyncDataSource
  <1>4. CASE \E r \in Restores : RestoreProceeds(r)
    BY <1>1, <1>4 DEF RestoreProceeds
  <1>5. CASE ChangeRestore
    BY <1>1, <1>2, <1>5 DEF ChangeRestore
  <1>6. CASE UNCHANGED restore
    BY <1>1, <1>6
  <1>7. QED
    BY <1>3, <1>4, <1>5, <1>6
    DEF Next, PassSteps, ApplyCR, Report, Abort, WatchCR, WatchRestores, Observe, RolloutStarts,
        RolloutEnds, AssignAddress, ReportHealth, PodChange, EditInstance, cluster

\* A pass goes through its steps.
LEMMA PassStep ==
    ASSUME TypeOK, Next
    PROVE  pass' \in [at : {"idle", "seed", "report"}, source : {"none", "waiting", "done"},
                      known : SUBSET Restores]
  <1> DEFINE P == [at : {"idle", "seed", "report"}, source : {"none", "waiting", "done"},
                   known : SUBSET Restores]
  <1>1. pass \in P /\ Idle \in P
    BY DEF TypeOK, Idle
  <1>2. CASE ApplyCR
    BY <1>1, <1>2 DEF ApplyCR
  <1>3. CASE SyncDataSource
    BY <1>1, <1>3 DEF SyncDataSource, SourceState
  <1>4. CASE pass' = Idle
    BY <1>1, <1>4
  <1>5. CASE UNCHANGED pass
    BY <1>1, <1>5
  <1>6. QED
    BY <1>2, <1>3, <1>4, <1>5
    DEF Next, PassSteps, Report, Abort, WatchCR, WatchRestores, Observe, RolloutStarts,
        RolloutEnds, AssignAddress, ReportHealth, PodChange, RestoreProceeds, ChangeRestore,
        EditInstance

\* What is counted stays within its bounds, and with it the images asked for.
LEMMA CountersStep ==
    ASSUME TypeOK, Next
    PROVE  edits' \in 0..MaxEdits /\ faults' \in 0..MaxFaults
  <1> USE BoundAssumption
  <1>1. edits \in 0..MaxEdits /\ faults \in 0..MaxFaults
    BY DEF TypeOK
  <1>2. UNCHANGED edits \/ Edit
    BY DEF Next, PassSteps, ApplyCR, SyncDataSource, Report, Abort, WatchCR, WatchRestores, Observe,
           RolloutStarts, RolloutEnds, AssignAddress, ReportHealth, PodChange, RestoreProceeds,
           ChangeRestore, EditInstance, counters
  <1>3. UNCHANGED faults \/ Fault
    BY DEF Next, PassSteps, ApplyCR, SyncDataSource, Report, Abort, WatchCR, WatchRestores, Observe,
           RolloutStarts, RolloutEnds, AssignAddress, ReportHealth, PodChange, RestoreProceeds,
           ChangeRestore, EditInstance, counters
  <1>4. QED
    BY <1>1, <1>2, <1>3 DEF Edit, Fault

\* Every step keeps the types.
LEMMA TypeStep == TypeOK /\ [Next]_vars => TypeOK'
  <1> SUFFICES ASSUME TypeOK, [Next]_vars
               PROVE  TypeOK'
    OBVIOUS
  <1>1. CASE UNCHANGED vars
    BY <1>1 DEF vars, TypeOK, Workloads
  <1>2. CASE Next
    <2>1. want' \in [service : Services, image : Images] /\ want'.image <= edits' + 1
      <3> /\ want \in [service : Services, image : Images] /\ want.image <= edits + 1
          /\ edits \in Nat /\ edits <= MaxEdits /\ MaxEdits \in Nat
        BY BoundAssumption DEF TypeOK
      <3>1. CASE EditInstance
        <4>1. /\ want.image + 1 \in Images /\ want.image + 1 <= edits' + 1
              /\ want.image <= edits' + 1
          BY <3>1 DEF EditInstance, Edit, Images
        <4>2. CASE want' = [want EXCEPT !.image = @ + 1]
          BY <4>1, <4>2
        <4>3. CASE \E s \in Services \ {want.service} : want' = [want EXCEPT !.service = s]
          BY <4>1, <4>3
        <4>4. QED
          BY <3>1, <4>2, <4>3 DEF EditInstance
      <3>2. CASE UNCHANGED want
        <4>1. edits' \in Nat /\ edits <= edits'
          <5>1. UNCHANGED edits \/ Edit
            BY <1>2
            DEF Next, PassSteps, ApplyCR, SyncDataSource, Report, Abort, WatchCR, WatchRestores,
                Observe, RolloutStarts, RolloutEnds, AssignAddress, ReportHealth, PodChange,
                RestoreProceeds, ChangeRestore, EditInstance, counters
          <5>2. QED
            BY <5>1 DEF Edit
        <4>2. want.image \in Nat
          BY DEF Images
        <4>3. QED
          BY <3>2, <4>1, <4>2
      <3>3. QED
        BY <1>2, <3>1, <3>2
        DEF Next, PassSteps, ApplyCR, SyncDataSource, Report, Abort, WatchCR, WatchRestores,
            Observe, RolloutStarts, RolloutEnds, AssignAddress, ReportHealth, PodChange,
            RestoreProceeds, ChangeRestore
    <2>2. service' \in Services
      <3>1. CASE Observe
        BY <3>1 DEF Observe, TypeOK, CRs
      <3>2. CASE UNCHANGED service
        BY <3>2 DEF TypeOK
      <3>3. QED
        BY <1>2, <3>1, <3>2
        DEF Next, PassSteps, ApplyCR, SyncDataSource, Report, Abort, WatchCR, WatchRestores,
            RolloutStarts, RolloutEnds, AssignAddress, ReportHealth, PodChange,
            RestoreProceeds, ChangeRestore, EditInstance, cluster
    <2>3. seen' \in [cr : CRs \cup {NoCR}, restore : [Restores -> RestoreStates]]
      <3>1. CASE WatchCR
        BY <3>1 DEF WatchCR, TypeOK
      <3>2. CASE WatchRestores
        BY <3>2 DEF WatchRestores, TypeOK
      <3>3. CASE UNCHANGED seen
        BY <3>3 DEF TypeOK
      <3>4. QED
        BY <1>2, <3>1, <3>2, <3>3
        DEF Next, PassSteps, ApplyCR, SyncDataSource, Report, Abort, Observe,
            RolloutStarts, RolloutEnds, AssignAddress, ReportHealth, PodChange,
            RestoreProceeds, ChangeRestore, EditInstance
    <2>4. /\ source' \in BOOLEAN /\ seeded' \in BOOLEAN
          /\ unseen' \in BOOLEAN /\ queued' \in BOOLEAN
      BY <1>2
      DEF TypeOK, Next, PassSteps, ApplyCR, SyncDataSource, Report, Abort, WatchCR, WatchRestores,
          Observe, RolloutStarts, RolloutEnds, AssignAddress, ReportHealth, PodChange,
          RestoreProceeds, ChangeRestore, EditInstance, cluster, EnqueueRestoreInstance,
          EnqueueDependencyInstance, WriteCR
    <2>5. reported' \in [phase : Phases, host : {"none"} \cup Services, short : SUBSET Workloads]
      <3>1. CASE Report
        BY <3>1, StatusType DEF Report, TypeOK
      <3>2. CASE UNCHANGED reported
        BY <3>2 DEF TypeOK
      <3>3. QED
        BY <1>2, <3>1, <3>2
        DEF Next, PassSteps, ApplyCR, SyncDataSource, Abort, WatchCR, WatchRestores, Observe,
            RolloutStarts, RolloutEnds, AssignAddress, ReportHealth, PodChange,
            RestoreProceeds, ChangeRestore, EditInstance
    <2>6. QED
      BY <1>2, <2>1, <2>2, <2>3, <2>4, <2>5, CRStep, PodsStep, RestoreStep, PassStep,
         CountersStep DEF TypeOK, Workloads
  <1>3. QED
    BY <1>1, <1>2

\* InstanceStatus keeps its variables in their types (TypeOK).
THEOREM TypeCorrect == Spec => []TypeOK
  BY InitTypes, TypeStep, PTL DEF Spec

-----------------------------------------------------------------------------
\* What the data source of an instance means for what is reported: without its
\* data a pass waits, and nothing it reports has an address.
SeedInv == /\ source \/ seeded
           /\ ~seeded => reported.host = "none"
           /\ ~seeded /\ pass.at = "report" => pass.source = "waiting"

\* The cache of Restores is behind them, never ahead, and a pass knows of those it
\* has seen.
Over == {"Succeeded", "Failed", "Deleting"}
KnownInv == /\ \A r \in Restores : /\ restore[r] = "absent" => seen.restore[r] = "absent"
                                   /\ seen.restore[r] \in Over => restore[r] \in Over
            /\ \A r \in pass.known : seen.restore[r] # "absent"

IInv == TypeOK /\ SeedInv /\ KnownInv

\* An instance of which nothing was reported satisfies the invariant.
LEMMA InitHolds == Init => IInv
  <1> SUFFICES ASSUME Init
               PROVE  SeedInv /\ KnownInv
    BY InitTypes DEF IInv
  <1>1. SeedInv
    BY DEF Init, SeedInv, Nothing, Idle
  <1>2. KnownInv
    BY DEF Init, KnownInv, Idle, Over
  <1>3. QED
    BY <1>1, <1>2

\* A report of an instance that waits for its data has no address, as one of an
\* instance with a Restore under way that the cache shows.
LEMMA HiddenStatus ==
    ASSUME NEW c, NEW state, state = "waiting" \/ ActiveRestore
    PROVE  Status(c, state).host = "none"
  BY DEF Status, Phase, Nothing

\* Nothing is reported of a seeded instance before its data is in.
LEMMA SeedStep == IInv /\ [Next]_vars => SeedInv'
  <1> SUFFICES ASSUME IInv, [Next]_vars
               PROVE  SeedInv'
    OBVIOUS
  <1> USE DEF IInv, SeedInv
  <1>1. CASE SyncDataSource
    <2>1. ~seeded => pass'.source = "waiting"
      BY <1>1 DEF SyncDataSource, SourceState, TypeOK
    <2>2. QED
      BY <1>1, <2>1 DEF SyncDataSource
  <1>2. CASE Report
    <2>1. ~seeded => reported'.host = "none"
      BY <1>2, HiddenStatus DEF Report
    <2>2. pass'.at = "idle"
      BY <1>2 DEF Report, Idle
    <2>3. QED
      BY <1>2, <2>1, <2>2 DEF Report, cluster
  <1>3. CASE ApplyCR
    <2>1. pass'.at = "seed"
      BY <1>3 DEF ApplyCR, Idle
    <2>2. QED
      BY <1>3, <2>1 DEF ApplyCR, cluster
  <1>4. CASE Abort
    <2>1. pass'.at = "idle"
      BY <1>4 DEF Abort, Idle
    <2>2. QED
      BY <1>4, <2>1 DEF Abort, cluster
  <1>5. CASE UNCHANGED <<source, reported, pass>> /\ (seeded => seeded')
    BY <1>5
  <1>6. CASE ~(SyncDataSource \/ Report \/ ApplyCR \/ Abort)
    BY <1>5, <1>6
    DEF Next, PassSteps, WatchCR, WatchRestores, Observe, RolloutStarts, RolloutEnds,
        AssignAddress, ReportHealth, PodChange, RestoreProceeds, ChangeRestore, EditInstance,
        cluster, vars
  <1>7. QED
    BY <1>1, <1>2, <1>3, <1>4, <1>6

\* Restores move on, and the cache and the pass follow.
LEMMA KnownStep == IInv /\ [Next]_vars => KnownInv'
  <1> SUFFICES ASSUME IInv, [Next]_vars
               PROVE  KnownInv'
    OBVIOUS
  <1> USE DEF IInv, KnownInv, Over
  <1>1. CASE UNCHANGED seen /\ pass'.known \subseteq pass.known
    <2>1. ASSUME NEW r \in Restores
          PROVE  /\ restore'[r] = "absent" => restore[r] = "absent"
                 /\ restore[r] \in Over => restore'[r] \in Over
      <3>1. CASE SyncDataSource
        BY <3>1 DEF SyncDataSource, TypeOK
      <3>2. ASSUME NEW q \in Restores, RestoreProceeds(q)
            PROVE  /\ restore'[r] = "absent" => restore[r] = "absent"
                   /\ restore[r] \in Over => restore'[r] \in Over
        BY <3>2 DEF RestoreProceeds, Unfinished, TypeOK
      <3>3. CASE ChangeRestore
        BY <3>3 DEF ChangeRestore, TypeOK
      <3>4. CASE UNCHANGED restore
        BY <3>4
      <3>5. QED
        BY <3>1, <3>2, <3>3, <3>4
        DEF Next, PassSteps, ApplyCR, Report, Abort, WatchCR, WatchRestores, Observe,
            RolloutStarts, RolloutEnds, AssignAddress, ReportHealth, PodChange, EditInstance,
            cluster, vars
    <2>2. ASSUME NEW r \in Restores
          PROVE  /\ restore'[r] = "absent" => seen'.restore[r] = "absent"
                 /\ seen'.restore[r] \in Over => restore'[r] \in Over
      <3>1. seen' = seen
        BY <1>1
      <3>2. /\ restore[r] = "absent" => seen.restore[r] = "absent"
            /\ seen.restore[r] \in Over => restore[r] \in Over
        OBVIOUS
      <3>3. QED
        BY <2>1, <3>1, <3>2
    <2>3. \A r \in pass'.known : seen'.restore[r] # "absent"
      BY <1>1
    <2>4. QED
      BY <2>2, <2>3
  <1>2. CASE ApplyCR
    <2>1. pass'.known = {r \in Restores : seen.restore[r] \in {"Pending", "Running"}}
      BY <1>2 DEF ApplyCR, Idle
    <2>2. QED
      BY <1>2, <2>1 DEF ApplyCR, cluster
  <1>3. CASE WatchRestores
    <2>1. seen'.restore = restore /\ restore' = restore /\ pass' = pass
      BY <1>3 DEF WatchRestores, cluster, TypeOK
    <2>2. \A r \in pass.known : restore[r] # "absent"
      <3>1. pass.known \subseteq Restores
        BY DEF TypeOK
      <3>2. ASSUME NEW r \in pass.known
            PROVE  restore[r] # "absent"
        <4>1. r \in Restores /\ seen.restore[r] # "absent"
          BY <3>1
        <4>2. QED
          BY <4>1
      <3>3. QED
        BY <3>2
    <2>3. QED
      BY <2>1, <2>2
  <1>4. CASE WatchCR
    <2>1. seen'.restore = seen.restore /\ restore' = restore /\ pass' = pass
      BY <1>4 DEF WatchCR, cluster, TypeOK
    <2>2. QED
      BY <2>1
  <1>5. CASE ~(ApplyCR \/ WatchRestores \/ WatchCR)
    <2>1. UNCHANGED seen
      BY <1>5
      DEF Next, PassSteps, SyncDataSource, Report, Abort, Observe, RolloutStarts, RolloutEnds,
          AssignAddress, ReportHealth, PodChange, RestoreProceeds, ChangeRestore, EditInstance, vars
    <2>2. pass'.known = pass.known \/ pass' = Idle
      BY <1>5
      DEF TypeOK, Next, PassSteps, SyncDataSource, Report, Abort, Observe, RolloutStarts,
          RolloutEnds, AssignAddress, ReportHealth, PodChange, RestoreProceeds, ChangeRestore,
          EditInstance, vars
    <2>3. QED
      BY <1>1, <2>1, <2>2 DEF Idle
  <1>6. QED
    BY <1>2, <1>3, <1>4, <1>5

\* The inductive invariant holds in every reachable state.
THEOREM InvariantHolds == Spec => []IInv
  <1>1. IInv /\ [Next]_vars => IInv'
    BY TypeStep, SeedStep, KnownStep DEF IInv
  <1>2. QED
    BY InitHolds, <1>1, PTL DEF Spec

-----------------------------------------------------------------------------
\* An instance that starts from a backup has no address before the data is in
\* (SeededFirst).
THEOREM AddressAfterData == Spec => SeededFirst
  <1>1. IInv /\ [Next]_vars => [~seeded => reported'.host = "none"]_vars
    <2> SUFFICES ASSUME IInv, Next, ~seeded
                 PROVE  reported'.host = "none"
      OBVIOUS
    <2>1. CASE Report
      BY <2>1, HiddenStatus DEF Report, IInv, SeedInv
    <2>2. CASE UNCHANGED reported
      BY <2>2 DEF IInv, SeedInv
    <2>3. QED
      BY <2>1, <2>2
      DEF Next, PassSteps, ApplyCR, SyncDataSource, Abort, WatchCR, WatchRestores, Observe,
          RolloutStarts, RolloutEnds, AssignAddress, ReportHealth, PodChange, RestoreProceeds,
          ChangeRestore, EditInstance
  <1>2. QED
    BY InvariantHolds, <1>1, PTL DEF Spec, SeededFirst

\* A Restore the provider knew of when the pass began hides the instance until it
\* is over (RestoreHidesInstance).
THEOREM RestoreHides == Spec => RestoreHidesInstance
  <1>1. IInv /\ [Next]_vars =>
          [pass.at = "report" /\ pass'.at = "idle" /\ reported'.host # "none" /\ faults' = faults
             => \A r \in pass.known : ~Unfinished(r)]_vars
    <2> SUFFICES ASSUME IInv, Next, pass.at = "report", pass'.at = "idle",
                        reported'.host # "none", faults' = faults,
                        NEW r \in pass.known
                 PROVE  ~Unfinished(r)
      OBVIOUS
    <2>1. faults \in Nat
      BY BoundAssumption DEF IInv, TypeOK
    <2>2. Report
      <3>1. ~SyncDataSource
        BY DEF SyncDataSource, IInv, TypeOK
      <3>2. ~Abort
        BY <2>1 DEF Abort, Fault
      <3>3. QED
        BY <3>1, <3>2
        DEF Next, PassSteps, ApplyCR, WatchCR, WatchRestores, Observe, RolloutStarts, RolloutEnds,
            AssignAddress, ReportHealth, PodChange, RestoreProceeds, ChangeRestore, EditInstance
    <2>3. ~ActiveRestore
      BY <2>2, HiddenStatus DEF Report
    <2>4. r \in Restores /\ seen.restore[r] \in RestoreStates
      BY DEF IInv, TypeOK
    <2>5. seen.restore[r] \in Over
      BY <2>3, <2>4 DEF ActiveRestore, IInv, KnownInv, RestoreStates, Over
    <2>6. QED
      BY <2>4, <2>5 DEF IInv, KnownInv, Over, Unfinished
  <1>2. QED
    BY InvariantHolds, <1>1, PTL DEF Spec, RestoreHidesInstance
-----------------------------------------------------------------------------
\* Nothing will wake the provider: no watch event is under way.
Quiet == ~queued /\ ~unseen /\ seen.restore = restore

\* A Restore never returns to a state it was in.
Rank(s) == IF s = "absent" THEN 0
           ELSE IF s = "Pending" THEN 1
           ELSE IF s = "Running" THEN 2
           ELSE IF s = "Deleting" THEN 4
           ELSE 3

\* So what the cache holds of Restores is theirs, or one they have left for good.
BehindInv == \A r \in Restores : \/ seen.restore[r] = restore[r]
                                 \/ Rank(seen.restore[r]) < Rank(restore[r])

\* Everything a report rests on wakes the provider when it changes, or does not
\* count as long as the watch event that goes with it is under way.
WakeUpInv ==
    /\ ~unseen => seen.cr = cr
    /\ ~queued => cr.made /\ want = [service |-> cr.service, image |-> cr.image]
    /\ Quiet /\ pass.at = "report" => pass.source = SourceState
    /\ Quiet /\ pass.at = "idle" => reported = Status(seen.cr, SourceState)

\* What the operator has taken up it has made: the Service, and an endpoint of it.
ObservedInv ==
    cr.made /\ cr.observed =>
        /\ service = cr.service
        /\ cr.service = "ClusterIP" => cr.endpoint = "ClusterIP"
        /\ cr.service # "ClusterIP" => cr.endpoint \in {"", cr.service}

\* A rollout leaves no workload without a Deployment that counts.
CountedInv == \A w \in Workloads : Counted(w) # {}

RestInv == TypeOK /\ BehindInv /\ WakeUpInv /\ ObservedInv /\ CountedInv

\* A provider that rests reports what is the case, and has applied what was asked:
\* what StatusSettles says will come about is all that can keep it from resting.
RestingIsRight ==
    Quiet /\ pass.at = "idle" =>
        /\ cr.made /\ want = [service |-> cr.service, image |-> cr.image]
        /\ StatusIsRight

\* Restores only move on.
LEMMA RestoreRises ==
    ASSUME TypeOK, Next, NEW r \in Restores
    PROVE  restore'[r] = restore[r] \/ Rank(restore[r]) < Rank(restore'[r])
  <1> USE DEF Rank
  <1>1. restore[r] \in RestoreStates
    BY DEF TypeOK
  <1>2. CASE SyncDataSource
    BY <1>2 DEF SyncDataSource, TypeOK
  <1>3. ASSUME NEW q \in Restores, RestoreProceeds(q)
        PROVE  restore'[r] = restore[r] \/ Rank(restore[r]) < Rank(restore'[r])
    BY <1>1, <1>3 DEF RestoreProceeds, Unfinished, RestoreStates, TypeOK
  <1>4. CASE ChangeRestore
    BY <1>1, <1>4 DEF ChangeRestore, RestoreStates, TypeOK
  <1>5. CASE UNCHANGED restore
    BY <1>5
  <1>6. QED
    BY <1>2, <1>3, <1>4, <1>5
    DEF Next, PassSteps, ApplyCR, Report, Abort, WatchCR, WatchRestores, Observe, RolloutStarts,
        RolloutEnds, AssignAddress, ReportHealth, PodChange, EditInstance, cluster

\* The cache stays behind the Restores.
LEMMA BehindStep == TypeOK /\ BehindInv /\ [Next]_vars => BehindInv'
  <1> SUFFICES ASSUME TypeOK, BehindInv, [Next]_vars, NEW r \in Restores
               PROVE  \/ seen'.restore[r] = restore'[r]
                      \/ Rank(seen'.restore[r]) < Rank(restore'[r])
    BY DEF BehindInv
  <1>1. restore'[r] = restore[r] \/ Rank(restore[r]) < Rank(restore'[r])
    BY RestoreRises DEF vars
  <1>2. CASE UNCHANGED seen.restore
    <2>1. seen.restore[r] = restore[r] \/ Rank(seen.restore[r]) < Rank(restore[r])
      BY DEF BehindInv
    <2>2. \A s : Rank(s) \in Nat
      BY DEF Rank
    <2>3. QED
      BY <1>1, <1>2, <2>1, <2>2
  <1>3. CASE WatchRestores
    BY <1>3 DEF WatchRestores, TypeOK, cluster
  <1>4. QED
    BY <1>2, <1>3
    DEF TypeOK, Next, PassSteps, ApplyCR, SyncDataSource, Report, Abort, WatchCR, Observe,
        RolloutStarts, RolloutEnds, AssignAddress, ReportHealth, PodChange, RestoreProceeds,
        ChangeRestore, EditInstance, vars

\* A step that changes a Restore leaves the cache behind.
LEMMA RestoreShows ==
    ASSUME TypeOK, BehindInv, Next, UNCHANGED seen, restore' # restore
    PROVE  seen'.restore # restore'
  <1>1. restore' \in [Restores -> RestoreStates] /\ restore \in [Restores -> RestoreStates]
    BY RestoreStep DEF TypeOK
  <1>2. PICK r \in Restores : restore'[r] # restore[r]
    BY <1>1
  <1>3. Rank(restore[r]) < Rank(restore'[r])
    BY <1>2, RestoreRises
  <1>4. seen.restore[r] = restore[r] \/ Rank(seen.restore[r]) < Rank(restore[r])
    BY DEF BehindInv
  <1>5. \A s : Rank(s) \in Nat
    BY DEF Rank
  <1>6. seen.restore[r] # restore'[r]
    BY <1>3, <1>4, <1>5
  <1>7. QED
    BY <1>6

\* What the operator does to the CR is a change of it, which has its watch event.
LEMMA OperatorShows ==
    ASSUME TypeOK, Observe \/ RolloutEnds \/ AssignAddress \/ ReportHealth
    PROVE  unseen'
  <1>1. cr \in CRs
    BY DEF TypeOK, Observe, RolloutEnds, AssignAddress, ReportHealth
  <1>2. cr' # cr => unseen'
    <2>1. \E c : WriteCR(c)
      BY Zenon DEF Observe, RolloutEnds, AssignAddress, ReportHealth
    <2>2. QED
      BY <2>1 DEF WriteCR
  <1>3. CASE Observe
    BY <1>1, <1>2, <1>3 DEF Observe, WriteCR, CRs
  <1>4. CASE RolloutEnds
    BY <1>1, <1>2, <1>4 DEF RolloutEnds, WriteCR, CRs
  <1>5. CASE AssignAddress
    BY <1>1, <1>2, <1>5 DEF AssignAddress, WriteCR, CRs
  <1>6. CASE ReportHealth
    BY <1>1, <1>2, <1>6 DEF ReportHealth, WriteCR, CRs
  <1>7. QED
    BY <1>3, <1>4, <1>5, <1>6

\* The steps after which nothing will wake the provider are those of a pass, and
\* the start of a rollout, that the CR tells of.
LEMMA QuietSteps ==
    ASSUME TypeOK, BehindInv, Next, Quiet'
    PROVE  \/ ApplyCR
           \/ SyncDataSource /\ UNCHANGED restore
           \/ Report
           \/ RolloutStarts
  <1>1. ~(Abort \/ WatchCR \/ WatchRestores \/ EditInstance \/ \E d \in Deployments : PodChange(d))
    BY DEF Quiet, Abort, WatchCR, WatchRestores, EditInstance, PodChange, EnqueueRestoreInstance,
           EnqueueDependencyInstance
  <1>2. ~(Observe \/ RolloutEnds \/ AssignAddress \/ ReportHealth)
    BY OperatorShows DEF Quiet
  <1>3. ~(ChangeRestore \/ \E r \in Restores : RestoreProceeds(r))
    <2>1. ASSUME ChangeRestore \/ \E r \in Restores : RestoreProceeds(r)
          PROVE  UNCHANGED seen /\ restore' # restore
      BY <2>1 DEF ChangeRestore, RestoreProceeds, TypeOK
    <2>2. QED
      BY <2>1, RestoreShows DEF Quiet
  <1>4. SyncDataSource => UNCHANGED restore
    BY RestoreShows DEF Quiet, SyncDataSource
  <1>5. QED
    BY <1>1, <1>2, <1>3, <1>4 DEF Next, PassSteps

\* A pass decides on the data source by what does not change with the pods.
LEMMA SourceSame ==
    ASSUME UNCHANGED <<source, seeded, seen>>
    PROVE  SourceState' = SourceState
  BY DEF SourceState, SeenHealthy

\* What is short of pods is the same while no pod changes.
LEMMA ShortSame ==
    ASSUME UNCHANGED pods
    PROVE  ShortWorkloads' = ShortWorkloads /\ (Down <=> Down')
  <1>1. \A w : Counted(w)' = Counted(w)
    BY DEF Counted
  <1>2. \A w : Ready(w)' = Ready(w) /\ Desired(w)' = Desired(w)
    BY <1>1 DEF Ready, Desired, MapThenSumSet, MapThenFoldSet
  <1>3. ShortWorkloads' = ShortWorkloads
    BY <1>2 DEF ShortWorkloads, Workloads
  <1>4. QED
    BY <1>2, <1>3 DEF Down

\* The status is the same while neither the CR nor what else is read changes.  Of a
\* CR that tells of a rollout it does not depend on the pods.
LEMMA StatusSame ==
    ASSUME UNCHANGED <<service, source, seeded, seen>>,
           UNCHANGED pods \/ (seen.cr.made /\ ~seen.cr.updated)
    PROVE  Status(seen.cr, SourceState)' = Status(seen.cr, SourceState)
  <1>1. SourceState' = SourceState
    BY SourceSame
  <1>2. (ActiveRestore <=> ActiveRestore') /\ seen'.cr = seen.cr
    BY DEF ActiveRestore
  <1>3. Endpoint(seen.cr)' = Endpoint(seen.cr)
    BY DEF Endpoint
  <1>4. HealthyStatus(seen.cr)' = HealthyStatus(seen.cr)
    <2>1. CASE UNCHANGED pods
      BY <1>2, <1>3, <2>1, ShortSame DEF HealthyStatus, RolloutMessage
    <2>2. CASE seen.cr.made /\ ~seen.cr.updated
      BY <1>2, <1>3, <2>2 DEF HealthyStatus, RolloutMessage
    <2>3. QED
      BY <2>1, <2>2
  <1>5. RolloutMessage(seen.cr)' <=> RolloutMessage(seen.cr)
    BY DEF RolloutMessage
  <1>6. QED
    BY <1>1, <1>2, <1>4, <1>5 DEF Status

\* No watch event that matters is lost (WakeUpInv).
LEMMA WakeUpStep == RestInv /\ [Next]_vars => WakeUpInv'
  <1> SUFFICES ASSUME RestInv, Next
               PROVE  WakeUpInv'
    <2>1. CASE UNCHANGED vars
      <3>1. /\ SourceState' = SourceState
            /\ Status(seen.cr, SourceState)' = Status(seen.cr, SourceState)
        BY <2>1, SourceSame, StatusSame DEF vars
      <3>2. QED
        BY <2>1, <3>1 DEF RestInv, WakeUpInv, Quiet, vars
    <2>2. QED
      BY <2>1
  <1>1. TypeOK /\ BehindInv /\ WakeUpInv
    BY DEF RestInv
  <1>2. ~unseen' => seen'.cr = cr'
    <2>1. CASE WatchCR
      BY <1>1, <2>1 DEF WatchCR, TypeOK
    <2>2. CASE WatchRestores
      BY <1>1, <2>2 DEF WatchRestores, WakeUpInv, TypeOK
    <2>3. CASE UNCHANGED <<seen, cr, unseen>>
      BY <1>1, <2>3 DEF WakeUpInv
    <2>4. CASE UNCHANGED seen /\ \E c : WriteCR(c)
      BY <1>1, <2>4 DEF WakeUpInv, WriteCR
    <2>5. ApplyCR \/ Observe \/ RolloutEnds \/ AssignAddress \/ ReportHealth
            => UNCHANGED seen /\ \E c : WriteCR(c)
      BY Zenon DEF ApplyCR, Observe, RolloutEnds, AssignAddress, ReportHealth
    <2>6. QED
      BY <2>1, <2>2, <2>3, <2>4, <2>5
      DEF Next, PassSteps, SyncDataSource, Report, Abort, RolloutStarts, PodChange,
          RestoreProceeds, ChangeRestore, EditInstance
  <1>3. ~queued' => cr'.made /\ want' = [service |-> cr'.service, image |-> cr'.image]
    <2> SUFFICES ASSUME ~queued'
                 PROVE  cr'.made /\ want' = [service |-> cr'.service, image |-> cr'.image]
      OBVIOUS
    <2>1. CASE ApplyCR
      <3>1. want \in [service : Services, image : Images]
        BY <1>1 DEF TypeOK
      <3>2. CASE cr = NoCR
        BY <2>1, <3>1, <3>2 DEF ApplyCR, WriteCR
      <3>3. CASE cr # NoCR
        <4>1. cr \in CRs
          BY <1>1, <3>3 DEF TypeOK
        <4>2. QED
          BY <2>1, <3>1, <3>3, <4>1 DEF ApplyCR, WriteCR, CRs
      <3>4. QED
        BY <3>2, <3>3
    <2>2. ~(Abort \/ WatchCR \/ WatchRestores \/ EditInstance \/ \E d \in Deployments : PodChange(d))
      BY DEF Abort, WatchCR, WatchRestores, EditInstance, PodChange, EnqueueRestoreInstance,
             EnqueueDependencyInstance
    <2>3. CASE Observe \/ RolloutEnds \/ AssignAddress \/ ReportHealth
      <3>1. cr \in CRs /\ want' = want /\ queued' = queued
        BY <1>1, <2>3 DEF TypeOK, Observe, RolloutEnds, AssignAddress, ReportHealth
      <3>2. cr'.made = cr.made /\ cr'.service = cr.service /\ cr'.image = cr.image
        <4>1. CASE Observe
          BY <3>1, <4>1 DEF Observe, WriteCR, CRs
        <4>2. CASE RolloutEnds
          BY <3>1, <4>2 DEF RolloutEnds, WriteCR, CRs
        <4>3. CASE AssignAddress
          BY <3>1, <4>3 DEF AssignAddress, WriteCR, CRs
        <4>4. CASE ReportHealth
          BY <3>1, <4>4 DEF ReportHealth, WriteCR, CRs
        <4>5. QED
          BY <2>3, <4>1, <4>2, <4>3, <4>4
      <3>3. QED
        BY <1>1, <2>3, <3>1, <3>2 DEF WakeUpInv
    <2>4. CASE UNCHANGED <<queued, cr, want>>
      BY <1>1, <2>4 DEF WakeUpInv
    <2>5. QED
      BY <2>1, <2>2, <2>3, <2>4
      DEF Next, PassSteps, SyncDataSource, Report, RolloutStarts, RestoreProceeds, ChangeRestore
  <1>4. Quiet' /\ pass'.at = "report" => pass'.source = SourceState'
    <2> SUFFICES ASSUME Quiet', pass'.at = "report"
                 PROVE  pass'.source = SourceState'
      OBVIOUS
    <2>1. CASE SyncDataSource
      BY <1>1, <2>1, SourceSame DEF SyncDataSource, TypeOK
    <2>2. CASE RolloutStarts
      <3>1. Quiet /\ SourceState' = SourceState
        BY <2>2, SourceSame DEF RolloutStarts, Quiet
      <3>2. QED
        BY <1>1, <2>2, <3>1 DEF RolloutStarts, WakeUpInv
    <2>3. ~Report
      BY DEF Report, Idle
    <2>4. ~ApplyCR
      <3>1. ApplyCR => pass'.at = "seed"
        BY DEF ApplyCR, Idle
      <3>2. QED
        BY <3>1
    <2>5. QED
      BY <1>1, <2>1, <2>2, <2>3, <2>4, QuietSteps
  <1>5. Quiet' /\ pass'.at = "idle" => reported' = Status(seen.cr, SourceState)'
    <2> SUFFICES ASSUME Quiet', pass'.at = "idle"
                 PROVE  reported' = Status(seen.cr, SourceState)'
      OBVIOUS
    <2>1. CASE Report
      <3>1. Quiet /\ pass.source = SourceState
        BY <1>1, <2>1 DEF Report, Quiet, WakeUpInv, cluster
      <3>2. Status(seen.cr, SourceState)' = Status(seen.cr, SourceState)
        BY <2>1, StatusSame DEF Report, cluster
      <3>3. QED
        BY <2>1, <3>1, <3>2 DEF Report
    <2>2. CASE RolloutStarts
      <3>1. Quiet /\ pass.at = "idle" /\ reported' = reported
        BY <2>2 DEF RolloutStarts, Quiet
      <3>2. seen.cr = cr /\ cr.made
        BY <1>1, <3>1 DEF WakeUpInv, Quiet
      <3>3. Status(seen.cr, SourceState)' = Status(seen.cr, SourceState)
        BY <2>2, <3>2, StatusSame DEF RolloutStarts
      <3>4. QED
        BY <1>1, <3>1, <3>3 DEF WakeUpInv
    <2>3. ~ApplyCR /\ ~SyncDataSource
      BY <1>1 DEF ApplyCR, SyncDataSource, Idle, TypeOK
    <2>4. QED
      BY <1>1, <2>1, <2>2, <2>3, QuietSteps
  <1>6. QED
    BY <1>2, <1>3, <1>4, <1>5 DEF WakeUpInv

\* The Service and the endpoint are those of the spec the operator has taken up.
LEMMA ObservedStep == TypeOK /\ ObservedInv /\ [Next]_vars => ObservedInv'
  <1> SUFFICES ASSUME TypeOK, ObservedInv, [Next]_vars
               PROVE  ObservedInv'
    OBVIOUS
  <1>1. CASE ApplyCR
    <2>1. CASE cr = NoCR
      BY <1>1, <2>1 DEF ApplyCR, WriteCR, ObservedInv
    <2>2. CASE cr # NoCR
      <3>1. cr \in CRs
        BY <2>2 DEF TypeOK
      <3>2. cr' = cr \/ ~cr'.observed
        BY <1>1, <2>2, <3>1 DEF ApplyCR, WriteCR, CRs
      <3>3. QED
        BY <1>1, <3>2 DEF ApplyCR, ObservedInv, cluster
    <2>3. QED
      BY <2>1, <2>2
  <1>2. CASE Observe
    <2>1. cr \in CRs
      BY <1>2 DEF Observe, TypeOK
    <2>2. /\ service' = cr.service /\ cr'.service = cr.service
          /\ cr'.endpoint = IF cr.service = "ClusterIP" THEN "ClusterIP"
                            ELSE IF cr.endpoint = cr.service THEN cr.endpoint ELSE ""
      BY <1>2, <2>1 DEF Observe, WriteCR, CRs
    <2>3. QED
      BY <2>2 DEF ObservedInv
  <1>3. CASE AssignAddress
    <2>1. cr \in CRs
      BY <1>3 DEF AssignAddress, TypeOK
    <2>2. /\ service' = service /\ cr'.service = cr.service /\ cr.service = "LoadBalancer"
          /\ cr'.endpoint = "LoadBalancer" /\ cr.observed /\ cr.made
      BY <1>3, <2>1 DEF AssignAddress, WriteCR, CRs, cluster
    <2>3. QED
      BY <2>2 DEF ObservedInv
  <1>4. CASE RolloutEnds \/ ReportHealth
    <2>1. cr \in CRs
      BY <1>4 DEF RolloutEnds, ReportHealth, TypeOK
    <2>2. /\ service' = service /\ cr'.service = cr.service /\ cr'.endpoint = cr.endpoint
          /\ cr'.made = cr.made /\ cr'.observed = cr.observed
      <3>1. CASE RolloutEnds
        BY <2>1, <3>1 DEF RolloutEnds, WriteCR, CRs
      <3>2. CASE ReportHealth
        BY <2>1, <3>2 DEF ReportHealth, WriteCR, CRs, cluster
      <3>3. QED
        BY <1>4, <3>1, <3>2
    <2>3. QED
      BY <2>2 DEF ObservedInv
  <1>5. CASE UNCHANGED <<cr, service>>
    BY <1>5 DEF ObservedInv
  <1>6. QED
    BY <1>1, <1>2, <1>3, <1>4, <1>5
    DEF Next, PassSteps, SyncDataSource, Report, Abort, WatchCR, WatchRestores, RolloutStarts,
        PodChange, RestoreProceeds, ChangeRestore, EditInstance, cluster, vars

\* A rollout ends with the Deployment it has started.
LEMMA CountedStep == TypeOK /\ CountedInv /\ [Next]_vars => CountedInv'
  <1> SUFFICES ASSUME TypeOK, CountedInv, [Next]_vars, NEW w \in Workloads
               PROVE  \E d \in Deployments : Workload[d] = w /\ pods'[d].desired > 0
    BY DEF CountedInv, Counted, Workloads
  <1> USE WorkloadAssumption
  <1>1. PICK c \in Deployments : Workload[c] = w /\ pods[c].desired > 0
    BY DEF CountedInv, Counted
  <1>2. \A d \in Deployments : pods[d] \in [desired : Nat, ready : Nat] /\ Pods[d] \in Nat \ {0}
    BY DEF TypeOK
  <1>3. CASE RolloutStarts
    <2>1. pods'[c].desired \in {Pods[c], pods[c].desired}
      BY <1>2, <1>3 DEF RolloutStarts
    <2>2. pods'[c].desired > 0
      BY <1>1, <1>2, <2>1
    <2>3. QED
      BY <1>1, <2>2
  <1>4. CASE RolloutEnds
    <2>1. CASE \E g \in Green : Workload[g] = w
      <3>1. PICK g \in Green : Workload[g] = w
        BY <2>1
      <3>2. g \in Deployments
        OBVIOUS
      <3>3. pods'[g] = pods[g] /\ pods[g].desired = Pods[g]
        BY <1>4, <3>1, <3>2, GreenAssumption DEF RolloutEnds
      <3>4. pods'[g].desired > 0
        BY <1>2, <3>2, <3>3
      <3>5. QED
        BY <3>1, <3>2, <3>4
    <2>2. CASE ~\E g \in Green : Workload[g] = w
      <3>1. pods'[c] = pods[c]
        BY <1>1, <1>4, <2>2 DEF RolloutEnds
      <3>2. QED
        BY <1>1, <3>1
    <2>3. QED
      BY <2>1, <2>2
  <1>5. ASSUME NEW e \in Deployments, PodChange(e)
        PROVE  pods'[c].desired = pods[c].desired
    <2>1. \E n : pods' = [pods EXCEPT ![e].ready = n]
      BY <1>5, Zenon DEF PodChange
    <2>2. QED
      BY <2>1 DEF TypeOK
  <1>6. CASE UNCHANGED pods
    BY <1>1, <1>6
  <1>7. QED
    BY <1>1, <1>3, <1>4, <1>5, <1>6
    DEF Next, PassSteps, ApplyCR, SyncDataSource, Report, Abort, WatchCR, WatchRestores, Observe,
        AssignAddress, ReportHealth, RestoreProceeds, ChangeRestore, EditInstance, cluster, vars

\* Without a CR, nothing is counted wrongly, and the first pass is due.
LEMMA RestInit == Init => RestInv
  <1> SUFFICES ASSUME Init
               PROVE  BehindInv /\ WakeUpInv /\ ObservedInv /\ CountedInv
    BY InitTypes DEF RestInv
  <1>1. BehindInv
    BY DEF Init, BehindInv
  <1>2. WakeUpInv
    BY DEF Init, WakeUpInv, Quiet
  <1>3. ObservedInv
    BY DEF Init, ObservedInv, NoCR
  <1>4. CountedInv
    <2> SUFFICES ASSUME NEW c \in Deployments
                 PROVE  \E d \in Deployments : Workload[d] = Workload[c] /\ pods[d].desired > 0
      BY DEF CountedInv, Counted, Workloads
    <2>1. PICK d \in Deployments \ Green : Workload[d] = Workload[c]
      BY GreenAssumption
    <2>2. pods[d].desired = Pods[d] /\ Pods[d] \in Nat \ {0}
      BY <2>1, WorkloadAssumption DEF Init
    <2>3. QED
      BY <2>1, <2>2
  <1>5. QED
    BY <1>1, <1>2, <1>3, <1>4

\* The pods of a workload are a total over its Deployments that count.
LEMMA ReadyIsTotal ==
    ASSUME TypeOK, NEW w
    PROVE  /\ Ready(w) = Total([d \in Deployments |-> pods[d].ready], Counted(w))
           /\ Desired(w) = Total([d \in Deployments |-> pods[d].desired], Counted(w))
  <1> DEFINE T == Counted(w)
             ready == [d \in Deployments |-> pods[d].ready]
             desired == [d \in Deployments |-> pods[d].desired]
             first(t) == CHOOSE d \in t : TRUE
             IsReady(h) == h = [t \in SUBSET T |-> IF t = {} THEN 0
                                ELSE pods[first(t)].ready + h[t \ {first(t)}]]
             IsDesired(h) == h = [t \in SUBSET T |-> IF t = {} THEN 0
                                  ELSE pods[first(t)].desired + h[t \ {first(t)}]]
  <1>1. IsFiniteSet(T)
    BY WorkloadAssumption, FS_Subset DEF Counted
  <1>2. \A d \in T : ready[d] \in Nat /\ desired[d] \in Nat
    BY DEF Counted, TypeOK
  <1>3. Ready(w) = (CHOOSE h : IsReady(h))[T] /\ Desired(w) = (CHOOSE h : IsDesired(h))[T]
    BY DEF Ready, Desired, MapThenSumSet, MapThenFoldSet
  <1>4. ASSUME NEW t \in SUBSET T, t # {}
        PROVE  ready[first(t)] = pods[first(t)].ready /\ desired[first(t)] = pods[first(t)].desired
    <2>1. first(t) \in t
      BY <1>4
    <2>2. first(t) \in Deployments
      BY <2>1 DEF Counted
    <2>3. QED
      BY <2>2
  <1>5. ASSUME NEW h
        PROVE  /\ IsReady(h) <=> IsTotalling(ready, T, h)
               /\ IsDesired(h) <=> IsTotalling(desired, T, h)
    <2> HIDE DEF T, ready, desired
    <2>1. [t \in SUBSET T |-> IF t = {} THEN 0 ELSE pods[first(t)].ready + h[t \ {first(t)}]]
            = [t \in SUBSET T |-> IF t = {} THEN 0 ELSE ready[first(t)] + h[t \ {first(t)}]]
      BY <1>4
    <2>2. [t \in SUBSET T |-> IF t = {} THEN 0 ELSE pods[first(t)].desired + h[t \ {first(t)}]]
            = [t \in SUBSET T |-> IF t = {} THEN 0 ELSE desired[first(t)] + h[t \ {first(t)}]]
      BY <1>4
    <2>3. QED
      BY <2>1, <2>2 DEF IsTotalling
  <1> HIDE DEF T, ready, desired, IsReady, IsDesired
  <1>6. IsReady(CHOOSE h : IsReady(h)) /\ IsDesired(CHOOSE h : IsDesired(h))
    <2>1. (\E h : IsReady(h)) /\ (\E h : IsDesired(h))
      BY <1>1, <1>2, <1>5, TotallingExists
    <2>2. QED
      BY <2>1
  <1>7. Ready(w) = Cardinality(Units(ready, T)) /\ Desired(w) = Cardinality(Units(desired, T))
    BY <1>1, <1>2, <1>3, <1>5, <1>6, TotallingIsCount
  <1>8. QED
    BY <1>1, <1>2, <1>7, TotalIsCount DEF T, ready, desired

\* A workload is short when one of its Deployments that count is, and has none when
\* none of them has.
LEMMA ShortIs ==
    ASSUME TypeOK, NEW w
    PROVE  /\ Ready(w) < Desired(w) <=> \E d \in Counted(w) : pods[d].ready < pods[d].desired
           /\ Ready(w) = 0 <=> \A d \in Counted(w) : pods[d].ready = 0
  <1> DEFINE T == Counted(w)
             ready == [d \in Deployments |-> pods[d].ready]
             desired == [d \in Deployments |-> pods[d].desired]
  <1>1. IsFiniteSet(T)
    BY WorkloadAssumption, FS_Subset DEF Counted
  <1>2. ASSUME NEW d \in T
        PROVE  /\ ready[d] \in Nat /\ desired[d] \in Nat /\ ready[d] <= desired[d]
               /\ ready[d] = pods[d].ready /\ desired[d] = pods[d].desired
    BY <1>2, WorkloadAssumption DEF Counted, TypeOK
  <1>3. Ready(w) = Total(ready, T) /\ Desired(w) = Total(desired, T)
    BY ReadyIsTotal
  <1> HIDE DEF T, ready, desired
  <1>4. Total(ready, T) < Total(desired, T) <=> \E d \in T : ready[d] < desired[d]
    BY <1>1, <1>2, TotalFallsShort
  <1>5. Total(ready, T) = 0 <=> \A d \in T : ready[d] = 0
    BY <1>1, <1>2, TotalIsZero
  <1>6. /\ Ready(w) < Desired(w) <=> \E d \in T : pods[d].ready < pods[d].desired
        /\ Ready(w) = 0 <=> \A d \in T : pods[d].ready = 0
    BY <1>2, <1>3, <1>4, <1>5
  <1>7. QED
    BY <1>6 DEF T

\* So an instance is down when a workload has no ready pod at all.
LEMMA DownIs ==
    ASSUME TypeOK, CountedInv
    PROVE  /\ ShortWorkloads = {w \in Workloads : \E d \in Counted(w) :
                                   pods[d].ready < pods[d].desired}
           /\ ~Down <=> \A w \in Workloads : \E d \in Counted(w) : pods[d].ready > 0
  <1>1. ShortWorkloads = {w \in Workloads : \E d \in Counted(w) : pods[d].ready < pods[d].desired}
    BY ShortIs DEF ShortWorkloads
  <1>2. \A w : \A d \in Counted(w) : /\ pods[d].ready \in Nat /\ pods[d].desired \in Nat
                                     /\ pods[d].desired > 0
    BY DEF Counted, TypeOK
  <1>3. ASSUME Down
        PROVE  \E w \in Workloads : \A d \in Counted(w) : ~(pods[d].ready > 0)
    <2>1. PICK w \in Workloads : Ready(w) = 0
      BY <1>3 DEF Down, ShortWorkloads
    <2>2. \A d \in Counted(w) : pods[d].ready = 0
      BY <2>1, ShortIs
    <2>3. QED
      BY <2>2
  <1>4. ASSUME NEW w \in Workloads, \A d \in Counted(w) : ~(pods[d].ready > 0)
        PROVE  Down
    <2>1. \A d \in Counted(w) : pods[d].ready = 0
      BY <1>2, <1>4
    <2>2. PICK d \in Counted(w) : TRUE
      BY DEF CountedInv
    <2>3. pods[d].ready < pods[d].desired
      BY <1>2, <2>1
    <2>4. Ready(w) = 0 /\ w \in ShortWorkloads
      BY <1>1, <2>1, <2>3, ShortIs
    <2>5. QED
      BY <2>4 DEF Down
  <1>5. QED
    BY <1>1, <1>3, <1>4

\* The address of a Service the operator has taken up: there is none as long as a
\* load balancer waits for its own.
LEMMA EndpointIs ==
    ASSUME TypeOK, ObservedInv, cr.made, cr.observed
    PROVE  /\ service = cr.service
           /\ Endpoint(cr) = "none" <=> cr.service = "LoadBalancer" /\ cr.endpoint = ""
           /\ Endpoint(cr) # "none" => Endpoint(cr) = cr.service
  <1>1. cr \in CRs
    BY DEF TypeOK, NoCR
  <1>2. /\ service = cr.service
        /\ cr.service = "ClusterIP" => cr.endpoint = "ClusterIP"
        /\ cr.service # "ClusterIP" => cr.endpoint \in {"", cr.service}
    BY DEF ObservedInv
  <1>3. cr.service \in Services /\ cr.endpoint \in {"", "ClusterIP", "LoadBalancer"}
    BY <1>1 DEF CRs
  <1>4. QED
    BY <1>2, <1>3 DEF Endpoint, Services

\* What is known of the data source and the Restores when nothing is under way.
LEMMA DataIs ==
    ASSUME TypeOK, SeedInv, Quiet, seen.cr = cr, cr.made
    PROVE  /\ ActiveRestore <=> \E r \in Restores : Unfinished(r)
           /\ cr.status = "Healthy" => (SourceState = "waiting" <=> ~seeded)
  <1>1. ActiveRestore <=> \E r \in Restores : Unfinished(r)
    BY DEF Quiet, ActiveRestore, Unfinished
  <1>2. cr.status = "Healthy" => (SourceState = "waiting" <=> ~seeded)
    BY DEF SourceState, SeenHealthy, SeedInv, TypeOK
  <1>3. QED
    BY <1>1, <1>2

\* The status of what is there is the right one.
LEMMA RestIsRight == IInv /\ RestInv => RestingIsRight
  <1> SUFFICES ASSUME IInv, RestInv, Quiet, pass.at = "idle"
               PROVE  /\ cr.made /\ want = [service |-> cr.service, image |-> cr.image]
                      /\ StatusIsRight
    BY DEF RestingIsRight
  <1> DEFINE state == SourceState
  <1>1. TypeOK /\ SeedInv /\ WakeUpInv /\ ObservedInv /\ CountedInv
    BY DEF IInv, RestInv
  <1>2. /\ seen.cr = cr
        /\ cr.made /\ want = [service |-> cr.service, image |-> cr.image]
        /\ reported = Status(cr, state)
    BY <1>1 DEF WakeUpInv, Quiet
  <1>3. cr \in CRs /\ cr # NoCR
    BY <1>1, <1>2 DEF TypeOK, NoCR
  <1>4. /\ cr.deps \in BOOLEAN /\ cr.observed \in BOOLEAN /\ cr.updated \in BOOLEAN
        /\ cr.service \in Services
    BY <1>3 DEF CRs
  <1>5. /\ ActiveRestore <=> \E r \in Restores : Unfinished(r)
        /\ cr.status = "Healthy" => (state = "waiting" <=> ~seeded)
    BY <1>1, <1>2, DataIs
  <1>6. /\ ShortWorkloads = {w \in Workloads : \E d \in Counted(w) : pods[d].ready < pods[d].desired}
        /\ ~Down <=> \A w \in Workloads : \E d \in Counted(w) : pods[d].ready > 0
    BY <1>1, DownIs
  <1>7. cr.observed => /\ service = cr.service
                       /\ Endpoint(cr) = "none" <=> cr.service = "LoadBalancer" /\ cr.endpoint = ""
                       /\ Endpoint(cr) # "none" => Endpoint(cr) = cr.service
    BY <1>1, <1>2, EndpointIs
  <1> HIDE DEF state
  <1>8. Available <=> /\ cr.status = "Healthy" /\ cr.deps /\ cr.observed /\ cr.updated
                      /\ Endpoint(cr) # "none"
                      /\ state # "waiting" /\ ~ActiveRestore /\ ~Down
    BY <1>3, <1>4, <1>5, <1>6, <1>7 DEF Available
  <1>9. ASSUME Available
        PROVE  reported = [phase |-> "Ready", host |-> Endpoint(cr), short |-> ShortWorkloads]
    BY <1>2, <1>8, <1>9 DEF Status, HealthyStatus, RolloutMessage
  <1>10. ASSUME ~Available
         PROVE  reported.phase # "Ready"
    <2>1. \A p : Phase(p).phase = p
      BY DEF Phase, Nothing
    <2>2. CASE state = "waiting" \/ ActiveRestore
      BY <1>2, <2>1, <2>2 DEF Status
    <2>3. CASE ~(state = "waiting" \/ ActiveRestore) /\ cr.status # "Healthy"
      BY <1>2, <2>1, <2>3 DEF Status
    <2>4. CASE ~(state = "waiting" \/ ActiveRestore) /\ cr.status = "Healthy"
      <3>1. reported = HealthyStatus(cr)
        BY <1>2, <2>4 DEF Status
      <3>2. ~cr.deps \/ Endpoint(cr) = "none" \/ RolloutMessage(cr) \/ Down
        BY <1>8, <1>10, <2>4 DEF RolloutMessage
      <3>3. QED
        BY <2>1, <3>1, <3>2 DEF HealthyStatus
    <2>5. QED
      BY <2>2, <2>3, <2>4
  <1>11. ASSUME \E r \in Restores : Unfinished(r)
         PROVE  reported.phase = "Restoring"
    BY <1>2, <1>5, <1>11 DEF Status, Phase, Nothing
  <1>12. ASSUME Available
         PROVE  /\ reported.host = want.service
                /\ reported.short = {w \in Workloads : \E d \in Counted(w) :
                                        pods[d].ready < pods[d].desired}
    <2>1. want.service = cr.service /\ Endpoint(cr) = cr.service
      BY <1>2, <1>7, <1>8, <1>12
    <2>2. reported.host = Endpoint(cr) /\ reported.short = ShortWorkloads
      BY <1>9, <1>12
    <2>3. QED
      BY <1>6, <2>1, <2>2
  <1>13. reported.phase = "Ready" <=> Available
    BY <1>9, <1>10
  <1>14. QED
    BY <1>2, <1>11, <1>12, <1>13 DEF StatusIsRight

\* When the watches have delivered what they had and the provider has done what
\* they asked for, the status is right (StatusIsRight, which StatusSettles says
\* comes about): no change of the CR, of a Restore, of a pod or of the spec is
\* forgotten, in whatever order passes learnt of them.
THEOREM QuietMeansRight == Spec => []RestingIsRight
  <1>1. RestInv /\ [Next]_vars => RestInv'
    BY TypeStep, BehindStep, WakeUpStep, ObservedStep, CountedStep DEF RestInv
  <1>2. QED
    BY InvariantHolds, RestInit, <1>1, RestIsRight, PTL DEF Spec
=============================================================================
