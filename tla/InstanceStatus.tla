--------------------------- MODULE InstanceStatus ---------------------------
(***************************************************************************)
(* What an Instance reports (Status in provider.go, health.go, exposure.go,*)
(* activeRestore and syncDataSource in backup.go).  A pass applies the CR, *)
(* looks after the seeding, and then computes the status from the cached   *)
(* CR, the Restores and the workloads, each read at another moment.        *)
(* Nothing polls: a pass runs when a watch queues the instance.  Workloads *)
(* are read as they are; a change of Milvus' own is taken to reach the CR, *)
(* where the operator counts their pods, and its watch.                    *)
(***************************************************************************)
EXTENDS Naturals, FiniteSets, FiniteSetsExt

CONSTANTS Deployments,  \* Deployments and StatefulSets of the instance
          Workload,     \* the component or dependency each of them belongs to
          Bundled,      \* those of Helm releases, which have a watch
          Green,        \* those that are idle until a rollout
          Pods,         \* pods of each of them, unless it is idle
          Restores,
          Seed,         \* the Restore of spec.dataSource
          MaxEdits,     \* bound on edits of the spec and new Restores
          MaxFaults     \* bound on pods, checks and passes that fail

ASSUME WorkloadAssumption == /\ Workload \in [Deployments -> STRING]
                             /\ IsFiniteSet(Deployments)
                             /\ Bundled \subseteq Deployments
                             /\ Green \subseteq Deployments \ Bundled
                             /\ Pods \in [Deployments -> Nat \ {0}]
\* A component rolls between a green Deployment and the one it has otherwise.
ASSUME GreenAssumption ==
    /\ \A g \in Green : \E d \in Deployments \ Green : Workload[d] = Workload[g]
    /\ \A g, h \in Green : Workload[g] = Workload[h] => g = h
ASSUME RestoreAssumption == Seed \in Restores
ASSUME BoundAssumption == {MaxEdits, MaxFaults} \subseteq Nat

Services == {"ClusterIP", "NodePort", "LoadBalancer"}
Images == 1..(MaxEdits + 1)
Workloads == {Workload[d] : d \in Deployments}

VARIABLES want,      \* the Instance's spec: service type and image
          cr,        \* the Milvus CR, spec and status
          service,   \* the type of the client-facing Service
          pods,      \* of each Deployment, how many are desired and ready
          restore,   \* state of each Restore
          source,    \* it starts from a backup, spec.dataSource
          seeded,    \* the data of that is in, if it does
          seen,      \* the provider's cached copies of CR and Restores
          unseen,    \* the watch event of a change of the CR is under way
          queued,    \* the instance is in the work queue
          pass,      \* the pass under way
          reported,  \* the Instance's status
          edits, faults

vars == <<want, cr, service, pods, restore, source, seeded, seen, unseen, queued, pass, reported,
          edits, faults>>
cluster == <<service, pods, restore, source, seeded>>
counters == <<edits, faults>>

NoCR == [made |-> FALSE]
CRs == [made : {TRUE}, service : Services, image : Images,
        observed : BOOLEAN,                  \* the operator has seen this spec
        updated : BOOLEAN,                   \* MilvusUpdated is not False
        status : {"", "Pending", "Healthy", "Unhealthy", "Stopped"},
        deps : BOOLEAN,                      \* no dependency check is False
        endpoint : {"", "ClusterIP", "LoadBalancer"}]
RestoreStates == {"absent", "Pending", "Running", "Succeeded", "Failed", "Deleting"}

Phases == {"Provisioning", "Restoring", "Updating", "Ready", "Pending"}
Nothing == [phase |-> "Provisioning", host |-> "none", short |-> {}]
\* Of pass.known, the unfinished Restores in the cache at first, the code knows nothing.
Idle == [at |-> "idle", source |-> "none", known |-> {}]

TypeOK == /\ want \in [service : Services, image : Images] /\ want.image <= edits + 1
          /\ cr \in CRs \cup {NoCR}
          /\ service \in Services
          /\ pods \in [Deployments -> [desired : Nat, ready : Nat]]
          /\ \A d \in Deployments : pods[d].desired \in {0, Pods[d]} /\ pods[d].ready <= Pods[d]
          /\ restore \in [Restores -> RestoreStates]
          /\ source \in BOOLEAN /\ seeded \in BOOLEAN
          /\ unseen \in BOOLEAN /\ queued \in BOOLEAN
          /\ seen \in [cr : CRs \cup {NoCR}, restore : [Restores -> RestoreStates]]
          /\ pass \in [at : {"idle", "seed", "report"}, source : {"none", "waiting", "done"},
                       known : SUBSET Restores]
          /\ reported \in [phase : Phases, host : {"none"} \cup Services, short : SUBSET Workloads]
          /\ edits \in 0..MaxEdits /\ faults \in 0..MaxFaults

Init == /\ want \in [service : Services, image : {1}]
        /\ cr = NoCR
        /\ service = "ClusterIP"
        \* the start of the pods is left out: it shows as a CR that is not Healthy yet
        /\ pods = [d \in Deployments |-> LET n == IF d \in Green THEN 0 ELSE Pods[d]
                                        IN  [desired |-> n, ready |-> n]]
        /\ restore = [r \in Restores |-> "absent"]
        /\ source \in BOOLEAN /\ seeded = ~source
        /\ seen = [cr |-> cr, restore |-> restore]
        /\ unseen = FALSE /\ queued = TRUE
        /\ pass = Idle
        /\ reported = Nothing
        /\ edits = 0 /\ faults = 0

Fault == faults < MaxFaults /\ faults' = faults + 1
\* Every change of the CR makes a watch event, one that undoes another too.
WriteCR(c) == cr' = c /\ unseen' = (unseen \/ c # cr)
Unfinished(r) == restore[r] \in {"Pending", "Running"}

\* enqueueRestoreInstance, enqueueDependencyInstance.  Variants with a bug, for
\* mutation runs, carry the operator's name and a suffix.
EnqueueDependencyInstance_Lost(d) == queued' = (queued \/ d \notin Bundled)
EnqueueDependencyInstance(d) == queued' = TRUE
EnqueueRestoreInstance == queued' = TRUE
-----------------------------------------------------------------------------
\* Sync applies the CR, which starts a new generation of it if anything changed.
ApplyCR ==
    /\ pass.at = "idle" /\ queued
    /\ queued' = FALSE
    /\ pass' = [Idle EXCEPT !.at = "seed",
                            !.known = {r \in Restores : seen.restore[r] \in {"Pending", "Running"}}]
    /\ WriteCR(IF cr = NoCR
                 THEN [made |-> TRUE, service |-> want.service, image |-> want.image,
                       observed |-> FALSE, updated |-> TRUE, status |-> "", deps |-> TRUE,
                       endpoint |-> ""]
               ELSE IF want = [service |-> cr.service, image |-> cr.image] THEN cr
               ELSE [cr EXCEPT !.service = want.service, !.image = want.image, !.observed = FALSE])
    /\ UNCHANGED <<want, cluster, seen, reported, counters>>

SeenHealthy == seen.cr.made /\ seen.cr.status = "Healthy"

\* syncDataSource: an instance that starts from a backup waits for Milvus, then
\* the runtime creates the Restore and reports how far it is.
SourceState_NoWait == IF source /\ SeenHealthy THEN IF seeded THEN "done" ELSE "waiting" ELSE "none"
SourceState == IF ~source THEN "none" ELSE IF seeded /\ SeenHealthy THEN "done" ELSE "waiting"
SyncDataSource ==
    /\ pass.at = "seed"
    /\ pass' = [pass EXCEPT !.at = "report", !.source = SourceState]
    /\ restore' = IF source /\ ~seeded /\ SeenHealthy /\ restore[Seed] = "absent"
                    THEN [restore EXCEPT ![Seed] = "Pending"] ELSE restore
    /\ UNCHANGED <<want, cr, unseen, service, pods, source, seeded, seen, queued, reported, counters>>

\* activeRestore: any state but the final ones counts, unless it is being deleted.
ActiveRestore_Running == \E r \in Restores : seen.restore[r] = "Running"
ActiveRestore == \E r \in Restores : seen.restore[r] \in {"Pending", "Running"}

\* resolveEndpoint, of the CR that was read; "none" while it waits for an address.
Endpoint_AsReported(c) == IF c.service = "ClusterIP" THEN "ClusterIP" ELSE c.endpoint
Endpoint(c) ==
    IF c.service = "NodePort" THEN IF service = "NodePort" THEN "NodePort" ELSE "none"
    ELSE IF c.endpoint # "" THEN c.endpoint
    ELSE IF c.service = "ClusterIP" THEN "ClusterIP" ELSE "none"

\* shortWorkloads: an idle Deployment does not count, two of one component do.
Counted(w) == {d \in Deployments : Workload[d] = w /\ pods[d].desired > 0}
Ready(w) == MapThenSumSet(LAMBDA d : pods[d].ready, Counted(w))
Desired(w) == MapThenSumSet(LAMBDA d : pods[d].desired, Counted(w))
ShortWorkloads == {w \in Workloads : Ready(w) < Desired(w)}
Down == \E w \in ShortWorkloads : Ready(w) = 0

RolloutMessage(c) == ~c.observed \/ ~c.updated
Phase(p) == [Nothing EXCEPT !.phase = p]

\* A Healthy CR: dependencies, then the address, then a rollout, then the pods.
HealthyStatus(c) ==
    LET host == Endpoint(c)
    IN  IF ~c.deps \/ host = "none" THEN Phase("Provisioning")
        ELSE IF RolloutMessage(c) THEN [phase |-> "Updating", host |-> host, short |-> {}]
        ELSE IF Down THEN Phase("Provisioning")
        ELSE [phase |-> "Ready", host |-> host, short |-> ShortWorkloads]

Status(c, state) ==
    IF ~c.made THEN Phase("Provisioning")
    ELSE IF state = "waiting" \/ ActiveRestore THEN Phase("Restoring")
    ELSE IF c.status = "Healthy" THEN HealthyStatus(c)
    ELSE IF c.status = "Stopped" THEN Phase("Pending")
    ELSE IF c.status = "Unhealthy" /\ RolloutMessage(c) THEN Phase("Updating")
    ELSE Phase("Provisioning")

Report ==
    /\ pass.at = "report"
    /\ reported' = Status(seen.cr, pass.source)
    /\ pass' = Idle
    /\ UNCHANGED <<want, cr, unseen, cluster, seen, queued, counters>>

\* An error or a crash ends the pass; it is queued again.
Abort ==
    /\ pass.at # "idle" /\ Fault
    /\ pass' = Idle
    /\ queued' = TRUE
    /\ UNCHANGED <<want, cr, unseen, cluster, seen, reported, edits>>

PassSteps == ApplyCR \/ SyncDataSource \/ Report
-----------------------------------------------------------------------------
\* The watches of the CR and of the Restores.
WatchCR ==
    /\ unseen
    /\ seen' = [seen EXCEPT !.cr = cr]
    /\ unseen' = FALSE /\ queued' = TRUE
    /\ UNCHANGED <<want, cr, cluster, pass, reported, counters>>
WatchRestores ==
    /\ seen.restore # restore
    /\ seen' = [seen EXCEPT !.restore = restore]
    /\ EnqueueRestoreInstance
    /\ UNCHANGED <<want, cr, unseen, cluster, pass, reported, counters>>

\* The operator takes up a new generation, the Service first; a new image is
\* rolled out.
Observe ==
    /\ cr # NoCR /\ ~cr.observed
    /\ service' = cr.service
    /\ \E rolling \in BOOLEAN :
          /\ rolling => Green # {} /\ cr.status # ""
          /\ WriteCR([cr EXCEPT !.observed = TRUE, !.updated = @ /\ ~rolling,
                                !.status = IF @ = "" THEN "Pending" ELSE @,
                                !.endpoint = IF cr.service = "ClusterIP" THEN "ClusterIP" ELSE
                                             IF @ = cr.service THEN @ ELSE ""])
    /\ UNCHANGED <<want, pods, restore, source, seeded, seen, queued, pass, reported, counters>>

\* Query nodes roll blue/green: the idle Deployment starts, the other one goes.
RolloutStarts ==
    /\ cr # NoCR /\ ~cr.updated
    /\ \A d \in Green : pods[d].desired = 0
    /\ pods' = [d \in Deployments |-> IF d \in Green THEN [pods[d] EXCEPT !.desired = Pods[d]] ELSE pods[d]]
    /\ UNCHANGED <<want, cr, unseen, service, restore, source, seeded, seen, queued, pass, reported, counters>>
RolloutEnds ==
    /\ cr # NoCR /\ ~cr.updated
    /\ \A d \in Green : pods[d].desired = Pods[d] /\ pods[d].ready = Pods[d]
    /\ pods' = [d \in Deployments |->
                  IF \E g \in Green : g # d /\ Workload[g] = Workload[d]
                    THEN [pods[d] EXCEPT !.desired = 0] ELSE pods[d]]
    /\ WriteCR([cr EXCEPT !.updated = TRUE])
    /\ UNCHANGED <<want, service, restore, source, seeded, seen, queued, pass, reported, counters>>

AssignAddress ==
    /\ cr # NoCR /\ cr.service = "LoadBalancer" /\ cr.observed /\ cr.endpoint = ""
    /\ WriteCR([cr EXCEPT !.endpoint = "LoadBalancer"])
    /\ UNCHANGED <<want, cluster, seen, queued, pass, reported, counters>>

\* What the operator says of health and dependencies.
ReportHealth ==
    /\ cr # NoCR /\ cr.status # ""
    /\ \/ cr.status # "Healthy" /\ WriteCR([cr EXCEPT !.status = "Healthy"]) /\ UNCHANGED faults
       \/ ~cr.deps /\ WriteCR([cr EXCEPT !.deps = TRUE]) /\ UNCHANGED faults
       \/ \E s \in {"Unhealthy", "Stopped"} :
             cr.status = "Healthy" /\ WriteCR([cr EXCEPT !.status = s]) /\ Fault
       \/ cr.deps /\ WriteCR([cr EXCEPT !.deps = FALSE]) /\ Fault
    /\ UNCHANGED <<want, cluster, seen, queued, pass, reported, edits>>

\* Pods become ready, stop or fail.
PodChange(d) ==
    /\ cr # NoCR /\ cr.status # ""
    /\ \/ /\ pods[d].ready < pods[d].desired
          /\ pods' = [pods EXCEPT ![d].ready = @ + 1]
          /\ UNCHANGED faults
       \/ /\ pods[d].ready > pods[d].desired
          /\ pods' = [pods EXCEPT ![d].ready = @ - 1]
          /\ UNCHANGED faults
       \/ /\ pods[d].ready \in 1..pods[d].desired /\ Fault
          /\ \E n \in 0 .. pods[d].ready - 1 : pods' = [pods EXCEPT ![d].ready = n]
    /\ EnqueueDependencyInstance(d)
    /\ UNCHANGED <<want, cr, unseen, service, restore, source, seeded, seen, pass, reported, edits>>

\* SyncRestore takes a Restore through its states; the runtime records that the
\* one that seeds is done.
RestoreProceeds(r) ==
    /\ Unfinished(r)
    /\ \E s \in RestoreStates \ {"absent", "Pending", "Deleting"} :
          s # restore[r] /\ restore' = [restore EXCEPT ![r] = s]
    /\ seeded' = (seeded \/ (r = Seed /\ restore'[r] = "Succeeded"))
    /\ UNCHANGED <<want, cr, unseen, service, pods, source, seen, queued, pass, reported, counters>>

\* Users create Restores, delete them, and edit the Instance.
Edit == edits < MaxEdits /\ edits' = edits + 1
ChangeRestore ==
    /\ Edit
    /\ \E r \in Restores :
          /\ r = Seed => seeded
          /\ restore' = [restore EXCEPT ![r] = IF @ = "absent" THEN "Pending" ELSE "Deleting"]
          /\ restore' # restore
    /\ UNCHANGED <<want, cr, unseen, service, pods, source, seeded, seen, queued, pass, reported, faults>>
EditInstance ==
    /\ Edit
    /\ \/ want' = [want EXCEPT !.image = @ + 1]
       \/ \E s \in Services \ {want.service} : want' = [want EXCEPT !.service = s]
    /\ queued' = TRUE
    /\ UNCHANGED <<cr, unseen, cluster, seen, pass, reported, faults>>

Next == \/ PassSteps \/ Abort \/ WatchCR \/ WatchRestores
        \/ Observe \/ RolloutStarts \/ RolloutEnds \/ AssignAddress
        \/ ReportHealth
        \/ \E d \in Deployments : PodChange(d)
        \/ \E r \in Restores : RestoreProceeds(r)
        \/ ChangeRestore \/ EditInstance

Spec == Init /\ [][Next]_vars

\* Queued passes run and the watches deliver; nothing else needs to happen.
FairSpec == /\ Spec
            /\ WF_vars(PassSteps) /\ WF_vars(WatchCR) /\ WF_vars(WatchRestores)
-----------------------------------------------------------------------------
\* README, "Check health": an instance is Ready with Milvus healthy, its checks
\* passed, at least one ready pod of everything, and no rollout or restore.
Available ==
    /\ cr # NoCR /\ cr.status = "Healthy" /\ cr.deps
    /\ cr.service # "ClusterIP" => service = cr.service
    /\ cr.service = "LoadBalancer" => cr.endpoint # ""
    /\ cr.observed /\ cr.updated
    /\ seeded /\ \A r \in Restores : ~Unfinished(r)
    /\ \A w \in Workloads : \E d \in Counted(w) : pods[d].ready > 0

\* The instance is reported Ready exactly when it is available, at the address of
\* the service it asks for, with what is short of pods, and Restoring while a
\* Restore replaces its data.
StatusIsRight ==
    /\ reported.phase = "Ready" <=> Available
    /\ Available => /\ reported.host = want.service
                    /\ reported.short = {w \in Workloads : \E d \in Counted(w) :
                                            pods[d].ready < pods[d].desired}
    /\ (cr # NoCR /\ \E r \in Restores : Unfinished(r)) => reported.phase = "Restoring"

\* Whatever changed while passes ran, and in whatever order they learnt of it: once
\* things rest, the status is right (Status, the watches of New).
StatusSettles == <>[]StatusIsRight

\* An instance that starts from a backup has no address before the data is in,
\* although Milvus has to serve for that and may become healthy at any moment of
\* a pass (syncDataSource, Status).
SeededFirst == [][~seeded => reported'.host = "none"]_vars

\* A Restore the provider knew of when the pass began hides the instance until
\* it is over, whichever state it is in (activeRestore).
RestoreHidesInstance ==
    [][pass.at = "report" /\ pass'.at = "idle" /\ reported'.host # "none" /\ faults' = faults
         => \A r \in pass.known : ~Unfinished(r)]_vars
=============================================================================
