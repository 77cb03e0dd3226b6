----------------------------- MODULE BackupJobs -----------------------------
(***************************************************************************)
(* On-demand Backups, their deletion, and Restores of one Milvus instance  *)
(* (backup.go, backup_job.go).  Each operation is a milvus-backup Job that *)
(* outlives the pass that created it; the Backup and the Restore           *)
(* controllers have one worker each, and look at Jobs through a cache.     *)
(***************************************************************************)
EXTENDS Naturals

CONSTANTS Backups, Restores,
          SourceOf,   \* the Backup each Restore restores from
          Retained,   \* Backups with deletionPolicy Retain
          Malformed,  \* Backups and Restores whose parameters need not parse
          Lag,        \* the Job cache may lag behind the API server
          MaxFaults   \* bound on crashes, failed reads and health drops

ASSUME SourceAssumption == SourceOf \in [Restores -> Backups]
ASSUME SetAssumption == /\ Backups \cap Restores = {}
                        /\ Retained \subseteq Backups
                        /\ Malformed \subseteq Backups \cup Restores
                        /\ Lag \in BOOLEAN
ASSUME BoundAssumption == MaxFaults \in Nat

\* backupJobName: a Job is named after its owner and its operation.
CreateJob(b) == <<"create", b>>
DeleteJob(b) == <<"delete", b>>
RestoreJob(r) == <<"restore", r>>
Jobs == ({"create", "delete"} \X Backups) \cup ({"restore"} \X Restores)
NoJob == <<"none", "none">>
JobsOf(o) == {j \in Jobs : j[2] = o}

VARIABLES backup,    \* status.state of each Backup; "absent" when there is none
          finished,  \* Backups whose status has a completion time
          restore,   \* status.state of each Restore
          job,       \* the Jobs at the API server
          seen,      \* the controllers' cached view of them
          orphans,   \* Jobs whose owner is gone, not yet garbage collected
          data,      \* what each backup has in the bucket
          storage,   \* the BackupStorage exists
          healthy,   \* the Milvus CR reports Healthy
          bw, rw,    \* the Job the Backup and Restore worker is about to create
          malformed, \* Backups and Restores whose parameters do not parse
          names,     \* the names taken so far, none of them twice
          faults

vars == <<backup, finished, restore, job, seen, orphans, data, storage, healthy,
          bw, rw, malformed, names, faults>>
owners == <<backup, finished, restore>>
cluster == <<job, orphans, data>>
counters == <<malformed, names, faults>>

Terminal == {"Succeeded", "Failed"}
JobStates == {"none", "waiting", "running", "succeeded", "failed"}

TypeOK == /\ backup \in [Backups -> {"absent", "Pending", "Running", "Deleting"} \cup Terminal]
          /\ finished \subseteq {b \in Backups : backup[b] # "absent"}
          /\ restore \in [Restores -> {"absent", "Pending", "Running"} \cup Terminal]
          /\ job \in [Jobs -> JobStates]
          /\ seen \in [Jobs -> JobStates]
          /\ orphans \subseteq {j \in Jobs : job[j] # "none"}
          /\ data \in [Backups -> {"none", "partial", "full"}]
          /\ storage \in BOOLEAN
          /\ healthy \in BOOLEAN
          /\ bw \in {NoJob} \cup {j \in Jobs : j[1] # "restore"}
          /\ rw \in {NoJob} \cup {j \in Jobs : j[1] = "restore"}
          /\ malformed \subseteq Malformed
          /\ names \subseteq Backups \cup Restores
          /\ faults \in 0..MaxFaults

Init == /\ backup = [b \in Backups |-> "absent"]
        /\ finished = {}
        /\ restore = [r \in Restores |-> "absent"]
        /\ job = [j \in Jobs |-> "none"]
        /\ seen = job
        /\ orphans = {}
        /\ data = [b \in Backups |-> "none"]
        /\ storage = TRUE
        /\ healthy = TRUE
        /\ bw = NoJob
        /\ rw = NoJob
        /\ malformed \in SUBSET Malformed
        /\ names = {}
        /\ faults = 0

Fault == faults < MaxFaults /\ faults' = faults + 1
View == IF Lag THEN seen ELSE job
-----------------------------------------------------------------------------
\* Variants with a bug, for mutation runs: any condition taken for an end, an
\* end that is only a success, Jobs that are over taken for active ones, any end
\* for a success, a running Job for a finished one, no state for one not started.
Finished_AnyCondition(s) == s \in {"running", "succeeded", "failed"}
Finished_Succeeded(s) == s = "succeeded"
OtherActive_Ended(j) == \E k \in Jobs \ {j} : View[k] # "none"
StateOf_AnyEnd(s) == IF s \in {"succeeded", "failed"} THEN "Succeeded" ELSE "Running"
StateOf_Running(s) == IF s = "running" THEN "Succeeded" ELSE "Pending"
StateOf_NoDefault(s) == IF s = "succeeded" THEN "Succeeded"
                        ELSE IF s = "failed" THEN "Failed"
                        ELSE IF s = "running" THEN "Running" ELSE ""

\* jobFinished, activeBackupJob, readBackupJobState
Finished(s) == s \in {"succeeded", "failed"}
Unfinished(s) == s \in {"waiting", "running"}
OtherActive(j) == \E k \in Jobs \ {j} : Unfinished(View[k])
StateOf(s) == IF s = "succeeded" THEN "Succeeded"
              ELSE IF s = "failed" THEN "Failed"
              ELSE IF s = "running" THEN "Running" ELSE "Pending"

\* SyncBackup of a Backup whose Job exists: report the Job.
ReportBackup(b) ==
    /\ View[CreateJob(b)] # "none"
    /\ backup' = [backup EXCEPT ![b] = StateOf(View[CreateJob(b)])]
    /\ finished' = IF Finished(View[CreateJob(b)]) THEN finished \cup {b} ELSE finished
    /\ UNCHANGED <<bw, faults>>

\* ... with parameters that do not parse, or a config that cannot be read.
RejectBackup(b) ==
    /\ View[CreateJob(b)] = "none"
    /\ \/ b \in malformed /\ UNCHANGED faults
       \/ b \notin malformed /\ healthy /\ ~OtherActive(CreateJob(b)) /\ storage /\ Fault
    /\ backup' = [backup EXCEPT ![b] = "Failed"]
    /\ finished' = finished \ {b}
    /\ UNCHANGED bw

\* Bug: health is looked at before the Job.
HoldBackup_HealthFirst(b) ==
    /\ b \notin malformed /\ ~healthy
    /\ backup' = [backup EXCEPT ![b] = "Pending"]
    /\ finished' = finished \ {b}
    /\ UNCHANGED <<bw, faults>>

\* ... while Milvus, the storage or another operation makes it wait.
HoldBackup(b) ==
    /\ View[CreateJob(b)] = "none" /\ b \notin malformed
    /\ ~healthy \/ OtherActive(CreateJob(b)) \/ ~storage
    /\ backup' = [backup EXCEPT ![b] = "Pending"]
    /\ finished' = finished \ {b}
    /\ UNCHANGED <<bw, faults>>

\* ... with the way free: the Job is created next.
AdmitBackup(b) ==
    /\ View[CreateJob(b)] = "none" /\ b \notin malformed
    /\ healthy /\ ~OtherActive(CreateJob(b)) /\ storage
    /\ bw' = CreateJob(b)
    /\ UNCHANGED <<backup, finished, faults>>

SyncBackup(b) ==
    /\ bw = NoJob
    /\ backup[b] \notin {"absent", "Deleting"}
    /\ ReportBackup(b) \/ RejectBackup(b) \/ HoldBackup(b) \/ AdmitBackup(b)
    /\ UNCHANGED <<restore, cluster, seen, storage, healthy, rw, malformed, names>>

\* backupProducedData
ProducedData(b) == IF View[CreateJob(b)] = "none" THEN b \in finished
                   ELSE View[CreateJob(b)] = "succeeded"

\* The finalizer goes, and the garbage collector inherits the Jobs.
RemoveBackup(b) ==
    /\ backup' = [backup EXCEPT ![b] = "absent"]
    /\ finished' = finished \ {b}
    /\ orphans' = orphans \cup {j \in JobsOf(b) : job[j] # "none"}
    /\ UNCHANGED bw

CleanupBackup(b) ==
    /\ bw = NoJob
    /\ backup[b] = "Deleting"
    /\ \/ (b \in Retained \/ ~ProducedData(b)) /\ RemoveBackup(b)
       \/ /\ b \notin Retained /\ ProducedData(b)
          /\ \/ View[DeleteJob(b)] = "none" /\ ~storage /\ RemoveBackup(b)
             \/ /\ View[DeleteJob(b)] = "none" /\ storage
                /\ bw' = DeleteJob(b)
                /\ UNCHANGED <<backup, finished, orphans>>
             \/ Finished(View[DeleteJob(b)]) /\ RemoveBackup(b)
    /\ UNCHANGED <<restore, job, data, seen, storage, healthy, rw, counters>>

\* ensureBackupJob: create the Job unless it exists after all.  An existing
\* Job the cache does not show, or a crash, ends the pass without a report.
CreateBackupJob ==
    /\ bw # NoJob
    /\ bw' = NoJob
    /\ \/ /\ job[bw] = "none"
          /\ job' = [job EXCEPT ![bw] = "waiting"]
          /\ backup' = [b \in Backups |-> IF bw = CreateJob(b) /\ backup[b] # "Deleting"
                                            THEN "Pending" ELSE backup[b]]
          /\ UNCHANGED faults
       \/ job[bw] # "none" /\ UNCHANGED <<job, backup, faults>>
       \/ /\ Fault
          /\ job' \in {job, [job EXCEPT ![bw] = IF @ = "none" THEN "waiting" ELSE @]}
          /\ UNCHANGED backup
    /\ UNCHANGED <<finished, restore, seen, orphans, data, storage, healthy, rw, malformed, names>>
-----------------------------------------------------------------------------
ReportRestore(r) ==
    /\ View[RestoreJob(r)] # "none"
    /\ restore' = [restore EXCEPT ![r] = StateOf(View[RestoreJob(r)])]
    /\ UNCHANGED <<rw, faults>>

\* SyncRestore fails a Restore that cannot work, or whose source failed.
RejectRestore(r) ==
    /\ View[RestoreJob(r)] = "none"
    /\ \/ r \in malformed /\ UNCHANGED faults
       \/ r \notin malformed /\ backup[SourceOf[r]] = "Failed" /\ UNCHANGED faults
       \/ /\ r \notin malformed /\ backup[SourceOf[r]] = "Succeeded"
          /\ healthy /\ ~OtherActive(RestoreJob(r)) /\ storage /\ Fault
    /\ restore' = [restore EXCEPT ![r] = "Failed"]
    /\ UNCHANGED rw

HoldRestore(r) ==
    /\ View[RestoreJob(r)] = "none" /\ r \notin malformed
    /\ \/ backup[SourceOf[r]] \notin Terminal
       \/ /\ backup[SourceOf[r]] = "Succeeded"
          /\ ~healthy \/ OtherActive(RestoreJob(r)) \/ ~storage
    /\ restore' = [restore EXCEPT ![r] = "Pending"]
    /\ UNCHANGED <<rw, faults>>

AdmitRestore(r) ==
    /\ View[RestoreJob(r)] = "none" /\ r \notin malformed
    /\ backup[SourceOf[r]] = "Succeeded"
    /\ healthy /\ ~OtherActive(RestoreJob(r)) /\ storage
    /\ rw' = RestoreJob(r)
    /\ UNCHANGED <<restore, faults>>

SyncRestore(r) ==
    /\ rw = NoJob
    /\ restore[r] # "absent"
    /\ ReportRestore(r) \/ RejectRestore(r) \/ HoldRestore(r) \/ AdmitRestore(r)
    /\ UNCHANGED <<backup, finished, cluster, seen, storage, healthy, bw, malformed, names>>

CreateRestoreJob ==
    /\ rw # NoJob
    /\ rw' = NoJob
    /\ \/ /\ job[rw] = "none"
          /\ job' = [job EXCEPT ![rw] = "waiting"]
          /\ restore' = [restore EXCEPT ![rw[2]] = "Pending"]
          /\ UNCHANGED faults
       \/ job[rw] # "none" /\ UNCHANGED <<job, restore, faults>>
       \/ /\ Fault
          /\ job' \in {job, [job EXCEPT ![rw] = IF @ = "none" THEN "waiting" ELSE @]}
          /\ UNCHANGED restore
    /\ UNCHANGED <<backup, finished, seen, orphans, data, storage, healthy, bw, malformed, names>>

-----------------------------------------------------------------------------
\* Each Backup and Restore has a name of its own.
TakeName(o) == o \notin names /\ names' = names \cup {o}

NewBackup(b) ==
    /\ backup[b] = "absent"
    /\ TakeName(b)
    /\ backup' = [backup EXCEPT ![b] = "Pending"]
    /\ UNCHANGED <<finished, restore, cluster, seen, storage, healthy, bw, rw, malformed, faults>>

NewRestore(r) ==
    /\ restore[r] = "absent"
    /\ TakeName(r)
    /\ restore' = [restore EXCEPT ![r] = "Pending"]
    /\ UNCHANGED <<backup, finished, cluster, seen, storage, healthy, bw, rw, malformed, faults>>

DeleteBackup(b) ==
    /\ backup[b] \notin {"absent", "Deleting"}
    /\ backup' = [backup EXCEPT ![b] = "Deleting"]
    /\ UNCHANGED <<finished, restore, cluster, seen, storage, healthy, bw, rw, counters>>

\* CleanupRestore is done at once: the garbage collector inherits the Job.
DeleteRestore(r) ==
    /\ restore[r] # "absent" /\ rw # RestoreJob(r)
    /\ restore' = [restore EXCEPT ![r] = "absent"]
    /\ orphans' = orphans \cup {j \in JobsOf(r) : job[j] # "none"}
    /\ UNCHANGED <<backup, finished, job, data, seen, storage, healthy, bw, rw, counters>>

Users == \/ \E b \in Backups : NewBackup(b) \/ DeleteBackup(b)
         \/ \E r \in Restores : NewRestore(r) \/ DeleteRestore(r)
-----------------------------------------------------------------------------
\* A pod starts; a create that finds data under its name fails right away.
StartJob(j) ==
    /\ job[j] = "waiting"
    /\ LET b == j[2] IN
         \/ /\ j[1] = "create" /\ data[b] = "none"
            /\ job' = [job EXCEPT ![j] = "running"]
            /\ data' = [data EXCEPT ![b] = "partial"]
         \/ /\ j[1] = "create" /\ data[b] # "none"
            /\ job' = [job EXCEPT ![j] = "failed"]
            /\ UNCHANGED data
         \/ /\ j[1] # "create"
            /\ job' = [job EXCEPT ![j] = "running"]
            /\ UNCHANGED data
    /\ UNCHANGED <<owners, seen, orphans, storage, healthy, bw, rw, counters>>

JobSucceeds(j) ==
    /\ job[j] = "running"
    /\ \/ j[1] = "create" /\ data' = [data EXCEPT ![j[2]] = "full"]
       \/ j[1] = "delete" /\ data' = [data EXCEPT ![j[2]] = "none"]
       \/ j[1] = "restore" /\ data[SourceOf[j[2]]] = "full" /\ UNCHANGED data
    /\ job' = [job EXCEPT ![j] = "succeeded"]
    /\ UNCHANGED <<owners, seen, orphans, storage, healthy, bw, rw, counters>>

\* backoffLimit is 0: a failed pod is a failed Job, whatever it wrote or left.
JobFails(j) ==
    /\ Unfinished(job[j])
    /\ job' = [job EXCEPT ![j] = "failed"]
    /\ \/ UNCHANGED data
       \/ /\ j[1] = "delete" /\ job[j] = "running"
          /\ data' = [data EXCEPT ![j[2]] = IF @ = "none" THEN @ ELSE "partial"]
    /\ UNCHANGED <<owners, seen, orphans, storage, healthy, bw, rw, counters>>

\* The garbage collector removes a Job, running or not, after its owner.
CollectJob(j) ==
    /\ j \in orphans
    /\ job' = [job EXCEPT ![j] = "none"]
    /\ orphans' = orphans \ {j}
    /\ UNCHANGED <<owners, data, seen, storage, healthy, bw, rw, counters>>

WatchDelivers ==
    /\ Lag /\ seen # job
    /\ seen' = job
    /\ UNCHANGED <<owners, cluster, storage, healthy, bw, rw, counters>>

HealthChanges ==
    /\ \/ ~healthy /\ healthy' = TRUE /\ UNCHANGED faults
       \/ healthy /\ healthy' = FALSE /\ Fault
    /\ UNCHANGED <<owners, cluster, seen, storage, bw, rw, malformed, names>>

StorageRemoved ==
    /\ storage /\ Fault
    /\ storage' = FALSE
    /\ UNCHANGED <<owners, cluster, seen, healthy, bw, rw, malformed, names>>

Cluster == \/ \E j \in Jobs : StartJob(j) \/ JobSucceeds(j) \/ JobFails(j) \/ CollectJob(j)
           \/ WatchDelivers \/ HealthChanges \/ StorageRemoved

BackupPass(b) == SyncBackup(b) \/ CleanupBackup(b)

Next == \/ \E b \in Backups : BackupPass(b)
        \/ \E r \in Restores : SyncRestore(r)
        \/ CreateBackupJob \/ CreateRestoreJob
        \/ Users \/ Cluster

Spec == Init /\ [][Next]_vars

\* Controllers requeue every unfinished object, Jobs end, caches catch up.
Fairness == /\ \A b \in Backups : WF_vars(BackupPass(b))
            /\ \A r \in Restores : WF_vars(SyncRestore(r))
            /\ WF_vars(CreateBackupJob) /\ WF_vars(CreateRestoreJob)
            /\ \A j \in Jobs : /\ WF_vars(StartJob(j))
                               /\ WF_vars(JobSucceeds(j) \/ JobFails(j))
                               /\ WF_vars(CollectJob(j))
            /\ WF_vars(WatchDelivers)
            /\ WF_vars(~healthy /\ HealthChanges)

FairSpec == Spec /\ Fairness
-----------------------------------------------------------------------------
\* The finalizer of a finished Backup goes only when its data has gone, or is
\* to be kept, or cannot be removed (CleanupBackup).
DeletedWithItsData ==
    [][\A b \in Backups :
         backup[b] = "Deleting" /\ backup'[b] = "absent" /\ b \in finished /\ data[b] = "full"
           => b \in Retained \/ ~storage \/ job[DeleteJob(b)] = "failed"]_vars

\* An instance that is Restoring, with its schedules suspended, stays so while the
\* Restore's Job is unfinished: neither a cache that lags nor what becomes of the
\* source takes it back, only a pass that cannot read the storage (SyncRestore,
\* activeRestore).
RestoringWhileRunning ==
    [][\A r \in Restores :
         restore[r] \in {"Pending", "Running"} /\ Unfinished(job'[RestoreJob(r)])
           => restore'[r] \in {"Pending", "Running", "absent"} \/ faults' # faults]_vars

BackupEnds == \A b \in Backups :
    backup[b] \in {"Pending", "Running"} ~> backup[b] \notin {"Pending", "Running"} \/ ~storage

RestoreEnds == \A r \in Restores :
    restore[r] \in {"Pending", "Running"} ~>
        \/ restore[r] \notin {"Pending", "Running"}
        \/ ~storage
        \/ backup[SourceOf[r]] \in {"absent", "Deleting"}

\* Every Backup comes to an end, and every Restore whose source stays, however
\* many of them wait for each other (SyncBackup, SyncRestore).
OperationsEnd == BackupEnds /\ RestoreEnds

\* No deletion hangs on its finalizer: not on a failing delete Job, not on a
\* missing storage (CleanupBackup).
DeletionEnds == \A b \in Backups : backup[b] = "Deleting" ~> backup[b] = "absent"

Contract == INSTANCE BackupContract WITH state <- backup

\* A Backup is Succeeded only with its data, which it keeps until it is deleted,
\* whatever the cache, health, other operations and the storage do meanwhile:
\* SyncBackup looks at the Job before anything that would make it wait.
ImplementsContract == Contract!Spec
=============================================================================
