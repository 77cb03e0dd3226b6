--------------------------- MODULE BackupJobsProofs ---------------------------
(***************************************************************************)
(* Proofs about BackupJobs, for any number of Backups, Restores and faults *)
(* and a cache that may lag: on-demand Backups implement BackupContract, a *)
(* deletion takes the data along, and a restore under way is not denied.   *)
(***************************************************************************)
EXTENDS BackupJobs, TLAPS

\* Jobs are told apart by their operation and their owner (backupJobName).
LEMMA JobNames ==
    /\ \A b \in Backups : /\ CreateJob(b) \in Jobs /\ DeleteJob(b) \in Jobs
                          /\ CreateJob(b)[1] = "create" /\ CreateJob(b)[2] = b
                          /\ DeleteJob(b)[1] = "delete" /\ DeleteJob(b)[2] = b
    /\ \A r \in Restores : /\ RestoreJob(r) \in Jobs
                           /\ RestoreJob(r)[1] = "restore" /\ RestoreJob(r)[2] = r
    /\ NoJob \notin Jobs
  BY DEF Jobs, CreateJob, DeleteJob, RestoreJob, NoJob

\* Every Job is a create or a delete of a Backup or a restore (backupJobName).
LEMMA JobKinds ==
    \A j \in Jobs : \/ j[1] = "create" /\ j[2] \in Backups /\ j = CreateJob(j[2])
                    \/ j[1] = "delete" /\ j[2] \in Backups /\ j = DeleteJob(j[2])
                    \/ j[1] = "restore" /\ j[2] \in Restores /\ j = RestoreJob(j[2])
  BY DEF Jobs, CreateJob, DeleteJob, RestoreJob

\* What SyncBackup and SyncRestore report of a Job (readBackupJobState).
LEMMA StateOfJob ==
    \A s : /\ StateOf(s) \in {"Pending", "Running"} \cup Terminal
           /\ StateOf(s) = "Succeeded" <=> s = "succeeded"
           /\ Unfinished(s) => StateOf(s) \in {"Pending", "Running"}
  BY DEF StateOf, Terminal, Unfinished

\* Nothing exists at first, which is well typed.
LEMMA InitTypes == Init => TypeOK
  BY BoundAssumption, JobNames DEF Init, TypeOK, JobStates, Terminal

\* Every step keeps the types.
LEMMA TypeStep == TypeOK /\ [Next]_vars => TypeOK'
  <1> SUFFICES ASSUME TypeOK, [Next]_vars
               PROVE  TypeOK'
    OBVIOUS
  <1> USE BoundAssumption, JobNames, JobKinds, StateOfJob
      DEF TypeOK, owners, cluster, counters, Fault, TakeName, JobStates
  <1>1. ASSUME NEW b \in Backups, SyncBackup(b)
        PROVE  TypeOK'
    <2>1. CASE ReportBackup(b)
      BY <1>1, <2>1 DEF SyncBackup, ReportBackup, Terminal
    <2>2. CASE RejectBackup(b)
      BY <1>1, <2>2 DEF SyncBackup, RejectBackup, Terminal
    <2>3. CASE HoldBackup(b)
      BY <1>1, <2>3 DEF SyncBackup, HoldBackup
    <2>4. CASE AdmitBackup(b)
      BY <1>1, <2>4 DEF SyncBackup, AdmitBackup
    <2>5. QED
      BY <1>1, <2>1, <2>2, <2>3, <2>4 DEF SyncBackup
  <1>2. ASSUME NEW b \in Backups, CleanupBackup(b)
        PROVE  TypeOK'
    <2>1. CASE RemoveBackup(b)
      BY <1>2, <2>1 DEF CleanupBackup, RemoveBackup, JobsOf
    <2>2. CASE bw' = DeleteJob(b) /\ UNCHANGED <<backup, finished, orphans>>
      BY <1>2, <2>2 DEF CleanupBackup
    <2>3. QED
      BY <1>2, <2>1, <2>2 DEF CleanupBackup
  <1>3. CASE CreateBackupJob
    <2>1. bw \in Jobs
      BY <1>3 DEF CreateBackupJob
    <2>2. job' \in {job, [job EXCEPT ![bw] = "waiting"]}
      BY <1>3, <2>1 DEF CreateBackupJob
    <2>3. backup' \in {backup, [b \in Backups |-> IF bw = CreateJob(b) /\ backup[b] # "Deleting"
                                                    THEN "Pending" ELSE backup[b]]}
      BY <1>3 DEF CreateBackupJob
    <2>4. job' \in [Jobs -> JobStates] /\ \A j \in Jobs : job[j] # "none" => job'[j] # "none"
      BY <2>1, <2>2
    <2>5. /\ backup' \in [Backups -> {"absent", "Pending", "Running", "Deleting"} \cup Terminal]
          /\ \A b \in Backups : backup[b] # "absent" => backup'[b] # "absent"
      BY <2>3
    <2>6. QED
      BY <1>3, <2>4, <2>5 DEF CreateBackupJob
  <1>4. ASSUME NEW r \in Restores, SyncRestore(r)
        PROVE  TypeOK'
    <2>1. CASE ReportRestore(r)
      BY <1>4, <2>1 DEF SyncRestore, ReportRestore, Terminal
    <2>2. CASE RejectRestore(r)
      BY <1>4, <2>2 DEF SyncRestore, RejectRestore, Terminal
    <2>3. CASE HoldRestore(r)
      BY <1>4, <2>3 DEF SyncRestore, HoldRestore
    <2>4. CASE AdmitRestore(r)
      BY <1>4, <2>4 DEF SyncRestore, AdmitRestore
    <2>5. QED
      BY <1>4, <2>1, <2>2, <2>3, <2>4 DEF SyncRestore
  <1>5. CASE CreateRestoreJob
    <2>1. rw \in Jobs
      BY <1>5 DEF CreateRestoreJob
    <2>2. job' \in {job, [job EXCEPT ![rw] = "waiting"]}
      BY <1>5, <2>1 DEF CreateRestoreJob
    <2>3. restore' \in {restore, [restore EXCEPT ![rw[2]] = "Pending"]}
      BY <1>5 DEF CreateRestoreJob
    <2>4. job' \in [Jobs -> JobStates] /\ \A j \in Jobs : job[j] # "none" => job'[j] # "none"
      BY <2>1, <2>2
    <2>5. restore' \in [Restores -> {"absent", "Pending", "Running"} \cup Terminal]
      BY <2>1, <2>3
    <2>6. QED
      BY <1>5, <2>4, <2>5 DEF CreateRestoreJob
  <1>6. ASSUME NEW b \in Backups, NewBackup(b) \/ DeleteBackup(b)
        PROVE  TypeOK'
    BY <1>6 DEF NewBackup, DeleteBackup
  <1>7. ASSUME NEW r \in Restores, NewRestore(r) \/ DeleteRestore(r)
        PROVE  TypeOK'
    BY <1>7 DEF NewRestore, DeleteRestore, JobsOf
  <1>8. ASSUME NEW j \in Jobs, StartJob(j)
        PROVE  TypeOK'
    <2>1. job' \in {[job EXCEPT ![j] = "running"], [job EXCEPT ![j] = "failed"]}
      BY <1>8 DEF StartJob
    <2>2. data' \in {data, [data EXCEPT ![j[2]] = "partial"]}
      BY <1>8 DEF StartJob
    <2>3. job' \in [Jobs -> JobStates] /\ \A k \in Jobs : job[k] # "none" => job'[k] # "none"
      BY <2>1
    <2>4. QED
      BY <1>8, <2>2, <2>3 DEF StartJob
  <1>9. ASSUME NEW j \in Jobs, JobSucceeds(j)
        PROVE  TypeOK'
    BY <1>9 DEF JobSucceeds
  <1>10. ASSUME NEW j \in Jobs, JobFails(j)
         PROVE  TypeOK'
    BY <1>10 DEF JobFails, Unfinished
  <1>11. ASSUME NEW j \in Jobs, CollectJob(j)
         PROVE  TypeOK'
    BY <1>11 DEF CollectJob
  <1>12. CASE WatchDelivers \/ HealthChanges \/ StorageRemoved
    <2>1. CASE WatchDelivers
      BY <2>1 DEF WatchDelivers
    <2>2. CASE HealthChanges \/ StorageRemoved
      <3>1. faults' \in 0..MaxFaults
        BY <2>2 DEF HealthChanges, StorageRemoved
      <3>2. healthy' \in BOOLEAN /\ storage' \in BOOLEAN
        BY <2>2 DEF HealthChanges, StorageRemoved
      <3>3. UNCHANGED <<owners, cluster, seen, bw, rw, malformed, names>>
        BY <2>2 DEF HealthChanges, StorageRemoved
      <3>4. QED
        BY <3>1, <3>2, <3>3
    <2>4. QED
      BY <1>12, <2>1, <2>2
  <1>13. CASE UNCHANGED vars
    BY <1>13 DEF vars
  <1>14. QED
    BY <1>1, <1>2, <1>3, <1>4, <1>5, <1>6, <1>7, <1>8, <1>9, <1>10, <1>11, <1>12, <1>13
       DEF Next, BackupPass, Users, Cluster

\* The state of every Backup, Restore and Job keeps its type.
THEOREM TypeCorrect == Spec => []TypeOK
  BY InitTypes, TypeStep, PTL DEF Spec

\* ensureBackupJob creates the Job at most, and then reports it.
LEMMA CreateEffect ==
    ASSUME TypeOK, CreateBackupJob
    PROVE  /\ bw \in Jobs /\ bw' = NoJob
           /\ \A j \in Jobs : \/ job'[j] = job[j]
                              \/ j = bw /\ job[j] = "none" /\ job'[j] = "waiting"
           /\ \A b \in Backups : \/ backup'[b] = backup[b]
                                 \/ /\ bw = CreateJob(b) /\ backup[b] # "Deleting"
                                    /\ backup'[b] = "Pending"
           /\ UNCHANGED <<finished, restore, seen, orphans, data, rw, malformed, names>>
  <1>1. bw \in Jobs /\ bw' = NoJob /\ UNCHANGED <<finished, restore, seen, orphans, data, rw, malformed, names>>
    BY DEF CreateBackupJob, TypeOK
  <1>2. \/ /\ job[bw] = "none" /\ job' = [job EXCEPT ![bw] = "waiting"]
           /\ backup' = [b \in Backups |-> IF bw = CreateJob(b) /\ backup[b] # "Deleting"
                                             THEN "Pending" ELSE backup[b]]
        \/ /\ job' = job \/ job' = [job EXCEPT ![bw] = IF job[bw] = "none" THEN "waiting" ELSE job[bw]]
           /\ backup' = backup
    BY DEF CreateBackupJob
  <1>3. \A j \in Jobs : \/ job'[j] = job[j]
                        \/ j = bw /\ job[j] = "none" /\ job'[j] = "waiting"
    <2> TAKE j \in Jobs
    <2>1. CASE job[bw] = "none" /\ job' = [job EXCEPT ![bw] = "waiting"]
      BY <2>1 DEF TypeOK
    <2>2. CASE job' = [job EXCEPT ![bw] = IF job[bw] = "none" THEN "waiting" ELSE job[bw]]
      BY <2>2 DEF TypeOK
    <2>3. CASE job' = job
      BY <2>3
    <2>4. QED
      BY ONLY <1>2, <2>1, <2>2, <2>3
  <1>4. \A b \in Backups : \/ backup'[b] = backup[b]
                           \/ bw = CreateJob(b) /\ backup[b] # "Deleting" /\ backup'[b] = "Pending"
    BY <1>2
  <1>5. QED
    BY <1>1, <1>3, <1>4

\* What the creation of a restore Job changes at most, however it ends
\* (ensureBackupJob).
LEMMA CreateRestoreEffect ==
    ASSUME TypeOK, CreateRestoreJob
    PROVE  /\ rw \in Jobs /\ rw[1] = "restore" /\ rw' = NoJob
           /\ \A j \in Jobs : \/ job'[j] = job[j]
                              \/ j = rw /\ job[j] = "none" /\ job'[j] = "waiting"
           /\ \A r \in Restores : restore'[r] = restore[r] \/ (rw = RestoreJob(r) /\ restore'[r] = "Pending")
           /\ UNCHANGED <<backup, finished, seen, orphans, data, bw, malformed, names>>
  <1>1. /\ rw \in Jobs /\ rw[1] = "restore" /\ rw' = NoJob
        /\ restore' \in {restore, [restore EXCEPT ![rw[2]] = "Pending"]}
        /\ UNCHANGED <<backup, finished, seen, orphans, data, bw, malformed, names>>
    BY DEF CreateRestoreJob, TypeOK
  <1>2. \/ job[rw] = "none" /\ job' = [job EXCEPT ![rw] = "waiting"]
        \/ job' = job \/ job' = [job EXCEPT ![rw] = IF job[rw] = "none" THEN "waiting" ELSE job[rw]]
    BY DEF CreateRestoreJob
  <1>3. \A j \in Jobs : \/ job'[j] = job[j]
                        \/ j = rw /\ job[j] = "none" /\ job'[j] = "waiting"
    <2> TAKE j \in Jobs
    <2>1. CASE job[rw] = "none" /\ job' = [job EXCEPT ![rw] = "waiting"]
      BY <2>1 DEF TypeOK
    <2>2. CASE job' = [job EXCEPT ![rw] = IF job[rw] = "none" THEN "waiting" ELSE job[rw]]
      BY <2>2 DEF TypeOK
    <2>3. CASE job' = job
      BY <2>3
    <2>4. QED
      BY ONLY <1>2, <2>1, <2>2, <2>3
  <1>4. \A r \in Restores : restore'[r] = restore[r] \/ (rw = RestoreJob(r) /\ restore'[r] = "Pending")
    <2> TAKE r \in Restores
    <2>1. CASE restore' = [restore EXCEPT ![rw[2]] = "Pending"]
      BY <1>1, <2>1, JobKinds DEF TypeOK
    <2>2. CASE restore' = restore
      BY <2>2
    <2>3. QED
      BY <1>1, <2>1, <2>2
  <1>5. QED
    BY <1>1, <1>3, <1>4

-----------------------------------------------------------------------------
\* A name that was never taken has no trace in the cluster (backupJobName).
FreshBackup(b) == b \notin names =>
    /\ backup[b] = "absent" /\ data[b] = "none"
    /\ \A j \in {CreateJob(b), DeleteJob(b)} : job[j] = "none" /\ seen[j] = "none"
FreshRestore(r) == r \notin names =>
    /\ restore[r] = "absent"
    /\ job[RestoreJob(r)] = "none" /\ seen[RestoreJob(r)] = "none"

\* A Job of an owner that is there is not collected, and what the cache shows of
\* one that has ended is true.
True(j) == j \notin orphans /\ (Finished(seen[j]) => job[j] = seen[j])

\* SyncBackup looks at the Job first, and only the bw pass creates one.
SyncInv(b) == backup[b] # "absent" =>
    /\ True(CreateJob(b)) /\ True(DeleteJob(b))
    /\ backup[b] = "Succeeded" => View[CreateJob(b)] = "succeeded"
    /\ b \in finished => Finished(View[CreateJob(b)])

WorkerInv(b) == /\ bw = CreateJob(b) => backup[b] \notin {"absent", "Succeeded"}
                /\ bw = DeleteJob(b) => backup[b] = "Deleting" /\ job[CreateJob(b)] = "succeeded"

\* The data of a Backup is complete if and only if its create Job has succeeded,
\* until a delete Job, which comes after, touches it.
DataInv(b) == backup[b] # "absent" =>
    /\ data[b] = "full" => job[CreateJob(b)] = "succeeded"
    /\ job[CreateJob(b)] = "succeeded" /\ job[DeleteJob(b)] = "none" => data[b] = "full"
    /\ job[DeleteJob(b)] # "none" => backup[b] = "Deleting" /\ job[CreateJob(b)] = "succeeded"
    /\ job[DeleteJob(b)] = "succeeded" => data[b] = "none"

\* A Restore has had a Job only if its source has succeeded.
Admitted(r) == /\ r \notin malformed /\ restore[r] # "absent"
               /\ SourceOf[r] \in names
               /\ backup[SourceOf[r]] \in {"Succeeded", "Deleting", "absent"}
AdmittedInv(r) ==
    rw = RestoreJob(r) \/ (restore[r] # "absent" /\ job[RestoreJob(r)] # "none") => Admitted(r)
RestoreInv(r) == restore[r] # "absent" => True(RestoreJob(r))

IInv == /\ TypeOK
        /\ \A b \in Backups : FreshBackup(b) /\ SyncInv(b) /\ WorkerInv(b) /\ DataInv(b)
        /\ \A r \in Restores : FreshRestore(r) /\ RestoreInv(r) /\ AdmittedInv(r)

\* Without names and Jobs the invariant holds.
LEMMA InitHolds == Init => IInv
  BY InitTypes, JobNames
     DEF Init, IInv, FreshBackup, SyncInv, WorkerInv, DataInv, FreshRestore, RestoreInv, AdmittedInv, NoJob

\* Only a create or a delete Job of b makes a trace of b, and it has a name.
LEMMA FreshBackupStep ==
    ASSUME IInv, [Next]_vars, NEW b \in Backups
    PROVE  FreshBackup(b)'
  <1> SUFFICES ASSUME b \notin names'
               PROVE  FreshBackup(b)'
    BY DEF FreshBackup
  <1> USE JobNames, JobKinds
      DEF IInv, TypeOK, FreshBackup, owners, cluster, counters, Fault
  <1>1. ASSUME NEW x \in Backups, SyncBackup(x)
        PROVE  FreshBackup(b)'
    BY <1>1 DEF SyncBackup, ReportBackup, RejectBackup, HoldBackup, AdmitBackup
  <1>2. ASSUME NEW x \in Backups, CleanupBackup(x)
        PROVE  FreshBackup(b)'
    BY <1>2 DEF CleanupBackup, RemoveBackup
  <1>3. CASE CreateBackupJob
    BY <1>3 DEF CreateBackupJob, WorkerInv
  <1>4. ASSUME NEW r \in Restores, SyncRestore(r)
        PROVE  FreshBackup(b)'
    BY <1>4 DEF SyncRestore
  <1>5. CASE CreateRestoreJob
    BY <1>5 DEF CreateRestoreJob
  <1>6. ASSUME NEW x \in Backups, NewBackup(x) \/ DeleteBackup(x)
        PROVE  FreshBackup(b)'
    BY <1>6 DEF NewBackup, DeleteBackup, TakeName
  <1>7. ASSUME NEW r \in Restores, NewRestore(r) \/ DeleteRestore(r)
        PROVE  FreshBackup(b)'
    BY <1>7 DEF NewRestore, DeleteRestore, TakeName
  <1>8. ASSUME NEW j \in Jobs, StartJob(j)
        PROVE  FreshBackup(b)'
    BY <1>8 DEF StartJob
  <1>9. ASSUME NEW j \in Jobs, JobSucceeds(j)
        PROVE  FreshBackup(b)'
    BY <1>9 DEF JobSucceeds
  <1>10. ASSUME NEW j \in Jobs, JobFails(j)
         PROVE  FreshBackup(b)'
    BY <1>10 DEF JobFails, Unfinished
  <1>11. ASSUME NEW j \in Jobs, CollectJob(j)
         PROVE  FreshBackup(b)'
    BY <1>11 DEF CollectJob
  <1>12. CASE WatchDelivers
    BY <1>12 DEF WatchDelivers
  <1>13. CASE HealthChanges \/ StorageRemoved
    BY <1>13 DEF HealthChanges, StorageRemoved
  <1>14. CASE UNCHANGED vars
    BY <1>14 DEF vars
  <1>15. QED
    BY <1>1, <1>2, <1>3, <1>4, <1>5, <1>6, <1>7, <1>8, <1>9, <1>10, <1>11, <1>12, <1>13, <1>14
       DEF Next, BackupPass, Users, Cluster

\* What is reported of b is what its Job has come to, until b goes.
LEMMA SyncStep ==
    ASSUME IInv, [Next]_vars, NEW b \in Backups
    PROVE  SyncInv(b)'
  <1> SUFFICES ASSUME backup'[b] # "absent"
               PROVE  SyncInv(b)'
    BY DEF SyncInv
  <1> USE JobNames, JobKinds
      DEF IInv, TypeOK, SyncInv, True, View, Finished, owners, cluster, counters, Fault
  <1>1. ASSUME NEW x \in Backups, SyncBackup(x)
        PROVE  SyncInv(b)'
    <2>1. UNCHANGED <<job, seen, orphans>>
      BY <1>1 DEF SyncBackup
    <2>2. CASE x # b
      <3>1. backup'[b] = backup[b] /\ (b \in finished' <=> b \in finished)
        BY <1>1, <2>2 DEF SyncBackup, ReportBackup, RejectBackup, HoldBackup, AdmitBackup
      <3>2. QED
        BY <2>1, <3>1
    <2>3. CASE x = b /\ ReportBackup(b)
      BY <2>1, <2>3, <1>1, StateOfJob DEF SyncBackup, ReportBackup
    <2>4. CASE x = b /\ (RejectBackup(b) \/ HoldBackup(b) \/ AdmitBackup(b))
      BY <2>1, <2>4, <1>1 DEF SyncBackup, RejectBackup, HoldBackup, AdmitBackup
    <2>5. QED
      BY <1>1, <2>2, <2>3, <2>4 DEF SyncBackup
  <1>2. ASSUME NEW x \in Backups, CleanupBackup(x)
        PROVE  SyncInv(b)'
    BY <1>2 DEF CleanupBackup, RemoveBackup, JobsOf
  <1>3. CASE CreateBackupJob
    BY <1>3, CreateEffect DEF WorkerInv
  <1>4. ASSUME NEW r \in Restores, SyncRestore(r)
        PROVE  SyncInv(b)'
    BY <1>4 DEF SyncRestore, ReportRestore, RejectRestore, HoldRestore, AdmitRestore
  <1>5. CASE CreateRestoreJob
    BY <1>5 DEF CreateRestoreJob
  <1>6. ASSUME NEW x \in Backups, NewBackup(x) \/ DeleteBackup(x)
        PROVE  SyncInv(b)'
    BY <1>6 DEF NewBackup, DeleteBackup, TakeName, FreshBackup
  <1>7. ASSUME NEW r \in Restores, NewRestore(r) \/ DeleteRestore(r)
        PROVE  SyncInv(b)'
    BY <1>7, SetAssumption DEF NewRestore, DeleteRestore, TakeName, JobsOf
  <1>8. ASSUME NEW j \in Jobs, StartJob(j)
        PROVE  SyncInv(b)'
    BY <1>8 DEF StartJob
  <1>9. ASSUME NEW j \in Jobs, JobSucceeds(j)
        PROVE  SyncInv(b)'
    BY <1>9 DEF JobSucceeds
  <1>10. ASSUME NEW j \in Jobs, JobFails(j)
         PROVE  SyncInv(b)'
    BY <1>10 DEF JobFails, Unfinished
  <1>11. ASSUME NEW j \in Jobs, CollectJob(j)
         PROVE  SyncInv(b)'
    BY <1>11 DEF CollectJob
  <1>12. CASE WatchDelivers
    BY <1>12 DEF WatchDelivers
  <1>13. CASE HealthChanges \/ StorageRemoved
    BY <1>13 DEF HealthChanges, StorageRemoved
  <1>14. CASE UNCHANGED vars
    BY <1>14 DEF vars
  <1>15. QED
    BY <1>1, <1>2, <1>3, <1>4, <1>5, <1>6, <1>7, <1>8, <1>9, <1>10, <1>11, <1>12, <1>13, <1>14
       DEF Next, BackupPass, Users, Cluster

\* Nothing but the creation of its Job, and a deletion, happens to an admitted b.
LEMMA WorkerStep ==
    ASSUME IInv, [Next]_vars, NEW b \in Backups
    PROVE  WorkerInv(b)'
  <1> USE JobNames, JobKinds
      DEF IInv, TypeOK, WorkerInv, owners, cluster, counters, Fault
  <1>1. ASSUME NEW x \in Backups, SyncBackup(x)
        PROVE  WorkerInv(b)'
    <2>1. bw = NoJob /\ UNCHANGED job
      BY <1>1 DEF SyncBackup
    <2>2. CASE AdmitBackup(x)
      <3>1. View[CreateJob(x)] # "succeeded" /\ backup[x] # "absent"
        BY <1>1, <2>2 DEF SyncBackup, AdmitBackup
      <3>2. backup[x] # "Succeeded"
        BY <3>1, <1>1 DEF SyncInv
      <3>3. QED
        BY <2>1, <2>2, <3>1, <3>2 DEF AdmitBackup
    <2>3. CASE bw' = bw
      BY <2>1, <2>3
    <2>4. QED
      BY <1>1, <2>2, <2>3 DEF SyncBackup, ReportBackup, RejectBackup, HoldBackup
  <1>2. ASSUME NEW x \in Backups, CleanupBackup(x)
        PROVE  WorkerInv(b)'
    <2>1. bw = NoJob /\ backup[x] = "Deleting" /\ UNCHANGED job
      BY <1>2 DEF CleanupBackup
    <2>2. CASE bw' = DeleteJob(x) /\ UNCHANGED backup /\ ProducedData(x)
      <3>1. job[CreateJob(x)] = "succeeded"
        BY <2>1, <2>2, <1>2 DEF ProducedData, SyncInv, True, View, Finished
      <3>2. QED
        BY <2>1, <2>2, <3>1
    <2>3. CASE bw' = bw
      BY <2>1, <2>3
    <2>4. QED
      BY <1>2, <2>2, <2>3 DEF CleanupBackup, RemoveBackup
  <1>3. CASE CreateBackupJob
    BY <1>3 DEF CreateBackupJob
  <1>4. ASSUME NEW r \in Restores, SyncRestore(r)
        PROVE  WorkerInv(b)'
    BY <1>4 DEF SyncRestore, ReportRestore, RejectRestore, HoldRestore, AdmitRestore
  <1>5. CASE CreateRestoreJob
    BY <1>5 DEF CreateRestoreJob
  <1>6. ASSUME NEW x \in Backups, NewBackup(x) \/ DeleteBackup(x)
        PROVE  WorkerInv(b)'
    BY <1>6 DEF NewBackup, DeleteBackup, TakeName
  <1>7. ASSUME NEW r \in Restores, NewRestore(r) \/ DeleteRestore(r)
        PROVE  WorkerInv(b)'
    BY <1>7 DEF NewRestore, DeleteRestore, TakeName, JobsOf
  <1>8. ASSUME NEW j \in Jobs, StartJob(j)
        PROVE  WorkerInv(b)'
    BY <1>8 DEF StartJob
  <1>9. ASSUME NEW j \in Jobs, JobSucceeds(j)
        PROVE  WorkerInv(b)'
    BY <1>9 DEF JobSucceeds
  <1>10. ASSUME NEW j \in Jobs, JobFails(j)
         PROVE  WorkerInv(b)'
    BY <1>10 DEF JobFails, Unfinished
  <1>11. ASSUME NEW j \in Jobs, CollectJob(j)
         PROVE  WorkerInv(b)'
    BY <1>11 DEF CollectJob, SyncInv, True
  <1>12. CASE WatchDelivers
    BY <1>12 DEF WatchDelivers
  <1>13. CASE HealthChanges \/ StorageRemoved
    BY <1>13 DEF HealthChanges, StorageRemoved
  <1>14. CASE UNCHANGED vars
    BY <1>14 DEF vars
  <1>15. QED
    BY <1>1, <1>2, <1>3, <1>4, <1>5, <1>6, <1>7, <1>8, <1>9, <1>10, <1>11, <1>12, <1>13, <1>14
       DEF Next, BackupPass, Users, Cluster

\* The create Job of b runs once, and its delete Job after it.
LEMMA DataStep ==
    ASSUME IInv, [Next]_vars, NEW b \in Backups
    PROVE  DataInv(b)'
  <1> SUFFICES ASSUME backup'[b] # "absent"
               PROVE  DataInv(b)'
    BY DEF DataInv
  <1> USE JobNames, JobKinds
      DEF IInv, TypeOK, DataInv, owners, cluster, counters, Fault
  <1>1. ASSUME NEW x \in Backups, SyncBackup(x)
        PROVE  DataInv(b)'
    BY <1>1 DEF SyncBackup, ReportBackup, RejectBackup, HoldBackup, AdmitBackup
  <1>2. ASSUME NEW x \in Backups, CleanupBackup(x)
        PROVE  DataInv(b)'
    BY <1>2 DEF CleanupBackup, RemoveBackup, JobsOf
  <1>3. CASE CreateBackupJob
    BY <1>3, CreateEffect DEF WorkerInv
  <1>4. ASSUME NEW r \in Restores, SyncRestore(r)
        PROVE  DataInv(b)'
    BY <1>4 DEF SyncRestore, ReportRestore, RejectRestore, HoldRestore, AdmitRestore
  <1>5. CASE CreateRestoreJob
    BY <1>5 DEF CreateRestoreJob
  <1>6. ASSUME NEW x \in Backups, NewBackup(x) \/ DeleteBackup(x)
        PROVE  DataInv(b)'
    BY <1>6 DEF NewBackup, DeleteBackup, TakeName, FreshBackup
  <1>7. ASSUME NEW r \in Restores, NewRestore(r) \/ DeleteRestore(r)
        PROVE  DataInv(b)'
    BY <1>7 DEF NewRestore, DeleteRestore, TakeName, JobsOf
  <1>8. ASSUME NEW j \in Jobs, StartJob(j)
        PROVE  DataInv(b)'
    BY <1>8 DEF StartJob
  <1>9. ASSUME NEW j \in Jobs, JobSucceeds(j)
        PROVE  DataInv(b)'
    BY <1>9 DEF JobSucceeds
  <1>10. ASSUME NEW j \in Jobs, JobFails(j)
         PROVE  DataInv(b)'
    BY <1>10 DEF JobFails, Unfinished
  <1>11. ASSUME NEW j \in Jobs, CollectJob(j)
         PROVE  DataInv(b)'
    BY <1>11 DEF CollectJob, SyncInv, True
  <1>12. CASE WatchDelivers
    BY <1>12 DEF WatchDelivers
  <1>13. CASE HealthChanges \/ StorageRemoved
    BY <1>13 DEF HealthChanges, StorageRemoved
  <1>14. CASE UNCHANGED vars
    BY <1>14 DEF vars
  <1>15. QED
    BY <1>1, <1>2, <1>3, <1>4, <1>5, <1>6, <1>7, <1>8, <1>9, <1>10, <1>11, <1>12, <1>13, <1>14
       DEF Next, BackupPass, Users, Cluster

\* Only a Job of r makes a trace of r, and it has a name.
LEMMA FreshRestoreStep ==
    ASSUME IInv, [Next]_vars, NEW r \in Restores
    PROVE  FreshRestore(r)'
  <1> SUFFICES ASSUME r \notin names'
               PROVE  FreshRestore(r)'
    BY DEF FreshRestore
  <1> USE JobNames, JobKinds, SetAssumption
      DEF IInv, TypeOK, FreshRestore, owners, cluster, counters, Fault
  <1>1. ASSUME NEW x \in Backups, SyncBackup(x)
        PROVE  FreshRestore(r)'
    BY <1>1 DEF SyncBackup, ReportBackup, RejectBackup, HoldBackup, AdmitBackup
  <1>2. ASSUME NEW x \in Backups, CleanupBackup(x)
        PROVE  FreshRestore(r)'
    BY <1>2 DEF CleanupBackup, RemoveBackup, JobsOf
  <1>3. CASE CreateBackupJob
    BY <1>3, CreateEffect
  <1>4. ASSUME NEW y \in Restores, SyncRestore(y)
        PROVE  FreshRestore(r)'
    BY <1>4 DEF SyncRestore, ReportRestore, RejectRestore, HoldRestore, AdmitRestore
  <1>5. CASE CreateRestoreJob
    BY <1>5, CreateRestoreEffect DEF AdmittedInv, Admitted
  <1>6. ASSUME NEW x \in Backups, NewBackup(x) \/ DeleteBackup(x)
        PROVE  FreshRestore(r)'
    BY <1>6 DEF NewBackup, DeleteBackup, TakeName
  <1>7. ASSUME NEW y \in Restores, NewRestore(y) \/ DeleteRestore(y)
        PROVE  FreshRestore(r)'
    BY <1>7 DEF NewRestore, DeleteRestore, TakeName, JobsOf
  <1>8. ASSUME NEW j \in Jobs, StartJob(j)
        PROVE  FreshRestore(r)'
    BY <1>8 DEF StartJob
  <1>9. ASSUME NEW j \in Jobs, JobSucceeds(j)
        PROVE  FreshRestore(r)'
    BY <1>9 DEF JobSucceeds
  <1>10. ASSUME NEW j \in Jobs, JobFails(j)
         PROVE  FreshRestore(r)'
    BY <1>10 DEF JobFails, Unfinished
  <1>11. ASSUME NEW j \in Jobs, CollectJob(j)
         PROVE  FreshRestore(r)'
    BY <1>11 DEF CollectJob
  <1>12. CASE WatchDelivers
    BY <1>12 DEF WatchDelivers
  <1>13. CASE HealthChanges \/ StorageRemoved
    BY <1>13 DEF HealthChanges, StorageRemoved
  <1>14. CASE UNCHANGED vars
    BY <1>14 DEF vars
  <1>15. QED
    BY <1>1, <1>2, <1>3, <1>4, <1>5, <1>6, <1>7, <1>8, <1>9, <1>10, <1>11, <1>12, <1>13, <1>14
       DEF Next, BackupPass, Users, Cluster

\* What has succeeded is final, and a name that was deleted does not come back.
LEMMA SourceStep ==
    ASSUME IInv, [Next]_vars, NEW b \in Backups,
           b \in names, backup[b] \in {"Succeeded", "Deleting", "absent"}
    PROVE  b \in names' /\ backup'[b] \in {"Succeeded", "Deleting", "absent"}
  <1> DEFINE Goal == b \in names' /\ backup'[b] \in {"Succeeded", "Deleting", "absent"}
  <1> USE DEF IInv, TypeOK, owners, cluster, counters, Fault
  <1>1. ASSUME NEW x \in Backups, SyncBackup(x)
        PROVE  Goal
    <2>1. CASE x = b /\ backup[b] = "Succeeded"
      <3>1. View[CreateJob(b)] = "succeeded"
        BY <2>1 DEF SyncInv
      <3>2. ReportBackup(b) /\ UNCHANGED names
        BY <1>1, <2>1, <3>1 DEF SyncBackup, RejectBackup, HoldBackup, AdmitBackup
      <3>3. QED
        BY <2>1, <3>1, <3>2, StateOfJob DEF ReportBackup
    <2>2. CASE x # b
      BY <1>1, <2>2 DEF SyncBackup, ReportBackup, RejectBackup, HoldBackup, AdmitBackup
    <2>3. QED
      BY <1>1, <2>1, <2>2 DEF SyncBackup
  <1>2. ASSUME NEW x \in Backups, CleanupBackup(x)
        PROVE  Goal
    BY <1>2 DEF CleanupBackup, RemoveBackup, JobsOf
  <1>3. CASE CreateBackupJob
    BY <1>3, CreateEffect DEF WorkerInv
  <1>4. ASSUME NEW r \in Restores, SyncRestore(r)
        PROVE  Goal
    BY <1>4 DEF SyncRestore, ReportRestore, RejectRestore, HoldRestore, AdmitRestore
  <1>5. CASE CreateRestoreJob
    BY <1>5 DEF CreateRestoreJob
  <1>6. ASSUME NEW x \in Backups, NewBackup(x) \/ DeleteBackup(x)
        PROVE  Goal
    BY <1>6 DEF NewBackup, DeleteBackup, TakeName
  <1>7. ASSUME NEW r \in Restores, NewRestore(r) \/ DeleteRestore(r)
        PROVE  Goal
    BY <1>7 DEF NewRestore, DeleteRestore, TakeName, JobsOf
  <1>8. ASSUME NEW j \in Jobs, StartJob(j)
        PROVE  Goal
    BY <1>8 DEF StartJob
  <1>9. ASSUME NEW j \in Jobs, JobSucceeds(j)
        PROVE  Goal
    BY <1>9 DEF JobSucceeds
  <1>10. ASSUME NEW j \in Jobs, JobFails(j)
         PROVE  Goal
    BY <1>10 DEF JobFails
  <1>11. ASSUME NEW j \in Jobs, CollectJob(j)
         PROVE  Goal
    BY <1>11 DEF CollectJob
  <1>12. CASE WatchDelivers
    BY <1>12 DEF WatchDelivers
  <1>13. CASE HealthChanges \/ StorageRemoved
    BY <1>13 DEF HealthChanges, StorageRemoved
  <1>14. CASE UNCHANGED vars
    BY <1>14 DEF vars
  <1>15. QED
    BY <1>1, <1>2, <1>3, <1>4, <1>5, <1>6, <1>7, <1>8, <1>9, <1>10, <1>11, <1>12, <1>13, <1>14
       DEF Next, BackupPass, Users, Cluster

\* The Job of r stays until r goes.
LEMMA RestoreStep ==
    ASSUME IInv, [Next]_vars, NEW r \in Restores
    PROVE  RestoreInv(r)'
  <1> SUFFICES ASSUME restore'[r] # "absent"
               PROVE  RestoreInv(r)'
    BY DEF RestoreInv
  <1> USE JobNames, JobKinds, SetAssumption
      DEF IInv, TypeOK, RestoreInv, True, owners, cluster, counters, Fault, Finished
  <1>1. ASSUME NEW x \in Backups, SyncBackup(x)
        PROVE  RestoreInv(r)'
    BY <1>1 DEF SyncBackup, ReportBackup, RejectBackup, HoldBackup, AdmitBackup
  <1>2. ASSUME NEW x \in Backups, CleanupBackup(x)
        PROVE  RestoreInv(r)'
    BY <1>2 DEF CleanupBackup, RemoveBackup, JobsOf
  <1>3. CASE CreateBackupJob
    BY <1>3, CreateEffect
  <1>4. ASSUME NEW y \in Restores, SyncRestore(y)
        PROVE  RestoreInv(r)'
    BY <1>4 DEF SyncRestore, ReportRestore, RejectRestore, HoldRestore, AdmitRestore
  <1>5. CASE CreateRestoreJob
    BY <1>5, CreateRestoreEffect DEF AdmittedInv, Admitted
  <1>6. ASSUME NEW x \in Backups, NewBackup(x) \/ DeleteBackup(x)
        PROVE  RestoreInv(r)'
    BY <1>6 DEF NewBackup, DeleteBackup
  <1>7. ASSUME NEW y \in Restores, NewRestore(y) \/ DeleteRestore(y)
        PROVE  RestoreInv(r)'
    <2>1. CASE NewRestore(y)
      BY <2>1 DEF NewRestore, TakeName, FreshRestore
    <2>2. CASE DeleteRestore(y)
      BY <2>2 DEF DeleteRestore, JobsOf
    <2>3. QED
      BY <1>7, <2>1, <2>2
  <1>8. ASSUME NEW j \in Jobs, StartJob(j)
        PROVE  RestoreInv(r)'
    BY <1>8 DEF StartJob
  <1>9. ASSUME NEW j \in Jobs, JobSucceeds(j)
        PROVE  RestoreInv(r)'
    BY <1>9 DEF JobSucceeds
  <1>10. ASSUME NEW j \in Jobs, JobFails(j)
         PROVE  RestoreInv(r)'
    BY <1>10 DEF JobFails, Unfinished
  <1>11. ASSUME NEW j \in Jobs, CollectJob(j)
         PROVE  RestoreInv(r)'
    BY <1>11 DEF CollectJob
  <1>12. CASE WatchDelivers
    BY <1>12 DEF WatchDelivers
  <1>13. CASE HealthChanges \/ StorageRemoved
    BY <1>13 DEF HealthChanges, StorageRemoved
  <1>14. CASE UNCHANGED vars
    BY <1>14 DEF vars
  <1>15. QED
    BY <1>1, <1>2, <1>3, <1>4, <1>5, <1>6, <1>7, <1>8, <1>9, <1>10, <1>11, <1>12, <1>13, <1>14
       DEF Next, BackupPass, Users, Cluster

\* No step changes the parameters of a Backup or a Restore.
LEMMA ParametersStay ==
    ASSUME [Next]_vars
    PROVE  malformed' = malformed
  <1>1. ASSUME NEW b \in Backups, BackupPass(b)
        PROVE  malformed' = malformed
    BY <1>1 DEF BackupPass, SyncBackup, CleanupBackup, counters
  <1>2. ASSUME NEW r \in Restores, SyncRestore(r)
        PROVE  malformed' = malformed
    BY <1>2 DEF SyncRestore
  <1>3. CASE CreateBackupJob \/ CreateRestoreJob
    BY <1>3 DEF CreateBackupJob, CreateRestoreJob
  <1>4. CASE Users
    BY <1>4 DEF Users, NewBackup, DeleteBackup, NewRestore, DeleteRestore, counters
  <1>5. CASE Cluster
    BY <1>5 DEF Cluster, StartJob, JobSucceeds, JobFails, CollectJob, WatchDelivers,
                HealthChanges, StorageRemoved, counters
  <1>6. QED
    BY <1>1, <1>2, <1>3, <1>4, <1>5 DEF Next, vars

\* A Job of r comes only after its source has succeeded.
LEMMA AdmittedStep ==
    ASSUME IInv, [Next]_vars, NEW r \in Restores
    PROVE  AdmittedInv(r)'
  <1> DEFINE Goal == Admitted(r) /\ restore'[r] # "absent"
  <1> SUFFICES ASSUME rw' = RestoreJob(r) \/ (restore'[r] # "absent" /\ job'[RestoreJob(r)] # "none")
               PROVE  Goal
    BY SourceStep, ParametersStay, SourceAssumption DEF AdmittedInv, Admitted
  <1> USE JobNames, JobKinds, SetAssumption, SourceAssumption
      DEF IInv, TypeOK, AdmittedInv, owners, cluster, counters, Fault
  <1>1. ASSUME NEW x \in Backups, SyncBackup(x)
        PROVE  Goal
    BY <1>1 DEF SyncBackup, Admitted
  <1>2. ASSUME NEW x \in Backups, CleanupBackup(x)
        PROVE  Goal
    BY <1>2 DEF CleanupBackup, Admitted
  <1>3. CASE CreateBackupJob
    BY <1>3, CreateEffect DEF Admitted
  <1>4. ASSUME NEW y \in Restores, SyncRestore(y)
        PROVE  Goal
    <2>1. CASE y = r /\ AdmitRestore(r)
      BY <1>4, <2>1 DEF SyncRestore, AdmitRestore, Admitted, FreshBackup
    <2>2. CASE ~(y = r /\ AdmitRestore(r))
      <3>1. UNCHANGED <<job, malformed, names>> /\ rw' # RestoreJob(r)
        BY <1>4, <2>2 DEF SyncRestore, ReportRestore, RejectRestore, HoldRestore, AdmitRestore
      <3>2. restore[r] # "absent"
        BY <1>4, <3>1 DEF SyncRestore, ReportRestore, RejectRestore, HoldRestore, AdmitRestore
      <3>3. QED
        BY <3>1, <3>2
    <2>3. QED
      BY <2>1, <2>2
  <1>5. CASE CreateRestoreJob
    BY <1>5, CreateRestoreEffect DEF Admitted
  <1>6. ASSUME NEW x \in Backups, NewBackup(x) \/ DeleteBackup(x)
        PROVE  Goal
    BY <1>6 DEF NewBackup, DeleteBackup, Admitted
  <1>7. ASSUME NEW y \in Restores, NewRestore(y) \/ DeleteRestore(y)
        PROVE  Goal
    <2>1. CASE NewRestore(y)
      BY <2>1 DEF NewRestore, TakeName, FreshRestore, Admitted
    <2>2. CASE DeleteRestore(y)
      BY <2>2 DEF DeleteRestore, JobsOf, Admitted
    <2>3. QED
      BY <1>7, <2>1, <2>2
  <1>8. ASSUME NEW j \in Jobs, StartJob(j)
        PROVE  Goal
    BY <1>8 DEF StartJob, Admitted
  <1>9. ASSUME NEW j \in Jobs, JobSucceeds(j)
        PROVE  Goal
    BY <1>9 DEF JobSucceeds, Admitted
  <1>10. ASSUME NEW j \in Jobs, JobFails(j)
         PROVE  Goal
    BY <1>10 DEF JobFails, Unfinished, Admitted
  <1>11. ASSUME NEW j \in Jobs, CollectJob(j)
         PROVE  Goal
    BY <1>11 DEF CollectJob, Admitted
  <1>12. CASE WatchDelivers
    BY <1>12 DEF WatchDelivers, Admitted
  <1>13. CASE HealthChanges \/ StorageRemoved
    BY <1>13 DEF HealthChanges, StorageRemoved, Admitted
  <1>14. CASE UNCHANGED vars
    BY <1>14 DEF vars, Admitted
  <1>15. QED
    BY <1>1, <1>2, <1>3, <1>4, <1>5, <1>6, <1>7, <1>8, <1>9, <1>10, <1>11, <1>12, <1>13, <1>14
       DEF Next, BackupPass, Users, Cluster

\* The inductive invariant, for every number of Backups, Restores and faults.
THEOREM InvariantHolds == Spec => []IInv
  <1>1. IInv /\ [Next]_vars => IInv'
    BY TypeStep, FreshBackupStep, SyncStep, WorkerStep, DataStep, FreshRestoreStep, RestoreStep,
       AdmittedStep DEF IInv
  <1>2. QED
    BY InitHolds, <1>1, PTL DEF Spec

-----------------------------------------------------------------------------
\* The data of a finished Backup has gone before the Backup goes, for whatever
\* the cache shows of its Jobs (CleanupBackup).
THEOREM NoDataLeftBehind == Spec => DeletedWithItsData
  <1> DEFINE Gone(b) == backup[b] = "Deleting" /\ backup'[b] = "absent" /\ b \in finished /\ data[b] = "full"
             Reason(b) == b \in Retained \/ ~storage \/ job[DeleteJob(b)] = "failed"
  <1>1. ASSUME IInv, Next, NEW b \in Backups, Gone(b)
        PROVE  Reason(b)
    <2> USE DEF IInv, TypeOK
    <2>1. \A x \in Backups : SyncBackup(x) => backup'[b] = backup[b]
      BY <1>1 DEF SyncBackup, ReportBackup, RejectBackup, HoldBackup, AdmitBackup
    <2>2. CreateBackupJob => backup'[b] = backup[b]
      BY <1>1, CreateEffect
    <2>3. \A x \in Backups : ~(NewBackup(x) \/ DeleteBackup(x))
      BY <1>1 DEF NewBackup, DeleteBackup
    <2>4. PICK x \in Backups : CleanupBackup(x)
      BY <1>1, <2>1, <2>2, <2>3
         DEF Next, BackupPass, Users, Cluster, owners, SyncRestore, CreateRestoreJob, NewRestore,
         DeleteRestore, StartJob, JobSucceeds, JobFails, CollectJob, WatchDelivers,
         HealthChanges, StorageRemoved
    <2>5. x = b /\ CleanupBackup(b)
      BY <1>1, <2>4 DEF CleanupBackup, RemoveBackup
    <2>6. ProducedData(b)
      <3>1. Finished(View[CreateJob(b)]) /\ job[CreateJob(b)] = "succeeded"
        BY <1>1 DEF SyncInv, DataInv
      <3>2. View[CreateJob(b)] = "succeeded"
        BY <1>1, <3>1, JobNames DEF SyncInv, True, View
      <3>3. QED
        BY <3>2 DEF ProducedData
    <2>7. View[DeleteJob(b)] # "succeeded"
      BY <1>1, JobNames DEF SyncInv, DataInv, True, Finished, View
    <2>8. View[DeleteJob(b)] = "failed" => job[DeleteJob(b)] = "failed"
      BY <1>1, JobNames DEF SyncInv, True, Finished, View
    <2>9. QED
      BY <1>1, <2>5, <2>6, <2>7, <2>8 DEF CleanupBackup, Finished
  <1>2. IInv /\ [Next]_vars => [\A b \in Backups : Gone(b) => Reason(b)]_vars
    BY <1>1
  <1>3. QED
    BY <1>2, InvariantHolds, PTL DEF Spec, DeletedWithItsData

\* A Restore under way keeps its instance Restoring, however old the cache and
\* whatever becomes of its source (SyncRestore).
THEOREM RestoringIsKept == Spec => RestoringWhileRunning
  <1> DEFINE Kept(r) ==
               restore[r] \in {"Pending", "Running"} /\ Unfinished(job'[RestoreJob(r)])
                 => restore'[r] \in {"Pending", "Running", "absent"} \/ faults' # faults
  <1>1. ASSUME IInv, Next, NEW r \in Restores, restore[r] \in {"Pending", "Running"},
               Unfinished(job'[RestoreJob(r)]), faults' = faults
        PROVE  restore'[r] \in {"Pending", "Running", "absent"}
    <2> USE DEF IInv, TypeOK
    <2>1. ASSUME NEW y \in Restores, SyncRestore(y)
          PROVE  restore'[r] \in {"Pending", "Running", "absent"}
      <3>1. CASE y # r
        BY <1>1, <2>1, <3>1 DEF SyncRestore, ReportRestore, RejectRestore, HoldRestore, AdmitRestore
      <3>2. CASE y = r
        <4>1. Unfinished(job[RestoreJob(r)])
          BY <1>1, <2>1 DEF SyncRestore, cluster
        <4>2. Admitted(r)
          BY <1>1, <4>1 DEF AdmittedInv, Unfinished
        <4>3. ~RejectRestore(r)
          BY <1>1, <4>2, BoundAssumption DEF RejectRestore, Admitted, Fault
        <4>4. View[RestoreJob(r)] = "none" \/ Unfinished(View[RestoreJob(r)])
          BY <1>1, <4>1, JobNames
             DEF RestoreInv, True, View, Finished, Unfinished, JobStates
        <4>5. CASE ReportRestore(r)
          <5>1. StateOf(View[RestoreJob(r)]) \in {"Pending", "Running"}
            BY <4>4, <4>5, StateOfJob DEF ReportRestore
          <5>2. restore'[r] = StateOf(View[RestoreJob(r)])
            BY <1>1, <4>5 DEF ReportRestore
          <5>3. QED
            BY <5>1, <5>2
        <4>6. CASE HoldRestore(r) \/ AdmitRestore(r)
          BY <1>1, <4>6 DEF HoldRestore, AdmitRestore
        <4>7. QED
          BY <2>1, <3>2, <4>3, <4>5, <4>6 DEF SyncRestore
      <3>3. QED
        BY <3>1, <3>2
    <2>2. CASE CreateRestoreJob
      BY <1>1, <2>2, CreateRestoreEffect
    <2>3. ASSUME NEW y \in Restores, NewRestore(y) \/ DeleteRestore(y)
          PROVE  restore'[r] \in {"Pending", "Running", "absent"}
      BY <1>1, <2>3 DEF NewRestore, DeleteRestore
    <2>4. CASE UNCHANGED restore
      BY <1>1, <2>4
    <2>5. QED
      BY <1>1, <2>1, <2>2, <2>3, <2>4
         DEF Next, BackupPass, Users, Cluster, owners, SyncBackup, CleanupBackup, CreateBackupJob,
         NewBackup, DeleteBackup, StartJob, JobSucceeds, JobFails, CollectJob, WatchDelivers,
         HealthChanges, StorageRemoved
  <1>2. IInv /\ [Next]_vars => [\A r \in Restores : Kept(r)]_vars
    BY <1>1
  <1>3. QED
    BY <1>2, InvariantHolds, PTL DEF Spec, RestoringWhileRunning

\* Every step is one of the contract, or none, for each Backup.
LEMMA ContractStep ==
    ASSUME IInv, [Next]_vars, NEW b \in Backups
    PROVE  Contract!Step(b)
  <1> DEFINE Goal == Contract!Step(b)
             Still == backup'[b] = backup[b] /\ data'[b] = data[b]
  <1>0. Still => Goal
    BY DEF Contract!Step
  <1> HIDE DEF Goal
  <1> USE <1>0, JobNames, JobKinds DEF IInv, TypeOK, owners, cluster, counters, Fault
  <1>15. ASSUME backup'[b] = backup[b], data'[b] \in {"none", "partial", "full"},
               job[CreateJob(b)] \in {"waiting", "running"} \/ job[DeleteJob(b)] = "running"
        PROVE  Goal
    <2>1. backup[b] # "Succeeded"
      BY <1>15 DEF SyncInv, DataInv, True, View, Finished
    <2>2. QED
      BY <1>15, <2>1 DEF Contract!Step, Contract!Write, Goal
  <1>1. ASSUME NEW x \in Backups, SyncBackup(x)
        PROVE  Goal
    <2>1. UNCHANGED data
      BY <1>1 DEF SyncBackup
    <2>2. CASE x # b
      BY <1>1, <2>1, <2>2 DEF SyncBackup, ReportBackup, RejectBackup, HoldBackup, AdmitBackup
    <2>3. CASE x = b /\ ReportBackup(b)
      <3>1. backup'[b] = StateOf(View[CreateJob(b)]) /\ backup[b] \notin {"absent", "Deleting"}
        BY <1>1, <2>3 DEF SyncBackup, ReportBackup
      <3>2. View[CreateJob(b)] = "succeeded" => data[b] = "full"
        BY <3>1 DEF SyncInv, DataInv, True, View, Finished
      <3>3. CASE backup[b] = "Succeeded"
        BY <2>1, <3>1, <3>3, StateOfJob DEF SyncInv
      <3>4. CASE backup[b] # "Succeeded"
        <4>1. Contract!Report(b)
          BY <2>1, <3>1, <3>2, <3>4, StateOfJob DEF Contract!Report, Terminal
        <4>2. QED
          BY <4>1 DEF Contract!Step, Goal
      <3>5. QED
        BY <3>3, <3>4
    <2>4. CASE x = b /\ (RejectBackup(b) \/ HoldBackup(b))
      <3>1. backup[b] \in {"Pending", "Running", "Failed"}
        BY <1>1, <2>4 DEF SyncBackup, RejectBackup, HoldBackup, SyncInv, Terminal
      <3>2. backup'[b] \in {"Pending", "Failed"}
        BY <2>4 DEF RejectBackup, HoldBackup
      <3>3. Contract!Report(b)
        BY <2>1, <3>1, <3>2 DEF Contract!Report
      <3>4. QED
        BY <3>3 DEF Contract!Step, Goal
    <2>5. CASE x = b /\ AdmitBackup(b)
      BY <2>1, <2>5 DEF AdmitBackup
    <2>6. QED
      BY <1>1, <2>2, <2>3, <2>4, <2>5 DEF SyncBackup
  <1>2. ASSUME NEW x \in Backups, CleanupBackup(x)
        PROVE  Goal
    <2>1. Still \/ (backup[b] = "Deleting" /\ backup'[b] = "absent" /\ data'[b] = data[b])
      BY <1>2 DEF CleanupBackup, RemoveBackup
    <2>2. QED
      BY <2>1 DEF Contract!Step, Contract!Remove, Goal
  <1>3. CASE CreateBackupJob
    <2>1. Still \/ (/\ backup[b] \in {"Pending", "Running", "Failed"} /\ backup'[b] = "Pending"
                    /\ data'[b] = data[b])
      BY <1>3, CreateEffect DEF WorkerInv, Terminal
    <2>2. QED
      BY <2>1 DEF Contract!Step, Contract!Report, Goal
  <1>4. ASSUME NEW r \in Restores, SyncRestore(r)
        PROVE  Goal
    BY <1>4 DEF SyncRestore, ReportRestore, RejectRestore, HoldRestore, AdmitRestore
  <1>5. CASE CreateRestoreJob
    <2>1. Still
      BY <1>5, CreateRestoreEffect
    <2>2. QED
      BY <2>1 DEF Goal
  <1>6. ASSUME NEW x \in Backups, NewBackup(x) \/ DeleteBackup(x)
        PROVE  Goal
    <2>1. CASE NewBackup(x)
      <3>1. Still \/ (backup[b] = "absent" /\ backup'[b] = "Pending" /\ data'[b] = data[b])
        BY <2>1 DEF NewBackup
      <3>2. QED
        BY <3>1 DEF Contract!Step, Contract!Appear, Goal
    <2>2. CASE DeleteBackup(x)
      <3>1. Still \/ (/\ backup[b] \notin {"absent", "Deleting"} /\ backup'[b] = "Deleting"
                      /\ data'[b] = data[b])
        BY <2>2 DEF DeleteBackup
      <3>2. QED
        BY <3>1 DEF Contract!Step, Contract!Delete, Goal
    <2>3. QED
      BY <1>6, <2>1, <2>2
  <1>7. ASSUME NEW r \in Restores, NewRestore(r) \/ DeleteRestore(r)
        PROVE  Goal
    BY <1>7 DEF NewRestore, DeleteRestore, TakeName, JobsOf
  <1>8. ASSUME NEW j \in Jobs, StartJob(j)
        PROVE  Goal
    <2>1. backup'[b] = backup[b] /\ data'[b] \in {data[b], "partial"}
      BY <1>8 DEF StartJob
    <2>2. data'[b] # data[b] => job[CreateJob(b)] = "waiting"
      BY <1>8 DEF StartJob
    <2>3. QED
      BY <2>1, <2>2, <1>15
  <1>9. ASSUME NEW j \in Jobs, JobSucceeds(j)
        PROVE  Goal
    <2>1. backup'[b] = backup[b] /\ data'[b] \in {data[b], "full", "none"}
      BY <1>9 DEF JobSucceeds
    <2>2. data'[b] # data[b] => job[CreateJob(b)] = "running" \/ job[DeleteJob(b)] = "running"
      <3>1. CASE j[1] = "create" /\ data' = [data EXCEPT ![j[2]] = "full"]
        BY <1>9, <3>1 DEF JobSucceeds
      <3>2. CASE j[1] = "delete" /\ data' = [data EXCEPT ![j[2]] = "none"]
        BY <1>9, <3>2 DEF JobSucceeds
      <3>3. QED
        BY <1>9, <3>1, <3>2 DEF JobSucceeds
    <2>3. QED
      BY <2>1, <2>2, <1>15
  <1>10. ASSUME NEW j \in Jobs, JobFails(j)
         PROVE  Goal
    <2>1. backup'[b] = backup[b] /\ data'[b] \in {data[b], "partial"}
      BY <1>10 DEF JobFails
    <2>2. data'[b] # data[b] => job[DeleteJob(b)] = "running"
      BY <1>10 DEF JobFails
    <2>3. QED
      BY <2>1, <2>2, <1>15
  <1>11. ASSUME NEW j \in Jobs, CollectJob(j)
         PROVE  Goal
    BY <1>11 DEF CollectJob
  <1>12. CASE WatchDelivers
    <2>1. Still
      BY <1>12 DEF WatchDelivers
    <2>2. QED
      BY <2>1 DEF Goal
  <1>13. CASE HealthChanges \/ StorageRemoved
    <2>1. Still
      BY <1>13 DEF HealthChanges, StorageRemoved
    <2>2. QED
      BY <2>1 DEF Goal
  <1>14. CASE UNCHANGED vars
    <2>1. Still
      BY <1>14 DEF vars
    <2>2. QED
      BY <2>1 DEF Goal
  <1>16. QED
    BY <1>1, <1>2, <1>3, <1>4, <1>5, <1>6, <1>7, <1>8, <1>9, <1>10, <1>11, <1>12, <1>13, <1>14
       DEF Next, BackupPass, Users, Cluster, Goal

\* On-demand Backups keep their contract: a success is reported over complete
\* data, is final, and goes only by a deletion (SyncBackup, CleanupBackup).
THEOREM JobsKeepTheContract == Spec => ImplementsContract
  <1>1. Init => Contract!Init
    BY DEF Init, Contract!Init
  <1>2. IInv /\ [Next]_vars => [Contract!Next]_(Contract!vars)
    BY ContractStep DEF Contract!Next
  <1>3. QED
    BY <1>1, <1>2, InvariantHolds, PTL DEF Spec, ImplementsContract, Contract!Spec

\* Under the contract a step reports a success only over complete data, and no
\* pod writes to what has succeeded (SyncBackup, readBackupJobState).
LEMMA StepKeepsData ==
    ASSUME Contract!SucceededHasData, [Contract!Next]_(Contract!vars)
    PROVE  Contract!SucceededHasData'
  <1>1. CASE UNCHANGED Contract!vars
    BY <1>1 DEF Contract!vars, Contract!SucceededHasData
  <1>2. CASE Contract!Next
    <2> SUFFICES ASSUME NEW b \in Backups, backup'[b] = "Succeeded"
                 PROVE  data'[b] = "full"
      BY DEF Contract!SucceededHasData
    <2>1. Contract!Step(b)
      BY <1>2 DEF Contract!Next
    <2>2. backup[b] = "Succeeded" => data[b] = "full"
      BY DEF Contract!SucceededHasData
    <2>3. CASE Contract!Report(b)
      BY <2>3 DEF Contract!Report
    <2>4. CASE backup'[b] = backup[b] /\ data'[b] = data[b]
      BY <2>2, <2>4
    <2>5. ~Contract!Appear(b) /\ ~Contract!Write(b) /\ ~Contract!Delete(b) /\ ~Contract!Remove(b)
      BY DEF Contract!Appear, Contract!Write, Contract!Delete, Contract!Remove
    <2>6. QED
      BY <2>1, <2>3, <2>4, <2>5 DEF Contract!Step
  <1>3. QED
    BY <1>1, <1>2

\* Whatever implements the contract reports Succeeded only over complete data,
\* whatever the number of Backups and however they are deleted.
THEOREM ContractHasData == Contract!Spec => []Contract!SucceededHasData
  <1>1. Contract!Init => Contract!SucceededHasData
    BY DEF Contract!Init, Contract!SucceededHasData
  <1>2. Contract!SucceededHasData /\ [Contract!Next]_(Contract!vars) => Contract!SucceededHasData'
    BY StepKeepsData
  <1>3. QED
    BY <1>1, <1>2, PTL DEF Contract!Spec

\* Under the contract no step but a deletion takes a success back or touches its
\* data.
THEOREM ContractIsFinal == Contract!Spec => Contract!SuccessIsFinal
  <1> DEFINE Kept(b) == backup[b] = "Succeeded" =>
                          /\ backup'[b] \in {"Succeeded", "Deleting"}
                          /\ data'[b] = "full"
  <1>1. ASSUME Contract!SucceededHasData, Contract!Next, NEW b \in Backups, backup[b] = "Succeeded"
        PROVE  backup'[b] \in {"Succeeded", "Deleting"} /\ data'[b] = "full"
    <2>1. Contract!Step(b)
      BY <1>1 DEF Contract!Next
    <2>2. data[b] = "full"
      BY <1>1 DEF Contract!SucceededHasData
    <2>3. ~Contract!Appear(b) /\ ~Contract!Report(b) /\ ~Contract!Write(b) /\ ~Contract!Remove(b)
      BY <1>1 DEF Contract!Appear, Contract!Report, Contract!Write, Contract!Remove
    <2>4. QED
      BY <1>1, <2>1, <2>2, <2>3 DEF Contract!Step, Contract!Delete
  <1>2. Contract!SucceededHasData /\ [Contract!Next]_(Contract!vars)
          => [\A b \in Backups : Kept(b)]_(Contract!vars)
    BY <1>1
  <1>3. QED
    BY <1>2, ContractHasData, PTL DEF Contract!Spec, Contract!SuccessIsFinal

\* And so of on-demand Backups: what kubectl shows as Succeeded can be restored,
\* and stays so until somebody deletes it (SyncBackup, CleanupBackup).
THEOREM SuccessMeansData == Spec => []Contract!SucceededHasData /\ Contract!SuccessIsFinal
  BY JobsKeepTheContract, ContractHasData, ContractIsFinal DEF ImplementsContract
=============================================================================
