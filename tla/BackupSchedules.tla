--------------------------- MODULE BackupSchedules ---------------------------
(***************************************************************************)
(* Scheduled backups of one instance (backup_schedule.go): the Instance    *)
(* pass keeps one CronJob per enabled schedule and applies retention, the  *)
(* CronJobs start Jobs by themselves, and each Job is mirrored into a      *)
(* Backup of the same name, which SyncBackup and CleanupBackup look after. *)
(* Runs are numbered in the order they start; a run is its Job's name.     *)
(***************************************************************************)
EXTENDS Naturals, Sequences, FiniteSets

CONSTANTS Schedules,   \* a prefix of 1, 2, ...: their order in the spec
          Keep,        \* retention by count; 0 stands for no such policy
          Expiring,    \* schedules with retention by time, one window for all
          Broken,      \* schedules whose cron or parameters are bad at first
          Late,        \* schedules whose CronJob the cache may be late to show
          HistoryLimit,  \* finished Jobs a CronJob keeps, of each outcome (3)
          KeptFailedRuns,  \* keptFailedRuns (3)
          MaxRuns,     \* bound on runs
          MaxEdits,    \* bound on changes of the spec
          MaxFaults    \* bound on failed calls, crashes and health drops

ASSUME ScheduleAssumption == /\ Schedules \subseteq Nat
                             /\ Keep \in [Schedules -> Nat]
                             /\ Expiring \subseteq {s \in Schedules : Keep[s] = 0}
                             /\ Broken \subseteq Schedules /\ Late \subseteq Schedules
ASSUME BoundAssumption == /\ {HistoryLimit, KeptFailedRuns, MaxRuns} \subseteq Nat
                          /\ {MaxEdits, MaxFaults} \subseteq Nat

Runs == 1..MaxRuns

VARIABLES spec,       \* each schedule in the Instance: enabled, disabled, removed
          broken,     \* the schedules that cannot be applied as they are
          cron,       \* its CronJob at the API server
          unseen,     \* CronJobs made, but not in the provider's cache yet
          overlooked, \* history: CronJobs to go that the last pass did not see
          runs,       \* the schedule of each run started so far
          job,        \* the Job of each run
          ended,      \* the runs that succeeded, by completion time
          orphans,    \* Jobs whose CronJob is deleted
          backup,     \* status.state of the Backup mirroring each run
          finished,   \* Backups with a completion time
          aged,       \* how many of `ended` were before the window when the clock
                      \* was last read
          data,       \* what each run has in the bucket
          restoring,  \* a Restore, or seeding, is unfinished
          healthy,    \* the Milvus CR reports Healthy
          queued,     \* the instance is in the work queue
          pass,       \* the Instance pass under way
          expired,    \* runs that retention deleted
          edits, faults

vars == <<spec, broken, cron, unseen, overlooked, runs, job, ended, orphans, backup, finished, aged, data,
          restoring, healthy, queued, pass, expired, edits, faults>>
crons == <<cron, unseen, overlooked>>
mirrors == <<backup, finished>>
jobs == <<runs, job, ended, orphans, data>>
world == <<spec, broken, restoring, healthy>>
counters == <<edits, faults>>

Idle == [at |-> "idle", todo |-> {}, desired |-> {}, listed |-> {},
         suspend |-> FALSE, wait |-> FALSE]
Passes == [at : {"idle", "apply", "retain"}, todo : SUBSET Schedules,
           desired : SUBSET Schedules, listed : SUBSET Schedules,
           suspend : BOOLEAN, wait : BOOLEAN]

TypeOK == /\ spec \in [Schedules -> {"enabled", "disabled", "removed"}]
          /\ broken \subseteq Broken
          /\ cron \in [Schedules -> {"none", "active", "suspended"}]
          /\ unseen \subseteq {s \in Schedules : cron[s] # "none"}
          /\ overlooked \subseteq Schedules
          /\ runs \in Seq(Schedules) /\ Len(runs) <= MaxRuns
          /\ job \in [Runs -> {"none", "running", "succeeded", "failed"}]
          /\ orphans \subseteq {i \in Runs : job[i] # "none"}
          /\ backup \in [Runs -> {"absent", "Running", "Succeeded", "Failed", "Deleting"}]
          /\ finished \subseteq {i \in Runs : backup[i] # "absent"}
          /\ ended \in Seq(Runs) /\ aged \in 0..Len(ended)
          /\ data \in [Runs -> {"none", "partial", "full"}]
          /\ {restoring, healthy, queued} \subseteq BOOLEAN
          /\ pass \in Passes
          /\ expired \subseteq Runs
          /\ edits \in 0..MaxEdits /\ faults \in 0..MaxFaults

Init == /\ spec = [s \in Schedules |-> "enabled"]
        /\ broken = Broken
        /\ cron = [s \in Schedules |-> "none"]
        /\ unseen = {} /\ overlooked = {}
        /\ runs = <<>>
        /\ job = [i \in Runs |-> "none"]
        /\ ended = <<>>
        /\ orphans = {}
        /\ backup = [i \in Runs |-> "absent"]
        /\ finished = {}
        /\ aged = 0
        /\ data = [i \in Runs |-> "none"]
        /\ restoring = FALSE
        /\ healthy = TRUE
        /\ queued = TRUE
        /\ pass = Idle
        /\ expired = {}
        /\ edits = 0 /\ faults = 0

Fault == faults < MaxFaults /\ faults' = faults + 1

\* What queues the instance: a Restore that changes (enqueueRestoreInstance), a
\* scheduled Backup that does (enqueueScheduledBackupInstance).  Variants with a
\* bug, for mutation runs, carry the name of the operator they vary and a suffix.
EnqueueRestoreInstance_Lost == UNCHANGED queued
EnqueueRestoreInstance == queued' = TRUE
EnqueueScheduledBackupInstance_Lost == UNCHANGED queued
EnqueueScheduledBackupInstance == queued' = TRUE
RunsOf(s) == {i \in 1..Len(runs) : runs[i] = s}
-----------------------------------------------------------------------------
\* syncBackupSchedules, in the pass that Sync ends with: health, restores and
\* the spec are read first ...
BeginPass ==
    /\ pass.at = "idle" /\ queued
    /\ queued' = FALSE
    /\ LET enabled == {s \in Schedules : spec[s] = "enabled"}
       IN  pass' = [at |-> "apply", todo |-> enabled, desired |-> enabled,
                    listed |-> {s \in Schedules : spec[s] # "removed"},
                    suspend |-> restoring, wait |-> ~healthy]
    /\ overlooked' = {}
    /\ UNCHANGED <<cron, unseen, jobs, mirrors, world, aged, expired, counters>>

\* ... then each enabled schedule is applied in turn.  A schedule that cannot
\* be is a BackupConfigError and ends the pass; without Milvus's rendered
\* config the CronJobs stay as they are.
ApplySchedule ==
    /\ pass.at = "apply" /\ pass.todo # {}
    /\ LET s == CHOOSE t \in pass.todo : \A u \in pass.todo : t <= u
           rest == [pass EXCEPT !.todo = @ \ {s}]
       IN  \/ pass.wait /\ pass' = rest /\ UNCHANGED <<cron, unseen>>
           \/ ~pass.wait /\ s \in broken /\ pass' = Idle /\ UNCHANGED <<cron, unseen>>
           \/ /\ ~pass.wait /\ s \notin broken
              /\ cron' = [cron EXCEPT ![s] = IF pass.suspend THEN "suspended" ELSE "active"]
              /\ unseen' = IF cron[s] = "none" THEN unseen \cup ({s} \cap Late) ELSE unseen
              /\ pass' = rest
    /\ UNCHANGED <<overlooked, jobs, mirrors, world, aged, queued, expired, counters>>

\* pruneBackupSchedules goes by the CronJobs that the cache shows.  A delete that
\* fails ends the pass with some done; the Jobs of a deleted CronJob are garbage.
PruneSchedules ==
    /\ pass.at = "apply" /\ pass.todo = {}
    /\ LET left == {s \in Schedules \ pass.desired : cron[s] # "none"}
       IN  \E some \in SUBSET (left \ unseen) :
             /\ \/ /\ some = left \ unseen
                   /\ pass' = [Idle EXCEPT !.at = "retain", !.listed = pass.listed]
                   /\ UNCHANGED <<queued, faults>>
                \/ Fault /\ pass' = Idle /\ queued' = TRUE
             /\ cron' = [s \in Schedules |-> IF s \in some THEN "none" ELSE cron[s]]
             /\ orphans' = orphans \cup {i \in UNION {RunsOf(s) : s \in some} : job[i] # "none"}
             /\ overlooked' = left \cap unseen
    /\ UNCHANGED <<unseen, runs, job, ended, data, mirrors, world, aged, expired, edits>>

\* expiredBackups: of a schedule in the spec, the successful runs beyond the
\* newest Keep, or before the window ...
InState(s, state) == {i \in RunsOf(s) : backup[i] = state}
Place(i) == CHOOSE n \in 1..Len(ended) : ended[n] = i
Later(i, kin) == {k \in kin : Place(k) > Place(i)}
ExpiredRuns_OffByOne(s, cutoff) ==
    LET good == InState(s, "Succeeded") \cap finished
    IN  {i \in good : \/ (Keep[s] > 0 /\ Cardinality(Later(i, good)) + 1 >= Keep[s])
                     \/ (s \in Expiring /\ Place(i) <= cutoff + 1)}

ExpiredRuns(s, cutoff) ==
    LET good == InState(s, "Succeeded") \cap finished
    IN  {i \in good : \/ (Keep[s] > 0 /\ Cardinality(Later(i, good)) >= Keep[s])
                     \/ (s \in Expiring /\ Place(i) <= cutoff)}

\* ... and the failed ones beyond the newest few; a Backup is as old as its
\* mirroring, which may take the runs in any order.
ExcessFailures(s) ==
    LET failed == InState(s, "Failed")
    IN  {gone \in SUBSET failed :
           Cardinality(failed \ gone) = IF Cardinality(failed) > KeptFailedRuns
                                         THEN KeptFailedRuns ELSE Cardinality(failed)}

\* enforceRetention, the only one to look at the clock, which has moved on since
\* (retentionCutoff): a failed delete ends the pass with some runs deleted.
EnforceRetention ==
    /\ pass.at = "retain"
    /\ aged' \in IF Expiring = {} THEN {aged} ELSE aged .. Len(ended)
    /\ \E failures \in [pass.listed -> SUBSET Runs] :
          /\ \A s \in pass.listed : failures[s] \in ExcessFailures(s)
          /\ LET all == UNION {ExpiredRuns(s, aged') \cup failures[s] : s \in pass.listed}
             IN  \E some \in SUBSET all :
                    /\ \/ (some = all /\ UNCHANGED <<queued, faults>>)
                       \/ (some # all /\ Fault /\ queued' = TRUE)
                    /\ backup' = [i \in Runs |-> IF i \in some THEN "Deleting" ELSE backup[i]]
                    /\ expired' = expired \cup some
    /\ pass' = Idle
    /\ UNCHANGED <<crons, jobs, finished, world, edits>>

\* Any other error, or a crash, ends the pass; it is queued again.
AbortPass ==
    /\ pass.at # "idle" /\ Fault
    /\ pass' = Idle
    /\ queued' = TRUE
    /\ UNCHANGED <<crons, jobs, mirrors, world, aged, expired, edits>>

InstancePass == BeginPass \/ ApplySchedule \/ PruneSchedules \/ EnforceRetention
-----------------------------------------------------------------------------
\* Mirror: a Job of a schedule becomes a Backup, once.
Mirror(i) ==
    /\ job[i] # "none" /\ backup[i] = "absent" /\ i \notin expired
    /\ backup' = [backup EXCEPT ![i] = "Running"]
    /\ EnqueueScheduledBackupInstance
    /\ UNCHANGED <<crons, jobs, finished, world, aged, pass, expired, counters>>

\* scheduledRunWithoutJob: a run whose Job went before its outcome was known
\* has failed.
OutcomeWithoutJob_Succeeded == "Succeeded"
OutcomeWithoutJob_None == ""
OutcomeWithoutJob == "Failed"

\* Bug: the outcome already reported is forgotten with the Job.
SyncBackup_Forgets(i) ==
    /\ backup[i] \in {"Running", "Succeeded"}
    /\ backup' = [backup EXCEPT ![i] = CASE job[i] = "succeeded" -> "Succeeded"
                                         [] job[i] = "running"   -> "Running"
                                         [] OTHER                -> OutcomeWithoutJob]
    /\ finished' = IF job[i] = "succeeded" THEN finished \cup {i} ELSE finished
    /\ backup' # backup
    /\ EnqueueScheduledBackupInstance
    /\ UNCHANGED <<crons, jobs, world, aged, pass, expired, counters>>

\* SyncBackup of a mirrored run: its Job's outcome, or without a Job the outcome
\* it already had.
SyncBackup(i) ==
    /\ backup[i] \notin {"absent", "Deleting"}
    /\ \/ /\ job[i] \in {"succeeded", "failed"}
          /\ backup' = [backup EXCEPT ![i] = IF job[i] = "failed" THEN "Failed" ELSE "Succeeded"]
          /\ finished' = finished \cup {i}
       \/ /\ job[i] = "none" /\ backup[i] = "Running"
          /\ backup' = [backup EXCEPT ![i] = OutcomeWithoutJob]
          /\ UNCHANGED finished
    /\ backup' # backup
    /\ EnqueueScheduledBackupInstance
    /\ UNCHANGED <<crons, jobs, world, aged, pass, expired, counters>>

\* backupProducedData: the create Job knows; without it, a completion time does.
ProducedData_ByJob(i) == job[i] = "succeeded"
ProducedData(i) == IF job[i] = "none" THEN i \in finished ELSE job[i] = "succeeded"

\* CleanupBackup, from the first pass to its answer; a failed delete Job leaves
\* the data.
CleanupBackup(i) ==
    /\ backup[i] = "Deleting"
    /\ \/ ProducedData(i) /\ data' = [data EXCEPT ![i] = "none"] /\ UNCHANGED faults
       \/ ProducedData(i) /\ Fault /\ UNCHANGED data
       \/ ~ProducedData(i) /\ UNCHANGED <<data, faults>>
    /\ backup' = [backup EXCEPT ![i] = "absent"]
    /\ finished' = finished \ {i}
    /\ EnqueueScheduledBackupInstance
    /\ UNCHANGED <<crons, runs, job, ended, orphans, world, aged, pass, expired, edits>>
-----------------------------------------------------------------------------
\* The CronJob controller starts a run unless its last one goes on (Forbid).
StartRun(s) ==
    /\ cron[s] = "active"
    /\ Len(runs) < MaxRuns
    /\ \A i \in RunsOf(s) \ orphans : job[i] # "running"
    /\ runs' = Append(runs, s)
    /\ job' = [job EXCEPT ![Len(runs) + 1] = "running"]
    /\ data' = [data EXCEPT ![Len(runs) + 1] = "partial"]
    /\ UNCHANGED <<crons, ended, orphans, mirrors, world, aged, queued, pass, expired, counters>>

EndRun(i) ==
    /\ job[i] = "running"
    /\ \/ /\ job' = [job EXCEPT ![i] = "succeeded"]
          /\ data' = [data EXCEPT ![i] = "full"]
          /\ ended' = Append(ended, i)
       \/ job' = [job EXCEPT ![i] = "failed"] /\ UNCHANGED <<data, ended>>
    /\ UNCHANGED <<crons, runs, orphans, mirrors, world, aged, queued, pass, expired, counters>>

\* The CronJob's history limit, and the garbage collector.
RemoveJob(i) ==
    /\ job[i] # "none"
    /\ \/ i \in orphans
       \/ /\ job[i] # "running"
          /\ Cardinality({k \in RunsOf(runs[i]) \ orphans : k > i /\ job[k] = job[i]}) >= HistoryLimit
    /\ job' = [job EXCEPT ![i] = "none"]
    /\ orphans' = orphans \ {i}
    /\ UNCHANGED <<crons, runs, ended, data, mirrors, world, aged, queued, pass, expired, counters>>

\* The cache learns of a CronJob.  Nothing watches them to queue the instance.
CacheCronJob(s) ==
    /\ s \in unseen
    /\ unseen' = unseen \ {s}
    /\ UNCHANGED <<cron, overlooked, jobs, mirrors, world, aged, queued, pass, expired, counters>>

\* The Instance, the Restore watch (enqueueRestoreInstance) and the Milvus CR
\* watch queue the instance.
EditSpec ==
    /\ edits < MaxEdits /\ edits' = edits + 1
    /\ \/ /\ \E s \in Schedules, state \in {"enabled", "disabled", "removed"} :
                /\ state # spec[s]
                /\ spec' = [spec EXCEPT ![s] = state]
          /\ UNCHANGED broken
       \/ /\ broken # {} /\ broken' = {}
          /\ UNCHANGED spec
    /\ queued' = TRUE
    /\ UNCHANGED <<crons, jobs, mirrors, restoring, healthy, aged, pass, expired, faults>>

RestoreBegins ==
    /\ ~restoring /\ edits < MaxEdits /\ edits' = edits + 1
    /\ restoring' = TRUE
    /\ EnqueueRestoreInstance
    /\ UNCHANGED <<crons, jobs, mirrors, spec, broken, healthy, aged, pass, expired, faults>>

RestoreEnds ==
    /\ restoring
    /\ restoring' = FALSE
    /\ EnqueueRestoreInstance
    /\ UNCHANGED <<crons, jobs, mirrors, spec, broken, healthy, aged, pass, expired, counters>>

HealthChanges ==
    /\ \/ ~healthy /\ healthy' = TRUE /\ UNCHANGED faults
       \/ healthy /\ healthy' = FALSE /\ Fault
    /\ queued' = TRUE
    /\ UNCHANGED <<crons, jobs, mirrors, spec, broken, restoring, aged, pass, expired, edits>>

Next == \/ InstancePass \/ AbortPass
        \/ \E i \in Runs : Mirror(i) \/ SyncBackup(i) \/ CleanupBackup(i)
        \/ \E s \in Schedules : StartRun(s) \/ CacheCronJob(s)
        \/ \E i \in Runs : EndRun(i) \/ RemoveJob(i)
        \/ EditSpec \/ RestoreBegins \/ RestoreEnds \/ HealthChanges

Spec == Init /\ [][Next]_vars

\* Queued passes run, Backups are reconciled, Jobs end and Milvus recovers.
Fairness == /\ WF_vars(InstancePass)
            /\ \A i \in Runs : /\ WF_vars(Mirror(i))
                               /\ WF_vars(SyncBackup(i))
                               /\ WF_vars(CleanupBackup(i))
                               /\ WF_vars(EndRun(i))
            /\ WF_vars(~healthy /\ HealthChanges)

FairSpec == Spec /\ Fairness
-----------------------------------------------------------------------------
\* Retention by count never takes a Backup unless Keep later successful runs of
\* its schedule stay, even when it stops half-way; retention by time never takes
\* one that completed within the window (enforceRetention, expiredBackups).
RetentionLeavesNewest ==
    [][\A i \in Runs : backup[i] = "Succeeded" /\ backup'[i] = "Deleting" =>
         LET s == runs[i]
             kept == Later(i, {k \in RunsOf(s) : backup'[k] = "Succeeded"})
         IN  IF Keep[s] > 0 THEN Cardinality(kept) >= Keep[s]
                            ELSE \A n \in aged' + 1 .. Len(ended) : ended[n] # i]_vars

\* Retention empties the bucket of a run it deletes unless a delete Job fails,
\* even when the CronJob's history has removed the Job that wrote it; a run that
\* was never reported has no completion time to go by (backupProducedData).
DeletedWithItsData ==
    [][\A i \in Runs : /\ backup[i] = "Deleting" /\ backup'[i] = "absent"
                       /\ i \in finished /\ faults' = faults
                       => data'[i] # "full"]_vars

\* A schedule that cannot be applied keeps the pass from those behind it.
NoneBroken == \A s \in broken : spec[s] # "enabled"

\* What the spec and the restores ask of the CronJobs (syncBackupSchedules).  The
\* CronJob of a schedule that is not enabled may be left over when the cache did not
\* show it yet to the last pruning (pruneBackupSchedules).
CronJobsMatch ==
    \A s \in Schedules :
       IF spec[s] = "enabled" THEN cron[s] = IF restoring THEN "suspended" ELSE "active"
                              ELSE cron[s] = "none" \/ s \in overlooked

\* Of each schedule in the spec, retention leaves the number of successful runs to
\* keep, or those in the window as it was when the clock was last read, and the
\* number of failed runs to keep (enforceRetention).
RetentionMet ==
    \A s \in Schedules : spec[s] # "removed" =>
       /\ Keep[s] > 0 => Cardinality(InState(s, "Succeeded")) <= Keep[s]
       /\ s \in Expiring => \A i \in InState(s, "Succeeded") : Place(i) > aged
       /\ Cardinality(InState(s, "Failed")) <= KeptFailedRuns

\* Whatever the order of edits, restores, crashes, health changes and cache events,
\* the CronJobs end up as the spec and the restores want them, but for one that was
\* made so shortly before its schedule was disabled or removed that the cache did
\* not show it: it stays until something starts another pass (syncBackupSchedules).
CronJobsFollow == <>[](NoneBroken => CronJobsMatch)

\* No run outlives the retention of its schedule for good, whenever its end is seen:
\* by count and for failed runs.  By time none does that was out of the window when
\* retention was last applied; the passage of time alone starts no pass
\* (enforceRetention, enqueueScheduledBackupInstance).
RetentionSettles == <>[](NoneBroken => RetentionMet)

\* README: "Disabling or removing a schedule deletes its CronJob".
RemovalStopsRuns == \A s \in Schedules :
    spec[s] = "removed" ~> cron[s] = "none" \/ spec[s] # "removed"

Contract == INSTANCE BackupContract WITH Backups <- Runs, state <- backup

\* A mirrored run promises what an on-demand Backup does, whenever its Job goes
\* and however its status was found (SyncBackup, scheduledRunWithoutJob,
\* enforceRetention).
ImplementsContract == Contract!Spec
=============================================================================
