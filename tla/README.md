# Verification of provider-milvus

TLA+ models of the OpenEverest provider for Milvus, the TLC configurations that
check them on small instances, and TLAPS proofs. Paths below are relative to
the repository; files without a directory are in `internal/provider/`.

## The system

The provider is a plugin of the OpenEverest runtime, which calls it whenever an
Instance, Backup or Restore, or an object it watches, changes. It keeps
everything in Kubernetes objects. An *Instance pass* is `Validate`, `Sync`,
`Status`, run by one worker at a time for one instance; the Backup and the
Restore controller have a worker each. All of them read through informer caches
that lag behind the API server, and every pass may be cut off between any two
calls and run again from the start. The runtime, Kubernetes, the Milvus operator,
Milvus and milvus-backup are external: they appear as environment actions and as
fairness.

| Component | State it keeps | Operations | Interacts through |
|---|---|---|---|
| root password (`rootpassword.go`, `credentials.go`, `Sync`/`Status` of `provider.go`) | the `<instance>-credentials` Secret: `password`, `appliedPassword` | seed, rotate, record, publish | Secret edits and their watch, Milvus REST API, `MILVUSROOTPASSWORD` of the pods, connection Secret |
| on-demand backups (`backup.go`, `backup_job.go`) | Backup and Restore status, Jobs, data in the bucket | `SyncBackup`, `CleanupBackup`, `SyncRestore`, `CleanupRestore` | Jobs (created once, watched), garbage collection |
| scheduled backups (`backup_schedule.go`) | CronJobs, mirrored Backups | apply, prune, retain, mirror, outcome without a Job | CronJob controller, Restore and Backup watches that queue the Instance |
| instance spec (`validate.go`, `version.go`, `dependencies.go`, `storage_location.go`, `BuildMilvusSpec`) | the Milvus CR | validate an edit against the CR, build and apply the next one | the CR's cache, BackupStorages |
| scale-in and autoscaling (`scaling.go`) | replicas and HPA in the CR | refuse floors below loaded replicas, clear dropped autoscalers | Milvus REST API |
| status and health (`provider.go`, `health.go`, `exposure.go`) | Instance status, connection details | phases, endpoints, dependency failures | the CR's status, Services, StatefulSets |
| storage secrets (`credentials.go`, `storage_location.go`) | two Secrets | generate once; copy a location's keys | BackupStorages |
| monitoring (`monitoring.go`) | PodMonitor | apply, delete, replace the operator's | Prometheus operator |
| rendering (`pod.go`, `probes.go`, `groups.go`, `scheduling.go`, `exposure.go`, `backup_config.go`) | none | pure functions | the CR, ConfigMaps |

What is hard here is never one function but order: an edit that falls between
the read of the Secret and its write; a rotation whose reply is lost; Jobs that
end, are pruned and collected independently of the Backups that mirror them;
controllers that check and create in two steps; a spec edited in several steps,
each acceptable, against a CR that the cache does not show yet. The list, each
at its line, is `hazards` in `PROJECT.json`, with the properties that speak of it
or the reason why none does.

Correctness, by component:

- *root password*: Milvus never ends up with a password that nobody holds;
  clients always have one that works; every rotation lands; a password is only
  recorded as applied once Milvus accepts it.
- *backups*: what is reported Succeeded is in the bucket, and stays so until it is
  deleted; a deletion takes the data with it; an instance under a Restore stays
  Restoring; nothing waits for ever.
- *schedules*: retention never takes a run it has to keep; CronJobs end up as the
  spec and the restores want them; retention is applied in the end, of every kind.
- *instance spec*: what an edit is compared with decides what of objects, metadata,
  volumes and message stream stays, also when it is an old copy; sizes and versions only
  grow where it is the current one; no applied spec is rejected later; an acceptable
  spec is what runs in the end.
- *scale-in*: no pass leaves a loaded collection with fewer nodes than replicas, none
  is turned back without need, and a spec that fits lands with its autoscalers.
- *status*: nobody gets an address before the data is in or while a restore replaces
  it, and a report that is out of date is put right without polling.
- *secrets and monitoring*: the keys MinIO runs with stay once they are known; Milvus is never pointed at a
  Secret without keys; one PodMonitor in the end, and never a user's deleted.

## Modules

| Module | Models |
|---|---|
| `RootPasswordContract` | what rotation promises: wanted, accepted and published password follow each other, one rotation at a time |
| `RootPassword` | the code: a pass that reads the Secret once (`creds`) and then makes one API call per step, the Secret, its cache, Milvus' root user, the captured seed; refines the contract |
| `RootPasswordRaces` | the same provider with a user who does not wait: edits of a running instance at any moment |
| `RootPasswordProofs` | the proofs about `RootPassword` and `RootPasswordRaces` |
| `BackupContract` | what a Backup promises its user: Succeeded only with its data, for good until it is deleted |
| `BackupJobs`, `MCBackupJobs` | on-demand Backups, deletions and Restores, their Jobs, caches, owners and garbage collection; refines `BackupContract` |
| `BackupSchedules`, `MCBackupSchedules` | the schedule part of an Instance pass step by step, CronJobs, runs, history limits, mirroring, outcomes, retention by count and by time; refines `BackupContract` |
| `InstanceSpec`, `MCInstanceSpec` | `Validate` and `Sync` of the fields that decide where data lives and which Milvus reads it |
| `Scaling` | the scale-in check call by call, the removal of dropped autoscalers and the apply, beside users who load and move replicas and the operator that co-owns autoscalers |
| `InstanceStatus`, `MCInstanceStatus` | a pass from the apply of the CR to the reported status, the seeding from a backup, endpoints, rollouts and pods, and the watches |
| `InstanceObjects` | the Secrets of bundled storage and of a location around the CR, the two PodMonitors, and the charts and the operator that use them |
| `BackupJobsProofs`, `BackupSchedulesProofs`, `InstanceSpecProofs`, `ScalingProofs`, `InstanceStatusProofs`, `InstanceObjectsProofs` | the proofs about the module each is named after; `BackupJobsProofs` also has those about `BackupContract` |
| `Totals` | lemmas about totals over finite sets, for `ScalingProofs` and `InstanceStatusProofs` |

`RootPassword`, `BackupSchedules`, `InstanceSpec`, `Scaling`, `InstanceStatus` and
`InstanceObjects` are six views of one pass: each details the calls of `Validate`,
`Sync` and `Status` that concern its component and leaves out the others, which only
read what it writes. What one takes from another is an environment action: health and
unfinished Restores in `BackupSchedules` and `InstanceStatus`, for example, change at
any moment, which includes whatever `BackupJobs` does with them.

State and actions follow the code: an action is a call that changes state
outside the process, or the stretch of a handler up to the next such call; a
handler whose answer depends on one read is one action with a disjunct per
outcome (`ReportBackup`, `RejectBackup`, `HoldBackup`, `AdmitBackup` are the
returns of `SyncBackup`). Passwords, names, buckets and versions are model
values or small numbers. Operators with a suffix (`Seeds_Anew`) are variants with
a bug, each used to show that a property notices it; no specification uses them.
`PROJECT.json` maps every definition to its lines.

Some points where the correspondence needs a word:

- `RootPassword`: an absent Secret reads like one without keys, as in
  `ensureCredentials`. `UpdatePassword` may be refused, fail before Milvus acts, or
  act and lose its reply. `Abort` is an error, a crash or a `Status` that finds the
  instance not ready. `PodStarts` assumes that a pod takes longer to start than the
  seeding write and its watch event; `UserRotates` assumes a user who waits for the
  connection Secret to show the previous password. Without the second,
  `RootPasswordRaces` shows what still holds and what does not. There `asked` is the
  last edit and `risky` that it fell into a rotation the provider knew of.
- `BackupJobs`: a Job is created by a step of its own (`CreateBackupJob`) after the
  pass that found the way free (`AdmitBackup`), so that the check and the creation
  can be separated by steps of the other controller. `Lag` switches the Job cache
  on; `malformed` are the objects whose parameters do not parse, which never changes. The
  minimum version check of `SyncRestore` is one of the reasons of
  `RejectRestore`. The mirroring of scheduled runs is in `BackupSchedules` only.
- `BackupSchedules`: health, restores and the spec are read once, in `BeginPass`.
  CronJobs are applied to the API server but listed from a cache that nothing watches:
  `unseen` are those it does not show yet, `CacheCronJob` shows one, and `overlooked`
  is history, the CronJobs that the last pruning should have deleted and did not see.
  Pruning may fail after some of its deletes. Runs are numbered as they start; `ended`
  orders them by completion, and `aged` counts those that were out of the retention
  window when retention last read the clock, any number of those that have ended.
  `Mirror` happens once per Job, as the runtime does it. `CleanupBackup` takes one step
  here, since `BackupJobs` has its details.
- `InstanceSpec`: `store` is the bundled MinIO or a BackupStorage, and moving or
  deleting a BackupStorage (`MoveLocation`) stands for whatever changes the endpoint
  and bucket it resolves to. A plain external store behaves like a location whose
  address is in the spec. `root` is `minio.rootPath`, wherever it was set. `class`
  is the storage class that `dependencyStorageClass` compares, that of etcd and MinIO, and
  `log` the one that `buildPulsar` gives the volumes of a bundled Pulsar; an external
  Pulsar has none and is left out. `knows` and `moved` are history: what the pass under
  way was compared with (the CR as it is, an older one, or nothing that `Sync` builds on),
  and that one that was compared with nothing has put the data elsewhere.
- `Scaling`: there is at least one component that can host replicas, as every topology
  has; the floor of a component is its replicas, the minimum of its autoscaler
  or the total of its groups. Milvus is taken to accept as many replicas as nodes can
  run (`Capacity`). `informed` and `moved` are history: the pass read an up-to-date,
  healthy CR, and replicas have changed since. An `hpa` that is `coowned` has a field
  of the operator in it, which server-side apply leaves behind; the CRD then rejects
  the rest, the reason for `clearDroppedAutoscaling`.
- `InstanceStatus`: every change of the CR makes a watch event (`unseen`), also one that
  takes back what the cache has not shown yet: comparing cache and CR would lose the
  wake-up. A component that rolls blue/green has one idle Deployment and one that serves
  (`GreenAssumption`). `Status` is one step, of the CR in the cache (one object, read
  again between the steps of a pass) and of pods as they are. The first start of the
  pods shows only as a CR that is not Healthy yet. A change of Milvus' own pods is
  assumed to reach the CR's watch, as the operator counts them there; the dependencies'
  StatefulSets have the watch the code registers. A NodePort service has an address as
  soon as the operator has switched it: node addresses are not modelled. A CR with the
  status `Deleting` reports like `Pending`. `syncDataSource` waits for a healthy Milvus
  also when the data is in, so that a seeded instance that becomes unhealthy reports
  Restoring. `known` is history, the unfinished Restores in the cache as the pass began.
  A Restore that is over stays over here; `BackupJobs` also lets the runtime ask again
  for one that failed.
- `InstanceObjects`: the CR is applied without comparing, since nothing else in it
  matters here. A pass reads the Secret from the cache (`ApplyStorageCredentials`) and
  applies what it read, or made, in a later step (`EnsureStorageSecret`); MinIO may start
  in between, or before the cache shows the Secret at all. No user deletes the Secrets.
  `FreshKey` is a generated key, unlike any other. Nothing watches BackupStorages or PodMonitors: passes come from the resync of
  the caches.
- `BackupContract` is stated for all Backups at once because one retention pass deletes
  several. Pods may still write for a Backup that is gone.

## Runs

| Run | Question | Bounds |
|---|---|---|
| `root_password` | Is rotation safe, live and an implementation of its contract, and is the invariant of the proofs one? | 3 passwords, 3 faults |
| `root_password_edits` | What survives a burst of edits if no call fails, and which edits are kept? | 3 passwords, 4 edits |
| `root_password_stuck` (violation) | Is every edit applied when a pass is cut off? | 3 passwords, 2 edits, 1 fault |
| `backup_safety` | Do Backups keep their data and their contract, do deletions remove the data, and does a Restore under way stay so, behind a lagging cache? | 2 Backups (one retained) and a Restore, of which the retained one and the Restore may be malformed, 1 fault |
| `backup_liveness` | Does everything end, although operations wait for each other? | 2 Backups, 1 Restore, 1 fault |
| `schedules` | Does retention keep what it has to and is it applied, is what is reported there, do CronJobs follow, is the contract of a Backup kept? | a schedule by count whose CronJob the cache may be late to show, and one by time that is broken until repaired, 2 runs, 2 edits, 1 fault |
| `schedule_removal_blocked` (violation) | Does removing a schedule delete its CronJob? | a good and a broken schedule, 1 edit |
| `spec` | What can move by a sequence of edits, compared with copies of any age, and is an acceptable spec what runs in the end, behind a lagging cache? | 3 starting specs, 3 edits of any field, 1 moved location |
| `scaling` | Is scale-in refused when it has to be and only then, and does a spec that fits land? | query and streaming nodes, 2 nodes, 1 collection in 2 resource groups, 2 edits, 2 loads, 1 fault |
| `scaling_unlisted` (violation) | Is every scale-in below the loaded replicas refused? | the same |
| `status` | Does the report settle, and does it never give an address too early? | query nodes blue/green and etcd, every service type, with and without a data source, 1 edit or Restore, 1 fault |
| `objects` | Do known keys stay, do Secrets come first, is there one PodMonitor in the end and a user's kept? | a new and an old instance, both kinds of storage, 3 edits, 2 faults |

Why these bounds: three passwords make an accepted, a recorded and a wanted one
different at the same time, and three faults allow a lost reply, a crash before the
record and one more in the retry. Two Backups and a Restore are enough for each to
wait for another and for both controllers to be between check and creation; a
second fault adds a repetition, not a new order; a second Restore multiplies the states
of `backup_liveness` beyond the time of a run without adding a kind of wait; which objects
are malformed is chosen at first in `backup_safety`, so that the same Restore is refused
in some behaviours and runs in others. Two runs let a newer one supersede
an older one while its Job is still there, pruned or collected; history limits and
`keptFailedRuns` are 1 instead of 3 for the same reason. Three edits set a field,
change another and clear the first, which a starting spec may also have set already. Sizes are 1 to 3 around a default of 2, so
that a cleared size falls back below or above what runs. Two
nodes, two resource groups and two load changes are a replica too many, placed or
moved across groups of which one has been read; two edits lower a floor and raise it
again, or drop an autoscaler and want it back, while a pass is cut off. In `status` one
edit or Restore and one fault meet every service type and a data source that is
followed or not. In `objects` three edits and two faults let a user replace a PodMonitor
while keys rotate and a pass stops twice; four keys and three UIDs are one more than
can be remembered at a time. All bounds are constants
that end in the guard of the action they limit. `CHECK_DEADLOCK FALSE` is set where
bounded users leave the system at rest, as an idle cluster is.

### What the runs show

The passing runs hold as the table says. In particular: retrying a rotation from
the start, with the whole Secret written back, is safe for a patient user even with
lost replies, and a burst of edits without faults loses no access either. `EditsKept`
says which edits it does lose: the Secret holds the last edit unless that one fell into
a rotation that the provider knew of, whose pass writes back the Secret it had read
(`rootpassword.go:79`).
`RestoringWhileRunning` says
that a Restore under way stays so. That a Restore with an unfinished Job is always Pending
or Running is not true: one that failed because its storage could not be read, and is
tried again, stays Failed for a pass if that pass dies between creating the Job and
reporting it (`backup.go:343`). That one operation runs at a time is no property: Jobs are
listed from a cache (`backup_job.go:258`), the two controllers check and create in steps of
their own, and deletions do not check.
Both kinds of Backup implement the one contract, also behind a lagging cache; that
`SucceededHasData` and `SuccessIsFinal` of `BackupContract` come with it is proved.
`CronJobsFollow` and `RetentionSettles` hold once no broken schedule is enabled. A CronJob
that its pruning did not see, since the cache did not show it yet, is excepted from the
first: nothing watches CronJobs, so it stays, and goes on starting runs, until something
else queues the instance. The second covers retention by count and of failed runs, and
by time as of the last pass: the passage of time queues nothing.
`DataStays` says what stays when a pass was compared with a CR, however old, and
what else stays when that was the CR as it is. Outside of that, data does move, and each of
these ways has a behaviour in the model: a read that finds no CR makes `validateInstance`
treat the instance as new (`dependencies.go:117`); a BackupStorage may move between
`Validate` and `Sync` (`storage_location.go:35`); after either, an older copy is compared
with what is no longer so; and some fields are not compared at all (below). What settles
does so in any case (`SpecSettles`).
`ScaleInExact` is about passes that Milvus answered and that no load change disturbed: an
unhealthy or silent Milvus lets a change through on purpose (`scaling.go:269`), and replicas
that are moved between groups may be counted once, twice or not at all. Whatever a pass
did half, `SpecLands` says that the floors and the autoscalers follow.
`StatusSettles` compares the report with an availability computed from the real objects,
not from what passes read; it holds without polling. In between a report may be out of
date: right after `Sync` changes the CR, the cached one still says Healthy of its
predecessor, and `Ready` stands until the watch delivers. `SeededFirst` and
`RestoreHidesInstance` hold in every step.
`StorageKeysStay` holds from the moment that the cache shows the keys and no pass has
others in hand, and for MinIO of an earlier release, which keeps the chart's Secret, from
the start. Until then a pass that reads no Secret makes new keys and writes them over those
that MinIO may have been started with: nothing waits for the cache (`credentials.go:150`).
`ObjectsSettle` holds against an operator that makes its PodMonitor anew from an old CR.

The violations are disagreements between the code and what the repository says of it:

- `root_password_stuck`: `UpdatePassword` succeeds, the pass is cut off before the
  record, and the user edits the key again. From then on neither the Secret nor any
  pass knows the password Milvus accepts, and every pass fails.
- `schedule_removal_blocked`: `syncBackupSchedules` returns at the first schedule it
  cannot apply, before pruning; the CronJob of a removed schedule goes on running,
  contrary to README.md:487.
- `scaling_unlisted`: a query or streaming node component that is taken out of the spec
  has no requested nodes for the check (`scaling.go:293`), and is rendered with one:
  Milvus is scaled in below its loaded replicas, contrary to README.md:293.

Other places where code and text part, met while modelling and not kept as runs:

- README.md:452 promises one operation at a time. `CleanupBackup` starts its Job without
  `activeBackupJob`, so a deletion runs beside a backup (`backup.go:225`); the Backup and the
  Restore controller can both pass `activeBackupJob` before either creates its Job
  (`backup.go:98`, `backup.go:313`), and each may miss a Job that the cache does not show.
- README.md:487 promises that disabling or removing a schedule deletes its CronJob. One that
  the cached list does not show is left over (`backup_schedule.go:238`).
- README.md:483 promises that retention deletes runs. One that leaves the time window stays
  until something queues the instance (`backup_schedule.go:405`).
- `validate.go:346` says that an instance's metadata or objects, prefix, store or bucket,
  cannot be moved. An instance moves from the bundled to an external etcd with the same
  prefix, and `minio.bucketName` of a bundled store can be changed (`validate.go:415`).
- README.md:551-553 says that the storage class of every bundled volume is fixed. That of
  Pulsar's volumes changes while neither etcd nor the object storage is bundled
  (`validate.go:390`).
- `credentials.go:145` says that the generated keys are stable across reconciles. A pass that
  reads an old cache replaces them.

Further behaviours of the models that no text speaks of: an edit made during a known rotation
is written over (`rootpassword.go:79`); a Backup deleted while its create Job
runs can leave a complete backup (`backup.go:260`); a Restore created again under its
name reports its predecessor's Job (`backup.go:274`); a scheduled run may start after a
Restore was created and before the CronJob is suspended (`backup_schedule.go:111`), and a
run whose Job is pruned before it is mirrored has no Backup; `Sync` resolves a BackupStorage
again after `Validate` compared it (`storage_location.go:35`).

## Fairness

- `RootPassword`: the work queue runs a queued pass to its end, the watch delivers,
  Milvus starts and becomes healthy (`WF` of each). Faults are bounded, not fair.
- `BackupJobs`: the runtime requeues every unfinished Backup and Restore (`SyncBackup`
  returns a non-final status), so passes are weakly fair; the garbage collector and the
  watch make progress; Milvus recovers. Jobs have `backoffLimit: 0` but no deadline: that
  a started pod ends, one way or the other, is an assumption about the cluster.
- `BackupSchedules`: queued passes run; Backups are reconciled; Jobs end; Milvus
  recovers. Nothing queues the Instance but the watches the code registers: time
  passing and CronJobs that the cache comes to show do not. Runs, edits and the cache of
  CronJobs are not fair.
- `InstanceSpec`: watches of the Instance and of the CR start passes and errors retry
  them (`WF` of `Validate`); passes may be aborted again and again, but not all of them
  (`SF` of `Sync`).
- `Scaling`: passes are started and proceed (`WF` of `Validate`, `PassSteps`), the watch
  delivers, Milvus becomes healthy again. That Milvus does not answer is a bounded fault;
  load changes and the operator's update are not fair.
- `InstanceStatus`: only queued passes and the two watches are fair. The operator, pods,
  load balancer and Restores may stop anywhere: whatever they stop at is what the report
  has to settle on.
- `InstanceObjects`: passes are started again without a cause, as the runtime's resync
  does; caches, the charts and the operator's move to a new CR make progress; that the
  operator makes a PodMonitor is not fair, and users are not. Deadlock is checked there
  and in `scaling`, where passes never end.

## Proofs

Each proof is for every value of the constants: any passwords, Backups, Restores,
schedules, runs, specs, components, workloads, and any bound on edits and faults. It uses the named
assumptions of its module only, which TLC evaluates on the run's values. In every module
`TypeCorrect` states `[]TypeOK`, and `InvariantHolds` an inductive invariant `IInv`. It, and
the further invariants below, were checked by TLC on the constants of the module's run
before they were proved.

| Module | Theorem | States |
|---|---|---|
| `RootPasswordProofs` | `NoLockOut` | `[]NeverLockedOut`: the accepted password is in the Secret |
| | `PublishedPasswordWorks` | `[]PublishedWorks` |
| | `OnlyAcceptedRecorded` | `RecordsOnlyAccepted` |
| | `RefinesContract` | every behaviour is one of `RootPasswordContract` |
| | `QuietMeansLanded` | `[]NothingLeftUndone`: at rest, the password asked for is recorded, accepted and published |
| | `EditsAloneAreSafe` | `[]AppliedWorks` of `RootPasswordRaces`, if no call fails |
| | `EditsStay` | `[]EditsKept` of `RootPasswordRaces`, with any number of faults |
| `BackupJobsProofs` | `ContractHasData`, `ContractIsFinal` | `SucceededHasData` and `SuccessIsFinal`, of whatever implements the contract of a Backup |
| | `SuccessMeansData` | both, of on-demand Backups |
| | `JobsKeepTheContract` | `ImplementsContract`: on-demand Backups implement it |
| | `NoDataLeftBehind` | `DeletedWithItsData` |
| | `RestoringIsKept` | `RestoringWhileRunning` |
| `BackupSchedulesProofs` | `RunsKeepTheContract` | `ImplementsContract`: mirrored runs implement it |
| | `NoDataLeftBehind` | `DeletedWithItsData` |
| | `SuccessMeansData` | `SucceededHasData` and `SuccessIsFinal`, of mirrored runs |
| | `NewestAreKept` | `RetentionLeavesNewest` |
| | `QuietMeansRight` | `[]RestingIsRight`: at rest, CronJobs are what is asked for, but for those overlooked, and retention is met |
| `InstanceSpecProofs` | `AppliedIsAccepted` | `[]AppliedStaysValid` |
| | `DataNeverMoves` | `DataStays` |
| | `SyncIsIdempotent` | `WrittenIsFixed`: a spec builds upon its own result that result |
| `ScalingProofs` | `ScaleInIsExact` | `ScaleInExact` |
| | `InformedPassesLand` | `InformedPassLands`: a pass that knew the CR ends early by a failed call only, and leaves what the spec said |
| `InstanceStatusProofs` | `AddressAfterData` | `SeededFirst` |
| | `RestoreHides` | `RestoreHidesInstance` |
| | `QuietMeansRight` | `[]RestingIsRight`: at rest, `StatusIsRight` and the spec is applied |
| `InstanceObjectsProofs` | `KeysNeverChange`, `SecretsBeforeMilvus` | `[]StorageKeysStay`, `[]SecretsComeFirst` |
| | `NoUserMonitorDeleted` | `UserMonitorStays` |

Hardly any of these properties is inductive. What each `IInv` adds, and why:

- `RootPassword`: that the Secret always holds the accepted password depends on what a
  pass still has in hand. Before root exists nothing is being rotated and a captured
  seed is final (`BeforeRoot`); afterwards cache and Secret differ by at most one write,
  one edit or one record (`CacheLag`); while a rotation is pending clients have the
  password it replaces (`ClientsWait`); a pass that seeds only adds a missing key
  (`SeedingInv`); a pass that rotates works on the current edit or repeats one that has
  landed (`RotatingInv`). The run `root_password` checks `IInv` as well. For
  `RootPasswordRaces` no pass of an instance with both keys seeds (`KeysInv`), and a pass
  that is going to write holds the last edit, unless that one was made in a rotation the
  provider knew of (`EditInv`): this needs no bound on faults. `RunningInv` adds that
  `appliedPassword` is written after Milvus took the password and never else, which
  needs `MaxFaults = 0`, as the run does: `root_password_stuck` shows what a fault does.
- `Scaling`: what a pass has added up so far is what the groups it has asked hold, as long
  as nobody moves replicas (`SumInv`, by the lemma that a total over a set is the value of
  one element and the total over the rest); what a pass that knew the CR lowers it has
  asked about (`FloorInv`); an autoscaler it saw is there until it drops it (`HPAInv`);
  replicas never exceed the nodes, which bounds the sums (`Fitting`).
- `BackupContract`: a success is reported over complete data only, and a Backup that has
  succeeded takes no step but a deletion. What implements the contract inherits both.
- `BackupJobs`: the cache may be behind by any number of steps, but a Job that it shows as
  ended has ended so, as long as its owner is there (`SyncInv`, `RestoreInv`); a worker that
  is about to create a Job still has its reason (`WorkerInv`, `AdmittedInv`), since only the
  worker itself changes the state of its object; data is complete exactly when the
  create Job has succeeded and no delete Job has come after it (`DataInv`); names that were
  never taken have no trace. `SetAssumption` keeps names of Backups and Restores apart,
  which their Jobs' suffixes do in the code.
- `BackupSchedules`: a run's data outlives its Job, so `RunInv` ties it to what the mirrored
  Backup says as well; `EndedInv` and `HasEnded` give each success exactly one place in
  the order of completion, without which "the newest" means nothing. `NewestAreKept` then
  takes the last of the runs that expire: it has `Keep` successes after it, and none of
  those expires (`OnlyExpired`, `OneIsLast`, `NewestStay`; counting is by the library's facts
  about cardinality, the choice of the last by well-foundedness of strict inclusion).
- `InstanceSpec`: a CR has the shape that `BuildMilvusSpec` gives it (`Shaped`), so that the
  class of Pulsar's volumes follows from what is compared; a pass in `Sync` works on a spec that
  `Validate` accepted against the CR as it still is (`FreshPass`), or that fits the older copy
  it builds on (`OlderPass`); and until a pass that was compared with nothing has moved the data, any
  copy that is seen shows the place where it is (`SeenInv`). Old and new CR are then both in
  the place of the copy (`PlacesMeet`).
  `AppliedStaysValid` is about every spec at once and needs no invariant but the types:
  whatever `BuildMilvusSpec` makes of a spec accepts that spec again.
- `InstanceStatus`: without its data a pass reports as waiting, and what was reported before
  had no address either (`SeedInv`); the cache of Restores is behind them, never ahead, and
  what a pass knew of it has seen (`KnownInv`).
- `InstanceObjects`: an instance of an earlier release is one in every copy of the CR that
  anybody holds (`HelmInv`), so that nobody has the chart's Secret deleted; what a pass is about
  to write into the CR is in its Secret (`SecretsInv`); the
  cached PodMonitor of a UID that is there is the one that is there (`MonitorInv`), so that a
  delete with that UID as its precondition hits what was looked at. `StorageKeysStay` is
  about steps: known keys (`KeysKnown`) are what a pass reads and writes back.
  `SupplyAssumption` gives the generator a key that is unlike those in use.

**What liveness rests on.** The properties `<>[]P` of the runs have two halves: that the
provider comes to rest, which needs fairness and is left to TLC, and that it cannot rest
anywhere else, which is a safety property: *whenever nothing is queued and no watch event
is under way, P holds*. That half is where a lost wake-up would show, and is proved for
three modules:

- `RootPassword` (`QuietMeansLanded`): a pass that nobody will repeat works on the Secret as
  it is, and either writes, which wakes its successor, or is the last (`WakeUpInv`).
- `BackupSchedules` (`QuietMeansRight`): as long as nothing has queued the instance, what a
  pass has read is still so (`Snapshot`); the schedules it is done with have the CronJobs
  that are asked for, those it prunes are gone or were not seen (`PruneEffect`), a broken one
  can only end it while one is enabled (`FollowInv`). The runs that retention leaves number at
  most `Keep`, since the first of them to complete has all the others behind it (`WithinCount`);
  of the others it leaves those in the window it has just looked up, and as many
  failed ones as are to be kept.
- `InstanceStatus` (`QuietMeansRight`): what was reported is the status of what is there
  (`WakeUpInv`). `QuietSteps` has the reason: a step of the operator changes the CR and so
  makes an event, a step of a Restore takes it to a state it was never in, so that the
  cache cannot show it by chance (`BehindInv`, by the rank of a state), pods queue the
  instance, and the start of a rollout, which does not, is hidden by what the CR says
  of it. That this status is the right one needs that an observed spec has the endpoint
  of its Service (`ObservedInv`), and that each workload has a Deployment that counts
  during a rollout and after it (`CountedInv`).

**Totals.** Replicas and ready pods are totals over finite sets, by a function of the
community modules that is recursive over subsets. Facts about it are inductions over
data, which no prover here can instantiate. `Totals` gets around this by counting: the
number of units, a cardinality, satisfies the same recursive equation
(`TotallingExists`), and by well-foundedness of strict inclusion two functions that do
cannot first differ anywhere (`TotallingIsCount`). The laws of totals are then those of
cardinality in the library.

The proof of a step is split by action, and under it by what the action disturbs; frames
that only leave variables alone are one leaf. Attempts that failed changed the models:
`TypeOK` of `InstanceStatus` and `InstanceObjects` was not inductive, `InstanceStatus` woke the
provider by comparing cache and CR and so missed a change that was undone, `BackupJobs` did
not say that Backups and Restores have different names, and the failed step about
restores led to the history told above under `RestoringWhileRunning`.

Only model-checked:

- all liveness, since fairness and `ENABLED` are out of the prover's reach:
  `RotationLands`, `EditIsApplied`, `PublishedSettles`, `OperationsEnd`, `DeletionEnds`,
  `CronJobsFollow`, `RetentionSettles`, `SpecSettles`, `SpecLands`, `StatusSettles`,
  `ObjectsSettle`, and the fairness half of `RootPasswordContract`. Of `RotationLands`,
  `CronJobsFollow`, `RetentionSettles` and `StatusSettles` only the coming to rest is left to
  TLC, of `SpecLands` and `SpecSettles` that an undisturbed pass comes about.

Every other property of a passing run is stated by a theorem.

## Not modelled

Pod rendering, probes, scheduling constraints, the ports of services and
`backup_config.go` are pure functions of the spec, without state: what they print is not
what the properties tell apart. `internal/milvusapi` and `definition/` are types; the
modules take the fields they need. `cmd/` and `rbac.go` register the provider. Charts,
examples and tests are not code of the provider. Validations of one spec on its own
(component names, parameter ranges, service types, monitoring types) keep no state; the
shapes of specs in `Scaling` and `InstanceSpec` are what passes them.

Hazards without a property, with the reason at each in `PROJECT.json`: a blank password
key, two controllers between check and creation, a deletion beside other operations, names that are used again or collide in storage,
a rotation while a backup pod starts, a Restore that failed and is tried again by a pass
that dies, and a cache of Deployments behind the CR's event.

## Plan

1. `RootPassword` and its contract, with proofs: done.
2. `BackupJobs`, `BackupSchedules`, and the contract both implement; `InstanceSpec`: done.
3. `Scaling`, `InstanceStatus`, `InstanceObjects`: done.
4. Proofs about every module, and what liveness rests on where passes are queued: done.
5. Names: `backupJobName` and `milvusBackupName` as operators, checked for collisions;
   `deepMergeValues` against a reference definition.
6. `BackupJobs` beside `RootPassword`: the password a Job's pod takes while a rotation lands.
