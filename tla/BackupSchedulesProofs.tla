------------------------ MODULE BackupSchedulesProofs ------------------------
(***************************************************************************)
(* Proofs about BackupSchedules, for any schedules, retention and number   *)
(* of runs: a mirrored run implements BackupContract, its data goes with   *)
(* it, retention leaves the newest successful runs, and when the provider  *)
(* rests, CronJobs and retained runs are what they have to be.             *)
(***************************************************************************)
EXTENDS BackupSchedules, FiniteSetTheorems, WellFoundedInduction, TLAPS

\* Retention deletes only what is over (enforceRetention).
LEMMA RetentionEffect ==
    ASSUME TypeOK, EnforceRetention
    PROVE  /\ expired' \subseteq Runs
           /\ \A i \in Runs : \/ backup'[i] = backup[i] /\ (i \in expired' <=> i \in expired)
                              \/ /\ backup[i] \in {"Succeeded", "Failed"}
                                 /\ backup'[i] = "Deleting" /\ i \in expired'
           /\ DOMAIN backup' = Runs
           /\ UNCHANGED <<crons, jobs, finished, world, edits>>
           /\ aged' \in 0..Len(ended)
           /\ pass' = Idle /\ {queued'} \subseteq BOOLEAN /\ faults' \in 0..MaxFaults
  <1>1. PICK failures \in [pass.listed -> SUBSET Runs] :
          /\ \A s \in pass.listed : failures[s] \in ExcessFailures(s)
          /\ LET all == UNION {ExpiredRuns(s, aged') \cup failures[s] : s \in pass.listed}
             IN  \E some \in SUBSET all :
                    /\ \/ (some = all /\ UNCHANGED <<queued, faults>>)
                       \/ (some # all /\ Fault /\ queued' = TRUE)
                    /\ backup' = [i \in Runs |-> IF i \in some THEN "Deleting" ELSE backup[i]]
                    /\ expired' = expired \cup some
    BY DEF EnforceRetention
  <1> DEFINE all == UNION {ExpiredRuns(s, aged') \cup failures[s] : s \in pass.listed}
  <1>2. PICK some \in SUBSET all :
          /\ \/ (some = all /\ UNCHANGED <<queued, faults>>)
             \/ (some # all /\ Fault /\ queued' = TRUE)
          /\ backup' = [i \in Runs |-> IF i \in some THEN "Deleting" ELSE backup[i]]
          /\ expired' = expired \cup some
    BY <1>1
  <1>3. \A i \in all : i \in Runs /\ backup[i] \in {"Succeeded", "Failed"}
    <2> TAKE i \in all
    <2>1. PICK s \in pass.listed : i \in ExpiredRuns(s, aged') \/ i \in failures[s]
      OBVIOUS
    <2>2. i \in InState(s, "Succeeded") \/ i \in InState(s, "Failed")
      BY <1>1, <2>1 DEF ExpiredRuns, ExcessFailures
    <2>3. i \in 1..Len(runs) /\ backup[i] \in {"Succeeded", "Failed"}
      BY <2>2 DEF InState, RunsOf
    <2>4. QED
      BY <2>3, BoundAssumption DEF TypeOK, Runs
  <1>4. faults' \in 0..MaxFaults /\ queued' \in BOOLEAN
    <2>1. CASE UNCHANGED <<queued, faults>>
      BY <2>1 DEF TypeOK
    <2>2. CASE Fault /\ queued' = TRUE
      BY <2>2, BoundAssumption DEF TypeOK, Fault
    <2>3. QED
      BY <1>2, <2>1, <2>2
  <1>5. expired' \subseteq Runs
    BY <1>2, <1>3 DEF TypeOK
  <1>6. \A i \in Runs : \/ backup'[i] = backup[i] /\ (i \in expired' <=> i \in expired)
                        \/ /\ backup[i] \in {"Succeeded", "Failed"}
                           /\ backup'[i] = "Deleting" /\ i \in expired'
    BY <1>2, <1>3
  <1>7. DOMAIN backup' = Runs
    BY <1>2
  <1>8. UNCHANGED <<crons, jobs, finished, world, edits>> /\ pass' = Idle
    BY DEF EnforceRetention
  <1>9. aged' \in 0..Len(ended)
    BY DEF EnforceRetention, TypeOK
  <1>10. QED
    BY <1>4, <1>5, <1>6, <1>7, <1>8, <1>9

\* Of some numbers one is least.
LEMMA OneIsLeast ==
    ASSUME NEW S, S \subseteq Nat, S # {}
    PROVE  \E m \in S : \A k \in S : m <= k
  <1>1. PICK m \in S : \A k \in S : ~(<<k, m>> \in OpToRel(<, Nat))
    BY NatLessThanWellFounded, WFMin
  <1>2. \A k \in S : ~(k < m)
    BY <1>1 DEF OpToRel
  <1>3. QED
    BY <1>2

\* The next schedule is one of those left.
LEMMA NextIsLeft ==
    ASSUME TypeOK, pass.todo # {}
    PROVE  (CHOOSE t \in pass.todo : \A u \in pass.todo : t <= u) \in pass.todo
  <1>1. pass.todo \subseteq Nat
    BY ScheduleAssumption DEF TypeOK, Passes
  <1>2. QED
    BY <1>1, OneIsLeast

\* Between two passes there is nothing in hand.
LEMMA IdleIsAPass == Idle \in Passes
  BY DEF Idle, Passes

\* Pruning that fails is repeated; otherwise no CronJob of a schedule that is not
\* enabled is left, but for one that the cache does not show (pruneBackupSchedules).
LEMMA PruneEffect ==
    ASSUME TypeOK, PruneSchedules
    PROVE  /\ pass' \in Passes /\ pass.at = "apply" /\ pass.todo = {}
           /\ \/ /\ pass' = [Idle EXCEPT !.at = "retain", !.listed = pass.listed]
                 /\ UNCHANGED <<queued, faults>>
                 /\ \A s \in Schedules \ pass.desired : cron'[s] = "none" \/ s \in overlooked'
              \/ Fault /\ pass' = Idle /\ queued' = TRUE
           /\ cron' \in [Schedules -> {"none", "active", "suspended"}]
           /\ \A s \in pass.desired \cup unseen : cron'[s] = cron[s]
           /\ orphans' \subseteq {i \in Runs : job[i] # "none"}
           /\ overlooked' \subseteq Schedules
           /\ UNCHANGED <<unseen, runs, job, ended, data, mirrors, world, aged, expired, edits>>
  <1> DEFINE left == {s \in Schedules \ pass.desired : cron[s] # "none"}
  <1>1. PICK some \in SUBSET (left \ unseen) :
          /\ \/ /\ some = left \ unseen
                /\ pass' = [Idle EXCEPT !.at = "retain", !.listed = pass.listed]
                /\ UNCHANGED <<queued, faults>>
             \/ Fault /\ pass' = Idle /\ queued' = TRUE
          /\ cron' = [s \in Schedules |-> IF s \in some THEN "none" ELSE cron[s]]
          /\ orphans' = orphans \cup {i \in UNION {RunsOf(s) : s \in some} : job[i] # "none"}
          /\ overlooked' = left \cap unseen
    BY DEF PruneSchedules
  <1>2. pass' \in Passes
    <2>1. [Idle EXCEPT !.at = "retain", !.listed = pass.listed] \in Passes
      BY DEF Idle, Passes, TypeOK
    <2>2. QED
      BY <1>1, <2>1, IdleIsAPass
  <1>3. /\ cron' \in [Schedules -> {"none", "active", "suspended"}]
        /\ \A s \in pass.desired \cup unseen : cron'[s] = cron[s]
    BY <1>1 DEF TypeOK, Passes
  <1>4. orphans' \subseteq {i \in Runs : job[i] # "none"}
    BY <1>1, BoundAssumption DEF TypeOK, RunsOf, Runs
  <1>5. ASSUME some = left \ unseen, NEW s \in Schedules \ pass.desired
        PROVE  cron'[s] = "none" \/ s \in overlooked'
    BY <1>1, <1>5
  <1>6. overlooked' \subseteq Schedules
    BY <1>1
  <1>7. /\ pass.at = "apply" /\ pass.todo = {}
        /\ UNCHANGED <<unseen, runs, job, ended, data, mirrors, world, aged, expired, edits>>
    BY DEF PruneSchedules
  <1>8. QED
    BY <1>1, <1>2, <1>3, <1>4, <1>5, <1>6, <1>7

\* The initial states are typed.
LEMMA InitTypes == Init => TypeOK
  <1> SUFFICES ASSUME Init
               PROVE  TypeOK
    OBVIOUS
  <1>1. pass \in Passes
    BY DEF Init, Passes, Idle
  <1>2. 0 \in 0..MaxEdits /\ 0 \in 0..MaxFaults /\ MaxRuns >= 0
    BY BoundAssumption
  <1>3. runs \in Seq(Schedules) /\ Len(runs) = 0 /\ ended \in Seq(Runs) /\ Len(ended) = 0
    BY DEF Init
  <1>4. {restoring, healthy, queued} \subseteq BOOLEAN /\ expired = {} /\ orphans = {} /\ finished = {}
        /\ unseen = {} /\ overlooked = {}
    BY DEF Init
  <1>5. /\ spec \in [Schedules -> {"enabled", "disabled", "removed"}] /\ broken \subseteq Broken
        /\ cron \in [Schedules -> {"none", "active", "suspended"}]
        /\ job \in [Runs -> {"none", "running", "succeeded", "failed"}]
        /\ backup \in [Runs -> {"absent", "Running", "Succeeded", "Failed", "Deleting"}]
        /\ data \in [Runs -> {"none", "partial", "full"}]
    BY DEF Init
  <1>6. aged = 0 /\ edits = 0 /\ faults = 0
    BY DEF Init
  <1>7. QED
    BY <1>1, <1>2, <1>3, <1>4, <1>5, <1>6, BoundAssumption DEF TypeOK

\* Every step keeps the types.
LEMMA TypeStep == TypeOK /\ [Next]_vars => TypeOK'
  <1> SUFFICES ASSUME TypeOK, [Next]_vars
               PROVE  TypeOK'
    OBVIOUS
  <1> USE BoundAssumption DEF TypeOK, crons, mirrors, jobs, world, counters, Fault
  <1>1. CASE BeginPass
    <2>1. pass' \in Passes
      BY <1>1 DEF BeginPass, Passes
    <2>2. QED
      BY <1>1, <2>1 DEF BeginPass
  <1>2. CASE ApplySchedule
    <2>1. PICK s : \/ pass.wait /\ pass' = [pass EXCEPT !.todo = @ \ {s}] /\ UNCHANGED cron
                   \/ pass' = Idle /\ UNCHANGED cron
                   \/ /\ cron' = [cron EXCEPT ![s] = IF pass.suspend THEN "suspended" ELSE "active"]
                      /\ pass' = [pass EXCEPT !.todo = @ \ {s}]
      BY <1>2 DEF ApplySchedule
    <2>2. pass' \in Passes
      <3>1. CASE pass' = [pass EXCEPT !.todo = @ \ {s}]
        BY <3>1 DEF Passes
      <3>2. CASE pass' = Idle
        BY <3>2, IdleIsAPass
      <3>3. QED
        BY <2>1, <3>1, <3>2
    <2>3. cron' \in [Schedules -> {"none", "active", "suspended"}]
      BY <2>1
    <2>4. unseen' \subseteq {t \in Schedules : cron'[t] # "none"}
      <3>1. CASE UNCHANGED <<cron, unseen>>
        BY <3>1
      <3>2. ASSUME NEW t \in pass.todo, unseen' \subseteq unseen \cup {t},
                   cron' = [cron EXCEPT ![t] = IF pass.suspend THEN "suspended" ELSE "active"]
            PROVE  unseen' \subseteq {u \in Schedules : cron'[u] # "none"}
        <4>1. t \in Schedules
          BY DEF Passes
        <4>2. QED
          BY <3>2, <4>1
      <3>3. QED
        BY <1>2, <3>1, <3>2, NextIsLeft DEF ApplySchedule
    <2>5. QED
      BY <1>2, <2>2, <2>3, <2>4 DEF ApplySchedule
  <1>3. CASE PruneSchedules
    <2>1. unseen' \subseteq {s \in Schedules : cron'[s] # "none"}
      BY <1>3, PruneEffect
    <2>2. queued' \in BOOLEAN /\ faults' \in 0..MaxFaults
      <3>1. UNCHANGED <<queued, faults>> \/ (Fault /\ queued' = TRUE)
        BY <1>3, PruneEffect
      <3>2. CASE UNCHANGED <<queued, faults>>
        BY <3>2
      <3>3. CASE Fault /\ queued' = TRUE
        <4>1. faults \in 0..MaxFaults /\ faults < MaxFaults /\ faults' = faults + 1
          BY <3>3
        <4>2. faults' \in 0..MaxFaults
          BY <4>1
        <4>3. QED
          BY <3>3, <4>2
      <3>4. QED
        BY <3>1, <3>2, <3>3
    <2>3. QED
      BY <1>3, <2>1, <2>2, PruneEffect
  <1>4. CASE EnforceRetention
    <2>1. backup' \in [Runs -> {"absent", "Running", "Succeeded", "Failed", "Deleting"}]
      <3>1. backup' = [i \in Runs |-> backup'[i]]
        BY <1>4 DEF EnforceRetention
      <3>2. QED
        BY <1>4, <3>1, RetentionEffect
    <2>2. \A i \in Runs : backup[i] # "absent" => backup'[i] # "absent"
      BY <1>4, RetentionEffect
    <2>3. pass' \in Passes
      BY <1>4, RetentionEffect, IdleIsAPass
    <2>4. QED
      BY <1>4, <2>1, <2>2, <2>3, RetentionEffect
  <1>5. CASE AbortPass
    <2>1. pass' \in Passes
      BY <1>5, IdleIsAPass DEF AbortPass
    <2>2. QED
      BY <1>5, <2>1 DEF AbortPass
  <1>6. ASSUME NEW i \in Runs, Mirror(i)
        PROVE  TypeOK'
    BY <1>6 DEF Mirror, EnqueueScheduledBackupInstance
  <1>7. ASSUME NEW i \in Runs, SyncBackup(i)
        PROVE  TypeOK'
    <2>1. /\ backup' \in {[backup EXCEPT ![i] = "Failed"], [backup EXCEPT ![i] = "Succeeded"]}
          /\ finished' \in {finished, finished \cup {i}}
      BY <1>7 DEF SyncBackup, OutcomeWithoutJob
    <2>2. /\ backup' \in [Runs -> {"absent", "Running", "Succeeded", "Failed", "Deleting"}]
          /\ finished' \subseteq {k \in Runs : backup'[k] # "absent"}
      BY <2>1
    <2>3. QED
      BY <1>7, <2>2 DEF SyncBackup, EnqueueScheduledBackupInstance
  <1>8. ASSUME NEW i \in Runs, CleanupBackup(i)
        PROVE  TypeOK'
    BY <1>8 DEF CleanupBackup, EnqueueScheduledBackupInstance
  <1>9. ASSUME NEW s \in Schedules, StartRun(s)
        PROVE  TypeOK'
    <2>1. runs' \in Seq(Schedules) /\ Len(runs') = Len(runs) + 1
      BY <1>9 DEF StartRun
    <2>2. Len(runs) + 1 \in Runs
      BY <1>9 DEF StartRun, Runs
    <2>3. QED
      BY <1>9, <2>1, <2>2 DEF StartRun
  <1>10. ASSUME NEW i \in Runs, EndRun(i)
         PROVE  TypeOK'
    <2>1. ended' \in Seq(Runs) /\ aged' \in 0..Len(ended')
      <3>1. CASE ended' = Append(ended, i)
        <4>1. ended' \in Seq(Runs) /\ Len(ended') = Len(ended) + 1
          BY <3>1
        <4>2. QED
          BY <1>10, <4>1 DEF EndRun
      <3>2. CASE ended' = ended
        BY <1>10, <3>2 DEF EndRun
      <3>3. QED
        BY <1>10, <3>1, <3>2 DEF EndRun
    <2>2. /\ job' \in [Runs -> {"none", "running", "succeeded", "failed"}]
          /\ \A k \in Runs : job[k] # "none" => job'[k] # "none"
          /\ data' \in [Runs -> {"none", "partial", "full"}]
      BY <1>10 DEF EndRun
    <2>3. QED
      BY <1>10, <2>1, <2>2 DEF EndRun
  <1>11. ASSUME NEW i \in Runs, RemoveJob(i)
         PROVE  TypeOK'
    BY <1>11 DEF RemoveJob
  <1>12. ASSUME NEW s \in Schedules, CacheCronJob(s)
         PROVE  TypeOK'
    BY <1>12 DEF CacheCronJob
  <1>13. CASE EditSpec
    <2>1. spec' \in [Schedules -> {"enabled", "disabled", "removed"}] /\ broken' \subseteq Broken
      BY <1>13 DEF EditSpec
    <2>2. edits' \in 0..MaxEdits
      BY <1>13 DEF EditSpec
    <2>3. QED
      BY <1>13, <2>1, <2>2 DEF EditSpec
  <1>14. CASE RestoreBegins \/ RestoreEnds \/ HealthChanges
    <2>1. edits' \in 0..MaxEdits /\ faults' \in 0..MaxFaults
      BY <1>14 DEF RestoreBegins, RestoreEnds, HealthChanges
    <2>2. {restoring', healthy', queued'} \subseteq BOOLEAN
      BY <1>14 DEF RestoreBegins, RestoreEnds, HealthChanges, EnqueueRestoreInstance
    <2>3. UNCHANGED <<crons, jobs, mirrors, spec, broken, aged, pass, expired>>
      BY <1>14 DEF RestoreBegins, RestoreEnds, HealthChanges
    <2>4. QED
      BY <2>1, <2>2, <2>3
  <1>15. CASE UNCHANGED vars
    BY <1>15 DEF vars
  <1>16. QED
    BY <1>1, <1>2, <1>3, <1>4, <1>5, <1>6, <1>7, <1>8, <1>9, <1>10, <1>11, <1>12, <1>13, <1>14,
       <1>15 DEF Next, InstancePass

\* The mirrors, the CronJobs and the pass keep their types, for any schedules.
THEOREM TypeCorrect == Spec => []TypeOK
  BY InitTypes, TypeStep, PTL DEF Spec
-----------------------------------------------------------------------------
\* A run that has not started has no trace (StartRun).
FreshRun(i) == i > Len(runs) => job[i] = "none" /\ data[i] = "none" /\ backup[i] = "absent"

\* What retention deletes does not come back, and the data of a run is complete
\* if and only if its Job has succeeded, until it is deleted.
RunInv(i) == /\ i \in expired => backup[i] \in {"Deleting", "absent"}
             /\ backup[i] = "Deleting" => i \in expired
             /\ job[i] = "succeeded" /\ i \notin expired => data[i] = "full"
             /\ job[i] \in {"running", "failed"} => data[i] # "full"
             /\ backup[i] = "Succeeded" => job[i] \in {"succeeded", "none"} /\ data[i] = "full"

\* Every run that succeeded has ended once, whether its Job is still there or not.
EndedInv == \A n \in 1..Len(ended) :
    /\ ended[n] <= Len(runs)
    /\ job[ended[n]] \in {"succeeded", "none"}
    /\ \A m \in 1..Len(ended) : ended[m] = ended[n] => m = n
HasEnded(i) == job[i] = "succeeded" \/ backup[i] = "Succeeded"
                 => \E n \in 1..Len(ended) : ended[n] = i

IInv == /\ TypeOK
        /\ \A i \in Runs : FreshRun(i) /\ RunInv(i) /\ HasEnded(i)
        /\ EndedInv

\* Without runs the invariant holds.
LEMMA InitHolds == Init => IInv
  <1> SUFFICES ASSUME Init
               PROVE  IInv
    OBVIOUS
  <1>1. Len(ended) = 0 /\ EndedInv
    BY DEF Init, EndedInv
  <1>2. \A i \in Runs : FreshRun(i) /\ RunInv(i) /\ HasEnded(i)
    BY DEF Init, FreshRun, RunInv, HasEnded
  <1>3. QED
    BY <1>1, <1>2, InitTypes DEF IInv

\* A run starts behind all others.
LEMMA StartEffect ==
    ASSUME TypeOK, NEW s \in Schedules, StartRun(s)
    PROVE  /\ Len(runs') = Len(runs) + 1 /\ Len(runs) \in Nat
           /\ \A i \in Runs : i = Len(runs') => job'[i] = "running" /\ data'[i] = "partial"
           /\ \A i \in Runs : i # Len(runs') => job'[i] = job[i] /\ data'[i] = data[i]
           /\ UNCHANGED <<ended, backup, finished, expired>>
  <1>1. Len(runs') = Len(runs) + 1
    BY DEF StartRun, TypeOK
  <1>2. Len(runs) \in Nat
    BY DEF TypeOK
  <1>3. /\ job' = [job EXCEPT ![Len(runs')] = "running"]
        /\ data' = [data EXCEPT ![Len(runs')] = "partial"]
    BY <1>1 DEF StartRun
  <1>4. job = [i \in Runs |-> job[i]] /\ data = [i \in Runs |-> data[i]]
    BY DEF TypeOK
  <1>5. UNCHANGED <<ended, backup, finished, expired>>
    BY DEF StartRun, mirrors
  <1>6. ASSUME NEW i \in Runs
        PROVE  /\ i = Len(runs') => job'[i] = "running" /\ data'[i] = "partial"
               /\ i # Len(runs') => job'[i] = job[i] /\ data'[i] = data[i]
    BY <1>3, <1>4
  <1>7. QED
    BY <1>1, <1>2, <1>5, <1>6

\* Only StartRun makes a trace of a run, and counts it.
LEMMA FreshStep ==
    ASSUME IInv, [Next]_vars, NEW i \in Runs
    PROVE  FreshRun(i)'
  <1> USE BoundAssumption DEF IInv, TypeOK, Runs, FreshRun, crons, mirrors, jobs, world
  <1>1. CASE BeginPass \/ ApplySchedule \/ PruneSchedules
    BY <1>1 DEF BeginPass, ApplySchedule, PruneSchedules
  <1>2. CASE EnforceRetention
    BY <1>2, RetentionEffect
  <1>3. CASE AbortPass
    BY <1>3 DEF AbortPass
  <1>4. ASSUME NEW k \in Runs, Mirror(k)
        PROVE  FreshRun(i)'
    BY <1>4 DEF Mirror
  <1>5. ASSUME NEW k \in Runs, SyncBackup(k)
        PROVE  FreshRun(i)'
    BY <1>5 DEF SyncBackup, OutcomeWithoutJob
  <1>6. ASSUME NEW k \in Runs, CleanupBackup(k)
        PROVE  FreshRun(i)'
    BY <1>6 DEF CleanupBackup, ProducedData
  <1>7. ASSUME NEW s \in Schedules, StartRun(s)
        PROVE  FreshRun(i)'
    <2>1. /\ Len(runs') = Len(runs) + 1 /\ Len(runs) \in Nat
          /\ i # Len(runs') => job'[i] = job[i] /\ data'[i] = data[i]
          /\ backup' = backup
      BY <1>7, StartEffect
    <2>2. i > Len(runs') => i # Len(runs') /\ i > Len(runs)
      BY <2>1
    <2>3. QED
      BY <2>1, <2>2
  <1>8. ASSUME NEW k \in Runs, EndRun(k)
        PROVE  FreshRun(i)'
    BY <1>8 DEF EndRun
  <1>9. ASSUME NEW k \in Runs, RemoveJob(k)
        PROVE  FreshRun(i)'
    BY <1>9 DEF RemoveJob
  <1>10. CASE (\E s \in Schedules : CacheCronJob(s)) \/ EditSpec
    BY <1>10 DEF CacheCronJob, EditSpec
  <1>11. CASE RestoreBegins \/ RestoreEnds \/ HealthChanges
    BY <1>11 DEF RestoreBegins, RestoreEnds, HealthChanges
  <1>12. CASE UNCHANGED vars
    BY <1>12 DEF vars
  <1>13. QED
    BY <1>1, <1>2, <1>3, <1>4, <1>5, <1>6, <1>7, <1>8, <1>9, <1>10, <1>11, <1>12
       DEF Next, InstancePass

\* Jobs, data and mirrored Backups of a run move on together.
LEMMA RunStep ==
    ASSUME IInv, [Next]_vars, NEW i \in Runs
    PROVE  RunInv(i)'
  <1> USE DEF IInv, TypeOK, RunInv, crons, mirrors, jobs, world
  <1>1. CASE BeginPass \/ ApplySchedule \/ PruneSchedules
    BY <1>1 DEF BeginPass, ApplySchedule, PruneSchedules
  <1>2. CASE EnforceRetention
    BY <1>2, RetentionEffect
  <1>3. CASE AbortPass
    BY <1>3 DEF AbortPass
  <1>4. ASSUME NEW k \in Runs, Mirror(k)
        PROVE  RunInv(i)'
    BY <1>4 DEF Mirror
  <1>5. ASSUME NEW k \in Runs, SyncBackup(k)
        PROVE  RunInv(i)'
    BY <1>5 DEF SyncBackup, OutcomeWithoutJob
  <1>6. ASSUME NEW k \in Runs, CleanupBackup(k)
        PROVE  RunInv(i)'
    BY <1>6 DEF CleanupBackup, ProducedData
  <1>7. ASSUME NEW s \in Schedules, StartRun(s)
        PROVE  RunInv(i)'
    <2>1. CASE i = Len(runs')
      <3>1. /\ Len(runs') = Len(runs) + 1 /\ Len(runs) \in Nat
            /\ job'[i] = "running" /\ data'[i] = "partial"
            /\ backup' = backup /\ expired' = expired
        BY <1>7, <2>1, StartEffect
      <3>2. i > Len(runs)
        BY <2>1, <3>1
      <3>3. backup[i] = "absent"
        BY <3>2 DEF FreshRun
      <3>4. QED
        BY <3>1, <3>3
    <2>2. CASE i # Len(runs')
      <3>1. job'[i] = job[i] /\ data'[i] = data[i] /\ backup' = backup /\ expired' = expired
        BY <1>7, <2>2, StartEffect
      <3>2. QED
        BY <3>1
    <2>3. QED
      BY <2>1, <2>2
  <1>8. ASSUME NEW k \in Runs, EndRun(k)
        PROVE  RunInv(i)'
    BY <1>8 DEF EndRun
  <1>9. ASSUME NEW k \in Runs, RemoveJob(k)
        PROVE  RunInv(i)'
    BY <1>9 DEF RemoveJob
  <1>10. CASE (\E s \in Schedules : CacheCronJob(s)) \/ EditSpec
    BY <1>10 DEF CacheCronJob, EditSpec
  <1>11. CASE RestoreBegins \/ RestoreEnds \/ HealthChanges
    BY <1>11 DEF RestoreBegins, RestoreEnds, HealthChanges
  <1>12. CASE UNCHANGED vars
    BY <1>12 DEF vars
  <1>13. QED
    BY <1>1, <1>2, <1>3, <1>4, <1>5, <1>6, <1>7, <1>8, <1>9, <1>10, <1>11, <1>12
       DEF Next, InstancePass

\* A run ends once, and is not run again (EndRun).
LEMMA EndedStep ==
    ASSUME IInv, [Next]_vars
    PROVE  EndedInv'
  <1> DEFINE Keeps == /\ UNCHANGED ended /\ Len(runs') >= Len(runs)
                      /\ \A i \in Runs : job[i] \in {"succeeded", "none"} /\ i <= Len(runs)
                                           => job'[i] \in {"succeeded", "none"}
  <1>0. Keeps => EndedInv'
    <2> SUFFICES ASSUME Keeps, NEW n \in 1..Len(ended)
                 PROVE  ended[n] <= Len(runs') /\ job'[ended[n]] \in {"succeeded", "none"}
      BY DEF IInv, EndedInv
    <2>1. ended[n] \in Runs /\ ended[n] <= Len(runs) /\ job[ended[n]] \in {"succeeded", "none"}
      BY DEF IInv, TypeOK, EndedInv
    <2>2. Len(runs) \in Nat /\ Len(runs') \in Nat /\ ended[n] \in Nat
      BY <2>1, TypeStep DEF IInv, TypeOK, Runs
    <2>3. QED
      BY <2>1, <2>2
  <1> HIDE DEF Keeps
  <1>13. UNCHANGED <<ended, runs, job>> => Keeps
    BY DEF IInv, TypeOK, Keeps
  <1> USE <1>0, <1>13 DEF crons, mirrors, jobs, world
  <1>1. CASE BeginPass \/ ApplySchedule \/ PruneSchedules
    BY <1>1 DEF BeginPass, ApplySchedule, PruneSchedules
  <1>2. CASE EnforceRetention
    BY <1>2, RetentionEffect DEF IInv
  <1>3. CASE AbortPass
    BY <1>3 DEF AbortPass
  <1>4. ASSUME NEW k \in Runs, Mirror(k)
        PROVE  EndedInv'
    BY <1>4 DEF Mirror
  <1>5. ASSUME NEW k \in Runs, SyncBackup(k)
        PROVE  EndedInv'
    BY <1>5 DEF SyncBackup, OutcomeWithoutJob
  <1>6. ASSUME NEW k \in Runs, CleanupBackup(k)
        PROVE  EndedInv'
    BY <1>6 DEF CleanupBackup, ProducedData
  <1>7. ASSUME NEW s \in Schedules, StartRun(s)
        PROVE  EndedInv'
    <2>1. Keeps
      <3>1. Len(runs') = Len(runs) + 1 /\ Len(runs) \in Nat /\ UNCHANGED ended
        BY <1>7, StartEffect DEF IInv, TypeOK
      <3>2. \A i \in Runs : i <= Len(runs) => i # Len(runs')
        BY <3>1
      <3>3. \A i \in Runs : i # Len(runs') => job'[i] = job[i]
        BY <1>7, StartEffect DEF IInv
      <3>4. QED
        BY <3>1, <3>2, <3>3 DEF Keeps
    <2>2. QED
      BY <2>1
  <1>8. ASSUME NEW k \in Runs, EndRun(k)
        PROVE  EndedInv'
    <2>1. CASE UNCHANGED ended
      <3>1. Keeps
        BY <1>8, <2>1 DEF EndRun, IInv, TypeOK, Keeps
      <3>2. QED
        BY <3>1
    <2>2. CASE ended' = Append(ended, k) /\ job' = [job EXCEPT ![k] = "succeeded"]
      <3>1. /\ Len(ended') = Len(ended) + 1 /\ ended'[Len(ended')] = k
            /\ \A n \in 1..Len(ended) : ended'[n] = ended[n] /\ ended[n] \in Runs /\ ended[n] # k
        BY <1>8, <2>2 DEF EndRun, IInv, TypeOK, EndedInv
      <3>2. k <= Len(runs) /\ runs' = runs /\ Len(ended) \in Nat /\ k \in Runs
        BY <1>8 DEF EndRun, IInv, TypeOK, FreshRun, Runs
      <3>3. \A n \in 1..Len(ended) : job'[ended[n]] \in {"succeeded", "none"} /\ ended[n] <= Len(runs)
        BY <2>2, <3>1 DEF IInv, TypeOK, EndedInv
      <3>4. job'[k] = "succeeded"
        BY <1>8, <2>2 DEF IInv, TypeOK
      <3>5. \A n \in 1..Len(ended') : n \in 1..Len(ended) \/ n = Len(ended')
        BY <3>1, <3>2
      <3>6. QED
        BY <3>1, <3>2, <3>3, <3>4, <3>5 DEF IInv, EndedInv
    <2>3. QED
      BY <1>8, <2>1, <2>2 DEF EndRun
  <1>9. ASSUME NEW k \in Runs, RemoveJob(k)
        PROVE  EndedInv'
    <2>1. Keeps
      BY <1>9 DEF RemoveJob, IInv, TypeOK, Keeps, Runs
    <2>2. QED
      BY <2>1
  <1>10. CASE (\E s \in Schedules : CacheCronJob(s)) \/ EditSpec
    BY <1>10 DEF CacheCronJob, EditSpec
  <1>11. CASE RestoreBegins \/ RestoreEnds \/ HealthChanges
    BY <1>11 DEF RestoreBegins, RestoreEnds, HealthChanges
  <1>12. CASE UNCHANGED vars
    BY <1>12 DEF vars
  <1>14. QED
    BY <1>1, <1>2, <1>3, <1>4, <1>5, <1>6, <1>7, <1>8, <1>9, <1>10, <1>11, <1>12
       DEF Next, InstancePass

\* A Job that succeeds takes its place among those that ended.
LEMMA HasEndedStep ==
    ASSUME IInv, [Next]_vars, NEW i \in Runs
    PROVE  HasEnded(i)'
  <1> USE DEF IInv, TypeOK, HasEnded, crons, mirrors, jobs, world
  <1>1. CASE BeginPass \/ ApplySchedule \/ PruneSchedules
    BY <1>1 DEF BeginPass, ApplySchedule, PruneSchedules
  <1>2. CASE EnforceRetention
    BY <1>2, RetentionEffect
  <1>3. CASE AbortPass
    BY <1>3 DEF AbortPass
  <1>4. ASSUME NEW k \in Runs, Mirror(k)
        PROVE  HasEnded(i)'
    BY <1>4 DEF Mirror
  <1>5. ASSUME NEW k \in Runs, SyncBackup(k)
        PROVE  HasEnded(i)'
    BY <1>5 DEF SyncBackup, OutcomeWithoutJob
  <1>6. ASSUME NEW k \in Runs, CleanupBackup(k)
        PROVE  HasEnded(i)'
    BY <1>6 DEF CleanupBackup, ProducedData
  <1>7. ASSUME NEW s \in Schedules, StartRun(s)
        PROVE  HasEnded(i)'
    <2>1. /\ job'[i] \in {"running", job[i]}
          /\ backup' = backup /\ ended' = ended
      BY <1>7, StartEffect
    <2>2. QED
      BY <2>1
  <1>8. ASSUME NEW k \in Runs, EndRun(k)
        PROVE  HasEnded(i)'
    <2>1. CASE UNCHANGED ended
      BY <1>8, <2>1 DEF EndRun
    <2>2. CASE ended' = Append(ended, k)
      <3>1. /\ Len(ended') = Len(ended) + 1 /\ ended'[Len(ended')] = k /\ Len(ended) \in Nat
            /\ \A n \in 1..Len(ended) : ended'[n] = ended[n] /\ n \in 1..Len(ended')
        BY <2>2
      <3>2. CASE i = k
        BY <3>1, <3>2
      <3>3. CASE i # k
        BY <1>8, <3>1, <3>3 DEF EndRun
      <3>4. QED
        BY <3>2, <3>3
    <2>3. QED
      BY <1>8, <2>1, <2>2 DEF EndRun
  <1>9. ASSUME NEW k \in Runs, RemoveJob(k)
        PROVE  HasEnded(i)'
    BY <1>9 DEF RemoveJob
  <1>10. CASE (\E s \in Schedules : CacheCronJob(s)) \/ EditSpec
    BY <1>10 DEF CacheCronJob, EditSpec
  <1>11. CASE RestoreBegins \/ RestoreEnds \/ HealthChanges
    BY <1>11 DEF RestoreBegins, RestoreEnds, HealthChanges
  <1>12. CASE UNCHANGED vars
    BY <1>12 DEF vars
  <1>13. QED
    BY <1>1, <1>2, <1>3, <1>4, <1>5, <1>6, <1>7, <1>8, <1>9, <1>10, <1>11, <1>12
       DEF Next, InstancePass

\* The inductive invariant, for any schedules and any number of runs.
THEOREM InvariantHolds == Spec => []IInv
  <1>1. IInv /\ [Next]_vars => IInv'
    BY TypeStep, FreshStep, RunStep, EndedStep, HasEndedStep DEF IInv
  <1>2. QED
    BY InitHolds, <1>1, PTL DEF Spec
-----------------------------------------------------------------------------
\* A run that was reported leaves no data behind, with its Job or without it
\* (backupProducedData, CleanupBackup).
THEOREM NoDataLeftBehind == Spec => DeletedWithItsData
  <1> DEFINE Gone(i) == /\ backup[i] = "Deleting" /\ backup'[i] = "absent"
                        /\ i \in finished /\ faults' = faults
  <1>1. ASSUME IInv, Next, NEW i \in Runs, Gone(i)
        PROVE  data'[i] # "full"
    <2> USE DEF IInv, TypeOK
    <2>1. CleanupBackup(i)
      <3>1. \A k \in Runs : (Mirror(k) \/ SyncBackup(k)) => backup'[i] # "absent" \/ backup[i] # "Deleting"
        BY <1>1 DEF Mirror, SyncBackup
      <3>2. ~EnforceRetention
        BY <1>1, RetentionEffect
      <3>3. PICK k \in Runs : CleanupBackup(k)
        BY <1>1, <3>1, <3>2
           DEF Next, InstancePass, BeginPass, ApplySchedule, PruneSchedules, AbortPass, StartRun,
           EndRun, RemoveJob, CacheCronJob, EditSpec, RestoreBegins, RestoreEnds, HealthChanges,
           mirrors
      <3>4. QED
        BY <1>1, <3>3 DEF CleanupBackup
    <2>2. CASE ProducedData(i)
      BY <1>1, <2>1, <2>2, BoundAssumption DEF CleanupBackup, Fault
    <2>3. CASE ~ProducedData(i)
      BY <1>1, <2>1, <2>3 DEF CleanupBackup, ProducedData, RunInv
    <2>4. QED
      BY <2>2, <2>3
  <1>2. IInv /\ [Next]_vars => [\A i \in Runs : Gone(i) => data'[i] # "full"]_vars
    BY <1>1
  <1>3. QED
    BY <1>2, InvariantHolds, PTL DEF Spec, DeletedWithItsData

\* Every step is one of the contract, or none, for each run.
LEMMA ContractStep ==
    ASSUME IInv, [Next]_vars, NEW i \in Runs
    PROVE  Contract!Step(i)
  <1> DEFINE Goal == Contract!Step(i)
             Still == backup'[i] = backup[i] /\ data'[i] = data[i]
  <1>0. Still => Goal
    BY DEF Contract!Step
  <1> HIDE DEF Goal
  <1> USE <1>0 DEF IInv, TypeOK, crons, mirrors, jobs, world
  <1>1. CASE BeginPass \/ ApplySchedule \/ PruneSchedules
    <2>1. Still
      BY <1>1 DEF BeginPass, ApplySchedule, PruneSchedules
    <2>2. QED
      BY <2>1 DEF Goal
  <1>2. CASE EnforceRetention
    <2>1. Still \/ (/\ backup[i] \in {"Succeeded", "Failed"} /\ backup'[i] = "Deleting"
                    /\ data'[i] = data[i])
      BY <1>2, RetentionEffect
    <2>2. QED
      BY <2>1 DEF Contract!Step, Contract!Delete, Goal
  <1>3. CASE AbortPass
    <2>1. Still
      BY <1>3 DEF AbortPass
    <2>2. QED
      BY <2>1 DEF Goal
  <1>4. ASSUME NEW k \in Runs, Mirror(k)
        PROVE  Goal
    <2>1. Still \/ (backup[i] = "absent" /\ backup'[i] = "Running" /\ data'[i] = data[i])
      BY <1>4 DEF Mirror
    <2>2. QED
      BY <2>1 DEF Contract!Step, Contract!Appear, Goal
  <1>5. ASSUME NEW k \in Runs, SyncBackup(k)
        PROVE  Goal
    <2>1. \/ Still
          \/ /\ backup[i] \in {"Running", "Failed"} /\ data'[i] = data[i]
             /\ backup'[i] = "Failed" \/ (backup'[i] = "Succeeded" /\ data[i] = "full")
      BY <1>5 DEF SyncBackup, OutcomeWithoutJob, RunInv
    <2>2. QED
      BY <2>1 DEF Contract!Step, Contract!Report, Goal
  <1>6. ASSUME NEW k \in Runs, CleanupBackup(k)
        PROVE  Goal
    <2>1. Still \/ (/\ backup[i] = "Deleting" /\ backup'[i] = "absent"
                    /\ data'[i] \in {data[i], "none"})
      BY <1>6 DEF CleanupBackup
    <2>2. QED
      BY <2>1 DEF Contract!Step, Contract!Remove, Goal
  <1>7. ASSUME NEW s \in Schedules, StartRun(s)
        PROVE  Goal
    <2>1. Still \/ (backup[i] = "absent" /\ backup'[i] = backup[i] /\ data'[i] = "partial")
      <3>1. /\ Len(runs') = Len(runs) + 1 /\ Len(runs) \in Nat /\ backup' = backup
            /\ i = Len(runs') => data'[i] = "partial"
            /\ i # Len(runs') => data'[i] = data[i]
        BY <1>7, StartEffect
      <3>2. i = Len(runs') => i > Len(runs)
        BY <3>1
      <3>3. i > Len(runs) => backup[i] = "absent"
        BY DEF FreshRun
      <3>4. QED
        BY <3>1, <3>2, <3>3
    <2>2. QED
      BY <2>1 DEF Contract!Step, Contract!Write, Goal
  <1>8. ASSUME NEW k \in Runs, EndRun(k)
        PROVE  Goal
    <2>1. Still \/ (backup[i] # "Succeeded" /\ backup'[i] = backup[i] /\ data'[i] = "full")
      BY <1>8 DEF EndRun, RunInv
    <2>2. QED
      BY <2>1 DEF Contract!Step, Contract!Write, Goal
  <1>9. ASSUME NEW k \in Runs, RemoveJob(k)
        PROVE  Goal
    BY <1>9 DEF RemoveJob
  <1>10. CASE (\E s \in Schedules : CacheCronJob(s)) \/ EditSpec
    <2>1. Still
      BY <1>10 DEF CacheCronJob, EditSpec
    <2>2. QED
      BY <2>1 DEF Goal
  <1>11. CASE RestoreBegins \/ RestoreEnds \/ HealthChanges
    <2>1. Still
      BY <1>11 DEF RestoreBegins, RestoreEnds, HealthChanges
    <2>2. QED
      BY <2>1 DEF Goal
  <1>12. CASE UNCHANGED vars
    <2>1. Still
      BY <1>12 DEF vars
    <2>2. QED
      BY <2>1 DEF Goal
  <1>13. QED
    BY <1>1, <1>2, <1>3, <1>4, <1>5, <1>6, <1>7, <1>8, <1>9, <1>10, <1>11, <1>12
       DEF Next, InstancePass, Goal

\* A mirrored run keeps the contract of a Backup: a success is final, with all its
\* data, until retention deletes it (SyncBackup, enforceRetention).
THEOREM RunsKeepTheContract == Spec => ImplementsContract
  <1>1. Init => Contract!Init
    BY DEF Init, Contract!Init
  <1>2. IInv /\ [Next]_vars => [Contract!Next]_(Contract!vars)
    BY ContractStep DEF Contract!Next
  <1>3. QED
    BY <1>1, <1>2, InvariantHolds, PTL DEF Spec, ImplementsContract, Contract!Spec

\* A mirrored run that is reported Succeeded has its data, although its Job may be
\* gone, and stays so until retention deletes it (SyncBackup, enforceRetention).
THEOREM SuccessMeansData == Spec => []Contract!SucceededHasData /\ Contract!SuccessIsFinal
  <1> DEFINE Kept(i) == backup[i] = "Succeeded" =>
                          /\ backup'[i] \in {"Succeeded", "Deleting"}
                          /\ data'[i] = "full"
  <1>1. IInv => Contract!SucceededHasData
    BY DEF IInv, RunInv, Contract!SucceededHasData
  <1>2. ASSUME IInv, [Next]_vars, NEW i \in Runs, backup[i] = "Succeeded"
        PROVE  backup'[i] \in {"Succeeded", "Deleting"} /\ data'[i] = "full"
    <2>1. Contract!Step(i)
      BY <1>2, ContractStep
    <2>2. data[i] = "full"
      BY <1>2 DEF IInv, RunInv
    <2>3. ~Contract!Appear(i) /\ ~Contract!Report(i) /\ ~Contract!Write(i) /\ ~Contract!Remove(i)
      BY <1>2 DEF Contract!Appear, Contract!Report, Contract!Write, Contract!Remove
    <2>4. QED
      BY <1>2, <2>1, <2>2, <2>3 DEF Contract!Step, Contract!Delete
  <1>3. IInv /\ [Next]_vars => [\A b \in Runs : Kept(b)]_(Contract!vars)
    BY <1>2
  <1>4. Spec => []Contract!SucceededHasData
    BY <1>1, InvariantHolds, PTL
  <1>5. Spec => [][\A b \in Runs : Kept(b)]_(Contract!vars)
    BY <1>3, InvariantHolds, PTL DEF Spec
  <1>6. Spec => Contract!SuccessIsFinal
    BY <1>5 DEF Contract!SuccessIsFinal
  <1>7. QED
    BY <1>4, <1>6

-----------------------------------------------------------------------------
\* Of successes retention takes those that expiredBackups names, no other.
LEMMA OnlyExpired ==
    ASSUME TypeOK, EnforceRetention,
           NEW k \in Runs, backup[k] = "Succeeded", backup'[k] = "Deleting"
    PROVE  \E s \in Schedules : k \in ExpiredRuns(s, aged')
  <1>1. PICK failures \in [pass.listed -> SUBSET Runs] :
          /\ \A s \in pass.listed : failures[s] \in ExcessFailures(s)
          /\ \E some \in SUBSET UNION {ExpiredRuns(s, aged') \cup failures[s] : s \in pass.listed} :
                backup' = [i \in Runs |-> IF i \in some THEN "Deleting" ELSE backup[i]]
    BY DEF EnforceRetention
  <1>2. k \in UNION {ExpiredRuns(s, aged') \cup failures[s] : s \in pass.listed}
    BY <1>1
  <1>3. PICK s \in pass.listed : k \in ExpiredRuns(s, aged') \/ k \in failures[s]
    BY <1>2
  <1>4. k \notin failures[s]
    BY <1>1, <1>3 DEF ExcessFailures, InState
  <1>5. s \in Schedules
    BY <1>3 DEF TypeOK, Passes
  <1>6. QED
    BY <1>3, <1>4, <1>5

\* Of finitely many runs one completed last.
LEMMA OneIsLast ==
    ASSUME NEW G, IsFiniteSet(G), \A k \in G : Place(k) \in Nat,
           NEW E, E \subseteq G, E # {}
    PROVE  \E m \in E : \A k \in E : Place(k) <= Place(m)
  <1> DEFINE After == {Later(k, G) : k \in E}
  <1>1. After \subseteq FiniteSubsetsOf(G) /\ After # {}
    <2>1. \A k \in E : Later(k, G) \in SUBSET G
      BY DEF Later
    <2>2. FiniteSubsetsOf(G) = SUBSET G
      BY FS_FiniteSubsetsOfFinite
    <2>3. After \subseteq SUBSET G
      BY <2>1
    <2>4. After # {}
      OBVIOUS
    <2>5. QED
      BY <2>2, <2>3, <2>4
  <1>2. IsWellFoundedOn(StrictSubsetOrdering(G), FiniteSubsetsOf(G))
    BY FS_StrictSubsetOrderingWellFounded
  <1>3. PICK least \in After : \A later \in After : <<later, least>> \notin StrictSubsetOrdering(G)
    BY <1>1, <1>2, WFMin
  <1>4. PICK m \in E : least = Later(m, G)
    BY <1>3
  <1>5. ASSUME NEW k \in E, Place(k) > Place(m)
        PROVE  FALSE
    <2>1. Later(k, G) \subseteq Later(m, G)
      BY <1>5 DEF Later
    <2>2. k \in Later(m, G) /\ k \notin Later(k, G)
      BY <1>5 DEF Later
    <2>3. <<Later(k, G), Later(m, G)>> \in StrictSubsetOrdering(G)
      BY <2>1, <2>2 DEF StrictSubsetOrdering, Later
    <2>4. QED
      BY <1>3, <1>4, <2>3
  <1>6. QED
    BY <1>5

\* A run that succeeded has its place among those that ended, and no other.
LEMMA PlaceOfSuccess ==
    ASSUME IInv, NEW i \in Runs, backup[i] = "Succeeded"
    PROVE  /\ Place(i) \in 1..Len(ended) /\ Place(i) \in Nat
           /\ \A n \in 1..Len(ended) : ended[n] = i => n = Place(i)
  <1>1. \E n \in 1..Len(ended) : ended[n] = i
    BY DEF IInv, HasEnded
  <1>2. Place(i) \in 1..Len(ended) /\ ended[Place(i)] = i
    BY <1>1 DEF Place
  <1>3. QED
    BY <1>2 DEF IInv, TypeOK, EndedInv

\* The last of the runs that expire by count has Keep successful runs behind it,
\* and retention leaves them all.
LEMMA NewestStay ==
    ASSUME IInv, EnforceRetention, NEW s \in Schedules, Keep[s] > 0,
           NEW i \in ExpiredRuns(s, aged')
    PROVE  Cardinality(Later(i, {k \in RunsOf(s) : backup'[k] = "Succeeded"})) >= Keep[s]
  <1> DEFINE G == InState(s, "Succeeded") \cap finished
             E == {k \in G : Cardinality(Later(k, G)) >= Keep[s]}
             kept == Later(i, {k \in RunsOf(s) : backup'[k] = "Succeeded"})
  <1>1. ExpiredRuns(s, aged') = E
    BY ScheduleAssumption DEF ExpiredRuns
  <1>2. IsFiniteSet(RunsOf(s)) /\ IsFiniteSet(G)
    <2>1. Len(runs) \in Int
      BY DEF IInv, TypeOK
    <2>2. IsFiniteSet(1..Len(runs))
      BY <2>1, FS_Interval
    <2>3. QED
      BY <2>2, FS_Subset DEF RunsOf, InState
  <1>3. \A k \in G : k \in Runs /\ backup[k] = "Succeeded" /\ runs[k] = s /\ k \in RunsOf(s)
    BY BoundAssumption DEF InState, RunsOf, IInv, TypeOK, Runs
  <1>4. \A k \in G : Place(k) \in Nat
    BY <1>3, PlaceOfSuccess
  <1>5. PICK m \in E : \A k \in E : Place(k) <= Place(m)
    <2>1. E # {}
      BY <1>1
    <2>2. QED
      BY <1>2, <1>4, <2>1, OneIsLast
  <1>6. \A k \in G \ E : backup'[k] = "Succeeded"
    <2> SUFFICES ASSUME NEW k \in G \ E, backup'[k] # "Succeeded"
                 PROVE  FALSE
      OBVIOUS
    <2>1. backup'[k] = "Deleting"
      BY <1>3, RetentionEffect DEF IInv
    <2>2. PICK t \in Schedules : k \in ExpiredRuns(t, aged')
      BY <1>3, <2>1, OnlyExpired DEF IInv
    <2>3. t = s
      BY <1>3, <2>2 DEF ExpiredRuns, InState, RunsOf
    <2>4. QED
      BY <1>1, <2>2, <2>3
  <1>7. Later(m, G) \subseteq kept
    <2> SUFFICES ASSUME NEW k \in G, Place(k) > Place(m)
                 PROVE  k \in kept
      BY DEF Later
    <2>1. k \notin E
      BY <1>4, <1>5
    <2>2. Place(k) > Place(i)
      BY <1>1, <1>4, <1>5
    <2>3. QED
      BY <1>3, <1>6, <2>1, <2>2 DEF Later
  <1>8. IsFiniteSet(kept)
    BY <1>2, FS_Subset DEF Later
  <1>9. Cardinality(Later(m, G)) <= Cardinality(kept) /\ Cardinality(Later(m, G)) >= Keep[s]
    BY <1>5, <1>7, <1>8, FS_Subset
  <1>10. Cardinality(kept) \in Nat /\ Cardinality(Later(m, G)) \in Nat /\ Keep[s] \in Nat
    BY <1>7, <1>8, FS_Subset, FS_CardinalityType, ScheduleAssumption
  <1>11. QED
    BY <1>9, <1>10

\* A place behind the window is a place of the list.
LEMMA After == ASSUME NEW a \in Nat, NEW l \in Nat, NEW n \in a + 1 .. l
               PROVE  n \in 1..l /\ n > a
  OBVIOUS

\* Retention by count leaves the newest Keep successful runs of a schedule, also
\* when it stops half-way, and retention by time what completed within the window
\* (enforceRetention, expiredBackups).
THEOREM NewestAreKept == Spec => RetentionLeavesNewest
  <1> DEFINE Deleted(i) == backup[i] = "Succeeded" /\ backup'[i] = "Deleting"
             Allowed(i) == LET s == runs[i]
                               kept == Later(i, {k \in RunsOf(s) : backup'[k] = "Succeeded"})
                           IN  IF Keep[s] > 0 THEN Cardinality(kept) >= Keep[s]
                                              ELSE \A n \in aged' + 1 .. Len(ended) : ended[n] # i
  <1>1. ASSUME IInv, Next, NEW i \in Runs, Deleted(i)
        PROVE  Allowed(i)
    <2>1. EnforceRetention
      <3> USE DEF IInv, TypeOK
      <3>1. \A k \in Runs : ~(Mirror(k) \/ SyncBackup(k) \/ CleanupBackup(k))
        BY <1>1 DEF Mirror, SyncBackup, CleanupBackup, OutcomeWithoutJob
      <3>2. QED
        BY <1>1, <3>1
           DEF Next, InstancePass, BeginPass, ApplySchedule, PruneSchedules, AbortPass, StartRun,
           EndRun, RemoveJob, CacheCronJob, EditSpec, RestoreBegins, RestoreEnds, HealthChanges,
           mirrors
    <2>2. PICK s \in Schedules : i \in ExpiredRuns(s, aged')
      BY <1>1, <2>1, OnlyExpired DEF IInv
    <2>3. runs[i] = s
      BY <2>2 DEF ExpiredRuns, InState, RunsOf
    <2>4. CASE Keep[s] > 0
      BY <1>1, <2>1, <2>2, <2>3, <2>4, NewestStay
    <2>5. CASE ~(Keep[s] > 0)
      <3>1. Place(i) <= aged'
        BY <2>2, <2>5 DEF ExpiredRuns
      <3>2. \A n \in aged' + 1 .. Len(ended) : ended[n] # i
        <4> SUFFICES ASSUME NEW n \in aged' + 1 .. Len(ended), ended[n] = i
                     PROVE  FALSE
          OBVIOUS
        <4>1. aged' \in Nat /\ Len(ended) \in Nat
          BY <1>1, <2>1, RetentionEffect DEF IInv, TypeOK
        <4>2. n \in 1..Len(ended) /\ n > aged'
          BY <4>1, After
        <4>3. n = Place(i)
          BY <1>1, <4>2, PlaceOfSuccess
        <4>4. QED
          BY <3>1, <4>1, <4>2, <4>3
      <3>3. QED
        BY <2>3, <2>5, <3>2
    <2>6. QED
      BY <2>4, <2>5
  <1>2. IInv /\ [Next]_vars => [\A i \in Runs : Deleted(i) => Allowed(i)]_vars
    BY <1>1
  <1>3. QED
    BY <1>2, InvariantHolds, PTL DEF Spec, RetentionLeavesNewest
-----------------------------------------------------------------------------
\* What a pass has read is still so, as long as nothing has queued the instance.
Listed == pass.listed = {s \in Schedules : spec[s] # "removed"}
Snapshot == /\ pass.desired = {s \in Schedules : spec[s] = "enabled"}
            /\ pass.todo \subseteq pass.desired
            /\ Listed
            /\ pass.suspend = restoring /\ pass.wait = ~healthy

\* What the pass has seen to, of a world that does not queue it again.
FollowInv ==
    ~queued =>
      /\ pass.at = "apply" => Snapshot
      /\ pass.at = "retain" => Listed
      /\ pass.at = "apply" /\ healthy =>
           \A s \in pass.desired \ pass.todo :
              cron[s] = IF restoring THEN "suspended" ELSE "active"
      /\ pass.at = "retain" /\ healthy => CronJobsMatch
      /\ pass.at = "idle" /\ healthy /\ NoneBroken => CronJobsMatch
      /\ pass.at = "idle" /\ NoneBroken => RetentionMet

\* Only a reported success has a completion time to go by.
FinishedInv == \A i \in Runs : backup[i] = "Succeeded" => i \in finished

\* When nothing queues the instance any more, the CronJobs are what the spec and
\* the restores ask for, unless Milvus is not healthy, but for those the last pass
\* was not shown; and every kind of retention is met.
RestingIsRight ==
    ~queued /\ pass.at = "idle" /\ NoneBroken => (healthy => CronJobsMatch) /\ RetentionMet

\* The runs of a schedule that are over change with their Backups only.
LEMMA StatesSame ==
    ASSUME IInv, UNCHANGED backup,
           UNCHANGED runs \/ (\E t \in Schedules : StartRun(t)),
           NEW s \in Schedules, NEW state \in {"Succeeded", "Failed"}
    PROVE  InState(s, state)' = InState(s, state)
  <1>1. CASE UNCHANGED runs
    BY <1>1 DEF InState, RunsOf
  <1>2. ASSUME NEW t \in Schedules, StartRun(t)
        PROVE  InState(s, state)' = InState(s, state)
    <2>1. runs' = Append(runs, t) /\ Len(runs) \in Nat /\ Len(runs) < MaxRuns
          /\ runs \in Seq(Schedules)
      BY <1>2 DEF StartRun, IInv, TypeOK
    <2>2. Len(runs) + 1 \in Runs
      BY <2>1, BoundAssumption DEF Runs
    <2>3. backup[Len(runs) + 1] = "absent"
      BY <2>1, <2>2 DEF IInv, FreshRun
    <2>4. /\ 1..Len(runs') = (1..Len(runs)) \cup {Len(runs) + 1}
          /\ \A i \in 1..Len(runs) : runs'[i] = runs[i]
      BY <2>1
    <2>5. QED
      BY <2>3, <2>4 DEF InState, RunsOf
  <1>3. QED
    BY <1>1, <1>2

\* A success keeps its place when later runs end.
LEMMA PlaceSame ==
    ASSUME IInv, [Next]_vars, UNCHANGED ended \/ (\E k \in Runs : EndRun(k)),
           NEW i \in Runs, backup[i] = "Succeeded"
    PROVE  Place(i)' = Place(i)
  <1>1. CASE UNCHANGED ended
    BY <1>1 DEF Place
  <1>2. CASE ended' # ended
    <2>1. PICK k \in Runs : ended' = Append(ended, k)
      BY <1>2 DEF EndRun
    <2>2. Place(i) \in 1..Len(ended) /\ Place(i) \in Nat /\ ended[Place(i)] = i
      <3>1. \E n \in 1..Len(ended) : ended[n] = i
        BY DEF IInv, HasEnded
      <3>2. Place(i) \in 1..Len(ended) /\ ended[Place(i)] = i
        BY <3>1 DEF Place
      <3>3. QED
        BY <3>2, PlaceOfSuccess
    <2>3. Place(i) \in 1..Len(ended') /\ ended'[Place(i)] = i
      BY <2>1, <2>2 DEF IInv, TypeOK
    <2>4. \A n \in 1..Len(ended') : ended'[n] = i => n = Place(i)
      BY <2>3, EndedStep DEF EndedInv
    <2>5. Place(i)' \in 1..Len(ended') /\ ended'[Place(i)'] = i
      BY <2>3 DEF Place
    <2>6. QED
      BY <2>4, <2>5
  <1>3. QED
    BY <1>1, <1>2

\* What retention leaves of a schedule is within its count: the first of it that
\* completed has all the others behind it.
LEMMA WithinCount ==
    ASSUME IInv, NEW s \in Schedules, Keep[s] > 0, NEW cutoff
    PROVE  Cardinality((InState(s, "Succeeded") \cap finished) \ ExpiredRuns(s, cutoff)) <= Keep[s]
  <1> DEFINE G == InState(s, "Succeeded") \cap finished
             R == G \ ExpiredRuns(s, cutoff)
  <1>1. R = {k \in G : ~(Cardinality(Later(k, G)) >= Keep[s])}
    BY ScheduleAssumption DEF ExpiredRuns
  <1>2. IsFiniteSet(G) /\ IsFiniteSet(R)
    <2>1. Len(runs) \in Int
      BY DEF IInv, TypeOK
    <2>2. IsFiniteSet(1..Len(runs))
      BY <2>1, FS_Interval
    <2>3. QED
      BY <2>2, FS_Subset DEF RunsOf, InState
  <1>3. \A k \in G : k \in Runs /\ backup[k] = "Succeeded"
    BY BoundAssumption DEF InState, RunsOf, IInv, TypeOK, Runs
  <1>4. \A k \in G : Place(k) \in 1..Len(ended) /\ Place(k) \in Nat /\ ended[Place(k)] = k
    <2>1. \A k \in G : Place(k) \in 1..Len(ended) /\ Place(k) \in Nat
      BY <1>3, PlaceOfSuccess
    <2>2. \A k \in G : \E n \in 1..Len(ended) : ended[n] = k
      BY <1>3 DEF IInv, HasEnded
    <2>3. \A k \in G : ended[Place(k)] = k
      BY <2>2 DEF Place
    <2>4. QED
      BY <2>1, <2>3
  <1>5. Keep[s] \in Nat
    BY ScheduleAssumption
  <1>6. CASE R = {}
    BY <1>5, <1>6, FS_EmptySet
  <1>7. CASE R # {}
    <2> DEFINE Places == {Place(k) : k \in R}
    <2>1. Places \subseteq Nat /\ Places # {}
      BY <1>4, <1>7
    <2>2. PICK p \in Places : \A q \in Places : p <= q
      BY <2>1, OneIsLeast
    <2>3. PICK i \in R : p = Place(i)
      BY <2>2
    <2> HIDE DEF Places
    <2>4. \A k \in R : Place(i) <= Place(k)
      BY <2>2, <2>3 DEF Places
    <2>5. R \ {i} \subseteq Later(i, G)
      <3> SUFFICES ASSUME NEW k \in R, k # i
                   PROVE  Place(k) > Place(i)
        BY DEF Later
      <3>1. Place(k) # Place(i)
        BY <1>4
      <3>2. QED
        BY <1>4, <2>4, <3>1
    <2>6. IsFiniteSet(Later(i, G))
      BY <1>2, FS_Subset DEF Later
    <2>7. /\ Cardinality(R \ {i}) <= Cardinality(Later(i, G))
          /\ Cardinality(R \ {i}) \in Nat /\ Cardinality(Later(i, G)) \in Nat
      BY <2>5, <2>6, FS_Subset, FS_CardinalityType
    <2>8. Cardinality(R) \in Nat /\ Cardinality(R \ {i}) = Cardinality(R) - 1
      BY <1>2, <2>3, FS_RemoveElement, FS_CardinalityType
    <2>9. ~(Cardinality(Later(i, G)) >= Keep[s])
      BY <1>1, <2>3
    <2> HIDE DEF R, G
    <2>10. QED
      BY <1>5, <2>7, <2>8, <2>9 DEF R, G
  <1>8. QED
    BY <1>6, <1>7

\* The runs of a schedule are finitely many.
LEMMA StatesFinite ==
    ASSUME IInv, NEW s, NEW state
    PROVE  IsFiniteSet(InState(s, state))
  <1>1. Len(runs) \in Int
    BY DEF IInv, TypeOK
  <1>2. IsFiniteSet(1..Len(runs))
    BY <1>1, FS_Interval
  <1>3. QED
    BY <1>2, FS_Subset DEF RunsOf, InState

\* A pass of retention that does not fail meets it, in every one of its kinds.
LEMMA RetentionMeets ==
    ASSUME IInv, FinishedInv, Listed, EnforceRetention, ~queued'
    PROVE  RetentionMet'
  <1>1. PICK failures \in [pass.listed -> SUBSET Runs] :
          /\ \A s \in pass.listed : failures[s] \in ExcessFailures(s)
          /\ LET all == UNION {ExpiredRuns(s, aged') \cup failures[s] : s \in pass.listed}
             IN  \E some \in SUBSET all :
                    /\ \/ (some = all /\ UNCHANGED <<queued, faults>>)
                       \/ (some # all /\ Fault /\ queued' = TRUE)
                    /\ backup' = [i \in Runs |-> IF i \in some THEN "Deleting" ELSE backup[i]]
                    /\ expired' = expired \cup some
    BY DEF EnforceRetention
  <1> DEFINE all == UNION {ExpiredRuns(s, aged') \cup failures[s] : s \in pass.listed}
  <1>2. backup' = [i \in Runs |-> IF i \in all THEN "Deleting" ELSE backup[i]]
    BY <1>1
  <1>3. UNCHANGED <<spec, runs, ended>> /\ aged' \in Nat
    <2>1. UNCHANGED <<spec, runs, ended>>
      BY DEF EnforceRetention, world, jobs
    <2>2. aged' \in 0..Len(ended)
      BY RetentionEffect DEF IInv
    <2>3. QED
      BY <2>1, <2>2
  <1> SUFFICES ASSUME NEW s \in Schedules, spec[s] # "removed"
               PROVE  /\ Keep[s] > 0 => Cardinality(InState(s, "Succeeded")') <= Keep[s]
                      /\ s \in Expiring => \A i \in InState(s, "Succeeded")' : Place(i)' > aged'
                      /\ Cardinality(InState(s, "Failed")') <= KeptFailedRuns
    BY <1>3 DEF RetentionMet
  <1> DEFINE left == (InState(s, "Succeeded") \cap finished) \ ExpiredRuns(s, aged')
  <1>4. s \in pass.listed
    BY DEF Listed
  <1>5. InState(s, "Succeeded")' \subseteq left
    <2> SUFFICES ASSUME NEW i \in 1..Len(runs), runs[i] = s, backup'[i] = "Succeeded"
                 PROVE  i \in left
      BY <1>3 DEF InState, RunsOf
    <2>1. i \in Runs
      BY BoundAssumption DEF IInv, TypeOK, Runs
    <2>2. i \notin all /\ backup[i] = "Succeeded"
      BY <1>2, <2>1
    <2>3. i \notin ExpiredRuns(s, aged')
      BY <1>4, <2>2
    <2>4. QED
      BY <2>1, <2>2, <2>3 DEF FinishedInv, InState, RunsOf
  <1>6. ASSUME Keep[s] > 0
        PROVE  Cardinality(InState(s, "Succeeded")') <= Keep[s]
    <2>1. IsFiniteSet(left)
      BY StatesFinite, FS_Subset
    <2>2. Cardinality(left) <= Keep[s]
      BY <1>6, WithinCount
    <2> HIDE DEF left
    <2>3. /\ Cardinality(InState(s, "Succeeded")') <= Cardinality(left)
          /\ Cardinality(InState(s, "Succeeded")') \in Nat /\ Cardinality(left) \in Nat
      BY <1>5, <2>1, FS_Subset, FS_CardinalityType
    <2>4. QED
      BY <2>2, <2>3, ScheduleAssumption
  <1>7. ASSUME s \in Expiring, NEW i \in InState(s, "Succeeded")'
        PROVE  Place(i)' > aged'
    <2>1. i \in left
      BY <1>5, <1>7
    <2>2. ~(Place(i) <= aged')
      BY <1>7, <2>1 DEF ExpiredRuns
    <2>3. i \in Runs /\ backup[i] = "Succeeded"
      BY <2>1, BoundAssumption DEF InState, RunsOf, IInv, TypeOK, Runs
    <2>4. Place(i) \in Nat
      BY <2>3, PlaceOfSuccess
    <2>5. Place(i)' = Place(i)
      BY <1>3 DEF Place
    <2>6. QED
      BY <1>3, <2>2, <2>4, <2>5
  <1>8. Cardinality(InState(s, "Failed")') <= KeptFailedRuns
    <2> DEFINE failed == InState(s, "Failed")
               kept == failed \ failures[s]
    <2>1. InState(s, "Failed")' \subseteq kept
      <3> SUFFICES ASSUME NEW i \in 1..Len(runs), runs[i] = s, backup'[i] = "Failed"
                   PROVE  i \in kept
        BY <1>3 DEF InState, RunsOf
      <3>1. i \in Runs
        BY BoundAssumption DEF IInv, TypeOK, Runs
      <3>2. i \notin all /\ backup[i] = "Failed"
        BY <1>2, <3>1
      <3>3. QED
        BY <1>4, <3>2 DEF InState, RunsOf
    <2>2. IsFiniteSet(failed) /\ IsFiniteSet(kept)
      BY StatesFinite, FS_Subset
    <2>3. /\ failures[s] \in ExcessFailures(s)
          /\ Cardinality(failed) \in Nat /\ KeptFailedRuns \in Nat
      BY <1>1, <1>4, <2>2, FS_CardinalityType, BoundAssumption
    <2>4. Cardinality(kept) = IF Cardinality(failed) > KeptFailedRuns
                                THEN KeptFailedRuns ELSE Cardinality(failed)
      BY <2>3 DEF ExcessFailures
    <2> HIDE DEF kept, failed
    <2>5. Cardinality(InState(s, "Failed")') <= Cardinality(kept)
          /\ Cardinality(InState(s, "Failed")') \in Nat
      BY <2>1, <2>2, FS_Subset, FS_CardinalityType
    <2>6. QED
      BY <2>3, <2>4, <2>5
  <1>9. QED
    BY <1>6, <1>7, <1>8

\* A Backup becomes Succeeded with its completion time, and keeps both.
LEMMA FinishedStep == IInv /\ FinishedInv /\ [Next]_vars => FinishedInv'
  <1> SUFFICES ASSUME IInv, FinishedInv, [Next]_vars,
                      NEW i \in Runs, backup'[i] = "Succeeded"
               PROVE  i \in finished'
    BY DEF FinishedInv
  <1> USE DEF IInv, TypeOK, FinishedInv
  <1>1. ASSUME NEW k \in Runs, SyncBackup(k)
        PROVE  i \in finished'
    BY <1>1 DEF SyncBackup, OutcomeWithoutJob
  <1>2. ASSUME NEW k \in Runs, CleanupBackup(k)
        PROVE  i \in finished'
    <2>1. i # k
      BY <1>2 DEF CleanupBackup
    <2>2. QED
      BY <1>2, <2>1 DEF CleanupBackup
  <1>3. ASSUME NEW k \in Runs, Mirror(k)
        PROVE  i \in finished'
    BY <1>3 DEF Mirror
  <1>4. CASE EnforceRetention
    BY <1>4, RetentionEffect
  <1>5. CASE UNCHANGED <<backup, finished>>
    BY <1>5
  <1>6. QED
    BY <1>1, <1>2, <1>3, <1>4, <1>5
    DEF Next, InstancePass, BeginPass, ApplySchedule, PruneSchedules, AbortPass, StartRun,
        EndRun, RemoveJob, CacheCronJob, EditSpec, RestoreBegins, RestoreEnds, HealthChanges,
        mirrors, jobs, vars

\* The CronJobs are asked for what they are as long as nothing changes.
LEMMA MatchSame ==
    ASSUME UNCHANGED <<spec, broken, restoring, cron, overlooked>>
    PROVE  (CronJobsMatch <=> CronJobsMatch') /\ (NoneBroken <=> NoneBroken')
  BY DEF CronJobsMatch, NoneBroken

\* Applying a schedule makes its CronJob what is asked for; only one that cannot be
\* applied ends the pass.
LEMMA ApplyFollows ==
    ASSUME TypeOK, FollowInv, ApplySchedule
    PROVE  FollowInv'
  <1> DEFINE s == CHOOSE t \in pass.todo : \A u \in pass.todo : t <= u
             rest == [pass EXCEPT !.todo = @ \ {s}]
  <1>1. /\ pass.at = "apply" /\ pass.todo # {}
        /\ UNCHANGED <<queued, healthy, restoring, spec, broken>>
        /\ \/ pass.wait /\ pass' = rest /\ UNCHANGED cron
           \/ ~pass.wait /\ s \in broken /\ pass' = Idle /\ UNCHANGED cron
           \/ /\ ~pass.wait /\ s \notin broken
              /\ cron' = [cron EXCEPT ![s] = IF pass.suspend THEN "suspended" ELSE "active"]
              /\ pass' = rest
    BY DEF ApplySchedule, world
  <1>2. s \in pass.todo
    BY <1>1, NextIsLeft
  <1>3. pass.todo \subseteq Schedules /\ pass.wait \in BOOLEAN /\ healthy \in BOOLEAN
    BY DEF TypeOK, Passes
  <1>4. /\ rest.at = "apply" /\ rest.todo = pass.todo \ {s} /\ rest.desired = pass.desired
        /\ rest.listed = pass.listed /\ rest.suspend = pass.suspend /\ rest.wait = pass.wait
    BY <1>1 DEF TypeOK, Passes
  <1> HIDE DEF s, rest
  <1>5. SUFFICES ASSUME ~queued'
                 PROVE  FollowInv'
    BY DEF FollowInv
  <1>6. Snapshot /\ (healthy => \A t \in pass.desired \ pass.todo :
                                   cron[t] = IF restoring THEN "suspended" ELSE "active")
    BY <1>1, <1>5 DEF FollowInv
  <1>7. CASE pass.wait /\ pass' = rest /\ UNCHANGED cron
    <2>1. Snapshot'
      BY <1>1, <1>4, <1>6, <1>7 DEF Snapshot, Listed
    <2>2. ~healthy'
      BY <1>1, <1>6, <1>7 DEF Snapshot, Listed
    <2>3. pass'.at = "apply"
      BY <1>4, <1>7
    <2>4. QED
      BY <2>1, <2>2, <2>3 DEF FollowInv
  <1>8. CASE ~pass.wait /\ s \in broken /\ pass' = Idle /\ UNCHANGED cron
    <2>1. ~NoneBroken'
      BY <1>1, <1>2, <1>6, <1>8 DEF NoneBroken, Snapshot
    <2>2. pass'.at = "idle"
      BY <1>8 DEF Idle
    <2>3. QED
      BY <2>1, <2>2 DEF FollowInv
  <1>9. CASE /\ ~pass.wait /\ s \notin broken
             /\ cron' = [cron EXCEPT ![s] = IF pass.suspend THEN "suspended" ELSE "active"]
             /\ pass' = rest
    <2>1. Snapshot'
      BY <1>1, <1>4, <1>6, <1>9 DEF Snapshot, Listed
    <2>2. healthy
      BY <1>3, <1>6, <1>9 DEF Snapshot, Listed
    <2>3. ASSUME NEW t \in pass'.desired \ pass'.todo
          PROVE  cron'[t] = IF restoring' THEN "suspended" ELSE "active"
      <3>1. t \in Schedules /\ s \in Schedules
        BY <1>2, <1>3, <1>4, <1>6, <1>9 DEF Snapshot, Listed
      <3>2. cron \in [Schedules -> {"none", "active", "suspended"}]
        BY DEF TypeOK
      <3>3. CASE t = s
        BY <1>1, <1>6, <1>9, <3>1, <3>2, <3>3 DEF Snapshot, Listed
      <3>4. CASE t # s
        <4>1. t \in pass.desired \ pass.todo
          BY <1>4, <1>9, <3>4
        <4>2. cron'[t] = cron[t]
          BY <1>9, <3>1, <3>2, <3>4
        <4>3. QED
          BY <1>1, <1>6, <2>2, <4>1, <4>2
      <3>5. QED
        BY <3>3, <3>4
    <2>4. pass'.at = "apply"
      BY <1>4, <1>9
    <2>5. QED
      BY <2>1, <2>3, <2>4 DEF FollowInv
  <1>10. QED
    BY <1>1, <1>7, <1>8, <1>9

\* Without the CronJobs of other schedules, all are what is asked for.
LEMMA PruneFollows ==
    ASSUME TypeOK, FollowInv, PruneSchedules
    PROVE  FollowInv'
  <1>1. SUFFICES ASSUME ~queued'
                 PROVE  FollowInv'
    BY DEF FollowInv
  <1>2. /\ pass.at = "apply" /\ pass.todo = {}
        /\ pass' = [Idle EXCEPT !.at = "retain", !.listed = pass.listed]
        /\ UNCHANGED <<queued, healthy, restoring, spec, broken>>
        /\ \A s \in Schedules \ pass.desired : cron'[s] = "none" \/ s \in overlooked'
        /\ \A s \in pass.desired : cron'[s] = cron[s]
    BY <1>1, PruneEffect DEF world
  <1>3. pass'.at = "retain" /\ pass'.listed = pass.listed
    BY <1>2 DEF Idle
  <1>4. Snapshot /\ (healthy => \A t \in pass.desired \ pass.todo :
                                   cron[t] = IF restoring THEN "suspended" ELSE "active")
    BY <1>1, <1>2 DEF FollowInv
  <1>5. Listed'
    BY <1>2, <1>3, <1>4 DEF Snapshot, Listed
  <1>6. ASSUME healthy
        PROVE  CronJobsMatch'
    <2> SUFFICES ASSUME NEW t \in Schedules
                 PROVE  IF spec[t] = "enabled"
                        THEN cron'[t] = IF restoring THEN "suspended" ELSE "active"
                        ELSE cron'[t] = "none" \/ t \in overlooked'
      BY <1>2 DEF CronJobsMatch
    <2>1. CASE t \in pass.desired
      BY <1>2, <1>4, <1>6, <2>1 DEF Snapshot
    <2>2. CASE t \notin pass.desired
      BY <1>2, <1>4, <2>2 DEF Snapshot
    <2>3. QED
      BY <2>1, <2>2
  <1>7. QED
    BY <1>2, <1>3, <1>5, <1>6 DEF FollowInv

\* A pass sees to everything it has read, or is queued again (FollowInv).
LEMMA FollowStep == IInv /\ FinishedInv /\ FollowInv /\ [Next]_vars => FollowInv'
  <1> SUFFICES ASSUME IInv, FinishedInv, FollowInv, [Next]_vars, ~queued'
               PROVE  FollowInv'
    BY DEF FollowInv
  <1>1. TypeOK
    BY DEF IInv
  <1>2. CASE BeginPass
    <2>1. Snapshot' /\ pass'.at = "apply" /\ pass'.todo = pass'.desired
      BY <1>2 DEF BeginPass, Snapshot, Listed, world
    <2>2. QED
      BY <2>1 DEF FollowInv
  <1>3. CASE ApplySchedule
    BY <1>1, <1>3, ApplyFollows
  <1>4. CASE PruneSchedules
    BY <1>1, <1>4, PruneFollows
  <1>5. CASE EnforceRetention
    <2>1. /\ pass.at = "retain" /\ pass'.at = "idle"
          /\ UNCHANGED <<cron, overlooked, spec, broken, restoring, healthy>>
      BY <1>5 DEF EnforceRetention, Idle, crons, world
    <2>2. ~queued
      BY <1>5 DEF EnforceRetention
    <2>3. Listed /\ (healthy => CronJobsMatch)
      BY <2>1, <2>2 DEF FollowInv
    <2>4. RetentionMet'
      BY <1>5, <2>3, RetentionMeets
    <2>5. healthy' => CronJobsMatch'
      BY <2>1, <2>3, MatchSame
    <2>6. QED
      BY <2>1, <2>4, <2>5 DEF FollowInv
  <1>6. CASE \/ \E s \in Schedules : StartRun(s)
             \/ \E i \in Runs : EndRun(i) \/ RemoveJob(i)
             \/ \E s \in Schedules : CacheCronJob(s)
             \/ UNCHANGED vars
    <2>1. UNCHANGED <<queued, pass, cron, overlooked, spec, broken, restoring, healthy, backup, aged>>
      BY <1>6 DEF StartRun, EndRun, RemoveJob, CacheCronJob, vars, crons, mirrors, world
    <2>2. /\ UNCHANGED runs \/ \E t \in Schedules : StartRun(t)
          /\ UNCHANGED ended \/ \E i \in Runs : EndRun(i)
      BY <1>6 DEF StartRun, EndRun, RemoveJob, CacheCronJob, vars, jobs
    <2>3. \A s \in Schedules : /\ InState(s, "Succeeded")' = InState(s, "Succeeded")
                               /\ InState(s, "Failed")' = InState(s, "Failed")
      BY <2>1, <2>2, StatesSame
    <2>4. \A s \in Schedules : \A i \in InState(s, "Succeeded") : Place(i)' = Place(i)
      <3> SUFFICES ASSUME NEW s \in Schedules, NEW i \in InState(s, "Succeeded")
                   PROVE  Place(i)' = Place(i)
        OBVIOUS
      <3>1. i \in Runs /\ backup[i] = "Succeeded"
        BY BoundAssumption DEF InState, RunsOf, IInv, TypeOK, Runs
      <3>2. QED
        BY <2>2, <3>1, PlaceSame
    <2>5. RetentionMet => RetentionMet'
      BY <2>1, <2>3, <2>4 DEF RetentionMet
    <2>6. (Snapshot => Snapshot') /\ (Listed => Listed')
      BY <2>1 DEF Snapshot, Listed
    <2>7. QED
      BY <2>1, <2>5, <2>6, MatchSame DEF FollowInv
  <1>7. ~(AbortPass \/ EditSpec \/ RestoreBegins \/ RestoreEnds \/ HealthChanges)
    BY DEF AbortPass, EditSpec, RestoreBegins, RestoreEnds, HealthChanges, EnqueueRestoreInstance
  <1>8. ~\E i \in Runs : Mirror(i) \/ SyncBackup(i) \/ CleanupBackup(i)
    BY DEF Mirror, SyncBackup, CleanupBackup, EnqueueScheduledBackupInstance
  <1>9. QED
    BY <1>2, <1>3, <1>4, <1>5, <1>6, <1>7, <1>8 DEF Next, InstancePass

\* When nothing queues the instance any more, the CronJobs are what the spec and
\* the restores ask for, unless Milvus is not healthy, but for those that the cache
\* did not show to the last pass, and retention of every kind is met: no edit,
\* restore, health change or run goes unnoticed, whichever step of a pass it meets
\* (CronJobsFollow and RetentionSettles say that it comes to this).
THEOREM QuietMeansRight == Spec => []RestingIsRight
  <1>1. Init => FinishedInv /\ FollowInv
    BY DEF Init, FinishedInv, FollowInv
  <1>2. FollowInv => RestingIsRight
    BY DEF FollowInv, RestingIsRight
  <1>3. QED
    BY InvariantHolds, <1>1, FinishedStep, FollowStep, <1>2, PTL DEF Spec
=============================================================================
