-------------------------- MODULE MCBackupSchedules --------------------------
(* Small instances of BackupSchedules: schedules that keep one run each, and *)
(* one that keeps its newest run beside one that keeps runs for a time.      *)
EXTENDS BackupSchedules

KeepOne == [s \in Schedules |-> 1]
CountAndTime == [s \in Schedules |-> IF s = 1 THEN 1 ELSE 0]
=============================================================================
