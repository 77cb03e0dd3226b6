---------------------------- MODULE MCBackupJobs ----------------------------
(* Small instances of BackupJobs: two Backups that wait for each other, one  *)
(* of them the source of the Restore.                                      *)
EXTENDS BackupJobs

CONSTANTS b1, b2, r1

AllFromB1 == [r \in Restores |-> b1]
=============================================================================
