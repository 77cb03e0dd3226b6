--------------------------- MODULE BackupContract ---------------------------
(***************************************************************************)
(* What a Backup promises, on demand or scheduled: it is Succeeded only    *)
(* with its data complete, and from then on neither its state nor its data *)
(* changes until somebody deletes it; a deletion is never called off.      *)
(***************************************************************************)
CONSTANT Backups

VARIABLES state,   \* what kubectl shows of each Backup
          data     \* what each has in the bucket

vars == <<state, data>>

Init == /\ state = [b \in Backups |-> "absent"]
        /\ data = [b \in Backups |-> "none"]

\* A user creates it; a run of a schedule is under way, or over, by then.
Appear(b) == /\ state[b] = "absent"
             /\ state'[b] \in {"Pending", "Running"}
             /\ data'[b] = data[b]

\* A failure may be tried again, a success is final.
Report(b) == /\ state[b] \in {"Pending", "Running", "Failed"}
             /\ state'[b] \in {"Pending", "Running", "Failed", "Succeeded"}
             /\ state'[b] = "Succeeded" => data[b] = "full"
             /\ data'[b] = data[b]

\* The pods write and delete, for a Backup that is gone too.
Write(b) == /\ state[b] # "Succeeded"
            /\ state'[b] = state[b]
            /\ data'[b] \in {"none", "partial", "full"}

Delete(b) == /\ state[b] \notin {"absent", "Deleting"}
             /\ state'[b] = "Deleting"
             /\ data'[b] = data[b]

Remove(b) == /\ state[b] = "Deleting"
             /\ state'[b] = "absent"
             /\ data'[b] \in {data[b], "none"}

Step(b) == \/ Appear(b) \/ Report(b) \/ Write(b) \/ Delete(b) \/ Remove(b)
           \/ state'[b] = state[b] /\ data'[b] = data[b]

\* One pass of retention may delete several.
Next == \A b \in Backups : Step(b)

Spec == Init /\ [][Next]_vars
-----------------------------------------------------------------------------
\* A Backup reported Succeeded has all its data in the bucket.
SucceededHasData == \A b \in Backups : state[b] = "Succeeded" => data[b] = "full"

\* What is Succeeded stays so, with its data, until somebody deletes it.
SuccessIsFinal ==
    [][\A b \in Backups : state[b] = "Succeeded" =>
         /\ state'[b] \in {"Succeeded", "Deleting"}
         /\ data'[b] = "full"]_vars
=============================================================================
