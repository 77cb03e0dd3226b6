------------------------- MODULE RootPasswordRaces -------------------------
(***************************************************************************)
(* The provider of RootPassword beside people who do not wait for it: the  *)
(* password key of a running instance is edited at any moment.             *)
(***************************************************************************)
EXTENDS RootPassword

CONSTANT MaxEdits  \* bound on edits of the Secret

ASSUME EditAssumption == MaxEdits \in Nat

VARIABLES edits,    \* edits so far
          asked,    \* history: the password of the last edit
          risky     \* history: that edit fell into a rotation the provider knew of

varsR == <<vars, edits, asked, risky>>
user == <<edits, asked, risky>>

\* An instance that runs, healthy, with its password seeded and published.
RunningInit == /\ secret \in {Both(p) : p \in Passwords}
               /\ cache = secret
               /\ unseen = FALSE
               /\ root = secret.password
               /\ env = root
               /\ healthy = TRUE
               /\ published = root
               /\ pc = "idle"
               /\ creds = Absent
               /\ queued = FALSE
               /\ faults = 0
               /\ edits = 0
               /\ asked = root
               /\ risky = FALSE

\* The passes in which syncRootPassword may still write the copy it was given.
Rotating == pc \in {"sync", "auth", "record"}

\* The provider knows of a rotation: the copy in its cache, or the one its pass
\* works on, holds a password that is not applied.
RotationKnown == RotationPending(cache) \/ (Rotating /\ RotationPending(creds))

\* kubectl patch of the password key at any moment.
UserEdits == /\ edits < MaxEdits
             /\ edits' = edits + 1
             /\ EditPassword
             /\ asked' = secret'.password
             /\ risky' = RotationKnown

Component == Provider \/ Abort \/ WatchDelivers \/ TurnsHealthy \/ TurnsUnhealthy

NextR == (Component /\ UNCHANGED user) \/ UserEdits

RunningSpec == RunningInit /\ [][NextR]_varsR

FairnessR == WF_varsR(Provider /\ UNCHANGED user)
          /\ WF_varsR(WatchDelivers /\ UNCHANGED user)
          /\ WF_varsR(TurnsHealthy /\ UNCHANGED user)

FairRunningSpec == RunningSpec /\ FairnessR
-----------------------------------------------------------------------------
\* With no call failing and no pass cut off, edits alone, however fast, never
\* lose the password Milvus accepts: it is the applied one, or the one the pass
\* at hand is about to record (syncRootPassword).
AppliedWorks == root = secret.applied \/ (pc = "record" /\ root = creds.password)

\* An edit stays: no pass, however old the copy of the Secret it holds or reads,
\* writes over the password the user asked for last.  The exception is an edit
\* that falls into a rotation the provider knows of: syncRootPassword then ends
\* that one by writing back the Secret as it was read (rootpassword.go:79), and
\* the edit is gone.
EditsKept == ~risky => secret.password = asked

\* README: "Change its `password` key and the provider updates the root user in
\* Milvus once the instance is healthy."
EditIsApplied == \A p \in Passwords :
    <>[](secret.password = p) => <>(root = p)

\* Whatever was edited, once edits stop clients end up with the password Milvus
\* accepts (credentialsSecretChanged, and Status publishing what is applied).
PublishedSettles == <>[](published = root)
=============================================================================
