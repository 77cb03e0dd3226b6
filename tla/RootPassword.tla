---------------------------- MODULE RootPassword ----------------------------
(***************************************************************************)
(* The <instance>-credentials Secret and the rotation of the Milvus root   *)
(* password (credentials.go, rootpassword.go, the parts of Sync and Status *)
(* in provider.go that use them).                                          *)
(*                                                                         *)
(* One worker runs the passes of an instance one after the other; a pass   *)
(* reads the Secret once, from the informer cache, and works on that copy  *)
(* until it ends: every call to the API server or to Milvus is a step of   *)
(* its own, so edits, watch events and crashes fall between any two.       *)
(***************************************************************************)
EXTENDS Naturals

CONSTANTS Passwords,    \* the passwords a user or the generator can pick
          NoPassword,   \* an absent or empty key
          MaxFaults     \* bound on crashes, failed calls and health drops

ASSUME PasswordAssumption == NoPassword \notin Passwords
ASSUME FaultAssumption == MaxFaults \in Nat

VARIABLES secret,     \* the credentials Secret at the API server
          cache,      \* the provider's cached copy of it
          unseen,     \* watch events of the Secret not delivered yet
          root,       \* the password Milvus accepts, none before root exists
          env,        \* the seed password captured by the running pod
          healthy,    \* the Milvus CR reports Healthy
          published,  \* the password in the connection Secret
          pc,         \* where the current pass is
          creds,      \* the credentials that pass read
          queued,     \* the instance is in the work queue
          faults      \* faults so far

vars == <<secret, cache, unseen, root, env, healthy, published, pc, creds, queued, faults>>
provider == <<pc, creds, queued>>
milvus == <<root, env, healthy>>

MaybePassword == Passwords \cup {NoPassword}
Credentials == [password : MaybePassword, applied : MaybePassword]
\* An absent Secret reads like one without keys.
Absent == [password |-> NoPassword, applied |-> NoPassword]
Both(p) == [password |-> p, applied |-> p]

Passes == {"idle", "seed", "sync", "auth", "record", "status", "reseed"}

TypeOK == /\ secret \in Credentials
          /\ cache \in Credentials
          /\ unseen \in BOOLEAN
          /\ root \in MaybePassword
          /\ env \in MaybePassword
          /\ healthy \in BOOLEAN
          /\ published \in MaybePassword
          /\ pc \in Passes
          /\ creds \in Credentials
          /\ queued \in BOOLEAN
          /\ faults \in 0..MaxFaults
          /\ pc # "idle" => NoPassword \notin {creds.password, creds.applied}

\* A new instance, with or without a Secret made beforehand, or one whose
\* Secret predates rotation and holds only the seeded password.
Init == /\ secret \in {Absent} \cup [password : Passwords, applied : {NoPassword}]
        /\ cache = secret
        /\ unseen = FALSE
        /\ root \in {NoPassword, secret.password}
        /\ env = root
        /\ healthy = FALSE
        /\ published = root
        /\ pc = "idle"
        /\ creds = Absent
        /\ queued = TRUE
        /\ faults = 0

Fault == faults < MaxFaults /\ faults' = faults + 1
-----------------------------------------------------------------------------
\* rotationPending
RotationPending(c) == c.password # c.applied

\* ensureCredentials: a Secret with both keys is used as it is ...
Complete(s) == s.password # NoPassword /\ s.applied # NoPassword
\* (Variants with a bug, for mutation runs, carry the name of the operator they
\* vary and a suffix: here the applied key is forgotten, or generated anew.)
Seeds_Unapplied(s) == {[password |-> p, applied |-> NoPassword] : p \in Passwords}
Seeds_Anew(s) == {Both(p) : p \in Passwords}
\* ... one without appliedPassword records its password as applied, one
\* without a password gets a generated one.
Seeds(s) == IF s.password # NoPassword THEN {Both(s.password)}
                                       ELSE {Both(p) : p \in Passwords}

\* A write that changes the Secret makes a watch event.
Write(s) == secret' = s /\ unseen' = (unseen \/ s # secret)
store == <<secret, cache, unseen>>

EndPass == pc' = "idle" /\ creds' = Absent

\* ensureCredentials at the start of Sync.
SyncReads ==
    /\ pc = "idle" /\ queued
    /\ queued' = FALSE
    /\ \/ Complete(cache) /\ creds' = cache /\ pc' = "sync"
       \/ ~Complete(cache) /\ creds' \in Seeds(cache) /\ pc' = "seed"
    /\ UNCHANGED <<store, milvus, published, faults>>

\* applyCredentialsSecret on behalf of that call.
SyncSeeds ==
    /\ pc = "seed"
    /\ Write(creds)
    /\ pc' = "sync"
    /\ UNCHANGED <<cache, milvus, published, creds, queued, faults>>

\* Bug: the Secret is written back though there was nothing to rotate.
SkipRotation_Records ==
    /\ pc = "sync"
    /\ ~RotationPending(creds) \/ ~healthy
    /\ IF RotationPending(creds) THEN UNCHANGED store ELSE Write(creds) /\ UNCHANGED cache
    /\ pc' = "status"
    /\ UNCHANGED <<milvus, published, creds, queued, faults>>

\* syncRootPassword with nothing to rotate, or with Milvus not healthy.
SkipRotation ==
    /\ pc = "sync"
    /\ ~RotationPending(creds) \/ ~healthy
    /\ pc' = "status"
    /\ UNCHANGED <<store, milvus, published, creds, queued, faults>>

\* UpdatePassword: Milvus checks the applied password, then takes the new one.
\* The call can be refused, fail before Milvus acts, or lose its reply.
UpdatePassword ==
    /\ pc = "sync" /\ RotationPending(creds) /\ healthy
    /\ \/ /\ creds.applied = root
          /\ root' = creds.password /\ pc' = "record" /\ UNCHANGED faults
       \/ creds.applied # root /\ pc' = "auth" /\ UNCHANGED <<root, faults>>
       \/ Fault /\ pc' = "auth" /\ UNCHANGED root
       \/ /\ creds.applied = root
          /\ Fault /\ root' = creds.password /\ pc' = "auth"
    /\ UNCHANGED <<store, env, healthy, published, creds, queued>>

\* Bugs: the check after a failed update is skipped; it is missing.
Authenticate_Skipped ==
    /\ pc = "auth"
    /\ pc' = "record" /\ UNCHANGED <<creds, queued>>
    /\ UNCHANGED <<store, milvus, published, faults>>

Authenticate_Missing ==
    /\ pc = "auth"
    /\ EndPass /\ queued' = TRUE
    /\ UNCHANGED <<store, milvus, published, faults>>

\* Authenticate: after a failed update, does the new password already work?
\* A refusal is an error of the pass, which is queued again.
Authenticate ==
    /\ pc = "auth"
    /\ \/ root = creds.password /\ pc' = "record" /\ UNCHANGED <<creds, queued>>
       \/ root # creds.password /\ EndPass /\ queued' = TRUE
    /\ UNCHANGED <<store, milvus, published, faults>>

\* Bug: the Secret is read again and its password taken for the applied one.
RecordApplied_Reread ==
    /\ pc = "record"
    /\ Write([secret EXCEPT !.applied = secret.password])
    /\ pc' = "status"
    /\ UNCHANGED <<cache, milvus, published, creds, queued, faults>>

\* The new password is recorded by writing back the whole Secret that was read.
RecordApplied ==
    /\ pc = "record"
    /\ Write([creds EXCEPT !.applied = creds.password])
    /\ pc' = "status"
    /\ UNCHANGED <<cache, milvus, published, creds, queued, faults>>

\* Bug: the wanted password is published.
StatusPublishes_Wanted ==
    /\ pc = "status"
    /\ \/ ~healthy /\ EndPass /\ UNCHANGED published
       \/ healthy /\ Complete(cache) /\ published' = cache.password /\ EndPass
    /\ UNCHANGED <<store, milvus, queued, faults>>

\* Status publishes the applied password of a healthy instance; it calls
\* ensureCredentials again, which may have to write.
StatusPublishes ==
    /\ pc = "status"
    /\ \/ ~healthy /\ EndPass /\ UNCHANGED published
       \/ healthy /\ Complete(cache) /\ published' = cache.applied /\ EndPass
       \/ /\ healthy /\ ~Complete(cache)
          /\ creds' \in Seeds(cache) /\ pc' = "reseed" /\ UNCHANGED published
    /\ UNCHANGED <<store, milvus, queued, faults>>

StatusReseeds ==
    /\ pc = "reseed"
    /\ Write(creds)
    /\ published' = creds.applied
    /\ EndPass
    /\ UNCHANGED <<cache, milvus, queued, faults>>

\* A pass ends early: an error returned by any call in it, a Status that finds
\* the instance not ready, or a crash. It runs again later, from the start.
Abort ==
    /\ pc # "idle"
    /\ Fault
    /\ EndPass
    /\ queued' = TRUE
    /\ UNCHANGED <<store, milvus, published>>

Provider == \/ SyncReads \/ SyncSeeds \/ SkipRotation \/ UpdatePassword
            \/ Authenticate \/ RecordApplied \/ StatusPublishes \/ StatusReseeds
-----------------------------------------------------------------------------
\* Bugs: the instance is not queued; it is for a change of the password only.
WatchDelivers_Unqueued ==
    /\ unseen
    /\ cache' = secret
    /\ unseen' = FALSE
    /\ UNCHANGED <<secret, milvus, published, provider, faults>>

WatchDelivers_PasswordOnly ==
    /\ unseen
    /\ cache' = secret
    /\ unseen' = FALSE
    /\ queued' = (queued \/ secret.password # cache.password)
    /\ UNCHANGED <<secret, milvus, published, pc, creds, faults>>

\* The watch on credentials Secrets: the cache catches up, the instance is queued.
WatchDelivers ==
    /\ unseen
    /\ cache' = secret
    /\ unseen' = FALSE
    /\ queued' = TRUE
    /\ UNCHANGED <<secret, milvus, published, pc, creds, faults>>

\* A container captures MILVUSROOTPASSWORD when it starts; it cannot start
\* without the key, and the value no longer matters once root exists.
CaptureSeed ==
    /\ root = NoPassword
    /\ secret.password \notin {NoPassword, env}
    /\ env' = secret.password
    /\ UNCHANGED <<store, root, healthy, published, provider, faults>>

\* A pod takes longer to start than the seeding write and its watch event.
PodStarts == cache = secret /\ pc # "seed" /\ CaptureSeed

\* Milvus creates root with the captured password, once.
RootCreated ==
    /\ root = NoPassword /\ env # NoPassword
    /\ root' = env
    /\ UNCHANGED <<store, env, healthy, published, provider, faults>>

\* A status change of the Milvus CR queues the instance.
TurnsHealthy ==
    /\ root # NoPassword /\ ~healthy
    /\ healthy' = TRUE
    /\ queued' = TRUE
    /\ UNCHANGED <<store, root, env, published, pc, creds, faults>>

TurnsUnhealthy ==
    /\ healthy
    /\ Fault
    /\ healthy' = FALSE
    /\ queued' = TRUE
    /\ UNCHANGED <<store, root, env, published, pc, creds>>

Milvus == PodStarts \/ RootCreated \/ TurnsHealthy

\* The user waits until the connection Secret shows the previous password (the
\* watch event and the write of a pass that seeds are over by then).
Settled == /\ secret = Both(published)
           /\ cache = secret
           /\ pc \notin {"seed", "reseed"}

\* kubectl patch of the password key.
EditPassword ==
    /\ \E p \in Passwords : p # secret.password /\ Write([secret EXCEPT !.password = p])
    /\ UNCHANGED <<cache, milvus, published, provider, faults>>

UserRotates == published # NoPassword /\ Settled /\ EditPassword

Next == Provider \/ Abort \/ WatchDelivers \/ Milvus \/ TurnsUnhealthy \/ UserRotates

Spec == Init /\ [][Next]_vars

\* Watches deliver, queued passes run, Milvus starts: none of them stops for ever.
Fairness == WF_vars(Provider) /\ WF_vars(WatchDelivers) /\ WF_vars(Milvus)

FairSpec == Spec /\ Fairness
-----------------------------------------------------------------------------
\* A password that root has, that the Secret no longer holds and that no pass
\* remembers is lost: nobody can ever authenticate a rotation again.
LockedOut == root \notin {NoPassword, secret.password, secret.applied}

\* The provider never loses the password Milvus accepts, whatever call fails
\* and wherever a pass is cut off (syncRootPassword, ensureCredentials).
NeverLockedOut == ~LockedOut

\* What clients read works, except between the moment Milvus takes the wanted
\* password and the moment Status publishes it (Status, provider.go).
PublishedWorks == published \notin {NoPassword, root} => root = secret.password

\* appliedPassword moves only to a password that Milvus accepts at that moment
\* (syncRootPassword records after UpdatePassword or Authenticate succeeded).
RecordsOnlyAccepted ==
    [][secret'.applied # secret.applied => root = NoPassword \/ secret'.applied = root]_vars

\* Once root exists, every password the user asks for is eventually accepted
\* and published (Sync, Status and the watches that queue them).
RotationLands == \A p \in Passwords :
    root # NoPassword /\ secret.password = p ~> root = p /\ published = p

-----------------------------------------------------------------------------
\* The inductive invariant. A Secret is pending when a rotation is under way.
Pending(s) == Complete(s) /\ RotationPending(s)

\* Before root exists there is nothing to rotate, and a captured seed is final.
BeforeRoot == root = NoPassword =>
    /\ ~healthy /\ published = NoPassword
    /\ secret.applied \in {NoPassword, secret.password}
    /\ cache.applied \in {NoPassword, cache.password}
    /\ pc \in {"idle", "seed", "sync", "status"}
    /\ ~RotationPending(creds)
    /\ env # NoPassword =>
          /\ secret.password = env /\ cache.password = env
          /\ pc = "seed" => creds.password = env
          /\ secret.applied = NoPassword => cache = secret

\* Afterwards both hold a password, and the cache is at most one write behind.
CacheLag == root # NoPassword =>
    /\ NoPassword \notin {secret.password, cache.password}
    /\ \/ cache = secret
       \/ secret = Both(root) /\ cache.password = root
       \/ cache = Both(root) /\ secret.applied = root

\* While a rotation is under way clients keep the password it replaces.
ClientsWait == \A s \in {secret, cache} : Pending(s) => published = s.applied

\* A pass that writes the Secret without rotating only adds the applied key.
SeedingInv == pc \in {"seed", "reseed"} /\ root # NoPassword =>
    /\ creds = Both(root)
    /\ secret.password = root /\ secret.applied \in {NoPassword, root}
    /\ cache.password = root /\ cache.applied \in {NoPassword, root}

\* A pass that rotates works on the current edit, or repeats one that landed.
RotatingInv ==
    /\ pc \in {"auth", "record"} => RotationPending(creds)
    /\ pc \in {"sync", "auth", "record"} /\ RotationPending(creds) =>
          /\ creds.password = secret.password /\ cache.password = secret.password
          /\ published = creds.applied
          /\ secret = creds \/ (secret = Both(root) /\ creds.password = root)
    /\ pc = "record" => root = creds.password

IInv == /\ TypeOK
        /\ NeverLockedOut
        /\ BeforeRoot
        /\ CacheLag
        /\ ClientsWait
        /\ SeedingInv
        /\ RotatingInv
-----------------------------------------------------------------------------
Contract == INSTANCE RootPasswordContract
              WITH wanted <- secret.password, accepted <- root
\* The rotation implements its contract.
ImplementsContract == Contract!FairSpec
=============================================================================
