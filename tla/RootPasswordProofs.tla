------------------------- MODULE RootPasswordProofs -------------------------
(***************************************************************************)
(* Proofs about RootPassword, for every set of passwords and every bound   *)
(* on faults: the inductive invariant, the safety properties that follow   *)
(* from it, that every step is a step of RootPasswordContract, and that an *)
(* instance at rest has landed; and of RootPasswordRaces, that no edit made *)
(* outside a rotation is written over, and that edits alone lose no access. *)
(***************************************************************************)
EXTENDS RootPasswordRaces, TLAPS

\* The initial states satisfy the inductive invariant.
LEMMA InitInvariant == Init => IInv
  <1> SUFFICES ASSUME Init
               PROVE  IInv
    OBVIOUS
  <1> USE PasswordAssumption, FaultAssumption DEF Init, Absent
  <1>1. /\ secret \in Credentials /\ cache = secret /\ secret.applied = NoPassword
        /\ root \in {NoPassword, secret.password}
        /\ secret = [password |-> secret.password, applied |-> NoPassword]
    BY DEF Credentials, MaybePassword
  <1>2. TypeOK
    <2>1. faults \in 0..MaxFaults
      OBVIOUS
    <2>2. healthy \in BOOLEAN /\ unseen \in BOOLEAN /\ queued \in BOOLEAN
      OBVIOUS
    <2>3. creds \in Credentials /\ pc \in Passes /\ pc = "idle"
      BY DEF Credentials, MaybePassword, Passes
    <2>4. QED
      BY <1>1, <2>1, <2>2, <2>3 DEF TypeOK, Credentials, MaybePassword
  <1>3. NeverLockedOut /\ BeforeRoot /\ CacheLag /\ ClientsWait /\ SeedingInv /\ RotatingInv
    BY <1>1 DEF NeverLockedOut, LockedOut, BeforeRoot, CacheLag, ClientsWait, SeedingInv,
                RotatingInv, Pending, Complete, RotationPending
  <1>4. QED
    BY <1>2, <1>3 DEF IInv

\* Every step keeps the types, and hands no pass an empty credential.
LEMMA TypeStep == TypeOK /\ [Next]_vars => TypeOK'
  <1> SUFFICES ASSUME TypeOK, [Next]_vars
               PROVE  TypeOK'
    OBVIOUS
  <1> USE PasswordAssumption, FaultAssumption
      DEF TypeOK, Credentials, MaybePassword, Passes, Absent, Both, EndPass, Write,
          Fault, store, milvus, provider
  <1>1. CASE SyncReads
    <2>1. creds' \in Credentials /\ NoPassword \notin {creds.password, creds.applied}'
      BY <1>1 DEF SyncReads, Complete, Seeds
    <2>2. pc' \in Passes /\ queued' \in BOOLEAN
      BY <1>1 DEF SyncReads
    <2>3. QED
      BY <1>1, <2>1, <2>2 DEF SyncReads
  <1>2. CASE SyncSeeds
    BY <1>2 DEF SyncSeeds
  <1>3. CASE SkipRotation
    BY <1>3 DEF SkipRotation
  <1>4. CASE UpdatePassword
    BY <1>4 DEF UpdatePassword
  <1>5. CASE Authenticate
    <2>1. CASE root = creds.password /\ pc' = "record" /\ UNCHANGED <<creds, queued>>
      BY <1>5, <2>1 DEF Authenticate
    <2>2. CASE EndPass /\ queued' = TRUE
      <3>1. creds' \in Credentials /\ pc' \in Passes /\ pc' = "idle"
        BY <2>2
      <3>2. queued' \in BOOLEAN
        BY <2>2
      <3>3. QED
        BY <1>5, <3>1, <3>2 DEF Authenticate
    <2>3. QED
      BY <1>5, <2>1, <2>2 DEF Authenticate
  <1>6. CASE RecordApplied
    BY <1>6 DEF RecordApplied
  <1>7. CASE StatusPublishes
    BY <1>7 DEF StatusPublishes, Complete, Seeds
  <1>8. CASE StatusReseeds
    BY <1>8 DEF StatusReseeds
  <1>9. CASE Abort
    BY <1>9 DEF Abort
  <1>10. CASE WatchDelivers
    BY <1>10 DEF WatchDelivers
  <1>11. CASE PodStarts
    BY <1>11 DEF PodStarts, CaptureSeed
  <1>12. CASE RootCreated
    BY <1>12 DEF RootCreated
  <1>13. CASE TurnsHealthy
    BY <1>13 DEF TurnsHealthy
  <1>14. CASE TurnsUnhealthy
    <2>1. faults' \in 0..MaxFaults
      BY <1>14 DEF TurnsUnhealthy
    <2>2. healthy' \in BOOLEAN /\ queued' \in BOOLEAN
      BY <1>14 DEF TurnsUnhealthy
    <2>3. QED
      BY <1>14, <2>1, <2>2 DEF TurnsUnhealthy
  <1>15. CASE UserRotates
    BY <1>15 DEF UserRotates, EditPassword
  <1>16. CASE UNCHANGED vars
    BY <1>16 DEF vars
  <1>17. QED
    BY <1>1, <1>2, <1>3, <1>4, <1>5, <1>6, <1>7, <1>8, <1>9, <1>10, <1>11, <1>12,
       <1>13, <1>14, <1>15, <1>16 DEF Next, Provider, Milvus

\* RootPassword keeps its variables in their types (TypeOK).
THEOREM TypeCorrect == Spec => []TypeOK
  <1>1. Init => TypeOK
    BY InitInvariant DEF IInv
  <1>2. QED
    BY <1>1, TypeStep, PTL DEF Spec

-----------------------------------------------------------------------------
\* The parts of the invariant that do not speak of types.
RotationInv == /\ NeverLockedOut
               /\ BeforeRoot
               /\ CacheLag
               /\ ClientsWait
               /\ SeedingInv
               /\ RotatingInv

\* The steps of a pass keep the invariant.
LEMMA ProviderStep == IInv /\ (Provider \/ Abort) => RotationInv'
  <1> SUFFICES ASSUME IInv, Provider \/ Abort
               PROVE  RotationInv'
    OBVIOUS
  <1> USE PasswordAssumption
      DEF IInv, RotationInv, TypeOK, NeverLockedOut, LockedOut, BeforeRoot, CacheLag,
          ClientsWait, SeedingInv, RotatingInv, Pending, Complete, RotationPending,
          Credentials, MaybePassword, Both, Absent, EndPass, Write, store, milvus
  <1>1. CASE SyncReads
    <2> USE DEF SyncReads, Seeds
    <2>1. CASE Complete(cache)
      BY <1>1, <2>1
    <2>2. CASE ~Complete(cache)
      <3>1. pc' = "seed" /\ ~RotationPending(creds')
        BY <1>1, <2>2
      <3>2. NeverLockedOut' /\ CacheLag' /\ ClientsWait' /\ RotatingInv'
        BY <1>1, <3>1
      <3>3. BeforeRoot'
        BY <1>1, <2>2, <3>1
      <3>4. SeedingInv'
        <4>1. ASSUME root # NoPassword
              PROVE  /\ secret.password = root /\ secret.applied \in {NoPassword, root}
                     /\ cache.password = root /\ cache.applied \in {NoPassword, root}
          BY <2>2, <4>1
        <4>2. root # NoPassword => creds' = Both(root)
          BY <1>1, <2>2, <4>1
        <4>3. QED
          BY <1>1, <4>1, <4>2
      <3>5. QED
        BY <3>2, <3>3, <3>4
    <2>3. QED
      BY <2>1, <2>2
  <1>2. CASE SyncSeeds
    BY <1>2 DEF SyncSeeds
  <1>3. CASE SkipRotation
    BY <1>3 DEF SkipRotation
  <1>4. CASE UpdatePassword
    BY <1>4 DEF UpdatePassword
  <1>5. CASE Authenticate
    BY <1>5 DEF Authenticate
  <1>6. CASE RecordApplied
    BY <1>6 DEF RecordApplied
  <1>7. CASE StatusPublishes
    <2> USE DEF StatusPublishes, Seeds
    <2>1. CASE ~healthy
      BY <1>7, <2>1
    <2>2. CASE healthy /\ Complete(cache)
      BY <1>7, <2>2
    <2>3. CASE healthy /\ ~Complete(cache)
      <3>1. /\ root # NoPassword
            /\ secret.password = root /\ secret.applied \in {NoPassword, root}
            /\ cache.password = root /\ cache.applied \in {NoPassword, root}
        BY <2>3
      <3>2. creds' = Both(root) /\ pc' = "reseed"
        BY <1>7, <2>3, <3>1
      <3>3. SeedingInv' /\ RotatingInv'
        BY <1>7, <3>1, <3>2
      <3>4. NeverLockedOut' /\ BeforeRoot' /\ CacheLag' /\ ClientsWait'
        BY <1>7, <2>3, <3>1
      <3>5. QED
        BY <3>3, <3>4
    <2>4. QED
      BY <2>1, <2>2, <2>3
  <1>8. CASE StatusReseeds
    BY <1>8 DEF StatusReseeds
  <1>9. CASE Abort
    BY <1>9 DEF Abort
  <1>10. QED
    BY <1>1, <1>2, <1>3, <1>4, <1>5, <1>6, <1>7, <1>8, <1>9 DEF Provider

\* So do the steps of everything around the provider.
LEMMA OtherStep ==
    IInv /\ (WatchDelivers \/ Milvus \/ TurnsUnhealthy \/ UserRotates \/ UNCHANGED vars)
      => RotationInv'
  <1> SUFFICES ASSUME IInv, WatchDelivers \/ Milvus \/ TurnsUnhealthy \/ UserRotates
                            \/ UNCHANGED vars
               PROVE  RotationInv'
    OBVIOUS
  <1> USE PasswordAssumption
      DEF IInv, RotationInv, TypeOK, NeverLockedOut, LockedOut, BeforeRoot, CacheLag,
          ClientsWait, SeedingInv, RotatingInv, Pending, Complete, RotationPending,
          Credentials, MaybePassword, Both, Absent, Write, store, provider
  <1>1. CASE WatchDelivers
    BY <1>1 DEF WatchDelivers, milvus
  <1>2. CASE PodStarts
    BY <1>2 DEF PodStarts, CaptureSeed
  <1>3. CASE RootCreated
    BY <1>3 DEF RootCreated
  <1>4. CASE TurnsHealthy
    BY <1>4 DEF TurnsHealthy
  <1>5. CASE TurnsUnhealthy
    BY <1>5 DEF TurnsUnhealthy
  <1>6. CASE UserRotates
    BY <1>6 DEF UserRotates, Settled, EditPassword, milvus
  <1>7. CASE UNCHANGED vars
    BY <1>7 DEF vars
  <1>8. QED
    BY <1>1, <1>2, <1>3, <1>4, <1>5, <1>6, <1>7 DEF Milvus

\* The inductive invariant holds in every reachable state.
THEOREM InvariantHolds == Spec => []IInv
  <1>1. IInv /\ [Next]_vars => IInv'
    BY TypeStep, ProviderStep, OtherStep DEF IInv, RotationInv, Next
  <1>2. QED
    BY InitInvariant, <1>1, PTL DEF Spec

-----------------------------------------------------------------------------
\* The provider never loses the password Milvus accepts (NeverLockedOut).
THEOREM NoLockOut == Spec => []NeverLockedOut
  <1>1. IInv => NeverLockedOut
    BY DEF IInv
  <1>2. QED
    BY InvariantHolds, <1>1, PTL

\* A published password works, but for the moment a rotation lands
\* (PublishedWorks).
THEOREM PublishedPasswordWorks == Spec => []PublishedWorks
  <1>1. ASSUME IInv
        PROVE  PublishedWorks
    <2>1. CASE root = NoPassword
      BY <1>1, <2>1 DEF IInv, BeforeRoot, PublishedWorks
    <2>2. CASE root # NoPassword /\ root # secret.password
      <3>1. root = secret.applied /\ secret.password # NoPassword
        BY <1>1, <2>2 DEF IInv, NeverLockedOut, LockedOut, CacheLag, TypeOK
      <3>2. QED
        BY <1>1, <2>2, <3>1
        DEF IInv, ClientsWait, PublishedWorks, Pending, Complete, RotationPending
    <2>3. QED
      BY <2>1, <2>2 DEF PublishedWorks
  <1>2. QED
    BY InvariantHolds, <1>1, PTL

\* appliedPassword moves only to a password that Milvus accepts
\* (RecordsOnlyAccepted).
THEOREM OnlyAcceptedRecorded == Spec => RecordsOnlyAccepted
  <1>1. IInv /\ [Next]_vars =>
          [secret'.applied # secret.applied => root = NoPassword \/ secret'.applied = root]_vars
    <2> SUFFICES ASSUME IInv, Next, secret'.applied # secret.applied, root # NoPassword
                 PROVE  secret'.applied = root
      OBVIOUS
    <2>1. CASE SyncSeeds
      BY <2>1 DEF SyncSeeds, Write, Both, IInv, SeedingInv
    <2>2. CASE RecordApplied
      BY <2>2 DEF RecordApplied, Write, IInv, TypeOK, Credentials, RotatingInv
    <2>3. CASE StatusReseeds
      BY <2>3 DEF StatusReseeds, Write, Both, IInv, SeedingInv
    <2>4. CASE UserRotates
      BY <2>4 DEF UserRotates, EditPassword, Write, IInv, TypeOK, Credentials
    <2>5. CASE ~(SyncSeeds \/ RecordApplied \/ StatusReseeds \/ UserRotates)
      BY <2>5 DEF Next, Provider, Milvus, SyncReads, SkipRotation, UpdatePassword, Authenticate,
                  StatusPublishes, Abort, WatchDelivers, PodStarts, CaptureSeed, RootCreated,
                  TurnsHealthy, TurnsUnhealthy, store
    <2>6. QED
      BY <2>1, <2>2, <2>3, <2>4, <2>5
  <1>2. QED
    BY InvariantHolds, <1>1, PTL DEF Spec, RecordsOnlyAccepted

-----------------------------------------------------------------------------
\* The initial states are initial states of the contract.
LEMMA RefinesInit == Init => Contract!Init
  <1> SUFFICES ASSUME Init
               PROVE  Contract!Init
    OBVIOUS
  <1>1. secret.password \in Passwords \cup {NoPassword}
    BY DEF Init, Absent
  <1>2. QED
    BY <1>1 DEF Init, Contract!Init

\* A step of a pass seeds, lands or publishes a password, or is invisible.
LEMMA RefinesProvider == IInv /\ (Provider \/ Abort) => [Contract!Next]_<<secret.password, root, published>>
  <1> SUFFICES ASSUME IInv, Provider \/ Abort
               PROVE  [Contract!Next]_<<secret.password, root, published>>
    OBVIOUS
  <1> USE DEF Contract!Next, milvus, store, Write
  <1>1. CASE SyncSeeds
    <2>1. CASE root = NoPassword
      <3>1. creds.password \in Passwords
        BY <1>1, <2>1 DEF SyncSeeds, IInv, TypeOK, Credentials, MaybePassword
      <3>2. Contract!Seed
        BY <1>1, <2>1, <3>1 DEF SyncSeeds, Contract!Seed
      <3>3. QED
        BY <3>2
    <2>2. CASE root # NoPassword
      BY <1>1, <2>2 DEF SyncSeeds, Both, IInv, SeedingInv
    <2>3. QED
      BY <2>1, <2>2
  <1>2. CASE UpdatePassword
    <2>1. CASE UNCHANGED root
      BY <1>2, <2>1 DEF UpdatePassword
    <2>2. CASE root' = creds.password
      <3>1. creds.password = secret.password /\ secret.password # NoPassword
        BY <1>2 DEF UpdatePassword, IInv, TypeOK, RotatingInv
      <3>2. Contract!Land
        BY <1>2, <2>2, <3>1 DEF UpdatePassword, Contract!Land
      <3>3. QED
        BY <3>2
    <2>3. QED
      BY <1>2, <2>1, <2>2 DEF UpdatePassword
  <1>3. CASE RecordApplied
    <2>1. secret'.password = secret.password
      BY <1>3 DEF RecordApplied, IInv, TypeOK, Credentials, RotatingInv
    <2>2. QED
      BY <1>3, <2>1 DEF RecordApplied
  <1>4. CASE StatusPublishes
    <2>1. CASE UNCHANGED published
      BY <1>4, <2>1 DEF StatusPublishes
    <2>2. CASE healthy /\ Complete(cache) /\ published' = cache.applied
      <3>1. cache.applied \in {root, published}
        BY <2>2 DEF IInv, TypeOK, Credentials, NeverLockedOut, LockedOut, BeforeRoot, CacheLag,
                    ClientsWait, Pending, Complete, RotationPending, Both
      <3>2. CASE cache.applied = root
        BY <1>4, <2>2, <3>2 DEF StatusPublishes, Contract!Publish
      <3>3. CASE cache.applied = published
        BY <1>4, <2>2, <3>3 DEF StatusPublishes
      <3>4. QED
        BY <3>1, <3>2, <3>3
    <2>3. QED
      BY <1>4, <2>1, <2>2 DEF StatusPublishes
  <1>5. CASE StatusReseeds
    <2>1. root # NoPassword
      BY <1>5 DEF StatusReseeds, IInv, BeforeRoot
    <2>2. creds = Both(root) /\ secret.password = root
      BY <1>5, <2>1 DEF StatusReseeds, IInv, SeedingInv
    <2>3. Contract!Publish
      BY <1>5, <2>2 DEF StatusReseeds, Contract!Publish, Both
    <2>4. QED
      BY <2>3
  <1>6. CASE SyncReads \/ SkipRotation \/ Authenticate \/ Abort
    BY <1>6 DEF SyncReads, SkipRotation, Authenticate, Abort
  <1>7. QED
    BY <1>1, <1>2, <1>3, <1>4, <1>5, <1>6 DEF Provider

\* So is every other step, but for the user's rotation and the creation of root.
LEMMA RefinesOther ==
    IInv /\ (WatchDelivers \/ Milvus \/ TurnsUnhealthy \/ UserRotates \/ UNCHANGED vars)
      => [Contract!Next]_<<secret.password, root, published>>
  <1> SUFFICES ASSUME IInv, WatchDelivers \/ Milvus \/ TurnsUnhealthy \/ UserRotates
                            \/ UNCHANGED vars
               PROVE  [Contract!Next]_<<secret.password, root, published>>
    OBVIOUS
  <1> USE DEF Contract!Next, store, provider
  <1>1. CASE RootCreated
    <2>1. env = secret.password /\ secret.password # NoPassword
      BY <1>1 DEF RootCreated, IInv, BeforeRoot
    <2>2. Contract!Land
      BY <1>1, <2>1 DEF RootCreated, Contract!Land
    <2>3. QED
      BY <2>2
  <1>2. CASE UserRotates
    <2>1. secret.password = published /\ published # NoPassword /\ secret.applied = published
      BY <1>2 DEF UserRotates, Settled, Both
    <2>2. root = published
      BY <2>1 DEF IInv, NeverLockedOut, LockedOut, BeforeRoot
    <2>3. PICK p \in Passwords : secret' = [secret EXCEPT !.password = p]
      BY <1>2 DEF UserRotates, EditPassword, Write
    <2>4. secret'.password = p
      BY <2>3 DEF IInv, TypeOK, Credentials
    <2>5. Contract!Rotate
      BY <1>2, <2>1, <2>2, <2>4 DEF UserRotates, EditPassword, milvus, Contract!Rotate
    <2>6. QED
      BY <2>5
  <1>3. CASE WatchDelivers \/ PodStarts \/ TurnsHealthy \/ TurnsUnhealthy \/ UNCHANGED vars
    BY <1>3 DEF WatchDelivers, PodStarts, CaptureSeed, TurnsHealthy, TurnsUnhealthy, vars, milvus
  <1>4. QED
    BY <1>1, <1>2, <1>3 DEF Milvus

\* Passes, watches, crashes and edits together implement the rotation contract
\* (the safety part of ImplementsContract).
THEOREM RefinesContract == Spec => Contract!Spec
  <1>1. IInv /\ [Next]_vars => [Contract!Next]_Contract!vars
    BY RefinesProvider, RefinesOther DEF Next, Contract!vars
  <1>2. QED
    BY RefinesInit, InvariantHolds, <1>1, PTL DEF Spec, Contract!Spec

-----------------------------------------------------------------------------
\* Between two passes of a healthy instance, with nothing queued and no watch event
\* under way, nothing is left to do: the password asked for is recorded, accepted
\* and published.  No edit, write or recovery goes by without waking the provider.
NothingLeftUndone ==
    healthy /\ pc = "idle" /\ ~queued /\ ~unseen =>
        secret = Both(root) /\ published = root

\* A pass that nobody will repeat works on the Secret as it is, and finds what it
\* still has to do there: it writes, and wakes its successor, or is the last.
WakeUpInv ==
    /\ ~unseen => cache = secret
    /\ healthy /\ ~queued /\ ~unseen =>
         /\ pc \in {"seed", "reseed"} => ~Complete(secret)
         /\ pc \in {"sync", "auth", "record"} => creds = secret
         /\ pc = "status" => Complete(secret) /\ ~RotationPending(secret)
         /\ pc = "idle" => secret = Both(published)

\* Every step keeps it: what writes to the Secret makes an event, and events,
\* failures and changes of health queue the instance.
LEMMA WakeUpStep == IInv /\ WakeUpInv /\ [Next]_vars => WakeUpInv'
  <1> SUFFICES ASSUME IInv, WakeUpInv, [Next]_vars
               PROVE  WakeUpInv'
    OBVIOUS
  <1> USE PasswordAssumption
      DEF IInv, TypeOK, WakeUpInv, Complete, RotationPending, Credentials, MaybePassword,
          Both, EndPass, Write, store, milvus, provider
  <1>1. CASE SyncReads
    BY <1>1 DEF SyncReads
  <1>2. CASE SyncSeeds
    BY <1>2 DEF SyncSeeds
  <1>3. CASE SkipRotation
    BY <1>3 DEF SkipRotation
  <1>4. CASE UpdatePassword
    BY <1>4 DEF UpdatePassword
  <1>5. CASE Authenticate
    BY <1>5 DEF Authenticate
  <1>6. CASE RecordApplied
    BY <1>6 DEF RecordApplied, RotatingInv
  <1>7. CASE StatusPublishes
    BY <1>7 DEF StatusPublishes
  <1>8. CASE StatusReseeds
    BY <1>8 DEF StatusReseeds
  <1>9. CASE Abort
    BY <1>9 DEF Abort
  <1>10. CASE WatchDelivers
    BY <1>10 DEF WatchDelivers
  <1>11. CASE PodStarts \/ RootCreated
    BY <1>11 DEF PodStarts, CaptureSeed, RootCreated, BeforeRoot
  <1>12. CASE TurnsHealthy \/ TurnsUnhealthy
    BY <1>12 DEF TurnsHealthy, TurnsUnhealthy
  <1>13. CASE UserRotates
    BY <1>13 DEF UserRotates, EditPassword
  <1>14. CASE UNCHANGED vars
    BY <1>14 DEF vars
  <1>15. QED
    BY <1>1, <1>2, <1>3, <1>4, <1>5, <1>6, <1>7, <1>8, <1>9, <1>10, <1>11, <1>12, <1>13, <1>14
       DEF Next, Provider, Milvus

\* A quiet, healthy instance has landed (NothingLeftUndone): what RotationLands
\* says will happen is all that can keep the provider from resting.
THEOREM QuietMeansLanded == Spec => []NothingLeftUndone
  <1>1. Init => WakeUpInv
    BY DEF Init, WakeUpInv
  <1>2. ASSUME IInv, WakeUpInv
        PROVE  NothingLeftUndone
    <2> SUFFICES ASSUME healthy, pc = "idle", ~queued, ~unseen
                 PROVE  secret = Both(root) /\ published = root
      BY DEF NothingLeftUndone
    <2>1. secret = Both(published) /\ root # NoPassword
      BY <1>2 DEF WakeUpInv, IInv, BeforeRoot
    <2>2. root = published
      BY <1>2, <2>1 DEF IInv, NeverLockedOut, LockedOut, Both
    <2>3. QED
      BY <2>1, <2>2
  <1>3. QED
    BY <1>1, <1>2, WakeUpStep, InvariantHolds, PTL DEF Spec

-----------------------------------------------------------------------------
\* An instance that runs has both keys, at the API server and in the cache, so
\* that no pass seeds; only a pass that rotates comes to the record.
KeysInv == /\ secret \in [password : Passwords, applied : Passwords]
           /\ cache \in [password : Passwords, applied : Passwords]
           /\ pc \in {"idle", "sync", "auth", "record", "status"}
           /\ Rotating => creds \in [password : Passwords, applied : Passwords]
           /\ pc \in {"auth", "record"} => RotationPending(creds)

\* Whatever is edited in between, and whatever fails, the steps keep that.
LEMMA KeysStep == KeysInv /\ [NextR]_varsR => KeysInv'
  <1> SUFFICES ASSUME KeysInv, [NextR]_varsR
               PROVE  KeysInv'
    OBVIOUS
  <1> USE PasswordAssumption DEF KeysInv, Rotating, RotationPending, EndPass, store, milvus, provider
  <1>1. Complete(cache)
    BY DEF Complete
  <1>2. CASE SyncReads
    BY <1>1, <1>2 DEF SyncReads
  <1>3. CASE SkipRotation
    BY <1>3 DEF SkipRotation
  <1>4. CASE UpdatePassword
    BY <1>4 DEF UpdatePassword
  <1>5. CASE Authenticate
    BY <1>5 DEF Authenticate
  <1>6. CASE RecordApplied
    <2>1. secret' = [creds EXCEPT !.applied = creds.password]
      BY <1>6 DEF RecordApplied, Write
    <2>2. QED
      BY <1>6, <2>1 DEF RecordApplied
  <1>7. CASE StatusPublishes
    BY <1>1, <1>7 DEF StatusPublishes
  <1>8. CASE Abort
    BY <1>8 DEF Abort
  <1>9. CASE WatchDelivers
    BY <1>9 DEF WatchDelivers
  <1>10. CASE TurnsHealthy \/ TurnsUnhealthy
    BY <1>10 DEF TurnsHealthy, TurnsUnhealthy
  <1>11. CASE UserEdits
    BY <1>11 DEF UserEdits, EditPassword, Write
  <1>12. CASE UNCHANGED varsR
    BY <1>12 DEF varsR, vars
  <1>13. ~SyncSeeds /\ ~StatusReseeds
    BY DEF SyncSeeds, StatusReseeds
  <1>14. QED
    BY <1>2, <1>3, <1>4, <1>5, <1>6, <1>7, <1>8, <1>9, <1>10, <1>11, <1>12, <1>13
    DEF NextR, Component, Provider

LEMMA KeysHold == RunningSpec => []KeysInv
  <1>1. RunningInit => KeysInv
    BY DEF RunningInit, KeysInv, Both, Rotating
  <1>2. QED
    BY <1>1, KeysStep, PTL DEF RunningSpec

\* After an edit that fell into no known rotation, a rotation that the provider
\* comes to know of is the one to that password, until the next edit.
EditInv == ~risky => /\ secret.password = asked
                     /\ RotationPending(cache) => cache.password = asked
                     /\ Rotating /\ RotationPending(creds) => creds.password = asked

LEMMA EditStep == KeysInv /\ EditInv /\ [NextR]_varsR => EditInv'
  <1> SUFFICES ASSUME KeysInv, EditInv, [NextR]_varsR
               PROVE  EditInv'
    OBVIOUS
  <1> USE PasswordAssumption DEF KeysInv, EditInv, Rotating, EndPass, store, milvus, provider, user
  <1>1. Complete(cache)
    BY DEF Complete
  <1>2. CASE SyncReads /\ UNCHANGED user
    BY <1>1, <1>2 DEF SyncReads, RotationPending
  <1>3. CASE SkipRotation /\ UNCHANGED user
    BY <1>3 DEF SkipRotation, RotationPending
  <1>4. CASE UpdatePassword /\ UNCHANGED user
    BY <1>4 DEF UpdatePassword, RotationPending
  <1>5. CASE Authenticate /\ UNCHANGED user
    BY <1>5 DEF Authenticate, RotationPending
  <1>6. CASE RecordApplied /\ UNCHANGED user
    <2>1. secret' = [creds EXCEPT !.applied = creds.password]
      BY <1>6 DEF RecordApplied, Write
    <2>2. ~risky => creds.password = asked
      BY <1>6 DEF RecordApplied
    <2>3. QED
      BY <1>6, <2>1, <2>2 DEF RecordApplied, RotationPending
  <1>7. CASE StatusPublishes /\ UNCHANGED user
    BY <1>1, <1>7 DEF StatusPublishes, RotationPending
  <1>8. CASE Abort /\ UNCHANGED user
    BY <1>8 DEF Abort, RotationPending
  <1>9. CASE WatchDelivers /\ UNCHANGED user
    BY <1>9 DEF WatchDelivers, RotationPending
  <1>10. CASE (TurnsHealthy \/ TurnsUnhealthy) /\ UNCHANGED user
    BY <1>10 DEF TurnsHealthy, TurnsUnhealthy, RotationPending
  <1>11. CASE UserEdits
    BY <1>11 DEF UserEdits, EditPassword, RotationKnown, RotationPending
  <1>12. CASE UNCHANGED varsR
    BY <1>12 DEF varsR, vars, RotationPending
  <1>13. ~SyncSeeds /\ ~StatusReseeds
    BY DEF SyncSeeds, StatusReseeds
  <1>14. QED
    BY <1>2, <1>3, <1>4, <1>5, <1>6, <1>7, <1>8, <1>9, <1>10, <1>11, <1>12, <1>13
    DEF NextR, Component, Provider

\* However many edits, failures and crashes: the password asked for stays in the
\* Secret, unless the edit fell into a rotation the provider knew of (EditsKept).
THEOREM EditsStay == RunningSpec => []EditsKept
  <1>1. RunningInit => EditInv
    BY DEF RunningInit, EditInv, Both, RotationPending, Rotating
  <1>2. EditInv => EditsKept
    BY DEF EditInv, EditsKept
  <1>3. QED
    BY <1>1, <1>2, EditStep, KeysHold, PTL DEF RunningSpec

\* A pass records what Milvus has accepted.
RunningInv == /\ pc = "record" => root = creds.password
              /\ faults = 0
              /\ AppliedWorks

\* Whatever is edited in between, the provider's steps keep that.
LEMMA RunningStep == MaxFaults = 0 /\ KeysInv /\ RunningInv /\ [NextR]_varsR => RunningInv'
  <1> SUFFICES ASSUME MaxFaults = 0, KeysInv, RunningInv, [NextR]_varsR
               PROVE  RunningInv'
    OBVIOUS
  <1> USE PasswordAssumption DEF KeysInv, Rotating, RunningInv, AppliedWorks, store, milvus, provider
  <1>1. ~Fault
    BY DEF Fault
  <1>2. Complete(cache)
    BY DEF Complete
  <1>3. CASE SyncReads
    BY <1>2, <1>3 DEF SyncReads
  <1>4. CASE SkipRotation
    BY <1>4 DEF SkipRotation
  <1>5. CASE UpdatePassword
    BY <1>1, <1>5 DEF UpdatePassword
  <1>6. CASE Authenticate
    BY <1>6 DEF Authenticate, EndPass
  <1>7. CASE RecordApplied
    <2>1. secret' = [creds EXCEPT !.applied = creds.password]
      BY <1>7 DEF RecordApplied, Write
    <2>2. QED
      BY <1>7, <2>1 DEF RecordApplied
  <1>8. CASE StatusPublishes
    BY <1>2, <1>8 DEF StatusPublishes, EndPass
  <1>9. CASE WatchDelivers
    BY <1>9 DEF WatchDelivers
  <1>10. CASE TurnsHealthy
    BY <1>10 DEF TurnsHealthy
  <1>11. CASE UserEdits
    BY <1>11 DEF UserEdits, EditPassword, Write
  <1>12. CASE UNCHANGED varsR
    BY <1>12 DEF varsR, vars
  <1>13. ~SyncSeeds /\ ~StatusReseeds /\ ~Abort /\ ~TurnsUnhealthy
    BY <1>1 DEF SyncSeeds, StatusReseeds, Abort, TurnsUnhealthy
  <1>14. QED
    BY <1>3, <1>4, <1>5, <1>6, <1>7, <1>8, <1>9, <1>10, <1>11, <1>12, <1>13
    DEF NextR, Component, Provider

\* With no call failing and no pass cut off, edits alone, however fast and however
\* many, lose no access (AppliedWorks).
THEOREM EditsAloneAreSafe == ASSUME MaxFaults = 0
                             PROVE  RunningSpec => []AppliedWorks
  <1>1. RunningInit => RunningInv
    BY DEF RunningInit, RunningInv, AppliedWorks, Both
  <1>2. KeysInv /\ RunningInv /\ [NextR]_varsR => RunningInv'
    BY RunningStep
  <1>3. RunningInv => AppliedWorks
    BY DEF RunningInv
  <1>4. QED
    BY <1>1, <1>2, <1>3, KeysHold, PTL DEF RunningSpec
=============================================================================
