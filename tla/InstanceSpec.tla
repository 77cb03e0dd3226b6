---------------------------- MODULE InstanceSpec ----------------------------
(***************************************************************************)
(* How an Instance's spec becomes the Milvus CR (validate.go, version.go,  *)
(* dependencies.go, storage_location.go, Validate and Sync in provider.go),*)
(* reduced to what decides where the data lives and which Milvus reads it. *)
(* Validate compares the spec with the CR in the cache, and Sync builds    *)
(* the next CR from the same spec, reading cache and BackupStorage again.  *)
(***************************************************************************)
EXTENDS Naturals

CONSTANTS Locations,    \* BackupStorages an instance can keep its objects in
          Buckets,      \* where a BackupStorage points: endpoint and bucket
          Missing,      \* ... there is no such BackupStorage
          ConfBuckets,  \* minio.bucketName in the engine configuration
          Sizes,        \* sizes of the bundled object storage's volume
          DefaultSize,  \* the one an instance gets by default
          Versions,     \* Milvus releases
          Starts,       \* the specs instances are created with
          Lag,          \* the Milvus CR cache may lag behind the API server
          MaxEdits,     \* bound on edits of the spec
          MaxMoves      \* bound on edits and deletions of BackupStorages

Unset == 0
ASSUME ValueAssumption == /\ Missing \notin Buckets
                          /\ "bundled" \notin Locations \cup Buckets
                          /\ Buckets \cap ConfBuckets = {}
                          /\ Sizes \subseteq Nat \ {Unset} /\ DefaultSize \in Sizes
                          /\ Versions \subseteq Nat
ASSUME BoundAssumption == Lag \in BOOLEAN /\ MaxEdits \in Nat /\ MaxMoves \in Nat

\* The fields of a spec, and what they can be; "" and Unset stand for no value.
\* A "prefixed" etcd is an external one with a metadata prefix of its own, root
\* is minio.rootPath, of the configuration or of the storage parameter.
Values == [topology |-> {"standalone", "cluster"},
           stream   |-> {"", "woodpecker", "pulsar"},
           etcd     |-> {"bundled", "external", "prefixed"},
           store    |-> {"bundled"} \cup Locations,
           root     |-> {"", "own"},
           conf     |-> {""} \cup ConfBuckets,
           class    |-> {"", "fast"},
           size     |-> {Unset} \cup Sizes,
           version  |-> Versions]
Fields == DOMAIN Values
Specs == [topology : Values.topology, stream : Values.stream, etcd : Values.etcd,
          store : Values.store, root : Values.root, conf : Values.conf,
          class : Values.class, size : Values.size, version : Values.version]
ASSUME StartAssumption == Starts \subseteq Specs

VARIABLES want,      \* the Instance's spec
          location,  \* where each BackupStorage points
          cr,        \* the Milvus CR
          seen,      \* the provider's cached copy of it
          pc,        \* where the current pass is
          spec,      \* the Instance's spec that pass works on
          knows,     \* what that pass was compared with: the CR as it is, an
                     \* older one, or nothing that Sync builds on
          moved,     \* a pass that was compared with nothing has moved the data
          edits, moves

vars == <<want, location, cr, seen, pc, spec, knows, moved, edits, moves>>

NoCR == [mode |-> "none"]
CRs == [mode : Values.topology, stream : Values.stream, etcd : Values.etcd,
        store : {"bundled"} \cup Buckets, root : {"files", "own", "milvus/instance"},
        conf : Values.conf, class : Values.class, log : Values.class,
        size : {Unset} \cup Sizes, version : Versions]

TypeOK == /\ want \in Specs
          /\ location \in [Locations -> Buckets \cup {Missing}]
          /\ cr \in CRs \cup {NoCR}
          /\ seen \in CRs \cup {NoCR}
          /\ pc \in {"idle", "sync"}
          /\ spec \in Specs
          /\ knows \in {"current", "older", "nothing"}
          /\ moved \in BOOLEAN
          /\ edits \in 0..MaxEdits /\ moves \in 0..MaxMoves

Init == /\ want \in Starts
        /\ location \in [Locations -> Buckets]
        /\ cr = NoCR
        /\ seen = NoCR
        /\ pc = "idle"
        /\ spec = want
        /\ knows = "current" /\ moved = FALSE
        /\ edits = 0 /\ moves = 0

View == IF Lag THEN seen ELSE cr
-----------------------------------------------------------------------------
\* BuildMilvusSpec.  existingMessageStreamType, messageStreamType: without a
\* request a cluster keeps its stream.
ExistingStream(existing) == IF existing = NoCR THEN "" ELSE existing.stream
MessageStream_Default(w, existing) == IF w.stream # "" THEN w.stream ELSE "woodpecker"
MessageStream(w, existing) ==
    IF w.stream # "" THEN w.stream
    ELSE IF ExistingStream(existing) # "" THEN ExistingStream(existing) ELSE "woodpecker"

\* requestedStorageSize, buildStorage
StorageSize(w) == IF w.store # "bundled" THEN Unset
                  ELSE IF w.size # Unset THEN w.size ELSE DefaultSize

\* resolveStorageLocation and defaultStorageLocationRootPath; the operator's
\* own prefix is "files".
StorageRoot(w) == IF w.root # "" THEN w.root
                  ELSE IF w.store = "bundled" THEN "files" ELSE "milvus/instance"

\* A location has to exist before anything is built from it.
Resolves_Unchecked(w) == w.store \in Values.store
Resolves(w) == w.store \in Locations => location[w.store] # Missing

\* buildStorage, externalStorageConfig: a location replaces the bundled store,
\* and its bucket the configured one.
Store(w) == IF w.store = "bundled" THEN "bundled" ELSE location[w.store]
BucketName(w) == IF w.store = "bundled" THEN w.conf ELSE ""

\* dependencyStorageClass: the class of the volumes of etcd and MinIO, of those
\* that are bundled; buildPulsar gives it to the volumes of the log, too.
StorageClass(w) == IF "bundled" \in {w.etcd, w.store} THEN w.class ELSE ""
LogClass(w, stream) == IF stream = "pulsar" THEN w.class ELSE ""

Stream(w, existing) == IF w.topology = "cluster" THEN MessageStream(w, existing) ELSE ""

BuildMilvusSpec(w, existing) ==
    [mode    |-> w.topology,
     stream  |-> Stream(w, existing),
     log     |-> LogClass(w, Stream(w, existing)),
     etcd    |-> w.etcd,
     store   |-> Store(w),
     root    |-> StorageRoot(w),
     conf    |-> BucketName(w),
     class   |-> StorageClass(w),
     size    |-> StorageSize(w),
     version |-> w.version]

\* validateInstance.  A check against the existing CR passes without one.
TopologyUnchanged(w, existing) == existing # NoCR => existing.mode = w.topology

StorageNotDecreased_Requested(w, existing) ==
    existing # NoCR /\ w.size # Unset => w.size >= existing.size
StorageNotDecreased(w, existing) ==
    w.store = "bundled" /\ existing # NoCR => StorageSize(w) >= existing.size

MessageStreamUnchanged_Default(w, existing) ==
    w.topology = "cluster" =>
        ExistingStream(existing) \in {"", IF w.stream = "" THEN "woodpecker" ELSE w.stream}
MessageStreamUnchanged(w, existing) ==
    w.topology = "cluster" /\ w.stream # "" => ExistingStream(existing) \in {"", w.stream}

\* objectStore names the bundled storage, or an endpoint and bucket, which is
\* what a location points to.
ObjectStore(c) == c.store
EtcdRoot(c) == IF c.etcd = "prefixed" THEN "own" ELSE "instance"
DataLocationUnchanged_Store(w, existing) ==
    existing # NoCR => ObjectStore(existing) = ObjectStore(BuildMilvusSpec(w, existing))
DataLocationUnchanged(w, existing) ==
    existing # NoCR =>
        /\ ObjectStore(existing) = ObjectStore(BuildMilvusSpec(w, existing))
        /\ existing.root = BuildMilvusSpec(w, existing).root
        /\ EtcdRoot(existing) = EtcdRoot(BuildMilvusSpec(w, existing))

StorageClassUnchanged(w, existing) ==
    existing # NoCR => existing.class = BuildMilvusSpec(w, existing).class

NoDowngrade(w, existing) == existing # NoCR => w.version >= existing.version

Accepts(w, existing) ==
    /\ Resolves(w)
    /\ TopologyUnchanged(w, existing)
    /\ StorageNotDecreased(w, existing)
    /\ MessageStreamUnchanged(w, existing)
    /\ DataLocationUnchanged(w, existing)
    /\ StorageClassUnchanged(w, existing)
    /\ NoDowngrade(w, existing)
-----------------------------------------------------------------------------
\* A pass starts with Validate; a rejected spec ends it, the CR stays as it is.
\* A cache that shows no CR leaves it nothing to compare with.
Validate ==
    /\ pc = "idle"
    /\ spec' = want
    /\ knows' = IF View = cr THEN "current" ELSE IF View = NoCR THEN "nothing" ELSE "older"
    /\ pc' = IF Accepts(want, View) THEN "sync" ELSE "idle"
    /\ UNCHANGED <<want, location, cr, seen, moved, edits, moves>>

\* Bundled volumes have a class that Validate compares as long as etcd or the
\* object storage is among them.
Bundled(c) == "bundled" \in {c.etcd, c.store}
SamePlace(c, d) == /\ d.mode = c.mode /\ d.stream = c.stream
                   /\ d.store = c.store /\ d.root = c.root
                   /\ EtcdRoot(d) = EtcdRoot(c)
                   /\ d.class = c.class

\* Sync builds the spec anew and applies it; a location that has gone ends it.
Sync_CreatesOnly ==
    /\ pc = "sync"
    /\ cr' = IF Resolves(spec) /\ View = NoCR THEN BuildMilvusSpec(spec, View) ELSE cr
    /\ moved' = (moved \/ (knows = "nothing" /\ cr # NoCR /\ ~SamePlace(cr, cr')))
    /\ pc' = "idle"
    /\ UNCHANGED <<want, location, seen, spec, knows, edits, moves>>
Sync ==
    /\ pc = "sync"
    /\ cr' = IF Resolves(spec) THEN BuildMilvusSpec(spec, View) ELSE cr
    /\ moved' = (moved \/ (knows = "nothing" /\ cr # NoCR /\ ~SamePlace(cr, cr')))
    /\ pc' = "idle"
    /\ UNCHANGED <<want, location, seen, spec, knows, edits, moves>>

\* Another error, or a crash, ends the pass before the CR is applied.
Abort ==
    /\ pc = "sync"
    /\ pc' = "idle"
    /\ UNCHANGED <<want, location, cr, seen, spec, knows, moved, edits, moves>>

WatchDelivers ==
    /\ Lag /\ seen # cr
    /\ seen' = cr
    /\ UNCHANGED <<want, location, cr, pc, spec, knows, moved, edits, moves>>

\* kubectl apply of the Instance, one field at a time.
EditInstance ==
    /\ edits < MaxEdits /\ edits' = edits + 1
    /\ \E f \in Fields : \E v \in Values[f] \ {want[f]} : want' = [want EXCEPT ![f] = v]
    /\ UNCHANGED <<location, cr, seen, pc, spec, knows, moved, moves>>

\* Sync resolves the location again, wherever it points by then.
MoveLocation ==
    /\ moves < MaxMoves /\ moves' = moves + 1
    /\ \E l \in Locations : \E b \in (Buckets \cup {Missing}) \ {location[l]} :
          /\ location' = [location EXCEPT ![l] = b]
          /\ knows' = IF pc = "sync" /\ spec.store = l THEN "nothing" ELSE knows
    /\ UNCHANGED <<want, cr, seen, pc, spec, moved, edits>>

Next == Validate \/ Sync \/ Abort \/ WatchDelivers \/ EditInstance \/ MoveLocation

Spec == Init /\ [][Next]_vars

\* The watches of the Instance and of its Milvus CR start passes, an error
\* retries them, and some pass in the end gets through.
FairSpec == Spec /\ WF_vars(Validate) /\ SF_vars(Sync) /\ WF_vars(WatchDelivers)
-----------------------------------------------------------------------------
LogVolumesStay == Bundled(cr) /\ Bundled(cr') => cr'.log = cr.log
OnlyForward == cr'.size >= cr.size /\ cr'.version >= cr.version
Compared == knows = "current" \/ (knows = "older" /\ ~moved)

\* However the spec is edited, step by step, fields set and cleared, and however
\* old the copy of the CR that a pass is compared with, objects, metadata prefix,
\* volumes, topology and write-ahead log stay where they were first put; a pass
\* that was compared with the CR as it is only grows volumes and upgrades
\* (validateInstance against BuildMilvusSpec).  Data may move, although
\* validate.go:346 says that a prefix, an object store or a bucket cannot be
\* changed and README.md:551 that the class of every volume is fixed:
\*  - a cache that shows no CR yet, or a location that moves while a pass is under
\*    way, leaves nothing to compare with, and an older copy is then compared with
\*    what is no longer so (knows, moved);
\*  - an etcd that was bundled and becomes external is not compared, nor is
\*    minio.bucketName of the bundled store, nor the class of Pulsar's volumes
\*    while neither etcd nor the store is bundled;
\*  - a size or version above an older copy may be below the CR as it is.
DataStays == [][cr # NoCR => /\ Compared => SamePlace(cr, cr') /\ LogVolumesStay
                             /\ knows = "current" => OnlyForward]_vars

\* A spec that was applied is accepted again as long as nothing changes: no
\* instance is stuck on a rejection of its own making (BuildMilvusSpec against
\* validateInstance).
AppliedStaysValid ==
    cr # NoCR /\ Resolves(want) /\ cr = BuildMilvusSpec(want, cr) => Accepts(want, cr)

\* Whatever stale copies of the CR the passes work on, a spec that is acceptable
\* is what Milvus runs in the end, and stays it (Validate, Sync).
SpecSettles == <>[](Accepts(want, cr) => cr = BuildMilvusSpec(want, cr))

=============================================================================
