------------------------- MODULE InstanceSpecProofs -------------------------
(***************************************************************************)
(* Proofs about InstanceSpec, for every set of locations, buckets, sizes   *)
(* and versions and any number of edits: what is applied stays acceptable, *)
(* no pass that was compared with a CR moves the data, however old the     *)
(* copy, unless an earlier one did that was not, and Sync is idempotent.   *)
(***************************************************************************)
EXTENDS InstanceSpec, TLAPS

\* Fields of a spec, one by one.
LEMMA FieldNames ==
    Fields = {"topology", "stream", "etcd", "store", "root", "conf", "class", "size", "version"}
  BY DEF Fields, Values

\* An edit of one field is a spec again (EditInstance).
LEMMA EditedSpec ==
    ASSUME NEW w \in Specs, NEW f \in Fields, NEW v \in Values[f]
    PROVE  [w EXCEPT ![f] = v] \in Specs
  <1> USE DEF Specs
  <1>1. CASE f = "topology"
    BY <1>1 DEF Values
  <1>2. CASE f = "stream"
    BY <1>2 DEF Values
  <1>3. CASE f = "etcd"
    BY <1>3 DEF Values
  <1>4. CASE f = "store"
    BY <1>4 DEF Values
  <1>5. CASE f = "root"
    BY <1>5 DEF Values
  <1>6. CASE f = "conf"
    BY <1>6 DEF Values
  <1>7. CASE f = "class"
    BY <1>7 DEF Values
  <1>8. CASE f = "size"
    BY <1>8 DEF Values
  <1>9. CASE f = "version"
    BY <1>9 DEF Values
  <1>10. QED
    BY <1>1, <1>2, <1>3, <1>4, <1>5, <1>6, <1>7, <1>8, <1>9, FieldNames

\* What BuildMilvusSpec makes of any spec whose location exists.
LEMMA BuiltCR ==
    ASSUME TypeOK, NEW w \in Specs, Resolves(w), NEW existing \in CRs \cup {NoCR}
    PROVE  BuildMilvusSpec(w, existing) \in CRs
  <1> DEFINE c == BuildMilvusSpec(w, existing)
  <1> USE DEF BuildMilvusSpec, Specs, Values
  <1>1. c.mode \in Values.topology /\ c.etcd \in Values.etcd /\ c.version \in Versions
    OBVIOUS
  <1>2. c.stream \in Values.stream
    <2>1. ExistingStream(existing) \in Values.stream
      BY DEF ExistingStream, CRs
    <2>2. QED
      BY <2>1 DEF Stream, MessageStream
  <1>3. c.store \in {"bundled"} \cup Buckets
    BY DEF Store, Resolves, TypeOK
  <1>4. c.root \in {"files", "own", "milvus/instance"}
    BY DEF StorageRoot
  <1>5. c.conf \in Values.conf /\ c.class \in Values.class
    BY DEF BucketName, StorageClass
  <1>6. c.size \in {Unset} \cup Sizes
    BY ValueAssumption DEF StorageSize
  <1>7. c.log \in Values.class
    BY DEF LogClass
  <1>8. QED
    BY <1>1, <1>2, <1>3, <1>4, <1>5, <1>6, <1>7 DEF CRs

\* No CR is the absent one.
LEMMA CRExists == NoCR \notin CRs
  BY DEF NoCR, CRs, Values

\* Instances start from specs, without a CR.
LEMMA StartsTyped == Init => TypeOK
  <1> SUFFICES ASSUME Init
               PROVE  TypeOK
    OBVIOUS
  <1>1. want \in Specs /\ spec \in Specs
    BY StartAssumption DEF Init
  <1>2. location \in [Locations -> Buckets \cup {Missing}]
    BY DEF Init
  <1>3. cr \in CRs \cup {NoCR} /\ seen \in CRs \cup {NoCR}
    BY DEF Init
  <1>4. edits \in 0..MaxEdits /\ moves \in 0..MaxMoves
    BY BoundAssumption DEF Init
  <1>5. pc \in {"idle", "sync"} /\ knows \in {"current", "older", "nothing"} /\ moved \in BOOLEAN
    BY DEF Init
  <1>6. QED
    BY <1>1, <1>2, <1>3, <1>4, <1>5 DEF TypeOK

\* Every step keeps the types.
LEMMA TypeStep == TypeOK /\ [Next]_vars => TypeOK'
  <1> SUFFICES ASSUME TypeOK, [Next]_vars
               PROVE  TypeOK'
    OBVIOUS
  <1> USE BoundAssumption DEF TypeOK
  <1>1. CASE Validate
    BY <1>1 DEF Validate
  <1>2. CASE Sync
    <2>1. View \in CRs \cup {NoCR}
      BY DEF View
    <2>2. cr' \in CRs \cup {NoCR}
      BY <1>2, <2>1, BuiltCR DEF Sync
    <2>3. moved' \in BOOLEAN
      BY <1>2 DEF Sync
    <2>4. QED
      BY <1>2, <2>2, <2>3 DEF Sync
  <1>3. CASE Abort
    BY <1>3 DEF Abort
  <1>4. CASE WatchDelivers
    BY <1>4 DEF WatchDelivers
  <1>5. CASE EditInstance
    <2>1. want' \in Specs
      <3>1. PICK f \in Fields : \E v \in Values[f] : want' = [want EXCEPT ![f] = v]
        BY <1>5 DEF EditInstance
      <3>2. PICK v \in Values[f] : want' = [want EXCEPT ![f] = v]
        BY <3>1
      <3>3. QED
        BY <3>2, EditedSpec
    <2>2. edits' \in 0..MaxEdits
      BY <1>5 DEF EditInstance
    <2>3. QED
      BY <1>5, <2>1, <2>2 DEF EditInstance
  <1>6. CASE MoveLocation
    <2>1. location' \in [Locations -> Buckets \cup {Missing}]
      BY <1>6 DEF MoveLocation
    <2>2. moves' \in 0..MaxMoves
      BY <1>6 DEF MoveLocation
    <2>3. knows' \in {"current", "older", "nothing"}
      BY <1>6 DEF MoveLocation
    <2>4. QED
      BY <1>6, <2>1, <2>2, <2>3 DEF MoveLocation
  <1>7. CASE UNCHANGED vars
    BY <1>7 DEF vars
  <1>8. QED
    BY <1>1, <1>2, <1>3, <1>4, <1>5, <1>6, <1>7 DEF Next

\* Specs, CRs and the pass under way keep their types.
THEOREM TypeCorrect == Spec => []TypeOK
  <1>1. Init => TypeOK
    BY StartsTyped
  <1>2. QED
    BY <1>1, TypeStep, PTL DEF Spec

-----------------------------------------------------------------------------
\* A CR accepts the spec it was built from, whatever it was built upon
\* (BuildMilvusSpec against validateInstance).
LEMMA BuiltIsAccepted ==
    ASSUME NEW w \in Specs, Resolves(w), NEW existing, NEW c,
           c = BuildMilvusSpec(w, existing)
    PROVE  Accepts(w, c)
  <1>1. TopologyUnchanged(w, c)
    BY DEF TopologyUnchanged, BuildMilvusSpec
  <1>2. StorageNotDecreased(w, c)
    <2>1. StorageSize(w) \in Nat
      BY ValueAssumption DEF StorageSize, Specs, Values, Unset
    <2>2. c.size = StorageSize(w)
      BY DEF BuildMilvusSpec
    <2>3. QED
      BY <2>1, <2>2 DEF StorageNotDecreased
  <1>3. MessageStreamUnchanged(w, c)
    BY DEF MessageStreamUnchanged, ExistingStream, BuildMilvusSpec, Stream, MessageStream
  <1>4. DataLocationUnchanged(w, c) /\ StorageClassUnchanged(w, c)
    BY DEF DataLocationUnchanged, StorageClassUnchanged, BuildMilvusSpec, ObjectStore, EtcdRoot
  <1>5. NoDowngrade(w, c)
    <2>1. w.version \in Nat
      BY ValueAssumption DEF Specs, Values
    <2>2. c.version = w.version
      BY DEF BuildMilvusSpec
    <2>3. QED
      BY <2>1, <2>2 DEF NoDowngrade
  <1>6. QED
    BY <1>1, <1>2, <1>3, <1>4, <1>5 DEF Accepts

\* No instance is stuck on a rejection of its own making, for any spec that was
\* applied (Validate).
THEOREM AppliedIsAccepted == Spec => []AppliedStaysValid
  <1>1. TypeOK => AppliedStaysValid
    <2> SUFFICES ASSUME TypeOK, Resolves(want), cr = BuildMilvusSpec(want, cr)
                 PROVE  Accepts(want, cr)
      BY DEF AppliedStaysValid
    <2>1. want \in Specs
      BY DEF TypeOK
    <2>2. QED
      BY ONLY <2>1, Resolves(want), cr = BuildMilvusSpec(want, cr), BuiltIsAccepted
  <1>2. QED
    BY <1>1, TypeCorrect, PTL

-----------------------------------------------------------------------------
\* A CR has a stream exactly in a cluster, a size exactly when bundled, and the log
\* has the class that is compared.
Shaped(c) == /\ c.stream = "" <=> c.mode = "standalone"
             /\ c.size = Unset <=> c.store # "bundled"
             /\ Bundled(c) => c.log = IF c.stream = "pulsar" THEN c.class ELSE ""

\* What validateInstance compares of the place of the data.
Fits(w, existing) == /\ TopologyUnchanged(w, existing)
                     /\ MessageStreamUnchanged(w, existing)
                     /\ DataLocationUnchanged(w, existing)
                     /\ StorageClassUnchanged(w, existing)

\* A pass in Sync works on a spec that was accepted against the CR as it still is,
\* or that fits the copy that it builds on.
FreshPass == pc = "sync" /\ knows = "current" => View = cr /\ Accepts(spec, cr)
OlderPass == pc = "sync" /\ knows = "older" /\ ~moved => View # NoCR /\ Fits(spec, View)

\* The CR that is seen once was; until data has moved, any is as good as another.
SeenInv == seen # NoCR => /\ cr # NoCR /\ Shaped(seen)
                          /\ ~moved => SamePlace(seen, cr)

\* The inductive invariant of DataStays.
IInv == /\ TypeOK
        /\ cr # NoCR => Shaped(cr)
        /\ FreshPass
        /\ OlderPass
        /\ SeenInv

\* Whatever Sync builds has that shape.
LEMMA BuiltShape ==
    ASSUME TypeOK, NEW w \in Specs, Resolves(w), NEW existing \in CRs \cup {NoCR}
    PROVE  Shaped(BuildMilvusSpec(w, existing))
  <1> DEFINE c == BuildMilvusSpec(w, existing)
  <1>1. MessageStream(w, existing) # ""
    BY DEF MessageStream
  <1>2. c.stream = "" <=> c.mode = "standalone"
    BY <1>1 DEF BuildMilvusSpec, Stream, Specs, Values
  <1>3. c.store = "bundled" <=> w.store = "bundled"
    <2>1. w.store # "bundled" => w.store \in Locations
      BY DEF Specs, Values
    <2>2. w.store # "bundled" => Store(w) \in Buckets
      BY <2>1 DEF Store, Resolves, TypeOK
    <2>3. w.store # "bundled" => Store(w) # "bundled"
      BY <2>2, ValueAssumption
    <2>4. w.store = "bundled" => Store(w) = "bundled"
      BY DEF Store
    <2>5. c.store = Store(w)
      BY DEF BuildMilvusSpec
    <2>6. QED
      BY <2>3, <2>4, <2>5
  <1>4. c.size = Unset <=> w.store # "bundled"
    BY ValueAssumption DEF BuildMilvusSpec, StorageSize, Specs, Values
  <1>5. Bundled(c) => c.log = IF c.stream = "pulsar" THEN c.class ELSE ""
    BY <1>3 DEF Bundled, BuildMilvusSpec, LogClass, StorageClass
  <1>6. QED
    BY <1>2, <1>3, <1>4, <1>5 DEF Shaped

\* Copies of one place are in each other's place, and a spec fits them alike.
LEMMA PlacesMeet ==
    ASSUME NEW a, NEW b, NEW c, SamePlace(a, b), SamePlace(a, c)
    PROVE  SamePlace(b, c)
  BY DEF SamePlace

LEMMA FitsAlike ==
    ASSUME NEW w, NEW a, NEW b, a # NoCR, b # NoCR, SamePlace(a, b), Fits(w, a)
    PROVE  Fits(w, b)
  <1>1. TopologyUnchanged(w, b) /\ MessageStreamUnchanged(w, b)
    BY DEF Fits, SamePlace, TopologyUnchanged, MessageStreamUnchanged, ExistingStream
  <1>2. DataLocationUnchanged(w, b) /\ StorageClassUnchanged(w, b)
    BY DEF Fits, SamePlace, DataLocationUnchanged, StorageClassUnchanged, ObjectStore,
           EtcdRoot, BuildMilvusSpec
  <1>3. QED
    BY <1>1, <1>2 DEF Fits

\* What a spec builds upon a CR that it fits stays in its place.
LEMMA FittingMovesNothing ==
    ASSUME NEW w \in Specs, NEW c \in CRs, Shaped(c), Fits(w, c)
    PROVE  SamePlace(c, BuildMilvusSpec(w, c))
  <1> DEFINE d == BuildMilvusSpec(w, c)
  <1>1. c # NoCR
    BY CRExists
  <1>2. d.store = c.store /\ d.root = c.root /\ EtcdRoot(d) = EtcdRoot(c) /\ d.class = c.class
    BY <1>1 DEF Fits, DataLocationUnchanged, StorageClassUnchanged, ObjectStore
  <1>3. d.mode = w.topology /\ c.mode = w.topology
    BY <1>1 DEF Fits, TopologyUnchanged, BuildMilvusSpec
  <1>4. d.stream = c.stream
    <2>1. CASE w.topology = "cluster"
      <3>1. c.stream # ""
        BY <1>3, <2>1 DEF Shaped
      <3>2. d.stream = MessageStream(w, c)
        BY <2>1 DEF BuildMilvusSpec, Stream
      <3>3. w.stream # "" => c.stream = w.stream
        BY <1>1, <2>1, <3>1 DEF Fits, MessageStreamUnchanged, ExistingStream
      <3>4. QED
        BY <1>1, <3>1, <3>2, <3>3 DEF MessageStream, ExistingStream
    <2>2. CASE w.topology # "cluster"
      <3>1. c.stream = ""
        BY <1>3, <2>2 DEF Shaped, CRs, Values
      <3>2. d.stream = ""
        BY <2>2 DEF BuildMilvusSpec, Stream
      <3>3. QED
        BY <3>1, <3>2
    <2>3. QED
      BY <2>1, <2>2
  <1>5. QED
    BY <1>2, <1>3, <1>4 DEF SamePlace

\* What Sync builds on a CR that it was compared with stays in place (Sync).
LEMMA ComparedStays ==
    ASSUME IInv, Sync, Resolves(spec), cr # NoCR, Compared
    PROVE  SamePlace(cr, cr')
  <1> USE DEF IInv
  <1>1. cr \in CRs /\ spec \in Specs /\ pc = "sync" /\ cr' = BuildMilvusSpec(spec, View)
    BY DEF TypeOK, Sync
  <1>2. CASE knows = "current"
    <2>1. View = cr /\ Fits(spec, cr)
      BY <1>1, <1>2 DEF FreshPass, Accepts, Fits
    <2>2. QED
      BY <1>1, <2>1, FittingMovesNothing
  <1>3. CASE knows = "older" /\ ~moved
    <2>1. View # NoCR /\ Fits(spec, View)
      BY <1>1, <1>3 DEF OlderPass
    <2>2. View \in CRs /\ Shaped(View) /\ SamePlace(View, cr)
      BY <1>1, <1>3, <2>1 DEF View, SeenInv, TypeOK, SamePlace
    <2>3. SamePlace(View, cr')
      BY <1>1, <2>1, <2>2, FittingMovesNothing
    <2>4. QED
      BY <2>2, <2>3, PlacesMeet
  <1>4. QED
    BY <1>2, <1>3 DEF Compared

\* What is accepted, and what fits, depends on the place of one location only.
LEMMA SameVerdict ==
    ASSUME spec' = spec, Store(spec)' = Store(spec), Resolves(spec)' = Resolves(spec)
    PROVE  /\ UNCHANGED cr => (Accepts(spec, cr)' <=> Accepts(spec, cr))
           /\ UNCHANGED View => (Fits(spec, View)' <=> Fits(spec, View))
  BY DEF Accepts, Fits, TopologyUnchanged, StorageNotDecreased, MessageStreamUnchanged,
         DataLocationUnchanged, StorageClassUnchanged, NoDowngrade, ExistingStream,
         ObjectStore, EtcdRoot, BuildMilvusSpec

\* No step between Validate and Sync invalidates what a pass was compared with.
LEMMA PassStep == IInv /\ [Next]_vars => FreshPass' /\ OlderPass'
  <1> SUFFICES ASSUME IInv, [Next]_vars
               PROVE  FreshPass' /\ OlderPass'
    OBVIOUS
  <1> USE DEF FreshPass, OlderPass, IInv
  <1>1. ASSUME UNCHANGED <<location, cr, seen, spec, knows, moved, pc>>
        PROVE  FreshPass' /\ OlderPass'
    <2>1. UNCHANGED View /\ Store(spec)' = Store(spec) /\ Resolves(spec)' = Resolves(spec)
      BY <1>1 DEF View, Store, Resolves
    <2>2. QED
      BY <1>1, <2>1, SameVerdict
  <1>2. CASE Validate
    <2>1. UNCHANGED View /\ spec' = want
      BY <1>2 DEF Validate, View
    <2>2. pc' = "sync" => Accepts(spec, View)'
      BY <1>2, <2>1 DEF Validate, Accepts, Resolves, TopologyUnchanged,
                  StorageNotDecreased, MessageStreamUnchanged, DataLocationUnchanged,
                  StorageClassUnchanged, NoDowngrade, ExistingStream, ObjectStore,
                  EtcdRoot, BuildMilvusSpec, Store
    <2>3. knows' = "current" => View' = cr'
      BY <1>2, <2>1 DEF Validate
    <2>4. knows' = "older" => View' # NoCR
      BY <1>2, <2>1 DEF Validate
    <2>5. pc' = "sync" => Fits(spec, View)'
      BY <2>2 DEF Accepts, Fits
    <2>6. QED
      BY <2>2, <2>3, <2>4, <2>5
  <1>3. CASE Sync
    BY <1>3 DEF Sync
  <1>4. CASE Abort
    BY <1>4 DEF Abort
  <1>5. CASE WatchDelivers
    <2>1. Store(spec)' = Store(spec) /\ Resolves(spec)' = Resolves(spec) /\ spec' = spec
      BY <1>5 DEF WatchDelivers, Store, Resolves
    <2>2. FreshPass'
      <3>1. pc = "sync" => knows # "current"
        BY <1>5 DEF WatchDelivers, View
      <3>2. QED
        BY <1>5, <3>1 DEF WatchDelivers
    <2>3. OlderPass'
      <3> SUFFICES ASSUME pc' = "sync", knows' = "older", ~moved'
                   PROVE  View' # NoCR /\ Fits(spec, View)'
        OBVIOUS
      <3>1. Lag /\ View' = cr /\ View = seen
        BY <1>5 DEF WatchDelivers, View
      <3>2. seen # NoCR /\ Fits(spec, seen)
        BY <1>5, <3>1 DEF WatchDelivers
      <3>3. cr # NoCR /\ SamePlace(seen, cr)
        BY <1>5, <3>2 DEF WatchDelivers, SeenInv
      <3>4. Fits(spec, cr)
        BY <3>2, <3>3, FitsAlike
      <3>5. Fits(spec, View)'
        BY <2>1, <3>1, <3>4
           DEF Fits, TopologyUnchanged, MessageStreamUnchanged, DataLocationUnchanged,
               StorageClassUnchanged, ExistingStream, ObjectStore, EtcdRoot, BuildMilvusSpec
      <3>6. QED
        BY <3>1, <3>3, <3>5
    <2>4. QED
      BY <2>2, <2>3
  <1>6. CASE EditInstance
    BY <1>1, <1>6 DEF EditInstance
  <1>7. CASE MoveLocation
    <2> SUFFICES ASSUME pc' = "sync", knows' # "nothing"
                 PROVE  FreshPass' /\ OlderPass'
      BY DEF FreshPass, OlderPass
    <2>1. UNCHANGED <<cr, seen, spec, moved, pc>> /\ UNCHANGED View
      BY <1>7 DEF MoveLocation, View
    <2>2. PICK l \in Locations :
            /\ \E b : location' = [location EXCEPT ![l] = b]
            /\ knows' = IF pc = "sync" /\ spec.store = l THEN "nothing" ELSE knows
      BY <1>7 DEF MoveLocation
    <2>3. spec.store # l /\ knows' = knows
      BY <2>1, <2>2
    <2>4. spec.store \in Locations => location'[spec.store] = location[spec.store]
      BY <2>2, <2>3 DEF TypeOK
    <2>5. spec.store # "bundled" => spec.store \in Locations
      BY DEF TypeOK, Specs, Values
    <2>6. Store(spec)' = Store(spec) /\ Resolves(spec)' = Resolves(spec)
      BY <2>1, <2>4, <2>5 DEF Store, Resolves
    <2>7. QED
      BY <2>1, <2>3, <2>6, SameVerdict
  <1>8. CASE UNCHANGED vars
    BY <1>1, <1>8 DEF vars
  <1>9. QED
    BY <1>2, <1>3, <1>4, <1>5, <1>6, <1>7, <1>8 DEF Next

\* The inductive invariant, for every sequence of edits and passes (Validate, Sync).
THEOREM InvariantHolds == Spec => []IInv
  <1>1. Init => IInv
    BY StartsTyped DEF Init, IInv, FreshPass, OlderPass, SeenInv
  <1>2. IInv /\ [Next]_vars => IInv'
    <2> SUFFICES ASSUME IInv, [Next]_vars
                 PROVE  IInv'
      OBVIOUS
    <2>1. TypeOK' /\ FreshPass' /\ OlderPass'
      BY TypeStep, PassStep DEF IInv
    <2>2. (cr # NoCR => Shaped(cr))' /\ SeenInv'
      <3>1. CASE Sync /\ Resolves(spec)
        <4>1. cr' = BuildMilvusSpec(spec, View) /\ UNCHANGED seen
          BY <3>1 DEF Sync
        <4>2. View \in CRs \cup {NoCR} /\ spec \in Specs /\ TypeOK
          BY DEF IInv, TypeOK, View
        <4>3. Shaped(cr') /\ cr' # NoCR
          BY <3>1, <4>1, <4>2, BuiltShape, BuiltCR, CRExists
        <4>4. ASSUME seen # NoCR, ~moved'
              PROVE  SamePlace(seen, cr')
          <5>1. cr # NoCR /\ ~moved /\ SamePlace(seen, cr)
            BY <3>1, <4>4 DEF Sync, IInv, SeenInv
          <5>2. SamePlace(cr, cr')
            <6>1. CASE knows = "nothing"
              BY <3>1, <4>4, <5>1, <6>1 DEF Sync
            <6>2. CASE knows # "nothing"
              BY <3>1, <5>1, <6>2, ComparedStays DEF Compared, IInv, TypeOK
            <6>3. QED
              BY <6>1, <6>2
          <5>3. QED
            BY <5>1, <5>2 DEF SamePlace
        <4>5. Shaped(seen)' <=> Shaped(seen)
          BY <4>1 DEF Shaped, Bundled
        <4>6. QED
          BY <4>1, <4>3, <4>4, <4>5 DEF IInv, SeenInv
      <3>2. CASE UNCHANGED <<cr, seen, moved>>
        BY <3>2 DEF IInv, Shaped, Bundled, SeenInv, SamePlace, EtcdRoot
      <3>3. CASE Sync /\ ~Resolves(spec)
        <4>1. UNCHANGED <<cr, seen>> /\ (~moved' => ~moved)
          BY <3>3 DEF Sync
        <4>2. QED
          BY <4>1 DEF IInv, Shaped, Bundled, SeenInv, SamePlace, EtcdRoot
      <3>4. CASE WatchDelivers
        <4>1. seen' = cr /\ cr' = cr
          BY <3>4 DEF WatchDelivers
        <4>2. QED
          BY <4>1 DEF IInv, Shaped, Bundled, SeenInv, SamePlace, EtcdRoot
      <3>5. QED
        BY <3>1, <3>2, <3>3, <3>4 DEF Next, Validate, Abort, EditInstance, MoveLocation, vars
    <2>3. QED
      BY <2>1, <2>2 DEF IInv
  <1>3. QED
    BY <1>1, <1>2, PTL DEF Spec

-----------------------------------------------------------------------------
\* What an accepted spec builds upon the CR it was compared with only grows.
LEMMA AcceptedGrows ==
    ASSUME cr \in CRs, Shaped(cr), NEW w \in Specs, Accepts(w, cr), Resolves(w), TypeOK,
           cr' = BuildMilvusSpec(w, cr), SamePlace(cr, cr'), Shaped(cr')
    PROVE  OnlyForward
  <1>0. cr # NoCR
    BY CRExists
  <1>1. cr'.version >= cr.version
    BY <1>0 DEF Accepts, NoDowngrade, BuildMilvusSpec
  <1>2. cr'.size >= cr.size
    <2>1. CASE w.store = "bundled"
      BY <1>0, <2>1 DEF Accepts, StorageNotDecreased, BuildMilvusSpec
    <2>2. CASE w.store # "bundled"
      <3>1. cr'.size = Unset
        BY <2>2 DEF BuildMilvusSpec, StorageSize
      <3>2. cr.size = Unset
        BY <3>1 DEF SamePlace, Shaped
      <3>3. QED
        BY <3>1, <3>2 DEF Unset
    <2>3. QED
      BY <2>1, <2>2
  <1>3. QED
    BY <1>1, <1>2 DEF OnlyForward

\* However long the sequence of edits, whatever is cleared in between and however
\* old the copy that a pass is compared with, objects, metadata prefix, volumes,
\* topology and log stay where they are; with the CR as it is, volumes only grow
\* and Milvus is only upgraded (Validate, Sync).
THEOREM DataNeverMoves == Spec => DataStays
  <1>1. IInv /\ IInv' /\ [Next]_vars =>
          \/ cr # NoCR => /\ Compared => SamePlace(cr, cr') /\ LogVolumesStay
                          /\ knows = "current" => OnlyForward
          \/ UNCHANGED vars
    <2> SUFFICES ASSUME IInv, IInv', [Next]_vars, cr # NoCR, ~UNCHANGED vars
                 PROVE  /\ Compared => SamePlace(cr, cr') /\ LogVolumesStay
                        /\ knows = "current" => OnlyForward
      OBVIOUS
    <2>1. CASE Sync /\ Resolves(spec)
      <3>1. Compared => SamePlace(cr, cr')
        BY <2>1, ComparedStays
      <3>2. cr' # NoCR
        BY <2>1, BuiltCR, CRExists DEF Sync, IInv, TypeOK, View
      <3>3. Shaped(cr) /\ Shaped(cr')
        BY <3>2 DEF IInv, Shaped, Bundled
      <3>4. SamePlace(cr, cr') => LogVolumesStay
        BY <3>3 DEF SamePlace, LogVolumesStay, Shaped
      <3>5. ASSUME knows = "current"
            PROVE  OnlyForward
        <4>1. cr' = BuildMilvusSpec(spec, cr) /\ Accepts(spec, cr)
          BY <2>1, <3>5 DEF Sync, IInv, FreshPass
        <4>2. TypeOK /\ cr \in CRs /\ spec \in Specs
          BY DEF IInv, TypeOK
        <4>3. SamePlace(cr, cr')
          BY <3>1, <3>5 DEF Compared
        <4>4. Resolves(spec)
          BY <2>1
        <4>5. QED
          BY ONLY <3>3, <4>1, <4>2, <4>3, <4>4, AcceptedGrows
      <3>6. QED
        BY <3>1, <3>4, <3>5
    <2>2. CASE UNCHANGED cr
      <3>1. cr.size \in Nat /\ cr.version \in Nat
        <4>1. cr \in CRs
          BY DEF IInv, TypeOK
        <4>2. cr.size \in {Unset} \cup Sizes /\ cr.version \in Versions
          BY <4>1 DEF CRs
        <4>3. Versions \subseteq Nat /\ {Unset} \cup Sizes \subseteq Nat
          BY ValueAssumption DEF Unset
        <4>4. QED
          BY <4>2, <4>3
      <3>2. QED
        BY <2>2, <3>1 DEF SamePlace, LogVolumesStay, OnlyForward, EtcdRoot
    <2>3. QED
      BY <2>1, <2>2 DEF Next, Validate, Sync, Abort, WatchDelivers, EditInstance,
                        MoveLocation, vars
  <1>2. QED
    BY <1>1, InvariantHolds, PTL DEF Spec, DataStays
-----------------------------------------------------------------------------
\* A CR that a pass has written is what its spec builds upon that CR, whatever the
\* pass built it upon: no CR, the current one, or an old copy.  The next pass over
\* the same spec has nothing to change (BuildMilvusSpec, existingMessageStreamType).
WrittenIsFixed == [][cr' # cr => cr' = BuildMilvusSpec(spec, cr')]_vars

\* What a spec builds upon its own result is that result.
LEMMA BuildIsIdempotent ==
    ASSUME TypeOK, NEW w \in Specs, Resolves(w), NEW existing \in CRs \cup {NoCR}
    PROVE  BuildMilvusSpec(w, BuildMilvusSpec(w, existing)) = BuildMilvusSpec(w, existing)
  <1> DEFINE c == BuildMilvusSpec(w, existing)
  <1>1. c # NoCR
    BY BuiltCR, CRExists
  <1>2. MessageStream(w, existing) # ""
    BY DEF MessageStream
  <1>3. c.stream = IF w.topology = "cluster" THEN MessageStream(w, existing) ELSE ""
    BY DEF BuildMilvusSpec, Stream
  <1> HIDE DEF c
  <1>4. w.topology = "cluster" => MessageStream(w, c) = MessageStream(w, existing)
    BY <1>1, <1>2, <1>3 DEF MessageStream, ExistingStream
  <1>5. QED
    BY <1>4 DEF BuildMilvusSpec, Stream, c

\* Sync is idempotent on every CR that it writes (WrittenIsFixed).
THEOREM SyncIsIdempotent == Spec => WrittenIsFixed
  <1>1. TypeOK /\ [Next]_vars => [cr' # cr => cr' = BuildMilvusSpec(spec, cr')]_vars
    <2> SUFFICES ASSUME TypeOK, Next, cr' # cr
                 PROVE  cr' = BuildMilvusSpec(spec, cr')
      OBVIOUS
    <2>1. Sync /\ Resolves(spec)
      BY DEF Next, Validate, Sync, Abort, WatchDelivers, EditInstance, MoveLocation
    <2>2. cr' = BuildMilvusSpec(spec, View)
      BY <2>1 DEF Sync
    <2>3. spec \in Specs /\ View \in CRs \cup {NoCR}
      BY DEF TypeOK, View
    <2>4. QED
      BY <2>1, <2>2, <2>3, BuildIsIdempotent
  <1>2. QED
    BY <1>1, TypeCorrect, PTL DEF Spec, WrittenIsFixed
=============================================================================
