------------------------------ MODULE Scaling ------------------------------
(***************************************************************************)
(* Scale-in and autoscaling of a cluster (scaling.go).  Validate refuses a *)
(* spec with fewer query or streaming nodes than a loaded collection has   *)
(* replicas; Sync takes dropped autoscalers out of the Milvus CR by a      *)
(* patch of its own, and then applies the CR.  Milvus answers resource     *)
(* group by resource group, users load collections and move replicas       *)
(* meanwhile, and the CR is read from a cache.  How many nodes really run  *)
(* is the operator's and the autoscaler's affair: the provider decides on  *)
(* the floor, the replicas or the minimum of the autoscaler.               *)
(***************************************************************************)
EXTENDS Naturals, FiniteSets, FiniteSetsExt

CONSTANTS Components,     \* the components of the cluster
          ReplicaHosts,   \* those each replica needs a node of (replicaHosts)
          Autoscalable,   \* those an autoscaler may scale (autoscalableComponents)
          Collections,
          ResourceGroups, \* where Milvus places the replicas of a collection
          MaxNodes,       \* bound on nodes of a component and on loaded replicas
          MaxEdits,       \* bound on edits of the spec
          MaxLoads,       \* bound on loads, releases and transfers
          MaxFaults       \* bound on failed calls, crashes and health drops

ASSUME ComponentAssumption == /\ ReplicaHosts \subseteq Components /\ ReplicaHosts # {}
                              /\ Autoscalable \subseteq Components
ASSUME GroupAssumption == IsFiniteSet(ResourceGroups)
ASSUME BoundAssumption == /\ MaxNodes \in Nat \ {0}
                          /\ {MaxEdits, MaxLoads, MaxFaults} \subseteq Nat

\* What a spec may say of a component (validateAutoscaling); it need not list it.
Unlisted == [listed |-> FALSE, floor |-> 1, auto |-> FALSE]
Shapes(c) == {Unlisted} \cup [listed : {TRUE}, floor : 1..MaxNodes,
                              auto : IF c \in Autoscalable THEN BOOLEAN ELSE {FALSE}]
Specs == {w \in [Components -> UNION {Shapes(c) : c \in Components}] :
            \A c \in Components : w[c] \in Shapes(c)}

\* A component in the CR.  The operator writes hpa.behavior into a "set" hpa
\* whenever it updates the CR and so "co-owns" it.
CRComponents == [floor : 1..MaxNodes, hpa : {"none", "set", "coowned"}]

VARIABLES want,     \* the Instance's spec
          cr,       \* the components of the Milvus CR
          healthy,  \* the CR's status is Healthy
          seen,     \* the provider's cached copy of both
          loaded,   \* replicas of each collection in each resource group
          pass,     \* the pass under way
          edits, loads, faults

vars == <<want, cr, healthy, seen, loaded, pass, edits, loads, faults>>

\* Of the last two fields the code knows nothing: the CR was healthy, and its copy
\* up to date, when the pass read it; loaded replicas have changed since.
Idle == [at |-> "idle", want |-> [c \in Components |-> Unlisted], shrinking |-> {},
         unread |-> {}, sum |-> [k \in Collections |-> 0], silent |-> FALSE,
         informed |-> FALSE, moved |-> FALSE]

Passes == [at : {"idle", "ask", "clear", "apply"}, want : Specs, shrinking : SUBSET ReplicaHosts,
           unread : SUBSET ResourceGroups, sum : [Collections -> Nat],
           silent : BOOLEAN, informed : BOOLEAN, moved : BOOLEAN]

TypeOK == /\ want \in Specs
          /\ cr \in [Components -> CRComponents]
          /\ \A c \in Components \ Autoscalable : cr[c].hpa = "none"
          /\ healthy \in BOOLEAN
          /\ seen \in [cr : [Components -> CRComponents], healthy : BOOLEAN]
          /\ loaded \in [Collections -> [ResourceGroups -> 0..MaxNodes]]
          /\ pass \in Passes
          /\ edits \in 0..MaxEdits /\ loads \in 0..MaxLoads /\ faults \in 0..MaxFaults

Current == [cr |-> cr, healthy |-> healthy]

\* BuildMilvusSpec of a component: what is not listed gets a single replica.
Rendered(shape) == [floor |-> shape.floor, hpa |-> IF shape.auto THEN "set" ELSE "none"]

Init == /\ want \in {w \in Specs : \A c \in Components : w[c].listed}
        /\ cr = [c \in Components |-> Rendered(want[c])]
        /\ healthy = TRUE
        /\ seen = Current
        /\ loaded = [k \in Collections |-> [g \in ResourceGroups |-> 0]]
        /\ pass = Idle
        /\ edits = 0 /\ loads = 0 /\ faults = 0

Fault == faults < MaxFaults /\ faults' = faults + 1
Replicas(k) == MapThenSumSet(LAMBDA g : loaded[k][g], ResourceGroups)
-----------------------------------------------------------------------------
\* requestedNodes: replicas, autoscaling minimum or total of the groups, of a
\* component that is listed; deployedNodes: the same of the cached CR.  Variants
\* with a bug, for mutation runs, carry the operator's name and a suffix.
Shrinking(w) ==
    {c \in ReplicaHosts : w[c].listed /\ w[c].floor < seen.cr[c].floor}

\* validateReplicaHostsScaleIn asks Milvus only when a floor drops, and not an
\* unhealthy one.
Validate ==
    /\ pass.at = "idle"
    /\ LET shrinking == IF seen.healthy THEN Shrinking(want) ELSE {}
       IN  pass' = [Idle EXCEPT !.at = IF shrinking # {} THEN "ask" ELSE "clear",
                                !.want = want, !.shrinking = shrinking,
                                !.unread = IF shrinking # {} THEN ResourceGroups ELSE {},
                                !.informed = healthy /\ seen = Current]
    /\ UNCHANGED <<want, cr, healthy, seen, loaded, edits, loads, faults>>

\* LoadedReplicas adds up what Milvus says of each resource group in turn.
DescribeGroup_Overwrites ==
    /\ pass.at = "ask"
    /\ \E g \in pass.unread :
          pass' = [pass EXCEPT !.unread = @ \ {g}, !.sum = [k \in Collections |-> loaded[k][g]]]
    /\ UNCHANGED <<want, cr, healthy, seen, loaded, edits, loads, faults>>
DescribeGroup ==
    /\ pass.at = "ask"
    /\ \E g \in pass.unread :
          pass' = [pass EXCEPT !.unread = @ \ {g},
                               !.sum = [k \in Collections |-> @[k] + loaded[k][g]]]
    /\ UNCHANGED <<want, cr, healthy, seen, loaded, edits, loads, faults>>

\* A missing Secret, or an error of any of the calls, lets the change through.
NoAnswer ==
    /\ pass.at = "ask" /\ Fault
    /\ pass' = [pass EXCEPT !.at = "clear", !.shrinking = {}, !.unread = {},
                            !.sum = Idle.sum, !.silent = TRUE]
    /\ UNCHANGED <<want, cr, healthy, seen, loaded, edits, loads>>

\* A rejection ends the pass before anything is changed.
Surplus_OrEqual == \E c \in pass.shrinking, k \in Collections : pass.sum[k] >= pass.want[c].floor
Surplus == \E c \in pass.shrinking, k \in Collections : pass.sum[k] > pass.want[c].floor
Answered ==
    /\ pass.at = "ask" /\ pass.unread = {}
    /\ pass' = IF Surplus THEN Idle
               ELSE [pass EXCEPT !.at = "clear", !.shrinking = {}, !.sum = Idle.sum]
    /\ UNCHANGED <<want, cr, healthy, seen, loaded, edits, loads, faults>>

\* clearDroppedAutoscaling: one JSON patch for all of them; the API server
\* refuses it when one is gone already.
ClearDropped_Skipped ==
    /\ pass.at = "clear"
    /\ pass' = [pass EXCEPT !.at = "apply"]
    /\ UNCHANGED <<want, cr, healthy, seen, loaded, edits, loads, faults>>
ClearDropped_Partly ==
    /\ pass.at = "clear"
    /\ cr' = [c \in Components |-> IF cr[c].hpa # "none" /\ ~pass.want[c].auto
                                  THEN [cr[c] EXCEPT !.hpa = "partial"] ELSE cr[c]]
    /\ pass' = [pass EXCEPT !.at = "apply"]
    /\ UNCHANGED <<want, healthy, seen, loaded, edits, loads, faults>>
ClearDropped ==
    /\ pass.at = "clear"
    /\ LET dropped == {c \in Autoscalable : seen.cr[c].hpa # "none" /\ ~pass.want[c].auto}
       IN  \/ /\ \A c \in dropped : cr[c].hpa # "none"
              /\ cr' = [c \in Components |->
                          IF c \in dropped THEN [cr[c] EXCEPT !.hpa = "none"] ELSE cr[c]]
              /\ pass' = [pass EXCEPT !.at = "apply"]
           \/ /\ \E c \in dropped : cr[c].hpa = "none"
              /\ pass' = Idle
              /\ UNCHANGED cr
    /\ UNCHANGED <<want, healthy, seen, loaded, edits, loads, faults>>

\* Apply is server-side: of an hpa it no longer sends, the operator's part
\* stays, which the CRD rejects for its missing maxReplicas.
LeavesPartialHPA == \E c \in Components : cr[c].hpa = "coowned" /\ ~pass.want[c].auto
Applied(shape, old) ==
    [floor |-> shape.floor,
     hpa   |-> IF ~shape.auto THEN "none" ELSE IF old.hpa = "coowned" THEN "coowned" ELSE "set"]
Apply ==
    /\ pass.at = "apply"
    /\ cr' = IF LeavesPartialHPA THEN cr
             ELSE [c \in Components |-> Applied(pass.want[c], cr[c])]
    /\ pass' = Idle
    /\ UNCHANGED <<want, healthy, seen, loaded, edits, loads, faults>>

\* An error of another call, or a crash, ends the pass between its calls.
Abort ==
    /\ pass.at # "idle" /\ Fault
    /\ pass' = Idle
    /\ UNCHANGED <<want, cr, healthy, seen, loaded, edits, loads>>

PassSteps == DescribeGroup \/ Answered \/ ClearDropped \/ Apply
-----------------------------------------------------------------------------
\* The Milvus operator fills in an hpa's behavior with an update of the CR.
OperatorUpdates ==
    /\ \E c \in Components :
          cr[c].hpa = "set" /\ cr' = [cr EXCEPT ![c].hpa = "coowned"]
    /\ UNCHANGED <<want, healthy, seen, loaded, pass, edits, loads, faults>>

HealthChanges ==
    /\ \/ healthy /\ Fault
       \/ ~healthy /\ UNCHANGED faults
    /\ healthy' = ~healthy
    /\ UNCHANGED <<want, cr, seen, loaded, pass, edits, loads>>

WatchDelivers ==
    /\ seen # Current
    /\ seen' = Current
    /\ UNCHANGED <<want, cr, healthy, loaded, pass, edits, loads, faults>>

\* Milvus refuses to load more replicas than a replica host has nodes, and an
\* autoscaler may have added some.
Capacity(c) == IF cr[c].hpa = "none" THEN cr[c].floor ELSE MaxNodes

\* Users load a collection with some replicas, release it, or transfer a replica
\* to another resource group.
LoadChange(k) ==
    /\ loads < MaxLoads /\ loads' = loads + 1
    /\ \/ /\ Replicas(k) = 0
          /\ \E placing \in [ResourceGroups -> 0..MaxNodes] :
                /\ LET replicas == MapThenSumSet(LAMBDA g : placing[g], ResourceGroups)
                   IN  replicas > 0 /\ \A c \in ReplicaHosts : replicas <= Capacity(c)
                /\ loaded' = [loaded EXCEPT ![k] = placing]
       \/ /\ Replicas(k) > 0
          /\ loaded' = [loaded EXCEPT ![k] = [g \in ResourceGroups |-> 0]]
       \/ \E g, h \in ResourceGroups :
             /\ g # h /\ loaded[k][g] > 0
             /\ loaded' = [loaded EXCEPT ![k][g] = @ - 1, ![k][h] = @ + 1]
    /\ pass' = [pass EXCEPT !.moved = pass.at # "idle"]
    /\ UNCHANGED <<want, cr, healthy, seen, edits, faults>>

EditInstance ==
    /\ edits < MaxEdits /\ edits' = edits + 1
    /\ \E c \in Components : \E shape \in Shapes(c) \ {want[c]} :
          want' = [want EXCEPT ![c] = shape]
    /\ UNCHANGED <<cr, healthy, seen, loaded, pass, loads, faults>>

Next == \/ Validate \/ PassSteps \/ NoAnswer \/ Abort
        \/ OperatorUpdates \/ HealthChanges \/ WatchDelivers
        \/ \E k \in Collections : LoadChange(k)
        \/ EditInstance

Spec == Init /\ [][Next]_vars

\* Watches and errors start passes again; the watch delivers; Milvus recovers.
FairSpec == /\ Spec
            /\ WF_vars(Validate) /\ WF_vars(PassSteps) /\ WF_vars(WatchDelivers)
            /\ WF_vars(~healthy /\ HealthChanges)
-----------------------------------------------------------------------------
Stranded(c, floor) == \E k \in Collections : Replicas(k) > floor
Lowers(c) == cr'[c].floor < cr[c].floor
Uninterrupted == pass.informed /\ ~pass.silent /\ ~pass.moved

\* Whatever was loaded, moved and released before, and wherever earlier passes
\* stopped: a pass that found Milvus healthy and was answered, with no load change
\* under way, takes no component in the spec below the replicas of a loaded
\* collection, and is only turned back when one really stands in its way
\* (validateReplicaHostsScaleIn, LoadedReplicas).
ScaleInExact ==
    [][Uninterrupted =>
         /\ \A c \in ReplicaHosts :
               Lowers(c) /\ pass.want[c].listed => ~Stranded(c, cr'[c].floor)
         /\ pass.at = "ask" /\ pass'.at = "idle" /\ faults' = faults =>
               \E c \in ReplicaHosts : Stranded(c, pass.want[c].floor)]_vars

Fits(w) == \A c \in ReplicaHosts : w[c].listed => ~Stranded(c, w[c].floor)

\* Stale copies, a half done pass and an operator that writes into the hpa in
\* between notwithstanding, a spec that no collection stands in the way of is what
\* the CR says in the end, its autoscalers too (clearDroppedAutoscaling, Apply).
SpecLands ==
    <>[](Fits(want) => \A c \in Components : /\ cr[c].floor = want[c].floor
                                             /\ (cr[c].hpa # "none") = want[c].auto)

\* README: "Lowering queryNode or streamingNode replicas ... below the replica
\* count of a loaded collection is rejected".
LoweringIsRejected ==
    [][\A c \in ReplicaHosts : Lowers(c) /\ Uninterrupted => ~Stranded(c, cr'[c].floor)]_vars
=============================================================================
