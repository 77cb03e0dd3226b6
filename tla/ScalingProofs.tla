--------------------------- MODULE ScalingProofs ---------------------------
(***************************************************************************)
(* Proofs about Scaling, for any components, collections, resource groups  *)
(* and bounds: the answers of LoadedReplicas add up, an undisturbed pass   *)
(* judges a scale-in exactly, and one that read the CR as it is lands.     *)
(***************************************************************************)
EXTENDS Scaling, Totals

\* Milvus never has more replicas of a collection than fit.
Fitting == \A k \in Collections : Replicas(k) <= MaxNodes

\* While nobody loads, what was added up is what the groups asked so far hold.
SumInv ==
    pass.at = "ask" /\ ~pass.moved =>
        \A k \in Collections : pass.sum[k] = Total(loaded[k], ResourceGroups \ pass.unread)

\* Nothing but Apply changes a floor: what a pass that knew the CR lowers, it has
\* asked about or is asking about.
FloorInv ==
    /\ pass.at = "idle" => ~pass.informed
    /\ pass.informed =>
         \A c \in ReplicaHosts :
            pass.want[c].listed /\ pass.want[c].floor < cr[c].floor =>
                /\ pass.at = "ask" => c \in pass.shrinking
                /\ pass.at # "ask" /\ ~pass.silent /\ ~pass.moved => ~Stranded(c, pass.want[c].floor)

\* The operator puts nothing into an hpa that is gone, and takes none away: the
\* autoscalers such a pass saw are there until it drops them, and stay dropped.
HPAInv ==
    /\ pass.informed /\ pass.at \in {"ask", "clear"} =>
          \A c \in Components : seen.cr[c].hpa = "none" <=> cr[c].hpa = "none"
    /\ pass.informed /\ pass.at = "apply" =>
          \A c \in Components : ~pass.want[c].auto => cr[c].hpa = "none"

IInv == TypeOK /\ Fitting /\ SumInv /\ FloorInv /\ HPAInv

InformedEnd == /\ pass.informed /\ pass.at \in {"clear", "apply"}
               /\ pass'.at = "idle" /\ faults' = faults
CRFollows == \A c \in Components : /\ cr'[c].floor = pass.want[c].floor
                                   /\ cr'[c].hpa # "none" <=> pass.want[c].auto

\* A pass that found the CR healthy and its copy up to date is turned back after
\* its validation by nothing but a failed call: the API server finds what the
\* patch removes, the CRD accepts the apply, and the CR then says what the spec
\* did (clearDroppedAutoscaling, Apply).
InformedPassLands == [][InformedEnd => CRFollows]_vars
-----------------------------------------------------------------------------
\* What validateAutoscaling leaves of a component of a spec.
LEMMA ShapeType ==
    ASSUME NEW w \in Specs, NEW c \in Components
    PROVE  /\ w[c].floor \in 1..MaxNodes /\ w[c].listed \in BOOLEAN /\ w[c].auto \in BOOLEAN
           /\ w[c].auto => c \in Autoscalable
  <1>1. w[c] \in Shapes(c)
    BY DEF Specs
  <1>2. CASE w[c] = Unlisted
    BY <1>2, BoundAssumption DEF Unlisted
  <1>3. CASE w[c] \in [listed : {TRUE}, floor : 1..MaxNodes,
                       auto : IF c \in Autoscalable THEN BOOLEAN ELSE {FALSE}]
    <2>1. CASE c \in Autoscalable
      BY <1>3, <2>1
    <2>2. CASE c \notin Autoscalable
      BY <1>3, <2>2
    <2>3. QED
      BY <2>1, <2>2
  <1>4. QED
    BY <1>1, <1>2, <1>3 DEF Shapes

\* A spec of unlisted components is one, so a pass not begun is a pass.
LEMMA IdleIsAPass == Idle \in Passes
  <1>1. \A c \in Components : Unlisted \in Shapes(c)
    BY DEF Shapes
  <1>2. [c \in Components |-> Unlisted] \in Specs
    BY <1>1 DEF Specs
  <1>3. [k \in Collections |-> 0] \in [Collections -> Nat]
    OBVIOUS
  <1>4. QED
    BY <1>2, <1>3 DEF Idle, Passes

\* What a component is rendered to is a component of a CR.
LEMMA RenderedType ==
    ASSUME NEW w \in Specs, NEW c \in Components
    PROVE  /\ Rendered(w[c]) \in CRComponents
           /\ c \notin Autoscalable => Rendered(w[c]).hpa = "none"
  BY ShapeType DEF Rendered, CRComponents

\* Replicas is a total over the resource groups.
LEMMA ReplicasIsTotal ==
    ASSUME NEW k \in Collections
    PROVE  /\ Replicas(k) = Total(loaded[k], ResourceGroups)
           /\ Replicas(k)' = Total(loaded'[k], ResourceGroups)
  BY DEF Replicas, Total, MapThenSumSet, MapThenFoldSet

\* The initial states are typed, and nothing is loaded in them.
LEMMA InitTypes == Init => TypeOK /\ Fitting
  <1> SUFFICES ASSUME Init
               PROVE  TypeOK /\ Fitting
    OBVIOUS
  <1>1. want \in Specs
    BY DEF Init
  <1>2. /\ cr \in [Components -> CRComponents]
        /\ \A c \in Components \ Autoscalable : cr[c].hpa = "none"
    BY <1>1, RenderedType DEF Init
  <1>3. seen \in [cr : [Components -> CRComponents], healthy : BOOLEAN]
    BY <1>2 DEF Init, Current
  <1>4. loaded \in [Collections -> [ResourceGroups -> 0..MaxNodes]]
    BY BoundAssumption DEF Init
  <1>5. pass \in Passes
    BY IdleIsAPass DEF Init
  <1>6. TypeOK
    BY <1>1, <1>2, <1>3, <1>4, <1>5, BoundAssumption DEF Init, TypeOK
  <1>7. ASSUME NEW k \in Collections
        PROVE  Replicas(k) = 0
    <2>1. \A g \in ResourceGroups : loaded[k][g] = 0
      BY DEF Init
    <2>2. QED
      BY <2>1, GroupAssumption, BoundAssumption, TotalIsZero, ReplicasIsTotal
  <1>8. QED
    BY <1>6, <1>7, BoundAssumption DEF Fitting

\* A node more than a replica host can have is never asked of it, and there is a
\* replica host: what Milvus loads at once fits.
LEMMA CapacityFits ==
    ASSUME TypeOK, NEW n \in Nat, \A c \in ReplicaHosts : n <= Capacity(c)
    PROVE  n <= MaxNodes
  <1>1. PICK c \in ReplicaHosts : n <= Capacity(c)
    BY ComponentAssumption
  <1>2. cr[c].floor \in 1..MaxNodes
    BY ComponentAssumption DEF TypeOK, CRComponents
  <1>3. Capacity(c) <= MaxNodes /\ Capacity(c) \in Nat
    BY <1>2, BoundAssumption DEF Capacity
  <1>4. QED
    BY <1>1, <1>3, BoundAssumption

\* A replica moves from one group to another and none is lost: the total over the
\* two, and so over all, stays.
LEMMA TransferKeepsTotal ==
    ASSUME NEW f \in [ResourceGroups -> 0..MaxNodes], NEW e,
           NEW g \in ResourceGroups, NEW h \in ResourceGroups, g # h, f[g] > 0,
           e[g] = f[g] - 1, e[h] = f[h] + 1,
           \A i \in ResourceGroups \ {g, h} : e[i] = f[i],
           Total(f, ResourceGroups) <= MaxNodes
    PROVE  /\ e[h] <= MaxNodes
           /\ Total(e, ResourceGroups) = Total(f, ResourceGroups)
  <1> DEFINE G == ResourceGroups
  <1>1. IsFiniteSet(G) /\ IsFiniteSet(G \ {g}) /\ IsFiniteSet((G \ {g}) \ {h})
    BY GroupAssumption, FS_RemoveElement
  <1>2. MaxNodes \in Nat /\ MaxNodes + 1 \in Nat
    BY BoundAssumption
  <1>3. h \in G \ {g}
    OBVIOUS
  <1>4. /\ Total(f, G) = f[g] + Total(f, G \ {g})
        /\ Total(f, G) \in Nat /\ Total(f, G \ {g}) \in Nat
    BY <1>1, <1>2, TotalAdd
  <1>5. /\ Total(f, G \ {g}) = f[h] + Total(f, (G \ {g}) \ {h})
        /\ Total(f, (G \ {g}) \ {h}) \in Nat
    BY <1>1, <1>2, <1>3, TotalAdd
  <1>6. f[g] \in 0..MaxNodes /\ f[h] \in 0..MaxNodes
    OBVIOUS
  <1>7. \A i \in G : e[i] \in 0..(MaxNodes + 1)
    <2> TAKE i \in G
    <2>1. f[i] \in 0..MaxNodes
      OBVIOUS
    <2>2. QED
      BY <1>2, <1>6, <2>1
  <1>8. Total(e, G) = e[g] + Total(e, G \ {g})
    BY <1>1, <1>2, <1>7, TotalAdd
  <1>9. Total(e, G \ {g}) = e[h] + Total(e, (G \ {g}) \ {h})
    BY <1>1, <1>2, <1>3, <1>7, TotalAdd
  <1>10. Total(e, (G \ {g}) \ {h}) = Total(f, (G \ {g}) \ {h})
    <2>1. \A i \in (G \ {g}) \ {h} : f[i] \in 0..MaxNodes /\ e[i] = f[i]
      OBVIOUS
    <2>2. QED
      BY <1>1, <1>2, <2>1, TotalSame
  <1>11. e[h] <= MaxNodes
    BY <1>2, <1>4, <1>5, <1>6
  <1>12. Total(e, G) = Total(f, G)
    <2>1. e[g] + (e[h] + Total(f, (G \ {g}) \ {h})) = f[g] + (f[h] + Total(f, (G \ {g}) \ {h}))
      BY <1>5, <1>6
    <2>2. QED
      BY <2>1, <1>4, <1>5, <1>8, <1>9, <1>10
  <1>13. QED
    BY <1>11, <1>12

\* Users leave replicas that fit, where there may be some.
LEMMA LoadEffect ==
    ASSUME TypeOK, Fitting, NEW k \in Collections, LoadChange(k)
    PROVE  /\ loaded' \in [Collections -> [ResourceGroups -> 0..MaxNodes]]
           /\ Fitting'
  <1>1. /\ loaded \in [Collections -> [ResourceGroups -> 0..MaxNodes]]
        /\ MaxNodes \in Nat /\ IsFiniteSet(ResourceGroups)
    BY BoundAssumption, GroupAssumption DEF TypeOK
  <1> SUFFICES /\ \A i \in Collections \ {k} : loaded'[i] = loaded[i]
               /\ loaded' \in [Collections -> [ResourceGroups -> 0..MaxNodes]]
               /\ Total(loaded'[k], ResourceGroups) <= MaxNodes
    BY ReplicasIsTotal DEF Fitting
  <1>2. CASE \E placing \in [ResourceGroups -> 0..MaxNodes] :
                /\ LET replicas == MapThenSumSet(LAMBDA g : placing[g], ResourceGroups)
                   IN  replicas > 0 /\ \A c \in ReplicaHosts : replicas <= Capacity(c)
                /\ loaded' = [loaded EXCEPT ![k] = placing]
    <2>1. PICK placing \in [ResourceGroups -> 0..MaxNodes] :
             /\ \A c \in ReplicaHosts : Total(placing, ResourceGroups) <= Capacity(c)
             /\ loaded' = [loaded EXCEPT ![k] = placing]
      BY <1>2 DEF Total
    <2>2. Total(placing, ResourceGroups) \in Nat
      BY <1>1, TotalType
    <2>3. Total(placing, ResourceGroups) <= MaxNodes
      BY <2>1, <2>2, CapacityFits
    <2>4. QED
      BY <1>1, <2>1, <2>3
  <1>3. CASE loaded' = [loaded EXCEPT ![k] = [g \in ResourceGroups |-> 0]]
    <2>1. \A g \in ResourceGroups : loaded'[k][g] = 0
      BY <1>1, <1>3
    <2>2. Total(loaded'[k], ResourceGroups) = 0
      BY <1>1, <2>1, TotalIsZero
    <2>3. QED
      BY <1>1, <1>3, <2>2
  <1>4. CASE \E g, h \in ResourceGroups :
                /\ g # h /\ loaded[k][g] > 0
                /\ loaded' = [loaded EXCEPT ![k][g] = @ - 1, ![k][h] = @ + 1]
    <2>1. PICK g \in ResourceGroups, h \in ResourceGroups :
             /\ g # h /\ loaded[k][g] > 0
             /\ loaded' = [loaded EXCEPT ![k][g] = @ - 1, ![k][h] = @ + 1]
      BY <1>4
    <2> DEFINE f == loaded[k]
               e == [[f EXCEPT ![g] = f[g] - 1] EXCEPT ![h] = f[h] + 1]
    <2>2. loaded' = [loaded EXCEPT ![k] = e]
      BY <1>1, <2>1
    <2>3. f \in [ResourceGroups -> 0..MaxNodes] /\ f[g] \in 0..MaxNodes /\ f[h] \in 0..MaxNodes
      BY <1>1
    <2>4. /\ e[g] = f[g] - 1 /\ e[h] = f[h] + 1
          /\ \A i \in ResourceGroups \ {g, h} : e[i] = f[i]
          /\ DOMAIN e = ResourceGroups
      BY <2>1, <2>3
    <2>5. e = [i \in ResourceGroups |-> e[i]]
      BY <2>3
    <2>6. Total(f, ResourceGroups) <= MaxNodes
      BY ReplicasIsTotal DEF Fitting
    <2> HIDE DEF e, f
    <2>7. f[g] > 0
      BY <2>1 DEF f
    <2>8. e[h] <= MaxNodes /\ Total(e, ResourceGroups) = Total(f, ResourceGroups)
      BY <2>1, <2>3, <2>4, <2>6, <2>7, TransferKeepsTotal
    <2>9. \A i \in ResourceGroups : e[i] \in 0..MaxNodes
      <3> TAKE i \in ResourceGroups
      <3>1. f[i] \in 0..MaxNodes
        BY <2>3
      <3>2. QED
        BY <1>1, <2>3, <2>4, <2>7, <2>8, <3>1
    <2>10. e \in [ResourceGroups -> 0..MaxNodes]
      BY <2>5, <2>9
    <2>11. QED
      BY <1>1, <2>2, <2>6, <2>8, <2>10
  <1>5. QED
    BY <1>2, <1>3, <1>4 DEF LoadChange

\* Every step keeps the types, and what is loaded within what fits.
LEMMA TypeStep == TypeOK /\ Fitting /\ [Next]_vars => TypeOK' /\ Fitting'
  <1> SUFFICES ASSUME TypeOK, Fitting, [Next]_vars
               PROVE  TypeOK' /\ Fitting'
    OBVIOUS
  <1> USE BoundAssumption
  <1>1. ASSUME UNCHANGED loaded
        PROVE  Fitting'
    BY <1>1, ReplicasIsTotal DEF Fitting
  <1>2. Fault => faults' \in 0..MaxFaults
    BY DEF Fault, TypeOK
  <1>3. ASSUME pass' \in Passes, UNCHANGED <<want, cr, healthy, seen, loaded, edits, loads>>,
               faults' \in 0..MaxFaults
        PROVE  TypeOK' /\ Fitting'
    BY <1>1, <1>3 DEF TypeOK
  <1>4. pass \in Passes /\ faults \in 0..MaxFaults
    BY DEF TypeOK
  <1>5. CASE Validate
    <2>1. Shrinking(want) \subseteq ReplicaHosts
      BY DEF Shrinking
    <2>2. want \in Specs /\ (healthy /\ seen = Current) \in BOOLEAN
      BY DEF TypeOK
    <2>3. pass' \in Passes
      <3> DEFINE shrinking == IF seen.healthy THEN Shrinking(want) ELSE {}
                 at == IF shrinking # {} THEN "ask" ELSE "clear"
                 unread == IF shrinking # {} THEN ResourceGroups ELSE {}
      <3>1. pass' = [Idle EXCEPT !.at = at, !.want = want, !.shrinking = shrinking,
                                 !.unread = unread, !.informed = healthy /\ seen = Current]
        BY <1>5 DEF Validate
      <3>2. shrinking \subseteq ReplicaHosts /\ at \in {"ask", "clear"} /\ unread \subseteq ResourceGroups
        BY <2>1
      <3> HIDE DEF shrinking, at, unread
      <3>3. QED
        BY <2>2, <3>1, <3>2, IdleIsAPass DEF Passes
    <2>4. QED
      BY <1>3, <1>4, <1>5, <2>3 DEF Validate
  <1>6. CASE DescribeGroup
    <2>1. PICK g \in pass.unread :
             pass' = [pass EXCEPT !.unread = @ \ {g},
                                  !.sum = [k \in Collections |-> @[k] + loaded[k][g]]]
      BY <1>6 DEF DescribeGroup
    <2>2. g \in ResourceGroups
      BY <1>4 DEF Passes
    <2>3. [k \in Collections |-> pass.sum[k] + loaded[k][g]] \in [Collections -> Nat]
      BY <1>4, <2>2 DEF Passes, TypeOK
    <2>4. pass' \in Passes
      BY <1>4, <2>1, <2>3 DEF Passes
    <2>5. QED
      BY <1>3, <1>4, <1>6, <2>4 DEF DescribeGroup
  <1>7. Idle.sum \in [Collections -> Nat]
    BY IdleIsAPass DEF Passes
  <1>8. CASE Answered
    <2>1. pass' \in Passes
      <3>1. CASE pass' = Idle
        BY <3>1, IdleIsAPass
      <3>2. CASE pass' = [pass EXCEPT !.at = "clear", !.shrinking = {}, !.sum = Idle.sum]
        BY <3>2, <1>4, <1>7 DEF Passes
      <3>3. QED
        BY <3>1, <3>2, <1>8 DEF Answered
    <2>2. QED
      BY <1>3, <1>4, <1>8, <2>1 DEF Answered
  <1>9. CASE NoAnswer
    <2>1. pass' \in Passes
      BY <1>4, <1>7, <1>9 DEF NoAnswer, Passes
    <2>2. QED
      BY <1>2, <1>3, <1>9, <2>1 DEF NoAnswer
  <1>10. CASE ClearDropped
    <2>1. pass' \in Passes
      <3>1. CASE pass' = [pass EXCEPT !.at = "apply"]
        BY <3>1, <1>4 DEF Passes
      <3>2. CASE pass' = Idle
        BY <3>2, IdleIsAPass
      <3>3. QED
        BY <3>1, <3>2, <1>10 DEF ClearDropped
    <2>2. /\ cr' \in [Components -> CRComponents]
          /\ \A c \in Components \ Autoscalable : cr'[c].hpa = "none"
      <3> DEFINE dropped == {c \in Autoscalable : seen.cr[c].hpa # "none" /\ ~pass.want[c].auto}
      <3>1. \/ cr' = [c \in Components |-> IF c \in dropped THEN [cr[c] EXCEPT !.hpa = "none"] ELSE cr[c]]
            \/ cr' = cr
        BY <1>10 DEF ClearDropped
      <3>2. dropped \subseteq Autoscalable
        OBVIOUS
      <3> HIDE DEF dropped
      <3>3. QED
        BY <3>1, <3>2 DEF TypeOK, CRComponents
    <2>3. UNCHANGED <<want, healthy, seen, loaded, edits, loads, faults>>
      BY <1>10 DEF ClearDropped
    <2>4. QED
      BY <1>1, <2>1, <2>2, <2>3 DEF TypeOK
  <1>11. CASE Apply
    <2>1. /\ cr' \in [Components -> CRComponents]
          /\ \A c \in Components \ Autoscalable : cr'[c].hpa = "none"
      <3>1. CASE cr' = cr
        BY <3>1 DEF TypeOK
      <3>2. CASE cr' = [c \in Components |-> Applied(pass.want[c], cr[c])]
        <4>1. pass.want \in Specs
          BY <1>4 DEF Passes
        <4>2. \A c \in Components : /\ Applied(pass.want[c], cr[c]) \in CRComponents
                                    /\ c \notin Autoscalable => Applied(pass.want[c], cr[c]).hpa = "none"
          BY <4>1, ShapeType DEF Applied, CRComponents
        <4>3. QED
          BY <3>2, <4>2
      <3>3. QED
        BY <3>1, <3>2, <1>11 DEF Apply
    <2>2. pass' = Idle /\ UNCHANGED <<want, healthy, seen, loaded, edits, loads, faults>>
      BY <1>11 DEF Apply
    <2>3. QED
      BY <1>1, <2>1, <2>2, IdleIsAPass DEF TypeOK
  <1>12. CASE Abort
    BY <1>2, <1>3, <1>12, IdleIsAPass DEF Abort
  <1>13. CASE OperatorUpdates
    <2>1. PICK c \in Components : cr[c].hpa = "set" /\ cr' = [cr EXCEPT ![c].hpa = "coowned"]
      BY <1>13 DEF OperatorUpdates
    <2>2. cr' \in [Components -> CRComponents] /\ \A d \in Components \ {c} : cr'[d] = cr[d]
      BY <2>1 DEF TypeOK, CRComponents
    <2>3. c \in Autoscalable
      BY <2>1 DEF TypeOK
    <2>4. \A d \in Components \ Autoscalable : cr'[d].hpa = "none"
      BY <2>2, <2>3 DEF TypeOK
    <2>5. QED
      BY <1>1, <1>13, <2>2, <2>4 DEF OperatorUpdates, TypeOK
  <1>14. CASE HealthChanges
    <2>1. faults' \in 0..MaxFaults
      BY <1>2, <1>4, <1>14 DEF HealthChanges
    <2>2. healthy' \in BOOLEAN /\ UNCHANGED <<want, cr, seen, loaded, pass, edits, loads>>
      BY <1>14 DEF HealthChanges
    <2>3. QED
      BY <1>1, <2>1, <2>2 DEF TypeOK
  <1>15. CASE WatchDelivers
    BY <1>1, <1>15 DEF WatchDelivers, Current, TypeOK
  <1>16. ASSUME NEW k \in Collections, LoadChange(k)
        PROVE  TypeOK' /\ Fitting'
    <2>1. loads' \in 0..MaxLoads /\ UNCHANGED <<want, cr, healthy, seen, edits, faults>>
      BY <1>16 DEF LoadChange, TypeOK
    <2>2. pass' \in Passes
      BY <1>4, <1>16 DEF LoadChange, Passes
    <2>3. QED
      BY <1>16, <2>1, <2>2, LoadEffect DEF TypeOK
  <1>17. CASE EditInstance
    <2>1. PICK c \in Components : \E shape \in Shapes(c) : want' = [want EXCEPT ![c] = shape]
      BY <1>17 DEF EditInstance
    <2>2. want' \in Specs
      BY <2>1 DEF Specs, TypeOK
    <2>3. edits' \in 0..MaxEdits /\ UNCHANGED <<cr, healthy, seen, loaded, pass, loads, faults>>
      BY <1>17 DEF EditInstance, TypeOK
    <2>4. QED
      BY <1>1, <2>2, <2>3 DEF TypeOK
  <1>18. CASE UNCHANGED vars
    BY <1>1, <1>18 DEF vars, TypeOK
  <1>19. QED
    BY <1>5, <1>6, <1>8, <1>9, <1>10, <1>11, <1>12, <1>13, <1>14, <1>15, <1>16, <1>17, <1>18
       DEF Next, PassSteps
-----------------------------------------------------------------------------
\* Of the steps of a pass, those that leave the floors, the loaded replicas and
\* what the pass asked about alone keep what it concluded from them.
LEMMA FloorKept ==
    ASSUME FloorInv, UNCHANGED loaded, \A c \in ReplicaHosts : cr'[c].floor = cr[c].floor,
           pass'.want = pass.want, pass'.informed = pass.informed, pass'.at # "idle", pass.at # "idle",
           pass'.at = "ask" => pass.at = "ask" /\ pass'.shrinking = pass.shrinking,
           ~pass'.silent => ~pass.silent, ~pass'.moved => ~pass.moved,
           pass'.at # "ask" => pass.at # "ask" \/ pass'.silent
    PROVE  FloorInv'
  <1>1. \A k \in Collections : Replicas(k)' = Replicas(k)
    BY ReplicasIsTotal
  <1>2. ASSUME pass'.informed, NEW c \in ReplicaHosts,
               pass'.want[c].listed, pass'.want[c].floor < cr'[c].floor
        PROVE  /\ pass'.at = "ask" => c \in pass'.shrinking
               /\ pass'.at # "ask" /\ ~pass'.silent /\ ~pass'.moved =>
                     ~\E k \in Collections : Replicas(k)' > pass'.want[c].floor
    <2>1. pass.informed /\ pass.want[c].listed /\ pass.want[c].floor < cr[c].floor
      BY <1>2
    <2>2. pass.at = "ask" => c \in pass.shrinking
      BY <2>1 DEF FloorInv
    <2>3. pass.at # "ask" /\ ~pass.silent /\ ~pass.moved =>
             ~\E k \in Collections : Replicas(k) > pass.want[c].floor
      BY <2>1 DEF FloorInv, Stranded
    <2>4. QED
      BY <1>1, <2>2, <2>3
  <1>3. QED
    BY <1>2 DEF FloorInv, Stranded

\* A pass that is over has concluded nothing.
LEMMA IdleKnowsNothing ==
    ASSUME pass' = Idle
    PROVE  SumInv' /\ FloorInv' /\ HPAInv'
  <1>1. pass'.at = "idle" /\ ~pass'.informed
    BY DEF Idle
  <1>2. QED
    BY <1>1 DEF SumInv, FloorInv, HPAInv

\* What was read of one group more is added to what was read before.
LEMMA SumStep ==
    ASSUME TypeOK, SumInv, DescribeGroup
    PROVE  SumInv'
  <1>1. PICK g \in pass.unread :
           pass' = [pass EXCEPT !.unread = @ \ {g},
                                !.sum = [k \in Collections |-> @[k] + loaded[k][g]]]
    BY DEF DescribeGroup
  <1>2. pass \in Passes /\ UNCHANGED loaded /\ pass.at = "ask"
    BY DEF TypeOK, DescribeGroup
  <1>3. /\ pass'.unread = pass.unread \ {g} /\ pass'.moved = pass.moved
        /\ \A k \in Collections : pass'.sum[k] = pass.sum[k] + loaded[k][g]
    BY <1>1, <1>2 DEF Passes
  <1>4. g \in ResourceGroups
    BY <1>2 DEF Passes
  <1> SUFFICES ASSUME ~pass.moved, NEW k \in Collections
               PROVE  pass'.sum[k] = Total(loaded[k], ResourceGroups \ pass'.unread)
    BY <1>2, <1>3 DEF SumInv
  <1> DEFINE T == ResourceGroups \ pass'.unread
  <1>5. T \ {g} = ResourceGroups \ pass.unread /\ g \in T
    BY <1>1, <1>3, <1>4
  <1>6. IsFiniteSet(T) /\ T \subseteq ResourceGroups
    BY GroupAssumption, FS_Subset
  <1>7. \A h \in T : loaded[k][h] \in 0..MaxNodes
    BY <1>6 DEF TypeOK
  <1>8. pass.sum[k] = Total(loaded[k], T \ {g})
    BY <1>2, <1>5 DEF SumInv
  <1> HIDE DEF T
  <1>9. /\ Total(loaded[k], T) = loaded[k][g] + Total(loaded[k], T \ {g})
        /\ Total(loaded[k], T \ {g}) \in Nat
    BY <1>5, <1>6, <1>7, BoundAssumption, TotalAdd
  <1>10. loaded[k][g] \in Nat
    BY <1>5, <1>7, BoundAssumption
  <1>11. pass'.sum[k] = Total(loaded[k], T)
    BY <1>3, <1>8, <1>9, <1>10
  <1>12. QED
    BY <1>11 DEF T

\* A pass that has all answers knows of every collection how many replicas it has.
LEMMA AnswersAddUp ==
    ASSUME TypeOK, SumInv, pass.at = "ask", pass.unread = {}, ~pass.moved, NEW k \in Collections
    PROVE  pass.sum[k] = Replicas(k)
  <1>1. pass.sum[k] = Total(loaded[k], ResourceGroups \ pass.unread)
    BY DEF SumInv
  <1>2. ResourceGroups \ pass.unread = ResourceGroups
    OBVIOUS
  <1>3. QED
    BY <1>1, <1>2, ReplicasIsTotal

\* A pass that knows the CR asks about every floor it lowers.
LEMMA ValidateStep ==
    ASSUME TypeOK, Validate
    PROVE  SumInv' /\ FloorInv' /\ HPAInv'
  <1> DEFINE shrinking == IF seen.healthy THEN Shrinking(want) ELSE {}
             at == IF shrinking # {} THEN "ask" ELSE "clear"
             unread == IF shrinking # {} THEN ResourceGroups ELSE {}
  <1>1. pass' = [Idle EXCEPT !.at = at, !.want = want, !.shrinking = shrinking,
                             !.unread = unread, !.informed = healthy /\ seen = Current]
    BY DEF Validate
  <1>2. /\ pass'.at = at /\ pass'.want = want /\ pass'.shrinking = shrinking /\ pass'.unread = unread
        /\ pass'.informed <=> healthy /\ seen = Current
        /\ pass'.sum = [k \in Collections |-> 0]
    BY <1>1 DEF Idle
  <1>3. UNCHANGED <<want, cr, healthy, seen, loaded>>
    BY DEF Validate
  <1>4. SumInv'
    <2>1. ASSUME at = "ask", NEW k \in Collections
          PROVE  pass'.sum[k] = Total(loaded'[k], ResourceGroups \ pass'.unread)
      <3>1. ResourceGroups \ pass'.unread = {}
        BY <1>2, <2>1
      <3>2. QED
        BY <1>2, <3>1, TotalOfNone
    <2>2. QED
      BY <1>2, <2>1 DEF SumInv
  <1>5. ASSUME healthy, seen = Current
        PROVE  shrinking = {c \in ReplicaHosts : want[c].listed /\ want[c].floor < cr[c].floor}
    BY <1>5 DEF Current, Shrinking
  <1>6. FloorInv'
    <2>1. at # "idle"
      OBVIOUS
    <2>2. ASSUME healthy, seen = Current, NEW c \in ReplicaHosts, want[c].listed, want[c].floor < cr[c].floor
          PROVE  c \in shrinking /\ at = "ask"
      BY <1>5, <2>2
    <2> HIDE DEF shrinking, at
    <2>3. QED
      BY <1>2, <1>3, <2>1, <2>2 DEF FloorInv
  <1>7. HPAInv'
    <2>1. at # "apply"
      OBVIOUS
    <2> HIDE DEF shrinking, at
    <2>2. QED
      BY <1>2, <1>3, <2>1 DEF HPAInv, Current
  <1>8. QED
    BY <1>4, <1>6, <1>7

\* An answer without surplus is one: nothing the pass lowers is in the way.
LEMMA AnsweredStep ==
    ASSUME TypeOK, SumInv, FloorInv, HPAInv, Answered
    PROVE  SumInv' /\ FloorInv' /\ HPAInv'
  <1>1. CASE pass' = Idle
    BY <1>1, IdleKnowsNothing
  <1>2. CASE ~Surplus /\ pass' = [pass EXCEPT !.at = "clear", !.shrinking = {}, !.sum = Idle.sum]
    <2>1. pass \in Passes /\ pass.at = "ask" /\ pass.unread = {} /\ UNCHANGED <<cr, loaded, seen>>
      BY DEF Answered, TypeOK
    <2>2. /\ pass'.at = "clear" /\ pass'.want = pass.want /\ pass'.informed = pass.informed
          /\ pass'.silent = pass.silent /\ pass'.moved = pass.moved
      BY <1>2, <2>1 DEF Passes
    <2>3. SumInv' /\ HPAInv'
      BY <2>1, <2>2 DEF SumInv, HPAInv
    <2>4. ASSUME pass.informed, ~pass.moved, NEW c \in ReplicaHosts,
                 pass.want[c].listed, pass.want[c].floor < cr[c].floor, NEW k \in Collections
          PROVE  ~(Replicas(k)' > pass.want[c].floor)
      <3>1. c \in pass.shrinking
        BY <2>1, <2>4 DEF FloorInv
      <3>2. ~(pass.sum[k] > pass.want[c].floor)
        BY <1>2, <3>1 DEF Surplus
      <3>3. pass.sum[k] = Replicas(k)
        BY <2>1, <2>4, AnswersAddUp
      <3>4. Replicas(k)' = Replicas(k)
        BY <2>1, ReplicasIsTotal
      <3>5. QED
        BY <3>2, <3>3, <3>4
    <2>5. FloorInv'
      BY <2>1, <2>2, <2>4 DEF FloorInv, Stranded
    <2>6. QED
      BY <2>3, <2>5
  <1>3. QED
    BY <1>1, <1>2 DEF Answered

\* What the patch removes is gone from the CR then, and no floor changes.
LEMMA ClearDroppedStep ==
    ASSUME TypeOK, FloorInv, HPAInv, ClearDropped
    PROVE  SumInv' /\ FloorInv' /\ HPAInv'
  <1> DEFINE dropped == {c \in Autoscalable : seen.cr[c].hpa # "none" /\ ~pass.want[c].auto}
  <1>1. CASE pass' = Idle
    BY <1>1, IdleKnowsNothing
  <1>2. CASE /\ cr' = [c \in Components |-> IF c \in dropped THEN [cr[c] EXCEPT !.hpa = "none"] ELSE cr[c]]
             /\ pass' = [pass EXCEPT !.at = "apply"]
    <2>1. pass \in Passes /\ pass.at = "clear" /\ UNCHANGED loaded
      BY DEF ClearDropped, TypeOK
    <2>2. /\ pass'.at = "apply" /\ pass'.want = pass.want /\ pass'.informed = pass.informed
          /\ pass'.silent = pass.silent /\ pass'.moved = pass.moved
      BY <1>2, <2>1 DEF Passes
    <2>3. /\ \A c \in Components : cr'[c].floor = cr[c].floor
          /\ \A c \in Components : c \in dropped => cr'[c].hpa = "none"
          /\ \A c \in Components : c \notin dropped => cr'[c].hpa = cr[c].hpa
      BY <1>2 DEF TypeOK, CRComponents
    <2>4. FloorInv'
      BY <2>1, <2>2, <2>3, ComponentAssumption, FloorKept
    <2>5. ASSUME pass.informed, NEW c \in Components, ~pass.want[c].auto
          PROVE  cr'[c].hpa = "none"
      <3>1. CASE c \in dropped
        BY <2>3, <3>1
      <3>2. CASE c \notin Autoscalable
        BY <2>3, <3>2 DEF TypeOK
      <3>3. CASE c \in Autoscalable /\ seen.cr[c].hpa = "none"
        BY <2>1, <2>3, <2>5, <3>3 DEF HPAInv
      <3>4. QED
        BY <2>5, <3>1, <3>2, <3>3
    <2>6. SumInv' /\ HPAInv'
      BY <2>2, <2>5 DEF SumInv, HPAInv
    <2>7. QED
      BY <2>4, <2>6
  <1>3. QED
    BY <1>1, <1>2 DEF ClearDropped

\* The operator writes into an autoscaler that is there, and into nothing else.
LEMMA OperatorEffect ==
    ASSUME TypeOK, OperatorUpdates
    PROVE  \A c \in Components : /\ cr'[c].floor = cr[c].floor
                                 /\ cr'[c].hpa = "none" <=> cr[c].hpa = "none"
  <1>1. PICK c \in Components : cr[c].hpa = "set" /\ cr' = [cr EXCEPT ![c].hpa = "coowned"]
    BY DEF OperatorUpdates
  <1>2. \A d \in Components \ {c} : cr'[d] = cr[d]
    BY <1>1 DEF TypeOK
  <1>3. cr'[c].floor = cr[c].floor /\ cr'[c].hpa = "coowned" /\ cr[c].hpa = "set"
    BY <1>1 DEF TypeOK, CRComponents
  <1>4. QED
    BY <1>2, <1>3

\* Every step keeps the invariant.
LEMMA InvariantStep == IInv /\ [Next]_vars => IInv'
  <1> SUFFICES ASSUME IInv, [Next]_vars
               PROVE  IInv'
    OBVIOUS
  <1>1. TypeOK' /\ Fitting'
    BY TypeStep DEF IInv
  <1>2. TypeOK /\ SumInv /\ FloorInv /\ HPAInv /\ pass \in Passes
    BY DEF IInv, TypeOK
  <1>3. ASSUME UNCHANGED <<loaded, pass>>, \A c \in ReplicaHosts : cr'[c].floor = cr[c].floor
        PROVE  SumInv' /\ FloorInv'
    <2>1. SumInv'
      BY <1>2, <1>3 DEF SumInv
    <2>2. FloorInv'
      <3>1. CASE pass.at = "idle"
        BY <1>2, <1>3, <3>1 DEF FloorInv
      <3>2. CASE pass.at # "idle"
        BY <1>2, <1>3, <3>2, FloorKept
      <3>3. QED
        BY <3>1, <3>2
    <2>3. QED
      BY <2>1, <2>2
  <1>4. SumInv' /\ FloorInv' /\ HPAInv'
    <2>1. CASE Validate
      BY <1>2, <2>1, ValidateStep
    <2>2. CASE DescribeGroup
      <3>1. PICK g \in pass.unread :
               pass' = [pass EXCEPT !.unread = @ \ {g},
                                    !.sum = [k \in Collections |-> @[k] + loaded[k][g]]]
        BY <2>2 DEF DescribeGroup
      <3>2. /\ pass'.at = pass.at /\ pass'.want = pass.want /\ pass'.shrinking = pass.shrinking
            /\ pass'.informed = pass.informed /\ pass'.silent = pass.silent /\ pass'.moved = pass.moved
        BY <1>2, <3>1 DEF Passes
      <3>3. pass.at = "ask" /\ UNCHANGED <<cr, seen, loaded>>
        BY <2>2 DEF DescribeGroup
      <3>4. FloorInv' /\ HPAInv'
        BY <1>2, <3>2, <3>3, FloorKept DEF HPAInv
      <3>5. QED
        BY <1>2, <2>2, <3>4, SumStep
    <2>3. CASE Answered
      BY <1>2, <2>3, AnsweredStep
    <2>4. CASE NoAnswer
      <3>1. /\ pass'.at = "clear" /\ pass'.want = pass.want /\ pass'.silent
            /\ pass'.informed = pass.informed /\ pass'.moved = pass.moved
        BY <1>2, <2>4 DEF NoAnswer, Passes
      <3>2. pass.at = "ask" /\ UNCHANGED <<cr, seen, loaded>>
        BY <2>4 DEF NoAnswer
      <3>3. QED
        BY <1>2, <3>1, <3>2, FloorKept DEF SumInv, HPAInv
    <2>5. CASE ClearDropped
      BY <1>2, <2>5, ClearDroppedStep
    <2>6. CASE Apply \/ Abort
      <3>1. pass' = Idle
        BY <2>6 DEF Apply, Abort
      <3>2. QED
        BY <3>1, IdleKnowsNothing
    <2>7. CASE OperatorUpdates
      <3>1. UNCHANGED <<seen, loaded, pass>>
        BY <2>7 DEF OperatorUpdates
      <3>2. HPAInv'
        BY <1>2, <2>7, <3>1, OperatorEffect DEF HPAInv
      <3>3. QED
        BY <1>2, <1>3, <2>7, <3>1, <3>2, OperatorEffect, ComponentAssumption
    <2>8. CASE HealthChanges \/ EditInstance \/ UNCHANGED vars
      <3>1. UNCHANGED <<cr, seen, loaded, pass>>
        BY <2>8 DEF HealthChanges, EditInstance, vars
      <3>2. QED
        BY <1>2, <1>3, <3>1 DEF HPAInv
    <2>9. CASE WatchDelivers
      <3>1. seen'.cr = cr /\ UNCHANGED <<cr, loaded, pass>>
        BY <2>9 DEF WatchDelivers, Current
      <3>2. QED
        BY <1>2, <1>3, <3>1 DEF HPAInv
    <2>10. ASSUME NEW k \in Collections, LoadChange(k)
           PROVE  SumInv' /\ FloorInv' /\ HPAInv'
      <3>1. pass' = [pass EXCEPT !.moved = pass.at # "idle"] /\ UNCHANGED <<cr, seen>>
        BY <2>10 DEF LoadChange
      <3>2. /\ pass'.at = pass.at /\ pass'.want = pass.want /\ pass'.shrinking = pass.shrinking
            /\ pass'.informed = pass.informed /\ pass'.moved = (pass.at # "idle")
        BY <1>2, <3>1 DEF Passes
      <3>3. SumInv' /\ HPAInv'
        BY <1>2, <3>1, <3>2 DEF SumInv, HPAInv
      <3>4. FloorInv'
        BY <1>2, <3>1, <3>2 DEF FloorInv
      <3>5. QED
        BY <3>3, <3>4
    <2>11. QED
      BY <2>1, <2>2, <2>3, <2>4, <2>5, <2>6, <2>7, <2>8, <2>9, <2>10 DEF Next, PassSteps
  <1>5. QED
    BY <1>1, <1>4 DEF IInv
-----------------------------------------------------------------------------
\* The invariant holds of every behaviour: the answers of LoadedReplicas add up
\* to what is loaded, and a pass that knew the CR asks before it lowers.
THEOREM InvariantHolds == Spec => []IInv
  <1>1. Init => IInv
    <2> SUFFICES ASSUME Init
                 PROVE  IInv
      OBVIOUS
    <2>1. pass.at = "idle" /\ ~pass.informed
      BY DEF Init, Idle
    <2>2. SumInv /\ FloorInv /\ HPAInv
      BY <2>1 DEF SumInv, FloorInv, HPAInv
    <2>3. QED
      BY <2>2, InitTypes DEF IInv
  <1>2. QED
    BY <1>1, InvariantStep, PTL DEF Spec

\* Specs, floors, autoscalers, passes and loaded replicas stay what they can be;
\* no transfer of replicas makes more of them than there are nodes.
THEOREM TypeCorrect == Spec => []TypeOK
  <1>1. IInv => TypeOK
    BY DEF IInv
  <1>2. QED
    BY <1>1, InvariantHolds, PTL

\* A step that lowers a floor is the apply of a pass that may.
LEMMA OnlyApplyLowers ==
    ASSUME IInv, [Next]_vars, Uninterrupted, NEW c \in ReplicaHosts, Lowers(c), pass.want[c].listed
    PROVE  ~Stranded(c, cr'[c].floor)
  <1>1. TypeOK /\ FloorInv /\ c \in Components /\ cr[c].floor \in Nat
    BY ComponentAssumption DEF IInv, TypeOK, CRComponents
  <1>2. Apply
    <2>1. ASSUME cr'[c].floor = cr[c].floor
          PROVE  FALSE
      BY <1>1, <2>1 DEF Lowers
    <2>2. ~OperatorUpdates
      BY <1>1, <2>1, OperatorEffect
    <2>3. ~ClearDropped
      <3> SUFFICES ASSUME ClearDropped
                   PROVE  FALSE
        OBVIOUS
      <3> DEFINE dropped == {d \in Autoscalable : seen.cr[d].hpa # "none" /\ ~pass.want[d].auto}
      <3>1. \/ cr' = [d \in Components |-> IF d \in dropped THEN [cr[d] EXCEPT !.hpa = "none"] ELSE cr[d]]
            \/ cr' = cr
        BY DEF ClearDropped
      <3> HIDE DEF dropped
      <3>2. cr'[c].floor = cr[c].floor
        BY <1>1, <3>1 DEF TypeOK, CRComponents
      <3>3. QED
        BY <2>1, <3>2
    <2>4. cr' # cr
      BY <2>1
    <2>5. QED
      BY <2>2, <2>3, <2>4
         DEF Next, PassSteps, Validate, DescribeGroup, Answered, NoAnswer, Abort, HealthChanges,
             WatchDelivers, LoadChange, EditInstance, vars
  <1>3. cr' # cr /\ pass.at = "apply"
    BY <1>1, <1>2 DEF Lowers, Apply
  <1>4. cr'[c].floor = pass.want[c].floor
    BY <1>1, <1>2, <1>3 DEF Apply, Applied
  <1>5. QED
    BY <1>1, <1>3, <1>4 DEF FloorInv, Uninterrupted, Lowers

\* Between its question and its end a pass is turned back by an answer only.
LEMMA OnlySurplusRefuses ==
    ASSUME IInv, [Next]_vars, Uninterrupted, pass.at = "ask", pass'.at = "idle", faults' = faults
    PROVE  \E c \in ReplicaHosts : Stranded(c, pass.want[c].floor)
  <1>1. TypeOK /\ SumInv /\ pass \in Passes /\ faults \in Nat
    BY BoundAssumption DEF IInv, TypeOK
  <1>2. ~Fault
    BY <1>1 DEF Fault
  <1>3. ~DescribeGroup
    BY <1>1 DEF DescribeGroup, Passes
  <1>4. \A k \in Collections : ~LoadChange(k)
    BY <1>1 DEF LoadChange, Passes
  <1>5. Answered
    BY <1>2, <1>3, <1>4
       DEF Next, PassSteps, Validate, NoAnswer, Abort, ClearDropped, Apply, OperatorUpdates,
           HealthChanges, WatchDelivers, EditInstance, vars
  <1>6. pass.unread = {} /\ Surplus
    <2>1. ASSUME ~Surplus
          PROVE  FALSE
      BY <1>1, <1>5, <2>1 DEF Answered, Passes
    <2>2. QED
      BY <1>5, <2>1 DEF Answered
  <1>7. PICK c \in pass.shrinking, k \in Collections : pass.sum[k] > pass.want[c].floor
    BY <1>6 DEF Surplus
  <1>8. pass.sum[k] = Replicas(k)
    BY <1>1, <1>6, AnswersAddUp DEF Uninterrupted
  <1>9. c \in ReplicaHosts
    BY <1>1 DEF Passes
  <1>10. QED
    BY <1>7, <1>8, <1>9 DEF Stranded

\* A pass that found Milvus healthy, was answered and saw no load change judges a
\* scale-in exactly: it lowers no listed component below the replicas of a loaded
\* collection, and is only turned back when one stands in its way.
THEOREM ScaleInIsExact == Spec => ScaleInExact
  <1> DEFINE Lowering == \A c \in ReplicaHosts :
                            Lowers(c) /\ pass.want[c].listed => ~Stranded(c, cr'[c].floor)
             Refusal == pass.at = "ask" /\ pass'.at = "idle" /\ faults' = faults =>
                           \E c \in ReplicaHosts : Stranded(c, pass.want[c].floor)
  <1>1. IInv /\ [Next]_vars /\ Uninterrupted => Lowering /\ Refusal
    BY OnlyApplyLowers, OnlySurplusRefuses
  <1>2. IInv /\ [Next]_vars => [Uninterrupted => Lowering /\ Refusal]_vars
    BY <1>1
  <1>3. QED
    BY <1>2, InvariantHolds, PTL DEF Spec, ScaleInExact

\* An autoscaler whose owner is asked to leave is gone before the apply, and the
\* pass that knew the CR is accepted.
THEOREM InformedPassesLand == Spec => InformedPassLands
  <1>1. ASSUME IInv, [Next]_vars, InformedEnd
        PROVE  CRFollows
    <2>1. TypeOK /\ HPAInv /\ pass \in Passes /\ faults \in Nat
      BY <1>1, BoundAssumption DEF IInv, TypeOK
    <2>2. ~Fault
      BY <1>1, <2>1 DEF Fault, InformedEnd
    <2>3. \A k \in Collections : ~LoadChange(k)
      BY <1>1, <2>1 DEF LoadChange, Passes, InformedEnd
    <2>4. ~ClearDropped
      <3> SUFFICES ASSUME ClearDropped
                   PROVE  FALSE
        OBVIOUS
      <3>1. pass.at = "clear" /\ pass'.at # "apply"
        BY <1>1 DEF ClearDropped, InformedEnd
      <3>2. pass' # [pass EXCEPT !.at = "apply"]
        BY <2>1, <3>1 DEF Passes
      <3>3. PICK c \in Autoscalable : seen.cr[c].hpa # "none" /\ cr[c].hpa = "none"
        BY <3>2 DEF ClearDropped
      <3>4. QED
        BY <1>1, <2>1, <3>1, <3>3, ComponentAssumption DEF HPAInv, InformedEnd
    <2>5. Apply
      BY <1>1, <2>2, <2>3, <2>4
         DEF Next, PassSteps, Validate, DescribeGroup, Answered, NoAnswer, Abort, OperatorUpdates,
             HealthChanges, WatchDelivers, EditInstance, vars, InformedEnd
    <2>6. pass.at = "apply" /\ \A c \in Components : ~pass.want[c].auto => cr[c].hpa = "none"
      BY <1>1, <2>1, <2>5 DEF Apply, HPAInv, InformedEnd
    <2>7. ~LeavesPartialHPA
      BY <2>6 DEF LeavesPartialHPA
    <2>8. cr' = [c \in Components |-> Applied(pass.want[c], cr[c])]
      BY <2>5, <2>7 DEF Apply
    <2>9. \A c \in Components : pass.want[c].auto \in BOOLEAN
      BY <2>1, ShapeType DEF Passes
    <2>10. QED
      BY <2>8, <2>9 DEF Applied, CRFollows
  <1>2. IInv /\ [Next]_vars => [InformedEnd => CRFollows]_vars
    BY <1>1
  <1>3. QED
    BY <1>2, InvariantHolds, PTL DEF Spec, InformedPassLands
=============================================================================
