------------------------------- MODULE Totals -------------------------------
(***************************************************************************)
(* Laws of the totals the models take over finite sets with MapThenSumSet: *)
(* replicas over resource groups, pods over Deployments.  The library      *)
(* defines a total as the value at T of a function that is recursive over  *)
(* subsets of T; the number of units, a cardinality, satisfies the same    *)
(* equations, and only one value does.                                     *)
(***************************************************************************)
EXTENDS Naturals, FiniteSetsExt, FiniteSetTheorems, WellFoundedInduction, TLAPS

\* What f comes to over T, as the library defines it.
Total(f, T) == MapThenSumSet(LAMBDA g : f[g], T)

\* The same to count: f[g] units of each g in T.
Units(f, T) == {p \in T \X (Nat \ {0}) : p[2] <= f[p[1]]}

\* h is the function whose value at T the library takes for the total.
IsTotalling(f, T, h) ==
    h = [t \in SUBSET T |-> IF t = {} THEN 0
                            ELSE f[CHOOSE g \in t : TRUE] + h[t \ {CHOOSE g \in t : TRUE}]]

\* The units of a set are those of one element and those of the others.
LEMMA UnitsSplit ==
    ASSUME NEW T, NEW g \in T, NEW f, f[g] \in Nat
    PROVE  /\ Units(f, T) = Units(f, {g}) \cup Units(f, T \ {g})
           /\ Units(f, {g}) \cap Units(f, T \ {g}) = {}
           /\ IsFiniteSet(Units(f, {g})) /\ Cardinality(Units(f, {g})) = f[g]
  <1>1. Units(f, {g}) = {g} \X (1..f[g])
    BY DEF Units
  <1>2. IsFiniteSet(1..f[g]) /\ Cardinality(1..f[g]) = f[g]
    <2>1. 1 \in Int /\ f[g] \in Int /\ (IF 1 > f[g] THEN 0 ELSE f[g] - 1 + 1) = f[g]
      OBVIOUS
    <2>2. QED
      BY <2>1, FS_Interval
  <1>3. IsFiniteSet({g}) /\ Cardinality({g}) = 1
    BY FS_Singleton
  <1>4. IsFiniteSet(Units(f, {g})) /\ Cardinality(Units(f, {g})) = f[g]
    <2>1. IsFiniteSet({g} \X (1..f[g])) /\ Cardinality({g} \X (1..f[g])) = 1 * f[g]
      BY <1>2, <1>3, FS_Product
    <2>2. 1 * f[g] = f[g]
      OBVIOUS
    <2>3. QED
      BY <1>1, <2>1, <2>2
  <1>5. Units(f, T) = Units(f, {g}) \cup Units(f, T \ {g})
    BY DEF Units
  <1>6. Units(f, {g}) \cap Units(f, T \ {g}) = {}
    BY DEF Units
  <1>7. QED
    BY <1>4, <1>5, <1>6

\* No smallest set has infinitely many units, so none that is finite has.
LEMMA UnitsFinite ==
    ASSUME NEW T, IsFiniteSet(T), NEW f, \A g \in T : f[g] \in Nat
    PROVE  IsFiniteSet(Units(f, T)) /\ Cardinality(Units(f, T)) \in Nat
  <1> DEFINE Wrong == {t \in SUBSET T : ~IsFiniteSet(Units(f, t))}
  <1>1. ASSUME Wrong # {}
        PROVE  FALSE
    <2>1. IsWellFoundedOn(StrictSubsetOrdering(T), FiniteSubsetsOf(T))
      BY FS_StrictSubsetOrderingWellFounded
    <2>2. Wrong \subseteq FiniteSubsetsOf(T)
      BY FS_FiniteSubsetsOfFinite
    <2>3. PICK t \in Wrong : \A s \in Wrong : <<s, t>> \notin StrictSubsetOrdering(T)
      BY <1>1, <2>1, <2>2, WFMin
    <2>4. PICK x \in t : TRUE
      <3>1. Units(f, {}) = {}
        BY DEF Units
      <3>2. QED
        BY <2>3, <3>1, FS_EmptySet
    <2>5. t \ {x} \notin Wrong
      <3>1. <<t \ {x}, t>> \in StrictSubsetOrdering(T)
        BY DEF StrictSubsetOrdering
      <3>2. QED
        BY <2>3, <3>1
    <2>6. IsFiniteSet(Units(f, t \ {x}))
      BY <2>5
    <2>7. IsFiniteSet(Units(f, {x}) \cup Units(f, t \ {x}))
      BY <2>6, UnitsSplit, FS_Union
    <2>8. QED
      BY <2>3, <2>7, UnitsSplit
  <1>2. QED
    BY <1>1, FS_CardinalityType

\* What is added to a set adds as many units as its value says.
LEMMA UnitsAdd ==
    ASSUME NEW T, IsFiniteSet(T), NEW f, \A g \in T : f[g] \in Nat, NEW g \in T
    PROVE  Cardinality(Units(f, T)) = f[g] + Cardinality(Units(f, T \ {g}))
  <1>1. IsFiniteSet(T \ {g})
    BY FS_RemoveElement
  <1>2. IsFiniteSet(Units(f, T \ {g})) /\ Cardinality(Units(f, T \ {g})) \in Nat
    BY <1>1, UnitsFinite
  <1>3. f[g] \in Nat
    OBVIOUS
  <1>4. /\ Units(f, T) = Units(f, {g}) \cup Units(f, T \ {g})
        /\ Units(f, {g}) \cap Units(f, T \ {g}) = {}
        /\ IsFiniteSet(Units(f, {g})) /\ Cardinality(Units(f, {g})) = f[g]
    BY <1>3, UnitsSplit
  <1>5. Cardinality(Units(f, {g}) \cup Units(f, T \ {g}))
          = Cardinality(Units(f, {g})) + Cardinality(Units(f, T \ {g})) - Cardinality({})
    <2> DEFINE own == Units(f, {g})
               others == Units(f, T \ {g})
    <2>1. IsFiniteSet(own) /\ IsFiniteSet(others) /\ own \cap others = {}
      BY <1>2, <1>4
    <2> HIDE DEF own, others
    <2>2. Cardinality(own \cup others)
            = Cardinality(own) + Cardinality(others) - Cardinality(own \cap others)
      BY <2>1, FS_Union
    <2>3. QED
      BY <2>1, <2>2 DEF own, others
  <1>6. Cardinality({}) = 0
    BY FS_EmptySet
  <1>7. QED
    BY <1>2, <1>3, <1>4, <1>5, <1>6

\* Counting satisfies the recursive definition, so a totalling function exists.
LEMMA TotallingExists ==
    ASSUME NEW T, IsFiniteSet(T), NEW f, \A g \in T : f[g] \in Nat
    PROVE  \E h : IsTotalling(f, T, h)
  <1> DEFINE count == [t \in SUBSET T |-> Cardinality(Units(f, t))]
  <1> SUFFICES ASSUME NEW t \in SUBSET T
               PROVE  count[t] = IF t = {} THEN 0
                                 ELSE f[CHOOSE g \in t : TRUE] + count[t \ {CHOOSE g \in t : TRUE}]
    BY DEF IsTotalling
  <1>1. CASE t = {}
    <2>1. Units(f, t) = {}
      BY <1>1 DEF Units
    <2>2. QED
      BY <1>1, <2>1, FS_EmptySet
  <1>2. CASE t # {}
    <2> DEFINE x == CHOOSE g \in t : TRUE
    <2>1. x \in t /\ t \ {x} \in SUBSET T
      BY <1>2
    <2>2. IsFiniteSet(t)
      BY FS_Subset
    <2>3. f[x] \in Nat
      BY <2>1
    <2> HIDE DEF x
    <2>4. Cardinality(Units(f, t)) = f[x] + Cardinality(Units(f, t \ {x}))
      BY <2>1, <2>2, <2>3, UnitsAdd
    <2>5. count[t] = f[x] + count[t \ {x}]
      BY <2>1, <2>4
    <2>6. QED
      BY <1>2, <2>5 DEF x
  <1>3. QED
    BY <1>1, <1>2

\* Two totalling functions cannot first differ anywhere, and counting is one.
LEMMA TotallingIsCount ==
    ASSUME NEW T, IsFiniteSet(T), NEW f, \A g \in T : f[g] \in Nat,
           NEW h, IsTotalling(f, T, h)
    PROVE  h[T] = Cardinality(Units(f, T))
  <1> DEFINE Wrong == {t \in SUBSET T : h[t] # Cardinality(Units(f, t))}
  <1>1. ASSUME Wrong # {}
        PROVE  FALSE
    <2>1. IsWellFoundedOn(StrictSubsetOrdering(T), FiniteSubsetsOf(T))
      BY FS_StrictSubsetOrderingWellFounded
    <2>2. Wrong \subseteq FiniteSubsetsOf(T)
      BY FS_FiniteSubsetsOfFinite
    <2>3. PICK t \in Wrong : \A s \in Wrong : <<s, t>> \notin StrictSubsetOrdering(T)
      BY <1>1, <2>1, <2>2, WFMin
    <2>4. t # {}
      <3>1. h[{}] = 0
        BY DEF IsTotalling
      <3>2. Units(f, {}) = {}
        BY DEF Units
      <3>3. QED
        BY <3>1, <3>2, FS_EmptySet
    <2> DEFINE x == CHOOSE g \in t : TRUE
    <2>5. x \in t /\ t \ {x} \in SUBSET T /\ t \in SUBSET T
      BY <2>4
    <2>6. h[t] = f[x] + h[t \ {x}]
      BY <2>4, <2>5 DEF IsTotalling
    <2> HIDE DEF x
    <2>7. t \ {x} \notin Wrong
      <3>1. <<t \ {x}, t>> \in StrictSubsetOrdering(T)
        BY <2>5 DEF StrictSubsetOrdering
      <3>2. QED
        BY <2>3, <3>1
    <2>8. h[t \ {x}] = Cardinality(Units(f, t \ {x}))
      BY <2>5, <2>7
    <2>9. IsFiniteSet(t) /\ f[x] \in Nat
      BY <2>5, FS_Subset
    <2>10. Cardinality(Units(f, t)) = f[x] + Cardinality(Units(f, t \ {x}))
      BY <2>5, <2>9, UnitsAdd
    <2>11. QED
      BY <2>3, <2>6, <2>8, <2>10
  <1>2. QED
    BY <1>1

\* The total is the number of units.
LEMMA TotalIsCount ==
    ASSUME NEW T, IsFiniteSet(T), NEW f, \A g \in T : f[g] \in Nat
    PROVE  Total(f, T) = Cardinality(Units(f, T))
  <1> DEFINE h == CHOOSE fun : IsTotalling(f, T, fun)
  <1>1. Total(f, T) = h[T]
    BY DEF Total, MapThenSumSet, MapThenFoldSet, IsTotalling
  <1>2. IsTotalling(f, T, h)
    BY TotallingExists
  <1> HIDE DEF h
  <1>3. QED
    BY <1>1, <1>2, TotallingIsCount

\* Over nothing the total is 0.
LEMMA TotalOfNone == ASSUME NEW f PROVE Total(f, {}) = 0
  <1>1. Total(f, {}) = Cardinality(Units(f, {}))
    BY TotalIsCount, FS_EmptySet
  <1>2. Units(f, {}) = {}
    BY DEF Units
  <1>3. QED
    BY <1>1, <1>2, FS_EmptySet

\* What is added to a set adds its value.
LEMMA TotalAdd ==
    ASSUME NEW T, IsFiniteSet(T), NEW f, \A g \in T : f[g] \in Nat, NEW g \in T
    PROVE  /\ Total(f, T) = f[g] + Total(f, T \ {g})
           /\ Total(f, T) \in Nat /\ Total(f, T \ {g}) \in Nat
  <1>1. IsFiniteSet(T \ {g})
    BY FS_RemoveElement
  <1>2. Total(f, T) = Cardinality(Units(f, T))
    BY TotalIsCount
  <1>3. Total(f, T \ {g}) = Cardinality(Units(f, T \ {g}))
    BY <1>1, TotalIsCount
  <1>4. QED
    BY <1>1, <1>2, <1>3, UnitsAdd, UnitsFinite

\* A total is a number.
LEMMA TotalType ==
    ASSUME NEW T, IsFiniteSet(T), NEW f, \A g \in T : f[g] \in Nat
    PROVE  Total(f, T) \in Nat
  BY TotalIsCount, UnitsFinite

\* The total depends on the values over its set alone.
LEMMA TotalSame ==
    ASSUME NEW T, IsFiniteSet(T), NEW f, NEW e,
           \A g \in T : f[g] \in Nat /\ e[g] = f[g]
    PROVE  Total(e, T) = Total(f, T)
  <1>1. Units(e, T) = Units(f, T)
    BY DEF Units
  <1>2. QED
    BY <1>1, TotalIsCount

\* Values that are 0 add nothing, and those that are not do.
LEMMA TotalIsZero ==
    ASSUME NEW T, IsFiniteSet(T), NEW f, \A g \in T : f[g] \in Nat
    PROVE  Total(f, T) = 0 <=> \A g \in T : f[g] = 0
  <1>1. Total(f, T) = 0 <=> Units(f, T) = {}
    BY TotalIsCount, UnitsFinite, FS_EmptySet
  <1>2. ASSUME Units(f, T) = {}, NEW g \in T, f[g] # 0
        PROVE  FALSE
    <2>1. 1 \in Nat \ {0} /\ 1 <= f[g]
      BY <1>2
    <2>2. <<g, 1>> \in Units(f, T)
      BY <2>1 DEF Units
    <2>3. QED
      BY <1>2, <2>2
  <1>3. ASSUME \A g \in T : f[g] = 0
        PROVE  Units(f, T) = {}
    BY <1>3 DEF Units
  <1>4. QED
    BY <1>1, <1>2, <1>3

\* Of values none of which exceeds its limit, the total falls short of that of the
\* limits exactly when one of them does.
LEMMA TotalFallsShort ==
    ASSUME NEW T, IsFiniteSet(T), NEW f, NEW e,
           \A g \in T : f[g] \in Nat /\ e[g] \in Nat /\ f[g] <= e[g]
    PROVE  Total(f, T) < Total(e, T) <=> \E g \in T : f[g] < e[g]
  <1>1. Units(f, T) \subseteq Units(e, T)
    BY DEF Units
  <1>2. IsFiniteSet(Units(e, T)) /\ Cardinality(Units(e, T)) \in Nat
    BY UnitsFinite
  <1>3. /\ Cardinality(Units(f, T)) <= Cardinality(Units(e, T))
        /\ Cardinality(Units(f, T)) \in Nat
        /\ Cardinality(Units(e, T)) = Cardinality(Units(f, T)) => Units(e, T) = Units(f, T)
    BY <1>1, <1>2, UnitsFinite, FS_Subset
  <1>4. Total(f, T) = Cardinality(Units(f, T)) /\ Total(e, T) = Cardinality(Units(e, T))
    BY TotalIsCount
  <1>5. ASSUME NEW g \in T, f[g] < e[g]
        PROVE  Units(e, T) # Units(f, T)
    <2>1. e[g] \in Nat \ {0} /\ f[g] \in Nat /\ ~(e[g] <= f[g]) /\ e[g] <= e[g]
      BY <1>5
    <2>2. <<g, e[g]>> \in Units(e, T) /\ <<g, e[g]>> \notin Units(f, T)
      BY <2>1 DEF Units
    <2>3. QED
      BY <2>2
  <1>6. ASSUME \A g \in T : ~(f[g] < e[g])
        PROVE  Units(e, T) = Units(f, T)
    <2>1. \A g \in T : f[g] = e[g]
      BY <1>6
    <2>2. QED
      BY <2>1 DEF Units
  <1>7. Total(f, T) < Total(e, T) <=> Units(e, T) # Units(f, T)
    BY <1>2, <1>3, <1>4
  <1>8. QED
    BY <1>5, <1>6, <1>7
=============================================================================
