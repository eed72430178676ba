----------------------------- MODULE OrderedFolds -----------------------------
(***************************************************************************)
(* Lemmas about folds over a finite set of naturals in ascending order     *)
(* (InOrder of GatewayPlan, FoldLeft of SequencesExt): the recursion they  *)
(* are defined by has a solution, and induction along it.                  *)
(*                                                                         *)
(* They speak of sets and functions where the usual theorems on folds have *)
(* operators as parameters: a predicate is the set of what satisfies it,   *)
(* and the step of a fold is a function.                                   *)
(***************************************************************************)
EXTENDS Integers, FiniteSets, FiniteSetsExt, FiniteSetTheorems, WellFoundedInduction, TLAPS

\* Induction on the subsets of a finite set.
LEMMA SubsetInduction ==
  ASSUME NEW S, IsFiniteSet(S), NEW Good,
         \A T \in SUBSET S : (\A U \in SUBSET T : U # T => U \in Good) => T \in Good
  PROVE  \A T \in SUBSET S : T \in Good
  <1> DEFINE Bad == {T \in SUBSET S : T \notin Good}
  <1>1. IsWellFoundedOn(StrictSubsetOrdering(S), SUBSET S)
    BY FS_StrictSubsetOrderingWellFounded, FS_FiniteSubsetsOfFinite
  <1>2. SUFFICES ASSUME Bad # {} PROVE FALSE
    OBVIOUS
  <1>3. PICK T \in Bad : \A U \in Bad : ~(<<U, T>> \in StrictSubsetOrdering(S))
    <2> HIDE DEF Bad
    <2>1. Bad \subseteq SUBSET S
      BY DEF Bad
    <2> QED
      BY <1>1, <1>2, <2>1, WFMin
  <1>4. \A U \in SUBSET T : U # T => U \in Good
    BY <1>3 DEF StrictSubsetOrdering
  <1> QED
    BY <1>3, <1>4

\* A finite set has a best element for any total and transitive R.
LEMMA BestExists ==
  ASSUME NEW S, IsFiniteSet(S), S # {}, NEW R,
         \A x, y \in S : <<x, y>> \in R \/ <<y, x>> \in R,
         \A x, y, z \in S : <<x, y>> \in R /\ <<y, z>> \in R => <<x, z>> \in R
  PROVE  \E b \in S : \A x \in S : <<b, x>> \in R
  <1> DEFINE Good == {T \in SUBSET S : T # {} => \E b \in T : \A x \in T : <<b, x>> \in R}
  <1>1. ASSUME NEW T \in SUBSET S, \A U \in SUBSET T : U # T => U \in Good
        PROVE  T \in Good
    <2> SUFFICES ASSUME NEW m \in T PROVE \E b \in T : \A x \in T : <<b, x>> \in R
      OBVIOUS
    <2> DEFINE U == T \ {m}
    <2>1. U \in SUBSET T /\ U # T
      OBVIOUS
    <2>2. U \in Good
      <3> HIDE DEF U, Good
      <3> QED
        BY <1>1, <2>1
    <2>3. <<m, m>> \in R /\ m \in S
      OBVIOUS
    <2>4. CASE U = {}
      <3>1. \A x \in T : x = m
        BY <2>4
      <3> QED
        BY <2>3, <3>1
    <2>5. CASE U # {}
      <3>1. PICK b \in U : \A x \in U : <<b, x>> \in R
        BY <2>2, <2>5
      <3>2. \A x \in T : x \in U \/ x = m
        OBVIOUS
      <3>3. b \in T /\ b \in S /\ \A x \in T : x \in S
        OBVIOUS
      <3> HIDE DEF U
      <3>4. CASE <<b, m>> \in R
        BY <3>1, <3>2, <3>3, <3>4
      <3>5. CASE <<m, b>> \in R
        BY <2>3, <3>1, <3>2, <3>3, <3>5
      <3> QED
        BY <2>3, <3>3, <3>4, <3>5
    <2> QED
      BY <2>4, <2>5
  <1>2. S \in Good
    <2> HIDE DEF Good
    <2> QED
      BY <1>1, SubsetInduction
  <1> QED
    BY <1>2

\* A finite set of naturals that is not empty has a maximum.
LEMMA MaxOfNaturals ==
  ASSUME NEW S, IsFiniteSet(S), S \subseteq Nat, S # {}
  PROVE  Max(S) \in S /\ \A x \in S : x <= Max(S)
  <1> DEFINE R == {p \in Nat \X Nat : p[1] >= p[2]}
  <1>1. \A x, y \in Nat : <<x, y>> \in R <=> x >= y
    OBVIOUS
  <1>2. \E m \in S : \A x \in S : <<m, x>> \in R
    <2> HIDE DEF R
    <2>1. ASSUME NEW x \in S, NEW y \in S
          PROVE  <<x, y>> \in R \/ <<y, x>> \in R
      <3>1. x \in Nat /\ y \in Nat
        OBVIOUS
      <3>2. x >= y \/ y >= x
        BY <3>1
      <3> QED
        BY <1>1, <3>1, <3>2
    <2>2. ASSUME NEW x \in S, NEW y \in S, NEW z \in S, <<x, y>> \in R, <<y, z>> \in R
          PROVE  <<x, z>> \in R
      <3>1. x >= y /\ y >= z /\ x \in Nat /\ y \in Nat /\ z \in Nat
        BY <1>1, <2>2
      <3>2. x >= z
        BY <3>1
      <3> QED
        BY <1>1, <3>1, <3>2
    <2> QED
      BY <2>1, <2>2, BestExists
  <1>3. \E m \in S : \A x \in S : m >= x
    BY <1>1, <1>2
  <1> QED
    BY <1>3 DEF Max

\* A set of naturals that is not empty has a minimum.
LEMMA MinOfNaturals ==
  ASSUME NEW S, S \subseteq Nat, S # {}
  PROVE  Min(S) \in S /\ \A x \in S : Min(S) <= x
  <1>1. PICK n \in S : TRUE
    OBVIOUS
  <1> DEFINE T == {x \in S : x <= n}
             R == {p \in Nat \X Nat : p[1] <= p[2]}
  <1>2. IsFiniteSet(T) /\ T # {} /\ T \subseteq Nat
    <2>1. n \in Nat /\ n <= n
      <3>1. n \in Nat
        OBVIOUS
      <3> QED
        BY <3>1
    <2>2. T \in SUBSET Nat /\ n \in T /\ \A x \in T : x <= n
      BY <2>1, Zenon
    <2> HIDE DEF T
    <2>3. IsFiniteSet(T)
      BY <2>1, <2>2, FS_BoundedSetOfNaturals
    <2> QED
      BY <2>2, <2>3
  <1>3. \A x, y \in Nat : <<x, y>> \in R <=> x <= y
    OBVIOUS
  <1>4. \E m \in T : \A x \in T : <<m, x>> \in R
    <2> HIDE DEF R, T
    <2>1. ASSUME NEW x \in T, NEW y \in T
          PROVE  <<x, y>> \in R \/ <<y, x>> \in R
      <3>1. x \in Nat /\ y \in Nat
        BY <1>2
      <3>2. x <= y \/ y <= x
        BY <3>1
      <3> QED
        BY <1>3, <3>1, <3>2
    <2>2. ASSUME NEW x \in T, NEW y \in T, NEW z \in T, <<x, y>> \in R, <<y, z>> \in R
          PROVE  <<x, z>> \in R
      <3>1. x <= y /\ y <= z /\ x \in Nat /\ y \in Nat /\ z \in Nat
        BY <1>2, <1>3, <2>2
      <3>2. x <= z
        BY <3>1
      <3> QED
        BY <1>3, <3>1, <3>2
    <2> QED
      BY <1>2, <2>1, <2>2, BestExists
  <1>5. \E m \in S : \A x \in S : m <= x
    <2>1. PICK m \in T : \A x \in T : m <= x
      BY <1>2, <1>3, <1>4
    <2>2. ASSUME NEW x \in S PROVE m <= x
      <3>1. m \in Nat /\ n \in Nat /\ x \in Nat /\ m <= n
        BY <1>1
      <3>2. CASE x <= n
        BY <2>1, <3>2
      <3>3. CASE n <= x
        BY <3>1, <3>3
      <3> QED
        BY <3>1, <3>2, <3>3
    <2> QED
      BY <2>2
  <1> QED
    BY <1>5 DEF Min

\* Induction along a set of naturals in ascending order.
LEMMA AscendingInduction ==
  ASSUME NEW S, IsFiniteSet(S), S \subseteq Nat, NEW Good,
         {} \in Good,
         \A T \in SUBSET S : T # {} /\ T \ {Max(T)} \in Good => T \in Good
  PROVE  \A T \in SUBSET S : T \in Good
  <1>1. ASSUME NEW T \in SUBSET S, \A U \in SUBSET T : U # T => U \in Good
        PROVE  T \in Good
    <2>1. T # {} => Max(T) \in T
      BY MaxOfNaturals, FS_Subset
    <2>2. T # {} => T \ {Max(T)} \in SUBSET T /\ T \ {Max(T)} # T
      BY <2>1
    <2>3. T # {} => T \ {Max(T)} \in Good
      BY <1>1, <2>2
    <2> QED
      BY <2>3
  <1> QED
    BY <1>1, SubsetInduction

\* f[T] is the value of a fold after the elements of T.
Unfolds(f, S, V, base, Step) ==
    /\ f \in [SUBSET S -> V]
    /\ f[{}] = base
    /\ \A T \in SUBSET S : T # {} => f[T] = Step[<<Max(T), f[T \ {Max(T)}]>>]

(***************************************************************************)
(* The recursion of a fold has a solution: the values after each initial   *)
(* segment of S, when Step takes a value and an element of S to a value.   *)
(***************************************************************************)
LEMMA FoldExists ==
  ASSUME NEW S, IsFiniteSet(S), S \subseteq Nat,
         NEW V, NEW base \in V, NEW Step \in [S \X V -> V]
  PROVE  \E f : Unfolds(f, S, V, base, Step)
  <1> DEFINE Solves(f, T) ==
               /\ f \in [SUBSET T -> V]
               /\ \A U \in SUBSET T : f[U] = IF U = {} THEN base ELSE Step[<<Max(U), f[U \ {Max(U)}]>>]
             Good == {T \in SUBSET S : \E f : Solves(f, T)}
  <1>max. \A T \in SUBSET S : T # {} => Max(T) \in T /\ \A x \in T : x <= Max(T)
    BY MaxOfNaturals, FS_Subset
  <1>1. {} \in Good
    <2>1. Solves([U \in {{}} |-> base], {})
      OBVIOUS
    <2> QED
      BY <2>1
  <1>2. ASSUME NEW T \in SUBSET S, T # {}, T \ {Max(T)} \in Good
        PROVE  T \in Good
    <2> DEFINE m == Max(T)
    <2>1. PICK f : Solves(f, T \ {m})
      BY <1>2
    <2>2. m \in T /\ \A x \in T : x <= m
      BY <1>2, <1>max
    <2> DEFINE g == [U \in SUBSET T |-> IF m \in U THEN Step[<<m, f[U \ {m}]>>] ELSE f[U]]
    <2>3. ASSUME NEW U \in SUBSET T, m \in U
          PROVE  Max(U) = m /\ U \ {m} \in SUBSET (T \ {m}) /\ m \notin U \ {m}
      <3>1. U \in SUBSET S /\ U # {} /\ U \subseteq Nat
        BY <2>3
      <3>2. Max(U) \in U /\ m <= Max(U)
        BY <1>max, <2>3, <3>1
      <3>3. Max(U) <= m
        BY <2>2, <3>2
      <3>4. Max(U) \in Nat /\ m \in Nat
        BY <2>3, <3>1, <3>2
      <3>5. Max(U) = m
        <4> HIDE DEF m
        <4> QED
          BY <3>2, <3>3, <3>4
      <3> QED
        BY <2>3, <3>5
    <2>4. ASSUME NEW U \in SUBSET T, m \notin U
          PROVE  U \in SUBSET (T \ {m}) /\ (U # {} => m \notin U \ {Max(U)} /\ U \ {Max(U)} \in SUBSET T)
      BY <2>4
    <2>5. g \in [SUBSET T -> V]
      <3> SUFFICES ASSUME NEW U \in SUBSET T
                   PROVE  (IF m \in U THEN Step[<<m, f[U \ {m}]>>] ELSE f[U]) \in V
        OBVIOUS
      <3> QED
        BY <2>1, <2>2, <2>3, <2>4
    <2>6. ASSUME NEW U \in SUBSET T
          PROVE  g[U] = IF U = {} THEN base ELSE Step[<<Max(U), g[U \ {Max(U)}]>>]
      <3>1. CASE m \in U
        <4>1. g[U] = Step[<<m, f[U \ {m}]>>]
          BY <3>1
        <4>2. g[U \ {m}] = f[U \ {m}]
          BY <2>3, <3>1
        <4> QED
          BY <2>3, <3>1, <4>1, <4>2
      <3>2. CASE m \notin U
        <4>1. g[U] = f[U]
          BY <3>2
        <4>2. U # {} => g[U \ {Max(U)}] = f[U \ {Max(U)}]
          BY <2>4, <3>2
        <4>3. f[U] = IF U = {} THEN base ELSE Step[<<Max(U), f[U \ {Max(U)}]>>]
          BY <2>1, <2>4, <3>2
        <4> HIDE DEF g
        <4> QED
          BY <4>1, <4>2, <4>3
      <3> QED
        BY <3>1, <3>2
    <2>7. Solves(g, T)
      <3> HIDE DEF g
      <3> QED
        BY <2>5, <2>6
    <2> QED
      BY <2>7
  <1>3. S \in Good
    <2> HIDE DEF Good
    <2> QED
      BY <1>1, <1>2, AscendingInduction
  <1>4. PICK f : Solves(f, S)
    BY <1>3
  <1> QED
    BY <1>4 DEF Unfolds

=============================================================================
