------------------------------ MODULE SumLemmas ------------------------------
(***************************************************************************)
(* SumFunctionOnSet, the sum the models keep their money in, over finite   *)
(* sets of any size.  The library defines it as a fold, so what it yields  *)
(* is proved by induction over the subsets of a set.  The induction takes  *)
(* the property as a set of subsets, and a subset that is minimal outside  *)
(* it gives the contradiction; no operator parameter is needed.            *)
(* The least and the greatest member of a finite set of integers, and the  *)
(* finiteness of images and triples, come the same way.                    *)
(***************************************************************************)
EXTENDS FiniteSetsExt, FiniteSetTheorems, WellFoundedInduction, TLAPS

\* Induction over the subsets of a finite set, with the property as a set.
LEMMA SubsetInduction ==
    ASSUME NEW S, IsFiniteSet(S), NEW F,
           \A T \in SUBSET S :
               (\A U \in SUBSET T : U # T => U \in F) => T \in F
    PROVE  S \in F
<1> DEFINE R == StrictSubsetOrdering(S)
           D == FiniteSubsetsOf(S)
           B == {T \in SUBSET S : T \notin F}
<1> SUFFICES ASSUME S \notin F PROVE FALSE
  OBVIOUS
<1>1. IsWellFoundedOn(R, D)
  BY FS_StrictSubsetOrderingWellFounded
<1>2. B \subseteq D
  BY FS_Subset DEF FiniteSubsetsOf
<1>3. B # {}
  OBVIOUS
<1>4. \A T \in B, U \in B : <<U, T>> \in R <=> U \subseteq T /\ U # T
  BY DEF StrictSubsetOrdering
<1> HIDE DEF R, D, B
<1>5. PICK T \in B : \A U \in B : <<U, T>> \notin R
  BY <1>1, <1>2, <1>3, WFMin
<1>6. \A U \in SUBSET T : U # T => U \in F
  BY <1>4, <1>5 DEF B
<1> QED
  BY <1>5, <1>6 DEF B

\* A finite set of integers has a least element.
LEMMA LeastOf ==
    ASSUME NEW S, IsFiniteSet(S), S \subseteq Int, S # {}
    PROVE  \E t \in S : \A x \in S : t <= x
<1> DEFINE F == {T \in SUBSET S : T # {} => \E t \in T : \A x \in T : t <= x}
<1>1. ASSUME NEW T \in SUBSET S, \A U \in SUBSET T : U # T => U \in F
      PROVE  T \in F
  <2> SUFFICES ASSUME T # {} PROVE \E t \in T : \A x \in T : t <= x
    OBVIOUS
  <2>1. PICK a \in T : a \in Int
    OBVIOUS
  <2>2. T \ {a} \in F
    BY <1>1
  <2>3. CASE T \ {a} = {}
    BY <2>1, <2>3
  <2>4. CASE T \ {a} # {}
    <3>1. PICK b \in T \ {a} : \A x \in T \ {a} : b <= x
      BY <2>2, <2>4
    <3>2. b \in Int
      OBVIOUS
    <3>3. a <= b => \A x \in T : a <= x
      BY <2>1, <3>1, <3>2
    <3>4. b <= a => \A x \in T : b <= x
      BY <2>1, <3>1, <3>2
    <3> QED
      BY <2>1, <3>1, <3>2, <3>3, <3>4
  <2> QED
    BY <2>3, <2>4
<1> HIDE DEF F
<1>2. S \in F
  BY <1>1, SubsetInduction
<1> QED
  BY <1>2 DEF F

\* What a function yields on a finite set is finite.
LEMMA ImageFinite ==
    ASSUME NEW S, IsFiniteSet(S), NEW f
    PROVE  IsFiniteSet({f[x] : x \in S})
<1> DEFINE T == {f[x] : x \in S}
           g == [x \in S |-> f[x]]
<1>1. g \in Surjection(S, T)
  BY DEF Surjection
<1> HIDE DEF T, g
<1>2. IsFiniteSet(T)
  BY <1>1, FS_Surjection
<1> QED
  BY <1>2 DEF T

\* And a greatest: the negatives have a least one.
LEMMA GreatestOf ==
    ASSUME NEW S, IsFiniteSet(S), S \subseteq Int, S # {}
    PROVE  \E t \in S : \A x \in S : x <= t
<1> DEFINE g == [x \in S |-> -x]
           N == {g[x] : x \in S}
<1>1. IsFiniteSet(N)
  BY ImageFinite
<1>2. N \subseteq Int /\ N # {} /\ \A x \in S : -x \in N
  <2>1. \A x \in S : g[x] = -x /\ -x \in Int
    OBVIOUS
  <2>2. \A x \in S : g[x] \in N
    OBVIOUS
  <2>3. \A y \in N : \E x \in S : y = g[x]
    OBVIOUS
  <2> HIDE DEF g, N
  <2> QED
    BY <2>1, <2>2, <2>3
<1>3. \A y \in N : \E x \in S : y = -x
  OBVIOUS
<1> HIDE DEF N
<1>4. PICK y \in N : \A z \in N : y <= z
  BY <1>1, <1>2, LeastOf
<1>5. PICK t \in S : y = -t
  BY <1>3
<1>6. \A x \in S : x <= t
  <2> SUFFICES ASSUME NEW x \in S PROVE x <= t
    OBVIOUS
  <2>1. y <= -x /\ x \in Int /\ t \in Int
    BY <1>2, <1>4
  <2> QED
    BY <1>5, <2>1
<1> QED
  BY <1>6

\* Triples of members of finite sets.
LEMMA TriplesFinite ==
    ASSUME NEW S, IsFiniteSet(S), NEW T, IsFiniteSet(T), NEW U, IsFiniteSet(U)
    PROVE  IsFiniteSet(S \X T \X U)
<1> DEFINE P == (S \X T) \X U
           f == [x \in P |-> <<x[1][1], x[1][2], x[2]>>]
<1>1. IsFiniteSet(P)
  <2>1. IsFiniteSet(S \X T)
    BY FS_Product
  <2> QED
    BY <2>1, FS_Product
<1>2. S \X T \X U \subseteq {f[x] : x \in P}
  <2>1. ASSUME NEW y \in S \X T \X U PROVE \E x \in P : y = f[x]
    <3>1. PICK s \in S, t \in T, u \in U : y = <<s, t, u>>
      OBVIOUS
    <3>2. <<<<s, t>>, u>> \in P
      OBVIOUS
    <3>3. f[<<<<s, t>>, u>>] = <<s, t, u>>
      BY <3>2
    <3> QED
      BY <3>1, <3>2, <3>3
  <2> QED
    BY <2>1
<1> HIDE DEF P, f
<1>3. IsFiniteSet({f[x] : x \in P})
  BY <1>1, ImageFinite
<1> QED
  BY <1>2, <1>3, FS_Subset

-----------------------------------------------------------------------------
(* The fold as the library defines it: at each step some element is picked. *)

Picked(T) == CHOOSE x \in T : TRUE
FoldStep(f, g, T) == IF T = {} THEN 0 ELSE f[Picked(T)] + g[T \ {Picked(T)}]
Tabulates(f, S, g) == g = [T \in SUBSET S |-> FoldStep(f, g, T)]
SumTable(f, S) == CHOOSE g : Tabulates(f, S, g)

\* The library's sum is its table, read at the whole set.
LEMMA SumIsTable ==
    ASSUME NEW f, NEW S
    PROVE  SumFunctionOnSet(f, S) = SumTable(f, S)[S]
BY DEF SumFunctionOnSet, FoldFunctionOnSet, MapThenFoldSet, SumTable, Tabulates, FoldStep, Picked

\* What is picked from a set is in it.
LEMMA PickedIn ==
    ASSUME NEW T, T # {}
    PROVE  Picked(T) \in T
BY DEF Picked

\* The tables of two sets agree on what both hold.
LEMMA TablesAgree ==
    ASSUME NEW f, NEW S, NEW U, IsFiniteSet(U), NEW g, NEW h, U \subseteq S,
           Tabulates(f, S, g), Tabulates(f, U, h)
    PROVE  g[U] = h[U]
<1> DEFINE F == {T \in SUBSET U : g[T] = h[T]}
<1>1. ASSUME NEW T \in SUBSET U, \A V \in SUBSET T : V # T => V \in F
      PROVE  T \in F
  <2>1. g[T] = FoldStep(f, g, T) /\ h[T] = FoldStep(f, h, T)
    BY DEF Tabulates
  <2>2. CASE T = {}
    BY <2>1, <2>2 DEF FoldStep
  <2>3. CASE T # {}
    <3>1. Picked(T) \in T
      BY <2>3, PickedIn
    <3>2. T \ {Picked(T)} \in SUBSET T /\ T \ {Picked(T)} # T
      BY <3>1
    <3>3. g[T \ {Picked(T)}] = h[T \ {Picked(T)}]
      BY <1>1, <3>2
    <3> QED
      BY <2>1, <3>3 DEF FoldStep
  <2> QED
    BY <2>2, <2>3
<1> HIDE DEF F
<1>2. U \in F
  BY <1>1, SubsetInduction
<1> QED
  BY <1>2 DEF F

\* The recursive definition of the fold has a solution for every finite set.
LEMMA TableExists ==
    ASSUME NEW f, NEW S, IsFiniteSet(S)
    PROVE  Tabulates(f, S, SumTable(f, S))
<1> DEFINE F == {T \in SUBSET S : Tabulates(f, T, SumTable(f, T))}
<1>1. ASSUME NEW T \in SUBSET S, \A U \in SUBSET T : U # T => U \in F
      PROVE  T \in F
  <2> DEFINE below == [U \in SUBSET T |-> SumTable(f, U)[U]]
             g == [U \in SUBSET T |-> IF U = T THEN FoldStep(f, below, T) ELSE below[U]]
  <2>1. ASSUME NEW U \in SUBSET T
        PROVE  g[U] = FoldStep(f, g, U)
    <3>1. CASE U = {}
      <4>1. U # T => SumTable(f, U)[U] = FoldStep(f, SumTable(f, U), U)
        BY <1>1 DEF Tabulates
      <4> QED
        BY <3>1, <4>1 DEF FoldStep
    <3>2. CASE U # {}
      <4> DEFINE V == U \ {Picked(U)}
      <4>1. V \in SUBSET U /\ V # U /\ V # T
        BY <3>2, PickedIn
      <4>2. g[V] = below[V]
        BY <4>1
      <4>3. CASE U = T
        BY <3>2, <4>2, <4>3 DEF FoldStep
      <4>4. CASE U # T
        <5>1. Tabulates(f, U, SumTable(f, U)) /\ Tabulates(f, V, SumTable(f, V))
          BY <1>1, <4>1, <4>4
        <5>2. IsFiniteSet(V)
          BY <4>1, FS_Subset
        <5>3. SumTable(f, U)[V] = SumTable(f, V)[V]
          BY <4>1, <5>1, <5>2, TablesAgree
        <5>4. SumTable(f, U)[U] = FoldStep(f, SumTable(f, U), U)
          BY <5>1 DEF Tabulates
        <5> QED
          BY <3>2, <4>1, <4>2, <4>4, <5>3, <5>4 DEF FoldStep
      <4> QED
        BY <4>3, <4>4
    <3> QED
      BY <3>1, <3>2
  <2> HIDE DEF below
  <2>2. g = [U \in SUBSET T |-> FoldStep(f, g, U)]
    <3>1. g = [U \in SUBSET T |-> g[U]]
      OBVIOUS
    <3> HIDE DEF g
    <3> QED
      BY <2>1, <3>1
  <2> HIDE DEF g
  <2>3. Tabulates(f, T, g)
    BY <2>2 DEF Tabulates
  <2> QED
    BY <2>3 DEF SumTable
<1> HIDE DEF F
<1>2. S \in F
  BY <1>1, SubsetInduction
<1> QED
  BY <1>2 DEF F

\* The sum satisfies its recursive definition.
LEMMA SumUnfolds ==
    ASSUME NEW f, NEW S, IsFiniteSet(S)
    PROVE  /\ S = {} => SumFunctionOnSet(f, S) = 0
           /\ S # {} => SumFunctionOnSet(f, S)
                          = f[Picked(S)] + SumFunctionOnSet(f, S \ {Picked(S)})
<1> DEFINE V == S \ {Picked(S)}
<1> DEFINE g == SumTable(f, S)
<1>1. g[S] = FoldStep(f, g, S)
  <2>1. Tabulates(f, S, g)
    BY TableExists
  <2> HIDE DEF g
  <2> QED
    BY <2>1 DEF Tabulates
<1>2. IsFiniteSet(V)
  BY FS_Subset
<1>3. SumTable(f, S)[V] = SumTable(f, V)[V]
  BY <1>2, TableExists, TablesAgree
<1> QED
  BY <1>1, <1>3, SumIsTable DEF FoldStep

-----------------------------------------------------------------------------
(* What the other proofs use. *)

\* The sum over nothing is zero.
LEMMA SumEmpty ==
    ASSUME NEW f
    PROVE  SumFunctionOnSet(f, {}) = 0
BY FS_EmptySet, SumUnfolds

\* A sum of integers is one.
LEMMA SumInt ==
    ASSUME NEW S, IsFiniteSet(S), NEW f, \A x \in S : f[x] \in Int
    PROVE  SumFunctionOnSet(f, S) \in Int
<1> DEFINE F == {T \in SUBSET S : SumFunctionOnSet(f, T) \in Int}
<1>1. ASSUME NEW T \in SUBSET S, \A U \in SUBSET T : U # T => U \in F
      PROVE  T \in F
  <2>1. IsFiniteSet(T)
    BY FS_Subset
  <2>2. CASE T # {}
    <3>1. Picked(T) \in T /\ T \ {Picked(T)} \in F
      BY <1>1, <2>2, PickedIn
    <3> QED
      BY <2>1, <2>2, <3>1, SumUnfolds
  <2>3. CASE T = {}
    BY <2>3, SumEmpty
  <2> QED
    BY <2>2, <2>3
<1> HIDE DEF F
<1>2. S \in F
  BY <1>1, SubsetInduction
<1> QED
  BY <1>2 DEF F

\* The order in which the fold takes the elements does not matter.
LEMMA SumTake ==
    ASSUME NEW S, IsFiniteSet(S), NEW f, \A x \in S : f[x] \in Int, NEW a \in S
    PROVE  SumFunctionOnSet(f, S) = f[a] + SumFunctionOnSet(f, S \ {a})
<1> DEFINE F == {T \in SUBSET S : \A x \in T :
                   SumFunctionOnSet(f, T) = f[x] + SumFunctionOnSet(f, T \ {x})}
<1>1. ASSUME NEW T \in SUBSET S, \A U \in SUBSET T : U # T => U \in F
      PROVE  T \in F
  <2>1. ASSUME NEW x \in T
        PROVE  SumFunctionOnSet(f, T) = f[x] + SumFunctionOnSet(f, T \ {x})
    <3> DEFINE y == Picked(T)
    <3>1. y \in T
      BY PickedIn
    <3> HIDE DEF y
    <3>2. IsFiniteSet(T) /\ IsFiniteSet(T \ {x}) /\ IsFiniteSet(T \ {y})
      BY FS_Subset
    <3>3. SumFunctionOnSet(f, T) = f[y] + SumFunctionOnSet(f, T \ {y})
      BY <3>2, SumUnfolds DEF y
    <3>4. CASE x # y
      <4>1. T \ {x} \in F /\ T \ {y} \in F
        BY <1>1, <3>1
      <4> DEFINE r == SumFunctionOnSet(f, T \ {x, y})
      <4>2. (T \ {x}) \ {y} = T \ {x, y} /\ (T \ {y}) \ {x} = T \ {x, y}
        OBVIOUS
      <4>3. SumFunctionOnSet(f, T \ {x}) = f[y] + r
        BY <3>1, <3>4, <4>1, <4>2
      <4>4. SumFunctionOnSet(f, T \ {y}) = f[x] + r
        BY <3>1, <3>4, <4>1, <4>2
      <4>5. IsFiniteSet(T \ {x, y})
        BY <3>2, FS_Subset
      <4>6. r \in Int
        BY <4>5, SumInt
      <4>7. f[x] \in Int /\ f[y] \in Int
        BY <3>1
      <4> HIDE DEF r
      <4> QED
        BY <3>3, <4>3, <4>4, <4>6, <4>7
    <3> QED
      BY <3>3, <3>4
  <2> QED
    BY <2>1
<1> HIDE DEF F
<1>2. S \in F
  BY <1>1, SubsetInduction
<1> QED
  BY <1>2 DEF F

\* A sum depends on the function's values on the set alone.
LEMMA SumSame ==
    ASSUME NEW S, IsFiniteSet(S), NEW f, NEW g, \A x \in S : f[x] = g[x]
    PROVE  SumFunctionOnSet(f, S) = SumFunctionOnSet(g, S)
<1> DEFINE F == {T \in SUBSET S : SumFunctionOnSet(f, T) = SumFunctionOnSet(g, T)}
<1>1. ASSUME NEW T \in SUBSET S, \A U \in SUBSET T : U # T => U \in F
      PROVE  T \in F
  <2>1. IsFiniteSet(T)
    BY FS_Subset
  <2>2. CASE T # {}
    <3>1. Picked(T) \in T /\ T \ {Picked(T)} \in F
      BY <1>1, <2>2, PickedIn
    <3> QED
      BY <2>1, <2>2, <3>1, SumUnfolds
  <2> QED
    BY <2>1, <2>2, SumUnfolds
<1> HIDE DEF F
<1>2. S \in F
  BY <1>1, SubsetInduction
<1> QED
  BY <1>2 DEF F

\* One element more.
LEMMA SumAdd ==
    ASSUME NEW S, IsFiniteSet(S), NEW a, a \notin S,
           NEW f, \A x \in S \union {a} : f[x] \in Int
    PROVE  SumFunctionOnSet(f, S \union {a}) = f[a] + SumFunctionOnSet(f, S)
<1>1. IsFiniteSet(S \union {a}) /\ (S \union {a}) \ {a} = S
  BY FS_AddElement
<1> QED
  BY <1>1, SumTake

\* One element changes.
LEMMA SumChange ==
    ASSUME NEW S, IsFiniteSet(S), NEW a \in S, NEW f, NEW g,
           \A x \in S : f[x] \in Int /\ g[x] \in Int,
           \A x \in S \ {a} : f[x] = g[x]
    PROVE  SumFunctionOnSet(g, S) = SumFunctionOnSet(f, S) - f[a] + g[a]
<1>1. IsFiniteSet(S \ {a})
  BY FS_Subset
<1>2. SumFunctionOnSet(f, S \ {a}) = SumFunctionOnSet(g, S \ {a})
  BY <1>1, SumSame
<1>3. SumFunctionOnSet(f, S \ {a}) \in Int
  BY <1>1, SumInt
<1>4. f[a] \in Int /\ g[a] \in Int
  OBVIOUS
<1>5. SumFunctionOnSet(f, S) = f[a] + SumFunctionOnSet(f, S \ {a})
  BY SumTake
<1>6. SumFunctionOnSet(g, S) = g[a] + SumFunctionOnSet(g, S \ {a})
  BY SumTake
<1> QED
  BY <1>2, <1>3, <1>4, <1>5, <1>6

\* Sums over disjoint sets add up.
LEMMA SumUnion ==
    ASSUME NEW S, IsFiniteSet(S), NEW T, IsFiniteSet(T), S \intersect T = {},
           NEW f, \A x \in S \union T : f[x] \in Int
    PROVE  SumFunctionOnSet(f, S \union T)
             = SumFunctionOnSet(f, S) + SumFunctionOnSet(f, T)
<1> DEFINE F == {U \in SUBSET T : SumFunctionOnSet(f, S \union U)
                                    = SumFunctionOnSet(f, S) + SumFunctionOnSet(f, U)}
<1>1. ASSUME NEW U \in SUBSET T, \A V \in SUBSET U : V # U => V \in F
      PROVE  U \in F
  <2>1. IsFiniteSet(U) /\ IsFiniteSet(S \union U)
    BY FS_Subset, FS_Union
  <2>2. SumFunctionOnSet(f, S) \in Int
    BY SumInt
  <2>3. CASE U = {}
    <3>1. S \union U = S
      BY <2>3
    <3> QED
      BY <2>2, <2>3, <3>1, SumEmpty
  <2>4. CASE U # {}
    <3> PICK a \in U : TRUE
      BY <2>4
    <3>1. U \ {a} \in F
      BY <1>1
    <3>2. (S \union U) \ {a} = S \union (U \ {a})
      OBVIOUS
    <3>3. SumFunctionOnSet(f, S \union U) = f[a] + SumFunctionOnSet(f, S \union (U \ {a}))
      BY <2>1, <3>2, SumTake
    <3>4. SumFunctionOnSet(f, U) = f[a] + SumFunctionOnSet(f, U \ {a})
      BY <2>1, SumTake
    <3>5. SumFunctionOnSet(f, U \ {a}) \in Int
      <4>1. IsFiniteSet(U \ {a})
        BY <2>1, FS_Subset
      <4> QED
        BY <4>1, SumInt
    <3>6. f[a] \in Int
      OBVIOUS
    <3>7. SumFunctionOnSet(f, S \union (U \ {a}))
            = SumFunctionOnSet(f, S) + SumFunctionOnSet(f, U \ {a})
      BY <3>1
    <3> QED
      BY <2>2, <3>3, <3>4, <3>5, <3>6, <3>7
  <2> QED
    BY <2>3, <2>4
<1> HIDE DEF F
<1>2. T \in F
  BY <1>1, SubsetInduction
<1> QED
  BY <1>2 DEF F

\* Larger terms, larger sum.
LEMMA SumMonotone ==
    ASSUME NEW S, IsFiniteSet(S), NEW f, NEW g,
           \A x \in S : f[x] \in Int /\ g[x] \in Int /\ f[x] <= g[x]
    PROVE  SumFunctionOnSet(f, S) <= SumFunctionOnSet(g, S)
<1> DEFINE F == {T \in SUBSET S : SumFunctionOnSet(f, T) <= SumFunctionOnSet(g, T)}
<1>1. ASSUME NEW T \in SUBSET S, \A U \in SUBSET T : U # T => U \in F
      PROVE  T \in F
  <2>1. IsFiniteSet(T)
    BY FS_Subset
  <2>2. CASE T # {}
    <3> DEFINE V == T \ {Picked(T)}
    <3>1. Picked(T) \in T /\ V \in F
      BY <1>1, <2>2, PickedIn
    <3>2. IsFiniteSet(V)
      BY <2>1, FS_Subset
    <3>3. SumFunctionOnSet(f, V) \in Int /\ SumFunctionOnSet(g, V) \in Int
      BY <3>2, SumInt
    <3>4. SumFunctionOnSet(f, V) <= SumFunctionOnSet(g, V)
      BY <3>1
    <3>5. /\ f[Picked(T)] \in Int /\ g[Picked(T)] \in Int
          /\ f[Picked(T)] <= g[Picked(T)]
      BY <3>1
    <3>6. /\ SumFunctionOnSet(f, T) = f[Picked(T)] + SumFunctionOnSet(f, V)
          /\ SumFunctionOnSet(g, T) = g[Picked(T)] + SumFunctionOnSet(g, V)
      BY <2>1, <2>2, SumUnfolds
    <3> HIDE DEF V
    <3> QED
      BY <3>3, <3>4, <3>5, <3>6
  <2>3. CASE T = {}
    BY <2>3, SumEmpty
  <2> QED
    BY <2>2, <2>3
<1> HIDE DEF F
<1>2. S \in F
  BY <1>1, SubsetInduction
<1> QED
  BY <1>2 DEF F

\* A sum of zeros.
LEMMA SumZero ==
    ASSUME NEW S, IsFiniteSet(S), NEW f, \A x \in S : f[x] = 0
    PROVE  SumFunctionOnSet(f, S) = 0
<1> DEFINE F == {T \in SUBSET S : SumFunctionOnSet(f, T) = 0}
<1>1. ASSUME NEW T \in SUBSET S, \A U \in SUBSET T : U # T => U \in F
      PROVE  T \in F
  <2>1. IsFiniteSet(T)
    BY FS_Subset
  <2>2. CASE T # {}
    <3>1. Picked(T) \in T /\ T \ {Picked(T)} \in F
      BY <1>1, <2>2, PickedIn
    <3> QED
      BY <2>1, <2>2, <3>1, SumUnfolds
  <2> QED
    BY <2>1, <2>2, SumUnfolds
<1> HIDE DEF F
<1>2. S \in F
  BY <1>1, SubsetInduction
<1> QED
  BY <1>2 DEF F

\* Terms that are zero may be left out.
LEMMA SumWithin ==
    ASSUME NEW S, IsFiniteSet(S), NEW T \in SUBSET S,
           NEW f, \A x \in S : f[x] \in Int, \A x \in S \ T : f[x] = 0
    PROVE  SumFunctionOnSet(f, T) = SumFunctionOnSet(f, S)
<1>1. IsFiniteSet(T) /\ IsFiniteSet(S \ T) /\ T \union (S \ T) = S
  BY FS_Subset
<1>2. SumFunctionOnSet(f, T) \in Int
  BY <1>1, SumInt
<1>3. SumFunctionOnSet(f, S)
        = SumFunctionOnSet(f, T) + SumFunctionOnSet(f, S \ T)
  BY <1>1, SumUnion
<1>4. SumFunctionOnSet(f, S \ T) = 0
  BY <1>1, SumZero
<1> QED
  BY <1>2, <1>3, <1>4

\* A sum of naturals is one.
LEMMA SumNat ==
    ASSUME NEW S, IsFiniteSet(S), NEW f, \A x \in S : f[x] \in Nat
    PROVE  SumFunctionOnSet(f, S) \in Nat
<1> DEFINE z == [x \in S |-> 0]
<1>1. SumFunctionOnSet(f, S) \in Int
  BY SumInt
<1> HIDE DEF z
<1>2. SumFunctionOnSet(z, S) = 0
  BY SumZero DEF z
<1>3. SumFunctionOnSet(z, S) <= SumFunctionOnSet(f, S)
  BY SumMonotone DEF z
<1> QED
  BY <1>1, <1>2, <1>3

\* A part of a sum of naturals is no larger than the whole.
LEMMA SumSubset ==
    ASSUME NEW S, IsFiniteSet(S), NEW T \in SUBSET S,
           NEW f, \A x \in S : f[x] \in Nat
    PROVE  SumFunctionOnSet(f, T) <= SumFunctionOnSet(f, S)
<1>1. IsFiniteSet(T) /\ IsFiniteSet(S \ T) /\ T \union (S \ T) = S
  BY FS_Subset
<1>2. SumFunctionOnSet(f, T) \in Nat /\ SumFunctionOnSet(f, S \ T) \in Nat
  BY <1>1, SumNat
<1>3. SumFunctionOnSet(f, S)
        = SumFunctionOnSet(f, T) + SumFunctionOnSet(f, S \ T)
  BY <1>1, SumUnion
<1> QED
  BY <1>2, <1>3

\* No term of a sum of naturals is larger than the sum.
LEMMA SumTerm ==
    ASSUME NEW S, IsFiniteSet(S), NEW a \in S, NEW f, \A x \in S : f[x] \in Nat
    PROVE  f[a] <= SumFunctionOnSet(f, S)
<1>1. IsFiniteSet(S \ {a})
  BY FS_Subset
<1>2. SumFunctionOnSet(f, S \ {a}) \in Nat
  BY <1>1, SumNat
<1>3. SumFunctionOnSet(f, S) = f[a] + SumFunctionOnSet(f, S \ {a})
  BY SumTake
<1>4. f[a] \in Nat
  OBVIOUS
<1> QED
  BY <1>2, <1>3, <1>4

\* A sum is taken term by term.
LEMMA SumPlus ==
    ASSUME NEW S, IsFiniteSet(S), NEW f, NEW g, NEW h,
           \A x \in S : f[x] \in Int /\ g[x] \in Int /\ h[x] = f[x] + g[x]
    PROVE  SumFunctionOnSet(h, S) = SumFunctionOnSet(f, S) + SumFunctionOnSet(g, S)
<1> DEFINE F == {T \in SUBSET S : SumFunctionOnSet(h, T)
                                    = SumFunctionOnSet(f, T) + SumFunctionOnSet(g, T)}
<1>1. ASSUME NEW T \in SUBSET S, \A U \in SUBSET T : U # T => U \in F
      PROVE  T \in F
  <2>1. IsFiniteSet(T)
    BY FS_Subset
  <2>2. CASE T # {}
    <3> DEFINE V == T \ {Picked(T)}
    <3>1. Picked(T) \in T /\ V \in F
      BY <1>1, <2>2, PickedIn
    <3>2. IsFiniteSet(V)
      BY <2>1, FS_Subset
    <3>3. SumFunctionOnSet(f, V) \in Int /\ SumFunctionOnSet(g, V) \in Int
      BY <3>2, SumInt
    <3>4. SumFunctionOnSet(h, V) = SumFunctionOnSet(f, V) + SumFunctionOnSet(g, V)
      BY <3>1
    <3>5. /\ f[Picked(T)] \in Int /\ g[Picked(T)] \in Int
          /\ h[Picked(T)] = f[Picked(T)] + g[Picked(T)]
      BY <3>1
    <3>6. /\ SumFunctionOnSet(f, T) = f[Picked(T)] + SumFunctionOnSet(f, V)
          /\ SumFunctionOnSet(g, T) = g[Picked(T)] + SumFunctionOnSet(g, V)
          /\ SumFunctionOnSet(h, T) = h[Picked(T)] + SumFunctionOnSet(h, V)
      BY <2>1, <2>2, SumUnfolds
    <3> HIDE DEF V
    <3> QED
      BY <3>3, <3>4, <3>5, <3>6
  <2>3. CASE T = {}
    BY <2>3, SumEmpty
  <2> QED
    BY <2>2, <2>3
<1> HIDE DEF F
<1>2. S \in F
  BY <1>1, SubsetInduction
<1> QED
  BY <1>2 DEF F

\* A factor common to all terms comes out of the sum.
LEMMA SumTimes ==
    ASSUME NEW S, IsFiniteSet(S), NEW f, NEW g, NEW c \in Int,
           \A x \in S : f[x] \in Int /\ g[x] = c * f[x]
    PROVE  SumFunctionOnSet(g, S) = c * SumFunctionOnSet(f, S)
<1> DEFINE F == {T \in SUBSET S : SumFunctionOnSet(g, T) = c * SumFunctionOnSet(f, T)}
<1>1. ASSUME NEW T \in SUBSET S, \A U \in SUBSET T : U # T => U \in F
      PROVE  T \in F
  <2>1. IsFiniteSet(T)
    BY FS_Subset
  <2>2. CASE T # {}
    <3> DEFINE V == T \ {Picked(T)}
    <3>1. Picked(T) \in T /\ V \in F
      BY <1>1, <2>2, PickedIn
    <3>2. IsFiniteSet(V)
      BY <2>1, FS_Subset
    <3>3. SumFunctionOnSet(f, V) \in Int
      BY <3>2, SumInt
    <3>4. SumFunctionOnSet(g, V) = c * SumFunctionOnSet(f, V)
      BY <3>1
    <3>5. f[Picked(T)] \in Int /\ g[Picked(T)] = c * f[Picked(T)]
      BY <3>1
    <3>6. /\ SumFunctionOnSet(f, T) = f[Picked(T)] + SumFunctionOnSet(f, V)
          /\ SumFunctionOnSet(g, T) = g[Picked(T)] + SumFunctionOnSet(g, V)
      BY <2>1, <2>2, SumUnfolds
    <3> HIDE DEF V
    <3> QED
      BY <3>3, <3>4, <3>5, <3>6
  <2>3. CASE T = {}
    BY <2>3, SumEmpty
  <2> QED
    BY <2>2, <2>3
<1> HIDE DEF F
<1>2. S \in F
  BY <1>1, SubsetInduction
<1> QED
  BY <1>2 DEF F

-----------------------------------------------------------------------------
(* Shares of an amount. *)

\* A share is a natural number, and a whole one multiplies back.
LEMMA DivNat ==
    ASSUME NEW a \in Nat, NEW d \in Nat \ {0}
    PROVE  a \div d \in Nat
OBVIOUS

LEMMA DivWhole ==
    ASSUME NEW a \in Nat, NEW d \in Nat \ {0}, a % d = 0
    PROVE  d * (a \div d) = a
OBVIOUS

LEMMA DivOfProduct ==
    ASSUME NEW a \in Nat, NEW d \in Nat \ {0}
    PROVE  (d * a) \div d = a
OBVIOUS

LEMMA Cancel ==
    ASSUME NEW d \in Nat \ {0}, NEW x \in Int, NEW y \in Int, d * x = d * y
    PROVE  x = y
<1>1. x < y => d * x < d * y
  OBVIOUS
<1>2. y < x => d * y < d * x
  OBVIOUS
<1> QED
  BY <1>1, <1>2

\* An amount m shared out by weight w, every share whole, is given out in full.
LEMMA SharesAddUp ==
    ASSUME NEW S, IsFiniteSet(S), S # {}, NEW m \in Nat, NEW w, NEW d,
           \A x \in S : w[x] \in Nat \ {0},
           \A x \in S : (m * w[x]) % SumFunctionOnSet(w, S) = 0,
           \A x \in S : d[x] = (m * w[x]) \div SumFunctionOnSet(w, S)
    PROVE  SumFunctionOnSet(d, S) = m
<1> DEFINE T == SumFunctionOnSet(w, S)
<1> DEFINE e == [x \in S |-> m * w[x]]
<1>1. T \in Nat \ {0}
  <2>1. T \in Nat
    BY SumNat
  <2>2. PICK x \in S : w[x] <= T
    BY SumTerm
  <2> HIDE DEF T
  <2>3. w[x] \in Nat \ {0}
    OBVIOUS
  <2> QED
    BY <2>1, <2>2, <2>3
<1>2. \A x \in S : (m * w[x]) % T = 0 /\ d[x] = (m * w[x]) \div T
  OBVIOUS
<1>3. SumFunctionOnSet(e, S) = m * T
  BY SumTimes
<1>4. \A x \in S : e[x] = m * w[x]
  OBVIOUS
<1> HIDE DEF T, e
<1>5. ASSUME NEW x \in S PROVE d[x] \in Nat /\ e[x] = T * d[x]
  <2>1. m * w[x] \in Nat
    OBVIOUS
  <2> QED
    BY <1>1, <1>2, <1>4, <2>1, DivNat, DivWhole
<1>6. SumFunctionOnSet(e, S) = T * SumFunctionOnSet(d, S)
  BY <1>1, <1>5, SumTimes
<1>7. SumFunctionOnSet(d, S) \in Nat
  BY <1>5, SumNat
<1>8. T * SumFunctionOnSet(d, S) = T * m
  BY <1>1, <1>3, <1>6
<1> QED
  BY <1>1, <1>7, <1>8, Cancel

=============================================================================
