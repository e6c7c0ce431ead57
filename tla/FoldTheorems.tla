------------------------------ MODULE FoldTheorems ------------------------------
(***************************************************************************)
(* What a fold of the community modules computes, for any operator op: the *)
(* recursive function inside MapThenFoldSet exists on the subsets of a     *)
(* finite set, and so a fold is op applied to one element and the fold of  *)
(* the others.  To be instantiated with the operator that is folded.       *)
(***************************************************************************)
EXTENDS Integers, FiniteSets, Functions, SequencesExt,
        FiniteSetTheorems, WellFoundedInduction, TLAPS

CONSTANTS
  op(_,_),  \* what is folded
  pick(_)   \* which element of a set comes last

-----------------------------------------------------------------------------
\* Every set of natural numbers that is not empty has a least element.
LEMMA Least ==
  ASSUME NEW T, T \subseteq Nat, T # {}
  PROVE  \E m \in T : \A k \in T : m <= k
<1> DEFINE R == OpToRel(<, Nat)
<1>1. \A x, y \in Nat : <<y, x>> \in R <=> y < x
  BY DEF OpToRel
<1>2. IsWellFoundedOn(R, Nat)
  BY NatLessThanWellFounded
<1> HIDE DEF R
<1>3. PICK m \in T : \A k \in T : ~(<<k, m>> \in R)
  BY <1>2, WFMin
<1>4. ASSUME NEW k \in T
      PROVE  m <= k
  <2>1. ~(<<k, m>> \in R) /\ k \in Nat /\ m \in Nat
    BY <1>3
  <2>2. ~(k < m)
    BY <1>1, <2>1, Zenon
  <2> QED BY <2>1, <2>2
<1> QED BY <1>4, Zenon

\* A set of numbers that holds 0 and the successor of each number in it holds them all.
THEOREM Induction ==
  ASSUME NEW P, 0 \in P, \A n \in Nat : n \in P => n + 1 \in P
  PROVE  Nat \subseteq P
<1> SUFFICES ASSUME Nat \ P # {} PROVE FALSE
  OBVIOUS
<1>1. PICK n \in Nat \ P : \A m \in Nat \ P : n <= m
  BY Least
<1>2. n # 0 /\ n - 1 \in Nat
  BY <1>1
<1>3. n - 1 \in P
  BY <1>1, <1>2
<1>4. (n - 1) + 1 \in P
  BY <1>2, <1>3
<1> QED BY <1>1, <1>4

-----------------------------------------------------------------------------
\* The functions that satisfy the recursion on the subsets of S of at most n elements.
Small(S, n) == {s \in SUBSET S : Cardinality(s) <= n}

\* An element is chosen from every set that has one.
Picks(S) == \A s \in SUBSET S : s # {} => pick(s) \in s

Recursion(base, fun, SS, it) ==
  it = [s \in SS |-> IF s = {} THEN base ELSE op(fun[pick(s)], it[s \ {pick(s)}])]

Solves(base, fun, S, it) == Recursion(base, fun, SUBSET S, it)

\* One element less is one less.
LEMMA Smaller ==
  ASSUME NEW S, IsFiniteSet(S), Picks(S), NEW n \in Nat, NEW s \in Small(S, n), s # {}
  PROVE  /\ pick(s) \in s
         /\ n > 0
         /\ s \ {pick(s)} \in Small(S, n - 1)
<1>1. pick(s) \in s
  BY DEF Picks, Small
<1>2. IsFiniteSet(s) /\ s \in SUBSET S /\ Cardinality(s) <= n
  BY FS_Subset DEF Small
<1>3. Cardinality(s) \in Nat /\ Cardinality(s) # 0
  BY <1>2, FS_CardinalityType, FS_EmptySet
<1>4. Cardinality(s \ {pick(s)}) = Cardinality(s) - 1
  BY <1>1, <1>2, FS_RemoveElement
<1> QED BY <1>1, <1>2, <1>3, <1>4 DEF Small

LEMMA RecursionGrows ==
  ASSUME NEW S, IsFiniteSet(S), Picks(S), NEW base, NEW fun, NEW n \in Nat, NEW it,
         Recursion(base, fun, Small(S, n), it)
  PROVE  \E jt : Recursion(base, fun, Small(S, n + 1), jt)
<1> DEFINE jt == [s \in Small(S, n + 1) |->
                    IF s = {} THEN base ELSE op(fun[pick(s)], it[s \ {pick(s)}])]
<1>1. Small(S, n) \subseteq Small(S, n + 1)
  <2> SUFFICES ASSUME NEW s \in Small(S, n) PROVE s \in Small(S, n + 1)
    OBVIOUS
  <2>1. Cardinality(s) \in Nat
    BY FS_Subset, FS_CardinalityType DEF Small
  <2> QED BY <2>1 DEF Small
<1>2. \A s \in Small(S, n) : jt[s] = it[s]
  BY <1>1 DEF Recursion
<1>3. ASSUME NEW s \in Small(S, n + 1), s # {}
      PROVE  jt[s] = op(fun[pick(s)], jt[s \ {pick(s)}])
  <2>1. s \ {pick(s)} \in Small(S, n)
    BY <1>3, Smaller
  <2>2. jt[s \ {pick(s)}] = it[s \ {pick(s)}]
    BY <1>2, <2>1
  <2>3. jt[s] = op(fun[pick(s)], it[s \ {pick(s)}])
    BY <1>3
  <2> QED BY <2>2, <2>3
<1>4. \A s \in Small(S, n + 1) : s = {} => jt[s] = base
  OBVIOUS
<1>5. jt = [s \in Small(S, n + 1) |-> jt[s]]
  OBVIOUS
<1> HIDE DEF jt
<1>6. Recursion(base, fun, Small(S, n + 1), jt)
  BY <1>3, <1>4, <1>5 DEF Recursion
<1> QED BY <1>6

LEMMA RecursionExists ==
  ASSUME NEW S, IsFiniteSet(S), Picks(S), NEW base, NEW fun
  PROVE  \E it : Solves(base, fun, S, it)
<1> DEFINE P == {n \in Nat : \E it : Recursion(base, fun, Small(S, n), it)}
<1>1. 0 \in P
  <2> DEFINE zt == [s \in Small(S, 0) |-> base]
  <2>1. ASSUME NEW s \in Small(S, 0), s # {}
        PROVE  FALSE
    <3>1. 0 \in Nat
      OBVIOUS
    <3>2. 0 > 0
      BY <2>1, <3>1, Smaller
    <3> QED BY <3>2
  <2>2. zt = [s \in Small(S, 0) |-> IF s = {} THEN base ELSE op(fun[pick(s)], zt[s \ {pick(s)}])]
    BY <2>1
  <2> QED BY <2>2 DEF Recursion
<1>2. \A n \in Nat : n \in P => n + 1 \in P
  BY RecursionGrows
<1>3. Cardinality(S) \in P
  <2> HIDE DEF P
  <2> QED BY <1>1, <1>2, Induction, FS_CardinalityType
<1>4. Small(S, Cardinality(S)) = SUBSET S
  <2>1. \A s \in SUBSET S : Cardinality(s) <= Cardinality(S)
    BY FS_Subset
  <2> QED BY <2>1 DEF Small
<1> QED BY <1>3, <1>4 DEF Solves

LEMMA RecursionUnique ==
  ASSUME NEW S, NEW T, NEW base, NEW fun, NEW it, NEW jt,
         IsFiniteSet(S), Picks(S), T \subseteq S,
         Solves(base, fun, S, it), Solves(base, fun, T, jt)
  PROVE  it[T] = jt[T]
<1> DEFINE P == {n \in Nat : \A s \in Small(T, n) : it[s] = jt[s]}
<1>0. IsFiniteSet(T) /\ Picks(T)
  BY FS_Subset DEF Picks
<1>1. \A s \in SUBSET T : it[s] = (IF s = {} THEN base ELSE op(fun[pick(s)], it[s \ {pick(s)}]))
  BY DEF Solves, Recursion
<1>2. \A s \in SUBSET T : jt[s] = (IF s = {} THEN base ELSE op(fun[pick(s)], jt[s \ {pick(s)}]))
  BY DEF Solves, Recursion
<1>3. 0 \in P
  <2>1. ASSUME NEW s \in Small(T, 0), s # {}
        PROVE  FALSE
    <3>1. 0 \in Nat
      OBVIOUS
    <3>2. 0 > 0
      BY <1>0, <2>1, <3>1, Smaller
    <3> QED BY <3>2
  <2>2. \A s \in Small(T, 0) : s \in SUBSET T
    BY DEF Small
  <2> QED BY <1>1, <1>2, <2>1, <2>2
<1>4. ASSUME NEW n \in Nat, n \in P
      PROVE  n + 1 \in P
  <2> SUFFICES ASSUME NEW s \in Small(T, n + 1) PROVE it[s] = jt[s]
    OBVIOUS
  <2>1. s \in SUBSET T
    BY DEF Small
  <2>2. CASE s = {}
    BY <1>1, <1>2, <2>1, <2>2
  <2>3. CASE s # {}
    <3>1. s \ {pick(s)} \in Small(T, n)
      <4>1. n + 1 \in Nat /\ (n + 1) - 1 = n
        OBVIOUS
      <4> QED BY <1>0, <2>3, <4>1, Smaller
    <3>2. it[s \ {pick(s)}] = jt[s \ {pick(s)}]
      BY <1>4, <3>1
    <3> QED BY <1>1, <1>2, <2>1, <2>3, <3>2
  <2> QED BY <2>2, <2>3
<1> HIDE DEF P
<1>5. Nat \subseteq P
  BY <1>3, <1>4, Induction
<1>6. Cardinality(T) \in P /\ Cardinality(T) \in Nat
  BY <1>0, <1>5, FS_CardinalityType
<1>7. T \in Small(T, Cardinality(T))
  BY <1>6 DEF Small
<1> QED BY <1>6, <1>7 DEF P

-----------------------------------------------------------------------------
Fold(base, fun, S) == MapThenFoldSet(op, base, LAMBDA i : fun[i], pick, S)

LEMMA FoldIs ==
  ASSUME NEW base, NEW fun, NEW S
  PROVE  Fold(base, fun, S) = (CHOOSE it : Solves(base, fun, S, it))[S]
BY DEF Fold, MapThenFoldSet, Solves, Recursion

THEOREM FoldEmpty ==
  ASSUME NEW base, NEW fun
  PROVE  Fold(base, fun, {}) = base
<1> DEFINE it == CHOOSE it : Solves(base, fun, {}, it)
<1>1. IsFiniteSet({}) /\ Picks({})
  BY FS_EmptySet DEF Picks
<1>2. Solves(base, fun, {}, it)
  BY <1>1, RecursionExists
<1>3. it[{}] = base
  BY <1>2 DEF Solves, Recursion
<1> QED BY <1>3, FoldIs

LEMMA RecursionStep ==
  ASSUME NEW base, NEW fun, NEW S, IsFiniteSet(S), Picks(S), S # {},
         NEW it, Solves(base, fun, S, it),
         NEW T, T = S \ {pick(S)}, NEW jt, Solves(base, fun, T, jt)
  PROVE  it[S] = op(fun[pick(S)], jt[T])
<1>1. T \subseteq S
  OBVIOUS
<1>3. it[T] = jt[T]
  BY <1>1, RecursionUnique
<1>4. it[S] = op(fun[pick(S)], it[S \ {pick(S)}])
  BY DEF Solves, Recursion
<1> QED BY <1>3, <1>4

THEOREM FoldStep ==
  ASSUME NEW base, NEW fun, NEW S, IsFiniteSet(S), Picks(S), S # {}
  PROVE  Fold(base, fun, S) = op(fun[pick(S)], Fold(base, fun, S \ {pick(S)}))
<1> DEFINE T == S \ {pick(S)}
           it == CHOOSE it : Solves(base, fun, S, it)
           jt == CHOOSE jt : Solves(base, fun, T, jt)
<1>1. IsFiniteSet(T) /\ Picks(T) /\ T \in SUBSET S
  BY FS_Subset DEF Picks
<1>2. Solves(base, fun, S, it) /\ Solves(base, fun, T, jt)
  BY <1>1, RecursionExists
<1>3. Fold(base, fun, S) = it[S] /\ Fold(base, fun, T) = jt[T]
  BY FoldIs
<1>4. it[S] = op(fun[pick(S)], jt[T])
  <2> HIDE DEF it, jt
  <2> QED BY <1>2, RecursionStep
<1> QED BY <1>3, <1>4

-----------------------------------------------------------------------------
\* What holds of the folds over the subsets of at most n elements, for every n, holds
\* of the fold over S.
LEMMA WholeIsSmall ==
  ASSUME NEW S, IsFiniteSet(S), NEW P, \A n \in Nat : n \in P
  PROVE  Cardinality(S) \in P /\ S \in Small(S, Cardinality(S))
<1>1. Cardinality(S) \in Nat
  BY FS_CardinalityType
<1> QED BY <1>1 DEF Small

\* Less one element a small set is smaller.
LEMMA SmallLess ==
  ASSUME NEW S, IsFiniteSet(S), Picks(S), NEW n \in Nat, NEW T \in Small(S, n + 1), T # {}
  PROVE  /\ IsFiniteSet(T) /\ Picks(T) /\ T \subseteq S /\ pick(T) \in T
         /\ \A x \in T : T \ {x} \in Small(S, n)
<1>1. IsFiniteSet(T) /\ T \subseteq S /\ Cardinality(T) <= n + 1 /\ Cardinality(T) \in Nat
  BY FS_Subset, FS_CardinalityType DEF Small
<1>2. Picks(T) /\ pick(T) \in T
  BY <1>1 DEF Picks
<1>3. ASSUME NEW x \in T PROVE T \ {x} \in Small(S, n)
  <2>1. Cardinality(T \ {x}) = Cardinality(T) - 1
    BY <1>1, FS_RemoveElement
  <2> QED BY <1>1, <2>1 DEF Small
<1> QED BY <1>1, <1>2, <1>3

\* The only small set without room for an element is empty.
LEMMA SmallZero == ASSUME NEW S, IsFiniteSet(S), NEW T \in Small(S, 0) PROVE T = {}
<1>1. IsFiniteSet(T) /\ Cardinality(T) <= 0 /\ Cardinality(T) \in Nat
  BY FS_Subset, FS_CardinalityType DEF Small
<1> QED BY <1>1, FS_EmptySet

\* A fold has the type of its operator.
THEOREM FoldType ==
  ASSUME NEW Typ, NEW base \in Typ, NEW fun, NEW S, IsFiniteSet(S), Picks(S),
         \A i \in S : \A t \in Typ : op(fun[i], t) \in Typ
  PROVE  Fold(base, fun, S) \in Typ
<1> DEFINE P == {n \in Nat : \A T \in Small(S, n) : Fold(base, fun, T) \in Typ}
<1>1. 0 \in P
  BY SmallZero, FoldEmpty
<1>2. ASSUME NEW n \in Nat, n \in P PROVE n + 1 \in P
  <2> SUFFICES ASSUME NEW T \in Small(S, n + 1), T # {} PROVE Fold(base, fun, T) \in Typ
    BY FoldEmpty
  <2>0. /\ IsFiniteSet(T) /\ Picks(T) /\ T \subseteq S /\ pick(T) \in T
        /\ \A x \in T : T \ {x} \in Small(S, n)
    BY SmallLess, Zenon
  <2>1. Fold(base, fun, T) = op(fun[pick(T)], Fold(base, fun, T \ {pick(T)}))
    BY <2>0, FoldStep
  <2>2. Fold(base, fun, T \ {pick(T)}) \in Typ
    BY <1>2, <2>0
  <2> QED BY <2>0, <2>1, <2>2
<1> HIDE DEF P
<1>3. Nat \subseteq P
  BY <1>1, <1>2, Induction
<1>4. Cardinality(S) \in P /\ S \in Small(S, Cardinality(S))
  BY <1>3, WholeIsSmall
<1> QED BY <1>4 DEF P

\* Elements that add nothing leave the base.
THEOREM FoldNothing ==
  ASSUME NEW base, NEW fun, NEW S, IsFiniteSet(S), Picks(S),
         \A i \in S : op(fun[i], base) = base
  PROVE  Fold(base, fun, S) = base
<1>1. \A i \in S : \A t \in {base} : op(fun[i], t) \in {base}
  OBVIOUS
<1>2. Fold(base, fun, S) \in {base}
  BY <1>1, FoldType
<1> QED BY <1>2

\* Only the values at the elements matter.
THEOREM FoldSame ==
  ASSUME NEW base, NEW fun, NEW gun, NEW S, IsFiniteSet(S), Picks(S),
         \A i \in S : fun[i] = gun[i]
  PROVE  Fold(base, fun, S) = Fold(base, gun, S)
<1> DEFINE P == {n \in Nat : \A T \in Small(S, n) : Fold(base, fun, T) = Fold(base, gun, T)}
<1>1. 0 \in P
  BY SmallZero, FoldEmpty
<1>2. ASSUME NEW n \in Nat, n \in P PROVE n + 1 \in P
  <2> SUFFICES ASSUME NEW T \in Small(S, n + 1), T # {}
               PROVE  Fold(base, fun, T) = Fold(base, gun, T)
    BY FoldEmpty
  <2>0. /\ IsFiniteSet(T) /\ Picks(T) /\ T \subseteq S /\ pick(T) \in T
        /\ \A x \in T : T \ {x} \in Small(S, n)
    BY SmallLess, Zenon
  <2>1. /\ Fold(base, fun, T) = op(fun[pick(T)], Fold(base, fun, T \ {pick(T)}))
        /\ Fold(base, gun, T) = op(gun[pick(T)], Fold(base, gun, T \ {pick(T)}))
    BY <2>0, FoldStep
  <2>2. Fold(base, fun, T \ {pick(T)}) = Fold(base, gun, T \ {pick(T)})
    BY <1>2, <2>0
  <2>3. fun[pick(T)] = gun[pick(T)]
    BY <2>0
  <2> QED BY <2>1, <2>2, <2>3
<1> HIDE DEF P
<1>3. Nat \subseteq P
  BY <1>1, <1>2, Induction
<1>4. Cardinality(S) \in P /\ S \in Small(S, Cardinality(S))
  BY <1>3, WholeIsSmall
<1> QED BY <1>4 DEF P

\* When the order does not matter, any element may come last.
Commutes(Typ, S, fun) ==
  \A i, j \in S : \A t \in Typ :
    op(fun[i], t) \in Typ /\ op(fun[i], op(fun[j], t)) = op(fun[j], op(fun[i], t))

THEOREM FoldAny ==
  ASSUME NEW Typ, NEW base \in Typ, NEW fun, NEW S, IsFiniteSet(S), Picks(S),
         Commutes(Typ, S, fun), NEW x \in S
  PROVE  Fold(base, fun, S) = op(fun[x], Fold(base, fun, S \ {x}))
<1> DEFINE P == {n \in Nat : \A T \in Small(S, n) : \A y \in T :
                   Fold(base, fun, T) = op(fun[y], Fold(base, fun, T \ {y}))}
<1>1. 0 \in P
  BY SmallZero
<1>2. ASSUME NEW n \in Nat, n \in P PROVE n + 1 \in P
  <2> SUFFICES ASSUME NEW T \in Small(S, n + 1), NEW y \in T
               PROVE  Fold(base, fun, T) = op(fun[y], Fold(base, fun, T \ {y}))
    OBVIOUS
  <2> DEFINE z == pick(T)
             R == Fold(base, fun, (T \ {z}) \ {y})
  <2>0. /\ IsFiniteSet(T) /\ Picks(T) /\ T \subseteq S /\ pick(T) \in T
        /\ \A i \in T : T \ {i} \in Small(S, n)
    BY SmallLess, Zenon
  <2>1. /\ IsFiniteSet(T) /\ T \subseteq S /\ z \in T
        /\ Fold(base, fun, T) = op(fun[z], Fold(base, fun, T \ {z}))
        /\ T \ {z} \in Small(S, n) /\ T \ {y} \in Small(S, n)
    BY <2>0, FoldStep
  <2>2. CASE y = z
    BY <2>1, <2>2
  <2>3. CASE y # z
    <3>1. (T \ {y}) \ {z} = (T \ {z}) \ {y} /\ y \in T \ {z} /\ z \in T \ {y}
      BY <2>1, <2>3
    <3>2. Fold(base, fun, T \ {z}) = op(fun[y], R)
      BY <1>2, <2>1, <3>1
    <3>3. Fold(base, fun, T \ {y}) = op(fun[z], R)
      <4>1. Fold(base, fun, T \ {y}) = op(fun[z], Fold(base, fun, (T \ {y}) \ {z}))
        BY <1>2, <2>1, <3>1
      <4> QED BY <3>1, <4>1
    <3>4. R \in Typ
      <4> DEFINE U == (T \ {z}) \ {y}
      <4>1. IsFiniteSet(U) /\ Picks(U) /\ U \subseteq S
        BY <2>1, FS_Subset DEF Picks
      <4>2. \A i \in U : \A t \in Typ : op(fun[i], t) \in Typ
        BY <4>1 DEF Commutes
      <4> QED BY <4>1, <4>2, FoldType
    <3>5. op(fun[z], op(fun[y], R)) = op(fun[y], op(fun[z], R))
      BY <2>1, <3>4 DEF Commutes
    <3> HIDE DEF z, R
    <3> QED BY <2>1, <3>2, <3>3, <3>5
  <2> QED BY <2>2, <2>3
<1> HIDE DEF P
<1>3. Nat \subseteq P
  BY <1>1, <1>2, Induction
<1>4. Cardinality(S) \in P /\ S \in Small(S, Cardinality(S))
  BY <1>3, WholeIsSmall
<1> QED BY <1>4 DEF P

-----------------------------------------------------------------------------
\* Numbers up to n of which the greatest comes last: the fold over a sequence.
LargestLast(n) == \A T \in SUBSET (1 .. n) : T # {} => pick(T) \in T /\ \A y \in T : y <= pick(T)

THEOREM FoldNext ==
  ASSUME NEW base, NEW fun, NEW n \in Nat, LargestLast(n), NEW k \in 1 .. n
  PROVE  Fold(base, fun, 1 .. k) = op(fun[k], Fold(base, fun, 1 .. k - 1))
<1>1. IsFiniteSet(1 .. k) /\ 1 .. k # {}
  <2>1. 1 \in Int /\ k \in Int /\ k \in 1 .. k
    OBVIOUS
  <2> QED BY <2>1, FS_Interval
<1>2. Picks(1 .. k)
  <2>1. \A s \in SUBSET (1 .. k) : s \in SUBSET (1 .. n)
    OBVIOUS
  <2> QED BY <2>1 DEF Picks, LargestLast
<1>3. pick(1 .. k) = k
  <2>1. 1 .. k \in SUBSET (1 .. n) /\ k \in 1 .. k
    OBVIOUS
  <2>2. pick(1 .. k) \in 1 .. k /\ k <= pick(1 .. k)
    BY <1>1, <2>1 DEF LargestLast
  <2> QED BY <2>2
<1>4. (1 .. k) \ {k} = 1 .. k - 1
  OBVIOUS
<1> DEFINE I == 1 .. k
<1>5. IsFiniteSet(I) /\ Picks(I) /\ I # {}
  BY <1>1, <1>2
<1>6. pick(I) = k /\ I \ {k} = 1 .. k - 1
  BY <1>3, <1>4
<1> HIDE DEF I
<1>7. Fold(base, fun, I) = op(fun[pick(I)], Fold(base, fun, I \ {pick(I)}))
  BY <1>5, FoldStep, Zenon
<1>8. Fold(base, fun, I) = op(fun[k], Fold(base, fun, 1 .. k - 1))
  BY <1>6, <1>7, Zenon
<1> QED BY <1>8, Zenon DEF I

\* The largest of some of the numbers up to n.
LEMMA MaxIs ==
  ASSUME NEW n \in Nat, NEW T, T \subseteq 1 .. n, T # {}
  PROVE  Max(T) \in T /\ \A y \in T : y <= Max(T)
<1> DEFINE D == {d \in Nat : n - d \in T}
<1>1. D \subseteq Nat /\ D # {}
  <2>1. PICK y \in T : TRUE
    OBVIOUS
  <2>2. n - y \in Nat /\ n - (n - y) = y
    OBVIOUS
  <2> QED BY <2>1, <2>2
<1>2. PICK d \in D : \A e \in D : d <= e
  BY <1>1, Least
<1>3. ASSUME NEW y \in T PROVE y <= n - d
  <2>1. n - y \in Nat /\ n - (n - y) = y
    OBVIOUS
  <2>2. d <= n - y /\ d \in Nat
    BY <1>2, <2>1
  <2> QED BY <2>2
<1>4. \E x \in T : \A y \in T : x >= y
  <2>1. n - d \in T /\ \A y \in T : n - d >= y
    BY <1>2, <1>3
  <2> QED BY <2>1
<1>5. Max(T) \in T /\ \A y \in T : Max(T) >= y
  BY <1>4 DEF Max
<1> QED BY <1>5

=============================================================================
