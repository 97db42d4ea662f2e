---------------------------- MODULE SumTheorems ----------------------------
(***************************************************************************)
(* Facts about the sums of the community modules (SumFunctionOnSet and     *)
(* SumFunction of Functions) over finite sets, which the accounts of keys, *)
(* stones, coins and scores are made of.  The library states sums by a     *)
(* recursive function over the subsets of a set; the facts below are       *)
(* proved from it by induction in the form of a least counterexample.      *)
(***************************************************************************)
EXTENDS Integers, Functions, FiniteSetTheorems, WellFoundedInduction, TLAPS

(* A set of natural numbers that is not empty has a least element.         *)
LEMMA LeastNat ==
    ASSUME NEW T \in SUBSET Nat, T # {}
    PROVE  \E m \in T : \A k \in T : m <= k
<1>. DEFINE R == {p \in Nat \X Nat : p[1] < p[2]}
<1>1. IsWellFoundedOn(R, Nat)
  BY NatLessThanWellFounded DEF OpToRel
<1>2. PICK m \in T : \A k \in T : <<k, m>> \notin R
  BY <1>1, WFMin, Zenon
<1>3. \A k \in T : k \in Nat /\ m \in Nat
  OBVIOUS
<1>4. \A k \in T : k < m => <<k, m>> \in R
  BY <1>3
<1>5. \A k \in T : ~ (k < m)
  BY <1>2, <1>4, Zenon
<1>. QED
  BY <1>3, <1>5

(* Induction over the subsets of a finite set: a family that has every     *)
(* subset all of whose proper subsets it has, has them all.                *)
LEMMA SubsetInduction ==
    ASSUME NEW D, IsFiniteSet(D), NEW W,
           \A S \in SUBSET D : (\A R \in SUBSET S : R # S => R \in W) => S \in W
    PROVE  \A S \in SUBSET D : S \in W
<1> DEFINE Sizes == {Cardinality(S) : S \in (SUBSET D) \ W}
<1>1. \A S \in SUBSET D : IsFiniteSet(S) /\ Cardinality(S) \in Nat
  BY FS_Subset, FS_CardinalityType
<1>2. SUFFICES ASSUME Sizes # {} PROVE FALSE
  OBVIOUS
<1>3. PICK m \in Sizes : \A k \in Sizes : m <= k
  <2>1. Sizes \in SUBSET Nat
    BY <1>1
  <2> QED BY <1>2, <2>1, LeastNat
<1>4. PICK S \in (SUBSET D) \ W : m = Cardinality(S)
  BY <1>3
<1>5. \A R \in SUBSET S : R # S => R \in W
  <2>1. SUFFICES ASSUME NEW R \in SUBSET S, R # S, R \notin W PROVE FALSE
    OBVIOUS
  <2>2. Cardinality(R) < Cardinality(S)
    BY <1>1, <1>4, <2>1, FS_Subset
  <2>3. Cardinality(R) \in Sizes /\ Cardinality(R) \in Nat /\ Cardinality(S) \in Nat
    BY <1>1, <1>4, <2>1
  <2> QED BY <1>3, <1>4, <2>2, <2>3
<1> QED BY <1>4, <1>5

(* The element a sum over s takes first, and the recursion it is made of,  *)
(* over the subsets of S and over those of at most n elements.             *)
FirstOf(s) == CHOOSE x \in s : TRUE
SumStep(f, it, s) == IF s = {} THEN 0 ELSE f[FirstOf(s)] + it[s \ {FirstOf(s)}]
SumRec(f, S, it) == it = [s \in SUBSET S |-> SumStep(f, it, s)]
SumUpTo(f, S, n, it) ==
    \A s \in SUBSET S : Cardinality(s) <= n => it[s] = SumStep(f, it, s)

(* The sum of the community modules is the value of that recursion.        *)
LEMMA SumUnfold ==
    ASSUME NEW f, NEW S
    PROVE  SumFunctionOnSet(f, S) = (CHOOSE it : SumRec(f, S, it))[S]
BY DEF SumFunctionOnSet, FoldFunctionOnSet, MapThenFoldSet, SumRec, SumStep, FirstOf

(* Without its first element a finite set is a smaller one.                *)
LEMMA FirstRemoved ==
    ASSUME NEW S, IsFiniteSet(S), S # {}
    PROVE  /\ FirstOf(S) \in S
           /\ S \ {FirstOf(S)} \in SUBSET S /\ S \ {FirstOf(S)} # S
           /\ IsFiniteSet(S \ {FirstOf(S)})
           /\ Cardinality(S \ {FirstOf(S)}) = Cardinality(S) - 1
<1>1. FirstOf(S) \in S
  BY DEF FirstOf
<1> QED BY <1>1, FS_RemoveElement

(* The recursion is satisfied by a function, on every finite set.          *)
LEMMA SumTableUpTo ==
    ASSUME NEW f, NEW S, IsFiniteSet(S), NEW n \in Nat
    PROVE  \E it : SumUpTo(f, S, n, it)
<1> DEFINE Bad == {k \in Nat : ~ \E it : SumUpTo(f, S, k, it)}
<1>0. \A s \in SUBSET S : IsFiniteSet(s) /\ Cardinality(s) \in Nat
  BY FS_Subset, FS_CardinalityType
<1>1. SUFFICES ASSUME Bad # {} PROVE FALSE
  OBVIOUS
<1>2. PICK m \in Bad : \A k \in Bad : m <= k
  BY <1>1, LeastNat
<1>3. CASE m = 0
  <2> DEFINE zero == [s \in SUBSET S |-> 0]
  <2>1. ASSUME NEW s \in SUBSET S, Cardinality(s) <= 0 PROVE s = {}
    BY <1>0, <2>1, FS_EmptySet
  <2>2. SumUpTo(f, S, 0, zero)
    BY <2>1 DEF SumUpTo, SumStep
  <2> QED BY <1>2, <1>3, <2>2
<1>4. CASE m # 0
  <2>1. m \in Nat /\ m - 1 \in Nat /\ m - 1 \notin Bad
    BY <1>2, <1>4
  <2>2. PICK g : SumUpTo(f, S, m - 1, g)
    BY <2>1
  <2> DEFINE h == [s \in SUBSET S |-> SumStep(f, g, s)]
  <2>3. ASSUME NEW s \in SUBSET S, Cardinality(s) <= m PROVE h[s] = SumStep(f, h, s)
    <3>1. CASE s = {}
      BY <3>1 DEF SumStep
    <3>2. CASE s # {}
      <4> DEFINE r == s \ {FirstOf(s)}
      <4>1. r \in SUBSET S /\ Cardinality(r) <= m - 1
        BY <1>0, <2>1, <2>3, <3>2, FirstRemoved
      <4>2. g[r] = SumStep(f, g, r)
        BY <2>2, <4>1 DEF SumUpTo
      <4>3. h[r] = g[r]
        BY <4>1, <4>2
      <4> QED BY <3>2, <4>3 DEF SumStep
    <3> QED BY <3>1, <3>2
  <2>4. SumUpTo(f, S, m, h)
    BY <2>3 DEF SumUpTo
  <2> QED BY <1>2, <2>4
<1> QED BY <1>3, <1>4

SumTable(f, S) == CHOOSE it : SumRec(f, S, it)

(* The table of sums over the subsets satisfies the recursion.             *)
LEMMA SumTableRec ==
    ASSUME NEW f, NEW S, IsFiniteSet(S)
    PROVE  \A s \in SUBSET S : SumTable(f, S)[s] = SumStep(f, SumTable(f, S), s)
<1>1. PICK g : SumUpTo(f, S, Cardinality(S), g)
  BY SumTableUpTo, FS_CardinalityType
<1> DEFINE h == [s \in SUBSET S |-> g[s]]
<1>2. \A s \in SUBSET S : g[s] = SumStep(f, g, s)
  <2>1. ASSUME NEW s \in SUBSET S PROVE Cardinality(s) <= Cardinality(S)
    BY FS_Subset
  <2> QED BY <1>1, <2>1 DEF SumUpTo
<1>3. ASSUME NEW s \in SUBSET S PROVE SumStep(f, h, s) = SumStep(f, g, s)
  <2>1. s \ {FirstOf(s)} \in SUBSET S
    OBVIOUS
  <2> QED BY <2>1 DEF SumStep
<1>4. \A s \in SUBSET S : h[s] = SumStep(f, h, s)
  BY <1>2, <1>3
<1>5. h = [s \in SUBSET S |-> SumStep(f, h, s)]
  BY <1>4
<1>6. SumRec(f, S, h)
  BY <1>5 DEF SumRec
<1>7. SumRec(f, S, SumTable(f, S))
  BY <1>6 DEF SumTable
<1> DEFINE t == SumTable(f, S)
<1>8. t = [s \in SUBSET S |-> SumStep(f, t, s)]
  BY <1>7 DEF SumRec
<1> HIDE DEF t
<1>9. \A s \in SUBSET S : t[s] = SumStep(f, t, s)
  BY <1>8
<1> QED BY <1>9 DEF t

(* The table over a set agrees with the sums over its subsets.             *)
LEMMA SumTableOfSubset ==
    ASSUME NEW f, NEW D, IsFiniteSet(D), NEW S \in SUBSET D
    PROVE  SumTable(f, D)[S] = SumFunctionOnSet(f, S)
<1> DEFINE W == {s \in SUBSET S : SumTable(f, D)[s] = SumTable(f, S)[s]}
<1>1. IsFiniteSet(S)
  BY FS_Subset
<1>2. ASSUME NEW s \in SUBSET S, \A r \in SUBSET s : r # s => r \in W PROVE s \in W
  <2>1. /\ SumTable(f, D)[s] = SumStep(f, SumTable(f, D), s)
        /\ SumTable(f, S)[s] = SumStep(f, SumTable(f, S), s)
    BY <1>1, SumTableRec
  <2>2. CASE s = {}
    BY <2>1, <2>2 DEF SumStep
  <2>3. CASE s # {}
    <3>1. IsFiniteSet(s)
      BY <1>1, FS_Subset
    <3>2. s \ {FirstOf(s)} \in W
      BY <1>2, <2>3, <3>1, FirstRemoved
    <3> QED BY <2>1, <2>3, <3>2 DEF SumStep
  <2> QED BY <2>2, <2>3
<1>3. \A s \in SUBSET S : (\A r \in SUBSET s : r # s => r \in W) => s \in W
  BY <1>2
<1> HIDE DEF W
<1>4. \A s \in SUBSET S : s \in W
  BY <1>1, <1>3, SubsetInduction
<1>5. S \in W
  BY <1>4
<1> QED BY <1>5, SumUnfold DEF SumTable, W

----------------------------------------------------------------------------
(* A sum over nothing is 0; over another finite set it takes its first     *)
(* element and the sum over the rest.                                      *)
LEMMA SumEmpty == ASSUME NEW f PROVE SumFunctionOnSet(f, {}) = 0
<1>1. IsFiniteSet({})
  BY FS_EmptySet
<1>2. SumTable(f, {})[{}] = SumStep(f, SumTable(f, {}), {})
  BY <1>1, SumTableRec
<1> QED BY <1>2, SumUnfold DEF SumTable, SumStep

(* A sum takes its first element and the sum over the rest.                *)
LEMMA SumFirst ==
    ASSUME NEW f, NEW S, IsFiniteSet(S), S # {}
    PROVE  SumFunctionOnSet(f, S) = f[FirstOf(S)] + SumFunctionOnSet(f, S \ {FirstOf(S)})
<1>1. SumTable(f, S)[S] = SumStep(f, SumTable(f, S), S)
  BY SumTableRec
<1>2. SumTable(f, S)[S \ {FirstOf(S)}] = SumFunctionOnSet(f, S \ {FirstOf(S)})
  BY SumTableOfSubset
<1> QED BY <1>1, <1>2, SumUnfold DEF SumTable, SumStep

(* Sums depend only on the values over the set.                            *)
LEMMA SumCongruence ==
    ASSUME NEW f, NEW g, NEW D, IsFiniteSet(D), \A x \in D : f[x] = g[x]
    PROVE  SumFunctionOnSet(f, D) = SumFunctionOnSet(g, D)
<1> DEFINE W == {S \in SUBSET D : SumFunctionOnSet(f, S) = SumFunctionOnSet(g, S)}
<1>1. ASSUME NEW S \in SUBSET D, \A R \in SUBSET S : R # S => R \in W
      PROVE  S \in W
  <2>1. CASE S = {}
    BY <2>1, SumEmpty
  <2>2. CASE S # {}
    <3>1. IsFiniteSet(S)
      BY FS_Subset
    <3>2. FirstOf(S) \in D /\ S \ {FirstOf(S)} \in W
      BY <1>1, <2>2, <3>1, FirstRemoved
    <3> QED BY <2>2, <3>1, <3>2, SumFirst
  <2> QED BY <2>1, <2>2
<1>2. \A S \in SUBSET D : (\A R \in SUBSET S : R # S => R \in W) => S \in W
  BY <1>1
<1> HIDE DEF W
<1>3. D \in W
  BY <1>2, SubsetInduction
<1> QED BY <1>3 DEF W

(* Sums of integers are integers, of natural numbers natural.              *)
LEMMA SumInt ==
    ASSUME NEW f, NEW D, IsFiniteSet(D), \A x \in D : f[x] \in Int
    PROVE  SumFunctionOnSet(f, D) \in Int
<1> DEFINE W == {S \in SUBSET D : SumFunctionOnSet(f, S) \in Int}
<1>1. ASSUME NEW S \in SUBSET D, \A R \in SUBSET S : R # S => R \in W
      PROVE  S \in W
  <2>1. CASE S = {}
    BY <2>1, SumEmpty
  <2>2. CASE S # {}
    <3>1. IsFiniteSet(S)
      BY FS_Subset
    <3>2. FirstOf(S) \in D /\ S \ {FirstOf(S)} \in W
      BY <1>1, <2>2, <3>1, FirstRemoved
    <3> QED BY <2>2, <3>1, <3>2, SumFirst
  <2> QED BY <2>1, <2>2
<1>2. \A S \in SUBSET D : (\A R \in SUBSET S : R # S => R \in W) => S \in W
  BY <1>1
<1> HIDE DEF W
<1>3. D \in W
  BY <1>2, SubsetInduction
<1> QED BY <1>3 DEF W

(* Sums of natural numbers are natural.                                    *)
LEMMA SumNat ==
    ASSUME NEW f, NEW D, IsFiniteSet(D), \A x \in D : f[x] \in Nat
    PROVE  SumFunctionOnSet(f, D) \in Nat
<1> DEFINE W == {S \in SUBSET D : SumFunctionOnSet(f, S) \in Nat}
<1>1. ASSUME NEW S \in SUBSET D, \A R \in SUBSET S : R # S => R \in W
      PROVE  S \in W
  <2>1. CASE S = {}
    BY <2>1, SumEmpty
  <2>2. CASE S # {}
    <3>1. IsFiniteSet(S)
      BY FS_Subset
    <3>2. FirstOf(S) \in D /\ S \ {FirstOf(S)} \in W
      BY <1>1, <2>2, <3>1, FirstRemoved
    <3> QED BY <2>2, <3>1, <3>2, SumFirst
  <2> QED BY <2>1, <2>2
<1>2. \A S \in SUBSET D : (\A R \in SUBSET S : R # S => R \in W) => S \in W
  BY <1>1
<1> HIDE DEF W
<1>3. D \in W
  BY <1>2, SubsetInduction
<1> QED BY <1>3 DEF W

(* Which element a sum takes first does not matter.                        *)
LEMMA SumRemove ==
    ASSUME NEW f, NEW D, IsFiniteSet(D), \A x \in D : f[x] \in Int, NEW x \in D
    PROVE  SumFunctionOnSet(f, D) = f[x] + SumFunctionOnSet(f, D \ {x})
<1> DEFINE W == {S \in SUBSET D : \A y \in S :
                    SumFunctionOnSet(f, S) = f[y] + SumFunctionOnSet(f, S \ {y})}
<1>0. \A S \in SUBSET D : IsFiniteSet(S) /\ SumFunctionOnSet(f, S) \in Int
  BY FS_Subset, SumInt
<1>1. ASSUME NEW S \in SUBSET D, \A R \in SUBSET S : R # S => R \in W
      PROVE  S \in W
  <2>1. ASSUME NEW y \in S
        PROVE  SumFunctionOnSet(f, S) = f[y] + SumFunctionOnSet(f, S \ {y})
    <3> DEFINE z == FirstOf(S)
               U == S \ {y}
               V == S \ {z}
               T == S \ {y, z}
    <3>1. z \in S /\ SumFunctionOnSet(f, S) = f[z] + SumFunctionOnSet(f, V)
      BY <1>0, <2>1, FirstRemoved, SumFirst
    <3>2. CASE y = z
      BY <3>1, <3>2
    <3>3. CASE y # z
      <4>1. U \in W /\ V \in W /\ z \in U /\ y \in V
        BY <1>1, <2>1, <3>1, <3>3
      <4>2. U \ {z} = T /\ V \ {y} = T
        OBVIOUS
      <4>3. /\ SumFunctionOnSet(f, U) = f[z] + SumFunctionOnSet(f, T)
            /\ SumFunctionOnSet(f, V) = f[y] + SumFunctionOnSet(f, T)
        BY <4>1, <4>2
      <4>4. f[y] \in Int /\ f[z] \in Int /\ SumFunctionOnSet(f, T) \in Int
        BY <1>0, <2>1, <3>1
      <4> HIDE DEF z, U, V, T
      <4> QED BY <3>1, <4>3, <4>4 DEF U
    <3> QED BY <3>2, <3>3
  <2> QED BY <2>1
<1>2. \A S \in SUBSET D : (\A R \in SUBSET S : R # S => R \in W) => S \in W
  BY <1>1
<1> HIDE DEF W
<1>3. D \in W
  BY <1>2, SubsetInduction
<1> QED BY <1>3 DEF W

(* One value that changes moves the sum by as much.                        *)
LEMMA SumUpdate ==
    ASSUME NEW f, NEW g, NEW D, IsFiniteSet(D), NEW x \in D,
           \A y \in D : f[y] \in Int /\ g[y] \in Int,
           \A y \in D \ {x} : g[y] = f[y]
    PROVE  /\ SumFunctionOnSet(g, D) = SumFunctionOnSet(f, D) - f[x] + g[x]
           /\ SumFunctionOnSet(f, D) \in Int
<1>1. IsFiniteSet(D \ {x})
  BY FS_Subset
<1>2. SumFunctionOnSet(g, D \ {x}) = SumFunctionOnSet(f, D \ {x})
  BY <1>1, SumCongruence
<1>3. /\ SumFunctionOnSet(f, D) = f[x] + SumFunctionOnSet(f, D \ {x})
      /\ SumFunctionOnSet(g, D) = g[x] + SumFunctionOnSet(g, D \ {x})
      /\ SumFunctionOnSet(f, D) \in Int
  BY SumRemove, SumInt
<1>4. SumFunctionOnSet(f, D \ {x}) \in Int
  BY <1>1, SumInt
<1> QED BY <1>2, <1>3, <1>4

(* An amount that moves from one element to another changes no sum.        *)
LEMMA SumMove ==
    ASSUME NEW f, NEW g, NEW D, IsFiniteSet(D), NEW x \in D, NEW y \in D, x # y,
           \A z \in D : f[z] \in Int, NEW n \in Int,
           g[x] = f[x] - n, g[y] = f[y] + n,
           \A z \in D \ {x, y} : g[z] = f[z]
    PROVE  SumFunctionOnSet(g, D) = SumFunctionOnSet(f, D)
<1> DEFINE h == [z \in D |-> IF z = x THEN f[x] - n ELSE f[z]]
<1>0. \A z \in D : h[z] \in Int /\ g[z] \in Int
  OBVIOUS
<1>1. /\ SumFunctionOnSet(h, D) = SumFunctionOnSet(f, D) - f[x] + h[x]
      /\ SumFunctionOnSet(f, D) \in Int
  BY <1>0, SumUpdate
<1>2. SumFunctionOnSet(g, D) = SumFunctionOnSet(h, D) - h[y] + g[y]
  <2>1. \A z \in D \ {y} : g[z] = h[z]
    OBVIOUS
  <2> HIDE DEF h
  <2> QED BY <1>0, <2>1, SumUpdate
<1>3. h[x] = f[x] - n /\ h[y] = f[y] /\ f[x] \in Int /\ f[y] \in Int
  OBVIOUS
<1> HIDE DEF h
<1> QED BY <1>1, <1>2, <1>3

(* One more element adds its value.                                        *)
LEMMA SumExtend ==
    ASSUME NEW f, NEW g, NEW D, IsFiniteSet(D), NEW x, x \notin D,
           \A y \in D : f[y] \in Int /\ g[y] = f[y], g[x] \in Int
    PROVE  /\ SumFunctionOnSet(g, D \union {x}) = SumFunctionOnSet(f, D) + g[x]
           /\ SumFunctionOnSet(f, D) \in Int
<1>1. IsFiniteSet(D \union {x}) /\ (D \union {x}) \ {x} = D
  BY FS_AddElement
<1>2. \A y \in D \union {x} : g[y] \in Int
  OBVIOUS
<1>3. SumFunctionOnSet(g, D \union {x}) = g[x] + SumFunctionOnSet(g, D)
  BY <1>1, <1>2, SumRemove
<1>4. SumFunctionOnSet(g, D) = SumFunctionOnSet(f, D)
  BY SumCongruence
<1>5. SumFunctionOnSet(f, D) \in Int
  BY SumInt
<1> QED BY <1>3, <1>4, <1>5

(* Sums add up, value by value.                                            *)
LEMMA SumPlus ==
    ASSUME NEW f, NEW g, NEW h, NEW D, IsFiniteSet(D),
           \A x \in D : f[x] \in Int /\ g[x] \in Int /\ h[x] = f[x] + g[x]
    PROVE  SumFunctionOnSet(h, D) = SumFunctionOnSet(f, D) + SumFunctionOnSet(g, D)
<1> DEFINE W == {S \in SUBSET D : SumFunctionOnSet(h, S) =
                     SumFunctionOnSet(f, S) + SumFunctionOnSet(g, S)}
<1>1. ASSUME NEW S \in SUBSET D, \A R \in SUBSET S : R # S => R \in W
      PROVE  S \in W
  <2>1. CASE S = {}
    BY <2>1, SumEmpty
  <2>2. CASE S # {}
    <3> DEFINE x == FirstOf(S)
               R == S \ {x}
    <3>1. IsFiniteSet(S)
      BY FS_Subset
    <3>2. x \in D /\ R \in W /\ IsFiniteSet(R) /\ R \in SUBSET D
      BY <1>1, <2>2, <3>1, FirstRemoved
    <3>3. SumFunctionOnSet(f, R) \in Int /\ SumFunctionOnSet(g, R) \in Int
      BY <3>2, SumInt
    <3>4. /\ SumFunctionOnSet(f, S) = f[x] + SumFunctionOnSet(f, R)
          /\ SumFunctionOnSet(g, S) = g[x] + SumFunctionOnSet(g, R)
          /\ SumFunctionOnSet(h, S) = h[x] + SumFunctionOnSet(h, R)
      BY <2>2, <3>1, SumFirst
    <3>5. /\ f[x] \in Int /\ g[x] \in Int /\ h[x] = f[x] + g[x]
          /\ SumFunctionOnSet(h, R) = SumFunctionOnSet(f, R) + SumFunctionOnSet(g, R)
      BY <3>2
    <3> HIDE DEF x, R
    <3>6. SumFunctionOnSet(h, S) = SumFunctionOnSet(f, S) + SumFunctionOnSet(g, S)
      BY <3>3, <3>4, <3>5
    <3> QED BY <3>6
  <2> QED BY <2>1, <2>2
<1>2. \A S \in SUBSET D : (\A R \in SUBSET S : R # S => R \in W) => S \in W
  BY <1>1
<1> HIDE DEF W
<1>3. D \in W
  BY <1>2, SubsetInduction
<1> QED BY <1>3 DEF W

(* A constant adds up as often as there are elements.                      *)
LEMMA SumConstant ==
    ASSUME NEW f, NEW D, IsFiniteSet(D), NEW c \in Nat, \A x \in D : f[x] = c
    PROVE  SumFunctionOnSet(f, D) = c * Cardinality(D)
<1> DEFINE W == {S \in SUBSET D : SumFunctionOnSet(f, S) = c * Cardinality(S)}
<1>1. ASSUME NEW S \in SUBSET D, \A R \in SUBSET S : R # S => R \in W
      PROVE  S \in W
  <2>1. CASE S = {}
    BY <2>1, SumEmpty, FS_EmptySet
  <2>2. CASE S # {}
    <3>1. IsFiniteSet(S)
      BY FS_Subset
    <3>2. /\ FirstOf(S) \in D /\ S \ {FirstOf(S)} \in W
          /\ Cardinality(S \ {FirstOf(S)}) = Cardinality(S) - 1
          /\ Cardinality(S) \in Nat
      BY <1>1, <2>2, <3>1, FirstRemoved, FS_CardinalityType
    <3>3. SumFunctionOnSet(f, S) = c + c * (Cardinality(S) - 1)
      BY <2>2, <3>1, <3>2, SumFirst
    <3>4. c + c * (Cardinality(S) - 1) = c * Cardinality(S)
      BY <3>2
    <3> QED BY <3>3, <3>4
  <2> QED BY <2>1, <2>2
<1>2. \A S \in SUBSET D : (\A R \in SUBSET S : R # S => R \in W) => S \in W
  BY <1>1
<1> HIDE DEF W
<1>3. D \in W
  BY <1>2, SubsetInduction
<1> QED BY <1>3 DEF W

(* A factor of every term is a factor of the sum.                          *)
LEMMA SumTimes ==
    ASSUME NEW f, NEW g, NEW D, IsFiniteSet(D), NEW c \in Nat,
           \A x \in D : f[x] \in Nat /\ g[x] = c * f[x]
    PROVE  SumFunctionOnSet(g, D) = c * SumFunctionOnSet(f, D)
<1> DEFINE W == {S \in SUBSET D : SumFunctionOnSet(g, S) = c * SumFunctionOnSet(f, S)}
<1>1. ASSUME NEW S \in SUBSET D, \A R \in SUBSET S : R # S => R \in W
      PROVE  S \in W
  <2>1. CASE S = {}
    BY <2>1, SumEmpty
  <2>2. CASE S # {}
    <3> DEFINE x == FirstOf(S)
               R == S \ {x}
    <3>1. IsFiniteSet(S)
      BY FS_Subset
    <3>2. x \in D /\ R \in W /\ IsFiniteSet(R) /\ R \in SUBSET D
      BY <1>1, <2>2, <3>1, FirstRemoved
    <3>3. SumFunctionOnSet(f, R) \in Nat
      BY <3>2, SumNat
    <3>4. /\ SumFunctionOnSet(f, S) = f[x] + SumFunctionOnSet(f, R)
          /\ SumFunctionOnSet(g, S) = g[x] + SumFunctionOnSet(g, R)
      BY <2>2, <3>1, SumFirst
    <3>5. /\ f[x] \in Nat /\ g[x] = c * f[x]
          /\ SumFunctionOnSet(g, R) = c * SumFunctionOnSet(f, R)
      BY <3>2
    <3> HIDE DEF x, R
    <3>6. \A a, b \in Nat : c * (a + b) = c * a + c * b
      OBVIOUS
    <3>7. SumFunctionOnSet(g, S) = c * SumFunctionOnSet(f, S)
      BY <3>3, <3>4, <3>5, <3>6
    <3> QED BY <3>7
  <2> QED BY <2>1, <2>2
<1>2. \A S \in SUBSET D : (\A R \in SUBSET S : R # S => R \in W) => S \in W
  BY <1>1
<1> HIDE DEF W
<1>3. D \in W
  BY <1>2, SubsetInduction
<1> QED BY <1>3 DEF W

(* A sum of zeros is zero.                                                 *)
LEMMA SumZero ==
    ASSUME NEW f, NEW D, IsFiniteSet(D), \A x \in D : f[x] = 0
    PROVE  SumFunctionOnSet(f, D) = 0
BY SumConstant, FS_CardinalityType

=============================================================================
