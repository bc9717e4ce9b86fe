-------------------------- MODULE Commitment_proofs --------------------------
(***************************************************************************)
(* Proof that a unit's state is carried over from one subproblem to the    *)
(* next, for any units, horizons and numbers of subproblems.  The windows  *)
(* are sums, so it begins with sums of functions over finite sets: what    *)
(* would be an induction on the set looks at a smallest counterexample.    *)
(* Then come the windows of one subproblem, what a feasible solution keeps *)
(* to, and the invariant: the linked timepoints are the last ones of the   *)
(* timeline, and all of them that the next subproblem is to know.          *)
(***************************************************************************)
EXTENDS Commitment, FiniteSetTheorems, WellFoundedInduction, TLAPS

(* A set of natural numbers has a least one.                               *)
LEMMA LeastNatural ==
  ASSUME NEW N \in SUBSET Nat, N # {}
  PROVE  \E n \in N : \A m \in N : n <= m
<1> DEFINE R == {nn \in Nat \X Nat : nn[1] < nn[2]}
<1>1. IsWellFoundedOn(R, Nat)
  BY NatLessThanWellFounded DEF OpToRel
<1> HIDE DEF R
<1>2. PICK n \in N : \A m \in N : ~(<<m, n>> \in R)
  BY <1>1, WFMin, Zenon
<1>3. ASSUME NEW m \in N PROVE n <= m
  <2>1. ~(<<m, n>> \in R)
    BY <1>2
  <2>2. <<m, n>>[1] = m /\ <<m, n>>[2] = n /\ <<m, n>> \in Nat \X Nat
    OBVIOUS
  <2>3. ~(m < n)
    BY <2>1, <2>2 DEF R
  <2> QED
    BY <2>3
<1> QED
  BY <1>3

(* So there is a smallest set among finite ones.                           *)
LEMMA SmallestSet ==
  ASSUME NEW C, C # {}, \A s \in C : IsFiniteSet(s)
  PROVE  \E s \in C : \A r \in C : Cardinality(s) <= Cardinality(r)
<1> DEFINE N == {Cardinality(s) : s \in C}
<1>1. N \in SUBSET Nat /\ N # {}
  BY FS_CardinalityType
<1>2. PICK n \in N : \A m \in N : n <= m
  BY <1>1, LeastNatural, Zenon
<1> QED
  BY <1>2

(* The recursion behind SumFunctionOnSet.                                  *)
Pick(s) == CHOOSE x \in s : TRUE
Folds(f, S, g) ==
  g = [s \in SUBSET S |->
         IF s = {} THEN 0 ELSE f[Pick(s)] + g[s \ {Pick(s)}]]

LEMMA SumIsFold ==
  ASSUME NEW f, NEW S
  PROVE  SumFunctionOnSet(f, S) = (CHOOSE g : Folds(f, S, g))[S]
BY DEF SumFunctionOnSet, FoldFunctionOnSet, MapThenFoldSet, Folds, Pick

LEMMA FoldExists ==
  ASSUME NEW f, NEW S, IsFiniteSet(S)
  PROVE  \E g : Folds(f, S, g)
<1> DEFINE Upto(n) == {s \in SUBSET S : Cardinality(s) <= n}
           Good(n, g) ==
             g = [s \in Upto(n) |->
                    IF s = {} THEN 0 ELSE f[Pick(s)] + g[s \ {Pick(s)}]]
           Bad == {n \in Nat : ~ \E g : Good(n, g)}
<1>1. \A s \in SUBSET S : /\ IsFiniteSet(s) /\ Cardinality(s) \in Nat
                          /\ s # {} => /\ Pick(s) \in s
                                       /\ s \ {Pick(s)} \in SUBSET S
                                       /\ Cardinality(s \ {Pick(s)}) = Cardinality(s) - 1
                          /\ s = {} <=> Cardinality(s) = 0
  <2> SUFFICES ASSUME NEW s \in SUBSET S
               PROVE  /\ IsFiniteSet(s) /\ Cardinality(s) \in Nat
                      /\ s # {} => /\ Pick(s) \in s
                                   /\ s \ {Pick(s)} \in SUBSET S
                                   /\ Cardinality(s \ {Pick(s)}) = Cardinality(s) - 1
                      /\ s = {} <=> Cardinality(s) = 0
    OBVIOUS
  <2>1. IsFiniteSet(s)
    BY FS_Subset
  <2>2. s # {} => Pick(s) \in s
    BY DEF Pick
  <2>3. s # {} => Cardinality(s \ {Pick(s)}) = Cardinality(s) - 1
    BY <2>1, <2>2, FS_RemoveElement
  <2> QED
    BY <2>1, <2>2, <2>3, FS_CardinalityType, FS_EmptySet
<1>2. Bad = {}
  <2> SUFFICES ASSUME Bad # {} PROVE FALSE
    OBVIOUS
  <2>1. PICK n \in Bad : \A m \in Bad : n <= m
    <3>1. Bad \in SUBSET Nat
      OBVIOUS
    <3> QED
      BY <3>1, LeastNatural, Zenon
  <2>2. n # 0
    <3> DEFINE g == [s \in Upto(0) |-> 0]
    <3>1. \A s \in Upto(0) : s = {}
      <4> SUFFICES ASSUME NEW s \in Upto(0) PROVE s = {}
        OBVIOUS
      <4>1. s \in SUBSET S /\ Cardinality(s) <= 0
        OBVIOUS
      <4>2. Cardinality(s) \in Nat /\ (s = {} <=> Cardinality(s) = 0)
        BY <4>1, <1>1
      <4> QED
        BY <4>1, <4>2
    <3>2. n = 0 => Good(n, g)
      BY <3>1
    <3> QED
      BY <3>2
  <2>3. \E k : Good(n - 1, k)
    <3>1. n \in Nat /\ n - 1 \in Nat
      BY <2>2
    <3>2. n - 1 \notin Bad
      <4> HIDE DEF Bad
      <4> QED
        BY <3>1, <2>1
    <3> HIDE DEF Good
    <3> QED
      BY <3>1, <3>2
  <2>4. PICK k : Good(n - 1, k)
    BY <2>3
  <2> DEFINE g == [s \in Upto(n) |->
                     IF s = {} THEN 0 ELSE f[Pick(s)] + k[s \ {Pick(s)}]]
  <2>5. \A s \in Upto(n - 1) : g[s] = k[s]
    <3> SUFFICES ASSUME NEW s \in Upto(n - 1) PROVE g[s] = k[s]
      OBVIOUS
    <3>1. k[s] = IF s = {} THEN 0 ELSE f[Pick(s)] + k[s \ {Pick(s)}]
      BY <2>4
    <3>2. s \in Upto(n)
      <4>1. s \in SUBSET S /\ Cardinality(s) <= n - 1 /\ Cardinality(s) \in Nat
        BY <1>1
      <4> QED
        BY <4>1
    <3> QED
      BY <3>1, <3>2
  <2>6. \A s \in Upto(n) : s # {} => s \ {Pick(s)} \in Upto(n - 1)
    BY <1>1
  <2>7. Good(n, g)
    BY <2>5, <2>6
  <2> QED
    BY <2>1, <2>7
<1>3. PICK g : Good(Cardinality(S), g)
  <2>1. Cardinality(S) \in Nat
    BY FS_CardinalityType
  <2> QED
    BY <2>1, <1>2
<1>4. Upto(Cardinality(S)) = SUBSET S
  BY FS_Subset
<1>5. Folds(f, S, g)
  BY <1>3, <1>4 DEF Folds
<1> QED
  BY <1>5

(* Functions that are the same on a set.                                   *)
Agree(e, f, D) == \A x \in D : e[x] = f[x]

(* Two folds agree where their functions do.                               *)
LEMMA FoldsAgree ==
  ASSUME NEW e, NEW f, NEW S, NEW T, NEW g, NEW k, NEW D,
         IsFiniteSet(D), D \subseteq S, D \subseteq T,
         Folds(e, S, g), Folds(f, T, k), Agree(e, f, D)
  PROVE  g[D] = k[D]
<1> DEFINE Bad == {s \in SUBSET D : g[s] # k[s]}
<1>1. ASSUME NEW s \in SUBSET D
      PROVE  /\ g[s] = IF s = {} THEN 0 ELSE e[Pick(s)] + g[s \ {Pick(s)}]
             /\ k[s] = IF s = {} THEN 0 ELSE f[Pick(s)] + k[s \ {Pick(s)}]
  <2>1. s \in SUBSET S /\ s \in SUBSET T
    OBVIOUS
  <2> QED
    BY <2>1 DEF Folds
<1>2. Bad = {}
  <2> SUFFICES ASSUME Bad # {} PROVE FALSE
    OBVIOUS
  <2>1. PICK s \in Bad : \A r \in Bad : Cardinality(s) <= Cardinality(r)
    <3>1. \A s \in Bad : IsFiniteSet(s)
      BY FS_Subset
    <3> HIDE DEF Bad
    <3> QED
      BY <3>1, SmallestSet
  <2>2. s # {}
    BY <1>1
  <2>3. Pick(s) \in s
    BY <2>2 DEF Pick
  <2>4. /\ Cardinality(s) \in Nat
        /\ Cardinality(s \ {Pick(s)}) = Cardinality(s) - 1
    <3>1. IsFiniteSet(s)
      BY FS_Subset
    <3> QED
      BY <3>1, <2>3, FS_RemoveElement, FS_CardinalityType
  <2>5. s \ {Pick(s)} \notin Bad
    BY <2>1, <2>4
  <2>6. g[s \ {Pick(s)}] = k[s \ {Pick(s)}]
    BY <2>5
  <2> QED
    BY <1>1, <2>2, <2>3, <2>6 DEF Agree
<1> QED
  BY <1>2

LEMMA SumChosen ==
  ASSUME NEW f, NEW S, IsFiniteSet(S)
  PROVE  SumFunctionOnSet(f, S)
           = IF S = {} THEN 0
             ELSE f[Pick(S)] + SumFunctionOnSet(f, S \ {Pick(S)})
<1> DEFINE D == S \ {Pick(S)}
           g == CHOOSE h : Folds(f, S, h)
           k == CHOOSE h : Folds(f, D, h)
<1>1. IsFiniteSet(D)
  BY FS_Subset
<1>2. Folds(f, S, g)
  BY FoldExists
<1>3. Folds(f, D, k)
  BY <1>1, FoldExists
<1>4. SumFunctionOnSet(f, S) = g[S] /\ SumFunctionOnSet(f, D) = k[D]
  BY SumIsFold
<1>5. g[D] = k[D]
  <2> HIDE DEF g, k
  <2>1. D \subseteq S /\ D \subseteq D /\ Agree(f, f, D)
    BY DEF Agree
  <2> HIDE DEF D
  <2> QED
    BY <2>1, <1>1, <1>2, <1>3, FoldsAgree
<1>6. g[S] = IF S = {} THEN 0 ELSE f[Pick(S)] + g[D]
  BY <1>2 DEF Folds
<1> QED
  BY <1>4, <1>5, <1>6

LEMMA SumsAgree ==
  ASSUME NEW e, NEW f, NEW S, IsFiniteSet(S), Agree(e, f, S)
  PROVE  SumFunctionOnSet(e, S) = SumFunctionOnSet(f, S)
<1> DEFINE g == CHOOSE h : Folds(e, S, h)
           k == CHOOSE h : Folds(f, S, h)
<1>1. Folds(e, S, g) /\ Folds(f, S, k)
  BY FoldExists
<1>2. SumFunctionOnSet(e, S) = g[S] /\ SumFunctionOnSet(f, S) = k[S]
  BY SumIsFold
<1>3. g[S] = k[S]
  <2> HIDE DEF g, k
  <2>1. S \subseteq S
    OBVIOUS
  <2> QED
    BY <2>1, <1>1, FoldsAgree
<1> QED
  BY <1>2, <1>3

(* Sums of natural numbers.                                                *)
Sum(f, S) == SumFunctionOnSet(f, S)
Natural(f, S) == IsFiniteSet(S) /\ \A x \in S : f[x] \in Nat

LEMMA SumEmpty == \A f : Sum(f, {}) = 0
  BY SumChosen, FS_EmptySet DEF Sum

LEMMA NaturalSubset ==
  ASSUME NEW f, NEW S, Natural(f, S), NEW D \in SUBSET S
  PROVE  Natural(f, D)
  BY FS_Subset DEF Natural

LEMMA SumType ==
  ASSUME NEW f, NEW S, Natural(f, S)
  PROVE  Sum(f, S) \in Nat
<1> DEFINE Bad == {s \in SUBSET S : Sum(f, s) \notin Nat}
<1>1. ASSUME Bad # {} PROVE FALSE
  <2>1. \A s \in Bad : IsFiniteSet(s)
    BY FS_Subset DEF Natural
  <2>2. PICK s \in Bad : \A r \in Bad : Cardinality(s) <= Cardinality(r)
    <3> HIDE DEF Bad
    <3> QED
      BY <1>1, <2>1, SmallestSet
  <2>3. s \in SUBSET S /\ IsFiniteSet(s) /\ Sum(f, s) \notin Nat
    BY <2>1
  <2>4. s # {}
    BY <2>3, SumEmpty
  <2>5. Pick(s) \in s /\ f[Pick(s)] \in Nat
    BY <2>3, <2>4 DEF Pick, Natural
  <2>6. Cardinality(s) \in Nat /\ Cardinality(s \ {Pick(s)}) = Cardinality(s) - 1
    BY <2>3, <2>5, FS_RemoveElement, FS_CardinalityType
  <2>7. s \ {Pick(s)} \notin Bad
    BY <2>2, <2>6
  <2>8. Sum(f, s \ {Pick(s)}) \in Nat
    BY <2>3, <2>7
  <2>9. Sum(f, s) = f[Pick(s)] + Sum(f, s \ {Pick(s)})
    BY <2>3, <2>4, SumChosen DEF Sum
  <2> QED
    BY <2>3, <2>5, <2>8, <2>9
<1> QED
  BY <1>1

(* It does not matter which element is added last.                         *)
LEMMA SumRest ==
  ASSUME NEW f, NEW S, Natural(f, S), NEW x \in S
  PROVE  Sum(f, S) = f[x] + Sum(f, S \ {x})
<1> DEFINE Rest(s, y) == Sum(f, s) = f[y] + Sum(f, s \ {y})
           Bad == {s \in SUBSET S : \E y \in s : ~Rest(s, y)}
<1>1. ASSUME Bad # {} PROVE FALSE
  <2>1. \A s \in Bad : IsFiniteSet(s)
    BY FS_Subset DEF Natural
  <2>2. PICK s \in Bad : \A r \in Bad : Cardinality(s) <= Cardinality(r)
    <3> HIDE DEF Bad
    <3> QED
      BY <1>1, <2>1, SmallestSet
  <2>3. s \in SUBSET S /\ IsFiniteSet(s)
    BY <2>1
  <2>4. PICK z \in s : ~Rest(s, z)
    BY <2>2
  <2>5. Pick(s) \in s
    BY <2>4 DEF Pick
  <2>6. Rest(s, Pick(s))
    BY <2>3, <2>5, SumChosen DEF Sum
  <2>7. z # Pick(s)
    <3> HIDE DEF Rest
    <3> QED
      BY <2>4, <2>6
  <2>8. \A y \in s : s \ {y} \notin Bad
    <3> SUFFICES ASSUME NEW y \in s PROVE s \ {y} \notin Bad
      OBVIOUS
    <3>1. Cardinality(s) \in Nat /\ Cardinality(s \ {y}) = Cardinality(s) - 1
      BY <2>3, FS_RemoveElement, FS_CardinalityType
    <3> HIDE DEF Bad
    <3> QED
      BY <3>1, <2>2
  <2>9. Rest(s \ {Pick(s)}, z) /\ Rest(s \ {z}, Pick(s))
    <3>1. s \ {Pick(s)} \in SUBSET S /\ s \ {z} \in SUBSET S
      BY <2>3
    <3>2. z \in s \ {Pick(s)} /\ Pick(s) \in s \ {z}
      BY <2>4, <2>5, <2>7
    <3> HIDE DEF Rest
    <3> QED
      BY <3>1, <3>2, <2>4, <2>5, <2>8
  <2>10. (s \ {Pick(s)}) \ {z} = (s \ {z}) \ {Pick(s)}
    OBVIOUS
  <2>11. f[z] \in Nat /\ f[Pick(s)] \in Nat /\ Sum(f, (s \ {z}) \ {Pick(s)}) \in Nat
    <3>1. (s \ {z}) \ {Pick(s)} \in SUBSET S
      BY <2>3
    <3> QED
      BY <3>1, <2>3, <2>4, <2>5, NaturalSubset, SumType DEF Natural
  <2>12. /\ Sum(f, s) = f[Pick(s)] + Sum(f, s \ {Pick(s)})
         /\ Sum(f, s \ {Pick(s)}) = f[z] + Sum(f, (s \ {z}) \ {Pick(s)})
         /\ Sum(f, s \ {z}) = f[Pick(s)] + Sum(f, (s \ {z}) \ {Pick(s)})
         /\ Sum(f, s) # f[z] + Sum(f, s \ {z})
    BY <2>4, <2>6, <2>9, <2>10
  <2> QED
    BY <2>11, <2>12
<1> QED
  BY <1>1

LEMMA SumAdd ==
  ASSUME NEW f, NEW S, NEW x, x \notin S, Natural(f, S \cup {x})
  PROVE  Sum(f, S \cup {x}) = f[x] + Sum(f, S)
<1>1. (S \cup {x}) \ {x} = S
  OBVIOUS
<1> QED
  BY <1>1, SumRest

LEMMA SumUnion ==
  ASSUME NEW f, NEW S, NEW T, S \cap T = {}, Natural(f, S), Natural(f, T)
  PROVE  Sum(f, S \cup T) = Sum(f, S) + Sum(f, T)
<1> DEFINE Bad == {s \in SUBSET T : Sum(f, S \cup s) # Sum(f, S) + Sum(f, s)}
<1>1. ASSUME Bad # {} PROVE FALSE
  <2>1. \A s \in Bad : IsFiniteSet(s)
    BY FS_Subset DEF Natural
  <2>2. PICK s \in Bad : \A r \in Bad : Cardinality(s) <= Cardinality(r)
    <3> HIDE DEF Bad
    <3> QED
      BY <1>1, <2>1, SmallestSet
  <2>3. s \in SUBSET T /\ IsFiniteSet(s)
    BY <2>1
  <2>4. Sum(f, S \cup s) # Sum(f, S) + Sum(f, s)
    BY <2>2
  <2>5. s # {}
    <3>1. S \cup {} = S
      OBVIOUS
    <3> QED
      BY <3>1, <2>4, SumEmpty, SumType
  <2>6. PICK y \in s : TRUE
    BY <2>5
  <2>7. Natural(f, S \cup s) /\ Natural(f, s) /\ Natural(f, s \ {y})
    <3>1. IsFiniteSet(S \cup s)
      BY <2>3, FS_Union DEF Natural
    <3>2. \A z \in S \cup s : f[z] \in Nat
      BY <2>3 DEF Natural
    <3>3. Natural(f, S \cup s)
      BY <3>1, <3>2 DEF Natural
    <3> QED
      BY <3>3, NaturalSubset
  <2>8. Sum(f, S \cup s) = f[y] + Sum(f, (S \cup s) \ {y})
    BY <2>7, SumRest
  <2>9. Sum(f, s) = f[y] + Sum(f, s \ {y})
    BY <2>7, SumRest
  <2>10. (S \cup s) \ {y} = S \cup (s \ {y})
    BY <2>3
  <2>11. s \ {y} \notin Bad
    <3>1. Cardinality(s) \in Nat /\ Cardinality(s \ {y}) = Cardinality(s) - 1
      BY <2>3, FS_RemoveElement, FS_CardinalityType
    <3> HIDE DEF Bad
    <3> QED
      BY <3>1, <2>2
  <2>12. Sum(f, S \cup (s \ {y})) = Sum(f, S) + Sum(f, s \ {y})
    BY <2>3, <2>11
  <2>13. f[y] \in Nat /\ Sum(f, S) \in Nat /\ Sum(f, s \ {y}) \in Nat
    BY <2>7, SumType DEF Natural
  <2>14. Sum(f, S \cup s) = f[y] + Sum(f, S \cup (s \ {y}))
    BY <2>8, <2>10
  <2> QED
    BY <2>4, <2>9, <2>12, <2>13, <2>14
<1> QED
  BY <1>1

LEMMA SumAtLeast ==
  ASSUME NEW f, NEW S, Natural(f, S)
  PROVE  /\ \A x \in S : Sum(f, S) >= f[x]
         /\ \A x, y \in S : x # y => Sum(f, S) >= f[x] + f[y]
<1>1. ASSUME NEW x \in S PROVE Sum(f, S) >= f[x]
  <2>1. Sum(f, S \ {x}) \in Nat /\ f[x] \in Nat
    BY NaturalSubset, SumType DEF Natural
  <2> QED
    BY <2>1, SumRest
<1>2. ASSUME NEW x \in S, NEW y \in S, x # y PROVE Sum(f, S) >= f[x] + f[y]
  <2>1. Natural(f, S \ {x}) /\ y \in S \ {x} /\ (S \ {x}) \ {y} \in SUBSET S
    BY <1>2, NaturalSubset
  <2>2. Sum(f, S) = f[x] + Sum(f, S \ {x})
    BY SumRest
  <2>3. Sum(f, S \ {x}) = f[y] + Sum(f, (S \ {x}) \ {y})
    BY <2>1, SumRest
  <2>4. Sum(f, (S \ {x}) \ {y}) \in Nat /\ f[x] \in Nat /\ f[y] \in Nat
    BY <2>1, NaturalSubset, SumType DEF Natural
  <2> QED
    BY <2>2, <2>3, <2>4
<1> QED
  BY <1>1, <1>2

(* A sum may be taken over other indices.                                  *)
Relabels(b, S, T) ==
  /\ {b[x] : x \in S} = T
  /\ \A x, y \in S : b[x] = b[y] => x = y
SameUnder(b, e, f, S) == \A x \in S : e[x] = f[b[x]]

LEMMA SumReindexed ==
  ASSUME NEW e, NEW f, NEW S, NEW T, NEW b, Natural(e, S), Natural(f, T),
         Relabels(b, S, T), SameUnder(b, e, f, S)
  PROVE  Sum(e, S) = Sum(f, T)
<1> DEFINE Im(s) == {b[x] : x \in s}
           Bad == {s \in SUBSET S : Sum(e, s) # Sum(f, Im(s))}
<1>0. /\ Im(S) = T
      /\ \A x, y \in S : b[x] = b[y] => x = y
      /\ \A x \in S : e[x] = f[b[x]]
  BY DEF Relabels, SameUnder
<1>1. ASSUME Bad # {} PROVE FALSE
  <2>1. \A s \in Bad : IsFiniteSet(s)
    BY FS_Subset DEF Natural
  <2>2. PICK s \in Bad : \A r \in Bad : Cardinality(s) <= Cardinality(r)
    <3> HIDE DEF Bad
    <3> QED
      BY <1>1, <2>1, SmallestSet
  <2>3. s \in SUBSET S /\ IsFiniteSet(s) /\ Sum(e, s) # Sum(f, Im(s))
    BY <2>1, <2>2
  <2>4. s # {}
    <3>1. Im({}) = {}
      OBVIOUS
    <3> QED
      BY <3>1, <2>3, SumEmpty
  <2>5. PICK y \in s : TRUE
    BY <2>4
  <2>6. Im(s) \ {b[y]} = Im(s \ {y})
    BY <1>0, <2>3
  <2>7. Natural(e, s) /\ Natural(f, Im(s))
    <3>1. Im(s) \in SUBSET T
      BY <1>0, <2>3
    <3> QED
      BY <2>3, <3>1, NaturalSubset
  <2>8. Sum(e, s) = e[y] + Sum(e, s \ {y})
    BY <2>7, SumRest
  <2>9. Sum(f, Im(s)) = f[b[y]] + Sum(f, Im(s) \ {b[y]})
    <3>1. b[y] \in Im(s)
      OBVIOUS
    <3> HIDE DEF Im
    <3> QED
      BY <2>7, <3>1, SumRest
  <2>10. s \ {y} \notin Bad
    <3>1. Cardinality(s) \in Nat /\ Cardinality(s \ {y}) = Cardinality(s) - 1
      BY <2>3, FS_RemoveElement, FS_CardinalityType
    <3> HIDE DEF Bad
    <3> QED
      BY <3>1, <2>2
  <2>11. Sum(e, s \ {y}) = Sum(f, Im(s \ {y}))
    BY <2>3, <2>10
  <2> QED
    BY <1>0, <2>3, <2>6, <2>8, <2>9, <2>11
<1> QED
  BY <1>0, <1>1

LEMMA SumOfPart ==
  ASSUME NEW f, NEW S, Natural(f, S), NEW D \in SUBSET S
  PROVE  Sum(f, D) \in Nat /\ Sum(f, D) <= Sum(f, S)
<1>1. Natural(f, D) /\ Natural(f, S \ D)
  BY NaturalSubset
<1>2. Sum(f, D \cup (S \ D)) = Sum(f, D) + Sum(f, S \ D)
  BY <1>1, SumUnion
<1>3. D \cup (S \ D) = S
  OBVIOUS
<1> QED
  BY <1>1, <1>2, <1>3, SumType

------------------------------------------------------------------------------
(* Windows.                                                                *)
Hours(h) ==
  /\ h.hrs \in Seq(Nat) /\ h.hrs # <<>>
  /\ h.boundary \in {"linear", "circular", "linked"}

LEMMA TmpsAre ==
  ASSUME NEW h, Hours(h)
  PROVE  /\ Len(h.hrs) \in Nat \ {0}
         /\ Tmps(h) = 1..Len(h.hrs) /\ DOMAIN h.hrs = Tmps(h)
         /\ \A t \in Tmps(h) : h.hrs[t] \in Nat
         /\ IsFiniteSet(Tmps(h))
<1>1. Len(h.hrs) \in Nat \ {0} /\ DOMAIN h.hrs = 1..Len(h.hrs)
      /\ \A t \in 1..Len(h.hrs) : h.hrs[t] \in Nat
  BY DEF Hours
<1> QED
  BY <1>1, FS_Interval DEF Tmps

LEMMA BackIs ==
  ASSUME NEW h, Hours(h), NEW t \in Tmps(h), NEW k \in Nat
  PROVE  /\ Back(h, t, k) \in Tmps(h)
         /\ k < t => Back(h, t, k) = t - k
<1>1. Len(h.hrs) \in Nat \ {0} /\ Tmps(h) = 1..Len(h.hrs)
  BY TmpsAre
<1>2. \A a \in Int, n \in Nat \ {0} : /\ a % n \in 0..(n - 1)
                                      /\ a \in 0..(n - 1) => a % n = a
  OBVIOUS
<1>3. t - k - 1 \in Int /\ (k < t => t - k - 1 \in 0..(Len(h.hrs) - 1))
  BY <1>1
<1>4. /\ (t - k - 1) % Len(h.hrs) \in 0..(Len(h.hrs) - 1)
      /\ k < t => (t - k - 1) % Len(h.hrs) = t - k - 1
  BY <1>1, <1>2, <1>3
<1> QED
  BY <1>1, <1>4 DEF Back

(* The hours of the timepoints further and further back.                   *)
HoursAt(h, t) == [k \in 1..Reach(h, t) |-> h.hrs[Back(h, t, k)]]

LEMMA HoursAtType ==
  ASSUME NEW h, Hours(h), NEW t \in Tmps(h)
  PROVE  /\ Reach(h, t) \in Nat /\ t - 1 <= Reach(h, t)
         /\ \A k \in 1..Reach(h, t) : /\ HoursAt(h, t)[k] \in Nat
                                      /\ HoursAt(h, t)[k] = h.hrs[Back(h, t, k)]
         /\ Natural(HoursAt(h, t), 1..Reach(h, t))
<1>1. Reach(h, t) \in Nat /\ t - 1 <= Reach(h, t)
  BY TmpsAre DEF Reach
<1>2. \A k \in 1..Reach(h, t) : /\ HoursAt(h, t)[k] \in Nat
                                /\ HoursAt(h, t)[k] = h.hrs[Back(h, t, k)]
  BY <1>1, BackIs, TmpsAre DEF HoursAt
<1> QED
  BY <1>1, <1>2, FS_Interval DEF Natural

LEMMA HoursBackIsSum ==
  ASSUME NEW h, Hours(h), NEW t \in Tmps(h), NEW k \in 0..Reach(h, t)
  PROVE  HoursBack(h, t, k) = Sum(HoursAt(h, t), 1..k)
<1> DEFINE e == [i \in 1..k |-> h.hrs[Back(h, t, i)]]
<1>1. IsFiniteSet(1..k) /\ DOMAIN e = 1..k
  BY HoursAtType, FS_Interval
<1>2. \A i \in 1..k : e[i] = HoursAt(h, t)[i]
  BY HoursAtType
<1>3. Agree(e, HoursAt(h, t), 1..k)
  BY <1>2 DEF Agree
<1>4. HoursBack(h, t, k) = SumFunctionOnSet(e, 1..k)
  BY <1>1 DEF HoursBack, SumFunction
<1> HIDE DEF e
<1>5. SumFunctionOnSet(e, 1..k) = SumFunctionOnSet(HoursAt(h, t), 1..k)
  BY <1>1, <1>3, SumsAgree
<1> QED
  BY <1>4, <1>5 DEF Sum

LEMMA HoursBackGrows ==
  ASSUME NEW h, Hours(h), NEW t \in Tmps(h), NEW k \in 0..Reach(h, t),
         NEW m \in 0..k
  PROVE  /\ HoursBack(h, t, m) \in Nat /\ HoursBack(h, t, k) \in Nat
         /\ HoursBack(h, t, m) <= HoursBack(h, t, k)
<1>1. Reach(h, t) \in Nat /\ Natural(HoursAt(h, t), 1..Reach(h, t))
  BY HoursAtType
<1>2. 1..k \in SUBSET (1..Reach(h, t)) /\ 1..m \in SUBSET (1..k)
  BY <1>1
<1>3. Natural(HoursAt(h, t), 1..k)
  BY <1>1, <1>2, NaturalSubset
<1>4. /\ Sum(HoursAt(h, t), 1..m) \in Nat /\ Sum(HoursAt(h, t), 1..k) \in Nat
      /\ Sum(HoursAt(h, t), 1..m) <= Sum(HoursAt(h, t), 1..k)
  BY <1>2, <1>3, SumOfPart, SumType
<1>5. m \in 0..Reach(h, t)
  BY <1>1
<1> QED
  BY <1>4, <1>5, HoursBackIsSum

(* As long as the window does not wrap around these are the hours of the   *)
(* timepoints before.                                                      *)
LEMMA HoursBackInOrder ==
  ASSUME NEW h, Hours(h), NEW t \in Tmps(h), NEW k \in 0..(t - 1)
  PROVE  HoursBack(h, t, k) = Sum(h.hrs, (t - k)..(t - 1))
<1> DEFINE b == [i \in 1..k |-> t - i]
           e == HoursAt(h, t)
<1>1. /\ t \in Nat /\ k \in 0..Reach(h, t) /\ 1..k \in SUBSET (1..Reach(h, t))
      /\ (t - k)..(t - 1) \in SUBSET Tmps(h)
  BY HoursAtType, TmpsAre
<1>2. Natural(e, 1..k)
  BY <1>1, HoursAtType, NaturalSubset
<1>3. {b[i] : i \in 1..k} = (t - k)..(t - 1)
  <2>1. \A j \in (t - k)..(t - 1) : t - j \in 1..k /\ b[t - j] = j
    BY <1>1
  <2>2. \A i \in 1..k : b[i] \in (t - k)..(t - 1)
    BY <1>1
  <2> QED
    BY <2>1, <2>2
<1>4. Natural(h.hrs, (t - k)..(t - 1))
  BY <1>1, TmpsAre, FS_Subset DEF Natural
<1>5. \A i \in 1..k : e[i] = h.hrs[b[i]]
  <2> SUFFICES ASSUME NEW i \in 1..k PROVE e[i] = h.hrs[b[i]]
    OBVIOUS
  <2>1. i \in Nat /\ i < t /\ i \in 1..Reach(h, t)
    BY <1>1
  <2>2. e[i] = h.hrs[Back(h, t, i)]
    BY <2>1, HoursAtType
  <2>3. Back(h, t, i) = t - i
    BY <2>1, BackIs
  <2> QED
    BY <2>2, <2>3
<1>6. \A i, j \in 1..k : b[i] = b[j] => i = j
  BY <1>1
<1>7. Relabels(b, 1..k, (t - k)..(t - 1)) /\ SameUnder(b, e, h.hrs, 1..k)
  <2> HIDE DEF b, e
  <2> QED
    BY <1>3, <1>5, <1>6 DEF Relabels, SameUnder
<1>8. Sum(e, 1..k) = Sum(h.hrs, (t - k)..(t - 1))
  <2> HIDE DEF b, e
  <2> QED
    BY <1>2, <1>4, <1>7, SumReindexed
<1> QED
  BY <1>1, <1>8, HoursBackIsSum

(* How many timepoints before t are relevant: a stretch without gaps.      *)
Steps(h, t, minTime) == {k \in 1..Reach(h, t) : HoursBack(h, t, k) < minTime}

LEMMA StepsAre ==
  ASSUME NEW h, Hours(h), NEW t \in Tmps(h), NEW minTime \in Nat
  PROVE  \E n \in 0..Reach(h, t) :
           /\ Steps(h, t, minTime) = 1..n
           /\ RelevantTmps(h, t, minTime) = [i \in 1..(n + 1) |-> Back(h, t, i - 1)]
<1> DEFINE Out == {k \in Nat \ {0} : k \notin Steps(h, t, minTime)}
<1>1. Reach(h, t) \in Nat
  BY HoursAtType
<1>2. Reach(h, t) + 1 \in Out
  BY <1>1 DEF Steps
<1>3. PICK k \in Out : \A m \in Out : k <= m
  <2>1. Out \in SUBSET Nat /\ Out # {}
    BY <1>2
  <2> HIDE DEF Out
  <2> QED
    BY <2>1, LeastNatural
<1>4. k - 1 \in 0..Reach(h, t)
  BY <1>1, <1>2, <1>3
<1>5. Steps(h, t, minTime) = 1..(k - 1)
  <2>1. ASSUME NEW m \in 1..(k - 1) PROVE m \in Steps(h, t, minTime)
    <3>1. m \in Nat \ {0} /\ m < k
      BY <1>4
    <3> QED
      BY <3>1, <1>3
  <2>2. ASSUME NEW m \in Steps(h, t, minTime) PROVE m \in 1..(k - 1)
    <3>1. m \in 1..Reach(h, t) /\ HoursBack(h, t, m) < minTime
      BY DEF Steps
    <3>2. CASE m >= k
      <4>1. k \in 0..m /\ m \in 0..Reach(h, t) /\ k \in 1..Reach(h, t)
        BY <1>1, <1>3, <3>1, <3>2
      <4>2. /\ HoursBack(h, t, k) \in Nat /\ HoursBack(h, t, m) \in Nat
            /\ HoursBack(h, t, k) <= HoursBack(h, t, m)
        BY <4>1, HoursBackGrows
      <4>3. k \in Steps(h, t, minTime)
        BY <3>1, <4>1, <4>2 DEF Steps
      <4> QED
        BY <1>3, <4>3
    <3> QED
      BY <1>4, <3>1, <3>2
  <2> QED
    BY <2>1, <2>2
<1>6. Cardinality(1..(k - 1)) = k - 1
  BY <1>4, FS_Interval
<1>7. RelevantTmps(h, t, minTime) = [i \in 1..((k - 1) + 1) |-> Back(h, t, i - 1)]
  BY <1>5, <1>6 DEF RelevantTmps, Steps
<1> QED
  BY <1>4, <1>5, <1>7

(* The events in a window as two sums, over its timepoints and over those *)
(* that were handed over.                                                  *)
LinkedEvents(lnk, name) ==
  IsFiniteSet(DOMAIN lnk) /\ \A l \in DOMAIN lnk : lnk[l][name] \in Nat

Splits(h, t, minTime, event, lnk, name, n, w, v) ==
  /\ {0} \cup Steps(h, t, minTime) = 0..n
  /\ Natural(w, 1..(n + 1))
  /\ \A k \in {0} \cup Steps(h, t, minTime) : w[k + 1] = event[Back(h, t, k)]
  /\ Natural(v, RelevantLinked(h, lnk, t, minTime))
  /\ \A l \in RelevantLinked(h, lnk, t, minTime) : v[l] = lnk[l][name]
  /\ EventsIn(h, t, minTime, event, lnk, name)
       = Sum(w, 1..(n + 1)) + Sum(v, RelevantLinked(h, lnk, t, minTime))

LEMMA EventsAreSums ==
  ASSUME NEW h, Hours(h), NEW t \in Tmps(h), NEW minTime \in Nat,
         NEW event, \A i \in Tmps(h) : event[i] \in Nat,
         NEW lnk, NEW name, LinkedEvents(lnk, name)
  PROVE  \E n \in Nat : \E w, v : Splits(h, t, minTime, event, lnk, name, n, w, v)
<1>1. PICK n \in 0..Reach(h, t) :
        /\ Steps(h, t, minTime) = 1..n
        /\ RelevantTmps(h, t, minTime) = [i \in 1..(n + 1) |-> Back(h, t, i - 1)]
  BY StepsAre
<1> DEFINE tmps == RelevantTmps(h, t, minTime)
           w == [i \in DOMAIN tmps |-> event[tmps[i]]]
           L == RelevantLinked(h, lnk, t, minTime)
           v == [l \in L |-> lnk[l][name]]
           all == EventsIn(h, t, minTime, event, lnk, name)
<1>2. n \in Nat /\ DOMAIN tmps = 1..(n + 1)
  BY <1>1, HoursAtType
<1>3. \A i \in 1..(n + 1) : w[i] = event[Back(h, t, i - 1)] /\ w[i] \in Nat
  BY <1>1, <1>2, BackIs
<1>4. Natural(w, 1..(n + 1))
  <2> HIDE DEF w
  <2> QED
    BY <1>2, <1>3, FS_Interval DEF Natural
<1>5. L \subseteq DOMAIN lnk /\ IsFiniteSet(L)
  <2>1. L \subseteq DOMAIN lnk
    BY DEF RelevantLinked
  <2> QED
    BY <2>1, FS_Subset DEF LinkedEvents
<1>6. \A l \in L : v[l] = lnk[l][name] /\ v[l] \in Nat
  BY <1>5 DEF LinkedEvents
<1>7. Natural(v, L)
  <2> HIDE DEF v, L
  <2> QED
    BY <1>5, <1>6 DEF Natural
<1>8. DOMAIN w = 1..(n + 1) /\ DOMAIN v = L
  BY <1>2
<1>9. all = Sum(w, 1..(n + 1)) + Sum(v, L)
  <2>1. all = SumFunction(w) + SumFunction(v)
    BY DEF EventsIn
  <2> HIDE DEF w, v, L, all
  <2> QED
    BY <2>1, <1>8 DEF SumFunction, Sum
<1>10. {0} \cup Steps(h, t, minTime) = 0..n
  BY <1>1, <1>2
<1>11. ASSUME NEW k \in {0} \cup Steps(h, t, minTime)
       PROVE  w[k + 1] = event[Back(h, t, k)]
  <2>1. k + 1 \in 1..(n + 1) /\ (k + 1) - 1 = k
    BY <1>2, <1>10
  <2> HIDE DEF w
  <2> QED
    BY <2>1, <1>3
<1> HIDE DEF w, v, all
<1> QED
  BY <1>2, <1>4, <1>6, <1>7, <1>9, <1>10, <1>11 DEF all, Splits

(* The sum of the events in a window is at least any one of them, and at   *)
(* least any two of them together.                                         *)
LEMMA EventsAtLeast ==
  ASSUME NEW h, Hours(h), NEW t \in Tmps(h), NEW minTime \in Nat,
         NEW event, \A i \in Tmps(h) : event[i] \in Nat,
         NEW lnk, NEW name, LinkedEvents(lnk, name)
  PROVE  LET all == EventsIn(h, t, minTime, event, lnk, name)
             ks  == {0} \cup Steps(h, t, minTime)
         IN  /\ all \in Nat
             /\ \A k \in ks : all >= event[Back(h, t, k)]
             /\ \A k, m \in ks :
                  k # m => all >= event[Back(h, t, k)] + event[Back(h, t, m)]
             /\ \A l \in RelevantLinked(h, lnk, t, minTime) : all >= lnk[l][name]
<1> DEFINE L == RelevantLinked(h, lnk, t, minTime)
           all == EventsIn(h, t, minTime, event, lnk, name)
<1>1. PICK n \in Nat : \E w, v : Splits(h, t, minTime, event, lnk, name, n, w, v)
  BY EventsAreSums
<1>2. PICK w, v : Splits(h, t, minTime, event, lnk, name, n, w, v)
  BY <1>1
<1>3. /\ {0} \cup Steps(h, t, minTime) = 0..n
      /\ Natural(w, 1..(n + 1))
      /\ \A k \in {0} \cup Steps(h, t, minTime) : w[k + 1] = event[Back(h, t, k)]
      /\ Natural(v, L) /\ \A l \in L : v[l] = lnk[l][name]
      /\ all = Sum(w, 1..(n + 1)) + Sum(v, L)
  BY <1>2 DEF Splits
<1> HIDE DEF L, all
<1>4. Sum(w, 1..(n + 1)) \in Nat /\ Sum(v, L) \in Nat
  BY <1>3, SumType
<1>5. ASSUME NEW k \in {0} \cup Steps(h, t, minTime)
      PROVE  /\ k + 1 \in 1..(n + 1) /\ w[k + 1] = event[Back(h, t, k)]
             /\ w[k + 1] \in Nat /\ k \in Nat
  <2>1. k \in 0..n /\ k + 1 \in 1..(n + 1)
    BY <1>3
  <2> QED
    BY <2>1, <1>3 DEF Natural
<1>6. ASSUME NEW k \in {0} \cup Steps(h, t, minTime)
      PROVE  all >= event[Back(h, t, k)]
  <2>1. Sum(w, 1..(n + 1)) >= w[k + 1]
    BY <1>3, <1>5, SumAtLeast
  <2> QED
    BY <2>1, <1>3, <1>4, <1>5
<1>7. ASSUME NEW k \in {0} \cup Steps(h, t, minTime),
             NEW m \in {0} \cup Steps(h, t, minTime), k # m
      PROVE  all >= event[Back(h, t, k)] + event[Back(h, t, m)]
  <2>1. k + 1 # m + 1
    BY <1>5, <1>7
  <2>2. Sum(w, 1..(n + 1)) >= w[k + 1] + w[m + 1]
    BY <2>1, <1>3, <1>5, SumAtLeast
  <2>3. /\ w[k + 1] = event[Back(h, t, k)] /\ w[k + 1] \in Nat
        /\ w[m + 1] = event[Back(h, t, m)] /\ w[m + 1] \in Nat
    BY <1>5
  <2> QED
    BY <2>2, <2>3, <1>3, <1>4
<1>8. ASSUME NEW l \in L PROVE all >= lnk[l][name]
  <2>1. Sum(v, L) >= v[l] /\ v[l] \in Nat
    BY <1>3, SumAtLeast DEF Natural
  <2> QED
    BY <2>1, <1>3, <1>4
<1> QED
  BY <1>3, <1>4, <1>6, <1>7, <1>8 DEF all, L

(* A constraint is only left to a later timepoint in the first hours of a  *)
(* linear horizon.                                                         *)
LEMMA OnlyLeftEarly ==
  ASSUME NEW h, Hours(h), NEW t \in Tmps(h), NEW minTime \in Nat,
         LeftToLater(h, t, minTime)
  PROVE  /\ h.boundary = "linear" /\ t + 1 \in Tmps(h)
         /\ Sum(h.hrs, 1..t) \in Nat /\ Sum(h.hrs, 1..t) < minTime
<1>1. PICK n \in 0..Reach(h, t) :
        RelevantTmps(h, t, minTime) = [i \in 1..(n + 1) |-> Back(h, t, i - 1)]
  BY StepsAre
<1> DEFINE tmps == RelevantTmps(h, t, minTime)
           e == [i \in DOMAIN tmps |-> h.hrs[tmps[i]]]
           b == [i \in 1..t |-> t + 1 - i]
<1>2. /\ h.boundary = "linear" /\ tmps[Len(tmps)] = 1 /\ SumFunction(e) < minTime
      /\ t # Len(h.hrs)
  BY DEF LeftToLater
<1>3. t \in Nat /\ t + 1 \in Tmps(h) /\ Reach(h, t) = t - 1 /\ n \in 0..(t - 1)
  BY <1>2, TmpsAre DEF Reach
<1>4. Len(tmps) = n + 1 /\ DOMAIN tmps = 1..(n + 1) /\ tmps[n + 1] = Back(h, t, n)
  BY <1>1, <1>3
<1>5. n = t - 1
  <2>1. Back(h, t, n) = t - n
    BY <1>3, BackIs
  <2> QED
    BY <1>2, <1>3, <1>4, <2>1
<1>6. DOMAIN e = 1..t
  BY <1>3, <1>4, <1>5
<1>7. \A i \in 1..t : e[i] = h.hrs[b[i]] /\ b[i] \in 1..t /\ e[i] \in Nat
  <2> SUFFICES ASSUME NEW i \in 1..t
               PROVE  e[i] = h.hrs[b[i]] /\ b[i] \in 1..t /\ e[i] \in Nat
    OBVIOUS
  <2>1. i - 1 \in Nat /\ i - 1 < t /\ b[i] = t - (i - 1) /\ b[i] \in 1..t
    BY <1>3
  <2>2. tmps[i] = Back(h, t, i - 1)
    BY <1>1, <1>3, <1>5
  <2>3. Back(h, t, i - 1) = t - (i - 1)
    BY <2>1, BackIs
  <2>4. 1..t \in SUBSET Tmps(h)
    BY <1>3, TmpsAre
  <2> QED
    BY <1>6, <2>1, <2>2, <2>3, <2>4, TmpsAre
<1>8. Relabels(b, 1..t, 1..t)
  <2>1. \A j \in 1..t : t + 1 - j \in 1..t /\ b[t + 1 - j] = j
    BY <1>3
  <2>2. \A i, j \in 1..t : b[i] = b[j] => i = j
    BY <1>3
  <2> HIDE DEF b
  <2> QED
    BY <2>1, <2>2, <1>7, <1>3 DEF Relabels
<1>9. SumFunction(e) = Sum(e, 1..t)
  <2> HIDE DEF e
  <2> QED
    BY <1>6 DEF SumFunction, Sum
<1>12. IsFiniteSet(1..t)
  BY <1>3, FS_Interval
<1>10. Natural(h.hrs, 1..t)
  <2>1. 1..t \in SUBSET Tmps(h)
    BY <1>3, TmpsAre
  <2> QED
    BY <1>12, <2>1, TmpsAre DEF Natural
<1>11. Sum(e, 1..t) = Sum(h.hrs, 1..t)
  <2> HIDE DEF e, b
  <2>1. Natural(e, 1..t) /\ SameUnder(b, e, h.hrs, 1..t)
    BY <1>12, <1>7 DEF Natural, SameUnder
  <2> QED
    BY <2>1, <1>8, <1>10, SumReindexed
<1> QED
  BY <1>2, <1>3, <1>9, <1>10, <1>11, SumType

------------------------------------------------------------------------------
(* Minimum times in one subproblem, for starts and shutdowns alike: x is   *)
(* the status that an event brings about and that has to be kept, and no   *)
(* timepoint gets into it without an event.                                *)
Keeping(h, lnk, x, event, minTime, name) ==
  \A t \in Tmps(h) :
    /\ x[t] \in 0..1 /\ event[t] \in 0..1
    /\ LeftToLater(h, t, minTime) \/ x[t] >= EventsIn(h, t, minTime, event, lnk, name)
    /\ t > 1 /\ x[t] = 1 /\ x[t - 1] = 0 => event[t] = 1

Held(i, t, hours, minTime) ==
  i # t => i < t /\ Sum(hours, i..(t - 1)) < minTime

(* An event so short ago is in the window.                                 *)
LEMMA InWindow ==
  ASSUME NEW h, Hours(h), NEW t \in Tmps(h), NEW i \in 1..t, NEW minTime \in Nat,
         Held(i, t, h.hrs, minTime)
  PROVE  /\ t - i \in {0} \cup Steps(h, t, minTime)
         /\ Back(h, t, t - i) = i
<1>1. t \in Nat \ {0} /\ t - i \in 0..(t - 1) /\ t - i < t /\ t - (t - i) = i
  BY TmpsAre
<1>2. Back(h, t, t - i) = i
  BY <1>1, BackIs
<1>3. ASSUME i # t PROVE t - i \in Steps(h, t, minTime)
  <2>1. Sum(h.hrs, i..(t - 1)) < minTime
    BY <1>3 DEF Held
  <2>2. HoursBack(h, t, t - i) = Sum(h.hrs, i..(t - 1))
    BY <1>1, HoursBackInOrder
  <2>3. t - i \in 1..Reach(h, t)
    BY <1>1, <1>3, HoursAtType
  <2> QED
    BY <2>1, <2>2, <2>3 DEF Steps
<1> QED
  BY <1>1, <1>2, <1>3

(* The hours of a stretch within another one are no more.                  *)
LEMMA FewerHours ==
  ASSUME NEW h, Hours(h), NEW t \in Tmps(h), NEW i \in 1..t
  PROVE  /\ Sum(h.hrs, i..t) \in Nat /\ Sum(h.hrs, 1..t) \in Nat
         /\ Sum(h.hrs, i..t) <= Sum(h.hrs, 1..t)
<1>1. t \in Nat \ {0} /\ 1..t \in SUBSET Tmps(h) /\ i..t \in SUBSET (1..t)
  BY TmpsAre
<1>2. IsFiniteSet(1..t)
  BY <1>1, FS_Interval
<1>3. Natural(h.hrs, 1..t)
  BY <1>1, <1>2, TmpsAre DEF Natural
<1> QED
  BY <1>1, <1>3, SumOfPart, SumType

LEMMA EventsHold ==
  ASSUME NEW h, Hours(h), NEW minTime \in Nat, NEW lnk, NEW name, NEW x, NEW event,
         LinkedEvents(lnk, name), Keeping(h, lnk, x, event, minTime, name),
         NEW t \in Tmps(h), NEW i \in 1..t, event[i] = 1,
         Held(i, t, h.hrs, minTime)
  PROVE  x[t] = 1
<1>1. /\ t \in Nat \ {0} /\ i \in Nat \ {0} /\ i <= t /\ i \in Tmps(h)
      /\ \A j \in Tmps(h) : j \in Nat \ {0} /\ 1..j \in SUBSET Tmps(h)
  BY TmpsAre
<1>2. \A j \in Tmps(h) : event[j] \in Nat
  BY DEF Keeping
<1>3. CASE ~LeftToLater(h, t, minTime)
  <2>1. x[t] >= EventsIn(h, t, minTime, event, lnk, name) /\ x[t] \in 0..1
    BY <1>3 DEF Keeping
  <2>2. EventsIn(h, t, minTime, event, lnk, name) >= event[i]
    BY <1>2, InWindow, EventsAtLeast
  <2>3. EventsIn(h, t, minTime, event, lnk, name) \in Nat
    BY <1>2, EventsAtLeast
  <2> QED
    BY <2>1, <2>2, <2>3
<1>4. CASE LeftToLater(h, t, minTime)
  <2> SUFFICES ASSUME x[t] # 1 PROVE FALSE
    OBVIOUS
  <2>1. x[t] = 0
    BY DEF Keeping
  <2> DEFINE Unspared == {j \in Tmps(h) : j >= t /\ ~LeftToLater(h, j, minTime)}
  <2>2. PICK j \in Unspared : \A k \in Unspared : j <= k
    <3>1. Len(h.hrs) \in Unspared
      <4>1. Len(h.hrs) \in Tmps(h) /\ Len(h.hrs) >= t
        BY TmpsAre
      <4> QED
        BY <4>1 DEF LeftToLater
    <3>2. Unspared \in SUBSET Nat
      BY <1>1
    <3> HIDE DEF Unspared
    <3> QED
      BY <3>1, <3>2, LeastNatural
  <2>3. j \in Tmps(h) /\ j \in Nat /\ ~LeftToLater(h, j, minTime) /\ j > t
    BY <1>1, <1>4, <2>2
  <2>4. j - 1 \in Tmps(h) /\ j - 1 >= t
    BY <1>1, <2>3
  <2>5. LeftToLater(h, j - 1, minTime)
    BY <2>2, <2>3, <2>4
  <2>6. \A k \in 1..j : Held(k, j, h.hrs, minTime)
    <3> SUFFICES ASSUME NEW k \in 1..j, k # j
                 PROVE  k < j /\ Sum(h.hrs, k..(j - 1)) < minTime
      BY DEF Held
    <3>1. Sum(h.hrs, 1..(j - 1)) < minTime
      BY <2>4, <2>5, OnlyLeftEarly
    <3>2. k \in 1..(j - 1)
      BY <2>3
    <3> QED
      BY <2>3, <2>4, <3>1, <3>2, FewerHours
  <2>7. x[j] >= EventsIn(h, j, minTime, event, lnk, name) /\ x[j] \in 0..1
    BY <2>3 DEF Keeping
  <2>8. EventsIn(h, j, minTime, event, lnk, name) \in Nat
    BY <1>2, <2>3, EventsAtLeast
  <2>9. \A k \in 1..j : /\ j - k \in {0} \cup Steps(h, j, minTime)
                        /\ Back(h, j, j - k) = k
    BY <2>3, <2>6, InWindow
  <2>10. x[j] = 1
    <3>1. i \in 1..j
      BY <1>1, <2>3
    <3>2. j - i \in {0} \cup Steps(h, j, minTime) /\ Back(h, j, j - i) = i
      BY <2>9, <3>1
    <3>3. EventsIn(h, j, minTime, event, lnk, name) >= event[Back(h, j, j - i)]
      BY <1>2, <2>3, <3>2, EventsAtLeast
    <3> QED
      BY <2>7, <2>8, <3>2, <3>3
  <2> DEFINE On == {k \in (t + 1)..j : x[k] = 1}
  <2>11. PICK m \in On : \A k \in On : m <= k
    <3>1. j \in On
      BY <1>1, <2>3, <2>10
    <3>2. On \in SUBSET Nat
      BY <1>1
    <3> HIDE DEF On
    <3> QED
      BY <3>1, <3>2, LeastNatural
  <2>12. m \in (t + 1)..j /\ x[m] = 1 /\ m \in Tmps(h) /\ m - 1 \in Tmps(h) /\ m > 1
    BY <1>1, <2>3, <2>11
  <2>13. x[m - 1] = 0
    <3>1. m - 1 = t \/ m - 1 \in (t + 1)..j
      BY <1>1, <2>3, <2>12
    <3>2. m - 1 \notin On
      BY <1>1, <2>3, <2>11, <2>12
    <3>3. x[m - 1] \in 0..1
      BY <2>12 DEF Keeping
    <3> QED
      BY <2>1, <3>1, <3>2, <3>3
  <2>14. event[m] = 1
    BY <2>12, <2>13 DEF Keeping
  <2>15. EventsIn(h, j, minTime, event, lnk, name)
           >= event[Back(h, j, j - i)] + event[Back(h, j, j - m)]
    <3>1. i \in 1..j /\ m \in 1..j /\ j - i # j - m
      BY <1>1, <2>3, <2>12
    <3>2. /\ j - i \in {0} \cup Steps(h, j, minTime)
          /\ j - m \in {0} \cup Steps(h, j, minTime)
      BY <3>1, <2>9
    <3> QED
      BY <1>2, <2>3, <3>1, <3>2, EventsAtLeast
  <2>16. Back(h, j, j - i) = i /\ Back(h, j, j - m) = m
    BY <1>1, <2>3, <2>9, <2>12
  <2> QED
    BY <2>7, <2>8, <2>14, <2>15, <2>16
<1> QED
  BY <1>3, <1>4

(* The same for an event of the subproblem before.                         *)
LEMMA LinkedEventsHold ==
  ASSUME NEW h, Hours(h), h.boundary = "linked", NEW minTime \in Nat,
         NEW lnk, NEW name, NEW x, NEW event,
         LinkedEvents(lnk, name), Keeping(h, lnk, x, event, minTime, name),
         NEW t \in Tmps(h), NEW l \in DOMAIN lnk, lnk[l][name] = 1,
         HoursToLinked(h, lnk, t, l) < minTime
  PROVE  x[t] = 1
<1>1. l \in RelevantLinked(h, lnk, t, minTime)
  BY DEF RelevantLinked
<1>2. \A j \in Tmps(h) : event[j] \in Nat
  BY DEF Keeping
<1>3. ~LeftToLater(h, t, minTime)
  BY DEF LeftToLater
<1>4. x[t] >= EventsIn(h, t, minTime, event, lnk, name) /\ x[t] \in 0..1
  BY <1>3 DEF Keeping
<1>5. /\ EventsIn(h, t, minTime, event, lnk, name) \in Nat
      /\ EventsIn(h, t, minTime, event, lnk, name) >= lnk[l][name]
  BY <1>1, <1>2, EventsAtLeast
<1> QED
  BY <1>4, <1>5

(* A feasible solution keeps the status on after a start, and the status   *)
(* off after a shutdown.                                                   *)
Off(h, s) == [t \in Tmps(h) |-> 1 - s.commit[t]]

LEMMA FeasibleIs ==
  ASSUME NEW u \in Units, NEW h, Hours(h), NEW lnk, NEW s \in Feasible(u, h, lnk)
  PROVE  \A t \in Tmps(h) :
           /\ s.commit[t] \in 0..1 /\ s.startup[t] \in 0..1 /\ s.shutdown[t] \in 0..1
           /\ binary_logic(h, lnk, s, t)
           /\ min_up_time(u, h, lnk, s, t)
           /\ min_down_time(u, h, lnk, s, t)
<1>1. s \in Solutions(h)
  BY DEF Feasible
<1>2. \A t \in Tmps(h) : s.commit[t] \in 0..1 /\ s.startup[t] \in 0..1
                         /\ s.shutdown[t] \in 0..1
  BY <1>1 DEF Solutions, Flags
<1>3. \A t \in Tmps(h) : /\ binary_logic(h, lnk, s, t)
                         /\ min_up_time(u, h, lnk, s, t)
                         /\ min_down_time(u, h, lnk, s, t)
  BY DEF Feasible
<1> QED
  BY <1>2, <1>3

LEMMA PrevIs ==
  ASSUME NEW h, Hours(h), NEW lnk, NEW s, NEW t \in Tmps(h)
  PROVE  /\ t > 1 => PrevCommit(h, lnk, s, t) = s.commit[t - 1]
         /\ t = 1 /\ h.boundary = "linked" => PrevCommit(h, lnk, s, t) = lnk[1].commit
         /\ t = 1 /\ h.boundary # "linear" /\ h.boundary # "linked"
              => PrevCommit(h, lnk, s, t) = s.commit[Back(h, t, 1)]
  BY BackIs DEF PrevCommit, FirstOf

LEMMA FeasibleKeeps ==
  ASSUME NEW u \in Units, NEW h, Hours(h), NEW lnk, NEW s \in Feasible(u, h, lnk)
  PROVE  /\ Keeping(h, lnk, s.commit, s.startup, u.minUp, "startup")
         /\ Keeping(h, lnk, Off(h, s), s.shutdown, u.minDown, "shutdown")
<1>1. ASSUME NEW t \in Tmps(h)
      PROVE  /\ s.commit[t] \in 0..1 /\ s.startup[t] \in 0..1 /\ s.shutdown[t] \in 0..1
             /\ binary_logic(h, lnk, s, t)
             /\ min_up_time(u, h, lnk, s, t)
             /\ min_down_time(u, h, lnk, s, t)
  BY FeasibleIs
<1>2. ASSUME NEW t \in Tmps(h), t > 1
      PROVE  /\ t - 1 \in Tmps(h)
             /\ s.commit[t] - s.commit[t - 1] = s.startup[t] - s.shutdown[t]
  <2>1. t - 1 \in Tmps(h)
    BY <1>2, TmpsAre
  <2>2. PrevCommit(h, lnk, s, t) = s.commit[t - 1]
    BY <1>2, PrevIs
  <2>3. ~FirstOf(h, t, "linear")
    BY <1>2 DEF FirstOf
  <2> QED
    BY <2>1, <2>2, <2>3, <1>1 DEF binary_logic
<1>3. Keeping(h, lnk, s.commit, s.startup, u.minUp, "startup")
  <2> SUFFICES ASSUME NEW t \in Tmps(h)
               PROVE  /\ s.commit[t] \in 0..1 /\ s.startup[t] \in 0..1
                      /\ \/ LeftToLater(h, t, u.minUp)
                         \/ s.commit[t] >= EventsIn(h, t, u.minUp, s.startup, lnk, "startup")
                      /\ t > 1 /\ s.commit[t] = 1 /\ s.commit[t - 1] = 0
                           => s.startup[t] = 1
    BY DEF Keeping
  <2>1. \/ LeftToLater(h, t, u.minUp)
        \/ s.commit[t] >= EventsIn(h, t, u.minUp, s.startup, lnk, "startup")
    BY <1>1 DEF min_up_time
  <2>2. t > 1 /\ s.commit[t] = 1 /\ s.commit[t - 1] = 0 => s.startup[t] = 1
    BY <1>1, <1>2
  <2> QED
    BY <2>1, <2>2, <1>1
<1>4. Keeping(h, lnk, Off(h, s), s.shutdown, u.minDown, "shutdown")
  <2> SUFFICES ASSUME NEW t \in Tmps(h)
               PROVE  /\ Off(h, s)[t] \in 0..1 /\ s.shutdown[t] \in 0..1
                      /\ \/ LeftToLater(h, t, u.minDown)
                         \/ Off(h, s)[t] >= EventsIn(h, t, u.minDown, s.shutdown, lnk, "shutdown")
                      /\ t > 1 /\ Off(h, s)[t] = 1 /\ Off(h, s)[t - 1] = 0
                           => s.shutdown[t] = 1
    BY DEF Keeping
  <2>1. Off(h, s)[t] = 1 - s.commit[t] /\ Off(h, s)[t] \in 0..1
    BY <1>1 DEF Off
  <2>2. \/ LeftToLater(h, t, u.minDown)
        \/ Off(h, s)[t] >= EventsIn(h, t, u.minDown, s.shutdown, lnk, "shutdown")
    BY <1>1, <2>1 DEF min_down_time
  <2>3. t > 1 /\ Off(h, s)[t] = 1 /\ Off(h, s)[t - 1] = 0 => s.shutdown[t] = 1
    <3> SUFFICES ASSUME t > 1, Off(h, s)[t] = 1, Off(h, s)[t - 1] = 0
                 PROVE  s.shutdown[t] = 1
      OBVIOUS
    <3>1. t - 1 \in Tmps(h)
      BY <1>2
    <3>2. Off(h, s)[t - 1] = 1 - s.commit[t - 1] /\ s.commit[t - 1] \in 0..1
      BY <1>1, <3>1 DEF Off
    <3> QED
      BY <1>1, <1>2, <2>1, <3>2
  <2> QED
    BY <1>1, <2>1, <2>2, <2>3
<1> QED
  BY <1>3, <1>4

(* What a solution of one subproblem keeps to.                             *)
LEMMA SolutionKeepsTimes ==
  ASSUME NEW u \in Units, NEW h, Hours(h), NEW lnk, NEW s \in Feasible(u, h, lnk),
         LinkedEvents(lnk, "startup"), LinkedEvents(lnk, "shutdown"),
         NEW t \in Tmps(h)
  PROVE  /\ \A i \in 1..t : s.startup[i] = 1 /\ Held(i, t, h.hrs, u.minUp)
              => s.commit[t] = 1
         /\ \A i \in 1..t : s.shutdown[i] = 1 /\ Held(i, t, h.hrs, u.minDown)
              => s.commit[t] = 0
         /\ h.boundary = "linked" => \A l \in DOMAIN lnk :
              /\ lnk[l].startup = 1 /\ HoursToLinked(h, lnk, t, l) < u.minUp
                   => s.commit[t] = 1
              /\ lnk[l].shutdown = 1 /\ HoursToLinked(h, lnk, t, l) < u.minDown
                   => s.commit[t] = 0
<1>1. /\ Keeping(h, lnk, s.commit, s.startup, u.minUp, "startup")
      /\ Keeping(h, lnk, Off(h, s), s.shutdown, u.minDown, "shutdown")
  BY FeasibleKeeps
<1>2. u.minUp \in Nat /\ u.minDown \in Nat
  BY UnitsAssumption
<1>3. s.commit[t] \in 0..1 /\ (Off(h, s)[t] = 1 => s.commit[t] = 0)
  BY FeasibleIs DEF Off
<1>4. ASSUME NEW i \in 1..t, s.startup[i] = 1, Held(i, t, h.hrs, u.minUp)
      PROVE  s.commit[t] = 1
  BY <1>1, <1>2, <1>4, EventsHold
<1>5. ASSUME NEW i \in 1..t, s.shutdown[i] = 1, Held(i, t, h.hrs, u.minDown)
      PROVE  s.commit[t] = 0
  BY <1>1, <1>2, <1>3, <1>5, EventsHold
<1>6. ASSUME h.boundary = "linked", NEW l \in DOMAIN lnk, lnk[l].startup = 1,
             HoursToLinked(h, lnk, t, l) < u.minUp
      PROVE  s.commit[t] = 1
  BY <1>1, <1>2, <1>6, LinkedEventsHold
<1>7. ASSUME h.boundary = "linked", NEW l \in DOMAIN lnk, lnk[l].shutdown = 1,
             HoursToLinked(h, lnk, t, l) < u.minDown
      PROVE  s.commit[t] = 0
  BY <1>1, <1>2, <1>3, <1>7, LinkedEventsHold
<1> QED
  BY <1>4, <1>5, <1>6, <1>7

(* The flags of a solution are its changes.                                *)
LEMMA SolutionFlags ==
  ASSUME NEW u \in Units, NEW h, Hours(h), NEW lnk, NEW s \in Feasible(u, h, lnk),
         LinkedEvents(lnk, "startup"), LinkedEvents(lnk, "shutdown"),
         NEW t \in Tmps(h), ~FirstOf(h, t, "linear"),
         PrevCommit(h, lnk, s, t) \in 0..1
  PROVE  /\ s.startup[t] = 1 <=> s.commit[t] > PrevCommit(h, lnk, s, t)
         /\ s.shutdown[t] = 1 <=> s.commit[t] < PrevCommit(h, lnk, s, t)
<1>1. t \in 1..t
  BY TmpsAre
<1>2. Held(t, t, h.hrs, u.minUp) /\ Held(t, t, h.hrs, u.minDown)
  BY DEF Held
<1>3. /\ s.startup[t] = 1 => s.commit[t] = 1
      /\ s.shutdown[t] = 1 => s.commit[t] = 0
  BY <1>1, <1>2, SolutionKeepsTimes
<1>4. s.commit[t] - PrevCommit(h, lnk, s, t) = s.startup[t] - s.shutdown[t]
  BY FeasibleIs DEF binary_logic
<1>5. s.commit[t] \in 0..1 /\ s.startup[t] \in 0..1 /\ s.shutdown[t] \in 0..1
  BY FeasibleIs
<1> QED
  BY <1>3, <1>4, <1>5

------------------------------------------------------------------------------
(* The timeline of all subproblems.                                        *)
Instants == [hrs : Nat, commit : 0..1, startup : 0..1, shutdown : 0..1, type : Nat]

TimelineInv ==
  /\ timeline \in Seq(Instants)
  /\ ends \subseteq 1..Len(timeline)
  /\ timeline # <<>> => Len(timeline) \in ends

(* The linked timepoints are the last of the timeline, and every one of    *)
(* them that is near enough and of the last subproblem.                    *)
LinkedInv ==
  /\ linked \in Seq(Instants)
  /\ linked = <<>> <=> timeline = <<>>
  /\ Len(linked) <= Len(timeline)
  /\ \A l \in DOMAIN linked : linked[l] = timeline[Len(timeline) + 1 - l]
  /\ \A i \in DOMAIN timeline :
       SolvedTogether(i, Len(timeline)) /\ Len(timeline) - i < LinkedTmps
         => Len(timeline) + 1 - i \in DOMAIN linked

HorizonInv ==
  phase = "loaded" => /\ Hours(horizon)
                      /\ horizon.boundary = "linked" <=> linked # <<>>

IInv ==
  unit \in Units /\ TimelineInv /\ LinkedInv /\ HorizonInv /\ StateCarriedOver

LEMMA InitInv == Init => IInv
<1> SUFFICES ASSUME Init PROVE IInv
  OBVIOUS
<1>1. /\ unit \in Units /\ phase = "solved"
      /\ timeline = <<>> /\ linked = <<>> /\ ends = {}
  BY DEF Init
<1>2. /\ <<>> \in Seq(Instants) /\ Len(<<>>) = 0 /\ DOMAIN <<>> = {}
      /\ 2..0 = {}
  OBVIOUS
<1>3. StateCarriedOver
  BY <1>1, <1>2 DEF StateCarriedOver, FlagsAreChanges, TimesKeptAcrossSubproblems
<1>4. TimelineInv /\ LinkedInv /\ HorizonInv
  BY <1>1, <1>2 DEF TimelineInv, LinkedInv, HorizonInv
<1> QED
  BY <1>1, <1>3, <1>4 DEF IInv

LEMMA SameTimelineInv ==
  ASSUME IInv, UNCHANGED <<unit, linked, timeline, ends>>, HorizonInv'
  PROVE  IInv'
<1>1. TimelineInv' /\ unit' \in Units
  BY DEF IInv, TimelineInv
<1>2. LinkedInv'
  BY DEF IInv, LinkedInv, SolvedTogether
<1>3. StateCarriedOver'
  BY DEF IInv, StateCarriedOver, FlagsAreChanges, TimesKeptAcrossSubproblems,
         Known, Apart, SolvedTogether
<1> QED
  BY <1>1, <1>2, <1>3 DEF IInv

LEMMA LoadDataInv ==
  ASSUME IInv, LoadData
  PROVE  IInv'
<1>1. PICK hrs \in HorizonHours,
           boundary \in IF linked = <<>> THEN {"linear", "circular"} ELSE {"linked"} :
        horizon' = [boundary |-> boundary, hrs |-> hrs]
  BY DEF LoadData
<1>2. hrs \in Seq(Nat) /\ hrs # <<>>
  <2>1. hrs \in Seq(Nat \ {0}) /\ hrs # <<>>
    BY HorizonAssumption
  <2>2. Len(hrs) \in Nat /\ hrs \in [1..Len(hrs) -> Nat]
    BY <2>1
  <2> QED
    BY <2>1, <2>2
<1>3. linked' = linked /\ UNCHANGED <<unit, linked, timeline, ends>>
  BY DEF LoadData
<1>4. HorizonInv'
  BY <1>1, <1>2, <1>3 DEF HorizonInv, Hours
<1> QED
  BY <1>3, <1>4, SameTimelineInv

(* The events that were handed over.                                       *)
LEMMA LinkedAre ==
  ASSUME IInv
  PROVE  /\ LinkedEvents(linked, "startup") /\ LinkedEvents(linked, "shutdown")
         /\ \A l \in DOMAIN linked : linked[l] \in Instants
<1>1. Len(linked) \in Nat /\ DOMAIN linked = 1..Len(linked)
      /\ \A l \in 1..Len(linked) : linked[l] \in Instants
  BY DEF IInv, LinkedInv
<1>2. \A l \in DOMAIN linked : linked[l].startup \in Nat /\ linked[l].shutdown \in Nat
  BY <1>1 DEF Instants
<1>3. IsFiniteSet(DOMAIN linked)
  BY <1>1, FS_Interval
<1> QED
  BY <1>1, <1>2, <1>3 DEF LinkedEvents

LEMMA TypeIs ==
  ASSUME NEW u \in Units, u.cutoffs # <<>>, NEW h, NEW lnk, NEW s, NEW t
  PROVE  StartupType(u, h, lnk, s, t) \in active_startup_type(u, h, lnk, s, t)
         /\ StartupType(u, h, lnk, s, t) \in DOMAIN u.cutoffs
         /\ \A r \in active_startup_type(u, h, lnk, s, t) :
              StartupType(u, h, lnk, s, t) <= r
<1> DEFINE A == active_startup_type(u, h, lnk, s, t)
<1>1. Len(u.cutoffs) \in Nat \ {0} /\ DOMAIN u.cutoffs = 1..Len(u.cutoffs)
  BY UnitsAssumption
<1>2. Len(u.cutoffs) \in A /\ A \subseteq DOMAIN u.cutoffs
  BY <1>1 DEF active_startup_type
<1>3. A \in SUBSET Nat /\ A # {}
  BY <1>1, <1>2
<1> HIDE DEF A
<1>4. \E n \in A : \A m \in A : n <= m
  BY <1>3, LeastNatural
<1>5. Min(A) \in A /\ \A m \in A : Min(A) <= m
  BY <1>4 DEF Min
<1> QED
  BY <1>2, <1>5 DEF StartupType, A

(* The timepoints of a solved subproblem.                                  *)
LEMMA SolvedIs ==
  ASSUME unit \in Units, NEW h, Hours(h), NEW lnk, NEW s \in Feasible(unit, h, lnk)
  PROVE  /\ Solved(h, lnk, s) \in Seq(Instants)
         /\ Len(Solved(h, lnk, s)) = Len(h.hrs)
         /\ \A t \in Tmps(h) :
              /\ Solved(h, lnk, s)[t].hrs = h.hrs[t]
              /\ Solved(h, lnk, s)[t].commit = s.commit[t]
              /\ Solved(h, lnk, s)[t].startup = s.startup[t]
              /\ Solved(h, lnk, s)[t].shutdown = s.shutdown[t]
<1>1. Len(h.hrs) \in Nat /\ Tmps(h) = 1..Len(h.hrs)
  BY TmpsAre
<1>2. ASSUME NEW t \in Tmps(h)
      PROVE  /\ Solved(h, lnk, s)[t] \in Instants
             /\ Solved(h, lnk, s)[t].hrs = h.hrs[t]
             /\ Solved(h, lnk, s)[t].commit = s.commit[t]
             /\ Solved(h, lnk, s)[t].startup = s.startup[t]
             /\ Solved(h, lnk, s)[t].shutdown = s.shutdown[t]
  <2> DEFINE type == IF s.startup[t] = 0 \/ unit.cutoffs = <<>> THEN 0
                     ELSE StartupType(unit, h, lnk, s, t)
  <2>1. type \in Nat
    <3>1. Len(unit.cutoffs) \in Nat /\ DOMAIN unit.cutoffs = 1..Len(unit.cutoffs)
      BY UnitsAssumption
    <3>2. unit.cutoffs # <<>> => StartupType(unit, h, lnk, s, t) \in Nat
      BY <3>1, TypeIs
    <3> QED
      BY <3>2
  <2>2. Solved(h, lnk, s)[t] =
          [hrs |-> h.hrs[t], commit |-> s.commit[t], startup |-> s.startup[t],
           shutdown |-> s.shutdown[t], type |-> type]
    BY DEF Solved
  <2>3. /\ h.hrs[t] \in Nat /\ s.commit[t] \in 0..1 /\ s.startup[t] \in 0..1
        /\ s.shutdown[t] \in 0..1
    BY TmpsAre, FeasibleIs
  <2> HIDE DEF type
  <2> QED
    BY <2>1, <2>2, <2>3 DEF Instants
<1>3. Solved(h, lnk, s) \in [1..Len(h.hrs) -> Instants]
  <2>1. DOMAIN Solved(h, lnk, s) = Tmps(h)
        /\ Solved(h, lnk, s) = [t \in Tmps(h) |-> Solved(h, lnk, s)[t]]
    BY DEF Solved
  <2> QED
    BY <1>1, <1>2, <2>1
<1> QED
  BY <1>1, <1>2, <1>3

(* Hours along a timeline.                                                 *)
HrsOf(T) == [k \in DOMAIN T |-> T[k].hrs]
ApartIn(T, i, j) == SumFunction([k \in i..(j - 1) |-> T[k].hrs])

LEMMA HrsOfIs ==
  ASSUME NEW T \in Seq(Instants)
  PROVE  \A k \in 1..Len(T) : HrsOf(T)[k] = T[k].hrs /\ HrsOf(T)[k] \in Nat
<1> SUFFICES ASSUME NEW k \in 1..Len(T)
             PROVE  HrsOf(T)[k] = T[k].hrs /\ HrsOf(T)[k] \in Nat
  OBVIOUS
<1>1. T[k] \in Instants /\ k \in DOMAIN T
  OBVIOUS
<1> QED
  BY <1>1 DEF HrsOf, Instants

LEMMA ApartIsSum ==
  ASSUME NEW T \in Seq(Instants), NEW i \in 1..Len(T), NEW j \in i..Len(T)
  PROVE  /\ ApartIn(T, i, j) = Sum(HrsOf(T), i..(j - 1))
         /\ Natural(HrsOf(T), i..(j - 1))
<1> DEFINE e == [k \in i..(j - 1) |-> T[k].hrs]
<1>1. i \in Nat /\ j \in Nat /\ i..(j - 1) \subseteq 1..Len(T)
  OBVIOUS
<1>2. IsFiniteSet(i..(j - 1))
  BY <1>1, FS_Interval
<1>3. Natural(HrsOf(T), i..(j - 1))
  BY <1>1, <1>2, HrsOfIs DEF Natural
<1>4. Agree(e, HrsOf(T), i..(j - 1))
  BY <1>1, HrsOfIs DEF Agree
<1>5. DOMAIN e = i..(j - 1) /\ ApartIn(T, i, j) = SumFunction(e)
  BY DEF ApartIn
<1> HIDE DEF e
<1>6. SumFunctionOnSet(e, i..(j - 1)) = SumFunctionOnSet(HrsOf(T), i..(j - 1))
  BY <1>2, <1>4, SumsAgree
<1> QED
  BY <1>3, <1>5, <1>6 DEF SumFunction, Sum

LEMMA AppendIs ==
  ASSUME NEW T \in Seq(Instants), NEW new \in Seq(Instants)
  PROVE  /\ T \o new \in Seq(Instants) /\ Len(T) \in Nat /\ Len(new) \in Nat
         /\ Len(T \o new) = Len(T) + Len(new)
         /\ \A k \in 1..Len(T) : (T \o new)[k] = T[k]
         /\ \A k \in 1..Len(new) : (T \o new)[Len(T) + k] = new[k]
  OBVIOUS

(* Hours do not change when a subproblem is added...                       *)
LEMMA ApartOfOld ==
  ASSUME NEW T \in Seq(Instants), NEW new \in Seq(Instants),
         NEW i \in 1..Len(T), NEW j \in i..Len(T)
  PROVE  ApartIn(T \o new, i, j) = ApartIn(T, i, j)
<1>1. /\ T \o new \in Seq(Instants) /\ Len(T \o new) = Len(T) + Len(new)
      /\ \A k \in 1..Len(T) : (T \o new)[k] = T[k]
  OBVIOUS
<1>2. /\ i \in 1..Len(T \o new) /\ j \in i..Len(T \o new)
      /\ i..(j - 1) \subseteq 1..Len(T) /\ i..(j - 1) \subseteq 1..Len(T \o new)
  BY <1>1
<1>3. Agree(HrsOf(T \o new), HrsOf(T), i..(j - 1))
  <2> SUFFICES ASSUME NEW k \in i..(j - 1) PROVE HrsOf(T \o new)[k] = HrsOf(T)[k]
    BY DEF Agree
  <2> QED
    BY <1>1, <1>2, HrsOfIs
<1>4. Natural(HrsOf(T), i..(j - 1))
  BY ApartIsSum
<1>5. Sum(HrsOf(T \o new), i..(j - 1)) = Sum(HrsOf(T), i..(j - 1))
  BY <1>3, <1>4, SumsAgree DEF Natural, Sum
<1>6. ApartIn(T, i, j) = Sum(HrsOf(T), i..(j - 1))
  BY ApartIsSum
<1>7. ApartIn(T \o new, i, j) = Sum(HrsOf(T \o new), i..(j - 1))
  <2> DEFINE U == T \o new
  <2>1. U \in Seq(Instants) /\ i \in 1..Len(U) /\ j \in i..Len(U)
    BY <1>1, <1>2
  <2> HIDE DEF U
  <2>2. ApartIn(U, i, j) = Sum(HrsOf(U), i..(j - 1))
    BY <2>1, ApartIsSum
  <2> QED
    BY <2>2 DEF U
<1> QED
  BY <1>5, <1>6, <1>7

(* ... they are those of its horizon in it ...                             *)
OverHorizon(new, h) ==
  Len(new) = Len(h.hrs) /\ \A t \in Tmps(h) : new[t].hrs = h.hrs[t]

LEMMA ApartOfNew ==
  ASSUME NEW T \in Seq(Instants), NEW new \in Seq(Instants), NEW h, Hours(h),
         OverHorizon(new, h),
         NEW a \in Tmps(h), NEW b \in a..Len(h.hrs)
  PROVE  ApartIn(T \o new, Len(T) + a, Len(T) + b) = Sum(h.hrs, a..(b - 1))
<1> DEFINE N == Len(T)
           U == T \o new
           shift == [k \in a..(b - 1) |-> N + k]
<1>0. Len(new) = Len(h.hrs) /\ \A t \in Tmps(h) : new[t].hrs = h.hrs[t]
  BY DEF OverHorizon
<1>1. /\ U \in Seq(Instants) /\ Len(U) = N + Len(h.hrs) /\ N \in Nat
      /\ \A k \in 1..Len(new) : U[N + k] = new[k]
  BY <1>0
<1>2. /\ Len(h.hrs) \in Nat /\ Tmps(h) = 1..Len(h.hrs)
      /\ a \in Nat \ {0} /\ b \in Nat /\ a..(b - 1) \subseteq Tmps(h)
  BY TmpsAre
<1>3. N + a \in 1..Len(U) /\ N + b \in (N + a)..Len(U)
  BY <1>1, <1>2
<1>4. /\ ApartIn(U, N + a, N + b) = Sum(HrsOf(U), (N + a)..((N + b) - 1))
      /\ Natural(HrsOf(U), (N + a)..((N + b) - 1))
  <2> HIDE DEF U, N
  <2> QED
    BY <1>1, <1>3, ApartIsSum
<1>5. IsFiniteSet(a..(b - 1))
  BY <1>2, FS_Interval
<1>6. Natural(h.hrs, a..(b - 1))
  BY <1>2, <1>5, TmpsAre DEF Natural
<1>7. Relabels(shift, a..(b - 1), (N + a)..((N + b) - 1))
  <2>1. \A j \in (N + a)..((N + b) - 1) : j - N \in a..(b - 1) /\ shift[j - N] = j
    BY <1>1, <1>2
  <2>2. \A k \in a..(b - 1) : shift[k] \in (N + a)..((N + b) - 1)
    BY <1>1, <1>2
  <2>3. \A k, m \in a..(b - 1) : shift[k] = shift[m] => k = m
    BY <1>1, <1>2
  <2> HIDE DEF shift, N
  <2>4. {shift[k] : k \in a..(b - 1)} = (N + a)..((N + b) - 1)
    BY <2>1, <2>2
  <2> QED
    BY <2>3, <2>4 DEF Relabels
<1>8. SameUnder(shift, h.hrs, HrsOf(U), a..(b - 1))
  <2> SUFFICES ASSUME NEW k \in a..(b - 1) PROVE h.hrs[k] = HrsOf(U)[shift[k]]
    BY DEF SameUnder
  <2>1. k \in Tmps(h) /\ k \in 1..Len(new) /\ shift[k] = N + k /\ N + k \in 1..Len(U)
    BY <1>0, <1>1, <1>2
  <2>2. U[N + k].hrs = h.hrs[k]
    BY <1>0, <1>1, <2>1
  <2>3. HrsOf(U)[N + k] = U[N + k].hrs
    <3> HIDE DEF U, N
    <3> QED
      BY <1>1, <2>1, HrsOfIs
  <2> QED
    BY <2>1, <2>2, <2>3
<1>9. Sum(h.hrs, a..(b - 1)) = Sum(HrsOf(U), (N + a)..((N + b) - 1))
  <2> HIDE DEF U, N, shift
  <2> QED
    BY <1>4, <1>6, <1>7, <1>8, SumReindexed
<1> QED
  BY <1>4, <1>9

(* ... and from a linked timepoint on what the window takes them to be.    *)
(* The hours to a linked timepoint are those since it on the timeline.      *)
LEMMA LinkedHoursAre ==
  ASSUME NEW T \in Seq(Instants), NEW N \in 0..Len(T), NEW lnk, NEW l \in 1..N,
         \A k \in 1..l : lnk[k] = T[N + 1 - k]
  PROVE  /\ Natural(HrsOf(T), (N + 1 - l)..N)
         /\ LinkedHours(lnk, l) = Sum(HrsOf(T), (N + 1 - l)..N)
<1> DEFINE i == N + 1 - l
           rel == [k \in 1..l |-> N + 1 - k]
           e == [k \in 1..l |-> lnk[k].hrs]
<1>1. /\ N \in Nat /\ l \in Nat /\ i \in 1..N /\ i..N \subseteq 1..Len(T)
      /\ \A k \in 1..l : rel[k] = N + 1 - k /\ rel[k] \in i..N
  OBVIOUS
<1>2. /\ Natural(HrsOf(T), i..N)
      /\ \A k \in i..N : HrsOf(T)[k] = T[k].hrs
  <2> HIDE DEF i
  <2>1. IsFiniteSet(i..N)
    BY <1>1, FS_Interval
  <2> QED
    BY <1>1, <2>1, HrsOfIs DEF Natural
<1>3. Relabels(rel, 1..l, i..N)
  <2>1. \A j \in i..N : N + 1 - j \in 1..l /\ rel[N + 1 - j] = j
    BY <1>1
  <2>2. \A k, m \in 1..l : rel[k] = rel[m] => k = m
    BY <1>1
  <2> HIDE DEF rel, i
  <2>3. {rel[k] : k \in 1..l} = i..N
    BY <1>1, <2>1
  <2> QED
    BY <2>2, <2>3 DEF Relabels
<1>4. SameUnder(rel, e, HrsOf(T), 1..l)
  <2> SUFFICES ASSUME NEW k \in 1..l PROVE e[k] = HrsOf(T)[rel[k]]
    BY DEF SameUnder
  <2>1. e[k] = lnk[k].hrs /\ lnk[k] = T[N + 1 - k]
    OBVIOUS
  <2>2. rel[k] = N + 1 - k /\ rel[k] \in i..N
    BY <1>1
  <2> HIDE DEF e, rel, i
  <2> QED
    BY <1>2, <2>1, <2>2
<1>5. Natural(e, 1..l) /\ DOMAIN e = 1..l
  <2>1. IsFiniteSet(1..l)
    BY <1>1, FS_Interval
  <2>2. \A k \in 1..l : HrsOf(T)[rel[k]] \in Nat
    <3> HIDE DEF rel, i
    <3> QED
      BY <1>1, <1>2 DEF Natural
  <2>3. \A k \in 1..l : e[k] \in Nat
    <3> HIDE DEF e, rel
    <3> QED
      BY <1>4, <2>2 DEF SameUnder
  <2> QED
    BY <2>1, <2>3 DEF Natural
<1>6. Sum(e, 1..l) = Sum(HrsOf(T), i..N)
  <2> HIDE DEF i, rel, e
  <2> QED
    BY <1>2, <1>3, <1>4, <1>5, SumReindexed
<1>7. LinkedHours(lnk, l) = Sum(e, 1..l)
  <2>1. LinkedHours(lnk, l) = SumFunction(e)
    BY DEF LinkedHours
  <2> HIDE DEF e
  <2> QED
    BY <1>5, <2>1 DEF SumFunction, Sum
<1> QED
  BY <1>2, <1>6, <1>7

LatestFirst(lnk, T) == \A m \in DOMAIN lnk : lnk[m] = T[Len(T) + 1 - m]

LEMMA ApartAcross ==
  ASSUME NEW T \in Seq(Instants), NEW new \in Seq(Instants), NEW h, Hours(h),
         OverHorizon(new, h),
         NEW lnk \in Seq(Instants), Len(lnk) <= Len(T), LatestFirst(lnk, T),
         NEW l \in DOMAIN lnk, NEW b \in Tmps(h)
  PROVE  ApartIn(T \o new, Len(T) + 1 - l, Len(T) + b) = HoursToLinked(h, lnk, b, l)
<1>1. \A m \in DOMAIN lnk : lnk[m] = T[Len(T) + 1 - m]
  BY DEF LatestFirst
<1> DEFINE N == Len(T)
           U == T \o new
           i == N + 1 - l
<1>2. /\ U \in Seq(Instants) /\ Len(U) = N + Len(h.hrs) /\ N \in Nat
      /\ \A k \in 1..N : U[k] = T[k]
  <2>1. Len(new) = Len(h.hrs)
    BY DEF OverHorizon
  <2>2. /\ U \in Seq(Instants) /\ Len(U) = N + Len(new) /\ N \in Nat
        /\ \A k \in 1..N : U[k] = T[k]
    BY AppendIs, Zenon
  <2> HIDE DEF U, N
  <2> QED
    BY <2>1, <2>2
<1>3. /\ Len(h.hrs) \in Nat /\ Tmps(h) = 1..Len(h.hrs) /\ b \in Nat \ {0}
      /\ 1 \in Tmps(h) /\ b \in 1..Len(h.hrs)
  BY TmpsAre
<1>4. l \in Nat \ {0} /\ l <= N /\ 1..l \subseteq DOMAIN lnk
  OBVIOUS
<1>5. /\ i \in 1..N /\ i \in 1..Len(U) /\ N + b \in i..Len(U)
      /\ N + 1 \in 1..Len(U) /\ N + b \in (N + 1)..Len(U)
  BY <1>2, <1>3, <1>4
<1>6. /\ ApartIn(U, i, N + b) = Sum(HrsOf(U), i..((N + b) - 1))
      /\ Natural(HrsOf(U), i..((N + b) - 1))
      /\ ApartIn(U, N + 1, N + b) = Sum(HrsOf(U), (N + 1)..((N + b) - 1))
  <2> HIDE DEF U, N, i
  <2> QED
    BY <1>2, <1>5, ApartIsSum
<1>7. ApartIn(U, N + 1, N + b) = HoursBack(h, b, b - 1)
  <2>1. ApartIn(U, N + 1, N + b) = Sum(h.hrs, 1..(b - 1))
    <3>1. ApartIn(T \o new, Len(T) + 1, Len(T) + b) = Sum(h.hrs, 1..(b - 1))
      <4>1. \A a \in Tmps(h) : b \in a..Len(h.hrs) =>
              ApartIn(T \o new, Len(T) + a, Len(T) + b) = Sum(h.hrs, a..(b - 1))
        BY ApartOfNew
      <4> QED
        BY <4>1, <1>3
    <3> QED
      BY <3>1
  <2>2. b - 1 \in 0..(b - 1) /\ b - (b - 1) = 1
    BY <1>3
  <2>3. HoursBack(h, b, b - 1) = Sum(h.hrs, (b - (b - 1))..(b - 1))
    BY <2>2, HoursBackInOrder
  <2> HIDE DEF U, N
  <2> QED
    BY <2>1, <2>2, <2>3
<1>8. /\ i..((N + b) - 1) = (i..N) \cup ((N + 1)..((N + b) - 1))
      /\ (i..N) \cap ((N + 1)..((N + b) - 1)) = {}
  <2> HIDE DEF N, i
  <2> QED
    BY <1>2, <1>3, <1>5
<1>9. Natural(HrsOf(U), i..N) /\ Natural(HrsOf(U), (N + 1)..((N + b) - 1))
  <2> HIDE DEF U, N, i
  <2>1. /\ i..N \in SUBSET (i..((N + b) - 1))
        /\ (N + 1)..((N + b) - 1) \in SUBSET (i..((N + b) - 1))
    BY <1>8
  <2> QED
    BY <1>6, <2>1, NaturalSubset
<1>10. Sum(HrsOf(U), i..((N + b) - 1))
        = Sum(HrsOf(U), i..N) + Sum(HrsOf(U), (N + 1)..((N + b) - 1))
  <2> DEFINE S1 == i..N
             S2 == (N + 1)..((N + b) - 1)
  <2> HIDE DEF U, N, i
  <2>1. S1 \cap S2 = {} /\ i..((N + b) - 1) = S1 \cup S2
    BY <1>8
  <2>2. Natural(HrsOf(U), S1) /\ Natural(HrsOf(U), S2)
    BY <1>9
  <2> HIDE DEF S1, S2
  <2>3. Sum(HrsOf(U), S1 \cup S2) = Sum(HrsOf(U), S1) + Sum(HrsOf(U), S2)
    BY <2>1, <2>2, SumUnion
  <2>4. Sum(HrsOf(U), i..((N + b) - 1)) = Sum(HrsOf(U), S1) + Sum(HrsOf(U), S2)
    BY <2>1, <2>3
  <2> QED
    BY <2>4 DEF S1, S2
<1>11. LinkedHours(lnk, l) = Sum(HrsOf(U), i..N)
  <2>1. N \in 0..Len(U) /\ l \in 1..N
    BY <1>2, <1>3, <1>4
  <2>2. \A k \in 1..l : lnk[k] = U[N + 1 - k]
    <3> SUFFICES ASSUME NEW k \in 1..l PROVE lnk[k] = U[N + 1 - k]
      OBVIOUS
    <3>1. k \in DOMAIN lnk /\ N + 1 - k \in 1..N
      BY <1>2, <1>4
    <3> HIDE DEF U, N
    <3> QED
      BY <1>1, <1>2, <3>1 DEF N
  <2>3. i = N + 1 - l
    OBVIOUS
  <2> HIDE DEF U, N, i
  <2>4. LinkedHours(lnk, l) = Sum(HrsOf(U), (N + 1 - l)..N)
    <3>1. U \in Seq(Instants)
      BY <1>2
    <3> QED
      BY <2>1, <2>2, <3>1, LinkedHoursAre
  <2> QED
    BY <2>3, <2>4
<1>12. /\ Sum(HrsOf(U), i..N) \in Nat
       /\ Sum(HrsOf(U), (N + 1)..((N + b) - 1)) \in Nat
  <2> HIDE DEF U, N, i
  <2> QED
    BY <1>9, SumType
<1>13. ApartIn(U, i, N + b) = HoursToLinked(h, lnk, b, l)
  <2> HIDE DEF U, N, i
  <2> QED
    BY <1>6, <1>7, <1>10, <1>11, <1>12 DEF HoursToLinked
<1> QED
  BY <1>13

------------------------------------------------------------------------------
(* Solving a subproblem.                                                   *)
Solution(s) ==
  /\ s \in Feasible(unit, horizon, linked)
  /\ timeline' = timeline \o Solved(horizon, linked, s)
  /\ linked' = HandedOver(horizon, Solved(horizon, linked, s))

LEMMA SolveIs ==
  ASSUME IInv, Solve
  PROVE  /\ \E s : Solution(s)
         /\ Hours(horizon) /\ (horizon.boundary = "linked" <=> linked # <<>>)
         /\ ends' = ends \cup {Len(timeline')}
         /\ UNCHANGED <<unit, horizon>>
<1>1. \E s \in Feasible(unit, horizon, linked) : Solution(s)
  BY DEF Solve, Solution
<1>2. phase = "loaded"
  BY DEF Solve
<1>3. ends' = ends \cup {Len(timeline')} /\ UNCHANGED <<unit, horizon>>
  BY DEF Solve
<1> QED
  BY <1>1, <1>2, <1>3 DEF IInv, HorizonInv

(* The timeline before, and what it is extended by.                        *)
LEMMA Extended ==
  ASSUME IInv, Solve, NEW s, Solution(s)
  PROVE  LET new == Solved(horizon, linked, s)
             N   == Len(timeline)
             n   == Len(horizon.hrs)
         IN  /\ unit \in Units /\ s \in Feasible(unit, horizon, linked)
             /\ timeline \in Seq(Instants) /\ new \in Seq(Instants)
             /\ timeline' \in Seq(Instants)
             /\ N \in Nat /\ n \in Nat \ {0} /\ Len(new) = n /\ Len(timeline') = N + n
             /\ \A i \in 1..N : timeline'[i] = timeline[i]
             /\ \A a \in 1..n : timeline'[N + a] = new[a]
             /\ OverHorizon(new, horizon)
             /\ ends \subseteq 1..N /\ (N > 0 => N \in ends)
             /\ ends' = ends \cup {N + n}
<1> DEFINE new == Solved(horizon, linked, s)
<1>1. unit \in Units /\ Hours(horizon) /\ s \in Feasible(unit, horizon, linked)
      /\ timeline' = timeline \o new /\ ends' = ends \cup {Len(timeline')}
  BY SolveIs DEF IInv, Solution
<1>2. /\ new \in Seq(Instants) /\ Len(new) = Len(horizon.hrs)
      /\ OverHorizon(new, horizon)
  BY <1>1, SolvedIs DEF OverHorizon
<1>3. /\ timeline \in Seq(Instants) /\ ends \subseteq 1..Len(timeline)
      /\ timeline # <<>> => Len(timeline) \in ends
  BY DEF IInv, TimelineInv
<1>4. Len(timeline) > 0 => Len(timeline) \in ends
  BY <1>3
<1>5. Len(horizon.hrs) \in Nat \ {0}
  BY <1>1, TmpsAre
<1> HIDE DEF new
<1>6. /\ timeline \o new \in Seq(Instants) /\ Len(timeline) \in Nat
      /\ Len(timeline \o new) = Len(timeline) + Len(new)
      /\ \A k \in 1..Len(timeline) : (timeline \o new)[k] = timeline[k]
      /\ \A k \in 1..Len(new) : (timeline \o new)[Len(timeline) + k] = new[k]
  BY <1>2, <1>3, AppendIs
<1> QED
  BY <1>1, <1>2, <1>3, <1>4, <1>5, <1>6 DEF new

LEMMA SolveTimelineInv ==
  ASSUME IInv, Solve
  PROVE  TimelineInv'
<1>1. PICK s : Solution(s)
  BY SolveIs
<1> DEFINE N == Len(timeline)
           n == Len(horizon.hrs)
<1>2. /\ timeline' \in Seq(Instants) /\ N \in Nat /\ n \in Nat \ {0}
      /\ Len(timeline') = N + n
      /\ ends \subseteq 1..N /\ ends' = ends \cup {N + n}
  BY <1>1, Extended
<1> HIDE DEF N, n
<1>3. ends' \subseteq 1..Len(timeline')
  BY <1>2
<1> QED
  BY <1>2, <1>3 DEF TimelineInv

LEMMA SolveLinkedInv ==
  ASSUME IInv, Solve
  PROVE  LinkedInv'
<1>1. PICK s : Solution(s)
  BY SolveIs
<1> DEFINE N == Len(timeline)
           n == Len(horizon.hrs)
           new == Solved(horizon, linked, s)
           m == tmps_to_link(horizon)
<1>2. /\ new \in Seq(Instants) /\ timeline' \in Seq(Instants)
      /\ N \in Nat /\ n \in Nat \ {0} /\ Len(new) = n /\ Len(timeline') = N + n
      /\ \A a \in 1..n : timeline'[N + a] = new[a]
      /\ N > 0 => N \in ends
      /\ ends' = ends \cup {N + n}
  BY <1>1, Extended
<1>3. m \in 1..n /\ m <= LinkedTmps /\ (m = LinkedTmps \/ m = n)
  <2> DEFINE S == {LinkedTmps, n}
  <2>1. LinkedTmps \in Nat \ {0} /\ n \in Nat \ {0}
    BY <1>2, HorizonAssumption
  <2>2. \E k \in S : \A j \in S : k <= j
    BY <2>1
  <2>3. Min(S) \in S /\ \A j \in S : Min(S) <= j
    BY <2>2 DEF Min
  <2>4. m = Min(S)
    BY DEF tmps_to_link
  <2> HIDE DEF m
  <2> QED
    BY <2>1, <2>3, <2>4
<1>9. LinkedTmps \in Nat /\ m \in Nat /\ 1 <= m /\ m <= n
  <2> HIDE DEF n, m
  <2> QED
    BY <1>2, <1>3, HorizonAssumption
<1>10. N \in Nat /\ n \in Nat /\ Len(timeline') = N + n
  BY <1>2
<1>4. linked' = [l \in 1..m |-> new[n + 1 - l]]
  BY <1>1 DEF Solution, HandedOver
<1> HIDE DEF N, n, new, m
<1>5. /\ linked' \in Seq(Instants) /\ Len(linked') = m /\ DOMAIN linked' = 1..m
      /\ linked' # <<>> /\ timeline' # <<>>
  <2>0. m \in Nat /\ m > 0
    BY <1>2, <1>3
  <2>1. \A l \in 1..m : new[n + 1 - l] \in Instants
    BY <1>2, <1>3
  <2>2. linked' \in [1..m -> Instants]
    BY <1>4, <2>1
  <2>3. linked' \in Seq(Instants) /\ Len(linked') = m /\ DOMAIN linked' = 1..m
    BY <2>0, <2>2
  <2>4. linked' # <<>>
    BY <2>0, <2>3
  <2>5. timeline' # <<>>
    BY <1>2
  <2> QED
    BY <2>3, <2>4, <2>5
<1>6. ASSUME NEW l \in DOMAIN linked'
      PROVE  linked'[l] = timeline'[Len(timeline') + 1 - l]
  <2>0. l \in 1..m
    BY <1>5
  <2>1. l \in 1..m /\ n + 1 - l \in 1..n
    BY <1>10, <1>9, <2>0
  <2>2. timeline'[N + (n + 1 - l)] = new[n + 1 - l]
    BY <1>2, <2>1
  <2>3. N + (n + 1 - l) = Len(timeline') + 1 - l
    BY <1>2, <2>1
  <2> QED
    BY <1>4, <2>1, <2>2, <2>3
<1>7. ASSUME NEW i \in DOMAIN timeline',
             SolvedTogether(i, Len(timeline))',
             Len(timeline') - i < LinkedTmps
      PROVE  Len(timeline') + 1 - i \in DOMAIN linked'
  <2>1. i \in 1..(N + n)
    BY <1>2
  <2>2. i > N
    <3>1. CASE N > 0
      <4>1. N \in ends'
        BY <1>2, <3>1
      <4>2. N < i \/ N >= N + n
        BY <1>2, <1>7, <4>1 DEF SolvedTogether
      <4> QED
        BY <1>2, <2>1, <4>2
    <3> QED
      BY <1>2, <2>1, <3>1
  <2>3. /\ Len(timeline') + 1 - i \in Nat /\ 1 <= Len(timeline') + 1 - i
        /\ Len(timeline') + 1 - i <= n /\ Len(timeline') + 1 - i <= LinkedTmps
    BY <1>7, <1>9, <1>10, <2>1, <2>2
  <2>4. Len(timeline') + 1 - i <= m
    BY <1>3, <1>9, <2>3
  <2>5. Len(timeline') + 1 - i \in 1..m
    BY <1>9, <2>3, <2>4
  <2> QED
    BY <1>5, <2>5
<1>8. Len(linked') <= Len(timeline')
  BY <1>2, <1>3, <1>5
<1> QED
  BY <1>5, <1>6, <1>7, <1>8 DEF LinkedInv

(* Where a new timepoint is, and what was before it.                       *)
LEMMA NewFlags ==
  ASSUME IInv, Solve, NEW s, Solution(s),
         NEW a \in Tmps(horizon), Len(timeline) + a > 1
  PROVE  LET j == Len(timeline) + a
         IN  /\ timeline'[j].startup = 1 <=> timeline'[j].commit > timeline'[j - 1].commit
             /\ timeline'[j].shutdown = 1 <=> timeline'[j].commit < timeline'[j - 1].commit
<1> DEFINE N == Len(timeline)
           n == Len(horizon.hrs)
           new == Solved(horizon, linked, s)
           prev == PrevCommit(horizon, linked, s, a)
<1>1. /\ unit \in Units /\ s \in Feasible(unit, horizon, linked)
      /\ N \in Nat /\ n \in Nat \ {0} /\ timeline \in Seq(Instants)
      /\ \A i \in 1..N : timeline'[i] = timeline[i]
      /\ \A b \in 1..n : timeline'[N + b] = new[b]
  BY Extended
<1>2. Hours(horizon) /\ (horizon.boundary = "linked" <=> linked # <<>>)
  BY SolveIs
<1>3. Tmps(horizon) = 1..n /\ a \in 1..n /\ a \in Nat
  BY <1>1, <1>2, TmpsAre
<1>4. /\ timeline'[N + a].commit = s.commit[a]
      /\ timeline'[N + a].startup = s.startup[a]
      /\ timeline'[N + a].shutdown = s.shutdown[a]
  BY <1>1, <1>2, <1>3, SolvedIs
<1>5. CASE a > 1
  <2>1. prev = s.commit[a - 1] /\ a - 1 \in Tmps(horizon)
    BY <1>2, <1>3, <1>5, PrevIs
  <2>2. timeline'[N + (a - 1)].commit = s.commit[a - 1]
    BY <1>1, <1>2, <1>3, <2>1, SolvedIs
  <2>3. prev = timeline'[(N + a) - 1].commit /\ prev \in 0..1
    <3>1. N + (a - 1) = (N + a) - 1
      BY <1>1, <1>3
    <3>2. s.commit[a - 1] \in 0..1
      BY <1>1, <1>2, <2>1, FeasibleIs
    <3> QED
      BY <2>1, <2>2, <3>1, <3>2
  <2>4. ~FirstOf(horizon, a, "linear")
    BY <1>5 DEF FirstOf
  <2>5. /\ s.startup[a] = 1 <=> s.commit[a] > prev
        /\ s.shutdown[a] = 1 <=> s.commit[a] < prev
    BY <1>1, <1>2, <2>3, <2>4, SolutionFlags, LinkedAre
  <2> HIDE DEF prev, N, n, new
  <2> QED
    BY <1>4, <2>3, <2>5 DEF N
<1>6. CASE a = 1
  <2>1. N > 0
    BY <1>1, <1>6
  <2>2. linked # <<>> /\ linked \in Seq(Instants) /\ linked[1] = timeline[N]
    <3>1. /\ linked = <<>> <=> timeline = <<>>
          /\ linked \in Seq(Instants)
          /\ \A l \in DOMAIN linked : linked[l] = timeline[N + 1 - l]
      BY DEF IInv, LinkedInv
    <3>2. linked # <<>>
      BY <1>1, <2>1, <3>1
    <3>3. 1 \in DOMAIN linked
      BY <3>1, <3>2
    <3>4. linked[1] = timeline[N + 1 - 1]
      BY <3>1, <3>3
    <3>5. N + 1 - 1 = N
      BY <1>1
    <3> HIDE DEF N
    <3> QED
      BY <3>1, <3>2, <3>4, <3>5
  <2>3. horizon.boundary = "linked" /\ prev = linked[1].commit
    BY <1>2, <1>6, <2>2, PrevIs
  <2>4. linked[1].commit \in 0..1
    <3>1. 1 \in DOMAIN linked
      BY <2>2
    <3>2. linked[1] \in Instants
      BY <3>1, LinkedAre
    <3> QED
      BY <3>2 DEF Instants
  <2>5. timeline'[(N + a) - 1] = timeline[N]
    <3>1. (N + a) - 1 = N /\ N \in 1..N
      BY <1>1, <1>6, <2>1
    <3> HIDE DEF N
    <3> QED
      BY <1>1, <3>1
  <2>6. ~FirstOf(horizon, a, "linear")
    BY <2>3 DEF FirstOf
  <2>7. /\ s.startup[a] = 1 <=> s.commit[a] > prev
        /\ s.shutdown[a] = 1 <=> s.commit[a] < prev
    BY <1>1, <1>2, <2>3, <2>4, <2>6, SolutionFlags, LinkedAre
  <2>8. prev = timeline'[(N + a) - 1].commit
    <3> HIDE DEF prev, N
    <3> QED
      BY <2>2, <2>3, <2>5
  <2> HIDE DEF prev, N, n, new
  <2> QED
    BY <1>4, <2>7, <2>8 DEF N
<1> QED
  BY <1>3, <1>5, <1>6

LEMMA SolveFlags ==
  ASSUME IInv, Solve
  PROVE  FlagsAreChanges'
<1>1. PICK s : Solution(s)
  BY SolveIs
<1> DEFINE N == Len(timeline)
           n == Len(horizon.hrs)
<1>2. /\ N \in Nat /\ n \in Nat \ {0} /\ Len(timeline') = N + n
      /\ \A i \in 1..N : timeline'[i] = timeline[i]
  BY <1>1, Extended
<1> SUFFICES ASSUME NEW t \in 2..Len(timeline')
             PROVE  /\ timeline'[t].startup = 1
                         <=> timeline'[t].commit > timeline'[t - 1].commit
                    /\ timeline'[t].shutdown = 1
                         <=> timeline'[t].commit < timeline'[t - 1].commit
  BY DEF FlagsAreChanges
<1>3. CASE t <= N
  <2>1. t \in 2..N /\ t \in 1..N /\ t - 1 \in 1..N
    BY <1>2, <1>3
  <2>2. /\ timeline[t].startup = 1 <=> timeline[t].commit > timeline[t - 1].commit
        /\ timeline[t].shutdown = 1 <=> timeline[t].commit < timeline[t - 1].commit
    BY <2>1 DEF IInv, StateCarriedOver, FlagsAreChanges
  <2>3. timeline'[t] = timeline[t] /\ timeline'[t - 1] = timeline[t - 1]
    BY <1>2, <2>1
  <2> QED
    BY <2>2, <2>3
<1>4. CASE t > N
  <2>1. t - N \in Tmps(horizon) /\ N + (t - N) = t /\ t > 1
    BY <1>2, <1>4 DEF Tmps
  <2> QED
    BY <1>1, <2>1, NewFlags
<1> QED
  BY <1>2, <1>3, <1>4

(* Subproblems solved before have not changed.                             *)
LEMMA KnownBefore ==
  ASSUME IInv, Solve, NEW i \in 1..Len(timeline), NEW j \in 1..Len(timeline), i < j,
         Known(i, j)'
  PROVE  Known(i, j)
<1>1. PICK s : Solution(s)
  BY SolveIs
<1> DEFINE N == Len(timeline)
           n == Len(horizon.hrs)
<1>2. /\ N \in Nat /\ n \in Nat \ {0} /\ ends \subseteq 1..N
      /\ ends' = ends \cup {N + n}
  BY <1>1, Extended
<1> HIDE DEF N, n
<1>3. \A a, b \in Nat : SolvedTogether(a, b)' => SolvedTogether(a, b)
  BY <1>2 DEF SolvedTogether
<1>4. i \in Nat /\ j \in Nat /\ j <= N
  BY <1>2 DEF N
<1>5. CASE SolvedTogether(i, j)'
  BY <1>3, <1>4, <1>5 DEF Known
<1>6. CASE ~SolvedTogether(i, j)'
  <2>1. PICK e \in ends' : /\ e \in i..(j - 1) /\ e - i < LinkedTmps
                           /\ SolvedTogether(i, e)' /\ SolvedTogether(e + 1, j)'
    BY <1>6 DEF Known
  <2>2. e \in ends /\ e \in Nat /\ e + 1 \in Nat
    BY <1>2, <1>4, <2>1
  <2>3. SolvedTogether(i, e) /\ SolvedTogether(e + 1, j)
    BY <1>3, <1>4, <2>1, <2>2
  <2> QED
    BY <2>1, <2>2, <2>3 DEF Known
<1> QED
  BY <1>5, <1>6

(* What a new timepoint knows of an old one was handed over.               *)
LEMMA KnownAcross ==
  ASSUME IInv, Solve, NEW i \in 1..Len(timeline), NEW a \in Tmps(horizon),
         NEW j \in Nat, j = Len(timeline) + a, Known(i, j)'
  PROVE  Len(timeline) + 1 - i \in DOMAIN linked
<1>1. PICK s : Solution(s)
  BY SolveIs
<1> DEFINE N == Len(timeline)
           n == Len(horizon.hrs)
<1>2. /\ N \in Nat /\ n \in Nat \ {0} /\ ends \subseteq 1..N
      /\ N > 0 => N \in ends
      /\ ends' = ends \cup {N + n}
  BY <1>1, Extended
<1>3. /\ i \in Nat /\ 1 <= i /\ i <= N /\ N \in ends
      /\ a \in Nat /\ 1 <= a /\ a <= n /\ j = N + a
  BY <1>2 DEF Tmps
<1>4. Known(i, j)'
  OBVIOUS
<1> HIDE DEF N, n
<1>5. ~SolvedTogether(i, j)'
  BY <1>2, <1>3 DEF SolvedTogether
<1>6. PICK e \in ends' : /\ e \in i..(j - 1) /\ e - i < LinkedTmps
                         /\ SolvedTogether(i, e)' /\ SolvedTogether(e + 1, j)'
  BY <1>4, <1>5 DEF Known
<1>7. e = N
  <2>1. N < e + 1 \/ N >= j
    BY <1>2, <1>3, <1>6 DEF SolvedTogether
  <2>2. e \in Nat /\ (e <= N \/ e = N + n)
    BY <1>2, <1>3, <1>6
  <2>3. e <= j - 1
    BY <1>6, <1>2, <1>3
  <2> QED
    BY <1>2, <1>3, <2>1, <2>2, <2>3
<1>8. SolvedTogether(i, N) /\ N - i < LinkedTmps
  BY <1>2, <1>3, <1>6, <1>7 DEF SolvedTogether
<1>9. i \in DOMAIN timeline
  <2>1. timeline \in Seq(Instants)
    BY DEF IInv, TimelineInv
  <2> QED
    BY <2>1
<1> QED
  BY <1>8, <1>9 DEF IInv, LinkedInv, N

LEMMA SolveTimes ==
  ASSUME IInv, Solve
  PROVE  TimesKeptAcrossSubproblems'
<1>1. PICK s : Solution(s)
  BY SolveIs
<1> DEFINE N == Len(timeline)
           n == Len(horizon.hrs)
           new == Solved(horizon, linked, s)
<1>2. /\ unit \in Units /\ s \in Feasible(unit, horizon, linked)
      /\ timeline \in Seq(Instants) /\ new \in Seq(Instants)
      /\ timeline' \in Seq(Instants)
      /\ N \in Nat /\ n \in Nat \ {0} /\ Len(timeline') = N + n
      /\ OverHorizon(new, horizon)
  BY <1>1, Extended
<1>3. /\ \A i \in 1..N : timeline'[i] = timeline[i]
      /\ \A a \in 1..n : timeline'[N + a] = new[a]
  BY <1>1, Extended
<1>4. /\ timeline' = timeline \o new /\ Hours(horizon) /\ unit' = unit
      /\ (horizon.boundary = "linked" <=> linked # <<>>)
      /\ LinkedEvents(linked, "startup") /\ LinkedEvents(linked, "shutdown")
  BY <1>1, SolveIs, LinkedAre DEF Solution
<1>5. unit.minUp \in Nat /\ unit.minDown \in Nat
  BY <1>2, UnitsAssumption
<1>6. \A a \in Tmps(horizon) : /\ timeline'[N + a].commit = s.commit[a]
                               /\ timeline'[N + a].startup = s.startup[a]
                               /\ timeline'[N + a].shutdown = s.shutdown[a]
  BY <1>2, <1>3, <1>4, SolvedIs DEF Tmps
<1>7. Tmps(horizon) = 1..n
  BY DEF Tmps
<1> SUFFICES ASSUME NEW i \in DOMAIN timeline', NEW j \in DOMAIN timeline', i < j,
                    Known(i, j)'
             PROVE  /\ timeline'[i].startup = 1 /\ ApartIn(timeline', i, j) < unit.minUp
                         => timeline'[j].commit = 1
                    /\ timeline'[i].shutdown = 1 /\ ApartIn(timeline', i, j) < unit.minDown
                         => timeline'[j].commit = 0
  BY <1>4 DEF TimesKeptAcrossSubproblems, Apart, ApartIn
<1>8. i \in 1..(N + n) /\ j \in 1..(N + n)
  BY <1>2
<1>9. CASE j <= N
  <2>1. i \in 1..N /\ j \in 1..N /\ i \in 1..Len(timeline) /\ j \in i..Len(timeline)
        /\ i \in DOMAIN timeline /\ j \in DOMAIN timeline
    BY <1>2, <1>8, <1>9
  <2>2. Known(i, j)
    BY <2>1, KnownBefore
  <2>3. ApartIn(timeline', i, j) = ApartIn(timeline, i, j)
    BY <1>2, <1>4, <2>1, ApartOfOld
  <2>4. /\ timeline[i].startup = 1 /\ ApartIn(timeline, i, j) < unit.minUp
             => timeline[j].commit = 1
        /\ timeline[i].shutdown = 1 /\ ApartIn(timeline, i, j) < unit.minDown
             => timeline[j].commit = 0
    BY <2>1, <2>2
       DEF IInv, StateCarriedOver, TimesKeptAcrossSubproblems, Apart, ApartIn
  <2>5. timeline'[i] = timeline[i] /\ timeline'[j] = timeline[j]
    BY <1>3, <2>1
  <2> QED
    BY <2>3, <2>4, <2>5
<1>10. CASE i > N
  <2> DEFINE a == i - N
             b == j - N
  <2>1. /\ a \in Tmps(horizon) /\ b \in Tmps(horizon) /\ a \in 1..b /\ a < b
        /\ b \in a..n /\ i = N + a /\ j = N + b
    BY <1>2, <1>7, <1>8, <1>10
  <2> HIDE DEF a, b
  <2>2. ApartIn(timeline', i, j) = Sum(horizon.hrs, a..(b - 1))
    <3>1. ApartIn(timeline \o new, Len(timeline) + a, Len(timeline) + b)
            = Sum(horizon.hrs, a..(b - 1))
      BY <1>2, <1>4, <2>1, ApartOfNew
    <3> QED
      BY <1>4, <2>1, <3>1
  <2>3. /\ Sum(horizon.hrs, a..(b - 1)) < unit.minUp
             => Held(a, b, horizon.hrs, unit.minUp)
        /\ Sum(horizon.hrs, a..(b - 1)) < unit.minDown
             => Held(a, b, horizon.hrs, unit.minDown)
    BY <2>1 DEF Held
  <2>4. /\ s.startup[a] = 1 /\ Held(a, b, horizon.hrs, unit.minUp)
             => s.commit[b] = 1
        /\ s.shutdown[a] = 1 /\ Held(a, b, horizon.hrs, unit.minDown)
             => s.commit[b] = 0
    BY <1>2, <1>4, <2>1, SolutionKeepsTimes
  <2>5. /\ timeline'[i].startup = s.startup[a] /\ timeline'[i].shutdown = s.shutdown[a]
        /\ timeline'[j].commit = s.commit[b]
    BY <1>6, <2>1
  <2> QED
    BY <2>2, <2>3, <2>4, <2>5
<1>11. CASE i <= N /\ j > N
  <2> DEFINE l == N + 1 - i
             b == j - N
  <2>1. /\ b \in Tmps(horizon) /\ j = N + b /\ i \in 1..N /\ i = N + 1 - l
    BY <1>2, <1>7, <1>8, <1>11
  <2>2. l \in DOMAIN linked
    <3>1. Known(i, j)' /\ j \in Nat /\ j = Len(timeline) + b /\ i \in 1..Len(timeline)
      BY <2>1, <1>8
    <3>2. Len(timeline) + 1 - i \in DOMAIN linked
      <4> HIDE DEF N, b, l
      <4> QED
        BY <2>1, <3>1, KnownAcross
    <3> QED
      BY <3>2
  <2>3. /\ linked \in Seq(Instants) /\ Len(linked) <= Len(timeline)
        /\ \A m \in DOMAIN linked : linked[m] = timeline[Len(timeline) + 1 - m]
    BY DEF IInv, LinkedInv
  <2> HIDE DEF l, b
  <2>4. ApartIn(timeline', i, j) = HoursToLinked(horizon, linked, b, l)
    <3>0. /\ timeline \in Seq(Instants) /\ new \in Seq(Instants)
          /\ Hours(horizon) /\ OverHorizon(new, horizon)
          /\ linked \in Seq(Instants) /\ Len(linked) <= Len(timeline)
          /\ LatestFirst(linked, timeline)
      BY <1>2, <1>4, <2>3 DEF LatestFirst
    <3> HIDE DEF new, N
    <3>1. \A b1 \in Tmps(horizon) : \A l1 \in DOMAIN linked :
             ApartIn(timeline \o new, Len(timeline) + 1 - l1, Len(timeline) + b1)
               = HoursToLinked(horizon, linked, b1, l1)
      BY <3>0, ApartAcross
    <3>2. ApartIn(timeline \o new, Len(timeline) + 1 - l, Len(timeline) + b)
            = HoursToLinked(horizon, linked, b, l)
      BY <2>1, <2>2, <3>1
    <3> QED
      BY <1>4, <2>1, <3>2 DEF N
  <2>5. horizon.boundary = "linked"
    BY <1>4, <2>2, <2>3
  <2>6. /\ linked[l].startup = 1 /\ HoursToLinked(horizon, linked, b, l) < unit.minUp
             => s.commit[b] = 1
        /\ linked[l].shutdown = 1 /\ HoursToLinked(horizon, linked, b, l) < unit.minDown
             => s.commit[b] = 0
    BY <1>2, <1>4, <2>1, <2>2, <2>5, SolutionKeepsTimes
  <2>7. timeline'[i] = linked[l] /\ timeline'[j].commit = s.commit[b]
    BY <1>3, <1>6, <2>1, <2>2, <2>3
  <2> QED
    BY <2>4, <2>6, <2>7
<1> QED
  BY <1>2, <1>8, <1>9, <1>10, <1>11

LEMMA SolveInv ==
  ASSUME IInv, Solve
  PROVE  IInv'
<1>1. unit' \in Units
  BY SolveIs DEF IInv
<1>2. HorizonInv'
  BY DEF Solve, HorizonInv
<1> QED
  BY <1>1, <1>2, SolveTimelineInv, SolveLinkedInv, SolveFlags, SolveTimes
     DEF IInv, StateCarriedOver

(* The inductive invariant holds in every state.                           *)
LEMMA CommitmentInvariant == Spec => []IInv
<1>1. Init => IInv
  BY InitInv
<1>2. IInv /\ [Next]_vars => IInv'
  <2> SUFFICES ASSUME IInv, [Next]_vars PROVE IInv'
    OBVIOUS
  <2>1. CASE LoadData
    BY <2>1, LoadDataInv
  <2>2. CASE Solve
    BY <2>2, SolveInv
  <2>3. CASE Done \/ UNCHANGED vars
    <3>1. UNCHANGED <<unit, linked, timeline, ends, phase, horizon>>
      BY <2>3 DEF Done, vars
    <3>2. HorizonInv'
      BY <3>1 DEF IInv, HorizonInv
    <3> QED
      BY <3>1, <3>2, SameTimelineInv
  <2> QED
    BY <2>1, <2>2, <2>3 DEF Next
<1> QED
  BY <1>1, <1>2, PTL DEF Spec

(* What a subproblem starts from is what the one before it ended with, for *)
(* any units, horizons, numbers of linked timepoints and subproblems: the  *)
(* flags of min_up_time_constraint_rule and min_down_time_constraint_rule  *)
(* are the changes of commitment, and a start or a shutdown is kept to for *)
(* the minimum times wherever it was handed over.                          *)
THEOREM StateIsCarriedOver == Spec => []StateCarriedOver
<1>1. IInv => StateCarriedOver
  BY DEF IInv
<1> QED
  BY <1>1, CommitmentInvariant, PTL
=============================================================================
