-------------------------- MODULE Formulation_proofs --------------------------
(* The modules of GridPath fit together in every scenario that fits, with any  *)
(* features, any types and any number of stages.  Two things are assumed:      *)
(* Arranged, which is about the table of the modules and no scenario, and      *)
(* which TLC evaluates (ModulesArranged), and ScenariosFit, which leaves out   *)
(* the scenarios the modules are not meant for.                                *)
(*                                                                             *)
(* The argument.  determine_modules keeps some modules in the order of         *)
(* all_modules_list (Kept, Position).  Each phase calls the modules kept that  *)
(* have its function, in that order, so those called are those with a lower    *)
(* position (Underway, Passed).  What there is at any time is then what those  *)
(* modules have put there: the files, components, lists and data (Formulated), *)
(* the frames, CSV files, imports and tables (Concluded).  When a role of the  *)
(* module called needs something, Arranged gives a role that provides it, at a *)
(* lower position and played in every scenario with the first (BroughtPlays):  *)
(* its module has been called, and what it provides is there.                  *)
EXTENDS Arrangement, SequenceTheorems, FiniteSetTheorems, WellFoundedInduction,
        TLAPS

-------------------------------------------------------------------------------
(* Sequences, and what Only picks from one.                                    *)

(* A set of natural numbers has a least one.                                   *)
LEMMA LeastNatural ==
  ASSUME NEW N \in SUBSET Nat, N # {}
  PROVE  \E n \in N : \A m \in N : n <= m
<1> DEFINE R == OpToRel(<, Nat)
<1>1. IsWellFoundedOn(R, Nat)
  BY NatLessThanWellFounded
<1>2. \A x, y \in Nat : <<x, y>> \in R <=> x < y
  BY DEF OpToRel
<1> HIDE DEF R
<1>3. PICK n \in N : \A m \in N : ~(<<m, n>> \in R)
  BY <1>1, WFMin, Zenon
<1>4. \A m \in N : ~(m < n)
  BY <1>2, <1>3
<1> QED
  BY <1>4

(* Induction up to a bound, for a set in place of a property.                  *)
LEMMA UpTo ==
  ASSUME NEW L \in Nat, NEW S, 0 \in S,
         \A n \in 0..(L - 1) : n \in S => n + 1 \in S
  PROVE  0..L \subseteq S
<1> SUFFICES ASSUME (0..L) \ S # {} PROVE FALSE
  OBVIOUS
<1> DEFINE Bad == (0..L) \ S
<1>1. PICK n \in Bad : \A m \in Bad : n <= m
  <2> Bad \in SUBSET Nat /\ Bad # {}
    OBVIOUS
  <2> HIDE DEF Bad
  <2> QED
    BY LeastNatural, Zenon
<1>2. n # 0 /\ n - 1 \in 0..(L - 1) /\ n - 1 \in S
  BY <1>1
<1>3. (n - 1) + 1 \in S
  BY <1>2
<1> QED
  BY <1>1, <1>3

(* Elements of a sequence.                                                     *)
LEMMA Elements ==
  ASSUME NEW T, NEW s \in Seq(T)
  PROVE  /\ Len(s) \in Nat /\ DOMAIN s = 1..Len(s)
         /\ \A i \in 1..Len(s) : s[i] \in T
         /\ Range(s) = {s[i] : i \in 1..Len(s)}
         /\ Range(s) \subseteq T
BY ElementOfSeq, LenProperties DEF Range

(* What a concatenation has, and when nothing is in it twice.                  *)
LEMMA ConcatIs ==
  ASSUME NEW T, NEW s \in Seq(T), NEW t \in Seq(T)
  PROVE  /\ s \o t \in Seq(T)
         /\ Range(s \o t) = Range(s) \cup Range(t)
         /\ IsInjective(s) /\ IsInjective(t) /\ Range(s) \cap Range(t) = {}
              => IsInjective(s \o t)
<1> DEFINE c == s \o t
<1>1. /\ c \in Seq(T) /\ Len(c) = Len(s) + Len(t)
      /\ Len(s) \in Nat /\ Len(t) \in Nat
      /\ \A i \in 1..(Len(s) + Len(t)) :
           c[i] = IF i <= Len(s) THEN s[i] ELSE t[i - Len(s)]
  BY ConcatProperties, LenProperties
<1>2. /\ Range(s) = {s[i] : i \in 1..Len(s)} /\ DOMAIN s = 1..Len(s)
      /\ Range(t) = {t[i] : i \in 1..Len(t)} /\ DOMAIN t = 1..Len(t)
  BY Elements
<1> HIDE DEF c
<1>3. Range(c) = {c[i] : i \in 1..Len(c)} /\ DOMAIN c = 1..Len(c)
  BY <1>1, Elements
<1>4. Range(c) \subseteq Range(s) \cup Range(t)
  <2> SUFFICES ASSUME NEW i \in 1..(Len(s) + Len(t))
               PROVE  c[i] \in Range(s) \cup Range(t)
    BY <1>1, <1>3
  <2>1. CASE i <= Len(s)
    <3>1. i \in 1..Len(s) /\ c[i] = s[i]
      BY <1>1, <2>1
    <3> QED
      BY <1>2, <3>1
  <2>2. CASE ~(i <= Len(s))
    <3>1. i - Len(s) \in 1..Len(t) /\ c[i] = t[i - Len(s)]
      BY <1>1, <2>2
    <3> QED
      BY <1>2, <3>1
  <2> QED
    BY <2>1, <2>2
<1>5. Range(s) \subseteq Range(c)
  <2> SUFFICES ASSUME NEW i \in 1..Len(s) PROVE s[i] \in Range(c)
    BY <1>2
  <2>1. i \in 1..Len(c) /\ c[i] = s[i]
    BY <1>1
  <2> QED
    BY <1>3, <2>1
<1>6. Range(t) \subseteq Range(c)
  <2> SUFFICES ASSUME NEW i \in 1..Len(t) PROVE t[i] \in Range(c)
    BY <1>2
  <2> DEFINE j == i + Len(s)
  <2>0. j \in 1..(Len(s) + Len(t)) /\ ~(j <= Len(s)) /\ j - Len(s) = i
    BY <1>1
  <2> HIDE DEF j
  <2>1. j \in 1..Len(c) /\ c[j] = t[i]
    BY <1>1, <2>0
  <2> QED
    BY <1>3, <2>1
<1>7. ASSUME IsInjective(s), IsInjective(t), Range(s) \cap Range(t) = {},
             NEW i \in 1..Len(c), NEW j \in 1..Len(c), c[i] = c[j]
      PROVE  i = j
  <2>1. CASE i <= Len(s) /\ j <= Len(s)
    <3>1. i \in 1..Len(s) /\ j \in 1..Len(s) /\ s[i] = s[j]
      BY <1>1, <1>7, <2>1
    <3> QED
      BY <1>2, <1>7, <3>1 DEF IsInjective
  <2>2. CASE ~(i <= Len(s)) /\ ~(j <= Len(s))
    <3> DEFINE a == i - Len(s)  b == j - Len(s)
    <3>1. a \in 1..Len(t) /\ b \in 1..Len(t) /\ t[a] = t[b]
      BY <1>1, <1>7, <2>2
    <3> HIDE DEF a, b
    <3>2. a = b
      BY <1>2, <1>7, <3>1 DEF IsInjective
    <3> QED
      BY <1>1, <3>2 DEF a, b
  <2>3. ASSUME NEW x \in 1..Len(c), NEW y \in 1..Len(c), c[x] = c[y],
               x <= Len(s), ~(y <= Len(s))
        PROVE  FALSE
    <3>1. x \in 1..Len(s) /\ c[x] = s[x]
      BY <1>1, <2>3
    <3>2. y - Len(s) \in 1..Len(t) /\ c[y] = t[y - Len(s)]
      BY <1>1, <2>3
    <3>3. c[x] \in Range(s) /\ c[y] \in Range(t)
      BY <1>2, <3>1, <3>2
    <3> QED
      BY <1>7, <2>3, <3>3
  <2> QED
    BY <1>7, <2>1, <2>2, <2>3
<1>8. IsInjective(s) /\ IsInjective(t) /\ Range(s) \cap Range(t) = {}
        => IsInjective(c)
  <2> SUFFICES ASSUME IsInjective(s), IsInjective(t),
                      Range(s) \cap Range(t) = {}
               PROVE  IsInjective(c)
    OBVIOUS
  <2>1. \A i, j \in 1..Len(c) : c[i] = c[j] => i = j
    BY <1>7
  <2> QED
    BY <1>3, <2>1 DEF IsInjective
<1> QED
  BY <1>1, <1>4, <1>5, <1>6, <1>8 DEF c
-------------------------------------------------------------------------------
(* The recursion of Only, from one pair of places to pairs that are closer.    *)
Segments(list) == (0..Len(list)) \X (0..Len(list))
Middle(s) == (s[1] + s[2]) \div 2
Among(list, set, g, s) ==
  IF s[2] - s[1] > 1 THEN g[<<s[1], Middle(s)>>] \o g[<<Middle(s), s[2]>>]
  ELSE IF s[1] < s[2] /\ list[s[2]] \in set THEN <<list[s[2]]>>
  ELSE <<>>
Halves(list, set, g) ==
  g = [s \in Segments(list) |-> Among(list, set, g, s)]
Narrow(list, n) == {s \in Segments(list) : s[2] - s[1] <= n}

(* Only is the value of its function for the whole list.                       *)
LEMMA OnlyHalves ==
  ASSUME NEW list, NEW set
  PROVE  Only(list, set) =
           (CHOOSE g : Halves(list, set, g))[<<0, Len(list)>>]
BY DEF Only, Halves, Among, Segments, Middle

(* A segment of more than one place is cut into two narrower ones.             *)
LEMMA SegmentIs ==
  ASSUME NEW list, Len(list) \in Nat, NEW n \in Nat,
         NEW s \in Narrow(list, n + 1)
  PROVE  /\ s = <<s[1], s[2]>> /\ s[1] \in 0..Len(list) /\ s[2] \in 0..Len(list)
         /\ s[2] - s[1] <= n + 1 /\ s \in Segments(list)
         /\ s[2] - s[1] > 1 =>
              /\ Middle(s) \in 0..Len(list)
              /\ s[1] < Middle(s) /\ Middle(s) < s[2]
              /\ <<s[1], Middle(s)>> \in Narrow(list, n)
              /\ <<Middle(s), s[2]>> \in Narrow(list, n)
<1>1. /\ s = <<s[1], s[2]>> /\ s[1] \in 0..Len(list) /\ s[2] \in 0..Len(list)
      /\ s[2] - s[1] <= n + 1 /\ s \in Segments(list)
  BY DEF Narrow, Segments
<1> DEFINE a == s[1]  b == s[2]  m == Middle(s)
<1>2. a \in Nat /\ b \in Nat /\ a \in 0..Len(list) /\ b \in 0..Len(list)
      /\ b - a <= n + 1
  BY <1>1
<1>3. m = (a + b) \div 2
  BY DEF Middle
<1> HIDE DEF a, b, m
<1>4. b - a > 1 => m \in 0..Len(list) /\ a < m /\ m < b
  BY <1>2, <1>3
<1>5. b - a > 1 => m - a <= n /\ b - m <= n
  BY <1>2, <1>4
<1>6. b - a > 1 => <<a, m>> \in Narrow(list, n) /\ <<m, b>> \in Narrow(list, n)
  BY <1>2, <1>4, <1>5 DEF Narrow, Segments
<1> QED
  BY <1>1, <1>4, <1>6 DEF a, b, m

(* What a segment gives depends on the narrower ones alone.                    *)
LEMMA SameHalves ==
  ASSUME NEW list, NEW set, Len(list) \in Nat, NEW n \in Nat, NEW g, NEW h,
         \A s \in Narrow(list, n) : g[s] = h[s],
         NEW s \in Narrow(list, n + 1)
  PROVE  Among(list, set, g, s) = Among(list, set, h, s)
<1>1. s[2] - s[1] > 1 => /\ <<s[1], Middle(s)>> \in Narrow(list, n)
                         /\ <<Middle(s), s[2]>> \in Narrow(list, n)
  BY SegmentIs
<1> QED
  BY <1>1 DEF Among

(* There is such a function for pairs of places that are close together.       *)
LEMMA HalvesExist ==
  ASSUME NEW T, NEW list \in Seq(T), NEW set
  PROVE  \E g : Halves(list, set, g)
<1> DEFINE L == Len(list)
           Good(n) ==
             \E h : \A s \in Narrow(list, n) : h[s] = Among(list, set, h, s)
           S == {n \in 0..L : Good(n)}
<1>0. L \in Nat
  BY Elements
<1>1. Good(0)
  <2> DEFINE h == [s \in Narrow(list, 0) |->
                     IF s[1] < s[2] /\ list[s[2]] \in set THEN <<list[s[2]]>>
                     ELSE <<>>]
  <2>1. \A s \in Narrow(list, 0) : ~(s[2] - s[1] > 1)
    BY <1>0 DEF Narrow, Segments
  <2>2. \A s \in Narrow(list, 0) : h[s] = Among(list, set, h, s)
    BY <2>1 DEF Among
  <2> QED
    BY <2>2
<1>2. ASSUME NEW n \in 0..(L - 1), Good(n)
      PROVE  Good(n + 1)
  <2>0. n \in Nat
    BY <1>0
  <2>1. PICK h : \A s \in Narrow(list, n) : h[s] = Among(list, set, h, s)
    BY <1>2
  <2> DEFINE k == [s \in Narrow(list, n + 1) |->
                     IF s \in Narrow(list, n) THEN h[s] ELSE Among(list, set, h, s)]
  <2>2. Narrow(list, n) \subseteq Narrow(list, n + 1)
    BY <1>0, <2>0 DEF Narrow, Segments
  <2>3. \A s \in Narrow(list, n) : k[s] = h[s]
    BY <2>2
  <2>4. \A s \in Narrow(list, n + 1) : k[s] = Among(list, set, h, s)
    BY <2>1
  <2> HIDE DEF k
  <2>5. \A s \in Narrow(list, n + 1) : k[s] = Among(list, set, k, s)
    BY <1>0, <2>0, <2>3, <2>4, SameHalves
  <2> QED
    BY <2>5
<1>3. L \in S
  <2> HIDE DEF Good, L
  <2>1. 0 \in S /\ \A n \in 0..(L - 1) : n \in S => n + 1 \in S
    BY <1>0, <1>1, <1>2
  <2> HIDE DEF S
  <2>2. 0..L \subseteq S
    BY <1>0, <2>1, UpTo
  <2> QED
    BY <1>0, <2>2
<1>4. PICK h : \A s \in Narrow(list, L) : h[s] = Among(list, set, h, s)
  BY <1>3
<1>5. Narrow(list, L) = Segments(list)
  BY <1>0 DEF Narrow, Segments
<1> DEFINE g == [s \in Segments(list) |-> h[s]]
<1>6. \A s \in Segments(list) : g[s] = Among(list, set, h, s)
  BY <1>4, <1>5
<1>7. \A s \in Narrow(list, L) : g[s] = h[s]
  BY <1>5
<1>8. g = [s \in Segments(list) |-> g[s]]
  OBVIOUS
<1> HIDE DEF g
<1>9. ASSUME NEW s \in Segments(list)
      PROVE  Among(list, set, g, s) = Among(list, set, h, s)
  <2>1. Narrow(list, L) \subseteq Narrow(list, L + 1)
    BY <1>0 DEF Narrow, Segments
  <2>2. s \in Narrow(list, L + 1)
    BY <1>5, <2>1
  <2> QED
    BY <1>0, <1>7, <2>2, SameHalves
<1>10. g = [s \in Segments(list) |-> Among(list, set, g, s)]
  BY <1>6, <1>8, <1>9
<1> QED
  BY <1>10 DEF Halves

SortedBy(p, list) ==
  \A i, j \in 1..Len(list) : i < j => p[list[i]] < p[list[j]]

(* Two sorted lists, the one before the other, are a sorted list.              *)
LEMMA SortedConcat ==
  ASSUME NEW T, NEW s \in Seq(T), NEW t \in Seq(T), NEW p,
         SortedBy(p, s), SortedBy(p, t),
         \A x \in Range(s), y \in Range(t) : p[x] < p[y]
  PROVE  SortedBy(p, s \o t)
<1> DEFINE c == s \o t
<1>1. /\ Len(c) = Len(s) + Len(t) /\ Len(s) \in Nat /\ Len(t) \in Nat
      /\ \A i \in 1..(Len(s) + Len(t)) :
           c[i] = IF i <= Len(s) THEN s[i] ELSE t[i - Len(s)]
  BY ConcatProperties, LenProperties
<1>2. /\ Range(s) = {s[i] : i \in 1..Len(s)}
      /\ Range(t) = {t[i] : i \in 1..Len(t)}
  BY Elements
<1> HIDE DEF c
<1> SUFFICES ASSUME NEW i \in 1..(Len(s) + Len(t)),
                    NEW j \in 1..(Len(s) + Len(t)), i < j
             PROVE  p[c[i]] < p[c[j]]
  BY <1>1 DEF SortedBy, c
<1>3. CASE j <= Len(s)
  <2>1. i \in 1..Len(s) /\ j \in 1..Len(s) /\ c[i] = s[i] /\ c[j] = s[j]
    BY <1>1, <1>3
  <2> QED
    BY <2>1 DEF SortedBy
<1>4. CASE ~(j <= Len(s)) /\ i <= Len(s)
  <2>1. i \in 1..Len(s) /\ j - Len(s) \in 1..Len(t)
        /\ c[i] = s[i] /\ c[j] = t[j - Len(s)]
    BY <1>1, <1>4
  <2>2. c[i] \in Range(s) /\ c[j] \in Range(t)
    BY <1>2, <2>1
  <2> QED
    BY <2>2
<1>5. CASE ~(i <= Len(s))
  <2> DEFINE a == i - Len(s)  b == j - Len(s)
  <2>1. a \in 1..Len(t) /\ b \in 1..Len(t) /\ a < b /\ c[i] = t[a] /\ c[j] = t[b]
    BY <1>1, <1>5
  <2> HIDE DEF a, b
  <2> QED
    BY <2>1 DEF SortedBy
<1> QED
  BY <1>3, <1>4, <1>5

(* Only picks the elements of the set, and keeps an order the list has.        *)
LEMMA OnlyIs ==
  ASSUME NEW T, NEW list \in Seq(T), NEW set,
         NEW p, SortedBy(p, list)
  PROVE  /\ Only(list, set) \in Seq(T)
         /\ Range(Only(list, set)) = Range(list) \cap set
         /\ SortedBy(p, Only(list, set))
<1> DEFINE g == CHOOSE g : Halves(list, set, g)
           L == Len(list)
           In(s) == {list[i] : i \in (s[1] + 1)..s[2]}
           Right(s) == /\ g[s] \in Seq(T)
                       /\ Range(g[s]) = In(s) \cap set
                       /\ SortedBy(p, g[s])
           S == {n \in 0..L : \A s \in Narrow(list, n) : Right(s)}
<1>0. L \in Nat /\ (\A i \in 1..L : list[i] \in T)
      /\ Range(list) = {list[i] : i \in 1..L}
  BY Elements
<1>1. Halves(list, set, g)
  BY HalvesExist, Zenon
<1>2. \A s \in Segments(list) : g[s] = Among(list, set, g, s)
  BY <1>1 DEF Halves
<1> HIDE DEF g
<1>3. <<>> \in Seq(T) /\ Range(<<>>) = {} /\ SortedBy(p, <<>>)
  BY EmptySeq DEF Range, SortedBy
<1>4. ASSUME NEW s \in Segments(list), ~(s[2] - s[1] > 1)
      PROVE  Right(s)
  <2>1. s[1] \in 0..L /\ s[2] \in 0..L
    BY DEF Segments
  <2>2. CASE s[1] < s[2] /\ list[s[2]] \in set
    <3> DEFINE e == list[s[2]]
    <3>1. s[2] = s[1] + 1 /\ s[2] \in 1..L
      BY <1>0, <1>4, <2>1, <2>2
    <3>2. g[s] = Among(list, set, g, s)
      BY <1>2
    <3>3. g[s] = <<e>>
      BY <1>4, <2>2, <3>2 DEF Among
    <3>4. (s[1] + 1)..s[2] = {s[2]}
      BY <2>1, <3>1
    <3>5. In(s) = {e}
      BY <3>4
    <3>6. e \in T
      BY <1>0, <3>1
    <3>7. e \in T /\ In(s) = {e} /\ g[s] = <<e>> /\ e \in set
      BY <2>2, <3>3, <3>5, <3>6
    <3> HIDE DEF e, In
    <3>8. <<e>> \in Seq(T) /\ Len(<<e>>) = 1 /\ <<e>>[1] = e
      BY <3>7
    <3>9. Range(<<e>>) = {e}
      <4> DEFINE u == <<e>>
      <4>1. u \in Seq(T) /\ Len(u) = 1 /\ u[1] = e
        BY <3>8
      <4> HIDE DEF u
      <4>2. Range(u) = {u[i] : i \in 1..Len(u)}
        BY <4>1, Elements
      <4>3. Range(u) = {e}
        BY <4>1, <4>2
      <4> QED
        BY <4>3 DEF u
    <3>10. SortedBy(p, <<e>>)
      BY <3>8 DEF SortedBy
    <3> QED
      BY <3>7, <3>8, <3>9, <3>10
  <2>3. CASE ~(s[1] < s[2] /\ list[s[2]] \in set)
    <3>1. g[s] = <<>>
      BY <1>2, <1>4, <2>3 DEF Among
    <3>2. In(s) \cap set = {}
      BY <1>0, <1>4, <2>1, <2>3
    <3> HIDE DEF In
    <3> QED
      BY <1>3, <3>1, <3>2
  <2> QED
    BY <2>2, <2>3
<1>5. \A s \in Narrow(list, 0) : Right(s)
  <2> HIDE DEF Right
  <2>1. \A s \in Narrow(list, 0) : s \in Segments(list) /\ ~(s[2] - s[1] > 1)
    BY <1>0 DEF Narrow, Segments
  <2> QED
    BY <1>4, <2>1
<1>6. ASSUME NEW n \in 0..(L - 1), \A s \in Narrow(list, n) : Right(s)
      PROVE  \A s \in Narrow(list, n + 1) : Right(s)
  <2> SUFFICES ASSUME NEW s \in Narrow(list, n + 1) PROVE Right(s)
    OBVIOUS
  <2> DEFINE m == Middle(s)  a == <<s[1], m>>  b == <<m, s[2]>>
  <2>1. n \in Nat
    BY <1>0
  <2>2. /\ s \in Segments(list) /\ s[1] \in 0..L /\ s[2] \in 0..L
        /\ s[2] - s[1] > 1 =>
             /\ m \in 0..L /\ s[1] < m /\ m < s[2]
             /\ a \in Narrow(list, n) /\ b \in Narrow(list, n)
    BY <1>0, <2>1, SegmentIs
  <2>3. CASE s[2] - s[1] > 1
    <3>1. g[s] = g[a] \o g[b]
      BY <1>2, <2>2, <2>3 DEF Among
    <3>2. Right(a) /\ Right(b)
      BY <1>6, <2>2, <2>3
    <3>3. In(s) = In(a) \cup In(b)
      BY <1>0, <2>2, <2>3
    <3>4. \A x \in In(a), y \in In(b) : p[x] < p[y]
      <4> SUFFICES ASSUME NEW i \in (s[1] + 1)..m, NEW j \in (m + 1)..s[2]
                   PROVE  p[list[i]] < p[list[j]]
        OBVIOUS
      <4>1. i \in 1..L /\ j \in 1..L /\ i < j
        BY <1>0, <2>2, <2>3
      <4> QED
        BY <4>1 DEF SortedBy
    <3> HIDE DEF In, a, b
    <3>5. /\ g[a] \o g[b] \in Seq(T)
          /\ Range(g[a] \o g[b]) = Range(g[a]) \cup Range(g[b])
      BY <3>2, ConcatIs
    <3>6. SortedBy(p, g[a] \o g[b])
      BY <3>2, <3>4, SortedConcat
    <3> QED
      BY <3>1, <3>2, <3>3, <3>5, <3>6
  <2>4. CASE ~(s[2] - s[1] > 1)
    BY <1>4, <2>2, <2>4
  <2> QED
    BY <2>3, <2>4
<1>7. L \in S
  <2> HIDE DEF Right, L
  <2>1. 0 \in S /\ \A n \in 0..(L - 1) : n \in S => n + 1 \in S
    BY <1>0, <1>5, <1>6
  <2> HIDE DEF S
  <2>2. 0..L \subseteq S
    BY <1>0, <2>1, UpTo
  <2> QED
    BY <1>0, <2>2
<1> DEFINE whole == <<0, L>>
<1>8. whole \in Narrow(list, L) /\ In(whole) = Range(list)
  BY <1>0 DEF Narrow, Segments
<1>9. Right(whole)
  BY <1>7, <1>8
<1>10. Only(list, set) = g[whole]
  BY OnlyHalves DEF g
<1> HIDE DEF whole, In
<1> QED
  BY <1>8, <1>9, <1>10

-------------------------------------------------------------------------------
(* FlattenSeq joins the lists of a list.                                       *)

(* The recursion of FlattenSeq.                                                *)
Joined(seqs, f, i) == IF i = 1 THEN seqs[i] ELSE f[i - 1] \o seqs[i]
Joins(seqs, f) == f = [i \in 1..Len(seqs) |-> Joined(seqs, f, i)]

(* FlattenSeq is the value of its function for the whole list.                 *)
LEMMA FlattenJoins ==
  ASSUME NEW seqs, Len(seqs) # 0
  PROVE  FlattenSeq(seqs) = (CHOOSE f : Joins(seqs, f))[Len(seqs)]
BY DEF FlattenSeq, Joins, Joined

(* Lists of lists have such a function.                                        *)
LEMMA JoinsExists ==
  ASSUME NEW T, NEW seqs \in Seq(Seq(T))
  PROVE  \E f : Joins(seqs, f)
<1> DEFINE L == Len(seqs)
           Good(n) == \E h \in [1..n -> Seq(T)] :
                        \A i \in 1..n : h[i] = Joined(seqs, h, i)
           S == {n \in 0..L : Good(n)}
<1>0. L \in Nat /\ \A i \in 1..L : seqs[i] \in Seq(T)
  BY Elements
<1>1. Good(0)
  <2> DEFINE h == [i \in 1..0 |-> <<>>]
  <2>1. h \in [1..0 -> Seq(T)] /\ \A i \in 1..0 : FALSE
    OBVIOUS
  <2> QED
    BY <2>1
<1>2. ASSUME NEW m \in 0..(L - 1), Good(m)
      PROVE  Good(m + 1)
  <2> DEFINE n == m + 1
  <2>1. PICK h \in [1..m -> Seq(T)] :
          \A i \in 1..m : h[i] = Joined(seqs, h, i)
    BY <1>2
  <2> DEFINE k == [i \in 1..n |-> IF i = n THEN Joined(seqs, h, n) ELSE h[i]]
  <2>2. m \in Nat /\ n \in 1..L /\ seqs[n] \in Seq(T)
    BY <1>0
  <2>3. Joined(seqs, h, n) \in Seq(T)
    <3>1. CASE m = 0
      BY <2>2, <3>1 DEF Joined
    <3>2. CASE m # 0
      <4>1. h[m] \in Seq(T) /\ n # 1 /\ n - 1 = m
        BY <2>1, <2>2, <3>2
      <4>2. h[m] \o seqs[n] \in Seq(T)
        BY <2>2, <4>1, ConcatProperties
      <4> QED
        BY <4>1, <4>2 DEF Joined
    <3> QED
      BY <3>1, <3>2
  <2>4. k \in [1..n -> Seq(T)]
    BY <2>1, <2>2, <2>3
  <2>5. ASSUME NEW i \in 1..n PROVE k[i] = Joined(seqs, k, i)
    <3>1. i # 1 => i - 1 \in 1..m /\ k[i - 1] = h[i - 1]
      BY <2>2
    <3>2. Joined(seqs, k, i) = Joined(seqs, h, i)
      BY <3>1 DEF Joined
    <3> QED
      BY <2>1, <2>2, <3>2
  <2> QED
    BY <2>4, <2>5
<1>3. L \in S
  <2> HIDE DEF Good, L
  <2>1. 0 \in S /\ \A n \in 0..(L - 1) : n \in S => n + 1 \in S
    BY <1>0, <1>1, <1>2
  <2> HIDE DEF S
  <2>2. 0..L \subseteq S
    BY <1>0, <2>1, UpTo
  <2> QED
    BY <1>0, <2>2
<1>4. PICK h \in [1..L -> Seq(T)] : \A i \in 1..L : h[i] = Joined(seqs, h, i)
  BY <1>3
<1>5. h = [i \in 1..L |-> Joined(seqs, h, i)]
  BY <1>4
<1> QED
  BY <1>5 DEF Joins

(* The elements of joined lists are those of the lists, each once if no two    *)
(* lists share one.                                                            *)
LEMMA FlattenIs ==
  ASSUME NEW T, NEW seqs \in Seq(Seq(T)),
         \A i \in 1..Len(seqs) : IsInjective(seqs[i]),
         \A i, j \in 1..Len(seqs) :
           i # j => Range(seqs[i]) \cap Range(seqs[j]) = {}
  PROVE  /\ FlattenSeq(seqs) \in Seq(T)
         /\ Range(FlattenSeq(seqs)) =
              UNION {Range(seqs[i]) : i \in 1..Len(seqs)}
         /\ IsInjective(FlattenSeq(seqs))
<1> DEFINE L == Len(seqs)
           f == CHOOSE f : Joins(seqs, f)
           First(n) == UNION {Range(seqs[i]) : i \in 1..n}
           Good(n) == /\ f[n] \in Seq(T)
                      /\ Range(f[n]) = First(n)
                      /\ IsInjective(f[n])
           S == {n \in 0..L : n = 0 \/ Good(n)}
<1>0. L \in Nat /\ \A i \in 1..L : seqs[i] \in Seq(T)
  BY Elements
<1>1. CASE L = 0
  <2>1. seqs = <<>>
    BY <1>1, EmptySeq
  <2>2. FlattenSeq(seqs) = seqs
    BY <1>1 DEF FlattenSeq
  <2>3. seqs \in Seq(T) /\ Range(seqs) = {} /\ IsInjective(seqs)
    BY <2>1, EmptySeq DEF Range, IsInjective
  <2>4. UNION {Range(seqs[i]) : i \in 1..L} = {}
    BY <1>1
  <2> QED
    BY <2>2, <2>3, <2>4
<1>2. CASE L # 0
  <2>1. Joins(seqs, f)
    BY JoinsExists, Zenon
  <2>2. \A i \in 1..L : f[i] = Joined(seqs, f, i)
    BY <2>1 DEF Joins
  <2> HIDE DEF f
  <2>3. ASSUME NEW m \in 0..(L - 1), m = 0 \/ Good(m)
        PROVE  Good(m + 1)
    <3> DEFINE n == m + 1
    <3>1. /\ m \in Nat /\ n \in 1..L /\ seqs[n] \in Seq(T)
          /\ f[n] = IF m = 0 THEN seqs[n] ELSE f[m] \o seqs[n]
      BY <1>0, <2>2 DEF Joined
    <3>2. First(n) = First(m) \cup Range(seqs[n])
      <4>1. 1..n = (1..m) \cup {n}
        BY <3>1
      <4> QED
        BY <4>1
    <3>3. CASE m = 0
      <4>1. First(m) = {}
        BY <3>3
      <4>2. f[n] = seqs[n] /\ IsInjective(seqs[n])
        BY <3>1, <3>3
      <4>3. Range(f[n]) = First(n)
        BY <3>2, <4>1, <4>2
      <4> QED
        BY <3>1, <4>2, <4>3
    <3>4. CASE m # 0
      <4>1. f[m] \in Seq(T) /\ Range(f[m]) = First(m) /\ IsInjective(f[m])
        BY <2>3, <3>4
      <4>2. First(m) \cap Range(seqs[n]) = {}
        <5>1. \A i \in 1..m : i \in 1..L /\ i # n
          BY <1>0, <3>1
        <5>2. \A i \in 1..m : Range(seqs[i]) \cap Range(seqs[n]) = {}
          BY <3>1, <5>1
        <5> QED
          BY <5>2
      <4>3. IsInjective(seqs[n])
        BY <3>1
      <4>4. /\ f[m] \o seqs[n] \in Seq(T)
            /\ Range(f[m] \o seqs[n]) = Range(f[m]) \cup Range(seqs[n])
            /\ IsInjective(f[m] \o seqs[n])
        <5>1. f[m] \in Seq(T) /\ IsInjective(f[m])
          BY <4>1
        <5>2. seqs[n] \in Seq(T) /\ IsInjective(seqs[n])
          BY <3>1, <4>3
        <5>3. Range(f[m]) \cap Range(seqs[n]) = {}
          BY <4>1, <4>2
        <5> HIDE DEF n, First, Good
        <5> QED
          BY <5>1, <5>2, <5>3, ConcatIs
      <4> QED
        BY <3>1, <3>2, <3>4, <4>1, <4>4
    <3> QED
      BY <3>3, <3>4
  <2>4. L \in S
    <3> HIDE DEF Good, L
    <3>1. 0 \in S /\ \A n \in 0..(L - 1) : n \in S => n + 1 \in S
      BY <1>0, <2>3
    <3> HIDE DEF S
    <3>2. 0..L \subseteq S
      BY <1>0, <3>1, UpTo
    <3> QED
      BY <1>0, <3>2
  <2>5. FlattenSeq(seqs) = f[L]
    BY <1>2, FlattenJoins DEF f
  <2> QED
    BY <1>2, <2>4, <2>5
<1> QED
  BY <1>1, <1>2

-------------------------------------------------------------------------------
(* determine_modules: the modules that a scenario keeps.                       *)

(* What a list of groups takes away.                                           *)
Taken(groups, wanted) ==
  UNION {Range(g.modules) : g \in Range(groups) \ wanted}

(* Unless lists what the unwanted groups hold, nothing twice.                  *)
LEMMA UnlessIs ==
  ASSUME NEW groups, Apart(groups), NEW wanted
  PROVE  /\ Unless(groups, wanted) \in Seq(Modules)
         /\ Range(Unless(groups, wanted)) = Taken(groups, wanted)
         /\ IsInjective(Unless(groups, wanted))
         /\ Taken(groups, wanted) \subseteq Grouped(groups)
<1> DEFINE seqs == [i \in 1..Len(groups) |->
                      IF groups[i] \in wanted THEN <<>> ELSE groups[i].modules]
<1>1. Len(groups) \in Nat /\ DOMAIN groups = 1..Len(groups)
  BY DEF Apart
<1>2. \A i \in 1..Len(groups) :
        groups[i].modules \in Seq(Modules) /\ IsInjective(groups[i].modules)
  BY <1>1 DEF Apart
<1>3. \A i, j \in 1..Len(groups) : i # j =>
        Range(groups[i].modules) \cap Range(groups[j].modules) = {}
  BY <1>1 DEF Apart
<1>4. /\ <<>> \in Seq(Modules) /\ Range(<<>>) = {} /\ IsInjective(<<>>)
  BY EmptySeq DEF Range, IsInjective
<1>5. seqs \in [1..Len(groups) -> Seq(Modules)]
  BY <1>2, <1>4
<1>6. seqs \in Seq(Seq(Modules)) /\ Len(seqs) = Len(groups)
  <2> HIDE DEF seqs
  <2> QED
    BY <1>1, <1>5, IsASeq, LenProperties
<1>7. \A i \in 1..Len(seqs) : IsInjective(seqs[i])
  BY <1>2, <1>4, <1>6
<1>8. \A i, j \in 1..Len(seqs) :
        i # j => Range(seqs[i]) \cap Range(seqs[j]) = {}
  BY <1>3, <1>4, <1>6
<1>9. /\ FlattenSeq(seqs) \in Seq(Modules)
      /\ Range(FlattenSeq(seqs)) = UNION {Range(seqs[i]) : i \in 1..Len(seqs)}
      /\ IsInjective(FlattenSeq(seqs))
  <2> HIDE DEF seqs
  <2> QED
    BY <1>6, <1>7, <1>8, FlattenIs
<1>10. Unless(groups, wanted) = FlattenSeq(seqs)
  BY DEF Unless
<1>11. Range(groups) = {groups[i] : i \in 1..Len(groups)}
  BY <1>1 DEF Range
<1>12. UNION {Range(seqs[i]) : i \in 1..Len(seqs)} = Taken(groups, wanted)
  <2>1. ASSUME NEW i \in 1..Len(groups), NEW n \in Range(seqs[i])
        PROVE  n \in Taken(groups, wanted)
    <3>1. groups[i] \notin wanted /\ n \in Range(groups[i].modules)
      BY <1>4, <2>1
    <3> QED
      BY <1>11, <3>1 DEF Taken
  <2>2. ASSUME NEW n \in Taken(groups, wanted)
        PROVE  \E i \in 1..Len(groups) : n \in Range(seqs[i])
    <3>1. PICK i \in 1..Len(groups) :
            groups[i] \notin wanted /\ n \in Range(groups[i].modules)
      BY <1>11 DEF Taken
    <3>2. seqs[i] = groups[i].modules
      BY <3>1
    <3> QED
      BY <3>1, <3>2
  <2> HIDE DEF seqs
  <2> QED
    BY <1>6, <2>1, <2>2
<1>13. Taken(groups, wanted) \subseteq Grouped(groups)
  BY DEF Taken, Grouped
<1> QED
  BY <1>9, <1>10, <1>12, <1>13

(* The removals of a scenario.                                                 *)
LEMMA RemovalsAre ==
  ASSUME GroupsArranged, NEW F, NEW st \in BOOLEAN
  PROVE  /\ Removals(F, st) \in Seq(Modules)
         /\ IsInjective(Removals(F, st))
         /\ Range(Removals(F, st)) =
              (IF st THEN {} ELSE Range(FixVariablesModules))
              \cup Taken(optional_modules_list,
                         Every(optional_modules_list, F))
              \cup Taken(feature_shared_modules_list,
                         Some(feature_shared_modules_list, F))
              \cup Taken(cross_feature_modules_list,
                         Every(cross_feature_modules_list, F))
              \cup (IF st THEN Taken(stage_feature_module_list,
                                     Every(stage_feature_module_list, F))
                    ELSE {})
<1> DEFINE fix == IF st THEN <<>> ELSE FixVariablesModules
           o == Unless(optional_modules_list, Every(optional_modules_list, F))
           s == Unless(feature_shared_modules_list,
                       Some(feature_shared_modules_list, F))
           c == Unless(cross_feature_modules_list,
                       Every(cross_feature_modules_list, F))
           l == Unless(stage_feature_module_list,
                       Every(stage_feature_module_list, F))
           g == IF st THEN l ELSE <<>>
<1>0. Removals(F, st) = fix \o o \o s \o c \o g
  BY DEF Removals
<1>1. /\ fix \in Seq(Modules) /\ IsInjective(fix)
      /\ Range(fix) = IF st THEN {} ELSE Range(FixVariablesModules)
  BY EmptySeq DEF GroupsArranged, Range, IsInjective
<1>2. /\ o \in Seq(Modules) /\ IsInjective(o)
      /\ Range(o) = Taken(optional_modules_list,
                          Every(optional_modules_list, F))
      /\ Range(o) \subseteq Grouped(optional_modules_list)
  BY UnlessIs DEF GroupsArranged
<1>3. /\ s \in Seq(Modules) /\ IsInjective(s)
      /\ Range(s) = Taken(feature_shared_modules_list,
                          Some(feature_shared_modules_list, F))
      /\ Range(s) \subseteq Grouped(feature_shared_modules_list)
  BY UnlessIs DEF GroupsArranged
<1>4. /\ c \in Seq(Modules) /\ IsInjective(c)
      /\ Range(c) = Taken(cross_feature_modules_list,
                          Every(cross_feature_modules_list, F))
      /\ Range(c) \subseteq Grouped(cross_feature_modules_list)
  BY UnlessIs DEF GroupsArranged
<1>5. /\ l \in Seq(Modules) /\ IsInjective(l)
      /\ Range(l) = Taken(stage_feature_module_list,
                          Every(stage_feature_module_list, F))
      /\ Range(l) \subseteq Grouped(stage_feature_module_list)
  BY UnlessIs DEF GroupsArranged
<1> HIDE DEF o, s, c, l
<1>6. /\ g \in Seq(Modules) /\ IsInjective(g)
      /\ Range(g) = IF st THEN Range(l) ELSE {}
  BY <1>5, EmptySeq DEF Range, IsInjective
<1>7. /\ Range(fix) \cap (Range(o) \cup Range(s) \cup Range(c) \cup Range(g)) = {}
      /\ Range(o) \cap (Range(s) \cup Range(c) \cup Range(g)) = {}
      /\ Range(s) \cap (Range(c) \cup Range(g)) = {}
      /\ Range(c) \cap Range(g) = {}
  BY <1>1, <1>2, <1>3, <1>4, <1>5, <1>6 DEF GroupsArranged
<1> HIDE DEF fix, g
<1>8. /\ fix \o o \in Seq(Modules) /\ IsInjective(fix \o o)
      /\ Range(fix \o o) = Range(fix) \cup Range(o)
  BY <1>1, <1>2, <1>7, ConcatIs
<1> DEFINE a == fix \o o
<1> HIDE DEF a
<1>9. /\ a \o s \in Seq(Modules) /\ IsInjective(a \o s)
      /\ Range(a \o s) = Range(fix) \cup Range(o) \cup Range(s)
  <2>1. /\ a \in Seq(Modules) /\ IsInjective(a)
        /\ Range(a) = Range(fix) \cup Range(o)
    BY <1>8 DEF a
  <2>2. Range(a) \cap Range(s) = {}
    BY <1>7, <2>1
  <2> QED
    BY <1>3, <2>1, <2>2, ConcatIs
<1> DEFINE b == a \o s
<1> HIDE DEF b
<1>10. /\ b \o c \in Seq(Modules) /\ IsInjective(b \o c)
       /\ Range(b \o c) = Range(fix) \cup Range(o) \cup Range(s) \cup Range(c)
  <2>1. /\ b \in Seq(Modules) /\ IsInjective(b)
        /\ Range(b) = Range(fix) \cup Range(o) \cup Range(s)
    BY <1>9 DEF b
  <2>2. Range(b) \cap Range(c) = {}
    BY <1>7, <2>1
  <2> QED
    BY <1>4, <2>1, <2>2, ConcatIs
<1> DEFINE d == b \o c
<1> HIDE DEF d
<1>11. /\ d \o g \in Seq(Modules) /\ IsInjective(d \o g)
       /\ Range(d \o g) = Range(fix) \cup Range(o) \cup Range(s) \cup Range(c)
                            \cup Range(g)
  <2>1. /\ d \in Seq(Modules) /\ IsInjective(d)
        /\ Range(d) = Range(fix) \cup Range(o) \cup Range(s) \cup Range(c)
    BY <1>10 DEF d
  <2>2. Range(d) \cap Range(g) = {}
    BY <1>7, <2>1
  <2> QED
    BY <1>6, <2>1, <2>2, ConcatIs
<1>12. Removals(F, st) = d \o g
  BY <1>0 DEF a, b, d
<1> QED
  BY <1>1, <1>2, <1>3, <1>4, <1>5, <1>6, <1>11, <1>12
-------------------------------------------------------------------------------
(* Every module has one place in all_modules_list.                             *)
LEMMA PositionIs ==
  ASSUME GroupsArranged
  PROVE  /\ \A n \in Modules : /\ Position[n] \in 1..Len(all_modules_list)
                               /\ all_modules_list[Position[n]] = n
                               /\ Position[n] \in Nat
         /\ \A m, n \in Modules : Position[m] = Position[n] => m = n
         /\ SortedBy(Position, all_modules_list)
<1>1. /\ Modules = {all_modules_list[i] : i \in 1..Len(all_modules_list)}
      /\ Len(all_modules_list) \in Nat
      /\ DOMAIN all_modules_list = 1..Len(all_modules_list)
  BY Elements DEF GroupsArranged, Modules
<1>2. ASSUME NEW n \in Modules
      PROVE  /\ Position[n] \in 1..Len(all_modules_list)
             /\ all_modules_list[Position[n]] = n
  BY <1>1 DEF Position
<1>3. ASSUME NEW i \in 1..Len(all_modules_list)
      PROVE  Position[all_modules_list[i]] = i
  <2>1. all_modules_list[i] \in Modules
    BY <1>1
  <2>2. all_modules_list[Position[all_modules_list[i]]] = all_modules_list[i]
    BY <1>2, <2>1
  <2> QED
    BY <1>1, <1>2, <2>1, <2>2 DEF GroupsArranged, IsInjective
<1>4. SortedBy(Position, all_modules_list)
  BY <1>1, <1>3 DEF SortedBy
<1> QED
  BY <1>1, <1>2, <1>4

(* The modules of a scenario.                                                  *)
Kept(sc) == Modules \ Range(Removals(sc.features, sc.stages))

(* determine_modules keeps what is not removed, in the order of                *)
(* all_modules_list.                                                           *)
LEMMA ChosenAre ==
  ASSUME GroupsArranged, NEW sc
  PROVE  LET chosen == determine_modules(sc.features, sc.stages)
         IN /\ chosen \in Seq(Modules) /\ Range(chosen) = Kept(sc)
            /\ SortedBy(Position, chosen)
<1>1. SortedBy(Position, all_modules_list) /\ all_modules_list \in Seq(Modules)
  BY PositionIs DEF GroupsArranged
<1>2. Range(all_modules_list) \cap Kept(sc) = Kept(sc)
  BY DEF Kept, Modules
<1> QED
  BY <1>1, <1>2, OnlyIs DEF determine_modules, Kept

(* A module is kept if the scenario has one of the sets of features it wants.  *)
LEMMA KeptIf ==
  ASSUME GroupsArranged, NEW sc, sc.stages \in BOOLEAN, NEW n \in Modules
  PROVE  n \in Kept(sc) <=>
           /\ n \in Range(FixVariablesModules) => sc.stages
           /\ \E C \in Wants[n] : C \subseteq sc.features
<1> DEFINE F == sc.features
           opt == Containing(optional_modules_list, n)
           cross == Containing(cross_feature_modules_list, n)
           stage == Containing(stage_feature_module_list, n)
           some == Containing(feature_shared_modules_list, n)
           every == UNION {g.features : g \in opt \cup cross \cup stage}
           fix == n \in Range(FixVariablesModules)
<1>1. n \in Kept(sc) <=>
        /\ fix => sc.stages
        /\ n \notin Taken(optional_modules_list,
                          Every(optional_modules_list, F))
        /\ n \notin Taken(feature_shared_modules_list,
                          Some(feature_shared_modules_list, F))
        /\ n \notin Taken(cross_feature_modules_list,
                          Every(cross_feature_modules_list, F))
        /\ sc.stages => n \notin Taken(stage_feature_module_list,
                                       Every(stage_feature_module_list, F))
  BY RemovalsAre DEF Kept
<1>2. ASSUME NEW groups
      PROVE  n \notin Taken(groups, Every(groups, F)) <=>
               \A g \in Containing(groups, n) : g.features \subseteq F
  BY DEF Taken, Every, Containing
<1>3. n \notin Taken(feature_shared_modules_list,
                     Some(feature_shared_modules_list, F))
        <=> \A g \in some : g.features \cap F # {}
  BY DEF Taken, Some, Containing
<1>4. stage # {} => fix
  BY DEF GroupsArranged, Grouped, Containing
<1>5. n \in Kept(sc) <=>
        /\ fix => sc.stages
        /\ \A g \in opt \cup cross \cup stage : g.features \subseteq F
        /\ \A g \in some : g.features \cap F # {}
  <2> HIDE DEF opt, cross, stage, some, fix, F
  <2>1. \A g \in opt \cup cross \cup stage :
          g \in opt \/ g \in cross \/ g \in stage
    OBVIOUS
  <2>2. n \in Kept(sc) <=>
          /\ fix => sc.stages
          /\ \A g \in opt : g.features \subseteq F
          /\ \A g \in some : g.features \cap F # {}
          /\ \A g \in cross : g.features \subseteq F
          /\ sc.stages => \A g \in stage : g.features \subseteq F
    BY <1>1, <1>2, <1>3 DEF opt, cross, stage
  <2> QED
    BY <2>1, <2>2, <1>4
<1>6. every \subseteq F <=>
        \A g \in opt \cup cross \cup stage : g.features \subseteq F
  OBVIOUS
<1>7. \A g, h \in some : g = h
  <2> SUFFICES ASSUME NEW g \in some, NEW h \in some PROVE g = h
    OBVIOUS
  <2> DEFINE list == feature_shared_modules_list
  <2>1. Apart(list)
    BY DEF GroupsArranged
  <2>2. PICK i \in DOMAIN list : g = list[i]
    BY DEF Containing, Range
  <2>3. PICK j \in DOMAIN list : h = list[j]
    BY DEF Containing, Range
  <2>4. n \in Range(g.modules) \cap Range(h.modules)
    BY DEF Containing
  <2>5. i = j
    BY <2>1, <2>2, <2>3, <2>4 DEF Apart
  <2> QED
    BY <2>2, <2>3, <2>5
<1>8. Wants[n] = IF some = {} THEN {every}
                 ELSE {every \cup {f} : f \in UNION {g.features : g \in some}}
  BY DEF Wants
<1> HIDE DEF opt, cross, stage, some, every, fix, F
<1>9. (\E C \in Wants[n] : C \subseteq F) <=>
        every \subseteq F /\ \A g \in some : g.features \cap F # {}
  <2>1. CASE some = {}
    BY <1>8, <2>1
  <2>2. CASE some # {}
    <3>1. PICK g : g \in some
      BY <2>2
    <3>2. some = {g}
      BY <1>7, <3>1
    <3>3. UNION {h.features : h \in some} = g.features
      BY <3>2
    <3>4. Wants[n] = {every \cup {f} : f \in g.features}
      BY <1>8, <2>2, <3>3
    <3>5. (\E C \in Wants[n] : C \subseteq F) <=>
            \E f \in g.features : every \cup {f} \subseteq F
      BY <3>4
    <3>6. (\E f \in g.features : every \cup {f} \subseteq F) <=>
            every \subseteq F /\ g.features \cap F # {}
      OBVIOUS
    <3> QED
      BY <3>2, <3>5, <3>6
  <2> QED
    BY <2>1, <2>2
<1> QED
  BY <1>5, <1>6, <1>9 DEF fix, F

-------------------------------------------------------------------------------
(* Roles, and the order of the calls.                                          *)

(* The role x of a phase is played in scenario sc.                             *)
Plays(sc, x) == x[1] \in Kept(sc) /\ x[2] \in {x[1]} \cup sc.types

(* The pairs that are roles, and what is in one.                               *)
LEMMA RoleIs ==
  ASSUME NEW p, NEW x
  PROVE  x \in Roles(p) <=>
           \E n \in Modules : \E u \in {n} \cup Loadable(p, n) : x = <<n, u>>
BY DEF Roles

LEMMA RolePair ==
  ASSUME NEW p, NEW x \in Roles(p)
  PROVE  /\ x[1] \in Modules /\ x = <<x[1], x[2]>>
         /\ x[2] \in {x[1]} \cup Loadable(p, x[1])
BY RoleIs

(* The roles of a module in a phase are those of its types in use.             *)
LEMMA ActingPlays ==
  ASSUME NEW p, NEW n \in Modules, NEW u
  PROVE  u \in Acting(p, n) <=>
           <<n, u>> \in Roles(p) /\ u \in {n} \cup scenario.types
<1>0. LoadedTypes(p, n) = Loadable(p, n) \cap scenario.types
  BY DEF LoadedTypes, Loadable
<1>1. u \in Acting(p, n) <=>
        u = n \/ (u \in Loadable(p, n) /\ u \in scenario.types)
  BY <1>0 DEF Acting
<1>2. <<n, u>> \in Roles(p) <=> u \in {n} \cup Loadable(p, n)
  BY RoleIs
<1> QED
  BY <1>1, <1>2

(* What Brings says of the features and types of any scenario that fits.       *)
LEMMA BroughtPlays ==
  ASSUME GroupsArranged, NEW sc, Fits(sc),
         NEW x, x[1] \in Modules, Plays(sc, x),
         NEW q, NEW y \in Roles(q), Brings(x, y)
  PROVE  Plays(sc, y)
<1> DEFINE F == sc.features
           all(C) == With(C \cup UNION {TypeRequires(t) : t \in TypesIn(x)})
<1>1. x[1] \in Modules /\ y[1] \in Modules
  BY RolePair
<1>2. sc.stages \in BOOLEAN /\ With(F) \subseteq F
  BY DEF Fits
<1>3. TypesIn(x) \subseteq sc.types
  BY DEF Plays, TypesIn
<1>4. PICK C \in Wants[x[1]] : C \subseteq F
  BY <1>1, <1>2, KeptIf DEF Plays
<1>5. x[1] \in Range(FixVariablesModules) => sc.stages
  BY <1>1, <1>2, KeptIf DEF Plays
<1>6. \A t \in TypesIn(x) : /\ TypeRequires(t) \subseteq F
                             /\ Companions(t) \subseteq sc.types
  BY <1>3 DEF Fits
<1>7. all(C) \subseteq F
  <2> DEFINE A == C \cup UNION {TypeRequires(t) : t \in TypesIn(x)}
  <2>1. A \subseteq F
    BY <1>4, <1>6
  <2> HIDE DEF A
  <2>2. With(A) \subseteq With(F)
    BY <2>1 DEF With
  <2>3. With(A) \subseteq F
    BY <1>2, <2>2
  <2> QED
    BY <2>3 DEF A
<1>8. /\ \E D \in Wants[y[1]] : D \subseteq all(C)
      /\ y[2] \in {y[1]} \cup TypesIn(x)
                    \cup (UNION {Companions(t) : t \in TypesIn(x)})
                    \cup (IF "deliverability" \in all(C)
                          THEN {EnergyOnly} ELSE {})
  BY <1>4 DEF Brings
<1> HIDE DEF all
<1>9. y[1] \in Kept(sc)
  <2>1. \E D \in Wants[y[1]] : D \subseteq F
    BY <1>7, <1>8
  <2>2. y[1] \in Range(FixVariablesModules) => sc.stages
    BY <1>5 DEF Brings
  <2> QED
    BY <1>1, <1>2, <2>1, <2>2, KeptIf
<1>10. y[2] \in {y[1]} \cup sc.types
  <2>1. "deliverability" \in all(C) => EnergyOnly \in sc.types
    BY <1>7 DEF Fits
  <2> QED
    BY <1>3, <1>6, <1>8, <2>1
<1> QED
  BY <1>9, <1>10 DEF Plays
-------------------------------------------------------------------------------
(* How far the scenario has come.                                              *)
Rank == [choose |-> 0, write |-> 1, declare |-> 2, load |-> 3, build |-> 4,
         export |-> 5, import |-> 6, process |-> 7, done |-> 8]
Phases ==
  {"write", "declare", "load", "build", "export", "import", "process"}
Finished(p) == Rank[phase] > Rank[p]

(* The modules phase p has called.                                             *)
Passed(p) ==
  {n \in Selected : /\ Has(p, n)
                    /\ Finished(p) \/ (phase = p /\ n \notin Range(todo))}

(* The list of a phase holds, in their order, the modules it has still to      *)
(* call, all of which come after those it has called.                          *)
Underway ==
  /\ scenario \in Scenarios
  /\ phase \in {"choose", "done"} \cup Phases
  /\ IF phase = "choose" THEN selected = <<>>
     ELSE selected = determine_modules(scenario.features, scenario.stages)
  /\ todo \in Seq(Modules) /\ SortedBy(Position, todo)
  /\ phase \in {"choose", "done"} => todo = <<>>
  /\ \A n \in Range(todo) : n \in Selected /\ Has(phase, n)
  /\ \A n \in Selected : Has(phase, n) /\ n \notin Range(todo) =>
       \A m \in Range(todo) : Position[n] < Position[m]

(* Whether a module is called in a phase depends on the scenario alone.        *)
LEMMA HasStays ==
  ASSUME scenario' = scenario, NEW p, NEW n
  PROVE  Has(p, n)' <=> Has(p, n)
<1>1. \A q : LoadedTypes(q, n)' = LoadedTypes(q, n)
  BY DEF LoadedTypes
<1>2. \A q : Acting(q, n)' = Acting(q, n)
  BY <1>1 DEF Acting
<1>3. \A q : Part(q, n)' = Part(q, n)
  BY <1>2 DEF Part
<1>4. Processing(n)' = Processing(n)
  BY <1>2 DEF Processing
<1> QED
  BY <1>3, <1>4 DEF Has

(* A list sorted by position is its first element and what comes after it.     *)
LEMMA HeadIs ==
  ASSUME GroupsArranged, NEW s \in Seq(Modules), s # <<>>, SortedBy(Position, s)
  PROVE  /\ Head(s) \in Range(s) /\ Head(s) \in Modules
         /\ Tail(s) \in Seq(Modules) /\ SortedBy(Position, Tail(s))
         /\ Range(Tail(s)) = Range(s) \ {Head(s)}
         /\ \A m \in Range(Tail(s)) : Position[Head(s)] < Position[m]
<1>1. /\ Len(s) \in Nat /\ Len(s) > 0
      /\ Range(s) = {s[i] : i \in 1..Len(s)}
      /\ Range(s) \subseteq Modules
  BY Elements, EmptySeq
<1>2. /\ Head(s) = s[1] /\ Tail(s) \in Seq(Modules) /\ Len(Tail(s)) = Len(s) - 1
      /\ \A i \in 1..(Len(s) - 1) : Tail(s)[i] = s[i + 1]
  BY <1>1, HeadTailProperties
<1>3. Range(Tail(s)) = {Tail(s)[i] : i \in 1..Len(Tail(s))}
  BY <1>2, Elements
<1>4. Head(s) \in Range(s)
  BY <1>1, <1>2
<1>5. SortedBy(Position, Tail(s))
  <2> SUFFICES ASSUME NEW i \in 1..(Len(s) - 1), NEW j \in 1..(Len(s) - 1), i < j
               PROVE  Position[Tail(s)[i]] < Position[Tail(s)[j]]
    BY <1>2 DEF SortedBy
  <2>1. i + 1 \in 1..Len(s) /\ j + 1 \in 1..Len(s) /\ i + 1 < j + 1
    BY <1>1
  <2> QED
    BY <1>2, <2>1 DEF SortedBy
<1>6. ASSUME NEW m \in Range(Tail(s))
      PROVE  m \in Range(s) /\ Position[Head(s)] < Position[m]
  <2>1. PICK i \in 1..(Len(s) - 1) : m = Tail(s)[i]
    BY <1>2, <1>3
  <2>2. i + 1 \in 1..Len(s) /\ m = s[i + 1] /\ 1 \in 1..Len(s) /\ 1 < i + 1
    BY <1>1, <1>2, <2>1
  <2> QED
    BY <1>1, <1>2, <2>2 DEF SortedBy
<1>7. ASSUME NEW m \in Range(s), m # Head(s)
      PROVE  m \in Range(Tail(s))
  <2>1. PICK i \in 1..Len(s) : m = s[i]
    BY <1>1
  <2>2. i # 1
    BY <1>2, <1>7, <2>1
  <2> DEFINE j == i - 1
  <2>3. j \in 1..(Len(s) - 1) /\ j + 1 = i
    BY <1>1, <2>2
  <2> HIDE DEF j
  <2>4. m = Tail(s)[j]
    BY <1>2, <2>1, <2>3
  <2> QED
    BY <1>2, <1>3, <2>3, <2>4
<1>8. Position[Head(s)] \in Nat
  BY <1>1, <1>4, PositionIs
<1>9. Head(s) \notin Range(Tail(s))
  BY <1>6, <1>8
<1> QED
  BY <1>1, <1>2, <1>4, <1>5, <1>6, <1>7, <1>9

-------------------------------------------------------------------------------
(* Each kind of step keeps the order of the calls.                             *)

(* The selected modules are those kept, in the order of all modules.           *)
LEMMA SelectedAre ==
  ASSUME GroupsArranged, Underway
  PROVE  /\ selected \in Seq(Modules) /\ SortedBy(Position, selected)
         /\ Selected \subseteq Modules
         /\ phase # "choose" => Selected = Kept(scenario)
         /\ phase = "choose" => Selected = {}
<1>1. CASE phase = "choose"
  <2>1. selected = <<>>
    BY <1>1 DEF Underway
  <2> QED
    BY <1>1, <2>1, EmptySeq DEF SortedBy, Selected, Range
<1>2. CASE phase # "choose"
  <2>1. selected = determine_modules(scenario.features, scenario.stages)
    BY <1>2 DEF Underway
  <2>2. /\ selected \in Seq(Modules) /\ Range(selected) = Kept(scenario)
        /\ SortedBy(Position, selected)
    BY <2>1, ChosenAre
  <2> QED
    BY <1>2, <2>2 DEF Selected, Kept
<1> QED
  BY <1>1, <1>2

(* The modules a phase starts with.                                            *)
LEMMA HavingIs ==
  ASSUME NEW list \in Seq(Modules), SortedBy(Position, list), NEW set
  PROVE  /\ Only(list, set) \in Seq(Modules)
         /\ SortedBy(Position, Only(list, set))
         /\ Range(Only(list, set)) = Range(list) \cap set
BY OnlyIs

(* Nothing is called before the modules are chosen.                            *)
LEMMA UnderwayInit == Init => Underway
<1> SUFFICES ASSUME Init PROVE Underway
  OBVIOUS
<1>1. Range(<<>>) = {} /\ <<>> \in Seq(Modules) /\ SortedBy(Position, <<>>)
  BY EmptySeq DEF Range, SortedBy
<1> QED
  BY <1>1 DEF Init, Underway, Selected

LEMMA PassedNone ==
  ASSUME NEW p \in Phases, phase = "choose"
  PROVE  Passed(p) = {}
BY DEF Passed, Finished, Phases, Rank

(* Choosing the modules: determine_modules.                                    *)
LEMMA ChooseKeeps ==
  ASSUME GroupsArranged, Underway, ChooseModules
  PROVE  /\ Underway'
         /\ \A p \in Phases : Passed(p) = {} /\ Passed(p)' = {}
<1> DEFINE chosen == determine_modules(scenario.features, scenario.stages)
<1>1. /\ phase = "choose" /\ phase' = "write" /\ selected' = chosen
      /\ scenario' = scenario /\ scenario \in Scenarios
      /\ todo' = Only(selected', {n \in Selected' : Has("write", n)'})
  BY DEF ChooseModules, Having, Underway
<1>2. /\ chosen \in Seq(Modules) /\ SortedBy(Position, chosen)
      /\ Selected' = Range(chosen)
  BY <1>1, ChosenAre DEF Selected
<1>3. /\ todo' \in Seq(Modules) /\ SortedBy(Position, todo')
      /\ Range(todo') = {n \in Selected' : Has("write", n)'}
  <2> HIDE DEF chosen
  <2>1. todo' = Only(chosen, {n \in Range(chosen) : Has("write", n)'})
    BY <1>1, <1>2
  <2>2. Range(todo') = Range(chosen) \cap {n \in Range(chosen) : Has("write", n)'}
    BY <1>2, <2>1, HavingIs
  <2> QED
    BY <1>2, <2>1, <2>2, HavingIs
<1>4. Underway'
  <2>1. /\ (phase' = "choose") = FALSE
        /\ selected' = determine_modules(scenario'.features, scenario'.stages)
    BY <1>1
  <2>2. \A n \in Selected' : Has("write", n)' => n \in Range(todo')
    BY <1>3
  <2> QED
    BY <1>1, <1>3, <2>1, <2>2 DEF Underway, Phases
<1>5. ASSUME NEW p \in Phases PROVE Passed(p) = {} /\ Passed(p)' = {}
  <2>1. Passed(p) = {}
    BY <1>1, PassedNone
  <2>2. ~(Rank["write"] > Rank[p])
    BY DEF Rank, Phases
  <2>3. \A n \in Selected' : Has("write", n)' => n \in Range(todo')
    BY <1>3
  <2>4. \A n \in Passed(p)' : FALSE
    BY <1>1, <2>2, <2>3 DEF Passed, Finished
  <2> QED
    BY <2>1, <2>4
<1> QED
  BY <1>4, <1>5

(* A call of a phase: the module called is passed, and no other.               *)
LEMMA CallKeeps ==
  ASSUME GroupsArranged, Underway, NEW p \in Phases, Call(p)
  PROVE  /\ Underway' /\ Selected' = Selected
         /\ Head(todo) \in Selected /\ Head(todo) \in Modules
         /\ Has(p, Head(todo))
         /\ Head(todo) \notin Passed(p)
         /\ \A n \in Selected : Has(p, n) =>
              \/ n \in Passed(p) /\ Position[n] < Position[Head(todo)]
              \/ n = Head(todo) \/ Position[Head(todo)] < Position[n]
         /\ Passed(p)' = Passed(p) \cup {Head(todo)}
         /\ \A q \in Phases : q # p => Passed(q)' = Passed(q)
<1> DEFINE h == Head(todo)
<1>1. /\ phase = p /\ phase' = p /\ todo # <<>> /\ todo' = Tail(todo)
      /\ scenario' = scenario /\ selected' = selected
      /\ todo \in Seq(Modules) /\ SortedBy(Position, todo)
  BY DEF Call, Underway
<1>2. /\ h \in Range(todo) /\ h \in Modules
      /\ todo' \in Seq(Modules) /\ SortedBy(Position, todo')
      /\ Range(todo') = Range(todo) \ {h}
      /\ \A m \in Range(todo') : Position[h] < Position[m]
  BY <1>1, HeadIs
<1>3. Selected' = Selected
  BY <1>1 DEF Selected
<1>4. /\ \A n \in Range(todo) : n \in Selected /\ Has(p, n)
      /\ \A n \in Selected : Has(p, n) /\ n \notin Range(todo) =>
           \A m \in Range(todo) : Position[n] < Position[m]
  BY <1>1 DEF Underway
<1>5. \A q, n : Has(q, n)' <=> Has(q, n)
  BY <1>1, HasStays
<1> HIDE DEF h
<1>6. Underway'
  <2>1. /\ scenario' \in Scenarios /\ phase' \in {"choose", "done"} \cup Phases
        /\ phase' \notin {"choose", "done"}
        /\ selected' = determine_modules(scenario'.features, scenario'.stages)
    BY <1>1 DEF Underway, Phases
  <2>2. \A n \in Range(todo') : n \in Selected' /\ Has(p, n)'
    BY <1>2, <1>3, <1>4, <1>5
  <2>3. \A n \in Selected' : Has(p, n)' /\ n \notin Range(todo') =>
          \A m \in Range(todo') : Position[n] < Position[m]
    BY <1>2, <1>3, <1>4, <1>5
  <2> QED
    BY <1>1, <1>2, <2>1, <2>2, <2>3 DEF Underway
<1>7. ~Finished(p) /\ ~Finished(p)'
  BY <1>1 DEF Finished, Rank, Phases
<1>8. Passed(p) = {n \in Selected : Has(p, n) /\ n \notin Range(todo)}
  BY <1>1, <1>7 DEF Passed
<1>9. Passed(p)' = {n \in Selected : Has(p, n) /\ n \notin Range(todo')}
  BY <1>1, <1>3, <1>5, <1>7 DEF Passed
<1>10. Passed(p)' = Passed(p) \cup {h}
  BY <1>2, <1>4, <1>8, <1>9
<1>11. ASSUME NEW q \in Phases, q # p
       PROVE  Passed(q)' = Passed(q)
  <2>1. Finished(q)' = Finished(q) /\ phase # q /\ phase' # q
    BY <1>1, <1>11 DEF Finished
  <2> QED
    BY <1>3, <1>5, <2>1 DEF Passed
<1>12. \A n \in Selected : Has(p, n) =>
         \/ n \in Passed(p) /\ Position[n] < Position[h]
         \/ n = h \/ Position[h] < Position[n]
  BY <1>2, <1>4, <1>8
<1> QED
  BY <1>2, <1>3, <1>4, <1>6, <1>8, <1>10, <1>11, <1>12 DEF h

(* The next phase starts with the modules that have its function.              *)
LEMMA StartKeeps ==
  ASSUME GroupsArranged, Underway, StartPhase
  PROVE  /\ Underway' /\ Selected' = Selected
         /\ \A p \in Phases : Passed(p)' = Passed(p)
<1>1. PICK p \in Phases : phase = p
  BY DEF StartPhase, NextPhase, Phases
<1> DEFINE q == NextPhase[p]
<1>2. /\ q \in Phases \cup {"done"} /\ q # p /\ p # "choose" /\ q # "choose"
      /\ \A r \in Phases : Rank[q] > Rank[r] <=> Rank[p] > Rank[r] \/ r = p
      /\ ~(Rank[p] > Rank[q])
  BY DEF NextPhase, Rank, Phases
<1> HIDE DEF q
<1>3. /\ phase = p /\ phase' = q /\ todo = <<>>
      /\ todo' = IF q = "done" THEN <<>>
                 ELSE Only(selected, {n \in Selected : Has(q, n)})
      /\ scenario' = scenario /\ selected' = selected
  BY <1>1 DEF StartPhase, Having, q
<1>4. Selected' = Selected
  BY <1>3 DEF Selected
<1>5. \A r, n : Has(r, n)' <=> Has(r, n)
  BY <1>3, HasStays
<1>6. Range(<<>>) = {} /\ <<>> \in Seq(Modules) /\ SortedBy(Position, <<>>)
  BY EmptySeq DEF Range, SortedBy
<1>7. /\ todo' \in Seq(Modules) /\ SortedBy(Position, todo')
      /\ q # "done" => Range(todo') = {n \in Selected : Has(q, n)}
  <2>1. CASE q = "done"
    BY <1>3, <1>6, <2>1
  <2>2. CASE q # "done"
    <3>1. todo' = Only(selected, {n \in Selected : Has(q, n)})
      BY <1>3, <2>2
    <3>2. /\ todo' \in Seq(Modules) /\ SortedBy(Position, todo')
          /\ Range(todo') = Range(selected) \cap {n \in Selected : Has(q, n)}
      BY <3>1, SelectedAre, HavingIs
    <3> QED
      BY <3>2 DEF Selected
  <2> QED
    BY <2>1, <2>2
<1>8. Underway'
  <2>1. /\ scenario' \in Scenarios /\ phase' \in {"choose", "done"} \cup Phases
        /\ phase' # "choose"
        /\ selected' = determine_modules(scenario'.features, scenario'.stages)
    BY <1>2, <1>3 DEF Underway
  <2>2. phase' \in {"choose", "done"} => todo' = <<>>
    BY <1>2, <1>3
  <2>3. \A n \in Range(todo') : n \in Selected' /\ Has(q, n)'
    BY <1>3, <1>4, <1>5, <1>6, <1>7
  <2>4. \A n \in Selected' : Has(q, n)' /\ n \notin Range(todo') =>
          \A m \in Range(todo') : Position[n] < Position[m]
    BY <1>3, <1>4, <1>5, <1>6, <1>7
  <2> QED
    BY <1>3, <1>7, <2>1, <2>2, <2>3, <2>4 DEF Underway
<1>9. ASSUME NEW r \in Phases
      PROVE  Passed(r)' = Passed(r)
  <2>1. Finished(r)' <=> Finished(r) \/ r = p
    BY <1>2, <1>3 DEF Finished
  <2>2. ~Finished(p) /\ (q \in Phases => ~Finished(q))
    BY <1>2, <1>3 DEF Finished, Rank, Phases
  <2>3. CASE r = p
    <3>1. Passed(r) = {n \in Selected : Has(r, n)}
      BY <1>3, <1>6, <2>3 DEF Passed
    <3>2. Passed(r)' = {n \in Selected : Has(r, n)}
      BY <1>4, <1>5, <2>1, <2>3 DEF Passed
    <3> QED
      BY <3>1, <3>2
  <2>4. CASE r # p /\ r = q
    <3>1. \A n \in Passed(r) : FALSE
      BY <1>3, <2>2, <2>4 DEF Passed
    <3>2. q # "done" /\ ~Finished(r)'
      BY <2>1, <2>2, <2>4 DEF Phases
    <3>3. \A n \in Passed(r)' : FALSE
      BY <1>4, <1>5, <1>7, <2>4, <3>2 DEF Passed
    <3> QED
      BY <3>1, <3>3
  <2>5. CASE r # p /\ r # q
    <3>1. Passed(r)' = {n \in Selected : Has(r, n) /\ Finished(r)}
      BY <1>3, <1>4, <1>5, <2>1, <2>5 DEF Passed
    <3>2. Passed(r) = {n \in Selected : Has(r, n) /\ Finished(r)}
      BY <1>3, <2>5 DEF Passed
    <3> QED
      BY <3>1, <3>2
  <2> QED
    BY <2>3, <2>4, <2>5
<1> QED
  BY <1>4, <1>8, <1>9

(* A step that changes nothing.                                                *)
LEMMA StutterKeeps ==
  ASSUME Underway, UNCHANGED vars
  PROVE  /\ Underway' /\ Selected' = Selected
         /\ \A p \in Phases : Passed(p)' = Passed(p)
<1>1. scenario' = scenario /\ phase' = phase /\ selected' = selected /\ todo' = todo
  BY DEF vars
<1>2. Selected' = Selected
  BY <1>1 DEF Selected
<1>3. \A r, n : Has(r, n)' <=> Has(r, n)
  BY <1>1, HasStays
<1>4. Underway'
  BY <1>1, <1>2, <1>3 DEF Underway
<1>5. \A p \in Phases : Passed(p)' = Passed(p)
  BY <1>1, <1>2, <1>3 DEF Passed, Finished
<1> QED
  BY <1>2, <1>4, <1>5

-------------------------------------------------------------------------------
(* Every step keeps the order of the calls.                                    *)

(* A step calls a module of the phase, or leaves what the phase does alone.    *)
LEMMA StepKeeps ==
  ASSUME GroupsArranged, Underway, [Next]_vars
  PROVE  /\ Underway' /\ scenario' = scenario
         /\ phase # "choose" => Selected' = Selected /\ phase' # "choose"
         /\ WriteInputs \/ (inputs' = inputs /\ Passed("write")' = Passed("write"))
         /\ DeclareComponents
              \/ (/\ components' = components /\ lists' = lists
                  /\ Passed("declare")' = Passed("declare"))
         /\ LoadData \/ (opened' = opened /\ Passed("load")' = Passed("load"))
         /\ BuildComponents
              \/ (built' = built /\ Passed("build")' = Passed("build"))
         /\ ExportResults
              \/ (/\ frames' = frames /\ saved' = saved
                  /\ Passed("export")' = Passed("export"))
         /\ ImportResults
              \/ (imported' = imported /\ Passed("import")' = Passed("import"))
         /\ ProcessResults
              \/ (/\ updated' = updated /\ aggregated' = aggregated
                  /\ Passed("process")' = Passed("process"))
<1> DEFINE Same(p) == Passed(p)' = Passed(p)
<1>0. /\ "write" \in Phases /\ "declare" \in Phases /\ "load" \in Phases
      /\ "build" \in Phases /\ "export" \in Phases /\ "import" \in Phases
      /\ "process" \in Phases
  BY DEF Phases
<1>1. CASE ChooseModules
  <2>1. Underway' /\ \A p \in Phases : Same(p)
    BY <1>1, ChooseKeeps
  <2>2. phase = "choose"
    BY <1>1 DEF ChooseModules
  <2> QED
    BY <1>0, <1>1, <2>1, <2>2 DEF ChooseModules
<1>2. ASSUME NEW p \in Phases, Call(p)
      PROVE  /\ Underway' /\ Selected' = Selected /\ phase' # "choose"
             /\ scenario' = scenario
             /\ \A q \in Phases : q # p => Same(q)
             /\ p # "process" => UNCHANGED <<updated, aggregated>>
  BY <1>2, CallKeeps DEF Call, Phases
<1>3. CASE WriteInputs
  <2>1. Call("write")
    BY <1>3 DEF WriteInputs
  <2> QED
    BY <1>0, <1>2, <1>3, <2>1 DEF WriteInputs
<1>4. CASE DeclareComponents
  <2>1. Call("declare")
    BY <1>4 DEF DeclareComponents
  <2> QED
    BY <1>0, <1>2, <1>4, <2>1 DEF DeclareComponents
<1>5. CASE LoadData
  <2>1. Call("load")
    BY <1>5 DEF LoadData
  <2> QED
    BY <1>0, <1>2, <1>5, <2>1 DEF LoadData
<1>6. CASE BuildComponents
  <2>1. Call("build")
    BY <1>6 DEF BuildComponents
  <2> QED
    BY <1>0, <1>2, <1>6, <2>1 DEF BuildComponents
<1>7. CASE ExportResults
  <2>1. /\ Call("export")
        /\ UNCHANGED <<inputs, opened, components, lists, built, imported>>
    BY <1>7 DEF ExportResults
  <2> QED
    BY <1>0, <1>2, <1>7, <2>1
<1>8. CASE ImportResults
  <2>1. Call("import")
    BY <1>8 DEF ImportResults
  <2> QED
    BY <1>0, <1>2, <1>8, <2>1 DEF ImportResults
<1>9. CASE ProcessResults
  <2>1. Call("process") /\ UNCHANGED <<inputs, opened, components, lists, built,
                                       frames, saved, imported>>
    BY <1>9 DEF ProcessResults
  <2> QED
    BY <1>0, <1>2, <1>9, <2>1
<1>10. CASE StartPhase
  <2>1. Underway' /\ Selected' = Selected /\ \A p \in Phases : Same(p)
    BY <1>10, StartKeeps
  <2>2. phase' # "choose"
    BY <1>10 DEF StartPhase, NextPhase
  <2> QED
    BY <1>0, <1>10, <2>1, <2>2 DEF StartPhase
<1>11. CASE UNCHANGED vars
  <2>1. Underway' /\ Selected' = Selected /\ \A p \in Phases : Same(p)
    BY <1>11, StutterKeeps
  <2> QED
    BY <1>0, <1>11, <2>1 DEF vars
<1>12. CASE Done
  BY <1>11, <1>12 DEF Done
<1> QED
  BY <1>1, <1>3, <1>4, <1>5, <1>6, <1>7, <1>8, <1>9, <1>10, <1>11, <1>12
     DEF Next
-------------------------------------------------------------------------------
(* What a role of the scenario brings is there.                                *)
LEMMA InUse ==
  ASSUME GroupsArranged, Underway, phase # "choose",
         NEW n \in Selected, NEW u \in {n} \cup scenario.types,
         NEW q, NEW y \in Roles(q), Brings(<<n, u>>, y)
  PROVE  /\ y[1] \in Selected /\ y[2] \in Acting(q, y[1])
         /\ y = <<y[1], y[2]>> /\ y[2] \in {y[1]} \cup scenario.types
<1>1. Selected = Kept(scenario) /\ Selected \subseteq Modules /\ Fits(scenario)
  BY SelectedAre, ScenariosFit DEF Underway
<1> DEFINE x == <<n, u>>
<1>2. x[1] \in Modules /\ Plays(scenario, x)
  BY <1>1 DEF Plays
<1>3. Brings(x, y)
  OBVIOUS
<1> HIDE DEF x
<1>4. Plays(scenario, y)
  BY <1>1, <1>2, <1>3, BroughtPlays
<1>5. y[1] \in Modules /\ y = <<y[1], y[2]>>
  BY RolePair
<1> QED
  BY <1>1, <1>4, <1>5, ActingPlays DEF Plays

(* A module that comes before the one called has been called.                  *)
LEMMA Reached ==
  ASSUME GroupsArranged, Underway, NEW p \in Phases, Calling(p),
         NEW n \in Selected, Has(p, n), Position[n] <= Position[Head(todo)]
  PROVE  n \in Passed(p) \/ n = Head(todo)
<1>1. /\ phase = p /\ todo # <<>> /\ todo \in Seq(Modules)
      /\ SortedBy(Position, todo)
  BY DEF Calling, Underway
<1>2. /\ Head(todo) \in Range(todo) /\ Head(todo) \in Modules
      /\ Range(Tail(todo)) = Range(todo) \ {Head(todo)}
      /\ \A m \in Range(Tail(todo)) : Position[Head(todo)] < Position[m]
  BY <1>1, HeadIs
<1>3. n \in Modules
  BY SelectedAre
<1>4. Position[n] \in Nat /\ Position[Head(todo)] \in Nat
  BY <1>2, <1>3, PositionIs
<1>5. n \notin Range(Tail(todo))
  BY <1>2, <1>4
<1> QED
  BY <1>1, <1>2, <1>5 DEF Passed

(* The module called comes after those called before it.                       *)
LEMMA HeadCalled ==
  ASSUME GroupsArranged, Underway, NEW p \in Phases, Calling(p)
  PROVE  Head(todo) \in Selected /\ Head(todo) \in Modules
         /\ Has(p, Head(todo)) /\ phase # "choose"
         /\ \A n \in Passed(p) : Position[n] < Position[Head(todo)]
<1>1. /\ phase = p /\ todo # <<>> /\ todo \in Seq(Modules)
      /\ SortedBy(Position, todo)
  BY DEF Calling, Underway
<1>2. Head(todo) \in Range(todo) /\ Head(todo) \in Modules
  BY <1>1, HeadIs
<1>3. Head(todo) \in Selected /\ Has(p, Head(todo))
  BY <1>1, <1>2 DEF Underway
<1>4. ~Finished(p)
  BY <1>1 DEF Finished, Rank, Phases
<1>5. \A n \in Passed(p) : Position[n] < Position[Head(todo)]
  BY <1>1, <1>2, <1>4 DEF Passed, Underway
<1> QED
  BY <1>1, <1>2, <1>3, <1>5 DEF Phases

(* A phase that has ended has called every module that has its function.       *)
LEMMA AllPassed ==
  ASSUME NEW p \in Phases, Finished(p) \/ Ended(p), NEW n \in Selected, Has(p, n)
  PROVE  n \in Passed(p)
BY DEF Passed, Ended, Range

(* What does something is called.                                              *)
LEMMA HasIf ==
  ASSUME NEW n, NEW p, NEW u \in Acting(p, n)
  PROVE  /\ p = "declare" /\ ModuleParts[u].model # NoModel =>
              Has("declare", n) /\ Has("build", n)
         /\ p = "write" /\ ModuleParts[u].writes # NoWrites => Has("write", n)
         /\ p = "load" /\ ModuleParts[u].loads # NoLoads => Has("load", n)
         /\ p = "export" /\ ModuleParts[u].results # NoResults =>
              Has("export", n)
         /\ p = "import" /\ ModuleParts[u].imports # {} => Has("import", n)
         /\ p = "process" /\ u \in DOMAIN ProcessParts => Has("process", n)
<1>1. ModuleParts[u] \in Part(p, n)
  BY DEF Part
<1>2. p = "process" /\ u \in DOMAIN ProcessParts => u \in Processing(n)
  BY DEF Processing
<1> QED
  BY <1>1, <1>2 DEF Has

(* Who acts for a module depends on the scenario alone.                        *)
LEMMA ActingStays ==
  ASSUME scenario' = scenario, NEW p, NEW n
  PROVE  Acting(p, n)' = Acting(p, n) /\ Part(p, n)' = Part(p, n)
         /\ LoadedTypes(p, n)' = LoadedTypes(p, n)
<1>1. LoadedTypes(p, n)' = LoadedTypes(p, n)
  BY DEF LoadedTypes
<1>2. Acting(p, n)' = Acting(p, n)
  BY <1>1 DEF Acting
<1>3. Part(p, n)' = Part(p, n)
  BY <1>2 DEF Part
<1> QED
  BY <1>1, <1>2, <1>3
-------------------------------------------------------------------------------
(* The order of the calls, in every state.                                     *)
LEMMA UnderwayAlways ==
  ASSUME GroupsArranged
  PROVE  Spec => []Underway
<1>1. Init => Underway
  BY UnderwayInit
<1>2. Underway /\ [Next]_vars => Underway'
  BY StepKeeps
<1> QED
  BY <1>1, <1>2, PTL DEF Spec

(* What determine_modules lists for removal is in the list it removes from,    *)
(* once, whatever features the scenario has: modules.remove never raises, and  *)
(* no module it means to leave out stays (RemovalsFindTheirModule).            *)
THEOREM RemovalsFound ==
  ASSUME Arranged
  PROVE  Spec => []RemovalsFindTheirModule
<1>1. GroupsArranged
  BY DEF Arranged
<1>2. Underway => RemovalsFindTheirModule
  <2> SUFFICES ASSUME Underway, phase = "write"
               PROVE  LET removals == Removals(scenario.features, scenario.stages)
                      IN /\ IsInjective(all_modules_list)
                         /\ IsInjective(removals)
                         /\ Range(removals) = Modules \ Selected
    BY DEF RemovalsFindTheirModule
  <2>1. Selected = Kept(scenario) /\ scenario.stages \in BOOLEAN
    BY <1>1, SelectedAre, ScenariosFit DEF Underway, Fits
  <2> DEFINE removals == Removals(scenario.features, scenario.stages)
  <2>2. removals \in Seq(Modules) /\ IsInjective(removals)
    BY <1>1, <2>1, RemovalsAre
  <2>3. Range(removals) \subseteq Modules
    BY <2>2, Elements
  <2>4. IsInjective(all_modules_list)
    BY <1>1 DEF GroupsArranged
  <2> QED
    BY <2>1, <2>2, <2>3, <2>4 DEF Kept
<1>3. Spec => []Underway
  BY <1>1, UnderwayAlways
<1> QED
  BY <1>2, <1>3, PTL

-------------------------------------------------------------------------------
(* What there is when some of the modules have been called.                    *)

Writing(n) ==
  LET mayWrite == UNION {part.writes.mayWrite : part \in Part("write", n)}
  IN (UNION {part.writes.writes : part \in Part("write", n)})
     \cup (IF scenario.rows THEN mayWrite ELSE mayWrite \cap AlwaysRows)
Adding(n) == UNION {part.model.adds : part \in Part("declare", n)}

(* What is there is what the modules called so far have put there.             *)
InputsWritten == inputs = UNION {Writing(n) : n \in Passed("write")}
ComponentsDeclared ==
  components = UNION {Declares(n) : n \in Passed("declare")}
ListsFilled == lists = UNION {Adding(n) : n \in Passed("declare")}
DataLoaded ==
  \A n \in Passed("load") : Must(n) \cup (May(n) \cap inputs) \subseteq opened
ModelBuilt == \A n \in Passed("build") : Declares(n) \subseteq built

(* A call, as the parts of the invariant below use it.                         *)
LEMMA CalledPasses ==
  ASSUME GroupsArranged, Underway, NEW p \in Phases, Call(p)
  PROVE  /\ Passed(p)' = Passed(p) \cup {Head(todo)}
         /\ Calling(p) /\ scenario' = scenario
         /\ \A n \in Passed(p) : Position[n] < Position[Head(todo)]
<1>1. Calling(p) /\ scenario' = scenario
  BY DEF Call, Calling
<1> QED
  BY <1>1, CallKeeps, HeadCalled

(* There is nothing before the first call.                                     *)
LEMMA NothingInit ==
  ASSUME Init
  PROVE  InputsWritten /\ ComponentsDeclared /\ ListsFilled /\ DataLoaded
         /\ ModelBuilt
<1>1. \A p \in Phases : Passed(p) = {}
  BY PassedNone DEF Init
<1> QED
  BY <1>1 DEF Init, Phases, InputsWritten, ComponentsDeclared, ListsFilled,
              DataLoaded, ModelBuilt

(* write_model_inputs writes its files and takes none away.                    *)
LEMMA InputsStep ==
  ASSUME GroupsArranged, Underway, [Next]_vars, InputsWritten
  PROVE  InputsWritten'
<1>1. \A n : Writing(n)' = Writing(n)
  <2> TAKE n
  <2>1. Part("write", n)' = Part("write", n) /\ scenario' = scenario
    BY StepKeeps, ActingStays
  <2> QED
    BY <2>1 DEF Writing
<1>2. CASE WriteInputs
  <2>1. Call("write") /\ inputs' = inputs \cup Writing(Head(todo))
    BY <1>2 DEF WriteInputs, Writing
  <2>2. Passed("write")' = Passed("write") \cup {Head(todo)}
    BY <2>1, CalledPasses DEF Phases
  <2> QED
    BY <1>1, <2>1, <2>2 DEF InputsWritten
<1>3. CASE ~WriteInputs
  <2>1. inputs' = inputs /\ Passed("write")' = Passed("write")
    BY <1>3, StepKeeps
  <2> QED
    BY <1>1, <2>1 DEF InputsWritten
<1> QED
  BY <1>2, <1>3

(* What a module declares depends on the scenario alone.                       *)
LEMMA DeclaresStays ==
  ASSUME scenario' = scenario, NEW n
  PROVE  /\ Declares(n)' = Declares(n) /\ Adding(n)' = Adding(n)
         /\ Must(n)' = Must(n) /\ May(n)' = May(n)
<1>1. Part("declare", n)' = Part("declare", n) /\ Part("load", n)' = Part("load", n)
  BY ActingStays
<1> QED
  BY <1>1 DEF Declares, Adding, Must, May

(* add_model_components declares the components, in place of those it          *)
(* replaces.                                                                   *)
LEMMA ComponentsStep ==
  ASSUME GroupsArranged, Underway, [Next]_vars, ComponentsDeclared
  PROVE  ComponentsDeclared'
<1>1. \A n : Declares(n)' = Declares(n)
  BY StepKeeps, DeclaresStays
<1>2. CASE DeclareComponents
  <2>1. Call("declare") /\ components' = components \cup Declares(Head(todo))
    BY <1>2 DEF DeclareComponents
  <2>2. Passed("declare")' = Passed("declare") \cup {Head(todo)}
    BY <2>1, CalledPasses DEF Phases
  <2> QED
    BY <1>1, <2>1, <2>2 DEF ComponentsDeclared
<1>3. CASE ~DeclareComponents
  <2>1. components' = components /\ Passed("declare")' = Passed("declare")
    BY <1>3, StepKeeps
  <2> QED
    BY <1>1, <2>1 DEF ComponentsDeclared
<1> QED
  BY <1>2, <1>3

(* A list is made anew before any module has added to it.                      *)
LEMMA ListsGrow ==
  ASSUME GroupsArranged, ListsArranged, Underway, ListsFilled,
         DeclareComponents
  PROVE  /\ lists' = lists \cup Adding(Head(todo))
         /\ Call("declare")
<1> DEFINE h == Head(todo)
<1>1. /\ Call("declare")
      /\ lists' = {pair \in lists : pair[1] \notin ClearedLists(h)}
                    \cup Adding(h)
  BY DEF DeclareComponents, Adding
<1>2. /\ \A n \in Passed("declare") : Position[n] < Position[h]
      /\ Calling("declare")
  BY <1>1, CalledPasses DEF Phases
<1>3. h \in Modules
  BY <1>2, HeadCalled DEF Phases
<1>4. ASSUME NEW pair \in lists
      PROVE  pair[1] \notin ClearedLists(h)
  <2>1. PICK n \in Passed("declare") : pair \in Adding(n)
    BY DEF ListsFilled
  <2>2. n \in Modules
    BY SelectedAre DEF Passed
  <2>3. PICK u \in Acting("declare", n) : pair \in ModuleParts[u].model.adds
    BY <2>1 DEF Adding, Part
  <2>4. <<n, u>> \in Roles("declare")
    BY <2>2, <2>3, ActingPlays
  <2>5. pair \in Model(<<n, u>>).adds
    BY <2>3 DEF Model
  <2>6. pair[1] \in ClearedLists(h) => Position[n] >= Position[h]
    BY <1>3, <2>4, <2>5 DEF ListsArranged
  <2>7. Position[n] < Position[h] /\ Position[n] \in Nat /\ Position[h] \in Nat
    BY <1>2, <1>3, <2>1, <2>2, PositionIs
  <2> QED
    BY <2>6, <2>7
<1> QED
  BY <1>1, <1>4

(* A list of dynamic components loses nothing: who clears it does so before    *)
(* anything is added.                                                          *)
LEMMA ListsStep ==
  ASSUME GroupsArranged, ListsArranged, Underway, [Next]_vars, ListsFilled
  PROVE  ListsFilled' /\ lists \subseteq lists'
<1>1. \A n : Adding(n)' = Adding(n)
  BY StepKeeps, DeclaresStays
<1>2. CASE DeclareComponents
  <2>1. Call("declare") /\ lists' = lists \cup Adding(Head(todo))
    BY <1>2, ListsGrow
  <2>2. Passed("declare")' = Passed("declare") \cup {Head(todo)}
    BY <2>1, CalledPasses DEF Phases
  <2> QED
    BY <1>1, <2>1, <2>2 DEF ListsFilled
<1>3. CASE ~DeclareComponents
  <2>1. lists' = lists /\ Passed("declare")' = Passed("declare")
    BY <1>3, StepKeeps
  <2> QED
    BY <1>1, <2>1 DEF ListsFilled
<1> QED
  BY <1>2, <1>3

(* load_model_data opens what it must, and what it may if it is there.         *)
LEMMA LoadedStep ==
  ASSUME GroupsArranged, Underway, [Next]_vars, DataLoaded
  PROVE  DataLoaded'
<1>1. \A n : Must(n)' = Must(n) /\ May(n)' = May(n)
  BY StepKeeps, DeclaresStays
<1>2. CASE LoadData
  <2>1. /\ Call("load") /\ inputs' = inputs
        /\ opened' = opened \cup Must(Head(todo)) \cup (May(Head(todo)) \cap inputs)
    BY <1>2 DEF LoadData
  <2>2. Passed("load")' = Passed("load") \cup {Head(todo)}
    BY <2>1, CalledPasses DEF Phases
  <2> QED
    BY <1>1, <2>1, <2>2 DEF DataLoaded
<1>3. CASE ~LoadData
  <2>1. opened' = opened /\ Passed("load")' = Passed("load")
    BY <1>3, StepKeeps
  <2>2. CASE WriteInputs
    <3>1. phase = "write"
      BY <2>2 DEF WriteInputs, Call
    <3>2. \A n \in Passed("load") : FALSE
      BY <3>1 DEF Passed, Finished, Rank
    <3> QED
      BY <2>1, <3>2 DEF DataLoaded
  <2>3. CASE ~WriteInputs
    <3>1. inputs' = inputs
      BY <2>3, StepKeeps
    <3> QED
      BY <1>1, <2>1, <3>1 DEF DataLoaded
  <2> QED
    BY <2>2, <2>3
<1> QED
  BY <1>2, <1>3

(* create_abstract_model: what is declared is built.                           *)
LEMMA BuiltStep ==
  ASSUME GroupsArranged, Underway, [Next]_vars, ModelBuilt
  PROVE  ModelBuilt'
<1>1. \A n : Declares(n)' = Declares(n)
  BY StepKeeps, DeclaresStays
<1>2. CASE BuildComponents
  <2>1. Call("build") /\ built' = built \cup Declares(Head(todo))
    BY <1>2 DEF BuildComponents
  <2>2. Passed("build")' = Passed("build") \cup {Head(todo)}
    BY <2>1, CalledPasses DEF Phases
  <2> QED
    BY <1>1, <2>1, <2>2 DEF ModelBuilt
<1>3. CASE ~BuildComponents
  <2>1. built' = built /\ Passed("build")' = Passed("build")
    BY <1>3, StepKeeps
  <2> QED
    BY <1>1, <2>1 DEF ModelBuilt
<1> QED
  BY <1>2, <1>3

Formulated ==
  Underway /\ InputsWritten /\ ComponentsDeclared /\ ListsFilled /\ DataLoaded
  /\ ModelBuilt

(* What there is, in every state, up to the building of the model.             *)
LEMMA FormulatedAlways ==
  ASSUME GroupsArranged, ListsArranged
  PROVE  Spec => []Formulated
<1>1. Init => Formulated
  BY UnderwayInit, NothingInit DEF Formulated
<1>2. Formulated /\ [Next]_vars => Formulated'
  BY StepKeeps, InputsStep, ComponentsStep, ListsStep, LoadedStep, BuiltStep
     DEF Formulated
<1> QED
  BY <1>1, <1>2, PTL DEF Spec

-------------------------------------------------------------------------------
(* The components are there.                                                   *)

(* A unit that acts for a selected module plays a role.                        *)
LEMMA ActingRole ==
  ASSUME GroupsArranged, Underway, NEW p, NEW n \in Selected,
         NEW u \in Acting(p, n)
  PROVE  /\ <<n, u>> \in Roles(p) /\ n \in Modules
         /\ u \in {n} \cup scenario.types
BY SelectedAre, ActingPlays

(* Who declares a component, and that its module is then called.               *)
LEMMA DeclaresIs ==
  ASSUME NEW n, NEW c
  PROVE  c \in Declares(n) <=>
           \E u \in Acting("declare", n) : c \in ModuleParts[u].model.declares
BY DEF Declares, Part

LEMMA DeclaresHas ==
  ASSUME NEW n, NEW u \in Acting("declare", n),
         ModuleParts[u].model.declares # {} \/ ModuleParts[u].model.adds # {}
  PROVE  Has("declare", n) /\ Has("build", n)
<1>1. ModuleParts[u].model # NoModel
  BY DEF NoModel
<1> QED
  BY <1>1, HasIf

(* What is declared no later than the module called is declared, or built.     *)
LEMMA DeclaredInTime ==
  ASSUME GroupsArranged, Underway,
         NEW p \in {"declare", "build"}, Calling(p),
         NEW n \in Selected, NEW u \in {n} \cup scenario.types,
         NEW c, Declared(<<n, u>>, c, Head(todo))
  PROVE  \E m \in Passed(p) \cup {Head(todo)} : c \in Declares(m)
<1>1. PICK y \in Roles("declare") :
        /\ c \in Model(y).declares /\ Position[y[1]] <= Position[Head(todo)]
        /\ Brings(<<n, u>>, y)
  BY DEF Declared
<1>2. p \in Phases /\ phase # "choose"
  BY HeadCalled DEF Phases
<1>3. y[1] \in Selected /\ y[2] \in Acting("declare", y[1])
  BY <1>1, <1>2, InUse
<1>4. c \in Declares(y[1]) /\ Has(p, y[1])
  BY <1>1, <1>3, DeclaresIs, DeclaresHas DEF Model
<1>5. y[1] \in Passed(p) \/ y[1] = Head(todo)
  BY <1>1, <1>2, <1>3, <1>4, Reached
<1> QED
  BY <1>4, <1>5

(* What a role that is played needs declared by module n is built by then.     *)
LEMMA BuiltInTime ==
  ASSUME GroupsArranged, Formulated, Calling("build"),
         NEW n \in Selected, NEW u \in {n} \cup scenario.types,
         NEW c, Declared(<<n, u>>, c, Head(todo))
  PROVE  c \in built \cup Declares(Head(todo))
<1>1. Underway /\ ModelBuilt
  BY DEF Formulated
<1>2. \E m \in Passed("build") \cup {Head(todo)} : c \in Declares(m)
  BY <1>1, DeclaredInTime
<1> QED
  BY <1>1, <1>2 DEF ModelBuilt

(* A component that another replaces is there.                                 *)
LEMMA OverIsThere ==
  ASSUME Arranged, Formulated
  PROVE  DeclaredBeforeUse
<1> DEFINE h == Head(todo)
<1>0. GroupsArranged /\ ComponentsArranged /\ Underway /\ ComponentsDeclared
  BY DEF Arranged, Formulated
<1> SUFFICES ASSUME Calling("declare"), NEW c \in Over(h)
             PROVE  c \in components \cup Declares(h)
  BY DEF DeclaredBeforeUse
<1>1. h \in Selected
  BY <1>0, HeadCalled DEF Phases
<1>2. PICK u \in Acting("declare", h) : c \in ModuleParts[u].model.over
  BY DEF Over, Part
<1>3. <<h, u>> \in Roles("declare") /\ u \in {h} \cup scenario.types
  BY <1>0, <1>1, <1>2, ActingRole
<1> HIDE DEF h
<1>4. c \in Model(<<h, u>>).over
  BY <1>2 DEF Model
<1>5. Declared(<<h, u>>, c, h)
  <2> DEFINE x == <<h, u>>
  <2>1. x \in Roles("declare") /\ x[1] = h /\ c \in Model(x).over
    BY <1>3, <1>4
  <2> HIDE DEF x
  <2>2. Declared(x, c, h)
    BY <1>0, <2>1 DEF ComponentsArranged
  <2> QED
    BY <2>2 DEF x
<1>6. \E m \in Passed("declare") \cup {h} : c \in Declares(m)
  BY <1>0, <1>1, <1>3, <1>5, DeclaredInTime DEF h
<1> QED
  BY <1>0, <1>6 DEF ComponentsDeclared

(* No component is declared twice, unless to replace the first.                *)
LEMMA DeclaredIsNew ==
  ASSUME Arranged, Formulated
  PROVE  DeclaredOnce
<1> DEFINE h == Head(todo)
<1>0. GroupsArranged /\ ComponentsArranged /\ Underway /\ ComponentsDeclared
  BY DEF Arranged, Formulated
<1> SUFFICES ASSUME Calling("declare")
             PROVE  /\ Declares(h) \cap components = {}
                    /\ \A u, v \in Acting("declare", h) :
                         u # v => ModuleParts[u].model.declares
                                    \cap ModuleParts[v].model.declares = {}
  BY DEF DeclaredOnce
<1>1. /\ h \in Selected
      /\ \A m \in Passed("declare") : Position[m] < Position[h]
  BY <1>0, HeadCalled DEF Phases
<1> HIDE DEF h
<1>2. ASSUME NEW m \in Selected, NEW v \in Acting("declare", m),
             NEW u \in Acting("declare", h), <<h, u>> # <<m, v>>
      PROVE  ModuleParts[u].model.declares \cap ModuleParts[v].model.declares = {}
  <2>1. <<h, u>> \in Roles("declare") /\ <<m, v>> \in Roles("declare")
    BY <1>0, <1>1, ActingRole
  <2>2. Model(<<h, u>>).declares \cap Model(<<m, v>>).declares = {}
    BY <1>0, <1>2, <2>1 DEF ComponentsArranged
  <2> QED
    BY <2>2 DEF Model
<1>3. ASSUME NEW c \in Declares(h), c \in components
      PROVE  FALSE
  <2>1. PICK m \in Passed("declare") : c \in Declares(m)
    BY <1>0, <1>3 DEF ComponentsDeclared
  <2>2. PICK u \in Acting("declare", h) : c \in ModuleParts[u].model.declares
    BY DeclaresIs
  <2>3. PICK v \in Acting("declare", m) : c \in ModuleParts[v].model.declares
    BY <2>1, DeclaresIs
  <2>4. m \in Selected /\ m \in Modules /\ h \in Modules
    BY <1>0, <1>1, SelectedAre DEF Passed
  <2>5. m # h
    BY <1>0, <1>1, <2>4, PositionIs
  <2> QED
    BY <1>2, <2>2, <2>3, <2>4, <2>5
<1> QED
  BY <1>1, <1>2, <1>3

(* What a module uses if the model has it is built before the module asks.     *)
LEMMA GuardedIsBuilt ==
  ASSUME Arranged, Formulated
  PROVE  GuardedReadNotMissed
<1> DEFINE h == Head(todo)
<1>0. GroupsArranged /\ ComponentsArranged /\ Underway /\ ComponentsDeclared
      /\ ModelBuilt
  BY DEF Arranged, Formulated
<1> SUFFICES ASSUME Calling("build"), NEW c \in ReadsIf(h), c \in components
             PROVE  c \in built \cup Declares(h)
  BY DEF GuardedReadNotMissed
<1>1. h \in Selected
  BY <1>0, HeadCalled DEF Phases
<1>2. PICK u \in Acting("declare", h) : c \in ModuleParts[u].model.readsIf
  BY DEF ReadsIf, Part
<1>3. PICK m \in Passed("declare") : c \in Declares(m)
  BY <1>0 DEF ComponentsDeclared
<1>4. PICK v \in Acting("declare", m) : c \in ModuleParts[v].model.declares
  BY <1>3, DeclaresIs
<1>5. m \in Selected
  BY <1>3 DEF Passed
<1>6. Has("build", m)
  BY <1>4, DeclaresHas
<1>7. <<h, u>> \in Roles("declare") /\ <<m, v>> \in Roles("declare")
  BY <1>0, <1>1, <1>5, ActingRole
<1> HIDE DEF h
<1>8. Model(<<h, u>>).readsIf \cap Model(<<m, v>>).declares # {}
  BY <1>2, <1>4 DEF Model
<1>9. Position[m] <= Position[h]
  BY <1>0, <1>7, <1>8 DEF ComponentsArranged
<1>10. m \in Passed("build") \/ m = h
  BY <1>0, <1>5, <1>6, <1>9, Reached DEF Phases, h
<1> QED
  BY <1>0, <1>3, <1>10 DEF ModelBuilt

(* What a module uses is built before it, whichever way it uses it: on its     *)
(* own, through a type, through a list, or in a function it calls.             *)
LEMMA ReadIsBuilt ==
  ASSUME Arranged, Formulated
  PROVE  BuiltBeforeRead
<1> DEFINE h == Head(todo)
<1>0. GroupsArranged /\ ComponentsArranged /\ Underway /\ ListsFilled
  BY DEF Arranged, Formulated
<1> SUFFICES ASSUME Calling("build"), NEW c \in Reads(h), c \notin NeverDeclared
             PROVE  c \in built \cup Declares(h)
  BY DEF BuiltBeforeRead
<1>1. h \in Selected /\ h \in Modules
  BY <1>0, HeadCalled DEF Phases
<1>2. ASSUME NEW u \in Acting("declare", h)
      PROVE  <<h, u>> \in Roles("declare") /\ u \in {h} \cup scenario.types
  BY <1>0, <1>1, <1>2, ActingRole
<1>3. ASSUME NEW n \in Selected, NEW u \in {n} \cup scenario.types,
             Declared(<<n, u>>, c, h)
      PROVE  c \in built \cup Declares(h)
  BY <1>0, <1>3, BuiltInTime
<1>4. \/ c \in UNION {part.model.reads : part \in Part("declare", h)}
      \/ \E r \in UNION {part.model.readsFor : part \in Part("declare", h)} :
           r[1] \in scenario.types /\ c = r[2]
      \/ \E pair \in lists : pair[1] \in Takes(h) /\ c = pair[2]
      \/ \E call \in Called(h) : c \in Functions[call[1]][call[2]]
  BY DEF Reads
<1> HIDE DEF h
<1>5. CASE c \in UNION {part.model.reads : part \in Part("declare", h)}
  <2>1. PICK u \in Acting("declare", h) : c \in ModuleParts[u].model.reads
    BY <1>5 DEF Part
  <2> DEFINE x == <<h, u>>
  <2>2. x \in Roles("declare") /\ x[1] = h /\ c \in Model(x).reads
    BY <1>2, <2>1 DEF Model
  <2> HIDE DEF x
  <2>3. Declared(x, c, h)
    BY <1>0, <2>2 DEF ComponentsArranged
  <2> QED
    BY <1>1, <1>2, <1>3, <2>3 DEF x
<1>6. CASE \E r \in UNION {part.model.readsFor : part \in Part("declare", h)} :
             r[1] \in scenario.types /\ c = r[2]
  <2>1. PICK u \in Acting("declare", h) :
          \E r \in ModuleParts[u].model.readsFor :
            r[1] \in scenario.types /\ c = r[2]
    BY <1>6 DEF Part
  <2>2. PICK r \in ModuleParts[u].model.readsFor :
          r[1] \in scenario.types /\ c = r[2]
    BY <2>1
  <2> DEFINE x == <<h, u>>
  <2>3. x \in Roles("declare") /\ x[1] = h /\ r \in Model(x).readsFor
    BY <1>2, <2>2 DEF Model
  <2> HIDE DEF x
  <2>4. Declared(<<h, r[1]>>, c, h)
    BY <1>0, <2>2, <2>3 DEF ComponentsArranged
  <2> QED
    BY <1>1, <1>3, <2>2, <2>4
<1>7. CASE \E pair \in lists : pair[1] \in Takes(h) /\ c = pair[2]
  <2>1. PICK pair \in lists : pair[1] \in Takes(h) /\ c = pair[2]
    BY <1>7
  <2>2. PICK m \in Passed("declare") : pair \in Adding(m)
    BY <1>0, <2>1 DEF ListsFilled
  <2>3. PICK v \in Acting("declare", m) : pair \in ModuleParts[v].model.adds
    BY <2>2 DEF Adding, Part
  <2>4. PICK u \in Acting("declare", h) : pair[1] \in ModuleParts[u].model.takes
    BY <2>1 DEF Takes, Part
  <2>5. m \in Selected
    BY <2>2 DEF Passed
  <2> DEFINE x == <<h, u>>  y == <<m, v>>
  <2>6. x \in Roles("declare") /\ x[1] = h /\ pair[1] \in Model(x).takes
    BY <1>2, <2>4 DEF Model
  <2>7. /\ y \in Roles("declare") /\ pair \in Model(y).adds
        /\ v \in {m} \cup scenario.types
    BY <1>0, <2>3, <2>5, ActingRole DEF Model
  <2> HIDE DEF x, y
  <2>8. Declared(y, c, h)
    BY <1>0, <2>1, <2>6, <2>7 DEF ComponentsArranged
  <2> QED
    BY <1>3, <2>5, <2>7, <2>8 DEF y
<1>8. CASE \E call \in Called(h) : c \in Functions[call[1]][call[2]]
  <2>1. PICK call \in CallsOf(h) :
          \E t \in TypesOf[call[1]] \cap scenario.types :
            call[2] \in Offered(t) /\ c \in Functions[t][call[2]]
    BY <1>8 DEF Called
  <2>2. PICK t \in TypesOf[call[1]] \cap scenario.types :
          call[2] \in Offered(t) /\ c \in Functions[t][call[2]]
    BY <2>1
  <2>3. PICK u \in Acting("declare", h) :
          call \in ModuleParts[u].model.calls \cup ModuleParts[u].model.expects
    BY <2>1 DEF CallsOf, Part
  <2> DEFINE x == <<h, u>>
  <2>4. /\ x \in Roles("declare") /\ x[1] = h
        /\ call \in Model(x).calls \cup Model(x).expects
    BY <1>2, <2>3 DEF Model
  <2> HIDE DEF x
  <2>5. Declared(<<h, t>>, c, h)
    BY <1>0, <2>2, <2>4 DEF ComponentsArranged
  <2> QED
    BY <1>1, <1>3, <2>2, <2>5
<1> QED
  BY <1>4, <1>5, <1>6, <1>7, <1>8

-------------------------------------------------------------------------------
(* The functions, the lists and the files are there.                           *)

(* A function that a module calls on a type without a default is there.        *)
LEMMA ExpectedIsThere ==
  ASSUME Arranged, Formulated
  PROVE  ExpectedIsOffered
<1> DEFINE h == Head(todo)
<1>0. GroupsArranged /\ FunctionsArranged /\ Underway
  BY DEF Arranged, Formulated
<1> SUFFICES ASSUME Calling("build"), NEW part \in Part("declare", h),
                    NEW call \in part.model.expects,
                    NEW t \in TypesOf[call[1]] \cap scenario.types
             PROVE  call[2] \in Offered(t)
  BY DEF ExpectedIsOffered
<1>1. h \in Selected
  BY <1>0, HeadCalled DEF Phases
<1>2. PICK u \in Acting("declare", h) : part = ModuleParts[u]
  BY DEF Part
<1>3. <<h, u>> \in Roles("declare")
  BY <1>0, <1>1, <1>2, ActingRole
<1>4. call \in Model(<<h, u>>).expects
  BY <1>2 DEF Model
<1> QED
  BY <1>0, <1>3, <1>4 DEF FunctionsArranged

(* With every feature and type in use, every role is played.                   *)
LEMMA EverythingInUse ==
  ASSUME GroupsArranged, FunctionsArranged, Underway, phase # "choose",
         scenario.features = Features, scenario.stages = TRUE,
         AllTypes \subseteq scenario.types, NEW p, NEW y \in Roles(p)
  PROVE  y[1] \in Selected /\ y[2] \in Acting(p, y[1])
<1>1. Selected = Kept(scenario) /\ scenario.stages \in BOOLEAN
  BY SelectedAre, ScenariosFit DEF Underway, Fits
<1>2. /\ y[1] \in Modules /\ y = <<y[1], y[2]>>
      /\ y[2] \in {y[1]} \cup Loadable(p, y[1])
  BY RolePair
<1>3. \E C \in Wants[y[1]] : C \subseteq scenario.features
  BY <1>2 DEF FunctionsArranged
<1>4. y[1] \in Kept(scenario)
  BY <1>1, <1>2, <1>3, KeptIf
<1>5. Loadable(p, y[1]) \subseteq AllTypes
  BY DEF Loadable, AllTypes
<1>6. <<y[1], y[2]>> \in Roles(p)
  BY <1>2
<1>7. y[2] \in Acting(p, y[1])
  BY <1>2, <1>5, <1>6, ActingPlays
<1> QED
  BY <1>1, <1>4, <1>7

(* A function of a type is called by a module, if the scenario has all         *)
(* modules.                                                                    *)
LEMMA OfferedIsUsed ==
  ASSUME Arranged, Formulated
  PROVE  OfferedIsCalled
<1>0. GroupsArranged /\ FunctionsArranged /\ Underway
  BY DEF Arranged, Formulated
<1> SUFFICES ASSUME Ended("build"), scenario.features = Features,
                    scenario.stages = TRUE, AllTypes \subseteq scenario.types,
                    NEW t \in Units, NEW f \in Offered(t) \ NeverCalled
             PROVE  \E n \in Selected : <<t, f>> \in Called(n)
  BY <1>0, ScenariosFit DEF OfferedIsCalled, Underway, Fits
<1>1. phase # "choose"
  BY DEF Ended
<1>2. \A n \in Selected : n \in Modules /\ Offered(n) = {}
  BY <1>0, SelectedAre DEF FunctionsArranged
<1>3. PICK n \in Selected : t \in LoadedTypes("declare", n)
  BY <1>2 DEF Units
<1>4. t \in Acting("declare", n) /\ t \in scenario.types
  BY <1>3 DEF Acting, LoadedTypes
<1> DEFINE x == <<n, t>>
<1>5. x \in Roles("declare") /\ x[2] = t
  BY <1>0, <1>4, ActingRole
<1> HIDE DEF x
<1>6. PICK y \in Roles("declare") :
        \E call \in Model(y).calls \cup Model(y).expects :
          call[2] = f /\ t \in TypesOf[call[1]]
  BY <1>0, <1>5 DEF FunctionsArranged
<1>7. PICK call \in Model(y).calls \cup Model(y).expects :
        call[2] = f /\ t \in TypesOf[call[1]]
  BY <1>6
<1>8. y[1] \in Selected /\ y[2] \in Acting("declare", y[1])
  BY <1>0, <1>1, EverythingInUse
<1>9. call \in CallsOf(y[1])
  BY <1>7, <1>8 DEF CallsOf, Part, Model
<1>10. <<t, call[2]>> \in Called(y[1])
  BY <1>4, <1>7, <1>9 DEF Called
<1> QED
  BY <1>7, <1>8, <1>10

LEMMA FormulatedArranged ==
  ASSUME Arranged
  PROVE  Spec => []Formulated
BY FormulatedAlways DEF Arranged

(* In every scenario that fits, determine_modules finds what it removes, and   *)
(* add_model_components never meets a component that is not there yet,         *)
(* declares none twice, misses none that it asks for with hasattr, and calls   *)
(* no function that a type lacks (ComponentsAreThere).                         *)
THEOREM ComponentsSafe ==
  ASSUME Arranged
  PROVE  Spec => []ComponentsAreThere
<1>1. Formulated /\ RemovalsFindTheirModule => ComponentsAreThere
  BY OverIsThere, DeclaredIsNew, GuardedIsBuilt, ReadIsBuilt, ExpectedIsThere,
     OfferedIsUsed DEF ComponentsAreThere, FunctionsAgree
<1> QED
  BY <1>1, FormulatedArranged, RemovalsFound, PTL
-------------------------------------------------------------------------------
(* What is added to a list is taken from it by a module that is in use.        *)
LEMMA ListedCounts ==
  ASSUME Arranged, Formulated
  PROVE  ListedIsCounted
<1>0. GroupsArranged /\ ListsArranged /\ Underway /\ ListsFilled
  BY DEF Arranged, Formulated
<1> SUFFICES ASSUME Ended("declare"), NEW pair \in lists,
                    pair[1] \notin {"reserve_variable_derate_params",
                                    "reserve_to_energy_adjustment_params"}
             PROVE  pair[1] \in TakenLists
  BY DEF ListedIsCounted
<1>1. phase # "choose"
  BY DEF Ended
<1>2. PICK n \in Passed("declare") : pair \in Adding(n)
  BY <1>0 DEF ListsFilled
<1>3. PICK u \in Acting("declare", n) : pair \in ModuleParts[u].model.adds
  BY <1>2 DEF Adding, Part
<1>4. n \in Selected
  BY <1>2 DEF Passed
<1> DEFINE x == <<n, u>>
<1>5. x \in Roles("declare") /\ pair \in Model(x).adds
  BY <1>0, <1>3, <1>4, ActingRole DEF Model
<1>6. u \in {n} \cup scenario.types
  BY <1>0, <1>4, ActingRole
<1>7. ASSUME NEW y \in Roles("declare"), Brings(x, y)
      PROVE  y[1] \in Selected /\ y[2] \in Acting("declare", y[1])
  BY <1>0, <1>1, <1>4, <1>6, <1>7, InUse
<1> HIDE DEF x
<1>8. ASSUME NEW m \in Selected, NEW v \in Acting("declare", m),
             pair[1] \in ModuleParts[v].model.takes
      PROVE  pair[1] \in TakenLists
  <2>1. v \in Units
    BY DEF Units, Acting
  <2> QED
    BY <1>8, <2>1 DEF TakenLists
<1>9. CASE \E y \in Roles("declare") :
             pair[1] \in Model(y).takes /\ Brings(x, y)
  BY <1>7, <1>8, <1>9 DEF Model
<1>10. CASE /\ pair[1] \in RoomLists
            /\ \E m \in Modules :
                 /\ TypesOf["operational_type"] \subseteq Loadable("declare", m)
                 /\ Brings(x, <<m, m>>)
  <2>1. PICK m \in Modules :
          /\ TypesOf["operational_type"] \subseteq Loadable("declare", m)
          /\ Brings(x, <<m, m>>)
    BY <1>10
  <2>2. <<m, m>> \in Roles("declare")
    BY RoleIs
  <2>3. m \in Selected
    BY <1>7, <2>1, <2>2
  <2>4. PICK t \in scenario.types :
          t \in TypesOf["operational_type"] \ NoReserveTypes
    BY ScenariosFit, <1>0 DEF Underway, Fits
  <2>5. t \in Acting("declare", m)
    <3>1. <<m, t>> \in Roles("declare")
      BY <2>1, <2>4, RoleIs
    <3> QED
      BY <2>4, <3>1, ActingPlays
  <2>6. pair[1] \in ModuleParts[t].model.takes
    BY <1>0, <1>10, <2>4 DEF ListsArranged
  <2> QED
    BY <1>8, <2>3, <2>5, <2>6
<1> QED
  BY <1>0, <1>5, <1>9, <1>10 DEF ListsArranged

(* A variable that relaxes a constraint is in a cost of the objective.         *)
LEMMA RelaxationsCost ==
  ASSUME Arranged, Formulated
  PROVE  RelaxationsArePaid
<1> DEFINE Free ==
  {"Water_Link_Hrz_Min_Flow_Violation_Avg_Vol_per_Sec_Expression"}
<1>0. GroupsArranged /\ ListsArranged /\ Underway /\ ComponentsDeclared
  BY DEF Arranged, Formulated
<1> SUFFICES ASSUME Ended("declare"),
                    NEW relaxation \in (Relaxations \cap components) \ Free
             PROVE  \E n \in Selected :
                      /\ relaxation \in ModuleParts[n].model.reads
                      /\ "cost_components" \in
                           {pair[1] : pair \in ModuleParts[n].model.adds}
  BY DEF RelaxationsArePaid
<1>1. phase # "choose"
  BY DEF Ended
<1>2. PICK n \in Passed("declare") : relaxation \in Declares(n)
  BY <1>0 DEF ComponentsDeclared
<1>3. PICK u \in Acting("declare", n) :
        relaxation \in ModuleParts[u].model.declares
  BY <1>2, DeclaresIs
<1>4. n \in Selected
  BY <1>2 DEF Passed
<1> DEFINE x == <<n, u>>
<1>5. x \in Roles("declare") /\ relaxation \in Model(x).declares
  BY <1>0, <1>3, <1>4, ActingRole DEF Model
<1>6. u \in {n} \cup scenario.types
  BY <1>0, <1>4, ActingRole
<1>7. ASSUME NEW y \in Roles("declare"), Brings(x, y)
      PROVE  y[1] \in Selected
  BY <1>0, <1>1, <1>4, <1>6, <1>7, InUse
<1> HIDE DEF x
<1>8. relaxation \in (Relaxations \cap Model(x).declares) \ Free
  BY <1>5
<1>9. PICK m \in Modules :
        /\ Brings(x, <<m, m>>)
        /\ relaxation \in Model(<<m, m>>).reads
        /\ "cost_components" \in {pair[1] : pair \in Model(<<m, m>>).adds}
  BY <1>0, <1>5, <1>8 DEF ListsArranged
<1>10. <<m, m>> \in Roles("declare")
  BY RoleIs
<1>11. m \in Selected
  BY <1>7, <1>9, <1>10
<1> QED
  BY <1>9, <1>11 DEF Model

(* A type that may provide reserves leaves them room.                          *)
LEMMA ReservesHaveRoom ==
  ASSUME Arranged
  PROVE  ReservesTakeRoom
BY DEF Arranged, ListsArranged, ReservesTakeRoom, RoomLists

(* In every scenario that fits, what a module adds to a list of dynamic        *)
(* components is counted in a balance, a requirement or the objective,         *)
(* whatever relaxes a constraint has a cost, and what provides reserves leaves *)
(* them room (NothingIsFree).                                                  *)
THEOREM NothingFree ==
  ASSUME Arranged
  PROVE  Spec => []NothingIsFree
<1>1. Formulated => NothingIsFree
  BY ListedCounts, RelaxationsCost, ReservesHaveRoom DEF NothingIsFree
<1> QED
  BY <1>1, FormulatedArranged, PTL
-------------------------------------------------------------------------------
(* Who writes a file, who loads one, and that its module is then called.       *)
LEMMA WritingIs ==
  ASSUME NEW n, NEW f
  PROVE  f \in Writing(n) <=>
           \E u \in Acting("write", n) :
             \/ f \in ModuleParts[u].writes.writes
             \/ /\ f \in ModuleParts[u].writes.mayWrite
                /\ scenario.rows \/ f \in AlwaysRows
BY DEF Writing, Part

LEMMA WritesHas ==
  ASSUME NEW n, NEW u \in Acting("write", n),
         ModuleParts[u].writes.writes # {} \/ ModuleParts[u].writes.mayWrite # {}
  PROVE  Has("write", n)
<1>1. ModuleParts[u].writes # NoWrites
  BY DEF NoWrites, Writes
<1> QED
  BY <1>1, HasIf

LEMMA LoadsHas ==
  ASSUME NEW n, NEW u \in Acting("load", n),
         ModuleParts[u].loads.must # {} \/ ModuleParts[u].loads.may # {}
  PROVE  Has("load", n)
<1>1. ModuleParts[u].loads # NoLoads
  BY DEF NoLoads, Loads
<1> QED
  BY <1>1, HasIf

(* A file that a module opens without asking is there.                         *)
LEMMA LoadsAreThere ==
  ASSUME Arranged, Formulated
  PROVE  LoadsWhatWasWritten
<1> DEFINE h == Head(todo)
           Late == {"instantaneous_penetration_tmp_requirement.tab"}
<1>0. GroupsArranged /\ FilesArranged /\ Underway /\ InputsWritten
  BY DEF Arranged, Formulated
<1> SUFFICES ASSUME Calling("load"), NEW f \in Must(h) \ Late
             PROVE  f \in inputs
  BY DEF LoadsWhatWasWritten
<1>1. h \in Selected /\ phase # "choose"
  BY <1>0, HeadCalled DEF Phases
<1>2. PICK u \in Acting("load", h) : f \in ModuleParts[u].loads.must
  BY DEF Must, Part
<1> DEFINE x == <<h, u>>
<1>3. x \in Roles("load") /\ u \in {h} \cup scenario.types /\ x[2] = u
  BY <1>0, <1>1, ActingRole
<1>4. ASSUME NEW y \in Roles("write"), Brings(x, y)
      PROVE  y[1] \in Selected /\ y[2] \in Acting("write", y[1])
  BY <1>0, <1>1, <1>3, <1>4, InUse
<1> HIDE DEF x
<1>6. PICK y \in Roles("write") : SureToWrite(y, f) /\ Brings(x, y)
  BY <1>0, <1>2, <1>3 DEF FilesArranged
<1>7. f \in Writing(y[1]) /\ Has("write", y[1])
  BY <1>4, <1>6, WritingIs, WritesHas DEF SureToWrite
<1>8. Finished("write")
  BY DEF Calling, Finished, Rank
<1>9. y[1] \in Passed("write")
  BY <1>4, <1>6, <1>7, <1>8, AllPassed DEF Phases
<1> QED
  BY <1>0, <1>7, <1>9 DEF InputsWritten

(* A file that a module adds to was written before it.                         *)
LEMMA ExtendedIsThere ==
  ASSUME Arranged, Formulated
  PROVE  ExtendsWhatExists
<1> DEFINE h == Head(todo)
<1>0. GroupsArranged /\ FilesArranged /\ Underway /\ InputsWritten
  BY DEF Arranged, Formulated
<1> SUFFICES ASSUME Calling("write"), NEW f \in Extends(h)
             PROVE  f \in inputs
  BY DEF ExtendsWhatExists
<1>1. h \in Selected /\ phase # "choose" /\ h \in Modules
  BY <1>0, HeadCalled DEF Phases
<1>2. PICK u \in Acting("write", h) : f \in ModuleParts[u].writes.extends
  BY DEF Extends, Part
<1> DEFINE x == <<h, u>>
<1>3. /\ x \in Roles("write") /\ u \in {h} \cup scenario.types
      /\ x[1] = h /\ x[2] = u
  BY <1>0, <1>1, ActingRole
<1>4. ASSUME NEW y \in Roles("write"), Brings(x, y)
      PROVE  y[1] \in Selected /\ y[2] \in Acting("write", y[1])
  BY <1>0, <1>1, <1>3, <1>4, InUse
<1> HIDE DEF x
<1>5. PICK y \in Roles("write") :
        /\ SureToWrite(y, f) /\ Brings(x, y)
        /\ Position[y[1]] < Position[h]
  BY <1>0, <1>2, <1>3 DEF FilesArranged
<1>6. f \in Writing(y[1]) /\ Has("write", y[1])
  BY <1>4, <1>5, WritingIs, WritesHas DEF SureToWrite
<1>7. Position[y[1]] \in Nat /\ Position[h] \in Nat
  BY <1>0, <1>1, <1>4, <1>5, SelectedAre, PositionIs
<1>8. y[1] \in Passed("write")
  BY <1>0, <1>4, <1>5, <1>6, <1>7, Reached DEF Phases
<1> QED
  BY <1>0, <1>6, <1>8 DEF InputsWritten

(* A file written for a scenario is opened by a module in use.                 *)
LEMMA WrittenIsRead ==
  ASSUME Arranged, Formulated
  PROVE  InputsAreUsed
<1>0. GroupsArranged /\ FilesArranged /\ Underway /\ InputsWritten /\ DataLoaded
  BY DEF Arranged, Formulated
<1> SUFFICES ASSUME Ended("load"), NEW f \in inputs
             PROVE  f \in opened
  BY DEF InputsAreUsed
<1>1. phase # "choose" /\ Fits(scenario)
  BY <1>0, ScenariosFit DEF Ended, Underway
<1>2. PICK n \in Passed("write") : f \in Writing(n)
  BY <1>0 DEF InputsWritten
<1>3. n \in Selected
  BY <1>2 DEF Passed
<1>4. PICK u \in Acting("write", n) :
        \/ f \in ModuleParts[u].writes.writes
        \/ /\ f \in ModuleParts[u].writes.mayWrite
           /\ scenario.rows \/ f \in AlwaysRows
  BY <1>2, WritingIs
<1> DEFINE x == <<n, u>>
<1>5. x \in Roles("write") /\ u \in {n} \cup scenario.types /\ x[2] = u
  BY <1>0, <1>3, ActingRole
<1>6. ASSUME NEW y \in Roles("load"), Brings(x, y)
      PROVE  y[1] \in Selected /\ y[2] \in Acting("load", y[1])
  BY <1>0, <1>1, <1>3, <1>5, <1>6, InUse
<1> HIDE DEF x
<1>7. ASSUME NEW m \in Selected, NEW v \in Acting("load", m),
             f \in ModuleParts[v].loads.must \cup ModuleParts[v].loads.may
      PROVE  f \in opened
  <2>1. Has("load", m)
    BY <1>7, LoadsHas
  <2>2. m \in Passed("load")
    BY <1>7, <2>1, AllPassed DEF Phases
  <2>3. f \in Must(m) \cup May(m)
    BY <1>7 DEF Must, May, Part
  <2> QED
    BY <1>0, <2>2, <2>3 DEF DataLoaded
<1>8. \/ \E y \in Roles("load") : MayRead(y, f) /\ Brings(x, y)
      \/ /\ f \notin ModuleParts[u].writes.writes \cup AlwaysRows
         /\ \A t \in StartupTypes : \E m \in Modules :
              /\ <<m, t>> \in Roles("load") /\ MayRead(<<m, t>>, f)
              /\ Brings(x, <<m, m>>)
  BY <1>0, <1>4, <1>5 DEF FilesArranged
<1>9. CASE \E y \in Roles("load") : MayRead(y, f) /\ Brings(x, y)
  <2>1. PICK y \in Roles("load") : MayRead(y, f) /\ Brings(x, y)
    BY <1>9
  <2>2. y[1] \in Selected /\ y[2] \in Acting("load", y[1])
    BY <1>6, <2>1
  <2> QED
    BY <1>7, <2>1, <2>2 DEF MayRead
<1>10. CASE /\ f \notin ModuleParts[u].writes.writes \cup AlwaysRows
            /\ \A t \in StartupTypes : \E m \in Modules :
                 /\ <<m, t>> \in Roles("load") /\ MayRead(<<m, t>>, f)
                 /\ Brings(x, <<m, m>>)
  <2>1. scenario.rows
    BY <1>4, <1>10
  <2>2. PICK t \in StartupTypes : t \in scenario.types
    BY <1>1, <2>1 DEF Fits
  <2>3. PICK m \in Modules :
          /\ <<m, t>> \in Roles("load") /\ MayRead(<<m, t>>, f)
          /\ Brings(x, <<m, m>>)
    BY <1>10
  <2>4. <<m, m>> \in Roles("load")
    BY RoleIs
  <2>5. m \in Selected
    BY <1>6, <2>3, <2>4
  <2>6. t \in Acting("load", m)
    BY <2>2, <2>3, ActingPlays
  <2> QED
    BY <1>7, <2>3, <2>5, <2>6 DEF MayRead
<1> QED
  BY <1>8, <1>9, <1>10

(* What one stage hands over is opened by the type that handed it over.        *)
LEMMA HandedOverIsLoaded ==
  ASSUME Arranged, Formulated
  PROVE  StateHandedOver
<1> DEFINE h == Head(todo)
<1>0. GroupsArranged /\ FilesArranged /\ Underway
  BY DEF Arranged, Formulated
<1> SUFFICES ASSUME Calling("load"), NEW u \in Acting("load", h),
                    u \notin HandsOverUnread
             PROVE  ModuleParts[u].results.hands \subseteq ModuleParts[u].loads.may
  BY DEF StateHandedOver
<1>1. h \in Selected
  BY <1>0, HeadCalled DEF Phases
<1> DEFINE x == <<h, u>>
<1>2. x \in Roles("load") /\ x[2] = u
  BY <1>0, <1>1, ActingRole
<1> HIDE DEF x
<1> QED
  BY <1>0, <1>2 DEF FilesArranged, Results

(* In every scenario that fits, load_model_data opens no file that             *)
(* write_model_inputs has not written, no file is added to before it is        *)
(* written, and none is written in vain (FilesAgree).                          *)
THEOREM FilesSafe ==
  ASSUME Arranged
  PROVE  Spec => []FilesAgree
<1>1. Formulated => FilesAgree
  BY LoadsAreThere, ExtendedIsThere, WrittenIsRead, HandedOverIsLoaded
     DEF FilesAgree
<1> QED
  BY <1>1, FormulatedArranged, PTL

-------------------------------------------------------------------------------
(* What a call does to a frame.                                                *)

(* In any order of the types, one of those that have a column is the last.     *)
LEMMA LastExists ==
  ASSUME NEW types, IsFiniteSet(types), NEW place \in Orders(types),
         NEW units, units \subseteq types, units # {}
  PROVE  LastOf(units, place) # {}
<1> DEFINE size == Cardinality(types)
           N == {size - place[u] : u \in units}
<1>1. size \in Nat
  BY FS_CardinalityType
<1> HIDE DEF size
<1>2. \A u \in units : place[u] \in 1..size
  BY DEF Orders, size
<1>3. N \in SUBSET Nat /\ N # {}
  BY <1>1, <1>2
<1>4. PICK k \in N : \A m \in N : k <= m
  BY <1>3, LeastNatural
<1>5. PICK u \in units : k = size - place[u]
  BY <1>4
<1>6. \A v \in units : place[v] <= place[u]
  BY <1>1, <1>2, <1>4, <1>5
<1> QED
  BY <1>5, <1>6 DEF LastOf

(* Columns of a table.                                                         *)
LEMMA ColumnIs ==
  ASSUME NEW cols, NEW table, NEW c
  PROVE  /\ c \in ColumnsOf(cols, table) <=>
              \E col \in cols : col[1] = table /\ col[2] = c
         /\ c \in ColumnsOf(cols, table) => table \in Tables(cols)
BY DEF ColumnsOf, Tables

LEMMA ByIs ==
  ASSUME NEW n, NEW columns, NEW z
  PROVE  /\ z \in By(n, columns) => z[1] \in columns
         /\ \A c \in columns : <<c, n>> \in By(n, columns)
BY DEF By

Returned(collects, u, f) ==
  IF collects = "none" THEN {}
  ELSE ColumnsOf(ModuleParts[u].results.returns, f)

(* What the types return is in the frame, and nothing else is taken from it.   *)
LEMMA CollectEffect ==
  ASSUME NEW all, NEW types, IsFiniteSet(types),
         NEW collects \in {"none", "fill", "reset"},
         NEW after, Collect(all, types, collects, after)
  PROVE  /\ DOMAIN after = DOMAIN all
         /\ \A f \in DOMAIN all :
              /\ \A z \in after[f] : \/ z \in all[f]
                                     \/ \E u \in types :
                                          z[1] \in Returned(collects, u, f)
              /\ \A z \in all[f] : \/ z \in after[f]
                                   \/ \E u \in types :
                                        z[1] \in Returned(collects, u, f)
              /\ \A u \in types : \A c \in Returned(collects, u, f) :
                   \E z \in after[f] : z[1] = c
<1> DEFINE columns(u, f) == ColumnsOf(ModuleParts[u].results.returns, f)
           having(f, c) == {u \in types : c \in columns(u, f)}
<1>1. CASE collects = "none"
  <2>1. after = all
    BY <1>1 DEF Collect
  <2> QED
    BY <1>1, <2>1 DEF Returned
<1>2. CASE collects = "fill"
  <2>1. after = [f \in DOMAIN all |-> all[f] \cup
                   UNION {By(u, columns(u, f)) : u \in types}]
    BY <1>2 DEF Collect
  <2> HIDE DEF columns
  <2>2. DOMAIN after = DOMAIN all
    BY <2>1
  <2>3. ASSUME NEW f \in DOMAIN all
        PROVE  after[f] = all[f] \cup UNION {By(u, columns(u, f)) : u \in types}
    BY <2>1
  <2>4. ASSUME NEW f \in DOMAIN all
        PROVE  /\ \A z \in after[f] :
                    z \in all[f] \/ \E u \in types : z[1] \in columns(u, f)
               /\ \A z \in all[f] : z \in after[f]
               /\ \A u \in types : \A c \in columns(u, f) : <<c, u>> \in after[f]
    BY <2>3, ByIs
  <2>5. ASSUME NEW f \in DOMAIN all
        PROVE  \A u \in types : \A c \in columns(u, f) :
                 \E z \in after[f] : z[1] = c
    <3> TAKE u \in types
    <3> TAKE c \in columns(u, f)
    <3>1. <<c, u>> \in after[f] /\ <<c, u>>[1] = c
      BY <2>4
    <3> QED
      BY <3>1
  <2> QED
    BY <1>2, <2>2, <2>4, <2>5 DEF columns, Returned
<1>3. CASE collects = "reset"
  <2>1. PICK place \in Orders(types) :
          after = [f \in DOMAIN all |->
            {x \in all[f] : having(f, x[1]) = {}} \cup
            UNION {By(u, {c \in columns(u, f) :
                          u \in LastOf(having(f, c), place)}) : u \in types}]
    BY <1>3 DEF Collect
  <2> DEFINE mine(u, f) == {c \in columns(u, f) :
                              u \in LastOf(having(f, c), place)}
  <2>2. DOMAIN after = DOMAIN all
    BY <2>1
  <2>3. ASSUME NEW f \in DOMAIN all
        PROVE  after[f] = {x \in all[f] : having(f, x[1]) = {}}
                            \cup UNION {By(u, mine(u, f)) : u \in types}
    BY <2>1
  <2>4. ASSUME NEW f, NEW u
        PROVE  mine(u, f) \subseteq columns(u, f)
    OBVIOUS
  <2>5. ASSUME NEW f, NEW u \in types, NEW c, c \in columns(u, f)
        PROVE  \E v \in types : c \in mine(v, f)
    <3>1. having(f, c) \subseteq types /\ u \in having(f, c)
      BY <2>5
    <3>2. PICK v : v \in LastOf(having(f, c), place)
      BY <3>1, LastExists
    <3>3. v \in having(f, c)
      BY <3>2 DEF LastOf
    <3> QED
      BY <3>2, <3>3
  <2>6. ASSUME NEW f, NEW c
        PROVE  having(f, c) = {} \/ \E u \in types : c \in columns(u, f)
    OBVIOUS
  <2> HIDE DEF columns, having, mine
  <2>7. ASSUME NEW f \in DOMAIN all
        PROVE  /\ \A z \in after[f] :
                    z \in all[f] \/ \E u \in types : z[1] \in columns(u, f)
               /\ \A z \in all[f] :
                    z \in after[f] \/ \E u \in types : z[1] \in columns(u, f)
               /\ \A u \in types : \A c \in mine(u, f) : <<c, u>> \in after[f]
    <3>1. ASSUME NEW z \in after[f]
          PROVE  z \in all[f] \/ \E u \in types : z[1] \in columns(u, f)
      BY <2>3, <2>4, ByIs
    <3>2. ASSUME NEW z \in all[f]
          PROVE  z \in after[f] \/ \E u \in types : z[1] \in columns(u, f)
      BY <2>3, <2>6
    <3>3. ASSUME NEW u \in types, NEW c, c \in mine(u, f)
          PROVE  <<c, u>> \in after[f]
      BY <2>3, <3>3, ByIs
    <3> QED
      BY <3>1, <3>2, <3>3
  <2>8. ASSUME NEW f \in DOMAIN all
        PROVE  \A u \in types : \A c \in columns(u, f) :
                 \E z \in after[f] : z[1] = c
    <3> TAKE u \in types
    <3> TAKE c \in columns(u, f)
    <3>1. PICK v \in types : c \in mine(v, f)
      BY <2>5
    <3>2. <<c, v>> \in after[f] /\ <<c, v>>[1] = c
      BY <2>7, <3>1
    <3> QED
      BY <3>2
  <2> QED
    BY <1>3, <2>2, <2>7, <2>8 DEF columns, Returned
<1> QED
  BY <1>1, <1>2, <1>3

(* A column reset is in the frame once, from who reset it last.                *)
LEMMA ResetEffect ==
  ASSUME NEW all, NEW n, NEW cols
  PROVE  LET after == ResetAll(all, n, cols)
         IN /\ DOMAIN after = DOMAIN all
            /\ \A f \in DOMAIN all :
                 /\ \A z \in after[f] : z \in all[f] \/ z[1] \in ColumnsOf(cols, f)
                 /\ \A z \in all[f] : z \in after[f] \/ z[1] \in ColumnsOf(cols, f)
                 /\ \A c \in ColumnsOf(cols, f) : \E z \in after[f] : z[1] = c
<1> DEFINE after == ResetAll(all, n, cols)
<1>1. DOMAIN after = DOMAIN all
  BY DEF ResetAll
<1>2. ASSUME NEW f \in DOMAIN all, f \in Tables(cols)
      PROVE  after[f] = {x \in all[f] : x[1] \notin ColumnsOf(cols, f)}
                          \cup By(n, ColumnsOf(cols, f))
  BY <1>2 DEF ResetAll, Reset
<1>3. ASSUME NEW f \in DOMAIN all, f \notin Tables(cols)
      PROVE  after[f] = all[f] /\ \A c : c \notin ColumnsOf(cols, f)
  BY <1>3, ColumnIs DEF ResetAll
<1> HIDE DEF after
<1>4. ASSUME NEW f \in DOMAIN all
      PROVE  /\ \A z \in after[f] : z \in all[f] \/ z[1] \in ColumnsOf(cols, f)
             /\ \A z \in all[f] : z \in after[f] \/ z[1] \in ColumnsOf(cols, f)
             /\ \A c \in ColumnsOf(cols, f) : <<c, n>> \in after[f]
  BY <1>2, <1>3, ByIs
<1>5. ASSUME NEW f \in DOMAIN all
      PROVE  \A c \in ColumnsOf(cols, f) : \E z \in after[f] : z[1] = c
  <2> TAKE c \in ColumnsOf(cols, f)
  <2>1. <<c, n>> \in after[f] /\ <<c, n>>[1] = c
    BY <1>4
  <2> QED
    BY <2>1
<1> QED
  BY <1>1, <1>4, <1>5 DEF after

-------------------------------------------------------------------------------
(* What export_results does to the frames.                                     *)

(* The columns that the unit u of module n creates or fills in a frame.        *)
Put(n, u, f) == ColumnsOf(Puts(<<n, u>>), f)
Filled(n, u, f) == ColumnsOf(Fills(<<n, u>>), f)

(* What puts a column in a frame.                                              *)
LEMMA PutIs ==
  ASSUME NEW n, NEW u, NEW f
  PROVE  /\ Filled(n, u, f) \subseteq Put(n, u, f)
         /\ u = n => Put(n, u, f) = Filled(n, u, f)
                                      \cup ColumnsOf(Creates(n), f)
         /\ u # n => Put(n, u, f) = Filled(n, u, f)
         /\ \A c \in Filled(n, u, f) : f \in Tables(Fills(<<n, u>>))
         /\ \A c \in Put(n, u, f) :
              /\ f \in Tables(Puts(<<n, u>>))
              /\ f \in Tables(Creates(n)) \/ f \in Tables(Fills(<<n, u>>))
BY ColumnIs DEF Put, Filled, Puts, Tables

(* What a call of export_results does to the frames.                           *)
LEMMA ExportEffect ==
  ASSUME FramesArranged, NEW h \in Modules, h = Head(todo),
         IsFiniteSet(scenario.types),
         ExportResults
  PROVE  /\ DOMAIN frames' = DOMAIN frames \cup Tables(Creates(h))
         /\ \A f \in DOMAIN frames' : \A z \in frames'[f] :
              \/ f \in DOMAIN frames /\ f \notin Tables(Creates(h)) /\ z \in frames[f]
              \/ \E u \in Acting("export", h) : z[1] \in Put(h, u, f)
         /\ \A f \in DOMAIN frames \ Tables(Creates(h)) : \A z \in frames[f] :
              \/ z \in frames'[f]
              \/ \E u \in Acting("export", h) : z[1] \in Filled(h, u, f)
         /\ \A f \in DOMAIN frames' : \A u \in Acting("export", h) :
              \A c \in Put(h, u, f) : \E z \in frames'[f] : z[1] = c
<1> DEFINE r == ModuleParts[h].results
           types == LoadedTypes("export", h)
           made == [f \in DOMAIN frames \cup Tables(r.creates) |->
                      IF f \in Tables(r.creates)
                      THEN By(h, ColumnsOf(r.creates, f)) ELSE frames[f]]
           reset == ResetAll(made, h, r.assigns)
<1>1. Collect(reset, types, r.collects, frames')
  BY DEF ExportResults
<1>2. /\ r.collects \in {"none", "fill", "reset"} /\ h \notin types
      /\ IsFiniteSet(types)
  <2>1. types \subseteq scenario.types /\ types \subseteq Loadable("export", h)
    BY DEF LoadedTypes, Loadable
  <2> QED
    BY <2>1, FS_Subset DEF FramesArranged
<1>3. Creates(h) = r.creates
  BY DEF Creates
<1>4. /\ DOMAIN made = DOMAIN frames \cup Tables(Creates(h))
      /\ \A f \in Tables(Creates(h)) : made[f] = By(h, ColumnsOf(Creates(h), f))
      /\ \A f \in DOMAIN frames \ Tables(Creates(h)) : made[f] = frames[f]
  BY <1>3
<1>5. \A f : Filled(h, h, f) = ColumnsOf(r.assigns, f)
  BY DEF Filled, Fills, Results
<1>6. \A f : \A u \in types : Filled(h, u, f) = Returned(r.collects, u, f)
  <2> SUFFICES ASSUME NEW f, NEW u \in types
               PROVE  Filled(h, u, f) = Returned(r.collects, u, f)
    OBVIOUS
  <2>1. u # h
    BY <1>2
  <2>2. CASE r.collects = "none"
    <3>1. Fills(<<h, u>>) = {}
      BY <2>1, <2>2 DEF Fills
    <3> QED
      BY <2>2, <3>1 DEF Filled, ColumnsOf, Returned
  <2>3. CASE r.collects # "none"
    <3>1. Fills(<<h, u>>) = ModuleParts[u].results.returns
      BY <2>1, <2>3 DEF Fills, Results
    <3> QED
      BY <2>3, <3>1 DEF Filled, Returned
  <2> QED
    BY <2>2, <2>3
<1>7. Acting("export", h) = {h} \cup types
  BY DEF Acting
<1> HIDE DEF made
<1>8. /\ DOMAIN reset = DOMAIN made
      /\ \A f \in DOMAIN made :
           /\ \A z \in reset[f] : z \in made[f] \/ z[1] \in Filled(h, h, f)
           /\ \A z \in made[f] : z \in reset[f] \/ z[1] \in Filled(h, h, f)
           /\ \A c \in Filled(h, h, f) : \E z \in reset[f] : z[1] = c
  BY <1>5, ResetEffect
<1> HIDE DEF reset
<1>9. /\ DOMAIN frames' = DOMAIN reset
      /\ \A f \in DOMAIN reset :
           /\ \A z \in frames'[f] :
                z \in reset[f] \/ \E u \in types : z[1] \in Filled(h, u, f)
           /\ \A z \in reset[f] :
                z \in frames'[f] \/ \E u \in types : z[1] \in Filled(h, u, f)
           /\ \A u \in types : \A c \in Filled(h, u, f) :
                \E z \in frames'[f] : z[1] = c
  <2> DEFINE collects == r.collects
  <2>1. Collect(reset, types, collects, frames') /\ IsFiniteSet(types)
        /\ collects \in {"none", "fill", "reset"}
    BY <1>1, <1>2
  <2>2. \A f : \A u \in types : Filled(h, u, f) = Returned(collects, u, f)
    BY <1>6
  <2> HIDE DEF types, collects
  <2>3. /\ DOMAIN frames' = DOMAIN reset
        /\ \A f \in DOMAIN reset :
             /\ \A z \in frames'[f] :
                  \/ z \in reset[f]
                  \/ \E u \in types : z[1] \in Returned(collects, u, f)
             /\ \A z \in reset[f] :
                  \/ z \in frames'[f]
                  \/ \E u \in types : z[1] \in Returned(collects, u, f)
             /\ \A u \in types : \A c \in Returned(collects, u, f) :
                  \E z \in frames'[f] : z[1] = c
    BY <2>1, CollectEffect
  <2> QED
    BY <2>2, <2>3
<1> HIDE DEF types, r
<1>10. ASSUME NEW f \in DOMAIN frames', NEW z \in frames'[f]
       PROVE  \/ /\ f \in DOMAIN frames /\ f \notin Tables(Creates(h))
                 /\ z \in frames[f]
              \/ \E u \in Acting("export", h) : z[1] \in Put(h, u, f)
  <2>1. CASE \E u \in Acting("export", h) : z[1] \in Filled(h, u, f)
    BY <2>1, PutIs
  <2>2. CASE z \in made[f]
    <3>1. CASE f \in Tables(Creates(h))
      <4>1. z[1] \in ColumnsOf(Creates(h), f)
        BY <1>4, <2>2, <3>1, ByIs
      <4>2. z[1] \in Put(h, h, f)
        BY <4>1, PutIs
      <4> QED
        BY <1>7, <4>2
    <3>2. CASE f \notin Tables(Creates(h))
      BY <1>4, <1>8, <1>9, <2>2, <3>2
    <3> QED
      BY <3>1, <3>2
  <2> QED
    BY <1>7, <1>8, <1>9, <2>1, <2>2
<1>11. ASSUME NEW f \in DOMAIN frames \ Tables(Creates(h)), NEW z \in frames[f]
       PROVE  \/ z \in frames'[f]
              \/ \E u \in Acting("export", h) : z[1] \in Filled(h, u, f)
  BY <1>4, <1>7, <1>8, <1>9
<1>12. ASSUME NEW f \in DOMAIN frames', NEW u \in Acting("export", h),
              NEW c, c \in Put(h, u, f)
       PROVE  \E z \in frames'[f] : z[1] = c
  <2>1. ASSUME NEW v \in types, c \in Filled(h, v, f)
        PROVE  \E z \in frames'[f] : z[1] = c
    BY <1>8, <1>9, <2>1
  <2>2. ASSUME NEW z \in reset[f], z[1] = c
        PROVE  \E y \in frames'[f] : y[1] = c
    BY <1>8, <1>9, <2>1, <2>2
  <2>3. CASE c \in Filled(h, h, f)
    BY <1>8, <1>9, <2>2, <2>3
  <2>4. CASE c \in ColumnsOf(Creates(h), f)
    <3>1. f \in Tables(Creates(h)) /\ f \in DOMAIN made
      BY <1>4, <2>4, ColumnIs
    <3>2. <<c, h>> \in made[f]
      BY <1>4, <2>4, <3>1, ByIs
    <3>3. <<c, h>>[1] = c
      OBVIOUS
    <3> QED
      BY <1>8, <2>2, <2>3, <3>1, <3>2, <3>3
  <2>5. u # h => u \in types
    BY <1>7
  <2>6. c \in Filled(h, u, f) \/ (u = h /\ c \in ColumnsOf(Creates(h), f))
    BY <1>12, PutIs
  <2> QED
    BY <2>1, <2>3, <2>4, <2>5, <2>6
<1> QED
  BY <1>4, <1>8, <1>9, <1>10, <1>11, <1>12

-------------------------------------------------------------------------------
(* The columns of the frames.                                                  *)

(* The frames there are, and the columns that are in them.                     *)
FramesMade ==
  DOMAIN frames = UNION {Tables(Creates(n)) : n \in Passed("export")}
FramesSound ==
  \A f \in DOMAIN frames : \A z \in frames[f] :
    \E n \in Passed("export") : \E u \in Acting("export", n) :
      z[1] \in Put(n, u, f)
FramesComplete ==
  \A f \in DOMAIN frames :
    \A n \in Passed("export") : \A u \in Acting("export", n) :
      \A c \in Put(n, u, f) : \E z \in frames[f] : z[1] = c
FramesFilled == FramesMade /\ FramesSound /\ FramesComplete

(* What FramesArranged says of two roles of modules m and n.                   *)
LEMMA FrameRoles ==
  ASSUME FramesArranged, NEW n \in Modules, NEW u \in Acting("export", n),
         NEW m \in Modules, NEW v \in Acting("export", m)
  PROVE  /\ \A f \in Tables(Creates(n)) : n # m => f \notin Tables(Creates(m))
         /\ \A save \in SavesOf(m) :
              /\ save[1] \in Tables(Creates(n)) => Position[n] < Position[m]
              /\ save[1] \in Tables(Fills(<<n, u>>)) \ SavedTooEarly =>
                   Position[n] < Position[m]
         /\ n # m => Csvs(<<n, u>>) \cap Csvs(<<m, v>>) = {}
         /\ Position[n] < Position[m] =>
              \A f : n # m => Put(n, u, f) \cap Filled(m, v, f) \subseteq Emptied
<1> DEFINE x == <<n, u>>
           y == <<m, v>>
<1>1. /\ x \in Roles("export") /\ x[1] = n
      /\ y \in Roles("export") /\ y[1] = m
  BY ActingPlays
<1>2. \A f, c : c \in Put(n, u, f) =>
        f \in Tables(Puts(x)) /\ c \in ColumnsOf(Puts(x), f)
  BY PutIs DEF Put
<1>3. \A f : Filled(m, v, f) = ColumnsOf(Fills(y), f)
  BY DEF Filled
<1> HIDE DEF x, y
<1>4. n # m => Tables(Creates(n)) \cap Tables(Creates(m)) = {}
  BY <1>1 DEF FramesArranged
<1>5. n # m => Csvs(x) \cap Csvs(y) = {}
  BY <1>1 DEF FramesArranged
<1>6. \A save \in SavesOf(m) :
        /\ save[1] \in Tables(Creates(n)) => Position[n] < Position[m]
        /\ save[1] \in Tables(Fills(x)) \ SavedTooEarly =>
             Position[n] < Position[m]
  BY <1>1 DEF FramesArranged
<1>7. n # m /\ Position[n] < Position[m] =>
        \A f \in Tables(Puts(x)) :
          ColumnsOf(Puts(x), f) \cap ColumnsOf(Fills(y), f) \subseteq Emptied
  BY <1>1 DEF FramesArranged
<1> QED
  BY <1>2, <1>3, <1>4, <1>5, <1>6, <1>7 DEF x, y

(* A frame that is filled or saved was created.                                *)
LEMMA FrameThere ==
  ASSUME GroupsArranged, FramesArranged, Underway, phase # "choose",
         NEW n \in Selected, NEW u \in Acting("export", n), NEW f,
         \/ f \in Tables(Fills(<<n, u>>))
         \/ u = n /\ f \in {save[1] : save \in SavesOf(n)}
  PROVE  \E m \in Selected : /\ f \in Tables(Creates(m)) /\ Has("export", m)
                             /\ Position[m] <= Position[n]
<1> DEFINE x == <<n, u>>
<1>1. n \in Modules /\ x \in Roles("export") /\ x[1] = n /\ x[2] = u
      /\ u \in {n} \cup scenario.types
  BY SelectedAre, ActingPlays
<1>2. f \in Tables(Fills(x)) \cup (IF x[2] = x[1]
                                   THEN {save[1] : save \in SavesOf(x[1])}
                                   ELSE {})
  BY <1>1
<1> HIDE DEF x
<1>3. PICK m \in Modules : /\ f \in Tables(Creates(m)) /\ Brings(x, <<m, m>>)
                           /\ Position[m] <= Position[x[1]]
  BY <1>1, <1>2 DEF FramesArranged
<1> DEFINE y == <<m, m>>
<1>4. y \in Roles("export") /\ y[1] = m /\ y[2] = m
  BY RoleIs
<1>5. Brings(<<n, u>>, y)
  BY <1>3 DEF x
<1> HIDE DEF y
<1>6. y[1] \in Selected /\ y[2] \in Acting("export", y[1])
  BY <1>1, <1>4, <1>5, InUse
<1>7. m \in Selected /\ m \in Acting("export", m)
  BY <1>4, <1>6
<1>8. Creates(m) # {}
  BY <1>3 DEF Tables
<1>9. ModuleParts[m].results # NoResults
  BY <1>8 DEF Creates, NoResults
<1> QED
  BY <1>1, <1>3, <1>7, <1>9, HasIf

(* A call of export_results.                                                   *)
LEMMA ExportCalls ==
  ASSUME GroupsArranged, FramesArranged, Underway, ExportResults,
         NEW h, h = Head(todo)
  PROVE  /\ h \in Modules /\ h \in Selected /\ h \notin Passed("export")
         /\ Calling("export") /\ phase # "choose"
         /\ h \in Acting("export", h)
         /\ Passed("export") \subseteq Modules
         /\ Passed("export") \subseteq Selected
         /\ Passed("export")' = Passed("export") \cup {h}
         /\ \A n \in Passed("export") : Position[n] < Position[h] /\ n # h
         /\ \A n \in Modules : Position[n] \in Nat
         /\ \A n : Acting("export", n)' = Acting("export", n)
         /\ IsFiniteSet(scenario.types)
<1>1. Call("export")
  BY DEF ExportResults
<1>2. /\ Passed("export")' = Passed("export") \cup {h}
      /\ Calling("export") /\ scenario' = scenario
      /\ \A n \in Passed("export") : Position[n] < Position[h]
  BY <1>1, CalledPasses DEF Phases
<1>3. h \in Modules /\ h \in Selected /\ phase # "choose"
  BY <1>2, HeadCalled DEF Phases
<1>4. \A n \in Modules : Position[n] \in Nat
  BY PositionIs
<1>5. Passed("export") \subseteq Selected /\ Passed("export") \subseteq Modules
  BY SelectedAre DEF Passed
<1>6. h \notin Passed("export") /\ \A n \in Passed("export") : n # h
  BY <1>2, <1>3, <1>4
<1>7. \A n : Acting("export", n)' = Acting("export", n)
  BY <1>2, ActingStays
<1>8. IsFiniteSet(scenario.types)
  BY ScenariosFit DEF Underway, Fits
<1>9. h \in Acting("export", h)
  BY DEF Acting
<1> QED
  BY <1>2, <1>3, <1>4, <1>5, <1>6, <1>7, <1>8, <1>9

(* A frame is created once, and before it is filled.                           *)
LEMMA CreatedIsNew ==
  ASSUME GroupsArranged, FramesArranged, Underway, ExportResults,
         FramesMade, NEW h, h = Head(todo)
  PROVE  /\ Tables(Creates(h)) \cap DOMAIN frames = {}
         /\ \A n \in Passed("export") : \A u \in Acting("export", n) :
              \A f : Put(n, u, f) # {} => f \in DOMAIN frames
<1>1. /\ h \in Modules /\ Passed("export") \subseteq Modules
      /\ Passed("export") \subseteq Selected /\ phase # "choose"
      /\ \A n \in Passed("export") : n # h /\ Position[n] < Position[h]
      /\ \A n \in Modules : Position[n] \in Nat /\ n \in Acting("export", n)
      /\ Calling("export")
  BY ExportCalls DEF Acting
<1>2. Tables(Creates(h)) \cap DOMAIN frames = {}
  BY <1>1, FrameRoles DEF FramesMade
<1>3. ASSUME NEW n \in Passed("export"), NEW u \in Acting("export", n),
             NEW f, Put(n, u, f) # {}
      PROVE  f \in DOMAIN frames
  <2>1. f \in Tables(Creates(n)) \/ f \in Tables(Fills(<<n, u>>))
    BY <1>3, PutIs
  <2>2. CASE f \in Tables(Creates(n))
    BY <2>2 DEF FramesMade
  <2>3. CASE f \in Tables(Fills(<<n, u>>))
    <3>1. PICK m \in Selected : /\ f \in Tables(Creates(m)) /\ Has("export", m)
                                /\ Position[m] <= Position[n]
      BY <1>1, <2>3, FrameThere
    <3>2. m \in Modules /\ Position[m] \in Nat /\ Position[n] \in Nat
          /\ Position[h] \in Nat
      BY <1>1, SelectedAre
    <3>3. Position[m] < Position[h]
      BY <1>1, <3>1, <3>2
    <3>4. m \in Passed("export")
      BY <1>1, <3>1, <3>2, <3>3, Reached DEF Phases
    <3> QED
      BY <3>1, <3>4 DEF FramesMade
  <2> QED
    BY <2>1, <2>2, <2>3
<1> QED
  BY <1>2, <1>3

(* export_results: what is in the frames stays true from call to call.         *)
LEMMA FramesStep ==
  ASSUME GroupsArranged, FramesArranged, Underway, [Next]_vars, FramesFilled
  PROVE  FramesFilled'
<1>1. CASE ExportResults
  <2> DEFINE h == Head(todo)
  <2>1. /\ h \in Modules /\ Passed("export") \subseteq Modules
        /\ h \in Acting("export", h) /\ IsFiniteSet(scenario.types)
        /\ Passed("export")' = Passed("export") \cup {h}
        /\ \A n : Acting("export", n)' = Acting("export", n)
    BY <1>1, ExportCalls
  <2>2. /\ Tables(Creates(h)) \cap DOMAIN frames = {}
        /\ \A n \in Passed("export") : \A u \in Acting("export", n) :
             \A f : Put(n, u, f) # {} => f \in DOMAIN frames
    BY <1>1, CreatedIsNew DEF FramesFilled
  <2>3. h = Head(todo)
    OBVIOUS
  <2> HIDE DEF h
  <2>4. /\ DOMAIN frames' = DOMAIN frames \cup Tables(Creates(h))
        /\ \A f \in DOMAIN frames' : \A z \in frames'[f] :
             \/ f \in DOMAIN frames /\ f \notin Tables(Creates(h)) /\ z \in frames[f]
             \/ \E u \in Acting("export", h) : z[1] \in Put(h, u, f)
        /\ \A f \in DOMAIN frames \ Tables(Creates(h)) : \A z \in frames[f] :
             \/ z \in frames'[f]
             \/ \E u \in Acting("export", h) : z[1] \in Filled(h, u, f)
        /\ \A f \in DOMAIN frames' : \A u \in Acting("export", h) :
             \A c \in Put(h, u, f) : \E z \in frames'[f] : z[1] = c
    BY <1>1, <2>1, <2>3, ExportEffect
  <2>5. FramesMade'
    BY <2>1, <2>4 DEF FramesFilled, FramesMade
  <2>6. FramesSound'
    <3> SUFFICES ASSUME NEW f \in DOMAIN frames', NEW z \in frames'[f]
                 PROVE  \E n \in Passed("export") \cup {h} :
                          \E u \in Acting("export", n) : z[1] \in Put(n, u, f)
      BY <2>1 DEF FramesSound
    <3> QED
      BY <2>4 DEF FramesFilled, FramesSound
  <2>7. FramesComplete'
    <3> SUFFICES ASSUME NEW f \in DOMAIN frames',
                        NEW n \in Passed("export") \cup {h},
                        NEW u \in Acting("export", n),
                        NEW c, c \in Put(n, u, f)
                 PROVE  \E z \in frames'[f] : z[1] = c
      BY <2>1 DEF FramesComplete
    <3>1. CASE n = h
      BY <2>4, <3>1
    <3>2. CASE n \in Passed("export")
      <4>1. f \in DOMAIN frames \ Tables(Creates(h))
        BY <2>2, <3>2
      <4>2. PICK z \in frames[f] : z[1] = c
        BY <3>2, <4>1 DEF FramesFilled, FramesComplete
      <4>3. CASE z \in frames'[f]
        BY <4>2, <4>3
      <4>4. ASSUME NEW v \in Acting("export", h), z[1] \in Filled(h, v, f)
            PROVE  \E y \in frames'[f] : y[1] = c
        <5>1. c \in Put(h, v, f)
          BY <4>2, <4>4, PutIs
        <5> QED
          BY <2>4, <5>1
      <4> QED
        BY <2>4, <4>1, <4>3, <4>4
    <3> QED
      BY <3>1, <3>2
  <2> QED
    BY <2>5, <2>6, <2>7 DEF FramesFilled
<1>2. CASE ~ExportResults
  <2>1. frames' = frames /\ Passed("export")' = Passed("export")
        /\ scenario' = scenario
    BY <1>2, StepKeeps
  <2>2. \A n : Acting("export", n)' = Acting("export", n)
    BY <2>1, ActingStays
  <2> QED
    BY <2>1, <2>2 DEF FramesFilled, FramesMade, FramesSound, FramesComplete
<1> QED
  BY <1>1, <1>2

-------------------------------------------------------------------------------
(* The columns of the CSV files.                                               *)

(* The columns that the unit u of module n writes to a file without a frame.   *)
Exporting(n, u, csv) == ColumnsOf(Results(<<n, u>>).exports, csv)

(* The CSV files there are, and what is in them.                               *)
SavedMade == DOMAIN saved = UNION {CsvFiles(n) : n \in Passed("export")}
SavedFits == \A csv \in DOMAIN saved : \A z \in saved[csv] : InSchema(csv, z[1])
FramesSaved ==
  \A n \in Passed("export") : \A save \in SavesOf(n) :
    save[1] \notin SavedTooEarly =>
      save[1] \in DOMAIN frames /\ frames[save[1]] \subseteq saved[save[2]]
ColumnsExported ==
  \A n \in Passed("export") : \A u \in Acting("export", n) :
    \A csv \in CsvFiles(n) : \A c \in Exporting(n, u, csv) :
      \E z \in saved[csv] : z[1] = c
ColumnsSaved ==
  \A n \in Passed("export") : \A u \in Acting("export", n) :
    \A m \in Passed("export") : \A save \in SavesOf(m) :
      Position[n] < Position[m] =>
        \A c \in Put(n, u, save[1]) : \E z \in saved[save[2]] : z[1] = c
Reported ==
  SavedMade /\ SavedFits /\ FramesSaved /\ ColumnsExported /\ ColumnsSaved

(* The files a module writes, and what is in them.                             *)
LEMMA CsvFilesAre ==
  ASSUME NEW n, NEW csv
  PROVE  /\ csv \in CsvFiles(n) <=>
              \E u \in Acting("export", n) : csv \in Csvs(<<n, u>>)
         /\ \A u \in Acting("export", n) :
              \A c \in Exporting(n, u, csv) :
                csv \in CsvFiles(n)
         /\ \A save \in SavesOf(n) : save[2] \in CsvFiles(n)
<1>1. n \in Acting("export", n)
  BY DEF Acting
<1>2. \A u : Csvs(<<n, u>>) =
        Tables(ModuleParts[u].results.exports)
          \cup (IF u = n THEN {save[2] : save \in ModuleParts[n].results.saves}
                                \cup Tables(ModuleParts[n].results.header)
                ELSE {})
  BY DEF Csvs, Results, SavesOf
<1>3. CsvFiles(n) = {save[2] : save \in ModuleParts[n].results.saves}
        \cup Tables(ModuleParts[n].results.header)
        \cup UNION {Tables(ModuleParts[u].results.exports) :
                    u \in Acting("export", n)}
  BY DEF CsvFiles
<1>4. csv \in CsvFiles(n) <=>
        \E u \in Acting("export", n) : csv \in Csvs(<<n, u>>)
  BY <1>1, <1>2, <1>3
<1>5. ASSUME NEW u \in Acting("export", n),
             NEW c, c \in Exporting(n, u, csv)
      PROVE  csv \in CsvFiles(n)
  BY <1>3, <1>5, ColumnIs DEF Exporting, Results
<1>6. \A save \in SavesOf(n) : save[2] \in CsvFiles(n)
  BY <1>3 DEF SavesOf
<1> QED
  BY <1>4, <1>5, <1>6

LEMMA ContentIs ==
  ASSUME NEW n, NEW csv
  PROVE  /\ \A z \in Content(n, csv) :
              \/ \E save \in SavesOf(n) : save[2] = csv /\ z \in frames[save[1]]
              \/ \E u \in Acting("export", n) :
                   z[1] \in Exporting(n, u, csv)
              \/ \E pair \in lists :
                   /\ <<csv, pair[1]>> \in ModuleParts[n].results.header
                   /\ z[1] = pair[2]
         /\ \A save \in SavesOf(n) :
              save[2] = csv => frames[save[1]] \subseteq Content(n, csv)
         /\ \A u \in Acting("export", n) :
              \A c \in Exporting(n, u, csv) :
                \E z \in Content(n, csv) : z[1] = c
<1> DEFINE r == ModuleParts[n].results
           columns(u) == ColumnsOf(ModuleParts[u].results.exports, csv)
           headed == {pair[2] : pair \in {x \in lists : <<csv, x[1]>> \in r.header}}
<1>1. Content(n, csv) =
        (UNION {frames[save[1]] : save \in {s \in r.saves : s[2] = csv}})
        \cup (UNION {By(u, columns(u)) : u \in Acting("export", n)})
        \cup By(n, headed)
  BY DEF Content
<1>2. SavesOf(n) = r.saves
  BY DEF SavesOf
<1>3. \A u : Exporting(n, u, csv) = columns(u)
  BY DEF Exporting, Results
<1>4. \A c \in headed :
        \E pair \in lists : <<csv, pair[1]>> \in r.header /\ c = pair[2]
  OBVIOUS
<1> HIDE DEF columns, headed
<1>5. \A z \in Content(n, csv) :
        \/ \E save \in r.saves : save[2] = csv /\ z \in frames[save[1]]
        \/ \E u \in Acting("export", n) : z[1] \in columns(u)
        \/ z[1] \in headed
  BY <1>1, ByIs
<1>6. \A u \in Acting("export", n) : \A c \in columns(u) :
        <<c, u>> \in Content(n, csv) /\ <<c, u>>[1] = c
  BY <1>1, ByIs
<1>7. \A save \in r.saves :
        save[2] = csv => frames[save[1]] \subseteq Content(n, csv)
  BY <1>1
<1>8. \A u \in Acting("export", n) : \A c \in columns(u) :
        \E z \in Content(n, csv) : z[1] = c
  BY <1>6
<1>9. \A z \in Content(n, csv) :
        \/ \E save \in SavesOf(n) : save[2] = csv /\ z \in frames[save[1]]
        \/ \E u \in Acting("export", n) : z[1] \in Exporting(n, u, csv)
        \/ \E pair \in lists : <<csv, pair[1]>> \in r.header /\ z[1] = pair[2]
  BY <1>2, <1>3, <1>4, <1>5
<1> QED
  BY <1>2, <1>3, <1>7, <1>8, <1>9

(* What ImportsArranged says of the columns of a file.                         *)
LEMMA FitRoles ==
  ASSUME ImportsArranged, NEW n \in Modules, NEW u \in Acting("export", n)
  PROVE  /\ \A csv : \A c \in Exporting(n, u, csv) :
              InSchema(csv, c)
         /\ \A m \in Modules : \A save \in SavesOf(m) :
              Position[n] < Position[m] =>
                \A c \in Put(n, u, save[1]) : InSchema(save[2], c)
         /\ \A y \in Roles("declare") : \A pair \in Model(y).adds :
              \A header \in Results(<<n, u>>).header :
                header[2] = pair[1] => InSchema(header[1], pair[2])
<1> DEFINE x == <<n, u>>
<1>1. x \in Roles("export") /\ x[1] = n /\ x[2] = u
  BY ActingPlays
<1>2. \A f : Put(n, u, f) = ColumnsOf(Puts(x), f)
  BY DEF Put
<1> HIDE DEF x
<1>3. ASSUME NEW csv, NEW c, c \in ColumnsOf(Results(x).exports, csv)
      PROVE  InSchema(csv, c)
  <2>1. csv \in Csvs(x)
    BY <1>3, ColumnIs DEF Csvs
  <2> QED
    BY <1>1, <1>3, <2>1 DEF ImportsArranged
<1>4. \A m \in Modules : \A save \in SavesOf(m) :
        Position[n] < Position[m] =>
          \A c \in Put(n, u, save[1]) : InSchema(save[2], c)
  BY <1>1, <1>2 DEF ImportsArranged
<1>5. \A y \in Roles("declare") : \A pair \in Model(y).adds :
        \A header \in Results(x).header :
          header[2] = pair[1] => InSchema(header[1], pair[2])
  BY <1>1 DEF ImportsArranged
<1> QED
  BY <1>3, <1>4, <1>5 DEF x, Exporting

(* What a module saves is in a frame an earlier one created.                   *)
LEMMA SavesAreThere ==
  ASSUME GroupsArranged, FramesArranged, Underway, ExportResults, FramesMade,
         NEW h, h = Head(todo), NEW save \in SavesOf(h)
  PROVE  save[1] \in DOMAIN frames
<1>1. /\ h \in Modules /\ h \in Selected /\ h \in Acting("export", h)
      /\ phase # "choose" /\ Calling("export")
      /\ \A n \in Modules : Position[n] \in Nat
  BY ExportCalls
<1>2. PICK m \in Selected : /\ save[1] \in Tables(Creates(m)) /\ Has("export", m)
                            /\ Position[m] <= Position[h]
  BY <1>1, FrameThere
<1>3. m \in Modules /\ m \in Acting("export", m)
  BY SelectedAre DEF Acting
<1>4. Position[m] < Position[h]
  BY <1>1, <1>2, <1>3, FrameRoles
<1>5. m \in Passed("export")
  BY <1>1, <1>2, <1>3, <1>4, Reached DEF Phases
<1> QED
  BY <1>2, <1>5 DEF FramesMade

(* A call writes the files of its module, and no file of another.              *)
LEMMA SavedEffect ==
  ASSUME GroupsArranged, FramesArranged, Underway, ExportResults, SavedMade,
         NEW h, h = Head(todo)
  PROVE  /\ DOMAIN saved' = DOMAIN saved \cup CsvFiles(h)
         /\ DOMAIN saved \cap CsvFiles(h) = {}
         /\ \A csv \in CsvFiles(h) : saved'[csv] = Content(h, csv)
         /\ \A csv \in DOMAIN saved : saved'[csv] = saved[csv]
<1>1. saved' = [csv \in DOMAIN saved \cup CsvFiles(h) |->
                  IF csv \in CsvFiles(h) THEN Content(h, csv) ELSE saved[csv]]
  BY DEF ExportResults
<1>2. /\ h \in Modules /\ Passed("export") \subseteq Modules
      /\ \A n \in Passed("export") : n # h
  BY ExportCalls
<1>3. ASSUME NEW csv \in CsvFiles(h), NEW n \in Passed("export"),
             csv \in CsvFiles(n)
      PROVE  FALSE
  <2>1. PICK u \in Acting("export", n) : csv \in Csvs(<<n, u>>)
    BY <1>3, CsvFilesAre
  <2>2. PICK v \in Acting("export", h) : csv \in Csvs(<<h, v>>)
    BY CsvFilesAre
  <2> QED
    BY <1>2, <2>1, <2>2, FrameRoles
<1>4. DOMAIN saved \cap CsvFiles(h) = {}
  BY <1>3 DEF SavedMade
<1> QED
  BY <1>1, <1>4
-------------------------------------------------------------------------------
(* Every column saved is one of the table of the file.                         *)
LEMMA SavedFitsStep ==
  ASSUME GroupsArranged, FramesArranged, ImportsArranged, Underway,
         ExportResults, ListsFilled, FramesFilled, SavedMade, SavedFits
  PROVE  SavedFits'
<1> DEFINE h == Head(todo)
<1>1. h = Head(todo)
  OBVIOUS
<1> HIDE DEF h
<1>2. /\ h \in Modules /\ Passed("export") \subseteq Modules
      /\ \A n \in Passed("export") : Position[n] < Position[h]
      /\ h \in Acting("export", h)
  BY <1>1, ExportCalls
<1>3. /\ DOMAIN saved' = DOMAIN saved \cup CsvFiles(h)
      /\ \A csv \in CsvFiles(h) : saved'[csv] = Content(h, csv)
      /\ \A csv \in DOMAIN saved : saved'[csv] = saved[csv]
  BY <1>1, SavedEffect
<1>4. ASSUME NEW csv \in CsvFiles(h), NEW z \in Content(h, csv)
      PROVE  InSchema(csv, z[1])
  <2>1. ASSUME NEW save \in SavesOf(h), save[2] = csv, z \in frames[save[1]]
        PROVE  InSchema(csv, z[1])
    <3>1. save[1] \in DOMAIN frames
      BY <1>1, SavesAreThere DEF FramesFilled
    <3>2. PICK n \in Passed("export") : \E u \in Acting("export", n) :
            z[1] \in Put(n, u, save[1])
      BY <2>1, <3>1 DEF FramesFilled, FramesSound
    <3>3. PICK u \in Acting("export", n) : z[1] \in Put(n, u, save[1])
      BY <3>2
    <3> QED
      BY <1>2, <2>1, <3>3, FitRoles
  <2>2. ASSUME NEW u \in Acting("export", h),
               z[1] \in Exporting(h, u, csv)
        PROVE  InSchema(csv, z[1])
    BY <1>2, <2>2, FitRoles
  <2>3. ASSUME NEW pair \in lists,
               <<csv, pair[1]>> \in ModuleParts[h].results.header, z[1] = pair[2]
        PROVE  InSchema(csv, z[1])
    <3>1. PICK n \in Passed("declare") : pair \in Adding(n)
      BY DEF ListsFilled
    <3>2. n \in Modules
      BY SelectedAre DEF Passed
    <3>3. PICK u \in Acting("declare", n) : pair \in ModuleParts[u].model.adds
      BY <3>1 DEF Adding, Part
    <3> DEFINE y == <<n, u>>
               header == <<csv, pair[1]>>
    <3>4. y \in Roles("declare") /\ pair \in Model(y).adds
      BY <3>2, <3>3, ActingPlays DEF Model
    <3>5. header \in Results(<<h, h>>).header /\ header[2] = pair[1]
          /\ header[1] = csv
      BY <2>3 DEF Results
    <3> HIDE DEF y, header
    <3>6. InSchema(header[1], pair[2])
      BY <1>2, <3>4, <3>5, FitRoles
    <3> QED
      BY <2>3, <3>5, <3>6
  <2>4. \/ \E save \in SavesOf(h) : save[2] = csv /\ z \in frames[save[1]]
        \/ \E u \in Acting("export", h) : z[1] \in Exporting(h, u, csv)
        \/ \E pair \in lists :
             <<csv, pair[1]>> \in ModuleParts[h].results.header /\ z[1] = pair[2]
    BY ContentIs
  <2> QED
    BY <2>1, <2>2, <2>3, <2>4
<1>5. \A csv, c : InSchema(csv, c)' = InSchema(csv, c)
  BY DEF InSchema
<1> QED
  BY <1>3, <1>4 DEF SavedFits

(* Every column of a frame is in the file it is saved to.                      *)
LEMMA FramesSavedStep ==
  ASSUME GroupsArranged, FramesArranged, Underway, ExportResults, FramesFilled,
         SavedMade, FramesSaved
  PROVE  FramesSaved'
<1> DEFINE h == Head(todo)
<1>1. h = Head(todo)
  OBVIOUS
<1> HIDE DEF h
<1>2. /\ h \in Modules /\ Passed("export") \subseteq Modules
      /\ Passed("export")' = Passed("export") \cup {h}
      /\ \A n \in Passed("export") : Position[n] < Position[h] /\ n # h
      /\ \A n \in Modules : Position[n] \in Nat /\ n \in Acting("export", n)
      /\ IsFiniteSet(scenario.types)
  BY <1>1, ExportCalls DEF Acting
<1>3. /\ \A csv \in CsvFiles(h) : saved'[csv] = Content(h, csv)
      /\ \A csv \in DOMAIN saved : saved'[csv] = saved[csv]
  BY <1>1, SavedEffect
<1>4. /\ DOMAIN frames' = DOMAIN frames \cup Tables(Creates(h))
      /\ \A f \in DOMAIN frames' : \A z \in frames'[f] :
           \/ f \in DOMAIN frames /\ f \notin Tables(Creates(h)) /\ z \in frames[f]
           \/ \E u \in Acting("export", h) : z[1] \in Put(h, u, f)
  BY <1>1, <1>2, ExportEffect
<1>5. ASSUME NEW m \in Passed("export") \cup {h}, NEW save \in SavesOf(m),
             save[1] \notin SavedTooEarly, save[1] \in DOMAIN frames
      PROVE  frames'[save[1]] \subseteq frames[save[1]]
  <2>1. m \in Modules /\ ~(Position[h] < Position[m])
    BY <1>2
  <2>2. ASSUME NEW u \in Acting("export", h), NEW c, c \in Put(h, u, save[1])
        PROVE  FALSE
    <3>1. save[1] \in Tables(Creates(h)) \/ save[1] \in Tables(Fills(<<h, u>>))
      BY <2>2, PutIs
    <3> QED
      BY <1>2, <1>5, <2>1, <3>1, FrameRoles
  <2> QED
    BY <1>4, <1>5, <2>2
<1>6. ASSUME NEW n \in Passed("export") \cup {h}, NEW save \in SavesOf(n),
             save[1] \notin SavedTooEarly
      PROVE  /\ save[1] \in DOMAIN frames'
             /\ frames'[save[1]] \subseteq saved'[save[2]]
  <2>1. CASE n = h
    <3>1. save[1] \in DOMAIN frames
      BY <1>1, <2>1, SavesAreThere DEF FramesFilled
    <3>2. save[2] \in CsvFiles(h)
      BY <2>1, CsvFilesAre
    <3>3. frames[save[1]] \subseteq Content(h, save[2])
      BY <2>1, ContentIs
    <3> QED
      BY <1>3, <1>4, <1>5, <1>6, <3>1, <3>2, <3>3
  <2>2. CASE n \in Passed("export")
    <3>1. save[1] \in DOMAIN frames /\ frames[save[1]] \subseteq saved[save[2]]
      BY <1>6, <2>2 DEF FramesSaved
    <3>2. save[2] \in DOMAIN saved
      BY <2>2, CsvFilesAre DEF SavedMade
    <3> QED
      BY <1>3, <1>4, <1>5, <1>6, <3>1, <3>2
  <2> QED
    BY <2>1, <2>2
<1> QED
  BY <1>2, <1>6 DEF FramesSaved

(* Every column put or exported is in its file.                                *)
LEMMA ColumnsSavedStep ==
  ASSUME GroupsArranged, FramesArranged, Underway, ExportResults, FramesFilled,
         SavedMade, ColumnsExported, ColumnsSaved
  PROVE  ColumnsExported' /\ ColumnsSaved'
<1> DEFINE h == Head(todo)
<1>1. h = Head(todo)
  OBVIOUS
<1> HIDE DEF h
<1>2. /\ h \in Modules /\ Passed("export") \subseteq Modules
      /\ Passed("export")' = Passed("export") \cup {h}
      /\ \A n \in Passed("export") : Position[n] < Position[h] /\ n # h
      /\ \A n \in Modules : Position[n] \in Nat
      /\ \A n : Acting("export", n)' = Acting("export", n)
  BY <1>1, ExportCalls
<1>0. \A n : CsvFiles(n)' = CsvFiles(n)
  BY <1>2 DEF CsvFiles
<1>3. /\ \A csv \in CsvFiles(h) : saved'[csv] = Content(h, csv)
      /\ \A csv \in DOMAIN saved : saved'[csv] = saved[csv]
  BY <1>1, SavedEffect
<1>4. ASSUME NEW n \in Passed("export") \cup {h}, NEW u \in Acting("export", n),
             NEW csv \in CsvFiles(n), NEW c, c \in Exporting(n, u, csv)
      PROVE  \E z \in saved'[csv] : z[1] = c
  <2>1. csv \in CsvFiles(n)
    OBVIOUS
  <2>2. CASE n = h
    <3>1. \E z \in Content(h, csv) : z[1] = c
      BY <1>4, <2>2, ContentIs
    <3> QED
      BY <1>3, <2>1, <2>2, <3>1
  <2>3. CASE n \in Passed("export")
    <3>1. csv \in DOMAIN saved
      BY <2>1, <2>3 DEF SavedMade
    <3>2. \E z \in saved[csv] : z[1] = c
      BY <1>4, <2>1, <2>3 DEF ColumnsExported
    <3> QED
      BY <1>3, <3>1, <3>2
  <2> QED
    BY <2>2, <2>3
<1>5. ASSUME NEW n \in Passed("export") \cup {h}, NEW u \in Acting("export", n),
             NEW m \in Passed("export") \cup {h}, NEW save \in SavesOf(m),
             Position[n] < Position[m], NEW c, c \in Put(n, u, save[1])
      PROVE  \E z \in saved'[save[2]] : z[1] = c
  <2>1. save[2] \in CsvFiles(m)
    BY CsvFilesAre
  <2>2. n \in Passed("export")
    BY <1>2, <1>5
  <2>3. CASE m = h
    <3>1. save[1] \in DOMAIN frames
      BY <1>1, <2>3, SavesAreThere DEF FramesFilled
    <3>2. PICK z \in frames[save[1]] : z[1] = c
      BY <1>5, <2>2, <3>1 DEF FramesFilled, FramesComplete
    <3>3. z \in Content(h, save[2])
      BY <2>3, <3>2, ContentIs
    <3> QED
      BY <1>3, <2>1, <2>3, <3>2, <3>3
  <2>4. CASE m \in Passed("export")
    <3>1. save[2] \in DOMAIN saved
      BY <2>1, <2>4 DEF SavedMade
    <3>2. \E z \in saved[save[2]] : z[1] = c
      BY <1>5, <2>2, <2>4 DEF ColumnsSaved
    <3> QED
      BY <1>3, <3>1, <3>2
  <2> QED
    BY <2>3, <2>4
<1>6. ColumnsExported'
  BY <1>0, <1>2, <1>4 DEF ColumnsExported
<1>7. ColumnsSaved'
  BY <1>2, <1>5 DEF ColumnsSaved
<1> QED
  BY <1>6, <1>7

(* The files of the results stay as the modules called so far have left them.  *)
LEMMA ReportedStep ==
  ASSUME GroupsArranged, FramesArranged, ImportsArranged, Underway, [Next]_vars,
         ListsFilled, FramesFilled, Reported
  PROVE  Reported'
<1>1. scenario' = scenario
  BY StepKeeps
<1>2. \A n : Acting("export", n)' = Acting("export", n)
  BY <1>1, ActingStays
<1>3. \A n : CsvFiles(n)' = CsvFiles(n)
  BY <1>2 DEF CsvFiles
<1>4. CASE ExportResults
  <2>1. SavedMade'
    <3>1. /\ Passed("export")' = Passed("export") \cup {Head(todo)}
          /\ DOMAIN saved' = DOMAIN saved \cup CsvFiles(Head(todo))
      BY <1>4, ExportCalls, SavedEffect DEF Reported
    <3> QED
      BY <1>3, <3>1 DEF Reported, SavedMade
  <2> QED
    BY <1>4, <2>1, SavedFitsStep, FramesSavedStep, ColumnsSavedStep DEF Reported
<1>5. CASE ~ExportResults
  <2>1. /\ frames' = frames /\ saved' = saved
        /\ Passed("export")' = Passed("export")
    BY <1>5, StepKeeps
  <2> QED
    BY <1>2, <1>3, <2>1 DEF Reported, SavedMade, SavedFits, FramesSaved,
                            ColumnsExported, ColumnsSaved
<1> QED
  BY <1>4, <1>5

-------------------------------------------------------------------------------
(* Import, processing, and the whole invariant.                                *)

(* The files in the database, the columns updated and the tables filled there. *)
ResultsImported ==
  imported = UNION {Imports(n) \cap DOMAIN saved : n \in Passed("import")}
ColumnsUpdated ==
  \A n \in Passed("process") : \A u \in Processing(n) :
    ProcessParts[u].sets \subseteq updated
TablesFilled ==
  \A n \in Passed("process") : \A u \in Processing(n) :
    \A t \in ProcessParts[u].fills \ FilledTwice :
      t \in DOMAIN aggregated /\ aggregated[t] = u

(* import_results_into_database reads the files of its module that are there.  *)
LEMMA ImportedStep ==
  ASSUME GroupsArranged, Underway, [Next]_vars, ResultsImported
  PROVE  ResultsImported'
<1>1. \A n : Imports(n)' = Imports(n)
  <2> TAKE n
  <2>1. Part("import", n)' = Part("import", n)
    BY StepKeeps, ActingStays
  <2> QED
    BY <2>1 DEF Imports
<1>2. CASE ImportResults
  <2>1. /\ Call("import") /\ saved' = saved
        /\ imported' = imported \cup (Imports(Head(todo)) \cap DOMAIN saved)
    BY <1>2 DEF ImportResults
  <2>2. Passed("import")' = Passed("import") \cup {Head(todo)}
    BY <2>1, CalledPasses DEF Phases
  <2> QED
    BY <1>1, <2>1, <2>2 DEF ResultsImported
<1>3. CASE ~ImportResults
  <2>1. imported' = imported /\ Passed("import")' = Passed("import")
    BY <1>3, StepKeeps
  <2>2. CASE ExportResults
    <3>1. phase = "export"
      BY <2>2 DEF ExportResults, Call
    <3>2. \A n \in Passed("import") : FALSE
      BY <3>1 DEF Passed, Finished, Rank
    <3> QED
      BY <2>1, <3>2 DEF ResultsImported
  <2>3. CASE ~ExportResults
    <3>1. saved' = saved
      BY <2>3, StepKeeps
    <3> QED
      BY <1>1, <2>1, <3>1 DEF ResultsImported
  <2> QED
    BY <2>2, <2>3
<1> QED
  BY <1>2, <1>3

(* The roles of the results processing.                                        *)
LEMMA ProcessingIs ==
  ASSUME NEW n \in Modules, NEW u
  PROVE  u \in Processing(n) <=>
           <<n, u>> \in ProcessingRoles /\ u \in {n} \cup scenario.types
BY ActingPlays DEF Processing, ProcessingRoles

(* Two roles fill the same table only if it is one of the exceptions.          *)
LEMMA FillsOnce ==
  ASSUME ProcessingArranged, NEW n \in Modules, NEW u \in Processing(n),
         NEW m \in Modules, NEW v \in Processing(m), n # m \/ u # v
  PROVE  ProcessParts[u].fills \cap ProcessParts[v].fills \subseteq FilledTwice
<1> DEFINE x == <<n, u>>
           y == <<m, v>>
<1>1. x \in ProcessingRoles /\ y \in ProcessingRoles /\ x # y
      /\ Processes(x) = ProcessParts[u] /\ Processes(y) = ProcessParts[v]
  BY ProcessingIs DEF Processes
<1> HIDE DEF x, y
<1>2. Processes(x).fills \cap Processes(y).fills \subseteq FilledTwice
  BY <1>1 DEF ProcessingArranged
<1> QED
  BY <1>1, <1>2

(* process_results fills its tables, each but once.                            *)
LEMMA ProcessedStep ==
  ASSUME GroupsArranged, ProcessingArranged, Underway, [Next]_vars,
         ColumnsUpdated, TablesFilled
  PROVE  ColumnsUpdated' /\ TablesFilled'
<1>1. \A n : Processing(n)' = Processing(n)
  BY StepKeeps, ActingStays DEF Processing
<1>2. CASE ProcessResults
  <2> DEFINE h == Head(todo)
             units == Processing(h)
             tables == UNION {ProcessParts[u].fills : u \in units}
  <2>1. /\ Call("process")
        /\ updated' = updated \cup UNION {ProcessParts[u].sets : u \in units}
    BY <1>2 DEF ProcessResults
  <2>2. PICK last \in [tables -> units] :
          /\ \A t \in tables : t \in ProcessParts[last[t]].fills
          /\ aggregated' = [t \in DOMAIN aggregated \cup tables |->
                             IF t \in tables THEN last[t] ELSE aggregated[t]]
    BY <1>2 DEF ProcessResults
  <2>3. /\ Passed("process")' = Passed("process") \cup {h}
        /\ \A n \in Passed("process") : Position[n] < Position[h]
        /\ Calling("process")
    BY <2>1, CalledPasses DEF Phases
  <2>4. h \in Modules /\ Passed("process") \subseteq Modules
    BY <2>3, HeadCalled, SelectedAre DEF Passed, Phases
  <2>5. \A n \in Passed("process") : n # h
    BY <2>3, <2>4, PositionIs
  <2>6. \A u \in units : ProcessParts[u].fills \subseteq tables
    OBVIOUS
  <2>7. /\ DOMAIN aggregated' = DOMAIN aggregated \cup tables
        /\ \A t \in tables : /\ aggregated'[t] = last[t] /\ last[t] \in units
                             /\ t \in ProcessParts[last[t]].fills
        /\ \A t \in DOMAIN aggregated \ tables : aggregated'[t] = aggregated[t]
    BY <2>2
  <2>8. ColumnsUpdated'
    BY <1>1, <2>1, <2>3 DEF ColumnsUpdated
  <2> HIDE DEF h, tables, units
  <2>9. ASSUME NEW n \in Passed("process") \cup {h}, NEW u \in Processing(n),
               NEW t \in ProcessParts[u].fills \ FilledTwice
        PROVE  t \in DOMAIN aggregated' /\ aggregated'[t] = u
    <3>1. CASE t \in tables
      <4>1. last[t] \in Processing(h) /\ t \in ProcessParts[last[t]].fills
        BY <2>7, <3>1 DEF units
      <4>2. n \in Modules
        BY <2>4
      <4>3. n = h /\ u = last[t]
        BY <2>4, <2>9, <4>1, <4>2, FillsOnce
      <4> QED
        BY <2>7, <3>1, <4>3
    <3>2. CASE t \notin tables
      <4>1. n # h
        BY <2>6, <2>9, <3>2 DEF units
      <4>2. t \in DOMAIN aggregated /\ aggregated[t] = u
        BY <2>9, <4>1 DEF TablesFilled
      <4> QED
        BY <2>7, <3>2, <4>2
    <3> QED
      BY <3>1, <3>2
  <2>10. TablesFilled'
    BY <1>1, <2>3, <2>9 DEF TablesFilled
  <2> QED
    BY <2>8, <2>10
<1>3. CASE ~ProcessResults
  <2>1. /\ updated' = updated /\ aggregated' = aggregated
        /\ Passed("process")' = Passed("process")
    BY <1>3, StepKeeps
  <2> QED
    BY <1>1, <2>1 DEF ColumnsUpdated, TablesFilled
<1> QED
  BY <1>2, <1>3
-------------------------------------------------------------------------------
(* The inductive invariant of a scenario, from its modules to its aggregates.  *)
Concluded ==
  /\ Formulated /\ FramesFilled /\ Reported
  /\ ResultsImported /\ ColumnsUpdated /\ TablesFilled

(* The invariant holds at the start, and every step keeps it.                  *)
LEMMA ConcludedInit == Init => Concluded
<1> SUFFICES ASSUME Init PROVE Concluded
  OBVIOUS
<1>1. Underway
  BY UnderwayInit
<1>2. InputsWritten /\ ComponentsDeclared /\ ListsFilled /\ DataLoaded /\ ModelBuilt
  BY NothingInit
<1>3. \A p \in Phases : Passed(p) = {}
  BY PassedNone DEF Init
<1>4. Passed("export") = {} /\ Passed("import") = {} /\ Passed("process") = {}
  BY <1>3 DEF Phases
<1>5. DOMAIN frames = {} /\ DOMAIN saved = {} /\ imported = {}
  BY DEF Init
<1>6. FramesFilled
  BY <1>4, <1>5 DEF FramesFilled, FramesMade, FramesSound, FramesComplete
<1>7. Reported
  BY <1>4, <1>5 DEF Reported, SavedMade, SavedFits, FramesSaved,
                    ColumnsExported, ColumnsSaved
<1>8. ResultsImported /\ ColumnsUpdated /\ TablesFilled
  BY <1>4, <1>5 DEF ResultsImported, ColumnsUpdated, TablesFilled
<1> QED
  BY <1>1, <1>2, <1>6, <1>7, <1>8 DEF Concluded, Formulated

LEMMA ConcludedStep ==
  ASSUME Arranged, Concluded, [Next]_vars
  PROVE  Concluded'
<1>1. GroupsArranged /\ ListsArranged /\ FramesArranged /\ ImportsArranged
      /\ ProcessingArranged
  BY DEF Arranged
<1>2. /\ Underway /\ InputsWritten /\ ComponentsDeclared /\ ListsFilled
      /\ DataLoaded /\ ModelBuilt
  BY DEF Concluded, Formulated
<1>3. Formulated'
  BY <1>1, <1>2, StepKeeps, InputsStep, ComponentsStep, ListsStep, LoadedStep,
     BuiltStep DEF Formulated
<1>4. FramesFilled' /\ Reported'
  BY <1>1, <1>2, FramesStep, ReportedStep DEF Concluded
<1>5. ResultsImported' /\ ColumnsUpdated' /\ TablesFilled'
  BY <1>1, <1>2, ImportedStep, ProcessedStep DEF Concluded
<1> QED
  BY <1>3, <1>4, <1>5 DEF Concluded

(* The inductive invariant: in every scenario that fits, the modules called so *)
(* far are those before the current one, and the files, components, lists,     *)
(* frames and tables there are just what their roles have put there.           *)
THEOREM ConcludedAlways ==
  ASSUME Arranged
  PROVE  Spec => []Concluded
<1>1. Concluded /\ [Next]_vars => Concluded'
  BY ConcludedStep
<1> QED
  BY <1>1, ConcludedInit, PTL DEF Spec

-------------------------------------------------------------------------------
(* The results reach the database.                                             *)

(* A unit with results has its module called.                                  *)
LEMMA ExportHas ==
  ASSUME NEW n, NEW u \in Acting("export", n), Csvs(<<n, u>>) # {}
  PROVE  Has("export", n)
<1> DEFINE r == ModuleParts[u].results
<1>1. r.exports # {} \/ (u = n /\ (r.saves # {} \/ r.header # {}))
  BY DEF Csvs, Results, SavesOf, Tables
<1>2. r # NoResults
  BY <1>1 DEF NoResults
<1> QED
  BY <1>2, HasIf

(* What a module imports was exported.                                         *)
LEMMA ExportedBefore ==
  ASSUME Arranged, Concluded, phase # "choose",
         Finished("export") \/ Ended("export"),
         NEW n \in Selected, NEW u \in Acting("import", n),
         NEW csv \in ModuleParts[u].imports
  PROVE  csv \in DOMAIN saved
<1>1. GroupsArranged /\ ImportsArranged /\ Underway /\ SavedMade
  BY DEF Arranged, Concluded, Formulated, Reported
<1> DEFINE x == <<n, u>>
<1>2. x \in Roles("import") /\ x[2] = u /\ u \in {n} \cup scenario.types
  BY <1>1, ActingRole
<1>3. ASSUME NEW y \in Roles("export"), Brings(x, y)
      PROVE  y[1] \in Selected /\ y[2] \in Acting("export", y[1])
             /\ y = <<y[1], y[2]>>
  BY <1>1, <1>2, <1>3, InUse
<1> HIDE DEF x
<1>4. PICK y \in Roles("export") : csv \in Csvs(y) /\ Brings(x, y)
  BY <1>1, <1>2 DEF ImportsArranged
<1>5. y[1] \in Selected /\ y[2] \in Acting("export", y[1]) /\ y = <<y[1], y[2]>>
  BY <1>3, <1>4
<1>6. Has("export", y[1])
  BY <1>4, <1>5, ExportHas
<1>7. y[1] \in Passed("export")
  BY <1>5, <1>6, AllPassed DEF Phases
<1>8. csv \in CsvFiles(y[1])
  BY <1>4, <1>5, CsvFilesAre
<1> QED
  BY <1>1, <1>7, <1>8 DEF SavedMade

(* A frame that a module fills or saves was made before it.                    *)
LEMMA FramesAreThere ==
  ASSUME Arranged, Concluded
  PROVE  FramesExist
<1>1. GroupsArranged /\ FramesArranged /\ Underway /\ FramesMade
  BY DEF Arranged, Concluded, Formulated, FramesFilled
<1> DEFINE h == Head(todo)
<1>2. h = Head(todo)
  OBVIOUS
<1> HIDE DEF h
<1>3. SUFFICES ASSUME Calling("export"), NEW f,
                      \/ f \in Tables(ModuleParts[h].results.assigns)
                      \/ f \in {save[1] : save \in ModuleParts[h].results.saves}
                      \/ \E u \in LoadedTypes("export", h) :
                           /\ ModuleParts[h].results.collects # "none"
                           /\ f \in Tables(ModuleParts[u].results.returns)
               PROVE  f \in DOMAIN frames
                        \cup Tables(ModuleParts[h].results.creates)
  BY <1>2 DEF FramesExist
<1>4. /\ h \in Selected /\ h \in Modules /\ phase # "choose"
      /\ h \in Acting("export", h)
  BY <1>1, <1>2, <1>3, HeadCalled DEF Phases, Acting
<1>5. \E u \in Acting("export", h) :
        \/ f \in Tables(Fills(<<h, u>>))
        \/ u = h /\ f \in {save[1] : save \in SavesOf(h)}
  <2>1. CASE f \in Tables(ModuleParts[h].results.assigns)
    <3>1. Fills(<<h, h>>) = ModuleParts[h].results.assigns
      BY DEF Fills, Results
    <3> QED
      BY <1>4, <2>1, <3>1
  <2>2. CASE f \in {save[1] : save \in ModuleParts[h].results.saves}
    BY <1>4, <2>2 DEF SavesOf
  <2>3. ASSUME NEW u \in LoadedTypes("export", h),
               ModuleParts[h].results.collects # "none",
               f \in Tables(ModuleParts[u].results.returns)
        PROVE  u \in Acting("export", h) /\ f \in Tables(Fills(<<h, u>>))
    <3>1. u \in Loadable("export", h) /\ u \in Acting("export", h)
      BY DEF LoadedTypes, Loadable, Acting
    <3>2. u # h
      BY <1>1, <1>4, <3>1 DEF FramesArranged
    <3>3. Fills(<<h, u>>) = ModuleParts[u].results.returns
      BY <2>3, <3>2 DEF Fills, Results
    <3> QED
      BY <2>3, <3>1, <3>3
  <2> QED
    BY <1>3, <2>1, <2>2, <2>3
<1>6. PICK m \in Selected : /\ f \in Tables(Creates(m)) /\ Has("export", m)
                            /\ Position[m] <= Position[h]
  BY <1>1, <1>4, <1>5, FrameThere
<1>7. m \in Passed("export") \/ m = h
  BY <1>1, <1>2, <1>3, <1>6, Reached DEF Phases
<1>8. CASE m = h
  BY <1>6, <1>8 DEF Creates
<1>9. CASE m \in Passed("export")
  BY <1>1, <1>6, <1>9 DEF FramesMade
<1> QED
  BY <1>7, <1>8, <1>9

(* A column that is in a frame when the exports end is in a file.              *)
LEMMA ResultsKept ==
  ASSUME Arranged, Concluded
  PROVE  NoResultLost
<1>1. FramesSaved
  BY DEF Concluded, Reported
<1> SUFFICES ASSUME Ended("export"), NEW save \in Saves,
                    save[1] \notin SavedTooEarly
             PROVE  frames[save[1]] \subseteq saved[save[2]]
  BY DEF NoResultLost, ResultLost
<1>2. PICK n \in Selected : save \in SavesOf(n)
  BY DEF Saves, SavesOf
<1>3. n \in Acting("export", n)
  BY DEF Acting
<1>4. Csvs(<<n, n>>) # {}
  BY <1>2 DEF Csvs
<1>5. n \in Passed("export")
  BY <1>2, <1>3, <1>4, ExportHas, AllPassed DEF Phases
<1> QED
  BY <1>1, <1>2, <1>5 DEF FramesSaved

(* A file that a module imports is there.                                      *)
LEMMA ImportedIsThere ==
  ASSUME Arranged, Concluded
  PROVE  ImportsWhatWasExported
<1>1. GroupsArranged /\ Underway
  BY DEF Arranged, Concluded, Formulated
<1> SUFFICES ASSUME Calling("import"), NEW csv \in Imports(Head(todo))
             PROVE  csv \in DOMAIN saved
  BY DEF ImportsWhatWasExported
<1>2. Head(todo) \in Selected /\ phase # "choose"
  BY <1>1, HeadCalled DEF Phases
<1>3. PICK u \in Acting("import", Head(todo)) : csv \in ModuleParts[u].imports
  BY DEF Imports, Part
<1>4. Finished("export")
  BY DEF Calling, Finished, Rank
<1> QED
  BY <1>2, <1>3, <1>4, ExportedBefore

(* A file that was saved is imported.                                          *)
LEMMA EveryResultImported ==
  ASSUME Arranged, Concluded
  PROVE  ResultsAreImported
<1>1. GroupsArranged /\ ImportsArranged /\ Underway /\ SavedMade /\ ResultsImported
  BY DEF Arranged, Concluded, Formulated, Reported
<1> SUFFICES ASSUME phase = "done", NEW csv \in DOMAIN saved \ NeverImported
             PROVE  csv \in imported
  BY DEF ResultsAreImported
<1>2. phase # "choose" /\ Finished("import")
  BY DEF Finished, Rank
<1>3. PICK n \in Passed("export") : csv \in CsvFiles(n)
  BY <1>1 DEF SavedMade
<1>4. PICK u \in Acting("export", n) : csv \in Csvs(<<n, u>>)
  BY <1>3, CsvFilesAre
<1> DEFINE x == <<n, u>>
<1>5. n \in Selected
  BY <1>3 DEF Passed
<1>6. x \in Roles("export") /\ csv \in Csvs(x) /\ u \in {n} \cup scenario.types
  BY <1>1, <1>4, <1>5, ActingRole
<1>7. ASSUME NEW y \in Roles("import"), Brings(x, y)
      PROVE  y[1] \in Selected /\ y[2] \in Acting("import", y[1])
  BY <1>1, <1>2, <1>5, <1>6, <1>7, InUse
<1> HIDE DEF x
<1>8. PICK y \in Roles("import") : csv \in ModuleParts[y[2]].imports /\ Brings(x, y)
  BY <1>1, <1>6 DEF ImportsArranged
<1>9. y[1] \in Selected /\ y[2] \in Acting("import", y[1])
  BY <1>7, <1>8
<1>10. y[1] \in Passed("import")
  BY <1>2, <1>8, <1>9, HasIf, AllPassed DEF Phases
<1>11. csv \in Imports(y[1])
  BY <1>8, <1>9 DEF Imports, Part
<1> QED
  BY <1>1, <1>10, <1>11 DEF ResultsImported

(* A column of an imported file is one of its table.                           *)
LEMMA ColumnsFit ==
  ASSUME Arranged, Concluded
  PROVE  ColumnsFitSchema
<1>1. GroupsArranged /\ Underway /\ SavedFits
  BY DEF Arranged, Concluded, Formulated, Reported
<1> SUFFICES ASSUME Calling("import"), NEW csv \in Imports(Head(todo)),
                    csv \in DOMAIN saved, NEW z \in saved[csv]
             PROVE  z[1] \in TableOf[csv] \/ <<csv, z[1]>> \in MisnamedColumns
  BY DEF ColumnsFitSchema
<1>2. Head(todo) \in Selected
  BY <1>1, HeadCalled DEF Phases
<1>3. PICK u \in Acting("import", Head(todo)) : csv \in ModuleParts[u].imports
  BY DEF Imports, Part
<1> DEFINE x == <<Head(todo), u>>
<1>4. x \in Roles("import") /\ x[2] = u
  BY <1>1, <1>2, <1>3, ActingRole
<1> HIDE DEF x
<1>5. csv \in AllImports
  BY <1>3, <1>4 DEF AllImports
<1> QED
  BY <1>1, <1>5 DEF SavedFits, InSchema

(* The column a role reads was exported by a role it brings.                   *)
LEMMA ExportedIsSaved ==
  ASSUME Arranged, Concluded, phase # "choose", Finished("export"),
         NEW n \in Selected, NEW u \in {n} \cup scenario.types,
         NEW csv, NEW c, Exported(<<n, u>>, csv, c)
  PROVE  \E z \in saved[csv] : z[1] = c
<1>1. GroupsArranged /\ Underway /\ ColumnsExported /\ ColumnsSaved
  BY DEF Arranged, Concluded, Formulated, Reported
<1> DEFINE x == <<n, u>>
<1>2. ASSUME NEW q, NEW y \in Roles(q), Brings(x, y)
      PROVE  y[1] \in Selected /\ y[2] \in Acting(q, y[1]) /\ y = <<y[1], y[2]>>
  BY <1>1, <1>2, InUse
<1>3. Exported(x, csv, c)
  OBVIOUS
<1> HIDE DEF x
<1>4. PICK y \in Roles("export") :
        /\ Brings(x, y)
        /\ \/ c \in ColumnsOf(Results(y).exports, csv)
           \/ \E m \in Modules : \E save \in SavesOf(m) :
                /\ save[2] = csv /\ c \in ColumnsOf(Puts(y), save[1])
                /\ Position[y[1]] < Position[m] /\ Brings(x, <<m, m>>)
  BY <1>3 DEF Exported
<1>5. y[1] \in Selected /\ y[2] \in Acting("export", y[1]) /\ y = <<y[1], y[2]>>
  BY <1>2, <1>4
<1>6. CASE c \in ColumnsOf(Results(y).exports, csv)
  <2>1. csv \in Csvs(y)
    BY <1>6, ColumnIs DEF Csvs
  <2>2. y[1] \in Passed("export")
    BY <1>5, <2>1, ExportHas, AllPassed DEF Phases
  <2>3. c \in Exporting(y[1], y[2], csv)
    BY <1>5, <1>6 DEF Exporting
  <2>4. csv \in CsvFiles(y[1])
    BY <1>5, <2>3, CsvFilesAre
  <2> QED
    BY <1>1, <1>5, <2>2, <2>3, <2>4 DEF ColumnsExported
<1>7. ASSUME NEW m \in Modules, NEW save \in SavesOf(m),
             save[2] = csv, c \in ColumnsOf(Puts(y), save[1]),
             Position[y[1]] < Position[m], Brings(x, <<m, m>>)
      PROVE  \E z \in saved[csv] : z[1] = c
  <2>1. <<m, m>> \in Roles("export")
    BY RoleIs
  <2>2. m \in Selected
    <3> DEFINE w == <<m, m>>
    <3>1. w \in Roles("export") /\ w[1] = m /\ Brings(x, w)
      BY <1>7, <2>1
    <3> HIDE DEF w
    <3> QED
      BY <1>2, <3>1
  <2>3. m \in Acting("export", m) /\ Csvs(<<m, m>>) # {}
    BY <1>7 DEF Acting, Csvs
  <2>4. m \in Passed("export")
    BY <2>2, <2>3, ExportHas, AllPassed DEF Phases
  <2>5. c \in Put(y[1], y[2], save[1])
    BY <1>5, <1>7 DEF Put
  <2>6. Has("export", y[1])
    <3>1. \E col \in Puts(y) : TRUE
      BY <1>7 DEF ColumnsOf
    <3>2. ModuleParts[y[2]].results # NoResults
      BY <3>1 DEF Puts, Fills, Creates, Results, NoResults
    <3> QED
      BY <1>5, <3>2, HasIf
  <2>7. y[1] \in Passed("export")
    BY <1>5, <2>6, AllPassed DEF Phases
  <2> QED
    BY <1>1, <1>5, <1>7, <2>4, <2>5, <2>7 DEF ColumnsSaved
<1> QED
  BY <1>4, <1>6, <1>7

(* A column that results processing reads was imported, or set before it.      *)
LEMMA ReadIsImported ==
  ASSUME Arranged, Concluded
  PROVE  ReadsWhatWasImported
<1>1. /\ GroupsArranged /\ ProcessingArranged /\ Underway
      /\ ResultsImported /\ ColumnsUpdated
  BY DEF Arranged, Concluded, Formulated
<1> DEFINE h == Head(todo)
<1>2. h = Head(todo)
  OBVIOUS
<1> HIDE DEF h
<1>3. SUFFICES ASSUME Calling("process"), NEW u \in Processing(h),
                      NEW col \in ProcessParts[u].reads
               PROVE  /\ col[1] \in imported
                      /\ \/ col[2] \in {x[1] : x \in saved[col[1]]}
                         \/ col \in updated \cup SavedWithout
  BY <1>2 DEF ReadsWhatWasImported
<1>4. h \in Selected /\ h \in Modules /\ phase # "choose"
  BY <1>1, <1>2, <1>3, HeadCalled DEF Phases
<1>5. Finished("import") /\ Finished("export")
  BY <1>3 DEF Calling, Finished, Rank
<1> DEFINE x == <<h, u>>
<1>6. x \in ProcessingRoles /\ u \in {h} \cup scenario.types
      /\ Processes(x) = ProcessParts[u] /\ x[1] = h
  BY <1>4, ProcessingIs DEF Processes
<1>7. ASSUME NEW q, NEW y \in Roles(q), Brings(x, y)
      PROVE  y[1] \in Selected /\ y[2] \in Acting(q, y[1]) /\ y = <<y[1], y[2]>>
  BY <1>1, <1>4, <1>6, <1>7, InUse
<1>8. ASSUME Exported(x, col[1], col[2])
      PROVE  \E z \in saved[col[1]] : z[1] = col[2]
  BY <1>4, <1>5, <1>6, <1>8, ExportedIsSaved
<1> HIDE DEF x
<1>9. col[1] \in imported
  <2>1. PICK y \in Roles("import") :
          col[1] \in ModuleParts[y[2]].imports /\ Brings(x, y)
    BY <1>6 , <1>1 DEF ProcessingArranged
  <2>2. y[1] \in Selected /\ y[2] \in Acting("import", y[1])
    BY <1>7, <2>1
  <2>3. y[1] \in Passed("import")
    BY <1>5, <2>1, <2>2, HasIf, AllPassed DEF Phases
  <2>4. col[1] \in DOMAIN saved
    BY <1>4, <1>5, <2>1, <2>2, ExportedBefore
  <2>5. col[1] \in Imports(y[1])
    BY <2>1, <2>2 DEF Imports, Part
  <2> QED
    BY <1>1, <2>3, <2>4, <2>5 DEF ResultsImported
<1>10. \/ col \in SavedWithout \/ Exported(x, col[1], col[2])
       \/ \E y \in ProcessingRoles :
            /\ col \in Processes(y).sets /\ Brings(x, y)
            /\ Position[y[1]] < Position[x[1]]
  BY <1>1, <1>6 DEF ProcessingArranged
<1>11. ASSUME NEW y \in ProcessingRoles, col \in Processes(y).sets,
              Brings(x, y), Position[y[1]] < Position[h]
       PROVE  col \in updated
  <2>1. y \in Roles("process") /\ y[2] \in DOMAIN ProcessParts
    BY DEF ProcessingRoles
  <2>2. y[1] \in Selected /\ y[2] \in Acting("process", y[1])
    BY <1>7, <1>11, <2>1
  <2>3. Has("process", y[1]) /\ y[2] \in Processing(y[1])
    BY <2>1, <2>2, HasIf DEF Processing
  <2>4. y[1] \in Modules /\ Position[y[1]] \in Nat /\ Position[h] \in Nat
    BY <1>1, <1>4, <2>2, SelectedAre, PositionIs
  <2>5. y[1] \in Passed("process")
    BY <1>1, <1>2, <1>3, <1>11, <2>2, <2>3, <2>4, Reached DEF Phases
  <2> QED
    BY <1>1, <1>11, <2>3, <2>5 DEF ColumnsUpdated, Processes
<1> QED
  BY <1>6, <1>8, <1>9, <1>10, <1>11

(* A table that results processing filled still has what it put there.         *)
LEMMA TablesKept ==
  ASSUME Arranged, Concluded
  PROVE  AggregatesAreKept
<1>1. GroupsArranged /\ ProcessingArranged /\ Underway /\ TablesFilled
  BY DEF Arranged, Concluded, Formulated
<1> SUFFICES ASSUME phase = "done", NEW u \in Units \cap DOMAIN ProcessParts,
                    NEW t \in ProcessParts[u].fills \ FilledTwice
             PROVE  aggregated[t] = u
  BY DEF AggregatesAreKept
<1>2. phase # "choose" /\ Finished("process")
  BY DEF Finished, Rank
<1>3. PICK n \in Selected : u \in Acting("declare", n)
  BY DEF Units, Acting
<1> DEFINE x == <<n, u>>
<1>4. x \in Roles("declare") /\ x[2] = u /\ u \in {n} \cup scenario.types
  BY <1>1, <1>3, ActingRole
<1>5. ASSUME NEW y \in Roles("process"), Brings(x, y)
      PROVE  y[1] \in Selected /\ y[2] \in Acting("process", y[1])
  BY <1>1, <1>2, <1>4, <1>5, InUse
<1> HIDE DEF x
<1>6. PICK y \in ProcessingRoles : y[2] = u /\ Brings(x, y)
  BY <1>1, <1>4 DEF ProcessingArranged
<1>7. y[1] \in Selected /\ u \in Acting("process", y[1])
  BY <1>5, <1>6 DEF ProcessingRoles
<1>8. u \in Processing(y[1]) /\ Has("process", y[1])
  BY <1>7, HasIf DEF Processing
<1>9. y[1] \in Passed("process")
  BY <1>2, <1>7, <1>8, AllPassed DEF Phases
<1> QED
  BY <1>1, <1>8, <1>9 DEF TablesFilled

(* In every scenario that fits, every column that export_results puts in a     *)
(* frame reaches a CSV file, the file is imported into a table that has the    *)
(* column, and process_results reads and fills what it means to                *)
(* (ResultsReachTheDatabase).                                                  *)
THEOREM ResultsSafe ==
  ASSUME Arranged
  PROVE  Spec => []ResultsReachTheDatabase
<1>1. Concluded => ResultsReachTheDatabase
  BY FramesAreThere, ResultsKept, ImportedIsThere, EveryResultImported,
     ColumnsFit, ReadIsImported, TablesKept DEF ResultsReachTheDatabase
<1> QED
  BY <1>1, ConcludedAlways, PTL
-------------------------------------------------------------------------------
(* A step takes nothing from a list, and from a frame only what it empties.    *)
LEMMA StepLosesNothing ==
  ASSUME Arranged, Concluded, [Next]_vars
  PROVE  /\ lists \subseteq lists'
         /\ \A f \in DOMAIN frames :
              \A x \in frames[f] \ frames'[f] : x[1] \in Emptied
<1>1. /\ GroupsArranged /\ ListsArranged /\ FramesArranged /\ Underway
      /\ ListsFilled /\ FramesFilled
  BY DEF Arranged, Concluded, Formulated
<1>2. lists \subseteq lists'
  BY <1>1, ListsStep
<1>3. CASE ExportResults
  <2> DEFINE h == Head(todo)
  <2>1. h = Head(todo)
    OBVIOUS
  <2> HIDE DEF h
  <2>2. /\ h \in Modules /\ Passed("export") \subseteq Modules
        /\ \A n \in Passed("export") : Position[n] < Position[h] /\ n # h
        /\ IsFiniteSet(scenario.types)
    BY <1>1, <1>3, <2>1, ExportCalls
  <2>3. Tables(Creates(h)) \cap DOMAIN frames = {}
    BY <1>1, <1>3, <2>1, CreatedIsNew DEF FramesFilled
  <2>4. \A f \in DOMAIN frames \ Tables(Creates(h)) : \A z \in frames[f] :
          \/ z \in frames'[f]
          \/ \E u \in Acting("export", h) : z[1] \in Filled(h, u, f)
    BY <1>1, <1>3, <2>1, <2>2, ExportEffect
  <2> SUFFICES ASSUME NEW f \in DOMAIN frames, NEW z \in frames[f],
                      z \notin frames'[f]
               PROVE  z[1] \in Emptied
    BY <1>2
  <2>5. PICK v \in Acting("export", h) : z[1] \in Filled(h, v, f)
    BY <2>3, <2>4
  <2>6. PICK n \in Passed("export") : \E u \in Acting("export", n) :
          z[1] \in Put(n, u, f)
    BY <1>1 DEF FramesFilled, FramesSound
  <2>7. PICK u \in Acting("export", n) : z[1] \in Put(n, u, f)
    BY <2>6
  <2> QED
    BY <1>1, <2>2, <2>5, <2>7, FrameRoles
<1>4. CASE ~ExportResults
  <2>1. frames' = frames
    BY <1>1, <1>4, StepKeeps
  <2> QED
    BY <1>2, <2>1
<1> QED
  BY <1>3, <1>4

(* In every scenario that fits, no call takes an entry from a list of dynamic  *)
(* components, or a column of results from a frame, except those that are      *)
(* emptied on purpose (NothingLost).                                           *)
THEOREM NothingIsLost ==
  ASSUME Arranged
  PROVE  Spec => NothingLost
<1>1. Concluded /\ [Next]_vars =>
        [/\ lists \subseteq lists'
         /\ \A f \in DOMAIN frames :
              \A x \in frames[f] \ frames'[f] : x[1] \in Emptied]_vars
  BY StepLosesNothing
<1> QED
  BY <1>1, ConcludedAlways, PTL DEF Spec, NothingLost
===============================================================================
