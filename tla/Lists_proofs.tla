---------------------------- MODULE Lists_proofs ----------------------------
(***************************************************************************)
(* Numbers, lists without some of their members, and sums over finite      *)
(* sets.  Facts that need an induction are proved by their least           *)
(* counterexample: the order of the natural numbers is well founded.       *)
(***************************************************************************)
EXTENDS Lists, Integers, SequencesExt, FiniteSetTheorems, WellFoundedInduction, TLAPS

(* A set of numbers that is not empty has a least one.                     *)
LEMMA LeastNumber ==
    ASSUME NEW S, S \subseteq Nat, S # {}
    PROVE  \E m \in S : \A n \in S : m <= n
<1>1. PICK m \in S : \A n \in S : <<n, m>> \notin OpToRel(<, Nat)
  BY NatLessThanWellFounded, WFMin
<1>2. \A n \in S : m <= n
  <2> SUFFICES ASSUME NEW n \in S PROVE ~(n < m)
    OBVIOUS
  <2>1. m \in Nat /\ n \in Nat
    OBVIOUS
  <2> QED
    BY <1>1, <2>1 DEF OpToRel
<1> QED
  BY <1>2

(* A set that has 0, and the next of each of its numbers up to a last one, *)
(* has all up to that.                                                     *)
LEMMA CountsUp ==
    ASSUME NEW N \in Nat, NEW Good, 0 \in Good,
           \A n \in 0 .. N : n \in Good /\ n < N => n + 1 \in Good
    PROVE  0 .. N \subseteq Good
<1> DEFINE Bad == (0 .. N) \ Good
<1> SUFFICES ASSUME Bad # {} PROVE FALSE
  OBVIOUS
<1>0. Bad \subseteq Nat
  OBVIOUS
<1>1. PICK m \in Bad : \A n \in Bad : m <= n
  BY <1>0, LeastNumber
<1>2. m # 0 /\ m \in Nat /\ m - 1 \in 0 .. N /\ m - 1 < N /\ ~(m <= m - 1)
  OBVIOUS
<1>3. m - 1 \in Good
  BY <1>1, <1>2
<1>4. (m - 1) + 1 \in Good
  BY <1>2, <1>3
<1> QED
  BY <1>1, <1>2, <1>4

-----------------------------------------------------------------------------
(* The first steps of Without: what it makes of the first members.         *)
KeptSteps(f, list, set, N) ==
    \A n \in 0 .. N :
        f[n] = IF n = 0 THEN <<>>
               ELSE IF list[n] \in set THEN f[n - 1] ELSE Append(f[n - 1], list[n])

LEMMA KeptStepsExist ==
    ASSUME NEW list, NEW set, NEW N \in Nat
    PROVE  \E f : f = [n \in 0 .. N |-> f[n]] /\ KeptSteps(f, list, set, N)
<1> DEFINE Next(f, n) == IF list[n] \in set THEN f[n - 1] ELSE Append(f[n - 1], list[n])
           Made(n) == \E f : /\ f = [m \in 0 .. n |-> f[m]]
                             /\ \A m \in 0 .. n : f[m] = IF m = 0 THEN <<>> ELSE Next(f, m)
           Good == {n \in 0 .. N : Made(n)}
<1>1. 0 \in Good
  <2> DEFINE g == [m \in 0 .. 0 |-> <<>>]
  <2>1. g = [m \in 0 .. 0 |-> g[m]] /\ \A m \in 0 .. 0 : m = 0 /\ g[m] = <<>>
    OBVIOUS
  <2> HIDE DEF g
  <2>2. Made(0)
    BY <2>1
  <2> QED
    BY <2>2
<1>2. ASSUME NEW n \in 0 .. N, n \in Good, n < N PROVE n + 1 \in Good
  <2> n \in Nat /\ n + 1 \in 0 .. N /\ Made(n)
    BY <1>2
  <2>1. PICK f : /\ f = [m \in 0 .. n |-> f[m]]
                 /\ \A m \in 0 .. n : f[m] = IF m = 0 THEN <<>> ELSE Next(f, m)
    OBVIOUS
  <2> DEFINE last == IF list[n + 1] \in set THEN f[n] ELSE Append(f[n], list[n + 1])
             g == [m \in 0 .. n + 1 |-> IF m = n + 1 THEN last ELSE f[m]]
  <2>2. \A m \in 0 .. n : g[m] = f[m]
    OBVIOUS
  <2>3. g[n + 1] = last
    OBVIOUS
  <2>4. g = [m \in 0 .. n + 1 |-> g[m]]
    OBVIOUS
  <2> HIDE DEF g
  <2>5. ASSUME NEW m \in 0 .. n + 1 PROVE g[m] = IF m = 0 THEN <<>> ELSE Next(g, m)
    <3>1. CASE m = n + 1
      <4>1. m - 1 = n /\ m # 0 /\ g[n] = f[n]
        BY <2>2, <3>1
      <4> QED
        BY <2>3, <3>1, <4>1
    <3>2. CASE m \in 0 .. n /\ m # 0
      <4>1. m - 1 \in 0 .. n
        BY <3>2
      <4>2. g[m] = f[m] /\ g[m - 1] = f[m - 1] /\ f[m] = Next(f, m)
        BY <2>1, <2>2, <3>2, <4>1
      <4>3. Next(g, m) = Next(f, m)
        BY <4>2
      <4> HIDE DEF Next
      <4> QED
        BY <3>2, <4>2, <4>3
    <3>3. CASE m = 0
      <4>1. 0 \in 0 .. n
        OBVIOUS
      <4> HIDE DEF Next
      <4> QED
        BY <2>1, <2>2, <3>3, <4>1
    <3> QED
      BY <3>1, <3>2, <3>3
  <2> QED
    BY <2>4, <2>5
<1> HIDE DEF Made, Good
<1>6. 0 .. N \subseteq Good
  BY <1>1, <1>2, CountsUp
<1>3. Made(N)
  BY <1>6 DEF Good
<1> USE DEF Made
<1>4. PICK f : /\ f = [m \in 0 .. N |-> f[m]]
               /\ \A m \in 0 .. N : f[m] = IF m = 0 THEN <<>> ELSE Next(f, m)
  BY <1>3
<1> QED
  BY <1>4 DEF KeptSteps

LEMMA WithoutSteps ==
    ASSUME NEW S, NEW list \in Seq(S), NEW set

    PROVE  \E f : Without(list, set) = f[Len(list)] /\ KeptSteps(f, list, set, Len(list))
<1>0. Len(list) \in Nat
  OBVIOUS
<1> DEFINE N == Len(list)
           f == CHOOSE h : h = [n \in 0 .. N |->
                          IF n = 0 THEN <<>>
                          ELSE IF list[n] \in set THEN h[n - 1] ELSE Append(h[n - 1], list[n])]
<1>1. Without(list, set) = f[Len(list)]
  BY DEF Without
<1>2. f = [n \in 0 .. N |->
                          IF n = 0 THEN <<>>
                          ELSE IF list[n] \in set THEN f[n - 1] ELSE Append(f[n - 1], list[n])]
  <2>0. N \in Nat
    BY <1>0
  <2> HIDE DEF N
  <2>1. PICK h : h = [n \in 0 .. N |-> h[n]] /\ KeptSteps(h, list, set, N)
    BY <2>0, KeptStepsExist
  <2>2. h = [n \in 0 .. N |-> IF n = 0 THEN <<>>
                              ELSE IF list[n] \in set THEN h[n - 1] ELSE Append(h[n - 1], list[n])]
    BY <2>1 DEF KeptSteps
  <2> QED
    BY <2>2, Zenon
<1> HIDE DEF f
<1>3. KeptSteps(f, list, set, Len(list))
  BY <1>2 DEF KeptSteps
<1> QED
  BY <1>1, <1>3

(* k is what Without leaves of the first n members.                        *)
KeptIn(k, S, list, set, n) ==
    /\ k \in Seq(S) /\ Len(k) <= n
    /\ \A i \in 1 .. Len(k) : \E p \in 1 .. n : k[i] = list[p] /\ list[p] \notin set
    /\ \A p \in 1 .. n : list[p] \notin set => \E i \in 1 .. Len(k) : k[i] = list[p]
    /\ \A i, j \in 1 .. Len(k) : i < j =>
           \E p, q \in 1 .. n : p < q /\ k[i] = list[p] /\ k[j] = list[q]
    /\ (\E p \in 1 .. n : list[p] \in set) => Len(k) < n
    /\ (\A p \in 1 .. n : list[p] \notin set) => Len(k) = n /\ \A p \in 1 .. n : k[p] = list[p]

LEMMA KeptOfNone ==
    ASSUME NEW S, NEW list, NEW set
    PROVE  KeptIn(<<>>, S, list, set, 0)
  BY DEF KeptIn

LEMMA KeptSkips ==
    ASSUME NEW S, NEW list, NEW set, NEW n \in Nat, NEW k, KeptIn(k, S, list, set, n),
           list[n + 1] \in set
    PROVE  KeptIn(k, S, list, set, n + 1)
<1>0. n + 1 \in 1 .. n + 1 /\ 1 .. n \subseteq 1 .. n + 1
      /\ \A p \in 1 .. n + 1 : p = n + 1 \/ p \in 1 .. n
  OBVIOUS
<1>1. k \in Seq(S) /\ Len(k) \in Nat /\ Len(k) < n + 1 /\ Len(k) <= n + 1
  BY DEF KeptIn
<1>2. \A i \in 1 .. Len(k) : \E p \in 1 .. n + 1 : k[i] = list[p] /\ list[p] \notin set
  BY <1>0 DEF KeptIn
<1>3. \A p \in 1 .. n + 1 : list[p] \notin set => \E i \in 1 .. Len(k) : k[i] = list[p]
  BY <1>0 DEF KeptIn
<1>4. \A i, j \in 1 .. Len(k) : i < j =>
          \E p, q \in 1 .. n + 1 : p < q /\ k[i] = list[p] /\ k[j] = list[q]
  BY <1>0 DEF KeptIn
<1> QED
  BY <1>0, <1>1, <1>2, <1>3, <1>4 DEF KeptIn

LEMMA KeptAppends ==
    ASSUME NEW S, NEW list, NEW set, NEW n \in Nat, NEW k, KeptIn(k, S, list, set, n),
           list[n + 1] \in S \ set
    PROVE  KeptIn(Append(k, list[n + 1]), S, list, set, n + 1)
<1> DEFINE x == list[n + 1]
           m == Append(k, x)
<1>0. /\ n + 1 \in 1 .. n + 1 /\ 1 .. n \subseteq 1 .. n + 1
      /\ \A p \in 1 .. n + 1 : p = n + 1 \/ p \in 1 .. n
      /\ \A p \in 1 .. n : p < n + 1
  OBVIOUS
<1>1. k \in Seq(S) /\ Len(k) \in Nat /\ Len(k) <= n
  BY DEF KeptIn
<1>2. /\ m \in Seq(S) /\ Len(m) = Len(k) + 1 /\ m[Len(k) + 1] = x
      /\ \A i \in 1 .. Len(k) : m[i] = k[i]
  BY <1>1
<1> HIDE DEF m
<1>3. /\ Len(m) <= n + 1 /\ 1 .. Len(k) \subseteq 1 .. Len(m) /\ Len(k) + 1 \in 1 .. Len(m)
      /\ \A i \in 1 .. Len(m) : i = Len(k) + 1 \/ i \in 1 .. Len(k)
  BY <1>1, <1>2
<1>4. \A i \in 1 .. Len(m) : \E p \in 1 .. n + 1 : m[i] = list[p] /\ list[p] \notin set
  <2> SUFFICES ASSUME NEW i \in 1 .. Len(m)
               PROVE  \E p \in 1 .. n + 1 : m[i] = list[p] /\ list[p] \notin set
    OBVIOUS
  <2>1. CASE i = Len(k) + 1
    BY <1>0, <1>2, <2>1
  <2>2. CASE i \in 1 .. Len(k)
    <3>1. PICK p \in 1 .. n : k[i] = list[p] /\ list[p] \notin set
      BY <2>2 DEF KeptIn
    <3> QED
      BY <1>0, <1>2, <2>2, <3>1
  <2> QED
    BY <1>3, <2>1, <2>2
<1>5. \A p \in 1 .. n + 1 : list[p] \notin set => \E i \in 1 .. Len(m) : m[i] = list[p]
  <2> SUFFICES ASSUME NEW p \in 1 .. n + 1, list[p] \notin set
               PROVE  \E i \in 1 .. Len(m) : m[i] = list[p]
    OBVIOUS
  <2>1. CASE p = n + 1
    BY <1>2, <1>3, <2>1
  <2>2. CASE p \in 1 .. n
    <3>1. PICK i \in 1 .. Len(k) : k[i] = list[p]
      BY <2>2 DEF KeptIn
    <3> QED
      BY <1>2, <1>3, <3>1
  <2> QED
    BY <1>0, <2>1, <2>2
<1>6. \A i, j \in 1 .. Len(m) : i < j =>
          \E p, q \in 1 .. n + 1 : p < q /\ m[i] = list[p] /\ m[j] = list[q]
  <2> SUFFICES ASSUME NEW i \in 1 .. Len(m), NEW j \in 1 .. Len(m), i < j
               PROVE  \E p, q \in 1 .. n + 1 : p < q /\ m[i] = list[p] /\ m[j] = list[q]
    OBVIOUS
  <2>0. i \in 1 .. Len(k)
    BY <1>1, <1>2, <1>3
  <2>1. CASE j = Len(k) + 1
    <3>1. PICK p \in 1 .. n : k[i] = list[p]
      BY <2>0 DEF KeptIn
    <3>2. p \in 1 .. n + 1 /\ p < n + 1 /\ m[i] = list[p] /\ m[j] = list[n + 1]
      BY <1>0, <1>2, <2>0, <2>1, <3>1
    <3> QED
      BY <1>0, <3>2
  <2>2. CASE j \in 1 .. Len(k)
    <3>1. PICK p \in 1 .. n, q \in 1 .. n : p < q /\ k[i] = list[p] /\ k[j] = list[q]
      BY <2>0, <2>2 DEF KeptIn
    <3> QED
      BY <1>0, <1>2, <2>0, <2>2, <3>1
  <2> QED
    BY <1>3, <2>1, <2>2
<1>7. (\E p \in 1 .. n + 1 : list[p] \in set) => Len(m) < n + 1
  <2>1. (\E p \in 1 .. n + 1 : list[p] \in set) => \E p \in 1 .. n : list[p] \in set
    BY <1>0
  <2>2. (\E p \in 1 .. n : list[p] \in set) => Len(k) < n
    BY DEF KeptIn
  <2> QED
    BY <1>1, <1>2, <2>1, <2>2
<1>8. (\A p \in 1 .. n + 1 : list[p] \notin set) =>
          Len(m) = n + 1 /\ \A p \in 1 .. n + 1 : m[p] = list[p]
  <2> SUFFICES ASSUME \A p \in 1 .. n + 1 : list[p] \notin set
               PROVE  Len(m) = n + 1 /\ \A p \in 1 .. n + 1 : m[p] = list[p]
    OBVIOUS
  <2>1. Len(k) = n /\ \A p \in 1 .. n : k[p] = list[p]
    BY <1>0 DEF KeptIn
  <2> QED
    BY <1>0, <1>2, <2>1
<1> QED
  BY <1>2, <1>3, <1>4, <1>5, <1>6, <1>7, <1>8 DEF KeptIn, m

(* What Without leaves of a list: the members that are not in the set, in  *)
(* the order they had; the list is shorter unless nothing was removed.     *)
LEMMA WithoutProperties ==
    ASSUME NEW S, NEW list \in Seq(S), NEW set
    PROVE  LET left == Without(list, set)
           IN  /\ left \in Seq(S)
               /\ ToSet(left) = ToSet(list) \ set
               /\ ToSet(list) \cap set = {} => left = list
               /\ ToSet(list) \cap set # {} => Len(left) < Len(list)
               /\ \A i, j \in 1 .. Len(left) : i < j =>
                      \E p, q \in 1 .. Len(list) : p < q /\ left[i] = list[p] /\ left[j] = list[q]
<1> DEFINE N == Len(list)
           left == Without(list, set)
<1>0. N \in Nat /\ \A p \in 1 .. N : list[p] \in S
  OBVIOUS
<1>1. PICK f : left = f[N] /\ KeptSteps(f, list, set, N)
  BY WithoutSteps
<1> DEFINE Good == {n \in 0 .. N : KeptIn(f[n], S, list, set, n)}
<1> HIDE DEF left
<1>2. 0 \in Good
  <2>1. f[0] = <<>> /\ 0 \in 0 .. N
    BY <1>0, <1>1 DEF KeptSteps
  <2> QED
    BY <2>1, KeptOfNone
<1>3. ASSUME NEW n \in 0 .. N, n \in Good, n < N PROVE n + 1 \in Good
  <2>1. n \in Nat /\ n + 1 \in 0 .. N /\ n + 1 \in 1 .. N /\ (n + 1) - 1 = n /\ n + 1 # 0
    BY <1>0, <1>3
  <2>2. f[n + 1] = IF list[n + 1] \in set THEN f[n] ELSE Append(f[n], list[n + 1])
    BY <1>1, <2>1 DEF KeptSteps
  <2>3. list[n + 1] \in S /\ KeptIn(f[n], S, list, set, n)
    BY <1>0, <1>3, <2>1
  <2>4. KeptIn(f[n + 1], S, list, set, n + 1)
    BY <2>1, <2>2, <2>3, KeptSkips, KeptAppends
  <2> QED
    BY <2>1, <2>4
<1> HIDE DEF N, Good
<1>4. 0 .. N \subseteq Good
  BY <1>0, <1>2, <1>3, CountsUp
<1>5. N \in 0 .. N
  BY <1>0
<1>6. KeptIn(left, S, list, set, N)
  BY <1>1, <1>4, <1>5 DEF Good
<1>7. ToSet(left) = {left[i] : i \in 1 .. Len(left)} /\ ToSet(list) = {list[p] : p \in 1 .. N}
  BY <1>6 DEF KeptIn, N, ToSet
<1>12. left \in Seq(S)
  BY <1>6 DEF KeptIn
<1>13. ToSet(left) \subseteq ToSet(list) \ set
  <2> SUFFICES ASSUME NEW i \in 1 .. Len(left) PROVE left[i] \in ToSet(list) \ set
    BY <1>7
  <2>1. PICK p \in 1 .. N : left[i] = list[p] /\ list[p] \notin set
    BY <1>6 DEF KeptIn
  <2> QED
    BY <1>7, <2>1
<1>14. ToSet(list) \ set \subseteq ToSet(left)
  <2> SUFFICES ASSUME NEW p \in 1 .. N, list[p] \notin set PROVE list[p] \in ToSet(left)
    BY <1>7
  <2>1. PICK i \in 1 .. Len(left) : left[i] = list[p]
    BY <1>6 DEF KeptIn
  <2> QED
    BY <1>7, <2>1
<1>8. left \in Seq(S) /\ ToSet(left) = ToSet(list) \ set
  BY <1>12, <1>13, <1>14
<1>9. ToSet(list) \cap set = {} => left = list
  <2> SUFFICES ASSUME ToSet(list) \cap set = {} PROVE left = list
    OBVIOUS
  <2>1. Len(left) = N /\ \A p \in 1 .. N : left[p] = list[p]
    BY <1>6, <1>7 DEF KeptIn
  <2> QED
    BY <1>8, <2>1 DEF N
<1>10. ToSet(list) \cap set # {} => Len(left) < Len(list)
  BY ZenonT(30), <1>6, <1>7 DEF KeptIn, N
<1>11. \A i, j \in 1 .. Len(left) : i < j =>
          \E p, q \in 1 .. Len(list) : p < q /\ left[i] = list[p] /\ left[j] = list[q]
  BY <1>6 DEF KeptIn, N
<1> QED
  BY <1>8, <1>9, <1>10, <1>11 DEF left

-----------------------------------------------------------------------------
(* Sums over finite sets, in whatever order the members are taken.         *)
Pick(s) == CHOOSE x \in s : TRUE

Total(f, S) == MapThenSumSet(LAMBDA x : f[x], S)

(* g[s] is the sum over s, for the subsets s of S.                         *)
Sums(g, f, S) ==
    \A s \in SUBSET S : g[s] = IF s = {} THEN 0 ELSE f[Pick(s)] + g[s \ {Pick(s)}]

SumsOver(g, f, S) ==
    g = [s \in SUBSET S |-> IF s = {} THEN 0 ELSE f[Pick(s)] + g[s \ {Pick(s)}]]

LEMMA OneLess ==
    ASSUME NEW S, IsFiniteSet(S), NEW s \in SUBSET S, NEW x \in s
    PROVE  /\ IsFiniteSet(s) /\ s \ {x} \in SUBSET S
           /\ Cardinality(s) \in Nat /\ Cardinality(S) \in Nat
           /\ Cardinality(s) <= Cardinality(S)
           /\ Cardinality(s \ {x}) = Cardinality(s) - 1
           /\ Cardinality(s \ {x}) \in Nat
<1>1. IsFiniteSet(s) /\ Cardinality(s) <= Cardinality(S)
  BY FS_Subset
<1>2. Cardinality(s) \in Nat /\ Cardinality(S) \in Nat
  BY <1>1, FS_CardinalityType
<1>3. IsFiniteSet(s \ {x}) /\ Cardinality(s \ {x}) = Cardinality(s) - 1
  BY <1>1, FS_RemoveElement
<1>4. Cardinality(s \ {x}) \in Nat
  BY <1>3, FS_CardinalityType
<1> QED
  BY <1>1, <1>2, <1>3, <1>4

LEMMA EmptyOrMore ==
    ASSUME NEW S, IsFiniteSet(S), NEW s \in SUBSET S
    PROVE  /\ Cardinality(s) \in 0 .. Cardinality(S)
           /\ s = {} <=> Cardinality(s) = 0
           /\ s # {} => Pick(s) \in s
<1>1. IsFiniteSet(s) /\ Cardinality(s) <= Cardinality(S)
  BY FS_Subset
<1>2. Cardinality(s) \in Nat /\ Cardinality(S) \in Nat
  BY <1>1, FS_CardinalityType
<1>3. s = {} <=> Cardinality(s) = 0
  BY <1>1, FS_EmptySet
<1>4. s # {} => Pick(s) \in s
  BY DEF Pick
<1> QED
  BY <1>1, <1>2, <1>3, <1>4

(* What holds of the empty set, and of a set when it holds of every        *)
(* smaller one, holds of all subsets of a finite set.                      *)
LEMMA BySize ==
    ASSUME NEW S, IsFiniteSet(S), NEW True,
           \A s \in SUBSET S :
              (\A t \in SUBSET S : Cardinality(t) < Cardinality(s) => t \in True)
                 => s \in True
    PROVE  SUBSET S \subseteq True
<1> DEFINE N == Cardinality(S)
           Good == {n \in 0 .. N : \A s \in SUBSET S : Cardinality(s) <= n => s \in True}
<1>0. N \in Nat /\ \A s \in SUBSET S : Cardinality(s) \in 0 .. N
  BY EmptyOrMore, FS_CardinalityType
<1>1. 0 \in Good
  BY <1>0
<1>2. ASSUME NEW n \in 0 .. N, n \in Good, n < N PROVE n + 1 \in Good
  <2>1. ASSUME NEW s \in SUBSET S, Cardinality(s) <= n + 1 PROVE s \in True
    <3>1. \A t \in SUBSET S : Cardinality(t) < Cardinality(s) => Cardinality(t) <= n
      BY <1>0, <2>1
    <3> QED
      BY <1>2, <3>1
  <2> QED
    BY <1>0, <1>2, <2>1
<1>3. 0 .. N \subseteq Good
  <2> HIDE DEF Good, N
  <2> QED
    BY <1>0, <1>1, <1>2, CountsUp
<1> QED
  BY <1>0, <1>3

LEMMA SumsExist ==
    ASSUME NEW f, NEW S, IsFiniteSet(S)
    PROVE  \E g : SumsOver(g, f, S)
<1> DEFINE N == Cardinality(S)
           Sum(g, s) == IF s = {} THEN 0 ELSE f[Pick(s)] + g[s \ {Pick(s)}]
           Made(n) == \E g : \A s \in SUBSET S : Cardinality(s) <= n => g[s] = Sum(g, s)
           Good == {n \in 0 .. N : Made(n)}
<1>0. N \in Nat /\ \A s \in SUBSET S : Cardinality(s) \in 0 .. N
  BY EmptyOrMore, FS_CardinalityType
<1>1. 0 \in Good
  <2> DEFINE g == [s \in SUBSET S |-> 0]
  <2>1. \A s \in SUBSET S : Cardinality(s) <= 0 => s = {}
    BY <1>0, EmptyOrMore
  <2>2. \A s \in SUBSET S : Cardinality(s) <= 0 => g[s] = Sum(g, s)
    BY <2>1
  <2>3. Made(0)
    <3> HIDE DEF g
    <3> QED
      BY <2>2
  <2> HIDE DEF Made
  <2> QED
    BY <1>0, <2>3
<1>2. ASSUME NEW n \in 0 .. N, n \in Good, n < N PROVE n + 1 \in Good
  <2>1. PICK g : \A s \in SUBSET S : Cardinality(s) <= n => g[s] = Sum(g, s)
    BY <1>2
  <2> DEFINE h == [s \in SUBSET S |-> IF Cardinality(s) <= n THEN g[s] ELSE Sum(g, s)]
  <2>2. \A s \in SUBSET S : h[s] = Sum(g, s)
    BY <2>1
  <2>3. \A s \in SUBSET S : Cardinality(s) <= n => h[s] = g[s]
    OBVIOUS
  <2> HIDE DEF h
  <2>4. ASSUME NEW s \in SUBSET S, Cardinality(s) <= n + 1 PROVE h[s] = Sum(h, s)
    <3>1. CASE s = {}
      BY <2>2, <3>1
    <3>2. CASE s # {}
      <4>1. Pick(s) \in s
        BY <3>2, EmptyOrMore
      <4>2. /\ s \ {Pick(s)} \in SUBSET S
            /\ Cardinality(s \ {Pick(s)}) = Cardinality(s) - 1 /\ Cardinality(s) \in Nat
        BY <4>1, OneLess
      <4>3. Cardinality(s \ {Pick(s)}) <= n
        BY <1>0, <2>4, <4>2
      <4>4. h[s \ {Pick(s)}] = g[s \ {Pick(s)}]
        BY <2>3, <4>2, <4>3
      <4> QED
        BY <2>2, <4>4
    <3> QED
      BY <3>1, <3>2
  <2>5. Made(n + 1)
    BY <2>4
  <2> HIDE DEF Made
  <2> QED
    BY <1>0, <1>2, <2>5
<1>3. N \in Good
  <2>1. 0 .. N \subseteq Good
    <3> HIDE DEF Good, N
    <3> QED
      BY <1>0, <1>1, <1>2, CountsUp
  <2> QED
    BY <1>0, <2>1
<1>4. PICK g : \A s \in SUBSET S : Cardinality(s) <= N => g[s] = Sum(g, s)
  BY <1>3
<1>5. \A s \in SUBSET S : g[s] = Sum(g, s)
  BY <1>0, <1>4
<1> DEFINE k == [s \in SUBSET S |-> g[s]]
<1>6. \A s \in SUBSET S : s \ {Pick(s)} \in SUBSET S
  OBVIOUS
<1>7. \A s \in SUBSET S : g[s] = Sum(k, s)
  BY <1>5, <1>6
<1>8. k = [s \in SUBSET S |-> Sum(k, s)]
  BY <1>7
<1> QED
  BY <1>8, Zenon DEF SumsOver

LEMMA TotalIsSum ==
    ASSUME NEW f, NEW S, IsFiniteSet(S)
    PROVE  \E g : Sums(g, f, S) /\ Total(f, S) = g[S]
<1>1. Total(f, S) = (CHOOSE g : SumsOver(g, f, S))[S]
  BY Zenon DEF Total, MapThenSumSet, MapThenFoldSet, Pick, SumsOver
<1>2. SumsOver(CHOOSE g : SumsOver(g, f, S), f, S)
  BY SumsExist, Zenon
<1>3. ASSUME NEW g, SumsOver(g, f, S) PROVE Sums(g, f, S)
  BY <1>3 DEF Sums, SumsOver
<1> QED
  BY <1>1, <1>2, <1>3, Zenon

(* The sums are fixed by what is summed.                                   *)
LEMMA SumsAgree ==
    ASSUME NEW f, NEW g, NEW S, NEW e, NEW h, NEW R, IsFiniteSet(S), S \subseteq R,
           Sums(g, f, S), Sums(h, e, R), \A x \in S : f[x] = e[x]
    PROVE  g[S] = h[S]
<1> DEFINE True == {s \in SUBSET S : g[s] = h[s]}
<1>1. ASSUME NEW s \in SUBSET S,
             \A t \in SUBSET S : Cardinality(t) < Cardinality(s) => t \in True
      PROVE  s \in True
  <2>1. CASE s = {}
    BY <2>1 DEF Sums
  <2>2. CASE s # {}
    <3>1. Pick(s) \in s
      BY <2>2, EmptyOrMore
    <3>2. /\ s \ {Pick(s)} \in SUBSET S
          /\ Cardinality(s \ {Pick(s)}) < Cardinality(s)
      BY <3>1, OneLess
    <3>3. g[s \ {Pick(s)}] = h[s \ {Pick(s)}]
      BY <1>1, <3>2
    <3>4. g[s] = f[Pick(s)] + g[s \ {Pick(s)}] /\ h[s] = e[Pick(s)] + h[s \ {Pick(s)}]
      BY <2>2 DEF Sums
    <3> QED
      BY <3>1, <3>3, <3>4
  <2> QED
    BY <2>1, <2>2
<1>2. SUBSET S \subseteq True
  <2> HIDE DEF True
  <2> QED
    BY <1>1, BySize
<1> QED
  BY <1>2

(* Any member may be taken first.                                          *)
LEMMA AnyOrder ==
    ASSUME NEW f, NEW g, NEW S, IsFiniteSet(S), Sums(g, f, S), \A x \in S : f[x] \in Nat
    PROVE  /\ g[S] \in Nat
           /\ \A x \in S : g[S] = f[x] + g[S \ {x}]
<1> DEFINE True == {s \in SUBSET S : g[s] \in Nat /\ \A x \in s : g[s] = f[x] + g[s \ {x}]}
<1>1. ASSUME NEW s \in SUBSET S,
             \A t \in SUBSET S : Cardinality(t) < Cardinality(s) => t \in True
      PROVE  s \in True
  <2>1. CASE s = {}
    <3>1. g[s] = 0
      BY <2>1 DEF Sums
    <3> QED
      BY <2>1, <3>1
  <2>2. CASE s # {}
    <3> DEFINE y == Pick(s)
    <3>1. y \in s /\ y \in S
      BY <2>2, EmptyOrMore
    <3>2. \A x \in s : s \ {x} \in SUBSET S /\ Cardinality(s \ {x}) < Cardinality(s)
      BY OneLess
    <3>3. \A x \in s : s \ {x} \in True
      BY <1>1, <3>2
    <3>4. g[s] = f[y] + g[s \ {y}]
      BY <2>2 DEF Sums
    <3> HIDE DEF y
    <3>5. g[s] \in Nat
      BY <3>1, <3>3, <3>4
    <3>6. ASSUME NEW x \in s PROVE g[s] = f[x] + g[s \ {x}]
      <4>1. CASE x = y
        BY <3>4, <4>1
      <4>2. CASE x # y
        <5>1. x \in s \ {y} /\ y \in s \ {x} /\ (s \ {y}) \ {x} = (s \ {x}) \ {y}
          BY <3>1, <4>2
        <5>2. g[s \ {y}] = f[x] + g[(s \ {y}) \ {x}]
          BY <3>1, <3>3, <5>1
        <5>3. g[s \ {x}] = f[y] + g[(s \ {x}) \ {y}]
          BY <3>3, <5>1
        <5>4. (s \ {y}) \ {x} \in True
          <6>1. Cardinality((s \ {y}) \ {x}) < Cardinality(s)
            <7>1. /\ Cardinality(s) \in Nat /\ Cardinality(s \ {y}) \in Nat
                  /\ Cardinality(s \ {y}) < Cardinality(s)
              BY <3>1, OneLess
            <7>2. /\ Cardinality((s \ {y}) \ {x}) \in Nat
                  /\ Cardinality((s \ {y}) \ {x}) = Cardinality(s \ {y}) - 1
              <8> DEFINE r == s \ {y}
              <8>1. r \in SUBSET S /\ x \in r
                BY <5>1
              <8> HIDE DEF r
              <8>2. Cardinality(r \ {x}) \in Nat /\ Cardinality(r \ {x}) = Cardinality(r) - 1
                BY <8>1, OneLess
              <8> QED
                BY <8>2 DEF r
            <7> QED
              BY <7>1, <7>2
          <6> QED
            BY <1>1, <6>1
        <5>5. /\ g[(s \ {y}) \ {x}] \in Nat /\ f[x] \in Nat /\ f[y] \in Nat
              /\ g[(s \ {x}) \ {y}] = g[(s \ {y}) \ {x}]
          BY <3>1, <5>1, <5>4
        <5> QED
          BY <3>4, <5>2, <5>3, <5>5
      <4> QED
        BY <4>1, <4>2
    <3> QED
      BY <3>5, <3>6
  <2> QED
    BY <2>1, <2>2
<1>2. SUBSET S \subseteq True
  <2> HIDE DEF True
  <2> QED
    BY <1>1, BySize
<1> QED
  BY <1>2

LEMMA TotalOfNone == ASSUME NEW f PROVE Total(f, {}) = 0
<1>1. PICK g : Sums(g, f, {}) /\ Total(f, {}) = g[{}]
  BY FS_EmptySet, TotalIsSum
<1> QED
  BY <1>1 DEF Sums

(* A sum is a number, and goes up by what comes to the set.                *)
LEMMA TotalIsNumber ==
    ASSUME NEW f, NEW S, IsFiniteSet(S), \A x \in S : f[x] \in Nat
    PROVE  Total(f, S) \in Nat
  BY TotalIsSum, AnyOrder

LEMMA TotalGrows ==
    ASSUME NEW f, NEW S, IsFiniteSet(S), NEW x, x \notin S,
           \A y \in S \cup {x} : f[y] \in Nat
    PROVE  Total(f, S \cup {x}) = f[x] + Total(f, S)
<1> DEFINE R == S \cup {x}
<1>0. IsFiniteSet(R) /\ R \ {x} = S /\ S \subseteq R /\ x \in R
  BY FS_AddElement
<1> HIDE DEF R
<1>1. PICK g : Sums(g, f, R) /\ Total(f, R) = g[R]
  BY <1>0, TotalIsSum
<1>2. PICK h : Sums(h, f, S) /\ Total(f, S) = h[S]
  BY TotalIsSum
<1>3. g[R] = f[x] + g[R \ {x}]
  <2>1. \A y \in R : f[y] \in Nat
    BY DEF R
  <2> QED
    BY <1>0, <1>1, <2>1, AnyOrder
<1>4. h[S] = g[S]
  BY <1>0, <1>1, <1>2, SumsAgree
<1> QED
  BY <1>0, <1>1, <1>2, <1>3, <1>4 DEF R

(* It is the same for functions that agree on the set.                     *)
LEMMA TotalKept ==
    ASSUME NEW f, NEW e, NEW S, IsFiniteSet(S), \A x \in S : f[x] = e[x]
    PROVE  Total(f, S) = Total(e, S)
  BY TotalIsSum, SumsAgree

(* It is at most as many times the most there can be.                      *)
LEMMA TotalBound ==
    ASSUME NEW f, NEW S, IsFiniteSet(S), NEW M \in Nat, \A x \in S : f[x] \in 0 .. M
    PROVE  Total(f, S) <= Cardinality(S) * M
<1> DEFINE True == {s \in SUBSET S : Total(f, s) <= Cardinality(s) * M}
<1>1. ASSUME NEW s \in SUBSET S,
             \A t \in SUBSET S : Cardinality(t) < Cardinality(s) => t \in True
      PROVE  s \in True
  <2>1. CASE s = {}
    BY <2>1, TotalOfNone, FS_EmptySet
  <2>2. CASE s # {}
    <3>1. PICK x \in s : TRUE
      BY <2>2
    <3> DEFINE t == s \ {x}
               n == Cardinality(t)
    <3>2. /\ t \in SUBSET S /\ n \in Nat /\ Cardinality(s) \in Nat
          /\ n < Cardinality(s) /\ Cardinality(s) = n + 1 /\ IsFiniteSet(s)
      BY OneLess
    <3>3. IsFiniteSet(t) /\ s = t \cup {x} /\ x \notin t
      BY <3>2, FS_RemoveElement
    <3>4. t \in True
      BY <1>1, <3>2
    <3>5. Total(f, s) = f[x] + Total(f, t) /\ Total(f, t) \in Nat
      <4>1. \A y \in t \cup {x} : f[y] \in Nat
        OBVIOUS
      <4> HIDE DEF t
      <4>2. Total(f, t \cup {x}) = f[x] + Total(f, t)
        BY <3>3, <4>1, TotalGrows
      <4>3. Total(f, t) \in Nat
        BY <3>3, <4>1, TotalIsNumber
      <4> QED
        BY <3>3, <4>2, <4>3
    <3>6. (n + 1) * M = n * M + M /\ n * M \in Nat
      BY <3>2
    <3>7. f[x] \in Nat /\ f[x] <= M
      OBVIOUS
    <3>8. Total(f, s) <= n * M + M
      BY <3>4, <3>5, <3>6, <3>7
    <3> QED
      BY <3>2, <3>6, <3>8
  <2> QED
    BY <2>1, <2>2
<1>2. SUBSET S \subseteq True
  <2> HIDE DEF True
  <2> QED
    BY <1>1, BySize
<1> QED
  BY <1>2
=============================================================================
