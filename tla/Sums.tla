--------------------------------- MODULE Sums ---------------------------------
(***************************************************************************)
(* Sums over finite sets: what one term more, one term less or one term    *)
(* changed does to the sum.  MapThenSumSet adds up with a fold, which is a *)
(* recursive function; what it does for every finite set is shown from the *)
(* smallest set for which it would not.  And sequences that are made one   *)
(* step after another, shown from the least number for which it would not. *)
(***************************************************************************)
EXTENDS Integers, SequencesExt, FiniteSetsExt, SequenceTheorems, FiniteSetTheorems, NaturalsInduction, WellFoundedInduction, TLAPS

Sum(f, S) == MapThenSumSet(LAMBDA x : f[x], S)

\* g adds up f over the subsets of S, taking an element away at a time.
Adds(g, f, S) ==
    g = [s \in SUBSET S |-> IF s = {} THEN 0 ELSE f[CHOOSE x \in s : TRUE] + g[s \ {CHOOSE x \in s : TRUE}]]

LEMMA SumAdds == ASSUME NEW f, NEW S PROVE Sum(f, S) = (CHOOSE g : Adds(g, f, S))[S]
BY DEF Sum, MapThenSumSet, MapThenFoldSet, Adds

LEMMA LeastOf == ASSUME NEW S \in SUBSET Nat, S # {} PROVE \E m \in S : \A j \in S : m <= j
<1> DEFINE R == OpToRel(<, Nat)
<1>1. IsWellFoundedOn(R, Nat)
  BY NatLessThanWellFounded
<1>2. \A x, y \in Nat : x < y => <<x, y>> \in R
  BY DEF OpToRel
<1> HIDE DEF R
<1>3. PICK m \in S : \A j \in S : ~(<<j, m>> \in R)
  BY <1>1, WFMin
<1>4. \A j \in S : ~(j < m)
  BY <1>2, <1>3
<1>5. \A j \in S : m <= j
  BY <1>4
<1> QED
  BY <1>5

-----------------------------------------------------------------------------

Pick(s) == CHOOSE x \in s : TRUE

LEMMA PickIn == ASSUME NEW s, s # {} PROVE Pick(s) \in s
BY DEF Pick

LEMMA AddsIs ==
    ASSUME NEW f, NEW S, NEW g, Adds(g, f, S)
    PROVE  g[{}] = 0 /\ \A s \in SUBSET S : s # {} => g[s] = f[Pick(s)] + g[s \ {Pick(s)}]
BY DEF Adds, Pick

\* What holds of every finite set when it holds of one as soon as it holds of all smaller ones.
LEMMA Smaller ==
    ASSUME NEW S, IsFiniteSet(S), NEW B \in SUBSET SUBSET S, B # {}
    PROVE  \E s \in B : \A t \in SUBSET s : t # s => t \notin B
<1>1. \A s \in B : IsFiniteSet(s) /\ Cardinality(s) \in Nat
  BY FS_Subset, FS_CardinalityType
<1> DEFINE C == {Cardinality(s) : s \in B}
<1>2. C \in SUBSET Nat /\ C # {}
  BY <1>1
<1> HIDE DEF C
<1>3. PICK m \in C : \A j \in C : m <= j
  BY <1>2, LeastOf
<1>4. PICK s \in B : Cardinality(s) = m /\ \A t \in B : Cardinality(s) <= Cardinality(t)
  BY <1>3 DEF C
<1>5. ASSUME NEW t \in SUBSET s, t # s, t \in B PROVE FALSE
  <2>1. Cardinality(t) < Cardinality(s)
    BY <1>1, <1>4, <1>5, FS_Subset
  <2> QED
    BY <1>1, <1>4, <1>5, <2>1
<1> QED
  BY <1>4, <1>5

\* The functions that add up agree wherever they add up the same.
LEMMA AddsAgree ==
    ASSUME NEW f, NEW h, NEW S, NEW T, NEW a, NEW b, Adds(a, f, S), Adds(b, h, T),
           NEW u, u \subseteq S, u \subseteq T, IsFiniteSet(u), \A x \in u : f[x] = h[x]
    PROVE  a[u] = b[u]
<1> DEFINE B == {s \in SUBSET u : a[s] # b[s]}
<1> SUFFICES ASSUME B # {} PROVE FALSE
  OBVIOUS
<1>1. PICK s \in B : \A t \in SUBSET s : t # s => t \notin B
  <2>1. B \in SUBSET SUBSET u
    OBVIOUS
  <2> HIDE DEF B
  <2> QED
    BY <2>1, Smaller
<1>2. s # {} /\ s \subseteq u
  BY AddsIs
<1>3. PICK x : x = Pick(s) /\ x \in s
  BY <1>2, PickIn
<1>4. s \ {x} \in SUBSET s /\ s \ {x} # s
  BY <1>3
<1>5. a[s \ {x}] = b[s \ {x}]
  BY <1>1, <1>2, <1>4
<1>6. a[s] = f[x] + a[s \ {x}] /\ b[s] = h[x] + b[s \ {x}]
  <2>1. s \in SUBSET S /\ s \in SUBSET T
    BY <1>2
  <2>2. a[s] = f[x] + a[s \ {x}]
    BY <1>2, <1>3, <2>1, AddsIs
  <2>3. b[s] = h[x] + b[s \ {x}]
    BY <1>2, <1>3, <2>1, AddsIs
  <2> QED
    BY <2>2, <2>3
<1> QED
  BY <1>1, <1>2, <1>3, <1>5, <1>6

\* There is one for every finite set.
LEMMA AddsThereIs == ASSUME NEW f, NEW S, IsFiniteSet(S) PROVE \E g : Adds(g, f, S)
<1> DEFINE D(n) == {s \in SUBSET S : Cardinality(s) <= n}
           Upto(g, n) == g = [s \in D(n) |-> IF s = {} THEN 0 ELSE f[Pick(s)] + g[s \ {Pick(s)}]]
           N == {n \in Nat : ~\E g : Upto(g, n)}
<1>1. \A s \in SUBSET S : IsFiniteSet(s) /\ Cardinality(s) \in Nat /\ Cardinality(s) <= Cardinality(S)
  BY FS_Subset, FS_CardinalityType
<1>2. Cardinality(S) \in Nat
  BY FS_CardinalityType
<1>3. N = {}
  <2> SUFFICES ASSUME N # {} PROVE FALSE
    OBVIOUS
  <2>1. PICK m \in N : \A j \in N : m <= j
    <3>1. N \in SUBSET Nat
      OBVIOUS
    <3> HIDE DEF N
    <3> QED
      BY <3>1, LeastOf
  <2>2. m \in Nat /\ ~\E g : Upto(g, m)
    BY <2>1
  <2>3. CASE m = 0
    <3> DEFINE g == [s \in D(0) |-> 0]
    <3>1. \A s \in D(0) : s = {}
      <4>1. \A s \in D(0) : s \in SUBSET S /\ Cardinality(s) <= 0
        OBVIOUS
      <4> QED
        BY <1>1, <4>1, FS_EmptySet
    <3>2. Upto(g, 0)
      BY <3>1
    <3> QED
      BY <2>2, <2>3, <3>2
  <2>4. CASE m # 0
    <3>1. m - 1 \in Nat /\ m - 1 \notin N
      <4>1. m - 1 \in Nat /\ ~(m <= m - 1)
        BY <2>2, <2>4
      <4> HIDE DEF N
      <4> QED
        BY <2>1, <4>1
    <3>2. PICK h : Upto(h, m - 1)
      BY <3>1
    <3> DEFINE g == [s \in D(m) |-> IF s = {} THEN 0 ELSE f[Pick(s)] + h[s \ {Pick(s)}]]
    <3>3. \A s \in D(m) : s # {} => s \ {Pick(s)} \in D(m - 1) /\ s \ {Pick(s)} \in D(m)
      <4> SUFFICES ASSUME NEW s \in D(m), s # {} PROVE s \ {Pick(s)} \in D(m - 1) /\ s \ {Pick(s)} \in D(m)
        OBVIOUS
      <4>1. PICK x : x = Pick(s) /\ x \in s
        BY PickIn
      <4>2. IsFiniteSet(s) /\ Cardinality(s) \in Nat /\ Cardinality(s) <= m /\ s \in SUBSET S
        BY <1>1
      <4>3. Cardinality(s \ {x}) = Cardinality(s) - 1
        BY <4>1, <4>2, FS_RemoveElement
      <4>4. Cardinality(s \ {x}) <= m - 1 /\ Cardinality(s \ {x}) <= m /\ s \ {x} \in SUBSET S
        BY <2>2, <4>2, <4>3
      <4> QED
        BY <4>1, <4>4
    <3>4. \A s \in D(m - 1) : s \in D(m)
      <4>1. \A s \in D(m - 1) : Cardinality(s) \in Nat /\ Cardinality(s) <= m - 1 /\ s \in SUBSET S
        BY <1>1
      <4> QED
        BY <2>2, <4>1
    <3>5. \A s \in D(m - 1) : h[s] = IF s = {} THEN 0 ELSE f[Pick(s)] + h[s \ {Pick(s)}]
      BY <3>2
    <3>6. \A s \in D(m - 1) : h[s] = g[s]
      <4> HIDE DEF D
      <4> QED
        BY <3>4, <3>5
    <3>7. \A s \in D(m) : g[s] = IF s = {} THEN 0 ELSE f[Pick(s)] + g[s \ {Pick(s)}]
      <4> HIDE DEF D
      <4> QED
        BY <3>3, <3>6
    <3>8. Upto(g, m)
      <4> HIDE DEF D
      <4>1. g = [s \in D(m) |-> g[s]]
        OBVIOUS
      <4> QED
        BY <3>7, <4>1
    <3> QED
      BY <2>2, <3>8
  <2> QED
    BY <2>3, <2>4
<1>4. PICK g : Upto(g, Cardinality(S))
  BY <1>2, <1>3
<1>5. D(Cardinality(S)) = SUBSET S
  BY <1>1
<1>6. Adds(g, f, S)
  BY <1>4, <1>5 DEF Adds, Pick
<1> QED
  BY <1>6

LEMMA SumIs == ASSUME NEW f, NEW S, IsFiniteSet(S) PROVE \E g : Adds(g, f, S) /\ Sum(f, S) = g[S]
<1>1. Adds(CHOOSE g : Adds(g, f, S), f, S)
  BY AddsThereIs
<1> QED
  BY <1>1, SumAdds

LEMMA SumOfNone == ASSUME NEW f PROVE Sum(f, {}) = 0
BY SumIs, AddsIs, FS_EmptySet

\* The sum depends on what is added up, and on nothing else.
LEMMA SumSame ==
    ASSUME NEW f, NEW h, NEW S, IsFiniteSet(S), \A x \in S : f[x] = h[x] PROVE Sum(f, S) = Sum(h, S)
<1>1. PICK a : Adds(a, f, S) /\ Sum(f, S) = a[S]
  BY SumIs
<1>2. PICK b : Adds(b, h, S) /\ Sum(h, S) = b[S]
  BY SumIs
<1> QED
  BY <1>1, <1>2, AddsAgree

\* An element is taken out first, whichever it is.
LEMMA SumWithout ==
    ASSUME NEW f, NEW S, IsFiniteSet(S), \A x \in S : f[x] \in Int, NEW x \in S
    PROVE  Sum(f, S) = f[x] + Sum(f, S \ {x}) /\ Sum(f, S) \in Int /\ Sum(f, S \ {x}) \in Int
<1>1. PICK a : Adds(a, f, S) /\ Sum(f, S) = a[S]
  BY SumIs
<1>2. IsFiniteSet(S \ {x})
  BY FS_RemoveElement
<1>3. Sum(f, S \ {x}) = a[S \ {x}]
  <2>1. PICK b : Adds(b, f, S \ {x}) /\ Sum(f, S \ {x}) = b[S \ {x}]
    BY <1>2, SumIs
  <2> QED
    BY <1>1, <1>2, <2>1, AddsAgree
<1>6. a[{}] = 0 /\ \A s \in SUBSET S : s # {} => a[s] = f[Pick(s)] + a[s \ {Pick(s)}]
  BY <1>1, AddsIs
<1>4. \A s \in SUBSET S : a[s] \in Int
  <2> DEFINE B == {s \in SUBSET S : a[s] \notin Int}
  <2> SUFFICES ASSUME B # {} PROVE FALSE
    OBVIOUS
  <2>1. PICK s \in B : \A t \in SUBSET s : t # s => t \notin B
    <3>1. B \in SUBSET SUBSET S
      OBVIOUS
    <3> HIDE DEF B
    <3> QED
      BY <3>1, Smaller
  <2>2. s # {} /\ s \in SUBSET S /\ a[s] \notin Int
    <3>1. a[{}] = 0
      BY <1>1, AddsIs
    <3> QED
      BY <3>1
  <2>3. PICK y : y = Pick(s) /\ y \in s
    BY <2>2, PickIn
  <2>4. s \ {y} \in SUBSET s /\ s \ {y} # s /\ s \ {y} \in SUBSET S
    BY <2>2, <2>3
  <2>5. a[s \ {y}] \in Int
    BY <2>1, <2>4
  <2>6. a[s] = f[y] + a[s \ {y}] /\ f[y] \in Int
    <3>1. y \in S
      BY <2>2, <2>3
    <3>2. a[s] = f[y] + a[s \ {y}]
      BY <1>6, <2>2, <2>3
    <3> QED
      BY <3>1, <3>2
  <2> QED
    BY <2>2, <2>5, <2>6
<1>5. \A s \in SUBSET S : \A y \in s : a[s] = f[y] + a[s \ {y}]
  <2> DEFINE B == {s \in SUBSET S : \E y \in s : a[s] # f[y] + a[s \ {y}]}
  <2> SUFFICES ASSUME B # {} PROVE FALSE
    OBVIOUS
  <2>1. PICK s \in B : \A t \in SUBSET s : t # s => t \notin B
    <3>1. B \in SUBSET SUBSET S
      OBVIOUS
    <3> HIDE DEF B
    <3> QED
      BY <3>1, Smaller
  <2>2. PICK y \in s : a[s] # f[y] + a[s \ {y}]
    OBVIOUS
  <2>3. PICK c : c = Pick(s) /\ c \in s
    BY <2>2, PickIn
  <2>4. a[s] = f[c] + a[s \ {c}] /\ s \in SUBSET S
    BY <1>1, <2>2, <2>3, AddsIs
  <2>5. c # y
    BY <2>2, <2>4
  <2>6. /\ s \ {c} \in SUBSET s /\ s \ {c} # s /\ y \in s \ {c} /\ s \ {c} \in SUBSET S
        /\ s \ {y} \in SUBSET s /\ s \ {y} # s /\ c \in s \ {y} /\ s \ {y} \in SUBSET S
        /\ (s \ {c}) \ {y} = (s \ {y}) \ {c} /\ (s \ {c}) \ {y} \in SUBSET S
    BY <2>2, <2>3, <2>4, <2>5
  <2>7. s \ {c} \notin B /\ s \ {y} \notin B
    BY <2>1, <2>6
  <2>8. a[s \ {c}] = f[y] + a[(s \ {c}) \ {y}] /\ a[s \ {y}] = f[c] + a[(s \ {y}) \ {c}]
    BY <2>6, <2>7
  <2>9. PICK r : r = a[(s \ {c}) \ {y}] /\ r = a[(s \ {y}) \ {c}] /\ r \in Int
    BY <1>4, <2>6
  <2>10. f[c] \in Int /\ f[y] \in Int
    BY <2>2, <2>3, <2>4
  <2>11. a[s] = f[c] + (f[y] + r) /\ a[s \ {y}] = f[c] + r
    BY <2>4, <2>8, <2>9
  <2> QED
    BY <2>2, <2>9, <2>10, <2>11
<1> QED
  BY <1>1, <1>3, <1>4, <1>5

LEMMA SumType == ASSUME NEW f, NEW S, IsFiniteSet(S), \A x \in S : f[x] \in Int PROVE Sum(f, S) \in Int
<1>1. CASE S = {}
  BY <1>1, SumOfNone
<1>2. CASE S # {}
  BY <1>2, SumWithout
<1> QED
  BY <1>1, <1>2

\* What changes at one place changes the sum by as much.
LEMMA SumChange ==
    ASSUME NEW f, NEW h, NEW S, IsFiniteSet(S), \A x \in S : f[x] \in Int /\ h[x] \in Int, NEW x \in S,
           \A y \in S \ {x} : f[y] = h[y]
    PROVE  Sum(h, S) = Sum(f, S) + h[x] - f[x]
<1>1. Sum(f, S) = f[x] + Sum(f, S \ {x}) /\ Sum(h, S) = h[x] + Sum(h, S \ {x}) /\ Sum(f, S \ {x}) \in Int
  BY SumWithout
<1>2. Sum(f, S \ {x}) = Sum(h, S \ {x})
  BY SumSame, FS_RemoveElement
<1> QED
  BY <1>1, <1>2

\* Nothing but zeroes adds up to zero.
LEMMA SumOfZeroes == ASSUME NEW f, NEW S, IsFiniteSet(S), \A x \in S : f[x] = 0 PROVE Sum(f, S) = 0
<1>1. PICK a : Adds(a, f, S) /\ Sum(f, S) = a[S]
  BY SumIs
<1> DEFINE B == {s \in SUBSET S : a[s] # 0}
<1> SUFFICES ASSUME B # {} PROVE FALSE
  BY <1>1
<1>2. PICK s \in B : \A t \in SUBSET s : t # s => t \notin B
  <2>1. B \in SUBSET SUBSET S
    OBVIOUS
  <2> HIDE DEF B
  <2> QED
    BY <2>1, Smaller
<1>3. s # {} /\ s \in SUBSET S
  BY <1>1, AddsIs
<1>4. PICK x : x = Pick(s) /\ x \in s
  BY <1>3, PickIn
<1>5. s \ {x} \in SUBSET s /\ s \ {x} # s /\ s \ {x} \in SUBSET S
  BY <1>3, <1>4
<1>6. a[s \ {x}] = 0
  BY <1>2, <1>5
<1>7. a[s] = f[x] + a[s \ {x}] /\ f[x] = 0
  BY <1>1, <1>3, <1>4, AddsIs
<1> QED
  BY <1>2, <1>6, <1>7

\* Nothing negative adds up to nothing negative, and to no less than each.
LEMMA SumNat ==
    ASSUME NEW f, NEW S, IsFiniteSet(S), \A x \in S : f[x] \in Nat
    PROVE  Sum(f, S) \in Nat /\ \A x \in S : f[x] <= Sum(f, S)
<1>1. PICK a : Adds(a, f, S) /\ Sum(f, S) = a[S]
  BY SumIs
<1>2. ASSUME NEW U, IsFiniteSet(U), \A x \in U : f[x] \in Nat PROVE Sum(f, U) \in Nat
  <2>1. PICK b : Adds(b, f, U) /\ Sum(f, U) = b[U]
    BY <1>2, SumIs
  <2> DEFINE B == {s \in SUBSET U : b[s] \notin Nat}
  <2> SUFFICES ASSUME B # {} PROVE FALSE
    BY <2>1
  <2>2. PICK s \in B : \A t \in SUBSET s : t # s => t \notin B
    <3>1. B \in SUBSET SUBSET U
      OBVIOUS
    <3> HIDE DEF B
    <3> QED
      BY <1>2, <3>1, Smaller
  <2>3. s # {} /\ s \in SUBSET U /\ b[s] \notin Nat
    <3>1. b[{}] = 0
      BY <2>1, AddsIs
    <3> QED
      BY <3>1
  <2>4. PICK x : x = Pick(s) /\ x \in s
    BY <2>3, PickIn
  <2>5. s \ {x} \in SUBSET s /\ s \ {x} # s /\ s \ {x} \in SUBSET U
    BY <2>3, <2>4
  <2>6. b[s \ {x}] \in Nat
    BY <2>2, <2>5
  <2>7. b[s] = f[x] + b[s \ {x}] /\ f[x] \in Nat
    <3>1. b[s] = f[Pick(s)] + b[s \ {Pick(s)}]
      BY <2>1, <2>3, AddsIs
    <3> QED
      BY <1>2, <2>3, <2>4, <3>1
  <2> QED
    BY <2>3, <2>6, <2>7
<1>3. ASSUME NEW x \in S PROVE f[x] <= Sum(f, S)
  <2>1. Sum(f, S) = f[x] + Sum(f, S \ {x})
    BY SumWithout
  <2>2. Sum(f, S \ {x}) \in Nat
    BY <1>2, FS_RemoveElement
  <2> QED
    BY <2>1, <2>2
<1> QED
  BY <1>2, <1>3

\* One more at the end.
LEMMA SumNext ==
    ASSUME NEW n \in Nat, NEW f, \A i \in 1..(n + 1) : f[i] \in Int
    PROVE  Sum(f, 1..(n + 1)) = f[n + 1] + Sum(f, 1..n) /\ Sum(f, 1..n) \in Int
<1>1. IsFiniteSet(1..(n + 1)) /\ n + 1 \in 1..(n + 1) /\ (1..(n + 1)) \ {n + 1} = 1..n
  BY FS_Interval
<1>2. PICK S : S = 1..(n + 1)
  OBVIOUS
<1>3. Sum(f, S) = f[n + 1] + Sum(f, S \ {n + 1}) /\ Sum(f, S \ {n + 1}) \in Int
  <2>1. IsFiniteSet(S) /\ (\A x \in S : f[x] \in Int) /\ n + 1 \in S
    BY <1>1, <1>2
  <2> QED
    BY <2>1, SumWithout
<1> QED
  BY <1>1, <1>2, <1>3

\* One less at the front, and the others move up.
LEMMA SumShift ==
    ASSUME NEW n \in Nat, NEW f, NEW h, \A i \in 1..(n + 1) : f[i] \in Int, \A i \in 1..n : h[i] = f[i + 1]
    PROVE  Sum(f, 1..(n + 1)) = f[1] + Sum(h, 1..n) /\ Sum(h, 1..n) \in Int
<1> DEFINE Claim(m) == Sum(f, 1..(m + 1)) = f[1] + Sum(h, 1..m) /\ Sum(h, 1..m) \in Int
           B == {m \in 0..n : ~Claim(m)}
<1> SUFFICES ASSUME B # {} PROVE FALSE
  OBVIOUS
<1>1. PICK m \in B : \A j \in B : m <= j
  <2>1. B \in SUBSET Nat
    OBVIOUS
  <2> HIDE DEF B
  <2> QED
    BY <2>1, LeastOf
<1>2. m \in 0..n /\ ~Claim(m)
  OBVIOUS
<1>3. CASE m = 0
  <2>1. 1..m = {} /\ Sum(h, 1..m) = 0
    <3>1. 1..m = {}
      BY <1>3
    <3> QED
      BY <3>1, SumOfNone
  <2>2. Sum(f, 1..(0 + 1)) = f[0 + 1] + Sum(f, 1..0)
    <3>1. \A i \in 1..(0 + 1) : f[i] \in Int
      OBVIOUS
    <3> QED
      BY <3>1, SumNext
  <2>3. Sum(f, 1..0) = 0
    <3>1. 1..0 = {}
      OBVIOUS
    <3> QED
      BY <3>1, SumOfNone
  <2>4. f[1] \in Int
    OBVIOUS
  <2> QED
    BY <1>2, <1>3, <2>1, <2>2, <2>3, <2>4
<1>4. CASE m # 0
  <2> DEFINE k == m - 1
  <2>1. k \in 0..n /\ k \in Nat /\ m = k + 1 /\ ~(m <= k)
    BY <1>2, <1>4
  <2>2. Claim(k)
    BY <1>1, <2>1
  <2>3. Sum(f, 1..(m + 1)) = f[m + 1] + Sum(f, 1..m)
    BY <1>2, SumNext
  <2>4. Sum(h, 1..(k + 1)) = h[k + 1] + Sum(h, 1..k) /\ Sum(h, 1..k) \in Int
    <3>1. \A i \in 1..(k + 1) : h[i] \in Int
      BY <1>2, <2>1
    <3> QED
      BY <2>1, <3>1, SumNext
  <2>5. h[m] = f[m + 1] /\ f[m + 1] \in Int /\ f[1] \in Int
    BY <1>2, <1>4
  <2>6. Sum(f, 1..m) = f[1] + Sum(h, 1..k) /\ Sum(h, 1..m) = h[m] + Sum(h, 1..k)
    BY <2>1, <2>2, <2>4
  <2>7. PICK x, y, z, w : /\ x = Sum(h, 1..k) /\ y = f[m + 1] /\ z = f[1] /\ w = Sum(f, 1..(m + 1))
                          /\ x \in Int /\ y \in Int /\ z \in Int
    BY <2>4, <2>5
  <2>8. w = y + (z + x) /\ Sum(h, 1..m) = y + x
    BY <2>3, <2>5, <2>6, <2>7
  <2>9. w = z + (y + x) /\ y + x \in Int
    BY <2>7, <2>8
  <2> QED
    BY <1>2, <2>7, <2>8, <2>9
<1> QED
  BY <1>3, <1>4

-----------------------------------------------------------------------------
(* Sequences, and what is computed one step after another *)

\* What holds of 0 and of each number after one of which it holds, holds of all.
LEMMA Upwards == ASSUME NEW S, 0 \in S, \A n \in Nat : n \in S => n + 1 \in S PROVE \A n \in Nat : n \in S
<1> DEFINE B == Nat \ S
<1> SUFFICES ASSUME B # {} PROVE FALSE
  OBVIOUS
<1>1. PICK m \in B : \A j \in B : m <= j
  BY LeastOf
<1>2. m # 0 /\ m - 1 \in Nat /\ m - 1 \notin B
  BY <1>1
<1> QED
  BY <1>2

\* Two functions that go on in the same way are the same.
Alike(f, g, N) == f[0] = g[0] /\ \A k \in 1..N : f[k - 1] = g[k - 1] => f[k] = g[k]

\* Two functions that begin with the same value and go on in the same way are the same.
LEMMA GoOnAlike == ASSUME NEW N \in Nat, NEW f, NEW g, Alike(f, g, N) PROVE \A k \in 0..N : f[k] = g[k]
<1> DEFINE S == {k \in Nat : k \in 0..N => f[k] = g[k]}
<1>1. 0 \in S
  BY DEF Alike
<1>2. ASSUME NEW n \in Nat, n \in S PROVE n + 1 \in S
  <2> SUFFICES ASSUME n + 1 \in 0..N PROVE f[n + 1] = g[n + 1]
    OBVIOUS
  <2>1. n \in 0..N /\ n + 1 \in 1..N /\ (n + 1) - 1 = n
    OBVIOUS
  <2> QED
    BY <1>2, <2>1 DEF Alike
<1> HIDE DEF S
<1>3. \A k \in Nat : k \in S
  BY <1>1, <1>2, Upwards
<1> QED
  BY <1>3 DEF S

\* What is computed by a step for each number up to one.
Stepwise(S, A, N) == S \in [A \X (1..N) -> A]
Takes(f, S, base, A, N) == f \in [0..N -> A] /\ f[0] = base /\ \A k \in 1..N : f[k] = S[<<f[k - 1], k>>]

\* A step that leads from each value to another makes a function of the numbers up to one.
LEMMA Chain ==
    ASSUME NEW N \in Nat, NEW A, NEW base \in A, NEW S, Stepwise(S, A, N)
    PROVE  \E f : Takes(f, S, base, A, N)
<1> USE DEF Stepwise, Takes
<1> DEFINE On(f, n) == f \in [0..n -> A] /\ f[0] = base /\ \A k \in 1..n : f[k] = S[<<f[k - 1], k>>]
           B == {n \in Nat : n <= N => \E f : On(f, n)}
<1>1. 0 \in B
  <2>1. On([k \in 0..0 |-> base], 0)
    OBVIOUS
  <2> HIDE DEF On
  <2> QED
    BY <2>1
<1>2. ASSUME NEW n \in Nat, n \in B PROVE n + 1 \in B
  <2> SUFFICES ASSUME n + 1 <= N PROVE \E f : On(f, n + 1)
    OBVIOUS
  <2>1. PICK f : On(f, n)
    BY <1>2
  <2>2. f \in [0..n -> A] /\ f[0] = base /\ f[n] \in A /\ \A k \in 1..n : f[k] = S[<<f[k - 1], k>>] /\ k - 1 \in 0..n
    BY <2>1
  <2> DEFINE g == [k \in 0..n + 1 |-> IF k = n + 1 THEN S[<<f[n], n + 1>>] ELSE f[k]]
  <2>3. S[<<f[n], n + 1>>] \in A
    BY <2>2
  <2>4. g \in [0..n + 1 -> A]
    BY <2>2, <2>3
  <2>5. \A k \in 0..n : g[k] = f[k]
    OBVIOUS
  <2>6. g[n + 1] = S[<<f[n], n + 1>>]
    OBVIOUS
  <2> HIDE DEF g
  <2>7. \A k \in 1..n : g[k] = S[<<g[k - 1], k>>]
    BY <2>2, <2>5
  <2>8. \A k \in 1..n + 1 : g[k] = S[<<g[k - 1], k>>]
    <3> SUFFICES ASSUME NEW k \in 1..n + 1, k \notin 1..n PROVE g[k] = S[<<g[k - 1], k>>]
      BY <2>7
    <3>1. k = n + 1 /\ k - 1 = n /\ n \in 0..n
      OBVIOUS
    <3> QED
      BY <2>5, <2>6, <3>1
  <2>9. g[0] = base
    BY <2>2, <2>5
  <2>10. On(g, n + 1)
    BY <2>4, <2>8, <2>9
  <2> HIDE DEF On
  <2> QED
    BY <2>10
<1> HIDE DEF B
<1>3. N \in B
  BY <1>1, <1>2, Upwards
<1>4. PICK f : On(f, N)
  BY <1>3 DEF B
<1> QED
  BY <1>4

\* What sequences make one after another.
Flattens(f, ss) == f = [i \in 1..Len(ss) |-> IF i = 1 THEN ss[i] ELSE f[i - 1] \o ss[i]]

\* FlattenSeq is the last value of a function that adds one sequence after another.
LEMMA FlattenIs == ASSUME NEW ss PROVE FlattenSeq(ss) = IF Len(ss) = 0 THEN ss ELSE (CHOOSE f : Flattens(f, ss))[Len(ss)]
BY DEF FlattenSeq, Flattens

\* There is such a function, for any sequence of sequences.
LEMMA FlattensThere == ASSUME NEW A, NEW ss \in Seq(Seq(A)) PROVE \E f : Flattens(f, ss)
<1> DEFINE On(f, n) == f = [i \in 1..n |-> IF i = 1 THEN ss[i] ELSE f[i - 1] \o ss[i]]
<1> DEFINE S == {n \in Nat : \E f : On(f, n)}
<1>1. 0 \in S
  <2>1. On(<<>>, 0)
    OBVIOUS
  <2> QED
    BY <2>1
<1>2. ASSUME NEW n \in Nat, n \in S PROVE n + 1 \in S
  <2>1. PICK f : On(f, n)
    BY <1>2
  <2> DEFINE g == [i \in 1..n + 1 |-> IF i = n + 1 THEN (IF n = 0 THEN ss[i] ELSE f[n] \o ss[i]) ELSE f[i]]
  <2>2. \A i \in 1..n : g[i] = f[i]
    OBVIOUS
  <2>3. \A i \in 1..n + 1 : g[i] = IF i = 1 THEN ss[i] ELSE g[i - 1] \o ss[i]
    <3> SUFFICES ASSUME NEW i \in 1..n + 1 PROVE g[i] = IF i = 1 THEN ss[i] ELSE g[i - 1] \o ss[i]
      OBVIOUS
    <3>1. CASE i = n + 1
      <4>1. n # 0 => n \in 1..n /\ g[n] = f[n] /\ i - 1 = n
        BY <2>2, <3>1
      <4> QED
        BY <3>1, <4>1
    <3>2. CASE i \in 1..n
      <4>1. g[i] = f[i] /\ (i # 1 => i - 1 \in 1..n /\ g[i - 1] = f[i - 1])
        BY <2>2, <3>2
      <4>2. f[i] = IF i = 1 THEN ss[i] ELSE f[i - 1] \o ss[i]
        BY <2>1, <3>2
      <4> QED
        BY <4>1, <4>2
    <3> QED
      BY <3>1, <3>2
  <2>4. On(g, n + 1)
    <3> HIDE DEF On
    <3> DEFINE h == [i \in 1..n + 1 |-> IF i = 1 THEN ss[i] ELSE g[i - 1] \o ss[i]]
    <3>1. g = h
      <4> HIDE DEF h
      <4>1. h = [i \in 1..n + 1 |-> h[i]] /\ \A i \in 1..n + 1 : h[i] = g[i]
        BY <2>3 DEF h
      <4> QED
        BY <4>1
    <3> QED
      BY <3>1 DEF On
  <2> HIDE DEF On, g
  <2> QED
    BY <2>4
<1> HIDE DEF S
<1>3. \A n \in Nat : n \in S
  BY <1>1, <1>2, Upwards
<1>4. Len(ss) \in S
  BY <1>3
<1> QED
  BY <1>4 DEF S, Flattens

\* What it has added is a sequence at each step.
LEMMA FlattensOnto ==
    ASSUME NEW A, NEW ss \in Seq(Seq(A)), NEW f, Flattens(f, ss)
    PROVE  \A i \in 1..Len(ss) : f[i] \in Seq(A)
<1> DEFINE S == {k \in Nat : k \in 1..Len(ss) => f[k] \in Seq(A)}
<1>1. 0 \in S
  OBVIOUS
<1>2. ASSUME NEW n \in Nat, n \in S PROVE n + 1 \in S
  <2> SUFFICES ASSUME n + 1 \in 1..Len(ss) PROVE f[n + 1] \in Seq(A)
    OBVIOUS
  <2>1. f[n + 1] = (IF n + 1 = 1 THEN ss[n + 1] ELSE f[(n + 1) - 1] \o ss[n + 1])
    BY DEF Flattens
  <2>2. ss[n + 1] \in Seq(A) /\ (n # 0 => n \in 1..Len(ss) /\ f[n] \in Seq(A)) /\ (n + 1) - 1 = n
    BY <1>2
  <2>3. CASE n = 0
    BY <2>1, <2>2, <2>3
  <2>4. CASE n # 0
    <3>1. n + 1 # 1 /\ (n + 1) - 1 = n
      BY <2>4
    <3>2. f[n + 1] = f[n] \o ss[n + 1]
      BY <2>1, <3>1, Zenon
    <3> QED
      BY <2>2, <2>4, <3>2
  <2> QED
    BY <2>3, <2>4
<1> HIDE DEF S
<1>3. \A k \in Nat : k \in S
  BY <1>1, <1>2, Upwards
<1> QED
  BY <1>3 DEF S

\* Of no sequences it makes the empty one.
LEMMA FlattenNone == FlattenSeq(<<>>) = <<>>
BY DEF FlattenSeq

\* What sequences over a set make is a sequence over that set.
LEMMA FlattenType == ASSUME NEW A, NEW ss \in Seq(Seq(A)) PROVE FlattenSeq(ss) \in Seq(A)
<1>1. CASE Len(ss) = 0
  <2>1. ss = <<>> /\ FlattenSeq(ss) = ss
    BY <1>1, FlattenIs
  <2>2. <<>> \in Seq(A)
    OBVIOUS
  <2> QED
    BY <2>1, <2>2
<1>2. CASE Len(ss) # 0
  <2>1. Flattens(CHOOSE f : Flattens(f, ss), ss)
    BY FlattensThere
  <2>2. Len(ss) \in 1..Len(ss)
    BY <1>2
  <2> QED
    BY <1>2, <2>1, <2>2, FlattenIs, FlattensOnto
<1> QED
  BY <1>1, <1>2

\* One sequence more goes on where the others end.
LEMMA FlattenMore ==
    ASSUME NEW A, NEW ss \in Seq(Seq(A)), NEW s \in Seq(A)
    PROVE  FlattenSeq(Append(ss, s)) = FlattenSeq(ss) \o s
<1> DEFINE tt == Append(ss, s)
           n  == Len(ss)
           f  == CHOOSE h : Flattens(h, ss)
           g  == CHOOSE h : Flattens(h, tt)
<1>1. tt \in Seq(Seq(A)) /\ Len(tt) = n + 1 /\ n \in Nat /\ tt[n + 1] = s /\ \A i \in 1..n : tt[i] = ss[i]
  OBVIOUS
<1>2. Flattens(f, ss) /\ Flattens(g, tt)
  BY <1>1, FlattensThere
<1>3. FlattenSeq(tt) = g[n + 1] /\ FlattenSeq(ss) = IF n = 0 THEN ss ELSE f[n]
  <2>1. FlattenSeq(tt) = IF Len(tt) = 0 THEN tt ELSE g[Len(tt)]
    BY FlattenIs
  <2>2. FlattenSeq(ss) = IF n = 0 THEN ss ELSE f[n]
    BY FlattenIs
  <2> HIDE DEF tt, f, g
  <2> QED
    BY <1>1, <2>1, <2>2
<1> HIDE DEF tt, f, g
<1>4. \A i \in 1..n : f[i] = IF i = 1 THEN ss[i] ELSE f[i - 1] \o ss[i]
  BY <1>2 DEF Flattens
<1> HIDE DEF n
<1>5. \A i \in 1..n + 1 : g[i] = IF i = 1 THEN tt[i] ELSE g[i - 1] \o tt[i]
  BY <1>1, <1>2 DEF Flattens
<1>6. CASE n = 0
  <2>2. ss = <<>>
    BY <1>6 DEF n
  <2>3. g[1] = s
    BY <1>1, <1>5, <1>6
  <2>1. g[1] = s /\ FlattenSeq(ss) = <<>>
    BY <1>3, <1>6, <2>2, <2>3
  <2> QED
    BY <1>3, <1>6, <2>1 DEF tt
<1>7. CASE n # 0
  <2> DEFINE S == {k \in Nat : k \in 1..n => f[k] = g[k]}
  <2>1. 0 \in S
    OBVIOUS
  <2>2. ASSUME NEW k \in Nat, k \in S PROVE k + 1 \in S
    <3> SUFFICES ASSUME k + 1 \in 1..n PROVE f[k + 1] = g[k + 1]
      OBVIOUS
    <3>0. k + 1 \in 1..n + 1 /\ (k + 1) - 1 = k
      BY <1>1
    <3>1. k + 1 \in 1..n + 1 /\ tt[k + 1] = ss[k + 1] /\ (k + 1) - 1 = k
      BY <1>1, <3>0
    <3>2. f[k + 1] = (IF k + 1 = 1 THEN ss[k + 1] ELSE f[k] \o ss[k + 1])
      BY <1>4, <3>1
    <3>3. g[k + 1] = (IF k + 1 = 1 THEN ss[k + 1] ELSE g[k] \o ss[k + 1])
      BY <1>5, <3>1
    <3>4. k = 0 \/ f[k] = g[k]
      BY <1>1, <2>2
    <3> QED
      BY <3>2, <3>3, <3>4
  <2> HIDE DEF S
  <2>3. \A k \in Nat : k \in S
    BY <2>1, <2>2, Upwards
  <2>6. n \in S /\ n \in 1..n
    BY <1>1, <1>7, <2>3
  <2>4. f[n] = g[n]
    BY <2>6 DEF S
  <2>5. g[n + 1] = g[n] \o s
    <3>1. n + 1 \in 1..n + 1 /\ n + 1 # 1 /\ (n + 1) - 1 = n
      BY <1>1, <1>7
    <3> QED
      BY <1>1, <1>5, <3>1, Zenon
  <2> QED
    BY <1>3, <1>7, <2>4, <2>5 DEF tt
<1> QED
  BY <1>6, <1>7

\* What is in two sequences one after the other, and where.
LEMMA Concatenated ==
    ASSUME NEW A, NEW s \in Seq(A), NEW t \in Seq(A)
    PROVE  /\ s \o t \in Seq(A) /\ Len(s \o t) = Len(s) + Len(t)
           /\ \A n \in 1..Len(s) : (s \o t)[n] = s[n]
           /\ \A n \in 1..Len(t) : (s \o t)[Len(s) + n] = t[n]
<1>1. s \o t \in Seq(A) /\ Len(s \o t) = Len(s) + Len(t)
  OBVIOUS
<1>2. \A n \in 1..Len(s) : (s \o t)[n] = s[n]
  OBVIOUS
<1>3. ASSUME NEW n \in 1..Len(t) PROVE (s \o t)[Len(s) + n] = t[n]
  <2>1. Len(s) + n \in 1..(Len(s) + Len(t)) /\ ~(Len(s) + n <= Len(s)) /\ (Len(s) + n) - Len(s) = n
    OBVIOUS
  <2> QED
    BY <2>1
<1> QED
  BY <1>1, <1>2, <1>3

\* The first so many of a sequence.
LEMMA SubSeqIs ==
    ASSUME NEW A, NEW s \in Seq(A), NEW n \in 0..Len(s)
    PROVE  SubSeq(s, 1, n) \in Seq(A) /\ Len(SubSeq(s, 1, n)) = n /\ \A k \in 1..n : SubSeq(s, 1, n)[k] = s[k]
<1>1. n \in Nat /\ Len(s) \in Nat /\ \A k \in 1..n : k \in 1..Len(s) /\ s[k] \in A
  OBVIOUS
<1> QED
  BY <1>1

\* A sequence of what a function makes of each of another.
Mapped(G, c) == [k \in DOMAIN c |-> G[c[k]]]
Maps(G, A, B) == G \in [A -> Seq(B)]

\* What a function makes of the members of a sequence, one after another, is a sequence.
LEMMA MappedType ==
    ASSUME NEW A, NEW B, NEW G, Maps(G, A, B), NEW c \in Seq(A)
    PROVE  FlattenSeq(Mapped(G, c)) \in Seq(B)
<1>1. Len(c) \in Nat /\ DOMAIN c = 1..Len(c) /\ \A k \in 1..Len(c) : c[k] \in A
  OBVIOUS
<1>2. \A k \in 1..Len(c) : G[c[k]] \in Seq(B)
  BY <1>1 DEF Maps
<1>3. Mapped(G, c) \in [1..Len(c) -> Seq(B)]
  BY <1>1, <1>2 DEF Mapped
<1>4. Mapped(G, c) \in Seq(Seq(B))
  BY <1>1, <1>3
<1> QED
  BY <1>4, FlattenType

\* One member more adds what the function makes of it.
LEMMA MappedMore ==
    ASSUME NEW A, NEW B, NEW G, Maps(G, A, B), NEW c \in Seq(A), NEW x \in A
    PROVE  /\ FlattenSeq(Mapped(G, c)) \in Seq(B)
           /\ FlattenSeq(Mapped(G, Append(c, x))) = FlattenSeq(Mapped(G, c)) \o G[x]
<1> DEFINE n == Len(c)
           s == Mapped(G, c)
           t == Mapped(G, Append(c, x))
<1>1. /\ n \in Nat /\ DOMAIN c = 1..n /\ DOMAIN Append(c, x) = 1..n + 1 /\ \A k \in 1..n : c[k] \in A
      /\ Append(c, x)[n + 1] = x /\ \A k \in 1..n : Append(c, x)[k] = c[k]
  OBVIOUS
<1>2. \A k \in 1..n : G[c[k]] \in Seq(B)
  BY <1>1 DEF Maps
<1>3. s = [k \in 1..n |-> G[c[k]]] /\ t = [k \in 1..n + 1 |-> G[Append(c, x)[k]]]
  BY <1>1 DEF Mapped
<1> HIDE DEF s, t, n
<1>4. s \in [1..n -> Seq(B)]
  BY <1>2, <1>3
<1>5. s \in Seq(Seq(B)) /\ Len(s) = n
  BY <1>1, <1>4
<1>6. G[x] \in Seq(B)
  BY DEF Maps
<1> DEFINE app == Append(s, G[x])
<1>7. /\ app \in Seq(Seq(B)) /\ Len(app) = n + 1 /\ app[n + 1] = G[x] /\ \A k \in 1..n : app[k] = s[k]
  BY <1>5, <1>6
<1> HIDE DEF app
<1>8. app = [k \in 1..n + 1 |-> app[k]]
  <2>1. app \in [1..n + 1 -> Seq(B)]
    BY <1>7, LenProperties
  <2> QED
    BY <2>1
<1>9. \A k \in 1..n + 1 : app[k] = G[Append(c, x)[k]]
  <2> SUFFICES ASSUME NEW k \in 1..n + 1 PROVE app[k] = G[Append(c, x)[k]]
    OBVIOUS
  <2>1. k = n + 1 \/ k \in 1..n
    BY <1>1
  <2> QED
    BY <1>1, <1>3, <1>7, <2>1
<1>10. t = app
  BY <1>3, <1>8, <1>9
<1> QED
  BY <1>5, <1>6, <1>10, FlattenMore, FlattenType DEF s, t, app

\* Of no members it makes nothing.
LEMMA MappedNone == ASSUME NEW G PROVE FlattenSeq(Mapped(G, <<>>)) = <<>>
<1>1. Mapped(G, <<>>) = <<>>
  BY DEF Mapped
<1> QED
  BY <1>1, FlattenNone

===============================================================================
