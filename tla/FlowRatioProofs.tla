--------------------------- MODULE FlowRatioProofs ---------------------------
(***************************************************************************)
(* Theorems about FlowRatio for every set of flows, unit, request and      *)
(* bound.                                                                  *)
(*                                                                         *)
(* What the partial sums of Accum compute is proved by induction on the    *)
(* length of the ordering.  The induction is a statement about sets of     *)
(* naturals, from the well-foundedness of <.                               *)
(***************************************************************************)
EXTENDS FlowRatio, WellFoundedInduction, TLAPS

-----------------------------------------------------------------------------
(* A set of naturals that is not empty has a least element. *)
LEMMA LeastElement ==
  ASSUME NEW T \in SUBSET Nat, T # {}
  PROVE  \E m \in T : \A k \in T : m <= k
  <1> DEFINE R == OpToRel(<, Nat)
  <1>1. IsWellFoundedOn(R, Nat)
    BY NatLessThanWellFounded
  <1>2. \A x, y \in Nat : x < y => <<x, y>> \in R
    BY DEF OpToRel
  <1> HIDE DEF R
  <1>3. PICK m \in T : \A y \in T : ~(<<y, m>> \in R)
    BY <1>1, WFMin
  <1>4. ASSUME NEW k \in T PROVE m <= k
    <2>1. m \in Nat /\ k \in Nat /\ ~(k < m)
      BY <1>2, <1>3
    <2> QED
      BY <2>1
  <1> QED
    BY <1>3, <1>4

(* Induction: a set with 0 and with every successor is that of all naturals. *)
LEMMA Inductive ==
  ASSUME NEW T \in SUBSET Nat, 0 \in T, \A k \in T : k + 1 \in T
  PROVE  T = Nat
  <1> SUFFICES ASSUME Nat \ T # {} PROVE FALSE
    OBVIOUS
  <1>1. PICK m \in Nat \ T : \A k \in Nat \ T : m <= k
    <2>1. Nat \ T \in SUBSET Nat
      OBVIOUS
    <2> QED
      BY <2>1, LeastElement
  <1>2. m # 0 /\ m - 1 \in Nat
    BY <1>1
  <1>3. m - 1 \in T
    BY <1>1, <1>2
  <1> QED
    BY <1>1, <1>2, <1>3

-----------------------------------------------------------------------------
(* The partial sums.                                                        *)

(* A function that satisfies the equation of the partial sums up to n. *)
SumsUpTo(f, q, p, n) ==
    f = [k \in 0 .. n |-> IF k = 0 THEN 0 ELSE f[k - 1] + p[q[k]]]

(* There are partial sums of every length. *)
LEMMA SumsExist ==
  ASSUME NEW q, NEW p, NEW n \in Nat PROVE \E f : SumsUpTo(f, q, p, n)
  <1> DEFINE T == {m \in Nat : \E f : SumsUpTo(f, q, p, m)}
  <1>1. 0 \in T
    <2> DEFINE g == [k \in 0 .. 0 |-> 0]
    <2>1. SumsUpTo(g, q, p, 0)
      BY DEF SumsUpTo
    <2> QED
      BY <2>1
  <1>2. ASSUME NEW m \in T PROVE m + 1 \in T
    <2>1. PICK f : SumsUpTo(f, q, p, m)
      OBVIOUS
    <2> DEFINE g == [k \in 0 .. m + 1 |-> IF k = m + 1 THEN f[m] + p[q[m + 1]] ELSE f[k]]
    <2>2. m \in Nat
      OBVIOUS
    <2>3. ASSUME NEW k \in 0 .. m + 1
          PROVE  g[k] = IF k = 0 THEN 0 ELSE g[k - 1] + p[q[k]]
      <3>1. CASE k = m + 1
        <4>1. k # 0 /\ k - 1 = m /\ m \in 0 .. m + 1 /\ m # m + 1
          BY <2>2, <3>1
        <4>2. g[m] = f[m] /\ g[k] = f[m] + p[q[k]]
          BY <3>1, <4>1
        <4> QED
          BY <4>1, <4>2
      <3>2. CASE k # m + 1
        <4>1. k \in 0 .. m /\ (k # 0 => k - 1 \in 0 .. m + 1 /\ k - 1 # m + 1)
          BY <2>2, <3>2
        <4>2. f[k] = IF k = 0 THEN 0 ELSE f[k - 1] + p[q[k]]
          BY <2>1, <4>1 DEF SumsUpTo
        <4>3. g[k] = f[k] /\ (k # 0 => g[k - 1] = f[k - 1])
          BY <3>2, <4>1
        <4> QED
          BY <4>2, <4>3
      <3> QED
        BY <3>1, <3>2
    <2>4. g = [k \in 0 .. m + 1 |-> g[k]]
      OBVIOUS
    <2> HIDE DEF g
    <2>5. SumsUpTo(g, q, p, m + 1)
      BY <2>3, <2>4 DEF SumsUpTo
    <2> QED
      BY <2>2, <2>5
  <1>3. T \in SUBSET Nat
    OBVIOUS
  <1> HIDE DEF T
  <1>4. T = Nat
    BY <1>1, <1>2, <1>3, Inductive
  <1> QED
    BY <1>4 DEF T

(* Accum satisfies its equation. *)
LEMMA AccumSums ==
  ASSUME NEW q, NEW p, Len(q) \in Nat
  PROVE  SumsUpTo(Accum(q, p), q, p, Len(q))
  <1> DEFINE G(g) == SumsUpTo(g, q, p, Len(q))
  <1>1. Accum(q, p) = CHOOSE g : G(g)
    BY DEF Accum, SumsUpTo
  <1>2. \E f : G(f)
    BY SumsExist
  <1> HIDE DEF G
  <1>3. G(Accum(q, p))
    BY <1>1, <1>2
  <1> QED
    BY <1>3 DEF G

(* ... so that every sum is the one before it and one share more. *)
LEMMA AccumStep ==
  ASSUME NEW q, NEW p, Len(q) \in Nat
  PROVE  /\ DOMAIN Accum(q, p) = 0 .. Len(q) /\ Accum(q, p)[0] = 0
         /\ \A k \in 1 .. Len(q) : Accum(q, p)[k] = Accum(q, p)[k - 1] + p[q[k]]
  <1> DEFINE a == Accum(q, p)
  <1>1. a = [k \in 0 .. Len(q) |-> IF k = 0 THEN 0 ELSE a[k - 1] + p[q[k]]]
    BY AccumSums DEF SumsUpTo
  <1> HIDE DEF a
  <1>2. DOMAIN a = 0 .. Len(q) /\ a[0] = 0
    BY <1>1
  <1>3. ASSUME NEW k \in 1 .. Len(q) PROVE a[k] = a[k - 1] + p[q[k]]
    <2>1. k \in 0 .. Len(q) /\ k # 0
      OBVIOUS
    <2> QED
      BY <1>1, <2>1
  <1> QED
    BY <1>2, <1>3 DEF a

(* The sums of shares are naturals ... *)
LEMMA AccumType ==
  ASSUME NEW q \in Seq(Flows), NEW p \in [Flows -> Nat]
  PROVE  \A k \in 0 .. Len(q) : Accum(q, p)[k] \in Nat
  <1> DEFINE a == Accum(q, p)
             T == {n \in Nat : n <= Len(q) => a[n] \in Nat}
  <1>0. Len(q) \in Nat
    OBVIOUS
  <1>1. a[0] = 0 /\ \A k \in 1 .. Len(q) : a[k] = a[k - 1] + p[q[k]]
    BY <1>0, AccumStep
  <1>2. \A k \in 1 .. Len(q) : p[q[k]] \in Nat
    OBVIOUS
  <1> HIDE DEF a
  <1>3. 0 \in T
    BY <1>1
  <1>4. ASSUME NEW n \in T PROVE n + 1 \in T
    <2> SUFFICES ASSUME n + 1 <= Len(q) PROVE a[n + 1] \in Nat
      OBVIOUS
    <2>1. n \in Nat /\ n <= Len(q) /\ n + 1 \in 1 .. Len(q) /\ (n + 1) - 1 = n
      BY <1>0
    <2>2. a[n] \in Nat
      BY <2>1
    <2>3. a[n + 1] = a[n] + p[q[n + 1]]
      BY <1>1, <2>1
    <2>4. p[q[n + 1]] \in Nat
      BY <1>2, <2>1
    <2> QED
      BY <2>2, <2>3, <2>4
  <1>5. T \in SUBSET Nat
    OBVIOUS
  <1> HIDE DEF T
  <1>6. T = Nat
    BY <1>3, <1>4, <1>5, Inductive
  <1>7. ASSUME NEW k \in 0 .. Len(q) PROVE a[k] \in Nat
    <2>1. k \in T /\ k <= Len(q)
      BY <1>0, <1>6
    <2> QED
      BY <2>1 DEF T
  <1> QED
    BY <1>7 DEF a

(* ... and never go down. *)
LEMMA AccumMonotone ==
  ASSUME NEW q \in Seq(Flows), NEW p \in [Flows -> Nat],
         NEW j \in 0 .. Len(q), NEW k \in 0 .. Len(q), j <= k
  PROVE  Accum(q, p)[j] <= Accum(q, p)[k]
  <1> DEFINE a == Accum(q, p)
             T == {n \in Nat : j + n <= Len(q) => a[j] <= a[j + n]}
  <1>0. Len(q) \in Nat /\ j \in Nat /\ k \in Nat /\ k - j \in Nat
    OBVIOUS
  <1>1. \A i \in 1 .. Len(q) : a[i] = a[i - 1] + p[q[i]]
    BY <1>0, AccumStep
  <1>2. \A i \in 1 .. Len(q) : p[q[i]] \in Nat
    OBVIOUS
  <1>t. \A i \in 0 .. Len(q) : a[i] \in Nat
    BY AccumType
  <1> HIDE DEF a
  <1>3. 0 \in T
    BY <1>0, <1>t
  <1>4. ASSUME NEW n \in T PROVE n + 1 \in T
    <2> SUFFICES ASSUME j + (n + 1) <= Len(q) PROVE a[j] <= a[j + (n + 1)]
      OBVIOUS
    <2> DEFINE i == j + (n + 1)
    <2>1. n \in Nat /\ j + n <= Len(q) /\ i \in 1 .. Len(q) /\ i - 1 = j + n
          /\ j + n \in 0 .. Len(q)
      BY <1>0
    <2>2. a[j] <= a[j + n]
      BY <2>1
    <2>3. a[i] = a[j + n] + p[q[i]]
      BY <1>1, <2>1
    <2>4. p[q[i]] \in Nat /\ a[j] \in Nat /\ a[j + n] \in Nat
      BY <1>2, <1>t, <2>1
    <2> QED
      BY <2>2, <2>3, <2>4
  <1>5. T \in SUBSET Nat
    OBVIOUS
  <1> HIDE DEF T
  <1>6. T = Nat
    BY <1>3, <1>4, <1>5, Inductive
  <1>7. k - j \in T /\ j + (k - j) = k /\ j + (k - j) <= Len(q)
    BY <1>0, <1>6
  <1> QED
    BY <1>7 DEF T, a

(* The sum of the chosen flows alone, when no flow is chosen behind one that*)
(* is not, is a partial sum of all: that of the last flow chosen.           *)
LEMMA ChosenSum ==
  ASSUME NEW q \in Seq(Flows), NEW p \in [Flows -> Nat], NEW C \in SUBSET Flows,
         \A j, k \in 1 .. Len(q) : j <= k /\ q[k] \in C => q[j] \in C
  PROVE  LET s == Accum(q, [f \in Flows |-> IF f \in C THEN p[f] ELSE 0])[Len(q)]
             a == Accum(q, p)
         IN  /\ s = 0 \/ \E j \in 1 .. Len(q) : q[j] \in C /\ s = a[j]
             /\ \A j \in 1 .. Len(q) : q[j] \in C => s >= a[j]
  <1> DEFINE m == [f \in Flows |-> IF f \in C THEN p[f] ELSE 0]
             s == Accum(q, m)
             a == Accum(q, p)
             Claim(n) == /\ s[n] = 0 \/ \E j \in 1 .. n : q[j] \in C /\ s[n] = a[j]
                         /\ \A j \in 1 .. n : q[j] \in C => s[n] >= a[j]
                         /\ n = 0 \/ q[n] \in C => s[n] = a[n]
             T == {n \in Nat : n <= Len(q) => Claim(n)}
  <1>0. Len(q) \in Nat /\ m \in [Flows -> Nat]
    OBVIOUS
  <1>1. \A k \in 1 .. Len(q) : q[k] \in Flows /\ m[q[k]] = IF q[k] \in C THEN p[q[k]] ELSE 0
    OBVIOUS
  <1> HIDE DEF m
  <1>2. s[0] = 0 /\ a[0] = 0
    BY <1>0, AccumStep
  <1>3. \A k \in 1 .. Len(q) : s[k] = s[k - 1] + m[q[k]] /\ a[k] = a[k - 1] + p[q[k]]
    BY <1>0, AccumStep
  <1>4. \A k \in 0 .. Len(q) : s[k] \in Nat /\ a[k] \in Nat
    BY <1>0, AccumType
  <1>5. \A j, k \in 0 .. Len(q) : j <= k => a[j] <= a[k]
    BY AccumMonotone
  <1> HIDE DEF s, a
  <1>6. 0 \in T
    BY <1>2
  <1>7. ASSUME NEW n \in T PROVE n + 1 \in T
    <2> SUFFICES ASSUME n + 1 <= Len(q) PROVE Claim(n + 1)
      OBVIOUS
    <2> DEFINE k == n + 1
    <2>1. n \in Nat /\ n <= Len(q) /\ k \in 1 .. Len(q) /\ k - 1 = n /\ k \in Nat /\ k # 0
          /\ n \in 0 .. Len(q) /\ k \in 0 .. Len(q)
      BY <1>0
    <2>2. Claim(n)
      BY <2>1
    <2>3. s[k] = s[n] + m[q[k]] /\ a[k] = a[n] + p[q[k]]
      BY <1>3, <2>1
    <2>4. \A j \in 1 .. k : j = k \/ j \in 1 .. n
      BY <2>1
    <2>5. k \in 1 .. k /\ \A j \in 1 .. n : j \in 1 .. k
      BY <2>1
    <2>6. CASE q[k] \in C
      <3>1. m[q[k]] = p[q[k]] /\ (n # 0 => n \in 1 .. Len(q) /\ n <= k)
        BY <1>1, <2>1, <2>6
      <3>2. n = 0 \/ q[n] \in C
        BY <2>1, <2>6, <3>1
      <3>3. s[k] = a[k]
        BY <2>2, <2>3, <3>1, <3>2
      <3>4. ASSUME NEW j \in 1 .. k PROVE s[k] >= a[j]
        <4>1. j \in 0 .. Len(q) /\ j <= k
          BY <2>1
        <4> QED
          BY <1>4, <1>5, <2>1, <3>3, <4>1
      <3> HIDE DEF k
      <3>5. Claim(k)
        BY <2>5, <2>6, <3>3, <3>4
      <3> QED
        BY <3>5 DEF k
    <2>7. CASE q[k] \notin C
      <3>1. m[q[k]] = 0
        BY <1>1, <2>1, <2>7
      <3>2. s[k] = s[n]
        BY <1>4, <2>1, <2>3, <3>1
      <3> HIDE DEF k
      <3>3. Claim(k)
        BY <2>1, <2>2, <2>4, <2>5, <2>7, <3>2
      <3> QED
        BY <3>3 DEF k
    <2> QED
      BY <2>6, <2>7
  <1>8. T \in SUBSET Nat
    OBVIOUS
  <1> HIDE DEF T
  <1>9. T = Nat
    BY <1>6, <1>7, <1>8, Inductive
  <1>10. Claim(Len(q))
    <2>1. Len(q) \in T /\ Len(q) <= Len(q)
      BY <1>0, <1>9
    <2> QED
      BY <2>1 DEF T
  <1> QED
    BY <1>10 DEF s, a, m

-----------------------------------------------------------------------------
(* The comparisons.                                                         *)

(* A product grows with a factor. *)
LEMMA Scale ==
  ASSUME NEW x \in Int, NEW y \in Int, NEW n \in Nat, x <= y PROVE x * n <= y * n
  OBVIOUS

(* What is less than b stays so when it shrinks. *)
LEMMA LessMonotone ==
  ASSUME NEW a \in Nat, NEW c \in Nat, NEW b \in Nat, a <= c, is_less_than(c, b)
  PROVE  is_less_than(a, b)
  <1>1. b - c <= b - a /\ ONE \in Nat
    BY UnitAssumption
  <1>2. (b - c) * ONE <= (b - a) * ONE /\ (b - c) * ONE \in Int /\ (b - a) * ONE \in Int
    BY <1>1, Scale
  <1>3. (b - c) * ONE > Greatest(c, b)
    BY DEF is_less_than, EPSILON, Greatest
  <1>4. Greatest(a, b) <= Greatest(c, b) /\ Greatest(a, b) \in Nat /\ Greatest(c, b) \in Nat
    BY DEF Greatest
  <1>5. (b - a) * ONE > Greatest(a, b)
    BY <1>2, <1>3, <1>4
  <1> QED
    BY <1>4, <1>5 DEF is_less_than, EPSILON

(* is_less_than is not looser than <. *)
LEMMA LessIsLess ==
  ASSUME NEW a \in Nat, NEW b \in Nat, is_less_than(a, b) PROVE a < b
  <1> SUFFICES ASSUME b <= a PROVE FALSE
    OBVIOUS
  <1>1. b - a <= 0 /\ ONE \in Nat
    BY UnitAssumption
  <1>2. (b - a) * ONE <= 0 * ONE
    BY <1>1, Scale
  <1>3. (b - a) * ONE > Greatest(a, b) /\ Greatest(a, b) \in Nat
    BY DEF is_less_than, EPSILON, Greatest
  <1> QED
    BY <1>1, <1>2, <1>3

(* A sum is less than itself and EPSILON, up to 1.0. *)
LEMMA LessByEpsilon ==
  ASSUME NEW a \in Nat, a + EPSILON < ONE PROVE is_less_than(a, a + EPSILON)
  <1>1. ONE \in Nat /\ (a + 1) - a = 1
    BY UnitAssumption
  <1>2. Greatest(a, a + 1) = a + 1
    BY DEF Greatest
  <1> QED
    BY <1>1, <1>2 DEF is_less_than, EPSILON

(* Equality holds of equals ... *)
LEMMA EqualReflexive ==
  ASSUME NEW a \in Nat PROVE is_equal_than(a, a)
  BY UnitAssumption DEF is_equal_than, EPSILON, Distance, Greatest

(* ... and of 0 with nothing but itself, in units smaller than 1.0. *)
LEMMA EqualZero ==
  ASSUME NEW a \in Nat, is_equal_than(a, 0) PROVE a = 0 \/ ONE <= 1
  <1>1. ONE \in Nat /\ a * ONE <= a
    BY UnitAssumption DEF is_equal_than, EPSILON, Distance, Greatest
  <1>2. CASE ONE >= 2
    <2>1. 2 * a <= ONE * a /\ ONE * a = a * ONE
      BY <1>1, <1>2, Scale
    <2>2. a * ONE \in Nat
      BY <1>1
    <2> QED
      BY <1>1, <2>1, <2>2
  <1> QED
    BY <1>1, <1>2

-----------------------------------------------------------------------------
(* Type correctness. *)

(* The packet in hand is one of a known flow and has room to be counted. *)
Held == pc \in {"refresh", "record"} => flow \in table /\ count < MaxBytes

(* The ordering is one of flows. *)
Filed == ordered_flows \in Seq(Flows)

(* The epoch that ends is not the last. *)
Bounded == cpc \in {"solve", "ratio", "signal", "inc"} => epoch < MaxEpoch

TypeInv == TypeOK /\ Held /\ Filed /\ Bounded

(* What update_ratio makes of a request is a ratio. *)
LEMMA AdjustedType ==
  ASSUME TypeInv PROVE Adjusted \in Nat
  <1> DEFINE a == Accum(ordered_flows, prob2)
  <1>0. /\ ordered_flows \in Seq(Flows) /\ prob2 \in [Flows -> Nat] /\ r_new \in Nat
        /\ DOMAIN ordered_flows = 1 .. Len(ordered_flows)
    BY DEF TypeInv, TypeOK, Filed
  <1>1. \A k \in 0 .. Len(ordered_flows) : a[k] \in Nat
    BY <1>0, AccumType
  <1>2. \A k \in DOMAIN ordered_flows : a[k] \in Nat
    BY <1>0, <1>1
  <1>3. CASE \E k \in DOMAIN ordered_flows : Reaches(k)
    <2>1. (CHOOSE k \in DOMAIN ordered_flows : Reaches(k)) \in DOMAIN ordered_flows
      BY <1>3
    <2>2. a[CHOOSE k \in DOMAIN ordered_flows : Reaches(k)] + 1 \in Nat
      BY <1>2, <2>1
    <2> QED
      BY <1>0, <2>2 DEF Adjusted, EPSILON
  <1>4. CASE ~ \E k \in DOMAIN ordered_flows : Reaches(k)
    <2>1. Adjusted = r_new
      BY <1>4 DEF Adjusted
    <2> QED
      BY <1>0, <2>1
  <1> QED
    BY <1>3, <1>4

(* The orderings std::sort may give. *)
LEMMA SortedType ==
  ASSUME NEW S \in SUBSET Flows, NEW p, NEW q \in Sorted(S, p)
  PROVE  /\ q \in Seq(Flows) /\ DOMAIN q = 1 .. Len(q)
         /\ \A k \in 1 .. Len(q) : q[k] \in S
         /\ \A f \in S : \E k \in 1 .. Len(q) : q[k] = f
         /\ \A j, k \in 1 .. Len(q) : j < k => q[j] # q[k] /\ p[q[j]] >= p[q[k]]
  <1>1. PICK n \in 0 .. Cardinality(S) : q \in [1 .. n -> S]
    BY DEF Sorted
  <1>2. n \in Nat
    BY <1>1
  <1>3. q \in Seq(Flows) /\ Len(q) = n /\ DOMAIN q = 1 .. n
    BY <1>1, <1>2
  <1>4. {q[k] : k \in DOMAIN q} = S
    BY DEF Sorted
  <1>5. \A j, k \in DOMAIN q : j < k => q[j] # q[k] /\ p[q[j]] >= p[q[k]]
    BY DEF Sorted
  <1> QED
    BY <1>1, <1>3, <1>4, <1>5

(* order_shards gives every flow the sum of its place. *)
LEMMA OrderPlaces ==
  ASSUME TypeInv, Order
  PROVE  /\ ordered_flows' \in Seq(Flows)
         /\ \A k \in 1 .. Len(ordered_flows') :
               /\ ordered_flows'[k] \in retired
               /\ cdf'[ordered_flows'[k]] = Accum(ordered_flows', prob2)[k]
         /\ \A j, k \in 1 .. Len(ordered_flows') :
               j < k => /\ ordered_flows'[j] # ordered_flows'[k]
                        /\ prob2[ordered_flows'[j]] >= prob2[ordered_flows'[k]]
         /\ cdf' \in [Flows -> Nat]
  <1> DEFINE q == ordered_flows'
             a == Accum(q, prob2)
             Place(f) == CHOOSE k \in DOMAIN q : q[k] = f
  <1>0. retired \in SUBSET Flows /\ prob2 \in [Flows -> Nat] /\ cdf \in [Flows -> Nat]
    BY DEF TypeInv, TypeOK
  <1>1. q \in Sorted(retired, prob2)
    BY DEF Order
  <1>2. cdf' = [f \in Flows |-> IF f \notin retired THEN cdf[f] ELSE a[Place(f)]]
    BY DEF Order
  <1> HIDE DEF q
  <1>3. /\ q \in Seq(Flows) /\ DOMAIN q = 1 .. Len(q)
        /\ \A k \in 1 .. Len(q) : q[k] \in retired
        /\ \A f \in retired : \E k \in 1 .. Len(q) : q[k] = f
        /\ \A j, k \in 1 .. Len(q) : j < k => q[j] # q[k] /\ prob2[q[j]] >= prob2[q[k]]
    BY <1>0, <1>1, SortedType
  <1>4. \A j, k \in 1 .. Len(q) : q[j] = q[k] => j = k
    <2>1. Len(q) \in Nat
      BY <1>3
    <2> QED
      BY <1>3, <2>1
  <1>5. \A k \in 0 .. Len(q) : a[k] \in Nat
    BY <1>0, <1>3, AccumType
  <1> HIDE DEF a
  <1>6. ASSUME NEW k \in 1 .. Len(q) PROVE cdf'[q[k]] = a[k]
    <2>1. Place(q[k]) \in 1 .. Len(q) /\ q[Place(q[k])] = q[k]
      BY <1>3
    <2>2. Place(q[k]) = k
      BY <1>4, <2>1
    <2>3. q[k] \in retired /\ q[k] \in Flows
      BY <1>0, <1>3
    <2> HIDE DEF Place
    <2> QED
      BY <1>2, <2>2, <2>3
  <1>7. ASSUME NEW f \in Flows PROVE (IF f \notin retired THEN cdf[f] ELSE a[Place(f)]) \in Nat
    <2>1. CASE f \in retired
      <3>1. Place(f) \in 1 .. Len(q)
        BY <1>3, <2>1
      <3>2. Len(q) \in Nat
        BY <1>3
      <3> HIDE DEF Place
      <3>3. Place(f) \in 0 .. Len(q)
        BY <3>1, <3>2
      <3> QED
        BY <1>5, <2>1, <3>3
    <2> QED
      BY <1>0, <2>1
  <1>8. cdf' \in [Flows -> Nat]
    <2> HIDE DEF Place
    <2> QED
      BY <1>2, <1>7
  <1> QED
    BY <1>3, <1>6, <1>8 DEF q, a

(* Every variable keeps its type. *)
THEOREM TypeCorrect == Spec => []TypeInv
  <1>1. Init => TypeInv
    <2> SUFFICES ASSUME Init PROVE TypeInv
      OBVIOUS
    <2>1. Held /\ Filed /\ Bounded
      BY DEF Init, Held, Filed, Bounded
    <2>2. 0 \in 0 .. MaxBytes /\ 0 \in 0 .. MaxEpoch /\ 0 \in 0 .. 0
      BY UnitAssumption
    <2>3. TypeOK
      BY <2>2 DEF Init, TypeOK
    <2> QED
      BY <2>1, <2>3 DEF TypeInv
  <1>2. TypeInv /\ [Next]_vars => TypeInv'
    <2> SUFFICES ASSUME TypeInv, [Next]_vars PROVE TypeInv'
      OBVIOUS
    <2> USE UnitAssumption
    <2>1. CASE UNCHANGED vars
      BY <2>1 DEF vars, flowvars, ordvars, shardvars, epochvars, ratiovars, corevars,
                  TypeInv, TypeOK, Held, Filed, Bounded
    <2>2. CASE SignalTest \/ RxNothing
      BY <2>2 DEF SignalTest, RxNothing, flowvars, ordvars, shardvars, epochvars, ratiovars,
                  TypeInv, TypeOK, Held, Filed, Bounded
    <2>3. CASE ApplyRatio \/ TransferClear \/ SignalClear
      BY <2>3 DEF ApplyRatio, TransferClear, SignalClear, flowvars, ordvars, shardvars,
                  epochvars, TypeInv, TypeOK, Held, Filed, Bounded
    <2>4. ASSUME NEW f \in Flows, FirstPacket(f) PROVE TypeInv'
      <3>1. /\ bytes' \in [Flows -> Nat] /\ seen' \in [Flows -> 0 .. epoch]
            /\ count' \in 0 .. MaxBytes /\ table' \subseteq Flows /\ table \subseteq table'
        BY <2>4 DEF FirstPacket, TypeInv, TypeOK
      <3>2. pc' = "top"
        BY <2>4 DEF FirstPacket
      <3> QED
        BY <2>4, <3>1, <3>2 DEF FirstPacket, ordvars, epochvars, ratiovars,
                                TypeInv, TypeOK, Held, Filed, Bounded
    <2>5. ASSUME NEW f \in Flows, LoadEpoch(f) PROVE TypeInv'
      BY <2>5 DEF LoadEpoch, flowvars, ordvars, shardvars, epochvars, ratiovars,
                  TypeInv, TypeOK, Held, Filed, Bounded
    <2>6. CASE Refresh
      <3>1. flow \in table /\ flow \in Flows
        BY <2>6 DEF Refresh, TypeInv, TypeOK, Held
      <3>2. old_bytes # 0 => (bytes[flow] * ONE) \div old_bytes \in Nat
        <4>1. bytes[flow] * ONE \in Nat /\ old_bytes \in Nat
          BY <3>1 DEF TypeInv, TypeOK
        <4> QED
          BY <4>1
      <3>3. prob' \in [Flows -> Nat]
        <4>1. prob \in [Flows -> Nat]
          BY DEF TypeInv, TypeOK
        <4> QED
          BY <2>6, <3>1, <3>2, <4>1 DEF Refresh, flowvars
      <3>4. table' = table /\ bytes' \in [Flows -> Nat] /\ seen' \in [Flows -> 0 .. epoch]
        BY <2>6, <3>1 DEF Refresh, flowvars, TypeInv, TypeOK
      <3> QED
        BY <2>6, <3>3, <3>4 DEF Refresh, ordvars, shardvars, epochvars, ratiovars,
                                TypeInv, TypeOK, Held, Filed, Bounded
    <2>7. CASE Record
      <3>1. /\ bytes' \in [Flows -> Nat] /\ count' \in 0 .. MaxBytes /\ flows3' \subseteq table
            /\ local_epoch' \in 0 .. epoch
        BY <2>7 DEF Record, TypeInv, TypeOK, Held
      <3>2. pc' = "top"
        BY <2>7 DEF Record
      <3> QED
        BY <2>7, <3>1, <3>2 DEF Record, ordvars, epochvars, ratiovars,
                                TypeInv, TypeOK, Held, Filed, Bounded
    <2>8. CASE Swap
      BY <2>8 DEF Swap, Volume, flowvars, ordvars, ratiovars, corevars,
                  TypeInv, TypeOK, Held, Filed, Bounded
    <2>9. CASE Solve
      <3>1. CASE cpc' = "inc" /\ UNCHANGED ratiovars
        BY <2>9, <3>1 DEF Solve, flowvars, ordvars, shardvars, epochvars, ratiovars, corevars,
                          TypeInv, TypeOK, Held, Filed, Bounded
      <3>2. CASE /\ cpc' = "ratio" /\ r_new' \in Requests /\ req' = r_new'
                 /\ raced' = Answering /\ UNCHANGED <<r, transfer_r, signal>>
        <4>1. raced' \in BOOLEAN
          BY <3>2 DEF Answering
        <4>2. r_new' \in Nat /\ req' \in Requests \union {0}
          BY <3>2
        <4> QED
          BY <2>9, <3>2, <4>1, <4>2 DEF Solve, flowvars, ordvars, shardvars, epochvars,
             corevars, TypeInv, TypeOK, Held, Filed, Bounded
      <3> QED
        BY <2>9, <3>1, <3>2 DEF Solve
    <2>10. CASE Ratio
      <3>1. raced' \in BOOLEAN
        BY <2>10 DEF Ratio
      <3>2. cpc' \in {"signal", "inc"}
        BY <2>10 DEF Ratio
      <3> QED
        BY <2>10, <3>1, <3>2, AdjustedType
           DEF Ratio, flowvars, ordvars, shardvars, epochvars, corevars,
               TypeInv, TypeOK, Held, Filed, Bounded
    <2>11. CASE Signal
      <3>1. raced' \in BOOLEAN
        BY <2>11 DEF Signal
      <3> QED
        BY <2>11, <3>1 DEF Signal, flowvars, ordvars, shardvars, epochvars, corevars,
                           TypeInv, TypeOK, Held, Filed, Bounded
    <2>12. CASE Inc
      <3>1. epoch \in Nat /\ epoch' = epoch + 1 /\ epoch' \in 0 .. MaxEpoch
        BY <2>12 DEF Inc, TypeInv, TypeOK, Bounded
      <3>2. seen' \in [Flows -> 0 .. epoch'] /\ local_epoch' \in 0 .. epoch'
        BY <2>12, <3>1 DEF Inc, flowvars, corevars, TypeInv, TypeOK
      <3> QED
        BY <2>12, <3>1, <3>2 DEF Inc, flowvars, ordvars, shardvars, corevars,
                  TypeInv, TypeOK, Held, Filed, Bounded
    <2>13. CASE Copy
      BY <2>13 DEF Copy, flowvars, shardvars, epochvars, ratiovars, corevars,
                  TypeInv, TypeOK, Held, Filed, Bounded
    <2>14. CASE Order
      <3>1. ordered_flows' \in Seq(Flows) /\ cdf' \in [Flows -> Nat]
        BY <2>14, OrderPlaces
      <3> QED
        BY <2>14, <3>1 DEF Order, flowvars, epochvars, ratiovars, corevars,
                           TypeInv, TypeOK, Held, Filed, Bounded
    <2> QED
      BY <2>1, <2>2, <2>3, <2>4, <2>5, <2>6, <2>7, <2>8, <2>9, <2>10, <2>11, <2>12, <2>13,
         <2>14 DEF Next, Core, Controller
  <1> QED
    BY <1>1, <1>2, PTL DEF Spec

-----------------------------------------------------------------------------
(* The core's steps leave alone all that the controller orders by. *)
LEMMA CoreKeeps ==
  ASSUME Core PROVE UNCHANGED <<ordvars, epochvars, cpc, r_new, req, raced>>
  BY DEF Core, SignalTest, ApplyRatio, TransferClear, SignalClear, RxNothing, FirstPacket,
         LoadEpoch, Refresh, Record, ratiovars

(* The volume is this epoch's or none, in every state. *)
VolumeInv == V \in {0, old_bytes}

(* The early return of volume_shards leaves no volume behind: it is taken   *)
(* only after a silent epoch, whose volume was 0.                           *)
THEOREM VolumeCorrect == Spec => []VolumeNotStale
  <1>1. Init => VolumeInv
    BY DEF Init, VolumeInv
  <1>2. VolumeInv /\ [Next]_vars => VolumeInv'
    <2> SUFFICES ASSUME VolumeInv, [Next]_vars PROVE VolumeInv'
      OBVIOUS
    <2>1. CASE UNCHANGED vars
      BY <2>1 DEF vars, epochvars, VolumeInv
    <2>2. CASE Core
      BY <2>2, CoreKeeps DEF epochvars, VolumeInv
    <2>3. CASE Swap
      BY <2>3 DEF Swap, Volume, VolumeInv
    <2>4. CASE Solve \/ Ratio \/ Signal \/ Inc \/ Copy \/ Order
      BY <2>4 DEF Solve, Ratio, Signal, Inc, Copy, Order, epochvars, VolumeInv
    <2> QED
      BY <2>1, <2>2, <2>3, <2>4 DEF Next, Controller
  <1>3. VolumeInv => VolumeNotStale
    BY DEF VolumeInv, VolumeNotStale
  <1> QED
    BY <1>1, <1>2, <1>3, PTL DEF Spec

-----------------------------------------------------------------------------
(* A ratio that is not in use is asked for, its signal is still to be       *)
(* written or not yet seen, or the owner is about to install it; and an     *)
(* owner that has taken the signal has installed it.                        *)
PendingInv ==
    cpc # "ratio" /\ ~raced =>
        /\ \/ is_equal_than(r, r_new)
           \/ transfer_r = 1 /\ (cpc # "signal" => signal = 1)
           \/ pc = "apply"
        /\ pc \in {"rclear", "sclear"} => is_equal_than(r, r_new)

(* No ratio the controller made is forgotten, unless the owner was          *)
(* answering a signal while the controller wrote the next one.              *)
THEOREM PendingCorrect == Spec => []RatioPending
  <1>1. Init => PendingInv
    <2>1. is_equal_than(0, 0)
      BY EqualReflexive
    <2> QED
      BY <2>1 DEF Init, PendingInv
  <1>2. TypeInv /\ PendingInv /\ [Next]_vars => PendingInv'
    <2> SUFFICES ASSUME TypeInv, PendingInv, [Next]_vars PROVE PendingInv'
      OBVIOUS
    <2>0. /\ r_new \in Nat /\ transfer_r \in {0, 1} /\ signal \in {0, 1}
      BY DEF TypeInv, TypeOK
    <2>1. CASE UNCHANGED vars
      BY <2>1 DEF vars, ratiovars, corevars, PendingInv
    <2>2. CASE SignalTest
      BY <2>0, <2>2 DEF SignalTest, ratiovars, PendingInv
    <2>3. CASE ApplyRatio
      <3>1. is_equal_than(r', r_new')
        BY <2>0, <2>3, EqualReflexive DEF ApplyRatio
      <3> QED
        BY <3>1 DEF PendingInv
    <2>4. CASE TransferClear \/ SignalClear
      BY <2>4 DEF TransferClear, SignalClear, PendingInv
    <2>5. CASE RxNothing \/ Refresh \/ Record \/ \E f \in Flows : FirstPacket(f) \/ LoadEpoch(f)
      <3>1. UNCHANGED <<ratiovars, cpc>> /\ pc \notin {"apply", "rclear", "sclear"}
            /\ pc' \notin {"apply", "rclear", "sclear"}
        BY <2>5 DEF RxNothing, Refresh, Record, FirstPacket, LoadEpoch
      <3> QED
        BY <3>1 DEF ratiovars, PendingInv
    <2>6. CASE Swap \/ Inc \/ Copy \/ Order
      BY <2>6 DEF Swap, Inc, Copy, Order, ratiovars, corevars, PendingInv
    <2>7. CASE Solve
      BY <2>7 DEF Solve, ratiovars, corevars, PendingInv
    <2>8. CASE Ratio
      <3>1. /\ r' = r /\ r_new' = Adjusted /\ pc' = pc
            /\ ~is_equal_than(r, Adjusted) => transfer_r' = 1 /\ cpc' = "signal"
            /\ ~raced' => pc \notin {"apply", "rclear", "sclear"}
        BY <2>8 DEF Ratio, Answering, corevars
      <3> QED
        BY <3>1 DEF PendingInv
    <2>9. CASE Signal
      BY <2>9 DEF Signal, Answering, corevars, PendingInv
    <2> QED
      BY <2>1, <2>2, <2>3, <2>4, <2>5, <2>6, <2>7, <2>8, <2>9 DEF Next, Core, Controller
  <1>3. PendingInv => RatioPending
    BY DEF PendingInv, RatioPending
  <1> QED
    BY <1>1, <1>2, <1>3, TypeCorrect, PTL DEF Spec

-----------------------------------------------------------------------------
(* The ordering.                                                            *)

(* Outside order_shards the flows are in descending order of the copied     *)
(* shares, each once, with the sum of the shares down to its own.           *)
OrderInv ==
    cpc # "order" =>
        /\ \A j, k \in 1 .. Len(ordered_flows) :
              j < k => /\ ordered_flows[j] # ordered_flows[k]
                       /\ prob2[ordered_flows[j]] >= prob2[ordered_flows[k]]
        /\ \A k \in 1 .. Len(ordered_flows) :
              cdf[ordered_flows[k]] = Accum(ordered_flows, prob2)[k]

(* order_shards brings the order about and every other step keeps it. *)
LEMMA OrderInvariant == Spec => []OrderInv
  <1>1. Init => OrderInv
    BY DEF Init, OrderInv
  <1>2. TypeInv /\ OrderInv /\ [Next]_vars => OrderInv'
    <2> SUFFICES ASSUME TypeInv, OrderInv, [Next]_vars PROVE OrderInv'
      OBVIOUS
    <2>1. CASE UNCHANGED <<ordvars, cpc>>
      BY <2>1 DEF ordvars, OrderInv
    <2>2. CASE Swap \/ Solve \/ Ratio \/ Signal \/ Inc
      <3>1. UNCHANGED ordvars /\ cpc # "order"
        BY <2>2 DEF Swap, Solve, Ratio, Signal, Inc
      <3> QED
        BY <3>1 DEF ordvars, OrderInv
    <2>3. CASE Copy
      BY <2>3 DEF Copy, OrderInv
    <2>4. CASE Order
      <3>1. prob2' = prob2
        BY <2>4 DEF Order
      <3> QED
        BY <2>4, <3>1, OrderPlaces DEF OrderInv
    <2> QED
      BY <2>1, <2>2, <2>3, <2>4, CoreKeeps DEF Next, Controller, vars, ordvars
  <1> QED
    BY <1>1, <1>2, TypeCorrect, PTL DEF Spec

(* What is offloaded is a prefix of the ordering. *)
LEMMA OffloadedPrefix ==
  ASSUME TypeInv, OrderInv, cpc # "order", NEW ratio \in Nat,
         NEW j \in 1 .. Len(ordered_flows), NEW k \in 1 .. Len(ordered_flows), j <= k,
         Offloaded(ordered_flows[k], ratio)
  PROVE  Offloaded(ordered_flows[j], ratio)
  <1> DEFINE a == Accum(ordered_flows, prob2)
  <1>t. ordered_flows \in Seq(Flows) /\ prob2 \in [Flows -> Nat]
    BY DEF TypeInv, TypeOK, Filed
  <1>0. ordered_flows \in Seq(Flows) /\ prob2 \in [Flows -> Nat] /\ Len(ordered_flows) \in Nat
    BY <1>t
  <1>1. j \in 0 .. Len(ordered_flows) /\ k \in 0 .. Len(ordered_flows)
    BY <1>0
  <1>2. a[j] \in Nat /\ a[k] \in Nat /\ a[j] <= a[k]
    BY <1>0, <1>1, AccumType, AccumMonotone
  <1> HIDE DEF a
  <1>3. cdf[ordered_flows[j]] = a[j] /\ cdf[ordered_flows[k]] = a[k]
    BY DEF OrderInv, a
  <1> QED
    BY <1>2, <1>3, LessMonotone DEF Offloaded

(* The flows offloaded are the largest of the ordering, for every ratio and *)
(* however the cores change the shares meanwhile.                           *)
THEOREM LargestCorrect == Spec => []LargestOffloaded
  <1>1. TypeInv /\ OrderInv => LargestOffloaded
    <2> SUFFICES ASSUME TypeInv, OrderInv, cpc # "order", NEW f \in Ordered, NEW g \in Ordered,
                        Offloaded(f, r), prob2[g] > prob2[f]
                 PROVE  Offloaded(g, r)
      BY DEF LargestOffloaded
    <2>t. ordered_flows \in Seq(Flows) /\ prob2 \in [Flows -> Nat] /\ r \in Nat
      BY DEF TypeInv, TypeOK, Filed
    <2>0. /\ ordered_flows \in Seq(Flows) /\ Len(ordered_flows) \in Nat
          /\ DOMAIN ordered_flows = 1 .. Len(ordered_flows)
          /\ prob2 \in [Flows -> Nat] /\ r \in Nat
      BY <2>t
    <2>1. PICK k \in 1 .. Len(ordered_flows) : f = ordered_flows[k]
      BY <2>0 DEF Ordered
    <2>2. PICK j \in 1 .. Len(ordered_flows) : g = ordered_flows[j]
      BY <2>0 DEF Ordered
    <2>3. j <= k
      <3> SUFFICES ASSUME k < j PROVE FALSE
        BY <2>0
      <3>1. prob2[f] >= prob2[g] /\ prob2[f] \in Nat /\ prob2[g] \in Nat
        BY <2>0, <2>1, <2>2 DEF OrderInv
      <3> QED
        BY <3>1
    <2> QED
      BY <2>0, <2>1, <2>2, <2>3, OffloadedPrefix
  <1> QED
    BY <1>1, TypeCorrect, OrderInvariant, PTL

-----------------------------------------------------------------------------
(* The ratio.                                                               *)

(* At most one place is the first to reach the request. *)
LEMMA ReachesOnce ==
  ASSUME TypeInv, NEW j \in 1 .. Len(ordered_flows), NEW k \in 1 .. Len(ordered_flows),
         Reaches(j), Reaches(k)
  PROVE  j = k
  <1> DEFINE a == Accum(ordered_flows, prob2)
  <1>1. ordered_flows \in Seq(Flows) /\ prob2 \in [Flows -> Nat] /\ r_new \in Nat
    BY DEF TypeInv, TypeOK, Filed
  <1>2. Len(ordered_flows) \in Nat /\ j \in Nat /\ k \in Nat
    BY <1>1
  <1>3. \A i \in 0 .. Len(ordered_flows) : a[i] \in Nat
    BY <1>1, AccumType
  <1> HIDE DEF a
  <1>4. /\ a[j] >= r_new /\ a[k] >= r_new
        /\ \A i \in 1 .. k - 1 : a[i] < r_new
        /\ \A i \in 1 .. j - 1 : a[i] < r_new
    BY DEF Reaches, a
  <1>5. a[j] \in Nat /\ a[k] \in Nat
    BY <1>2, <1>3
  <1>6. ~(j < k)
    <2> SUFFICES ASSUME j < k PROVE FALSE
      OBVIOUS
    <2>1. j \in 1 .. k - 1
      BY <1>2
    <2> QED
      BY <1>1, <1>4, <1>5, <2>1
  <1>7. ~(k < j)
    <2> SUFFICES ASSUME k < j PROVE FALSE
      OBVIOUS
    <2>1. k \in 1 .. j - 1
      BY <1>2
    <2> QED
      BY <1>1, <1>4, <1>5, <2>1
  <1> QED
    BY <1>2, <1>6, <1>7

(* If some place reaches the request, one is the first, and none reaches it *)
(* before.                                                                  *)
LEMMA ReachesFirst ==
  ASSUME TypeInv, NEW k \in 1 .. Len(ordered_flows), Accum(ordered_flows, prob2)[k] >= r_new
  PROVE  \E i \in 1 .. Len(ordered_flows) : i <= k /\ Reaches(i)
  <1> DEFINE a == Accum(ordered_flows, prob2)
             T == {i \in 1 .. Len(ordered_flows) : a[i] >= r_new}
  <1>1. ordered_flows \in Seq(Flows) /\ prob2 \in [Flows -> Nat] /\ r_new \in Nat
    BY DEF TypeInv, TypeOK, Filed
  <1>2. Len(ordered_flows) \in Nat /\ k \in Nat
    BY <1>1
  <1>3. \A i \in 0 .. Len(ordered_flows) : a[i] \in Nat
    BY <1>1, AccumType
  <1>4. k \in T
    OBVIOUS
  <1>5. T \in SUBSET Nat
    BY <1>2
  <1>6. PICK i \in T : \A l \in T : i <= l
    BY <1>4, <1>5, LeastElement
  <1> HIDE DEF a
  <1>7. i \in 1 .. Len(ordered_flows) /\ a[i] >= r_new /\ i <= k
    BY <1>4, <1>6
  <1>8. ASSUME NEW l \in 1 .. i - 1 PROVE a[l] < r_new
    <2>1. l \in 1 .. Len(ordered_flows) /\ l \in 0 .. Len(ordered_flows) /\ l < i
      BY <1>2, <1>7
    <2>2. l \notin T
      BY <1>6, <1>7, <2>1
    <2> QED
      BY <1>1, <1>3, <2>1, <2>2
  <1> QED
    BY <1>7, <1>8 DEF Reaches, a

(* update_ratio keeps the request or makes it the sum of the first flow to  *)
(* reach it, and EPSILON.                                                   *)
LEMMA AdjustedCases ==
  ASSUME TypeInv
  PROVE  LET a == Accum(ordered_flows, prob2)
         IN  \/ /\ Adjusted = r_new
                /\ \/ is_equal_than(r_new, 0)
                   \/ \A k \in 1 .. Len(ordered_flows) : Reaches(k) => ~(a[k] * 2 < r_new * 3)
             \/ \E k \in 1 .. Len(ordered_flows) :
                   Reaches(k) /\ a[k] * 2 < r_new * 3 /\ Adjusted = a[k] + EPSILON
  <1> DEFINE a == Accum(ordered_flows, prob2)
             first == CHOOSE k \in DOMAIN ordered_flows : Reaches(k)
  <1>1. ordered_flows \in Seq(Flows)
    BY DEF TypeInv, Filed
  <1>2. DOMAIN ordered_flows = 1 .. Len(ordered_flows)
    BY <1>1
  <1>3. Adjusted = IF is_equal_than(r_new, 0) THEN r_new
                   ELSE IF \E k \in DOMAIN ordered_flows : Reaches(k) /\ a[k] * 2 < r_new * 3
                   THEN a[first] + EPSILON ELSE r_new
    BY DEF Adjusted
  <1>4. ASSUME NEW k \in 1 .. Len(ordered_flows), Reaches(k) PROVE first = k
    <2>1. first \in 1 .. Len(ordered_flows) /\ Reaches(first)
      BY <1>2, <1>4
    <2> HIDE DEF first
    <2> QED
      BY <1>4, <2>1, ReachesOnce
  <1> HIDE DEF a, first
  <1>5. \/ /\ Adjusted = r_new
           /\ \/ is_equal_than(r_new, 0)
              \/ \A k \in 1 .. Len(ordered_flows) : Reaches(k) => ~(a[k] * 2 < r_new * 3)
        \/ \E k \in 1 .. Len(ordered_flows) :
              Reaches(k) /\ a[k] * 2 < r_new * 3 /\ Adjusted = a[k] + EPSILON
    BY <1>2, <1>3, <1>4
  <1> QED
    BY <1>5 DEF a

(* What the flows offloaded under a ratio have together. *)
LEMMA ShareIsSum ==
  ASSUME TypeInv, OrderInv, cpc # "order", NEW ratio \in Nat
  PROVE  LET a == Accum(ordered_flows, prob2)
         IN  /\ \/ Share(ratio) = 0
                \/ \E j \in 1 .. Len(ordered_flows) :
                      is_less_than(a[j], ratio) /\ Share(ratio) = a[j]
             /\ \A j \in 1 .. Len(ordered_flows) :
                   is_less_than(a[j], ratio) => Share(ratio) >= a[j]
  <1> DEFINE a == Accum(ordered_flows, prob2)
             C == {f \in Flows : Offloaded(f, ratio)}
             m == [f \in Flows |-> IF f \in C THEN prob2[f] ELSE 0]
             q == ordered_flows
  <1>1. q \in Seq(Flows) /\ prob2 \in [Flows -> Nat]
    BY DEF TypeInv, TypeOK, Filed
  <1>2. \A k \in 1 .. Len(q) : q[k] \in Flows
    BY <1>1
  <1>3. \A k \in 1 .. Len(q) : q[k] \in C <=> is_less_than(a[k], ratio)
    BY <1>2 DEF Offloaded, OrderInv
  <1>4. \A j, k \in 1 .. Len(q) : j <= k /\ q[k] \in C => q[j] \in C
    BY <1>2, OffloadedPrefix
  <1>5. m = [f \in Flows |-> IF Offloaded(f, ratio) THEN prob2[f] ELSE 0]
    OBVIOUS
  <1>6. Share(ratio) = Accum(q, m)[Len(q)]
    BY <1>5 DEF Share
  <1>7. C \in SUBSET Flows
    OBVIOUS
  <1> HIDE DEF C
  <1>8. /\ Accum(q, m)[Len(q)] = 0 \/ \E j \in 1 .. Len(q) : q[j] \in C /\ Accum(q, m)[Len(q)] = a[j]
        /\ \A j \in 1 .. Len(q) : q[j] \in C => Accum(q, m)[Len(q)] >= a[j]
    BY <1>1, <1>4, <1>7, ChosenSum
  <1> HIDE DEF m, q, a
  <1>9. /\ Share(ratio) = 0 \/ \E j \in 1 .. Len(q) : is_less_than(a[j], ratio) /\ Share(ratio) = a[j]
        /\ \A j \in 1 .. Len(q) : is_less_than(a[j], ratio) => Share(ratio) >= a[j]
    BY <1>3, <1>6, <1>8
  <1> QED
    BY <1>9 DEF q, a

(* The adjusted ratio offloads less than 1.5 times the request, and less    *)
(* than the request only if the next flow overshoots or completes the shard.*)
LEMMA AdjustedMeets ==
  ASSUME TypeInv, OrderInv, cpc # "order"
  PROVE  LET a == Accum(ordered_flows, prob2)
         IN  /\ 2 * Share(Adjusted) < 3 * r_new \/ Share(Adjusted) = 0
             /\ Share(Adjusted) < r_new =>
                  \A k \in 1 .. Len(ordered_flows) :
                     a[k] >= r_new => 2 * a[k] >= 3 * r_new \/ a[k] + EPSILON >= ONE
  <1> DEFINE a == Accum(ordered_flows, prob2)
             s == Share(Adjusted)
             n == Len(ordered_flows)
  <1>1. ordered_flows \in Seq(Flows) /\ prob2 \in [Flows -> Nat] /\ r_new \in Nat
    BY DEF TypeInv, TypeOK, Filed
  <1>2. n \in Nat /\ ONE \in Nat
    BY <1>1, UnitAssumption
  <1>3. \A i \in 0 .. n : a[i] \in Nat
    BY <1>1, AccumType
  <1>4. \A i \in 1 .. n : a[i] \in Nat
    BY <1>2, <1>3
  <1>5. \A j, k \in 0 .. n : j <= k => a[j] <= a[k]
    BY <1>1, AccumMonotone
  <1>6. \A j, k \in 1 .. n : j <= k => a[j] <= a[k]
    BY <1>2, <1>5
  <1>7. Adjusted \in Nat
    BY AdjustedType
  <1>8. /\ s = 0 \/ \E j \in 1 .. n : is_less_than(a[j], Adjusted) /\ s = a[j]
        /\ \A j \in 1 .. n : is_less_than(a[j], Adjusted) => s >= a[j]
    BY <1>7, ShareIsSum
  <1>9. \/ /\ Adjusted = r_new
           /\ \/ is_equal_than(r_new, 0)
              \/ \A k \in 1 .. n : Reaches(k) => ~(a[k] * 2 < r_new * 3)
        \/ \E k \in 1 .. n : Reaches(k) /\ a[k] * 2 < r_new * 3 /\ Adjusted = a[k] + EPSILON
    BY AdjustedCases
  <1>10. \A k \in 1 .. n : a[k] >= r_new => \E i \in 1 .. n : i <= k /\ Reaches(i)
    BY ReachesFirst
  <1>11. \A k \in 1 .. n : Reaches(k) => a[k] >= r_new
    BY DEF Reaches
  <1>12. \A j, k \in 1 .. n : Reaches(j) /\ Reaches(k) => j = k
    BY ReachesOnce
  <1> HIDE DEF a, s, n
  <1>13. s \in Nat /\ (s = 0 \/ s < Adjusted)
    BY <1>4, <1>7, <1>8, LessIsLess
  <1>14. CASE /\ Adjusted = r_new
              /\ \/ is_equal_than(r_new, 0)
                 \/ \A k \in 1 .. n : Reaches(k) => ~(a[k] * 2 < r_new * 3)
    <2>1. 2 * s < 3 * r_new \/ s = 0
      BY <1>1, <1>13, <1>14
    <2>2. ASSUME NEW k \in 1 .. n, a[k] >= r_new
          PROVE  2 * a[k] >= 3 * r_new \/ a[k] + EPSILON >= ONE
      <3>1. CASE is_equal_than(r_new, 0)
        <4>1. r_new = 0 \/ ONE <= 1
          BY <1>1, <3>1, EqualZero
        <4> QED
          BY <1>2, <1>4, <4>1 DEF EPSILON
      <3>2. CASE \A i \in 1 .. n : Reaches(i) => ~(a[i] * 2 < r_new * 3)
        <4>1. PICK i \in 1 .. n : i <= k /\ Reaches(i)
          BY <1>10, <2>2
        <4>2. a[i] <= a[k] /\ ~(a[i] * 2 < r_new * 3) /\ a[i] \in Nat /\ a[k] \in Nat
          BY <1>4, <1>6, <3>2, <4>1
        <4> QED
          BY <1>1, <4>2
      <3> QED
        BY <1>14, <3>1, <3>2
    <2> QED
      BY <2>1, <2>2 DEF a, s, n
  <1>15. ASSUME NEW i \in 1 .. n, Reaches(i), a[i] * 2 < r_new * 3, Adjusted = a[i] + EPSILON
         PROVE  /\ 2 * s < 3 * r_new \/ s = 0
                /\ s < r_new => \A k \in 1 .. n :
                      a[k] >= r_new => 2 * a[k] >= 3 * r_new \/ a[k] + EPSILON >= ONE
    <2>1. a[i] \in Nat /\ a[i] >= r_new
      BY <1>4, <1>11, <1>15
    <2>2. s <= a[i]
      BY <1>13, <1>15, <2>1 DEF EPSILON
    <2>3. 2 * s < 3 * r_new
      BY <1>1, <1>13, <1>15, <2>1, <2>2
    <2>4. ASSUME s < r_new, NEW k \in 1 .. n, a[k] >= r_new PROVE a[k] + EPSILON >= ONE
      <3>1. ~is_less_than(a[i], Adjusted)
        BY <1>1, <1>8, <1>13, <2>1, <2>4
      <3>2. ~(a[i] + EPSILON < ONE)
        BY <1>15, <2>1, <3>1, LessByEpsilon
      <3>3. i <= k
        BY <1>10, <1>12, <1>15, <2>4
      <3>4. a[i] <= a[k] /\ a[k] \in Nat
        BY <1>4, <1>6, <3>3
      <3> QED
        BY <1>2, <2>1, <3>2, <3>4 DEF EPSILON
    <2> QED
      BY <2>3, <2>4
  <1> QED
    BY <1>9, <1>14, <1>15 DEF a, s, n

(* The request is still the one update_ratio starts from, and the ratio it  *)
(* made meets it until the owner is signalled.                              *)
RatioInv == (cpc = "ratio" => r_new = req) /\ RatioMet

(* update_ratio and run agree on the sums, for every ordering, request and  *)
(* unit: the share the solver asked for is met within the next flow.        *)
THEOREM RatioMetCorrect == Spec => []RatioMet
  <1>1. Init => RatioInv
    BY DEF Init, RatioInv, RatioMet
  <1>2. TypeInv /\ OrderInv /\ RatioInv /\ [Next]_vars => RatioInv'
    <2> SUFFICES ASSUME TypeInv, OrderInv, RatioInv, [Next]_vars PROVE RatioInv'
      OBVIOUS
    <2>1. CASE UNCHANGED <<ordvars, cpc, r_new, req>>
      BY <2>1 DEF ordvars, RatioInv, RatioMet, Share, Offloaded
    <2>2. CASE Swap \/ Signal \/ Inc \/ Copy \/ Order
      <3>1. cpc' \notin {"ratio", "signal"}
        BY <2>2 DEF Swap, Signal, Inc, Copy, Order
      <3> QED
        BY <3>1 DEF RatioInv, RatioMet
    <2>3. CASE Solve
      <3>1. cpc' # "signal" /\ (cpc' = "ratio" => r_new' = req')
        BY <2>3 DEF Solve
      <3> QED
        BY <3>1 DEF RatioInv, RatioMet
    <2>4. CASE Ratio
      <3>1. /\ cpc' # "ratio" /\ r_new' = Adjusted /\ req' = req /\ req = r_new
            /\ ordered_flows' = ordered_flows /\ prob2' = prob2 /\ cdf' = cdf /\ cpc = "ratio"
        BY <2>4 DEF Ratio, ordvars, RatioInv
      <3>2. Share(r_new)' = Share(Adjusted)
        BY <3>1 DEF Share, Offloaded
      <3>3. ordered_flows \in Seq(Flows)
        BY DEF TypeInv, Filed
      <3>4. DOMAIN ordered_flows = 1 .. Len(ordered_flows)
        BY <3>3
      <3> QED
        BY <3>1, <3>2, <3>4, AdjustedMeets DEF RatioInv, RatioMet
    <2> QED
      BY <2>1, <2>2, <2>3, <2>4, CoreKeeps DEF Next, Controller, vars, ratiovars
  <1>3. RatioInv => RatioMet
    BY DEF RatioInv
  <1> QED
    BY <1>1, <1>2, <1>3, TypeCorrect, OrderInvariant, PTL DEF Spec

-----------------------------------------------------------------------------
(* Sums over sets of flows: along every ordering that has no flow twice.    *)

Distinct(q) == \A j, k \in 1 .. Len(q) : j # k => q[j] # q[k]

(* The values p of any flows add up to n at most. *)
SumAtMost(p, n) == \A q \in Seq(Flows) : Distinct(q) => Accum(q, p)[Len(q)] <= n

(* The values of the flows in S alone. *)
Part(S, p) == [f \in Flows |-> IF f \in S THEN p[f] ELSE 0]

(* Larger values, larger sums; and a factor carries over. *)
LEMMA AccumScaled ==
  ASSUME NEW q \in Seq(Flows), NEW p \in [Flows -> Nat], NEW u \in [Flows -> Nat],
         NEW c \in Nat, NEW d \in Nat,
         \A k \in 1 .. Len(q) : p[q[k]] * c <= u[q[k]] * d
  PROVE  Accum(q, p)[Len(q)] * c <= Accum(q, u)[Len(q)] * d
  <1> DEFINE a == Accum(q, p)
             b == Accum(q, u)
             T == {n \in Nat : n <= Len(q) => a[n] * c <= b[n] * d}
  <1>0. Len(q) \in Nat
    OBVIOUS
  <1>1. a[0] = 0 /\ b[0] = 0
    BY <1>0, AccumStep
  <1>2. \A k \in 1 .. Len(q) : a[k] = a[k - 1] + p[q[k]] /\ b[k] = b[k - 1] + u[q[k]]
    BY <1>0, AccumStep
  <1>3. \A k \in 0 .. Len(q) : a[k] \in Nat /\ b[k] \in Nat
    BY AccumType
  <1>4. \A k \in 1 .. Len(q) : p[q[k]] \in Nat /\ u[q[k]] \in Nat
    OBVIOUS
  <1> HIDE DEF a, b
  <1>5. 0 \in T
    BY <1>1
  <1>6. ASSUME NEW n \in T PROVE n + 1 \in T
    <2> SUFFICES ASSUME n + 1 <= Len(q) PROVE a[n + 1] * c <= b[n + 1] * d
      OBVIOUS
    <2>1. n \in Nat /\ n <= Len(q) /\ n + 1 \in 1 .. Len(q) /\ (n + 1) - 1 = n /\ n \in 0 .. Len(q)
      BY <1>0
    <2> DEFINE x == a[n]
               y == b[n]
               v == p[q[n + 1]]
               w == u[q[n + 1]]
    <2>2. a[n + 1] = x + v /\ b[n + 1] = y + w
      BY <1>2, <2>1
    <2>3. x \in Nat /\ y \in Nat /\ v \in Nat /\ w \in Nat
      BY <1>3, <1>4, <2>1
    <2>4. x * c <= y * d /\ v * c <= w * d
      BY <2>1
    <2> HIDE DEF x, y, v, w
    <2>5. (x + v) * c = x * c + v * c /\ (y + w) * d = y * d + w * d
      BY <2>3
    <2>6. x * c \in Nat /\ v * c \in Nat /\ y * d \in Nat /\ w * d \in Nat
      BY <2>3
    <2> QED
      BY <2>2, <2>4, <2>5, <2>6
  <1>7. T \in SUBSET Nat
    OBVIOUS
  <1> HIDE DEF T
  <1>8. T = Nat
    BY <1>5, <1>6, <1>7, Inductive
  <1>9. Len(q) \in T /\ Len(q) <= Len(q)
    BY <1>0, <1>8
  <1> QED
    BY <1>9 DEF T, a, b

(* Smaller values, smaller sums. *)
LEMMA SumLess ==
  ASSUME NEW p \in [Flows -> Nat], NEW u \in [Flows -> Nat], NEW n \in Nat,
         \A f \in Flows : p[f] <= u[f], SumAtMost(u, n)
  PROVE  SumAtMost(p, n)
  <1> SUFFICES ASSUME NEW q \in Seq(Flows), Distinct(q) PROVE Accum(q, p)[Len(q)] <= n
    BY DEF SumAtMost
  <1> DEFINE a == Accum(q, p)[Len(q)]
             b == Accum(q, u)[Len(q)]
  <1>1. \A k \in 1 .. Len(q) : q[k] \in Flows /\ p[q[k]] \in Nat /\ u[q[k]] \in Nat
    OBVIOUS
  <1>2. \A k \in 1 .. Len(q) : p[q[k]] * 1 <= u[q[k]] * 1
    BY <1>1
  <1>3. a * 1 <= b * 1
    BY <1>2, AccumScaled
  <1>4. Len(q) \in 0 .. Len(q)
    OBVIOUS
  <1>5. a \in Nat /\ b \in Nat
    BY <1>4, AccumType
  <1>6. b <= n
    BY DEF SumAtMost
  <1> HIDE DEF a, b
  <1>7. a <= n
    BY <1>3, <1>5, <1>6
  <1> QED
    BY <1>7 DEF a

(* One more for one flow, one more for the sum: no flow counts twice. *)
LEMMA SumOneMore ==
  ASSUME NEW p \in [Flows -> Nat], NEW u \in [Flows -> Nat], NEW n \in Nat, NEW g \in Flows,
         \A f \in Flows \ {g} : p[f] <= u[f], p[g] <= u[g] + 1, SumAtMost(u, n)
  PROVE  SumAtMost(p, n + 1)
  <1> SUFFICES ASSUME NEW q \in Seq(Flows), Distinct(q) PROVE Accum(q, p)[Len(q)] <= n + 1
    BY DEF SumAtMost
  <1> DEFINE a == Accum(q, p)
             b == Accum(q, u)
             Claim(m) == /\ a[m] <= b[m] + 1
                         /\ (\A j \in 1 .. m : q[j] # g) => a[m] <= b[m]
             T == {m \in Nat : m <= Len(q) => Claim(m)}
  <1>0. Len(q) \in Nat
    OBVIOUS
  <1>1. a[0] = 0 /\ b[0] = 0
    BY <1>0, AccumStep
  <1>2. \A k \in 1 .. Len(q) : a[k] = a[k - 1] + p[q[k]] /\ b[k] = b[k - 1] + u[q[k]]
    BY <1>0, AccumStep
  <1>3. \A k \in 0 .. Len(q) : a[k] \in Nat /\ b[k] \in Nat
    BY AccumType
  <1>4. \A k \in 1 .. Len(q) : q[k] \in Flows /\ p[q[k]] \in Nat /\ u[q[k]] \in Nat
    OBVIOUS
  <1> HIDE DEF a, b
  <1>5. 0 \in T
    BY <1>1
  <1>6. ASSUME NEW m \in T PROVE m + 1 \in T
    <2> SUFFICES ASSUME m + 1 <= Len(q) PROVE Claim(m + 1)
      OBVIOUS
    <2> DEFINE k == m + 1
    <2>1. m \in Nat /\ m <= Len(q) /\ k \in 1 .. Len(q) /\ k - 1 = m /\ m \in 0 .. Len(q)
      BY <1>0
    <2>2. Claim(m)
      BY <2>1
    <2>3. a[k] = a[m] + p[q[k]] /\ b[k] = b[m] + u[q[k]]
      BY <1>2, <2>1
    <2>4. a[m] \in Nat /\ b[m] \in Nat /\ p[q[k]] \in Nat /\ u[q[k]] \in Nat /\ q[k] \in Flows
      BY <1>3, <1>4, <2>1
    <2>5. k \in 1 .. k /\ \A j \in 1 .. m : j \in 1 .. k /\ j # k /\ j \in 1 .. Len(q)
      BY <1>0, <2>1
    <2> DEFINE x == a[m]
               y == b[m]
               v == p[q[k]]
               w == u[q[k]]
    <2>8. x \in Nat /\ y \in Nat /\ v \in Nat /\ w \in Nat /\ a[k] = x + v /\ b[k] = y + w
      BY <2>3, <2>4
    <2>6. CASE q[k] = g
      <3>1. \A j \in 1 .. m : q[j] # g
        BY <2>1, <2>5, <2>6 DEF Distinct
      <3>2. a[m] <= b[m]
        BY <2>2, <3>1
      <3>3. a[k] <= b[k] + 1
        <4>1. x <= y /\ v <= w + 1
          BY <2>6, <3>2
        <4> HIDE DEF x, y, v, w, k
        <4> QED
          BY <2>8, <4>1
      <3> HIDE DEF k
      <3>4. Claim(k)
        BY <2>5, <2>6, <3>3
      <3> QED
        BY <3>4 DEF k
    <2>7. CASE q[k] # g
      <3>1. p[q[k]] <= u[q[k]]
        BY <2>4, <2>7
      <3>2. a[k] <= b[k] + 1
        <4>1. x <= y + 1 /\ v <= w
          BY <2>2, <3>1
        <4> HIDE DEF x, y, v, w, k
        <4> QED
          BY <2>8, <4>1
      <3>3. ASSUME \A j \in 1 .. k : q[j] # g PROVE a[k] <= b[k]
        <4>0. \A j \in 1 .. m : q[j] # g
          BY <2>5, <3>3
        <4>1. x <= y /\ v <= w
          BY <2>2, <3>1, <4>0
        <4> HIDE DEF x, y, v, w, k
        <4> QED
          BY <2>8, <4>1
      <3> HIDE DEF k
      <3>4. Claim(k)
        BY <3>2, <3>3
      <3> QED
        BY <3>4 DEF k
    <2> QED
      BY <2>6, <2>7
  <1>7. T \in SUBSET Nat
    OBVIOUS
  <1> HIDE DEF T
  <1>8. T = Nat
    BY <1>5, <1>6, <1>7, Inductive
  <1>9. Len(q) \in T /\ Len(q) <= Len(q) /\ Len(q) \in 0 .. Len(q)
    BY <1>0, <1>8
  <1>10. a[Len(q)] <= b[Len(q)] + 1
    BY <1>9 DEF T
  <1>11. b[Len(q)] <= n
    BY DEF SumAtMost, b
  <1>12. a[Len(q)] \in Nat /\ b[Len(q)] \in Nat
    BY <1>3, <1>9
  <1>13. a[Len(q)] <= n + 1
    BY <1>10, <1>11, <1>12
  <1> QED
    BY <1>13 DEF a

(* Nothing adds up to nothing. *)
LEMMA SumZero ==
  ASSUME NEW p \in [Flows -> Nat], \A f \in Flows : p[f] = 0, NEW n \in Nat
  PROVE  SumAtMost(p, n)
  <1> SUFFICES ASSUME NEW q \in Seq(Flows), Distinct(q) PROVE Accum(q, p)[Len(q)] <= n
    BY DEF SumAtMost
  <1> DEFINE a == Accum(q, p)[Len(q)]
  <1>1. \A k \in 1 .. Len(q) : q[k] \in Flows
    OBVIOUS
  <1>2. \A k \in 1 .. Len(q) : p[q[k]] * 1 <= p[q[k]] * 0
    BY <1>1
  <1>3. a * 1 <= a * 0
    BY <1>2, AccumScaled
  <1>4. Len(q) \in 0 .. Len(q)
    OBVIOUS
  <1>5. a \in Nat
    BY <1>4, AccumType
  <1> HIDE DEF a
  <1>6. a <= n
    BY <1>3, <1>5
  <1> QED
    BY <1>6 DEF a

(* A quotient times the divisor. *)
LEMMA DivBelow ==
  ASSUME NEW x \in Nat, NEW n \in Nat \ {0}
  PROVE  x \div n \in Nat /\ (x \div n) * n <= x
  OBVIOUS

(* The shares of what adds up to the whole are together at most 1.0. *)
LEMMA SumShares ==
  ASSUME NEW p \in [Flows -> Nat], NEW w \in [Flows -> Nat], NEW n \in Nat \ {0},
         SumAtMost(p, n), \A f \in Flows : w[f] <= (p[f] * ONE) \div n
  PROVE  SumAtMost(w, ONE)
  <1> SUFFICES ASSUME NEW q \in Seq(Flows), Distinct(q) PROVE Accum(q, w)[Len(q)] <= ONE
    BY DEF SumAtMost
  <1> DEFINE a == Accum(q, w)[Len(q)]
             b == Accum(q, p)[Len(q)]
  <1>0. ONE \in Nat
    BY UnitAssumption
  <1>1. \A k \in 1 .. Len(q) : q[k] \in Flows
    OBVIOUS
  <1>2. ASSUME NEW f \in Flows PROVE w[f] * n <= p[f] * ONE
    <2> DEFINE x == p[f] * ONE
               d == x \div n
    <2>0. p[f] \in Nat
      OBVIOUS
    <2>1. x \in Nat
      BY <1>0, <2>0
    <2> HIDE DEF x
    <2>2. d \in Nat /\ d * n <= x
      BY <2>1, DivBelow
    <2>3. w[f] \in Nat /\ w[f] <= d
      BY DEF x
    <2> HIDE DEF d
    <2>4. w[f] * n <= d * n /\ w[f] * n \in Nat /\ d * n \in Nat
      BY <2>2, <2>3, Scale
    <2>5. w[f] * n <= x
      BY <2>1, <2>2, <2>4
    <2> QED
      BY <2>5 DEF x
  <1>3. a * n <= b * ONE
    BY <1>0, <1>1, <1>2, AccumScaled
  <1>4. Len(q) \in 0 .. Len(q)
    OBVIOUS
  <1>5. a \in Nat /\ b \in Nat
    BY <1>4, AccumType
  <1>6. b <= n
    BY DEF SumAtMost
  <1> HIDE DEF a, b
  <1>7. b * ONE <= n * ONE
    BY <1>0, <1>5, <1>6, Scale
  <1>8. a * n <= ONE * n
    <2>1. a * n \in Nat /\ b * ONE \in Nat /\ n * ONE \in Nat /\ ONE * n = n * ONE
      BY <1>0, <1>5
    <2> QED
      BY <1>3, <1>7, <2>1
  <1>9. a <= ONE
    <2> SUFFICES ASSUME ONE + 1 <= a PROVE FALSE
      BY <1>0, <1>5
    <2>1. (ONE + 1) * n <= a * n
      BY <1>0, <1>5, Scale
    <2>2. (ONE + 1) * n = ONE * n + n /\ ONE * n \in Nat
      BY <1>0
    <2> QED
      BY <1>5, <1>8, <2>1, <2>2
  <1> QED
    BY <1>9 DEF a

-----------------------------------------------------------------------------
(* The shares of one epoch.                                                 *)

SeenIn(e) == {f \in Flows : seen[f] = e}
InHand == pc \in {"refresh", "record"}

(* The share a flow has, or will have at its first packet of this epoch. *)
ShareDue(sn, e, pr, by, ob) ==
    [f \in Flows |->
        IF sn[f] = e THEN pr[f]
        ELSE IF ob # 0 /\ sn[f] = e - 1 THEN (by[f] * ONE) \div ob ELSE 0]

Due == ShareDue(seen, epoch, prob, bytes, old_bytes)

(* A flow without a packet has no share. *)
FreshInv ==
    /\ window \in [1 .. 2 -> BOOLEAN]
    /\ \A f \in Flows \ table : prob[f] = 0

(* Bytes counted for the current epoch are in the shard's count. *)
CountInv ==
    cpc \in {"copy", "order", "idle"} => SumAtMost(Part(SeenIn(epoch), bytes), count)

(* If no packet came since the swap, nothing is recorded or in hand, and    *)
(* the bytes of the epoch that ends are in the count that was swapped out.  *)
QuietInv ==
    Closing /\ ~window[2] =>
        /\ flows3 = {} /\ ~InHand
        /\ cpc # "copy" => SumAtMost(Part(SeenIn(epoch), bytes), old_bytes)
        /\ cpc = "copy" => /\ SumAtMost(Part(SeenIn(epoch - 1), bytes), old_bytes)
                           /\ SeenIn(epoch) = {}

(* After a quiet swap, all that is recorded has a share of the last epoch.  *)
DueInv ==
    ~Closing /\ ~window[2] =>
        /\ SumAtMost(Due, ONE)
        /\ flows3 \subseteq SeenIn(epoch)
        /\ InHand => local_epoch = epoch
        /\ pc = "record" => flow \in SeenIn(epoch)

(* After two quiet swaps the retired flows have shares of one epoch. *)
RetiredInv ==
    ~window[1] /\ ~window[2] =>
        /\ Closing => SumAtMost(Part(retired, prob), ONE)
        /\ cpc = "order" => SumAtMost(Part(retired, prob2), ONE)

(* All that is known of the shares while packets come and epochs end. *)
SharesInv ==
    FreshInv /\ CountInv /\ QuietInv /\ DueInv /\ RetiredInv /\ SharesOfOneEpoch

(* What is summed up is natural. *)
LEMMA PartType ==
  ASSUME NEW S, NEW p \in [Flows -> Nat] PROVE Part(S, p) \in [Flows -> Nat]
  BY DEF Part

(* A share that is due is natural: nothing is divided by 0. *)
LEMMA ShareDueType ==
  ASSUME NEW sn, NEW e, NEW pr \in [Flows -> Nat], NEW by \in [Flows -> Nat], NEW ob \in Nat
  PROVE  ShareDue(sn, e, pr, by, ob) \in [Flows -> Nat]
  <1>1. ASSUME NEW f \in Flows, ob # 0 PROVE (by[f] * ONE) \div ob \in Nat
    <2>1. by[f] \in Nat /\ ONE \in Nat
      BY UnitAssumption
    <2>2. by[f] * ONE \in Nat /\ ob \in Nat \ {0}
      BY <1>1, <2>1
    <2> QED
      BY <2>2, DivBelow
  <1> QED
    BY <1>1 DEF ShareDue

(* The types the sums need. *)
LEMMA Naturals ==
  ASSUME TypeInv
  PROVE  /\ bytes \in [Flows -> Nat] /\ prob \in [Flows -> Nat] /\ prob2 \in [Flows -> Nat]
         /\ count \in Nat /\ old_bytes \in Nat /\ ONE \in Nat /\ epoch \in Nat
         /\ DOMAIN seen = Flows /\ \A f \in Flows : seen[f] \in Nat /\ seen[f] <= epoch
  BY UnitAssumption DEF TypeInv, TypeOK

(* Two flags. *)
LEMMA Flags ==
  ASSUME NEW a \in BOOLEAN, NEW b \in BOOLEAN PROVE <<a, b>> \in [1 .. 2 -> BOOLEAN]
  OBVIOUS

(* A packet that comes while the controller closes an epoch marks it. *)
LEMMA TouchMarks ==
  ASSUME FreshInv, Touch
  PROVE  /\ window' \in [1 .. 2 -> BOOLEAN]
         /\ Closing => window'[2] = TRUE
         /\ ~Closing => window' = window
  <1>1. window \in [1 .. 2 -> BOOLEAN]
    BY DEF FreshInv
  <1>2. CASE ~Closing
    BY <1>1, <1>2 DEF Touch
  <1>3. CASE Closing
    <2>1. window' = [window EXCEPT ![2] = TRUE]
      BY <1>3 DEF Touch
    <2> QED
      BY <1>1, <1>3, <2>1
  <1> QED
    BY <1>2, <1>3

(* Only the counts, the shares due and new flows are at stake when the core *)
(* handles a packet.                                                        *)
LEMMA PacketStep ==
  ASSUME SharesInv, Touch, UNCHANGED <<cpc, ordered_flows, prob2, retired>>,
         \A f \in Flows \ table' : prob'[f] = 0,
         CountInv', DueInv'
  PROVE  SharesInv'
  <1>1. /\ window' \in [1 .. 2 -> BOOLEAN] /\ Closing' = Closing
        /\ Closing => window'[2] = TRUE
        /\ ~Closing => window' = window
    BY TouchMarks DEF SharesInv, Closing
  <1>2. FreshInv'
    BY <1>1 DEF FreshInv
  <1>3. QuietInv'
    BY <1>1 DEF QuietInv
  <1>4. RetiredInv'
    BY <1>1 DEF RetiredInv, SharesInv, Closing
  <1>5. SharesOfOneEpoch'
    BY <1>1 DEF SharesOfOneEpoch, SharesInv, Closing
  <1> QED
    BY <1>2, <1>3, <1>4, <1>5 DEF SharesInv

(* The first packet of a flow puts it into the table, without a share. *)
LEMMA SharesFirstPacket ==
  ASSUME TypeInv, TypeInv', SharesInv, NEW g \in Flows, FirstPacket(g)
  PROVE  SharesInv'
  <1> DEFINE p == Part(SeenIn(epoch), bytes)'
             u == Part(SeenIn(epoch), bytes)
             d == Due'
  <1>0. /\ seen' = [seen EXCEPT ![g] = epoch] /\ bytes' = [bytes EXCEPT ![g] = 1]
        /\ count' = count + 1 /\ pc' = "top" /\ table' = table \union {g} /\ g \notin table
        /\ UNCHANGED <<prob, prob2, cdf, ordered_flows, flows3, retired, epoch, old_bytes, cpc>>
        /\ Touch
    BY DEF FirstPacket, ordvars, epochvars
  <1>1. /\ DOMAIN seen = Flows /\ bytes \in [Flows -> Nat] /\ prob \in [Flows -> Nat]
        /\ old_bytes \in Nat /\ count \in Nat /\ ONE \in Nat
    BY Naturals
  <1>b. bytes' \in [Flows -> Nat] /\ prob' \in [Flows -> Nat] /\ old_bytes' \in Nat
    BY <1>0, <1>1
  <1>t. p \in [Flows -> Nat] /\ u \in [Flows -> Nat] /\ count \in Nat
        /\ d \in [Flows -> Nat] /\ Due \in [Flows -> Nat] /\ ONE \in Nat
    BY <1>1, <1>b, PartType, ShareDueType DEF Due
  <1>2. \A f \in Flows \ {g} : p[f] = u[f]
    BY <1>0, <1>1 DEF Part, SeenIn
  <1>3. p[g] = 1
    BY <1>0, <1>1 DEF Part, SeenIn
  <1>4. \A f \in Flows \ {g} : d[f] = Due[f]
    BY <1>0, <1>1 DEF Due, ShareDue
  <1>5. d[g] = 0
    <2>1. prob[g] = 0
      BY <1>0 DEF SharesInv, FreshInv
    <2> QED
      BY <1>0, <1>1, <2>1 DEF Due, ShareDue
  <1> HIDE DEF p, u, d
  <1>6. p[g] <= u[g] + 1 /\ \A f \in Flows \ {g} : p[f] <= u[f]
    BY <1>2, <1>3, <1>t
  <1>7. \A f \in Flows : d[f] <= Due[f]
    <2>1. ASSUME NEW f \in Flows PROVE d[f] <= Due[f]
      <3>1. Due[f] \in Nat
        BY <1>t
      <3> QED
        BY <1>4, <1>5, <3>1
    <2> QED
      BY <2>1
  <1>8. CountInv'
    <2>1. SumAtMost(u, count) => SumAtMost(p, count + 1)
      BY <1>6, <1>t, SumOneMore
    <2> QED
      BY <1>0, <2>1 DEF CountInv, SharesInv, p, u
  <1>9. DueInv'
    <2>1. CASE Closing
      BY <1>0, <2>1 DEF DueInv, Closing
    <2>2. CASE ~Closing
      <3>1. window' = window
        BY <1>0, <2>2, TouchMarks DEF SharesInv
      <3>2. SumAtMost(Due, ONE) => SumAtMost(d, ONE)
        BY <1>7, <1>t, SumLess
      <3>3. SeenIn(epoch) \subseteq SeenIn(epoch)'
        BY <1>0, <1>1 DEF SeenIn
      <3> QED
        BY <1>0, <2>2, <3>1, <3>2, <3>3 DEF DueInv, SharesInv, Closing, InHand, d
    <2> QED
      BY <2>1, <2>2
  <1>10. \A f \in Flows \ table' : prob'[f] = 0
    BY <1>0 DEF SharesInv, FreshInv
  <1> QED
    BY <1>0, <1>8, <1>9, <1>10, PacketStep

(* A core reads the epoch. *)
LEMMA SharesLoadEpoch ==
  ASSUME TypeInv, TypeInv', SharesInv, NEW g \in Flows, LoadEpoch(g)
  PROVE  SharesInv'
  <1>0. /\ local_epoch' = epoch /\ pc' = "refresh" /\ Touch
        /\ UNCHANGED <<table, seen, bytes, prob, prob2, cdf, ordered_flows, flows3, retired, count,
                       epoch, old_bytes, cpc>>
    BY DEF LoadEpoch, flowvars, ordvars, shardvars, epochvars
  <1>1. CountInv'
    BY <1>0 DEF CountInv, SharesInv, SeenIn, Part
  <1>2. DueInv'
    <2>1. CASE Closing
      BY <1>0, <2>1 DEF DueInv, Closing
    <2>2. CASE ~Closing
      <3>1. window' = window
        BY <1>0, <2>2, TouchMarks DEF SharesInv
      <3>2. Due' = Due /\ SeenIn(epoch)' = SeenIn(epoch)
        BY <1>0 DEF Due, SeenIn
      <3> QED
        BY <1>0, <2>2, <3>1, <3>2 DEF DueInv, SharesInv, Closing, InHand
    <2> QED
      BY <2>1, <2>2
  <1>3. \A f \in Flows \ table' : prob'[f] = 0
    BY <1>0 DEF SharesInv, FreshInv
  <1> QED
    BY <1>0, <1>1, <1>2, <1>3, PacketStep

(* A flow's first packet of the epoch gives it the share that was due. *)
LEMMA SharesRefresh ==
  ASSUME TypeInv, TypeInv', SharesInv, Refresh
  PROVE  SharesInv'
  <1> DEFINE p == Part(SeenIn(epoch), bytes)'
             u == Part(SeenIn(epoch), bytes)
  <1>0. /\ pc = "refresh" /\ pc' = "record" /\ Touch
        /\ UNCHANGED <<table, prob2, cdf, ordered_flows, flows3, retired, count, epoch, old_bytes,
                       cpc, flow, local_epoch>>
    BY DEF Refresh, flowvars, ordvars, shardvars, epochvars
  <1>1. /\ DOMAIN seen = Flows /\ bytes \in [Flows -> Nat] /\ prob \in [Flows -> Nat]
        /\ old_bytes \in Nat /\ count \in Nat /\ ONE \in Nat
    BY Naturals
  <1>b. bytes' \in [Flows -> Nat] /\ prob' \in [Flows -> Nat] /\ old_bytes' \in Nat
    BY <1>0, <1>1 DEF TypeInv, TypeOK
  <1>2. flow \in Flows /\ flow \in table
    BY <1>0 DEF TypeInv, TypeOK, Held
  <1>3. \/ seen[flow] = local_epoch /\ UNCHANGED flowvars
        \/ /\ seen[flow] # local_epoch
           /\ seen' = [seen EXCEPT ![flow] = local_epoch]
           /\ bytes' = [bytes EXCEPT ![flow] = 0]
           /\ prob' = [prob EXCEPT ![flow] =
                         IF old_bytes # 0 /\ seen[flow] = local_epoch - 1
                         THEN (bytes[flow] * ONE) \div old_bytes ELSE 0]
    BY DEF Refresh
  <1>t. p \in [Flows -> Nat] /\ u \in [Flows -> Nat] /\ count \in Nat
    BY <1>1, <1>b, PartType
  <1>4. CountInv'
    <2>1. \A f \in Flows \ {flow} : p[f] = u[f]
      BY <1>0, <1>1, <1>2, <1>3 DEF Part, SeenIn, flowvars
    <2>2. p[flow] = u[flow] \/ p[flow] = 0
      BY <1>0, <1>1, <1>2, <1>3 DEF Part, SeenIn, flowvars
    <2> HIDE DEF p, u
    <2>3. ASSUME NEW f \in Flows PROVE p[f] <= u[f]
      <3>1. u[f] \in Nat
        BY <1>t
      <3> QED
        BY <2>1, <2>2, <3>1
    <2>4. SumAtMost(u, count) => SumAtMost(p, count)
      BY <1>t, <2>3, SumLess
    <2> QED
      BY <1>0, <2>4 DEF CountInv, SharesInv, p, u
  <1>5. DueInv'
    <2>1. CASE Closing
      BY <1>0, <2>1 DEF DueInv, Closing
    <2>2. CASE ~Closing
      <3>1. window' = window
        BY <1>0, <2>2, TouchMarks DEF SharesInv
      <3> SUFFICES ASSUME ~window[2]
                   PROVE  /\ SumAtMost(Due, ONE)' /\ flows3' \subseteq SeenIn(epoch)'
                          /\ local_epoch' = epoch' /\ flow' \in SeenIn(epoch)'
        BY <3>1 DEF DueInv
      <3>2. /\ local_epoch = epoch /\ flows3 \subseteq SeenIn(epoch) /\ SumAtMost(Due, ONE)
        BY <1>0, <2>2 DEF DueInv, SharesInv, InHand
      <3>3. ASSUME NEW f \in Flows PROVE Due'[f] = Due[f]
        <4>1. CASE f # flow
          BY <1>0, <1>1, <1>2, <1>3, <4>1 DEF Due, ShareDue, flowvars
        <4>2. CASE f = flow
          BY <1>0, <1>1, <1>2, <1>3, <3>2, <4>2 DEF Due, ShareDue, flowvars
        <4> QED
          BY <4>1, <4>2
      <3>4. Due' = Due
        <4>1. Due' \in [Flows -> Nat] /\ Due \in [Flows -> Nat]
          BY <1>1, <1>b, ShareDueType DEF Due
        <4> QED
          BY <3>3, <4>1
      <3>5. SeenIn(epoch) \subseteq SeenIn(epoch)' /\ flow \in SeenIn(epoch)'
        BY <1>0, <1>1, <1>2, <1>3, <3>2 DEF SeenIn, flowvars
      <3> QED
        BY <1>0, <3>2, <3>4, <3>5
    <2> QED
      BY <2>1, <2>2
  <1>6. \A f \in Flows \ table' : prob'[f] = 0
    BY <1>0, <1>1, <1>2, <1>3 DEF SharesInv, FreshInv, flowvars
  <1> QED
    BY <1>0, <1>4, <1>5, <1>6, PacketStep

(* A packet is counted and the flow recorded. *)
LEMMA SharesRecord ==
  ASSUME TypeInv, TypeInv', SharesInv, Record
  PROVE  SharesInv'
  <1> DEFINE p == Part(SeenIn(epoch), bytes)'
             u == Part(SeenIn(epoch), bytes)
  <1>0. /\ pc = "record" /\ pc' = "top" /\ Touch /\ flows3' = flows3 \union {flow}
        /\ bytes' = [bytes EXCEPT ![flow] = @ + 1] /\ count' = count + 1
        /\ UNCHANGED <<table, seen, prob, prob2, cdf, ordered_flows, retired, epoch, old_bytes, cpc>>
    BY DEF Record, ordvars, epochvars
  <1>1. DOMAIN seen = Flows /\ bytes \in [Flows -> Nat] /\ count \in Nat
    BY Naturals
  <1>2. flow \in Flows
    BY <1>0 DEF TypeInv, TypeOK, Held
  <1>b. bytes' \in [Flows -> Nat]
    BY <1>0, <1>1, <1>2
  <1>t. p \in [Flows -> Nat] /\ u \in [Flows -> Nat] /\ count \in Nat
    BY <1>1, <1>b, PartType
  <1>3. CountInv'
    <2>1. \A f \in Flows \ {flow} : p[f] = u[f]
      BY <1>0, <1>1, <1>2 DEF Part, SeenIn
    <2>2. p[flow] = u[flow] \/ p[flow] = u[flow] + 1
      BY <1>0, <1>1, <1>2 DEF Part, SeenIn
    <2> HIDE DEF p, u
    <2>3. p[flow] <= u[flow] + 1 /\ \A f \in Flows \ {flow} : p[f] <= u[f]
      <3>1. \A f \in Flows : u[f] \in Nat
        BY <1>t
      <3> QED
        BY <1>2, <2>1, <2>2, <3>1
    <2>4. SumAtMost(u, count) => SumAtMost(p, count + 1)
      BY <1>2, <1>t, <2>3, SumOneMore
    <2> QED
      BY <1>0, <2>4 DEF CountInv, SharesInv, p, u
  <1>4. DueInv'
    <2>1. CASE Closing
      BY <1>0, <2>1 DEF DueInv, Closing
    <2>2. CASE ~Closing
      <3>1. window' = window
        BY <1>0, <2>2, TouchMarks DEF SharesInv
      <3> SUFFICES ASSUME ~window[2]
                   PROVE  SumAtMost(Due, ONE)' /\ flows3' \subseteq SeenIn(epoch)'
        BY <1>0, <3>1 DEF DueInv, InHand
      <3>2. flow \in SeenIn(epoch) /\ flows3 \subseteq SeenIn(epoch) /\ SumAtMost(Due, ONE)
        BY <1>0, <2>2 DEF DueInv, SharesInv
      <3>3. Due' = Due
        <4>1. \A f \in Flows : seen[f] # epoch => bytes'[f] = bytes[f]
          BY <1>0, <1>1, <3>2 DEF SeenIn
        <4> QED
          BY <1>0, <4>1 DEF Due, ShareDue
      <3>4. SeenIn(epoch)' = SeenIn(epoch)
        BY <1>0 DEF SeenIn
      <3> QED
        BY <1>0, <3>2, <3>3, <3>4
    <2> QED
      BY <2>1, <2>2
  <1>5. \A f \in Flows \ table' : prob'[f] = 0
    BY <1>0 DEF SharesInv, FreshInv
  <1> QED
    BY <1>0, <1>3, <1>4, <1>5, PacketStep

(* Steps that move neither flows nor packets: the core looks at its signal  *)
(* and its ratio, the controller asks the solver.                           *)
LEMMA SharesIdle ==
  ASSUME SharesInv, UNCHANGED <<flowvars, ordvars, shardvars, epochvars, flow, local_epoch, window>>,
         InHand' = InHand, pc' # "record" \/ pc = "record",
         \/ cpc' = cpc
         \/ cpc \in {"solve", "ratio", "signal"} /\ cpc' \in {"ratio", "signal", "inc"}
  PROVE  SharesInv'
  <1>1. /\ UNCHANGED <<table, seen, bytes, prob, prob2, ordered_flows, flows3, retired, count,
                       epoch, old_bytes, flow, local_epoch, window>>
    BY DEF flowvars, ordvars, shardvars, epochvars
  <1>2. Closing' = Closing
    BY DEF Closing
  <1>3. SeenIn(epoch)' = SeenIn(epoch) /\ SeenIn(epoch - 1)' = SeenIn(epoch - 1) /\ Due' = Due
    BY <1>1 DEF SeenIn, Due
  <1>4. FreshInv'
    BY <1>1 DEF FreshInv, SharesInv
  <1>5. CountInv'
    BY <1>1, <1>3 DEF CountInv, SharesInv
  <1>6. QuietInv'
    BY <1>1, <1>2, <1>3 DEF QuietInv, SharesInv
  <1>7. DueInv'
    BY <1>1, <1>2, <1>3 DEF DueInv, SharesInv
  <1>8. RetiredInv'
    BY <1>1, <1>2 DEF RetiredInv, SharesInv
  <1>9. SharesOfOneEpoch'
    BY <1>1 DEF SharesOfOneEpoch, SharesInv
  <1> QED
    BY <1>4, <1>5, <1>6, <1>7, <1>8, <1>9 DEF SharesInv

(* swap_shards: the flows recorded have the shares that were due. *)
LEMMA SharesSwap ==
  ASSUME TypeInv, SharesInv, Swap PROVE SharesInv'
  <1>0. /\ cpc = "idle" /\ cpc' = "solve" /\ retired' = flows3 /\ flows3' = {}
        /\ old_bytes' = count /\ count' = 0 /\ window' = <<window[2], InHand>>
        /\ UNCHANGED <<table, seen, bytes, prob, prob2, ordered_flows, pc, flow, local_epoch, epoch>>
    BY DEF Swap, flowvars, ordvars, corevars, InHand
  <1>1. ~Closing /\ Closing' /\ InHand' = InHand /\ InHand \in BOOLEAN
    BY <1>0 DEF Closing, InHand
  <1>2. window \in [1 .. 2 -> BOOLEAN] /\ window'[1] = window[2] /\ window'[2] = InHand
    BY <1>0 DEF SharesInv, FreshInv
  <1>3. SeenIn(epoch)' = SeenIn(epoch)
    BY <1>0 DEF SeenIn
  <1>4. FreshInv'
    <2>1. window' \in [1 .. 2 -> BOOLEAN]
      <3>1. window[2] \in BOOLEAN
        BY <1>2
      <3> QED
        BY <1>0, <1>1, <3>1
    <2> QED
      BY <1>0, <2>1 DEF SharesInv, FreshInv
  <1>5. CountInv' /\ DueInv' /\ SharesOfOneEpoch'
    BY <1>0, <1>1 DEF CountInv, DueInv, SharesOfOneEpoch
  <1>6. QuietInv'
    BY <1>0, <1>1, <1>2, <1>3 DEF QuietInv, CountInv, SharesInv
  <1>7. RetiredInv'
    <2> SUFFICES ASSUME ~window[2] PROVE SumAtMost(Part(flows3, prob), ONE)
      BY <1>0, <1>2 DEF RetiredInv
    <2>1. SumAtMost(Due, ONE) /\ flows3 \subseteq SeenIn(epoch)
      BY <1>1 DEF SharesInv, DueInv
    <2>2. prob \in [Flows -> Nat] /\ bytes \in [Flows -> Nat] /\ old_bytes \in Nat /\ ONE \in Nat
      BY Naturals
    <2>3. Due \in [Flows -> Nat] /\ Part(flows3, prob) \in [Flows -> Nat]
      BY <2>2, PartType, ShareDueType DEF Due
    <2>4. \A f \in Flows : f \in flows3 => Due[f] = prob[f]
      BY <2>1 DEF Due, ShareDue, SeenIn
    <2>5. ASSUME NEW f \in Flows PROVE Part(flows3, prob)[f] <= Due[f]
      <3>1. Part(flows3, prob)[f] = IF f \in flows3 THEN prob[f] ELSE 0
        BY DEF Part
      <3>2. Due[f] \in Nat
        BY <2>3
      <3> QED
        BY <2>4, <3>1, <3>2
    <2> QED
      BY <2>1, <2>2, <2>3, <2>5, SumLess
  <1> QED
    BY <1>4, <1>5, <1>6, <1>7 DEF SharesInv

(* The epoch counter moves: no flow has been seen in the new epoch. *)
LEMMA SharesInc ==
  ASSUME TypeInv, SharesInv, Inc PROVE SharesInv'
  <1>0. /\ cpc = "inc" /\ cpc' = "copy" /\ epoch' = epoch + 1
        /\ UNCHANGED <<table, seen, bytes, prob, prob2, ordered_flows, flows3, retired, count,
                       old_bytes, pc, flow, local_epoch, window>>
    BY DEF Inc, flowvars, ordvars, shardvars, corevars
  <1>1. Closing /\ Closing' /\ InHand' = InHand
    BY <1>0 DEF Closing, InHand
  <1>2. /\ bytes \in [Flows -> Nat] /\ count \in Nat /\ epoch \in Nat /\ DOMAIN seen = Flows
        /\ \A f \in Flows : seen[f] \in Nat /\ seen[f] <= epoch
    BY Naturals
  <1>3. SeenIn(epoch)' = {}
    BY <1>0, <1>2 DEF SeenIn
  <1>4. SeenIn(epoch - 1)' = SeenIn(epoch)
    <2>1. epoch' - 1 = epoch
      BY <1>0, <1>2
    <2> QED
      BY <1>0, <2>1 DEF SeenIn
  <1>5. CountInv'
    <2> DEFINE p == Part({}, bytes)
    <2>1. p \in [Flows -> Nat] /\ \A f \in Flows : p[f] = 0
      BY <1>2, PartType DEF Part
    <2> HIDE DEF p
    <2>2. SumAtMost(p, count)
      BY <1>2, <2>1, SumZero
    <2> QED
      BY <1>0, <1>3, <2>2 DEF CountInv, p
  <1>6. QuietInv'
    BY <1>0, <1>1, <1>3, <1>4 DEF QuietInv, SharesInv
  <1>7. FreshInv' /\ DueInv' /\ SharesOfOneEpoch'
    BY <1>0, <1>1 DEF SharesInv, FreshInv, DueInv, SharesOfOneEpoch
  <1>8. RetiredInv'
    BY <1>0, <1>1 DEF RetiredInv, SharesInv
  <1> QED
    BY <1>5, <1>6, <1>7, <1>8 DEF SharesInv

(* order_shards copies the shares, and the bytes of the epoch that ended    *)
(* become the shares due in the new one.                                    *)
LEMMA SharesCopy ==
  ASSUME TypeInv, SharesInv, Copy PROVE SharesInv'
  <1>0. /\ cpc = "copy" /\ cpc' = "order"
        /\ prob2' = [f \in Flows |-> IF f \in retired THEN prob[f] ELSE prob2[f]]
        /\ UNCHANGED <<table, seen, bytes, prob, ordered_flows, flows3, retired, count,
                       epoch, old_bytes, pc, flow, local_epoch, window>>
    BY DEF Copy, flowvars, shardvars, epochvars, corevars
  <1>1. Closing /\ ~Closing' /\ InHand' = InHand
    BY <1>0 DEF Closing, InHand
  <1>2. /\ bytes \in [Flows -> Nat] /\ prob \in [Flows -> Nat] /\ count \in Nat
        /\ old_bytes \in Nat /\ ONE \in Nat
    BY Naturals
  <1>3. SeenIn(epoch)' = SeenIn(epoch) /\ Due' = Due
    BY <1>0 DEF SeenIn, Due
  <1>4. CountInv'
    BY <1>0, <1>3 DEF CountInv, SharesInv
  <1>5. DueInv'
    <2> SUFFICES ASSUME ~window[2]
                 PROVE  SumAtMost(Due, ONE) /\ flows3 \subseteq SeenIn(epoch) /\ ~InHand
      BY <1>0, <1>1, <1>3 DEF DueInv, InHand
    <2>1. /\ flows3 = {} /\ ~InHand /\ SeenIn(epoch) = {}
          /\ SumAtMost(Part(SeenIn(epoch - 1), bytes), old_bytes)
      BY <1>0, <1>1 DEF QuietInv, SharesInv
    <2> DEFINE p == Part(SeenIn(epoch - 1), bytes)
    <2>2. p \in [Flows -> Nat] /\ Due \in [Flows -> Nat]
      BY <1>2, PartType, ShareDueType DEF Due
    <2>3. SumAtMost(Due, ONE)
      <3>1. CASE old_bytes = 0
        <4>1. \A f \in Flows : Due[f] = 0
          BY <2>1, <3>1 DEF Due, ShareDue, SeenIn
        <4> QED
          BY <1>2, <2>2, <4>1, SumZero
      <3>2. CASE old_bytes # 0
        <4>1. old_bytes \in Nat \ {0}
          BY <1>2, <3>2
        <4>2. ASSUME NEW f \in Flows PROVE Due[f] <= (p[f] * ONE) \div old_bytes
          <5>1. p[f] \in Nat
            BY <2>2
          <5>2. p[f] * ONE \in Nat
            BY <1>2, <5>1
          <5>3. (p[f] * ONE) \div old_bytes \in Nat
            BY <4>1, <5>2, DivBelow
          <5>4. CASE seen[f] = epoch - 1
            <6>1. p[f] = bytes[f] /\ seen[f] # epoch
              BY <2>1, <5>4 DEF Part, SeenIn
            <6>2. Due[f] = (p[f] * ONE) \div old_bytes
              BY <3>2, <5>4, <6>1 DEF Due, ShareDue
            <6> QED
              BY <5>3, <6>2
          <5>5. CASE seen[f] # epoch - 1
            <6>1. Due[f] = 0
              BY <2>1, <5>5 DEF Due, ShareDue, SeenIn
            <6> QED
              BY <5>3, <6>1
          <5> QED
            BY <5>4, <5>5
        <4> HIDE DEF p
        <4>3. SumAtMost(p, old_bytes)
          BY <2>1 DEF p
        <4> QED
          BY <2>2, <4>1, <4>2, <4>3, SumShares
      <3> QED
        BY <3>1, <3>2
    <2> QED
      BY <2>1, <2>3
  <1>6. RetiredInv'
    <2>1. Part(retired, prob2)' = Part(retired, prob)
      BY <1>0 DEF Part
    <2> QED
      BY <1>0, <1>1, <2>1 DEF RetiredInv, SharesInv
  <1>7. FreshInv' /\ QuietInv' /\ SharesOfOneEpoch'
    BY <1>0, <1>1 DEF SharesInv, FreshInv, QuietInv, SharesOfOneEpoch
  <1> QED
    BY <1>4, <1>5, <1>6, <1>7 DEF SharesInv

(* The ordering is one of the retired flows, each once. *)
LEMMA SharesOrder ==
  ASSUME TypeInv, SharesInv, Order PROVE SharesInv'
  <1> DEFINE q == ordered_flows'
  <1>0. /\ cpc = "order" /\ cpc' = "idle"
        /\ UNCHANGED <<table, seen, bytes, prob, prob2, flows3, count, epoch, old_bytes, pc, flow,
                       local_epoch, window>>
    BY DEF Order, flowvars, epochvars, corevars
  <1>1. ~Closing /\ ~Closing' /\ InHand' = InHand
    BY <1>0 DEF Closing, InHand
  <1>2. SeenIn(epoch)' = SeenIn(epoch) /\ Due' = Due
    BY <1>0 DEF SeenIn, Due
  <1>3. FreshInv' /\ CountInv' /\ QuietInv' /\ DueInv'
    BY <1>0, <1>1, <1>2 DEF SharesInv, FreshInv, CountInv, QuietInv, DueInv
  <1>4. RetiredInv'
    BY <1>0, <1>1 DEF RetiredInv
  <1>5. SharesOfOneEpoch'
    <2> SUFFICES ASSUME ~window[1], ~window[2]
                 PROVE  Accum(q, prob2)[Len(q)] <= ONE
      BY <1>0 DEF SharesOfOneEpoch
    <2> DEFINE p == Part(retired, prob2)
               a == Accum(q, prob2)[Len(q)]
               b == Accum(q, p)[Len(q)]
    <2>1. prob2 \in [Flows -> Nat] /\ p \in [Flows -> Nat] /\ ONE \in Nat
      BY Naturals, PartType
    <2>2. SumAtMost(p, ONE)
      BY <1>0 DEF RetiredInv, SharesInv
    <2>3. /\ q \in Seq(Flows) /\ \A k \in 1 .. Len(q) : q[k] \in retired
          /\ \A j, k \in 1 .. Len(q) : j < k => q[j] # q[k]
      BY OrderPlaces
    <2> HIDE DEF q
    <2>4. Len(q) \in Nat /\ Len(q) \in 0 .. Len(q)
      BY <2>3
    <2>5. Distinct(q)
      BY <2>3, <2>4 DEF Distinct
    <2>6. \A k \in 1 .. Len(q) : q[k] \in Flows
      BY <2>3
    <2>7. \A k \in 1 .. Len(q) : prob2[q[k]] * 1 <= p[q[k]] * 1
      <3>1. ASSUME NEW k \in 1 .. Len(q) PROVE prob2[q[k]] * 1 <= p[q[k]] * 1
        <4>1. p[q[k]] = prob2[q[k]] /\ prob2[q[k]] \in Nat
          BY <2>1, <2>3, <2>6 DEF Part
        <4> QED
          BY <4>1
      <3> QED
        BY <3>1
    <2> HIDE DEF p
    <2>8. a * 1 <= b * 1
      BY <2>1, <2>3, <2>7, AccumScaled
    <2>9. a \in Nat /\ b \in Nat
      BY <2>1, <2>3, <2>4, AccumType
    <2>10. b <= ONE
      BY <2>2, <2>3, <2>5 DEF SumAtMost
    <2> HIDE DEF a, b
    <2>11. a <= ONE
      BY <2>1, <2>8, <2>9, <2>10
    <2> QED
      BY <2>11 DEF a
  <1> QED
    BY <1>3, <1>4, <1>5 DEF SharesInv

(* Between two swaps no packet disturbs, the shares in an ordering add up   *)
(* to at most 1.0, for any number of flows and of packets.                  *)
THEOREM SharesCorrect == Spec => []SharesOfOneEpoch
  <1>1. Init => SharesInv
    <2> SUFFICES ASSUME Init PROVE SharesInv
      OBVIOUS
    <2>0. ONE \in Nat
      BY UnitAssumption
    <2> DEFINE z == [f \in Flows |-> 0]
    <2>1. z \in [Flows -> Nat] /\ \A f \in Flows : z[f] = 0
      OBVIOUS
    <2>2. Due = z /\ Part(SeenIn(epoch), bytes) = z
      BY DEF Init, Due, ShareDue, Part, SeenIn
    <2> HIDE DEF z
    <2>3. SumAtMost(z, 0) /\ SumAtMost(z, ONE)
      BY <2>0, <2>1, SumZero
    <2>4. FreshInv /\ QuietInv /\ RetiredInv
      <3>1. <<FALSE, FALSE>> \in [1 .. 2 -> BOOLEAN]
        BY Flags
      <3>2. FreshInv
        BY <3>1 DEF Init, FreshInv
      <3>3. ~Closing /\ cpc # "order"
        BY DEF Init, Closing
      <3> QED
        BY <3>2, <3>3 DEF QuietInv, RetiredInv
    <2>5. CountInv /\ DueInv
      BY <2>2, <2>3 DEF Init, CountInv, DueInv, InHand
    <2>6. SharesOfOneEpoch
      <3>1. ordered_flows = <<>> /\ Len(ordered_flows) = 0
        BY DEF Init
      <3>2. Accum(ordered_flows, prob2)[0] = 0
        BY <3>1, AccumStep
      <3> QED
        BY <2>0, <3>1, <3>2 DEF SharesOfOneEpoch
    <2> QED
      BY <2>4, <2>5, <2>6 DEF SharesInv
  <1>2. TypeInv /\ TypeInv' /\ SharesInv /\ [Next]_vars => SharesInv'
    <2> SUFFICES ASSUME TypeInv, TypeInv', SharesInv, [Next]_vars PROVE SharesInv'
      OBVIOUS
    <2>1. CASE UNCHANGED vars
      BY <2>1, SharesIdle DEF vars, corevars, InHand
    <2>2. CASE SignalTest \/ ApplyRatio \/ TransferClear \/ SignalClear \/ RxNothing
      <3>1. /\ UNCHANGED <<flowvars, ordvars, shardvars, epochvars, flow, local_epoch, window, cpc>>
            /\ ~InHand /\ ~InHand'
        BY <2>2 DEF SignalTest, ApplyRatio, TransferClear, SignalClear, RxNothing, InHand
      <3> QED
        BY <3>1, SharesIdle DEF InHand
    <2>3. CASE \E f \in Flows : FirstPacket(f) \/ LoadEpoch(f)
      BY <2>3, SharesFirstPacket, SharesLoadEpoch
    <2>4. CASE Refresh \/ Record
      BY <2>4, SharesRefresh, SharesRecord
    <2>5. CASE Solve \/ Ratio \/ Signal
      <3>1. /\ UNCHANGED <<flowvars, ordvars, shardvars, epochvars, flow, local_epoch, window, pc>>
            /\ cpc \in {"solve", "ratio", "signal"} /\ cpc' \in {"ratio", "signal", "inc"}
        BY <2>5 DEF Solve, Ratio, Signal, corevars
      <3> QED
        BY <3>1, SharesIdle DEF InHand
    <2>6. CASE Swap \/ Inc \/ Copy \/ Order
      BY <2>6, SharesSwap, SharesInc, SharesCopy, SharesOrder
    <2> QED
      BY <2>1, <2>2, <2>3, <2>4, <2>5, <2>6 DEF Next, Core, Controller
  <1>3. SharesInv => SharesOfOneEpoch
    BY DEF SharesInv
  <1> QED
    BY <1>1, <1>2, <1>3, TypeCorrect, PTL DEF Spec
=============================================================================
