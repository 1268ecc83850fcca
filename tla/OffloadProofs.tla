---------------------------- MODULE OffloadProofs ----------------------------
(***************************************************************************)
(* Theorems about Offload for every number of working and offloading       *)
(* cores, burst, ring size, counter width and bound.                       *)
(*                                                                         *)
(* QueuePolled and NobodyElsePolls speak of states in which the control    *)
(* queues are empty.  The invariant that carries them speaks of every      *)
(* state: what an offloading core will poll once it has worked off its     *)
(* control queues (Present), and that it never adds a ring twice           *)
(* (Chained).                                                              *)
(***************************************************************************)
EXTENDS Offload, FiniteSetTheorems, WellFoundedInduction, TLAPS

-----------------------------------------------------------------------------
(* The inductive invariant.                                                 *)

Has(s, x) == \E i \in DOMAIN s : s[i] = x
Adds(p, k, x) == p[k].op = "add" /\ p[k].ring = x
Removes(p, k, x) == p[k].op = "remove" /\ p[k].ring = x

(* With the entries p to come, vector s is given ring x only when it does   *)
(* not have it.                                                             *)
NoAddTwice(p, x) ==
    \A i, j \in DOMAIN p :
        i < j /\ Adds(p, i, x) /\ Adds(p, j, x) =>
            \E m \in i + 1 .. j - 1 : Removes(p, m, x)
NoAddHeld(p, s, x) ==
    \A j \in DOMAIN p :
        Adds(p, j, x) /\ Has(s, x) => \E m \in 1 .. j - 1 : Removes(p, m, x)
Once(s, x) == \A i, j \in DOMAIN s : s[i] = x /\ s[j] = x => i = j

Chained(p, s, x) == NoAddTwice(p, x) /\ NoAddHeld(p, s, x) /\ Once(s, x)

(* Vector s has ring x once the entries p have been worked off. *)
Present(p, s, x) ==
    \/ \E k \in DOMAIN p :
          /\ Adds(p, k, x)
          /\ \A m \in DOMAIN p : m > k => ~Removes(p, m, x)
    \/ Has(s, x) /\ \A m \in DOMAIN p : ~Removes(p, m, x)

(* Between the removal of q and the next addition. *)
Gap == {"rAdd", "oTest", "oMove", "oAdd", "sTest", "sMove", "sAdd"}

(* What a core does only when it is signalled. *)
Idling == {"top", "own", "process"}
ForNewCore == {"oRemove", "oTest", "oMove", "oAdd"}
AfterNewCore == {"sRemove", "sTest", "sMove", "sAdd", "clear"}

(* An offloading core in a burst has a ring to take from. *)
HasRing == \A e \in Offs : opc[e] = "deq" => Q[e] # <<>>

(* The controller tells a core where to go, and only then signals it. *)
TellsNew == \A w \in transfer_offloading : new_offloading[w] = O[w]
SignalledOnly == \A w \in Cores : pc[w] \notin Idling => w \in controller_signal
PlanQuiet == cpc \in {"relate", "shards", "same"} =>
                \A w \in Cores : Quiet(w)
StartsFirst == cpc \in {"shards", "same"} => cw = 0
TransferAsked == \A w \in Cores : pc[w] \in ForNewCore => w \in transfer_offloading
TransferDone == \A w \in Cores : pc[w] \in AfterNewCore => w \notin transfer_offloading
AskedSignalled ==
    \A w \in transfer_offloading :
        /\ cpc = "idle" => w \in controller_signal
        /\ cpc = "relate" => w < cw
        /\ cpc # "same"
        /\ cpc = "signal" => w \in controller_signal \/ cw <= w

Protocol == /\ HasRing /\ TellsNew /\ SignalledOnly /\ PlanQuiet /\ StartsFirst
            /\ TransferAsked /\ TransferDone /\ AskedSignalled

(* Nobody will add a ring twice. *)
ChainedOf(w) == \A e \in Offs : \A i \in {1, 2} : Chained(pending[e], Q[e], <<w, i>>)

(* Only q will be polled, and only by the offloading core w names. *)
OnlyOf(w) ==
    \A e \in Offs : \A i \in {1, 2} :
        Present(pending[e], Q[e], <<w, i>>) =>
            i = qi[w] /\ e = offloading_idx[w] /\ pc[w] \notin Gap

(* Unless w is about to change, or is not told of a change, q will be       *)
(* polled by the core given to it.                                          *)
PolledOf(w) ==
    w \notin transfer_offloading \union returned =>
        /\ offloading_idx[w] = O[w]
        /\ pc[w] \notin Gap =>
              Present(pending[offloading_idx[w]], Q[offloading_idx[w]], q(w))

Polls == \A w \in Cores : InOrder(w) => ChainedOf(w) /\ OnlyOf(w) /\ PolledOf(w)

IInv == TypeOK /\ Protocol /\ Polls

-----------------------------------------------------------------------------
(* Induction, as a statement about sets of naturals.                        *)

(* A set of naturals that is not empty has a least element. *)
LEMMA LeastElement ==
  ASSUME NEW T \in SUBSET Nat, T # {}
  PROVE  \E m \in T : \A k \in T : m <= k
  <1> DEFINE R == OpToRel(<, Nat)
  <1>1. IsWellFoundedOn(R, Nat)
    BY NatLessThanWellFounded
  <1>2. \A x, y \in Nat : x < y => <<x, y>> \in R
    BY DEF OpToRel
  <1> HIDE DEF R
  <1>3. PICK m \in T : \A y \in T : ~(<<y, m>> \in R)
    BY <1>1, WFMin
  <1>4. ASSUME NEW k \in T PROVE m <= k
    <2>1. m \in Nat /\ k \in Nat /\ ~(k < m)
      BY <1>2, <1>3
    <2> QED
      BY <2>1
  <1> QED
    BY <1>3, <1>4

(* Induction: a set with 0 and with every successor is that of all naturals. *)
LEMMA Inductive ==
  ASSUME NEW T \in SUBSET Nat, 0 \in T, \A k \in T : k + 1 \in T
  PROVE  T = Nat
  <1> SUFFICES ASSUME Nat \ T # {} PROVE FALSE
    OBVIOUS
  <1>1. PICK m \in Nat \ T : \A k \in Nat \ T : m <= k
    <2>1. Nat \ T \in SUBSET Nat
      OBVIOUS
    <2> QED
      BY <2>1, LeastElement
  <1>2. m # 0 /\ m - 1 \in Nat
    BY <1>1
  <1>3. m - 1 \in T
    BY <1>1, <1>2
  <1> QED
    BY <1>1, <1>2, <1>3

-----------------------------------------------------------------------------
(* What the erase-remove of Without leaves of a vector.                     *)

(* A function that satisfies the equation of kept up to n. *)
KeptUpTo(f, s, x, n) ==
    f = [k \in 0 .. n |->
            IF k = 0 THEN <<>>
            ELSE IF s[k] = x THEN f[k - 1] ELSE Append(f[k - 1], s[k])]

(* There is such a function for every n. *)
LEMMA KeptExists ==
  ASSUME NEW s, NEW x, NEW n \in Nat PROVE \E f : KeptUpTo(f, s, x, n)
  <1> DEFINE T == {m \in Nat : \E f : KeptUpTo(f, s, x, m)}
             G(a, k) == IF s[k] = x THEN a ELSE Append(a, s[k])
  <1>1. 0 \in T
    <2> DEFINE g == [k \in 0 .. 0 |-> <<>>]
    <2>1. KeptUpTo(g, s, x, 0)
      BY DEF KeptUpTo
    <2> QED
      BY <2>1
  <1>2. ASSUME NEW m \in T PROVE m + 1 \in T
    <2>1. PICK f : KeptUpTo(f, s, x, m)
      OBVIOUS
    <2>0. f = [k \in 0 .. m |-> IF k = 0 THEN <<>> ELSE G(f[k - 1], k)]
      BY <2>1 DEF KeptUpTo
    <2> DEFINE g == [k \in 0 .. m + 1 |-> IF k = m + 1 THEN G(f[m], m + 1) ELSE f[k]]
    <2> HIDE DEF G
    <2>2. m \in Nat
      OBVIOUS
    <2>3. ASSUME NEW k \in 0 .. m + 1
          PROVE  g[k] = IF k = 0 THEN <<>> ELSE G(g[k - 1], k)
      <3>1. CASE k = m + 1
        <4>1. k # 0 /\ k - 1 = m /\ m \in 0 .. m + 1 /\ m # m + 1
          BY <2>2, <3>1
        <4>2. g[m] = f[m] /\ g[k] = G(f[m], k)
          BY <3>1, <4>1
        <4> QED
          BY <4>1, <4>2
      <3>2. CASE k # m + 1
        <4>1. k \in 0 .. m /\ (k # 0 => k - 1 \in 0 .. m + 1 /\ k - 1 # m + 1)
          BY <2>2, <3>2
        <4>2. f[k] = IF k = 0 THEN <<>> ELSE G(f[k - 1], k)
          BY <2>0, <4>1
        <4>3. g[k] = f[k] /\ (k # 0 => g[k - 1] = f[k - 1])
          BY <3>2, <4>1
        <4> QED
          BY <4>2, <4>3
      <3> QED
        BY <3>1, <3>2
    <2>4. g = [k \in 0 .. m + 1 |-> g[k]]
      OBVIOUS
    <2> HIDE DEF g
    <2>5. g = [k \in 0 .. m + 1 |-> IF k = 0 THEN <<>> ELSE G(g[k - 1], k)]
      BY <2>3, <2>4
    <2>6. KeptUpTo(g, s, x, m + 1)
      BY <2>5 DEF KeptUpTo, G
    <2> QED
      BY <2>2, <2>6
  <1>3. T \in SUBSET Nat
    OBVIOUS
  <1> HIDE DEF T
  <1>4. T = Nat
    BY <1>1, <1>2, <1>3, Inductive
  <1> QED
    BY <1>4 DEF T

(* Without is the last value of such a function. *)
LEMMA WithoutKept ==
  ASSUME NEW s, NEW x, Len(s) \in Nat
  PROVE  \E f : KeptUpTo(f, s, x, Len(s)) /\ Without(s, x) = f[Len(s)]
  <1> DEFINE G(g) == KeptUpTo(g, s, x, Len(s))
  <1>1. Without(s, x) = (CHOOSE g : G(g))[Len(s)]
    BY DEF Without, KeptUpTo
  <1>2. \E f : G(f)
    BY KeptExists
  <1> HIDE DEF G
  <1>3. G(CHOOSE g : G(g))
    BY <1>2
  <1> QED
    BY <1>1, <1>3 DEF G

(* t is what is left of the first n elements of s without x. *)
Leaves(t, s, x, n) ==
    /\ \A j \in DOMAIN t : t[j] # x /\ \E i \in 1 .. n : s[i] = t[j]
    /\ \A i \in 1 .. n : s[i] # x => Has(t, s[i])
    /\ \A y : (\A i, j \in 1 .. n : s[i] = y /\ s[j] = y => i = j) => Once(t, y)

(* One more element that is not x. *)
LEMMA LeavesAppend ==
  ASSUME NEW S, NEW s, NEW x, NEW n \in Nat, NEW t \in Seq(S),
         Leaves(t, s, x, n), s[n + 1] # x, s[n + 1] \in S
  PROVE  Leaves(Append(t, s[n + 1]), s, x, n + 1)
  <1> DEFINE a == s[n + 1]
             u == Append(t, a)
             l == Len(t)
  <1>1. /\ l \in Nat /\ DOMAIN t = 1 .. l /\ DOMAIN u = 1 .. l + 1
        /\ \A i \in 1 .. l : u[i] = t[i]
        /\ u[l + 1] = a /\ a # x
    OBVIOUS
  <1>2. a = s[n + 1] /\ n + 1 \in 1 .. n + 1 /\ 1 .. n \subseteq 1 .. n + 1
    OBVIOUS
  <1> HIDE DEF a, u, l
  <1>3. \A j \in DOMAIN u : u[j] # x /\ \E i \in 1 .. n + 1 : s[i] = u[j]
    <2> SUFFICES ASSUME NEW j \in DOMAIN u PROVE u[j] # x /\ \E i \in 1 .. n + 1 : s[i] = u[j]
      OBVIOUS
    <2>1. CASE j = l + 1
      BY <1>1, <1>2, <2>1
    <2>2. CASE j # l + 1
      <3>1. j \in DOMAIN t /\ u[j] = t[j]
        BY <1>1, <2>2
      <3> QED
        BY <1>2, <3>1 DEF Leaves
    <2> QED
      BY <2>1, <2>2
  <1>4. ASSUME NEW i \in 1 .. n + 1, s[i] # x PROVE Has(u, s[i])
    <2>1. CASE i = n + 1
      BY <1>1, <1>2, <2>1 DEF Has
    <2>2. CASE i # n + 1
      <3>1. i \in 1 .. n
        BY <2>2
      <3>2. PICK j \in DOMAIN t : t[j] = s[i]
        BY <1>4, <3>1 DEF Leaves, Has
      <3>3. j \in DOMAIN u /\ u[j] = t[j]
        BY <1>1
      <3> QED
        BY <3>2, <3>3 DEF Has
    <2> QED
      BY <2>1, <2>2
  <1>5. ASSUME NEW y, \A i, j \in 1 .. n + 1 : s[i] = y /\ s[j] = y => i = j
        PROVE  Once(u, y)
    <2>1. Once(t, y)
      BY <1>2, <1>5 DEF Leaves
    <2>2. ASSUME a = y, NEW j \in DOMAIN t PROVE t[j] # y
      <3>1. PICK i \in 1 .. n : s[i] = t[j]
        BY DEF Leaves
      <3>2. i # n + 1 /\ i \in 1 .. n + 1
        OBVIOUS
      <3> QED
        BY <1>2, <1>5, <2>2, <3>1, <3>2
    <2> QED
      BY <1>1, <2>1, <2>2 DEF Once
  <1> QED
    BY <1>3, <1>4, <1>5 DEF Leaves, u, a

(* One more element that is x. *)
LEMMA LeavesSame ==
  ASSUME NEW s, NEW x, NEW n \in Nat, NEW t,
         Leaves(t, s, x, n), s[n + 1] = x
  PROVE  Leaves(t, s, x, n + 1)
  <1>1. 1 .. n \subseteq 1 .. n + 1 /\ \A i \in 1 .. n + 1 : i \in 1 .. n \/ i = n + 1
    OBVIOUS
  <1>2. \A j \in DOMAIN t : t[j] # x /\ \E i \in 1 .. n + 1 : s[i] = t[j]
    BY <1>1 DEF Leaves
  <1>3. \A i \in 1 .. n + 1 : s[i] # x => Has(t, s[i])
    BY <1>1 DEF Leaves
  <1>4. ASSUME NEW y, \A i, j \in 1 .. n + 1 : s[i] = y /\ s[j] = y => i = j
        PROVE  Once(t, y)
    BY <1>1, <1>4 DEF Leaves
  <1> QED
    BY <1>2, <1>3, <1>4 DEF Leaves

(* The erase-remove leaves every other element as often as it was there and *)
(* no x.                                                                    *)
LEMMA WithoutLeaves ==
  ASSUME NEW S, NEW s \in Seq(S), NEW x
  PROVE  Without(s, x) \in Seq(S) /\ Leaves(Without(s, x), s, x, Len(s))
  <1> DEFINE l == Len(s)
  <1>1. l \in Nat /\ \A k \in 1 .. l : s[k] \in S
    OBVIOUS
  <1>2. PICK f : KeptUpTo(f, s, x, l) /\ Without(s, x) = f[l]
    BY <1>1, WithoutKept
  <1> HIDE DEF l
  <1>3. /\ f[0] = <<>>
        /\ \A k \in 1 .. l : f[k] = IF s[k] = x THEN f[k - 1] ELSE Append(f[k - 1], s[k])
    <2>1. f = [k \in 0 .. l |-> IF k = 0 THEN <<>>
                 ELSE IF s[k] = x THEN f[k - 1] ELSE Append(f[k - 1], s[k])]
      BY <1>2 DEF KeptUpTo
    <2>2. 0 \in 0 .. l /\ \A k \in 1 .. l : k \in 0 .. l /\ k # 0
      BY <1>1
    <2> QED
      BY <2>1, <2>2
  <1> DEFINE T == {n \in Nat : n <= l => f[n] \in Seq(S) /\ Leaves(f[n], s, x, n)}
  <1>4. 0 \in T
    <2>1. <<>> \in Seq(S) /\ DOMAIN <<>> = {} /\ 1 .. 0 = {}
      OBVIOUS
    <2>2. Leaves(<<>>, s, x, 0)
      BY <2>1 DEF Leaves, Once
    <2> QED
      BY <1>3, <2>1, <2>2
  <1>5. ASSUME NEW n \in T PROVE n + 1 \in T
    <2> SUFFICES ASSUME n + 1 <= l
                 PROVE  f[n + 1] \in Seq(S) /\ Leaves(f[n + 1], s, x, n + 1)
      OBVIOUS
    <2>1. n \in Nat /\ n <= l /\ n + 1 \in 1 .. l /\ (n + 1) - 1 = n
      BY <1>1
    <2>2. f[n] \in Seq(S) /\ Leaves(f[n], s, x, n)
      BY <2>1
    <2>3. f[n + 1] = IF s[n + 1] = x THEN f[n] ELSE Append(f[n], s[n + 1])
      BY <1>3, <2>1
    <2>4. s[n + 1] \in S
      BY <1>1, <2>1
    <2>5. CASE s[n + 1] = x
      BY <2>1, <2>2, <2>3, <2>5, LeavesSame
    <2>6. CASE s[n + 1] # x
      <3>1. Append(f[n], s[n + 1]) \in Seq(S)
        BY <2>2, <2>4
      <3>2. Leaves(Append(f[n], s[n + 1]), s, x, n + 1)
        BY <2>1, <2>2, <2>4, <2>6, LeavesAppend
      <3> QED
        BY <2>3, <2>6, <3>1, <3>2
    <2> QED
      BY <2>5, <2>6
  <1>6. T \in SUBSET Nat
    OBVIOUS
  <1> HIDE DEF T
  <1>7. T = Nat
    BY <1>4, <1>5, <1>6, Inductive
  <1>8. l \in T /\ l <= l
    BY <1>1, <1>7
  <1> QED
    BY <1>2, <1>8 DEF T, l

(* The same of the members of the vector. *)
LEMMA WithoutHas ==
  ASSUME NEW S, NEW s \in Seq(S), NEW x, NEW y
  PROVE  /\ ~Has(Without(s, x), x)
         /\ x # y => (Has(Without(s, x), y) <=> Has(s, y))
         /\ Once(s, y) => Once(Without(s, x), y)
  <1> DEFINE t == Without(s, x)
  <1>1. Leaves(t, s, x, Len(s)) /\ DOMAIN s = 1 .. Len(s)
    BY WithoutLeaves
  <1> HIDE DEF t
  <1>2. ~Has(t, x)
    BY <1>1 DEF Leaves, Has
  <1>3. ASSUME x # y PROVE Has(t, y) <=> Has(s, y)
    BY <1>1, <1>3 DEF Leaves, Has
  <1>4. ASSUME Once(s, y) PROVE Once(t, y)
    BY <1>1, <1>4 DEF Leaves, Once
  <1> QED
    BY <1>2, <1>3, <1>4 DEF t

-----------------------------------------------------------------------------
(* Entries that come and go.                                                *)

(* An element is appended to a vector. *)
LEMMA AppendHas ==
  ASSUME NEW S, NEW s \in Seq(S), NEW x \in S, NEW y
  PROVE  /\ Has(Append(s, x), x)
         /\ x # y => (Has(Append(s, x), y) <=> Has(s, y))
         /\ x # y /\ Once(s, y) => Once(Append(s, x), y)
         /\ ~Has(s, x) => Once(Append(s, x), x)
  <1> DEFINE t == Append(s, x)
             l == Len(s)
  <1>1. /\ l \in Nat /\ DOMAIN s = 1 .. l /\ DOMAIN t = 1 .. l + 1
        /\ \A i \in 1 .. l : t[i] = s[i]
        /\ t[l + 1] = x /\ l + 1 \in 1 .. l + 1 /\ 1 .. l \subseteq 1 .. l + 1
        /\ \A i \in 1 .. l + 1 : i \in 1 .. l \/ i = l + 1
    OBVIOUS
  <1> HIDE DEF t, l
  <1>2. Has(t, x)
    BY <1>1 DEF Has
  <1>3. ASSUME x # y PROVE Has(t, y) <=> Has(s, y)
    BY <1>1, <1>3 DEF Has
  <1>4. ASSUME x # y, Once(s, y) PROVE Once(t, y)
    BY <1>1, <1>4 DEF Once
  <1>5. ASSUME ~Has(s, x) PROVE Once(t, x)
    BY <1>1, <1>5 DEF Once, Has
  <1> QED
    BY <1>2, <1>3, <1>4, <1>5 DEF t

(* An entry of another ring is enqueued: nothing changes for ring x. *)
LEMMA AppendOther ==
  ASSUME NEW S, NEW p \in Seq(S), NEW a \in S, NEW s, NEW x, a.ring # x
  PROVE  /\ Chained(p, s, x) => Chained(Append(p, a), s, x)
         /\ Present(Append(p, a), s, x) <=> Present(p, s, x)
  <1> DEFINE r == Append(p, a)
             l == Len(p)
  <1>1. /\ l \in Nat /\ DOMAIN p = 1 .. l /\ DOMAIN r = 1 .. l + 1
        /\ \A i \in 1 .. l : r[i] = p[i]
        /\ r[l + 1] = a
    OBVIOUS
  <1> HIDE DEF r, l
  <1>2. /\ \A k \in 1 .. l : (Adds(r, k, x) <=> Adds(p, k, x)) /\ (Removes(r, k, x) <=> Removes(p, k, x))
        /\ ~Adds(r, l + 1, x) /\ ~Removes(r, l + 1, x)
    BY <1>1 DEF Adds, Removes
  <1>3. \A k \in 1 .. l + 1 : k \in 1 .. l \/ k = l + 1
    BY <1>1
  <1>4. ASSUME NoAddTwice(p, x) PROVE NoAddTwice(r, x)
    <2> SUFFICES ASSUME NEW i \in DOMAIN r, NEW j \in DOMAIN r, i < j, Adds(r, i, x), Adds(r, j, x)
                 PROVE  \E m \in i + 1 .. j - 1 : Removes(r, m, x)
      BY DEF NoAddTwice
    <2>1. i \in 1 .. l /\ j \in 1 .. l
      BY <1>1, <1>2, <1>3
    <2>2. PICK m \in i + 1 .. j - 1 : Removes(p, m, x)
      BY <1>1, <1>2, <1>4, <2>1 DEF NoAddTwice
    <2>3. m \in 1 .. l
      BY <1>1, <2>1
    <2> QED
      BY <1>2, <2>2, <2>3
  <1>5. ASSUME NoAddHeld(p, s, x) PROVE NoAddHeld(r, s, x)
    <2> SUFFICES ASSUME NEW j \in DOMAIN r, Adds(r, j, x), Has(s, x)
                 PROVE  \E m \in 1 .. j - 1 : Removes(r, m, x)
      BY DEF NoAddHeld
    <2>1. j \in 1 .. l
      BY <1>1, <1>2, <1>3
    <2>2. PICK m \in 1 .. j - 1 : Removes(p, m, x)
      BY <1>1, <1>2, <1>5, <2>1 DEF NoAddHeld
    <2>3. m \in 1 .. l
      BY <1>1, <2>1
    <2> QED
      BY <1>2, <2>2, <2>3
  <1>6. ASSUME Present(p, s, x) PROVE Present(r, s, x)
    BY <1>1, <1>2, <1>3, <1>6 DEF Present
  <1>7. ASSUME Present(r, s, x) PROVE Present(p, s, x)
    BY <1>1, <1>2, <1>3, <1>7 DEF Present
  <1> QED
    BY <1>4, <1>5, <1>6, <1>7 DEF Chained, r

(* A removal of ring x is enqueued: it will not be polled. *)
LEMMA AppendRemove ==
  ASSUME NEW S, NEW p \in Seq(S), NEW a \in S, NEW s, NEW x,
         a.op = "remove", a.ring = x, Chained(p, s, x)
  PROVE  Chained(Append(p, a), s, x) /\ ~Present(Append(p, a), s, x)
  <1> DEFINE r == Append(p, a)
             l == Len(p)
  <1>1. /\ l \in Nat /\ DOMAIN p = 1 .. l /\ DOMAIN r = 1 .. l + 1
        /\ \A i \in 1 .. l : r[i] = p[i]
        /\ r[l + 1] = a
    OBVIOUS
  <1> HIDE DEF r, l
  <1>2. /\ \A k \in 1 .. l : (Adds(r, k, x) <=> Adds(p, k, x)) /\ (Removes(r, k, x) <=> Removes(p, k, x))
        /\ ~Adds(r, l + 1, x) /\ Removes(r, l + 1, x)
    BY <1>1 DEF Adds, Removes
  <1>3. \A k \in 1 .. l + 1 : k \in 1 .. l \/ k = l + 1
    BY <1>1
  <1>4. NoAddTwice(r, x)
    <2> SUFFICES ASSUME NEW i \in DOMAIN r, NEW j \in DOMAIN r, i < j, Adds(r, i, x), Adds(r, j, x)
                 PROVE  \E m \in i + 1 .. j - 1 : Removes(r, m, x)
      BY DEF NoAddTwice
    <2>1. i \in 1 .. l /\ j \in 1 .. l
      BY <1>1, <1>2, <1>3
    <2>2. PICK m \in i + 1 .. j - 1 : Removes(p, m, x)
      BY <1>1, <1>2, <2>1 DEF NoAddTwice, Chained
    <2>3. m \in 1 .. l
      BY <1>1, <2>1
    <2> QED
      BY <1>2, <2>2, <2>3
  <1>5. NoAddHeld(r, s, x)
    <2> SUFFICES ASSUME NEW j \in DOMAIN r, Adds(r, j, x), Has(s, x)
                 PROVE  \E m \in 1 .. j - 1 : Removes(r, m, x)
      BY DEF NoAddHeld
    <2>1. j \in 1 .. l
      BY <1>1, <1>2, <1>3
    <2>2. PICK m \in 1 .. j - 1 : Removes(p, m, x)
      BY <1>1, <1>2, <2>1 DEF NoAddHeld, Chained
    <2>3. m \in 1 .. l
      BY <1>1, <2>1
    <2> QED
      BY <1>2, <2>2, <2>3
  <1>6. ~Present(r, s, x)
    <2>1. l + 1 \in DOMAIN r
      BY <1>1
    <2>2. ASSUME NEW k \in DOMAIN r, Adds(r, k, x) PROVE l + 1 > k
      BY <1>1, <1>2, <1>3, <2>2
    <2> QED
      BY <1>2, <2>1, <2>2 DEF Present
  <1> QED
    BY <1>4, <1>5, <1>6 DEF Chained, r

(* An addition of ring x, not to be polled so far, is enqueued: it will be. *)
LEMMA AppendAdd ==
  ASSUME NEW S, NEW p \in Seq(S), NEW a \in S, NEW s, NEW x,
         a.op = "add", a.ring = x, Chained(p, s, x), ~Present(p, s, x)
  PROVE  Chained(Append(p, a), s, x) /\ Present(Append(p, a), s, x)
  <1> DEFINE r == Append(p, a)
             l == Len(p)
  <1>1. /\ l \in Nat /\ DOMAIN p = 1 .. l /\ DOMAIN r = 1 .. l + 1
        /\ \A i \in 1 .. l : r[i] = p[i]
        /\ r[l + 1] = a
    OBVIOUS
  <1> HIDE DEF r, l
  <1>2. /\ \A k \in 1 .. l : (Adds(r, k, x) <=> Adds(p, k, x)) /\ (Removes(r, k, x) <=> Removes(p, k, x))
        /\ Adds(r, l + 1, x) /\ ~Removes(r, l + 1, x)
    BY <1>1 DEF Adds, Removes
  <1>3. \A k \in 1 .. l + 1 : k \in 1 .. l \/ k = l + 1
    BY <1>1
  <1>4. NoAddTwice(r, x)
    <2> SUFFICES ASSUME NEW i \in DOMAIN r, NEW j \in DOMAIN r, i < j, Adds(r, i, x), Adds(r, j, x)
                 PROVE  \E m \in i + 1 .. j - 1 : Removes(r, m, x)
      BY DEF NoAddTwice
    <2>1. i \in 1 .. l
      BY <1>1
    <2>2. CASE j = l + 1
      <3>1. PICK m \in DOMAIN p : m > i /\ Removes(p, m, x)
        BY <1>1, <1>2, <2>1 DEF Present
      <3>2. m \in i + 1 .. j - 1 /\ m \in 1 .. l
        BY <1>1, <2>1, <2>2, <3>1
      <3> QED
        BY <1>2, <3>1, <3>2
    <2>3. CASE j # l + 1
      <3>0. j \in 1 .. l
        BY <1>1, <1>3, <2>3
      <3>1. PICK m \in i + 1 .. j - 1 : Removes(p, m, x)
        BY <1>1, <1>2, <2>1, <3>0 DEF NoAddTwice, Chained
      <3>2. m \in 1 .. l
        BY <1>1, <2>1, <3>0
      <3> QED
        BY <1>2, <3>1, <3>2
    <2> QED
      BY <2>2, <2>3
  <1>5. NoAddHeld(r, s, x)
    <2> SUFFICES ASSUME NEW j \in DOMAIN r, Adds(r, j, x), Has(s, x)
                 PROVE  \E m \in 1 .. j - 1 : Removes(r, m, x)
      BY DEF NoAddHeld
    <2>1. CASE j = l + 1
      <3>1. PICK m \in DOMAIN p : Removes(p, m, x)
        BY DEF Present
      <3>2. m \in 1 .. j - 1 /\ m \in 1 .. l
        BY <1>1, <2>1
      <3> QED
        BY <1>2, <3>1, <3>2
    <2>2. CASE j # l + 1
      <3>0. j \in 1 .. l
        BY <1>1, <1>3, <2>2
      <3>1. PICK m \in 1 .. j - 1 : Removes(p, m, x)
        BY <1>1, <1>2, <3>0 DEF NoAddHeld, Chained
      <3>2. m \in 1 .. l
        BY <1>1, <3>0
      <3> QED
        BY <1>2, <3>1, <3>2
    <2> QED
      BY <2>1, <2>2
  <1>6. Present(r, s, x)
    <2>1. l + 1 \in DOMAIN r /\ \A m \in DOMAIN r : ~(m > l + 1)
      BY <1>1
    <2> QED
      BY <1>2, <2>1 DEF Present
  <1> QED
    BY <1>4, <1>5, <1>6 DEF Chained, r

(* The ring itself is appended or removed. *)
LEMMA SameHas ==
  ASSUME NEW S, NEW s \in Seq(S), NEW x \in S
  PROVE  /\ Has(Append(s, x), x) /\ (~Has(s, x) => Once(Append(s, x), x))
         /\ ~Has(Without(s, x), x) /\ (Once(s, x) => Once(Without(s, x), x))
  BY AppendHas, WithoutHas

(* What a concatenation is. *)
LEMMA Concatenation ==
  ASSUME NEW S, NEW a \in Seq(S), NEW b \in Seq(S)
  PROVE  a \o b \in Seq(S) /\ Len(a \o b) = Len(a) + Len(b)
  OBVIOUS

(* Entry k is taken out of p. *)
Taken(p, k) == SubSeq(p, 1, k - 1) \o SubSeq(p, k + 1, Len(p))

(* The other entries close up. *)
LEMMA TakenElements ==
  ASSUME NEW S, NEW p \in Seq(S), NEW k \in 1 .. Len(p)
  PROVE  /\ Taken(p, k) \in Seq(S)
         /\ Len(Taken(p, k)) = Len(p) - 1
         /\ \A i \in 1 .. Len(p) - 1 : Taken(p, k)[i] = IF i < k THEN p[i] ELSE p[i + 1]
  <1> DEFINE a == SubSeq(p, 1, k - 1)
             b == SubSeq(p, k + 1, Len(p))
  <1>1. a \in Seq(S) /\ Len(a) = k - 1 /\ \A i \in 1 .. k - 1 : a[i] = p[i]
    OBVIOUS
  <1>2. b \in Seq(S) /\ Len(b) = Len(p) - k /\ \A i \in 1 .. Len(p) - k : b[i] = p[k + i]
    OBVIOUS
  <1>3. Len(p) \in Nat /\ k \in Nat /\ k >= 1 /\ k <= Len(p)
    OBVIOUS
  <1> HIDE DEF a, b
  <1>4. a \o b \in Seq(S) /\ Len(a \o b) = Len(p) - 1
    <2>1. a \o b \in Seq(S) /\ Len(a \o b) = Len(a) + Len(b)
      BY <1>1, <1>2, Concatenation
    <2> QED
      BY <1>1, <1>2, <1>3, <2>1
  <1>5. ASSUME NEW i \in 1 .. Len(p) - 1
        PROVE  (a \o b)[i] = IF i < k THEN p[i] ELSE p[i + 1]
    <2>1. CASE i < k
      <3>1. i \in 1 .. Len(a)
        BY <1>1, <1>3, <2>1
      <3>2. (a \o b)[i] = a[i]
        BY <1>1, <1>2, <3>1
      <3> QED
        BY <1>1, <2>1, <3>1, <3>2
    <2>2. CASE ~(i < k)
      <3>1. i - Len(a) \in 1 .. Len(b) /\ i \in Len(a) + 1 .. Len(a) + Len(b)
        BY <1>1, <1>2, <1>3, <2>2
      <3>2. (a \o b)[i] = b[i - Len(a)]
        BY <1>1, <1>2, <3>1
      <3>3. b[i - Len(a)] = p[k + (i - Len(a))] /\ k + (i - Len(a)) = i + 1
        BY <1>1, <1>2, <1>3, <3>1
      <3> QED
        BY <2>2, <3>2, <3>3
    <2> QED
      BY <2>1, <2>2
  <1> QED
    BY <1>4, <1>5 DEF Taken, a, b

(* Where the entries of Taken(p, k) are in p, and back. *)
Up(k, i) == IF i < k THEN i ELSE i + 1
Down(k, m) == IF m < k THEN m ELSE m - 1

(* Both keep the order. *)
LEMMA UpDown ==
  ASSUME NEW n \in Nat, NEW k \in 1 .. n
  PROVE  /\ \A i \in 1 .. n - 1 : Up(k, i) \in 1 .. n /\ Up(k, i) # k /\ Down(k, Up(k, i)) = i
         /\ \A m \in 1 .. n : m # k => Down(k, m) \in 1 .. n - 1 /\ Up(k, Down(k, m)) = m
         /\ \A i, j \in 1 .. n - 1 : i < j <=> Up(k, i) < Up(k, j)
         /\ \A m, j \in 1 .. n : m # k /\ j # k => (m < j <=> Down(k, m) < Down(k, j))
  BY DEF Up, Down

(* Entries of Taken(p, k) and of p. *)
LEMMA TakenEntries ==
  ASSUME NEW S, NEW p \in Seq(S), NEW k \in 1 .. Len(p), NEW x
  PROVE  /\ \A i \in 1 .. Len(p) - 1 :
               /\ Adds(Taken(p, k), i, x) <=> Adds(p, Up(k, i), x)
               /\ Removes(Taken(p, k), i, x) <=> Removes(p, Up(k, i), x)
         /\ DOMAIN Taken(p, k) = 1 .. Len(p) - 1 /\ DOMAIN p = 1 .. Len(p)
  <1> DEFINE r == Taken(p, k)
  <1>1. r \in Seq(S) /\ Len(r) = Len(p) - 1 /\ \A i \in 1 .. Len(p) - 1 : r[i] = IF i < k THEN p[i] ELSE p[i + 1]
    BY TakenElements
  <1> HIDE DEF r
  <1>2. DOMAIN r = 1 .. Len(p) - 1 /\ DOMAIN p = 1 .. Len(p)
    BY <1>1
  <1>3. \A i \in 1 .. Len(p) - 1 : r[i] = p[Up(k, i)]
    BY <1>1 DEF Up
  <1> QED
    BY <1>2, <1>3 DEF Adds, Removes, r

(* An entry of another ring is taken: nothing changes for ring y. *)
LEMMA TakeOther ==
  ASSUME NEW S, NEW p \in Seq(S), NEW k \in 1 .. Len(p), NEW y, p[k].ring # y,
         NEW s, NEW t, Has(t, y) <=> Has(s, y), Once(s, y) => Once(t, y)
  PROVE  /\ Chained(p, s, y) => Chained(Taken(p, k), t, y)
         /\ Present(Taken(p, k), t, y) <=> Present(p, s, y)
  <1> DEFINE r == Taken(p, k)
             n == Len(p)
  <1>0. n \in Nat /\ k \in 1 .. n
    OBVIOUS
  <1>1. /\ \A i \in 1 .. n - 1 : (Adds(r, i, y) <=> Adds(p, Up(k, i), y)) /\ (Removes(r, i, y) <=> Removes(p, Up(k, i), y))
        /\ DOMAIN r = 1 .. n - 1 /\ DOMAIN p = 1 .. n
    BY TakenEntries
  <1>2. ~Adds(p, k, y) /\ ~Removes(p, k, y)
    BY DEF Adds, Removes
  <1> HIDE DEF r, n
  <1>3. /\ \A i \in 1 .. n - 1 : Up(k, i) \in 1 .. n /\ Up(k, i) # k /\ Down(k, Up(k, i)) = i
        /\ \A m \in 1 .. n : m # k => Down(k, m) \in 1 .. n - 1 /\ Up(k, Down(k, m)) = m
        /\ \A i, j \in 1 .. n - 1 : i < j <=> Up(k, i) < Up(k, j)
        /\ \A m, j \in 1 .. n : m # k /\ j # k => (m < j <=> Down(k, m) < Down(k, j))
    BY <1>0, UpDown
  <1>4. \A m \in 1 .. n : m # k => (Adds(r, Down(k, m), y) <=> Adds(p, m, y)) /\ (Removes(r, Down(k, m), y) <=> Removes(p, m, y))
    BY <1>1, <1>3
  <1>5. ASSUME NoAddTwice(p, y) PROVE NoAddTwice(r, y)
    <2> SUFFICES ASSUME NEW i \in 1 .. n - 1, NEW j \in 1 .. n - 1, i < j, Adds(r, i, y), Adds(r, j, y)
                 PROVE  \E m \in i + 1 .. j - 1 : Removes(r, m, y)
      BY <1>1 DEF NoAddTwice
    <2>1. PICK m \in Up(k, i) + 1 .. Up(k, j) - 1 : Removes(p, m, y)
      BY <1>1, <1>3, <1>5 DEF NoAddTwice
    <2>2. m \in 1 .. n /\ m # k /\ Up(k, i) < m /\ m < Up(k, j)
      BY <1>0, <1>2, <1>3, <2>1
    <2>3. i < Down(k, m) /\ Down(k, m) < j /\ Removes(r, Down(k, m), y)
      BY <1>3, <1>4, <2>1, <2>2
    <2>4. Down(k, m) \in i + 1 .. j - 1
      BY <1>3, <2>2, <2>3
    <2> QED
      BY <2>3, <2>4
  <1>6. ASSUME NoAddHeld(p, s, y) PROVE NoAddHeld(r, t, y)
    <2> SUFFICES ASSUME NEW j \in 1 .. n - 1, Adds(r, j, y), Has(t, y)
                 PROVE  \E m \in 1 .. j - 1 : Removes(r, m, y)
      BY <1>1 DEF NoAddHeld
    <2>1. PICK m \in 1 .. Up(k, j) - 1 : Removes(p, m, y)
      BY <1>1, <1>3, <1>6 DEF NoAddHeld
    <2>2. m \in 1 .. n /\ m # k /\ m < Up(k, j)
      BY <1>0, <1>2, <1>3, <2>1
    <2>3. Down(k, m) < j /\ Removes(r, Down(k, m), y) /\ Down(k, m) \in 1 .. n - 1
      BY <1>3, <1>4, <2>1, <2>2
    <2>4. Down(k, m) \in 1 .. j - 1
      BY <2>3
    <2> QED
      BY <2>3, <2>4
  <1>7. ASSUME Present(p, s, y) PROVE Present(r, t, y)
    <2>1. CASE \E i \in DOMAIN p : Adds(p, i, y) /\ \A m \in DOMAIN p : m > i => ~Removes(p, m, y)
      <3>1. PICK i \in 1 .. n : Adds(p, i, y) /\ \A m \in 1 .. n : m > i => ~Removes(p, m, y)
        BY <1>1, <2>1
      <3>2. i # k /\ Down(k, i) \in 1 .. n - 1 /\ Adds(r, Down(k, i), y)
        BY <1>2, <1>3, <1>4, <3>1
      <3>3. ASSUME NEW m \in 1 .. n - 1, m > Down(k, i) PROVE ~Removes(r, m, y)
        <4>1. Up(k, m) \in 1 .. n /\ Up(k, m) > i
          BY <1>3, <3>2, <3>3
        <4> QED
          BY <1>1, <3>1, <4>1
      <3> QED
        BY <1>1, <3>2, <3>3 DEF Present
    <2>2. CASE Has(s, y) /\ \A m \in DOMAIN p : ~Removes(p, m, y)
      BY <1>1, <1>3, <2>2 DEF Present
    <2> QED
      BY <1>7, <2>1, <2>2 DEF Present
  <1>8. ASSUME Present(r, t, y) PROVE Present(p, s, y)
    <2>1. CASE \E i \in DOMAIN r : Adds(r, i, y) /\ \A m \in DOMAIN r : m > i => ~Removes(r, m, y)
      <3>1. PICK i \in 1 .. n - 1 : Adds(r, i, y) /\ \A m \in 1 .. n - 1 : m > i => ~Removes(r, m, y)
        BY <1>1, <2>1
      <3>2. Up(k, i) \in 1 .. n /\ Adds(p, Up(k, i), y)
        BY <1>1, <1>3, <3>1
      <3>3. ASSUME NEW m \in 1 .. n, m > Up(k, i) PROVE ~Removes(p, m, y)
        <4>1. CASE m = k
          BY <1>2, <4>1
        <4>2. CASE m # k
          <5>1. Down(k, m) \in 1 .. n - 1 /\ Down(k, m) > i
            BY <1>3, <3>3, <4>2
          <5> QED
            BY <1>4, <3>1, <4>2, <5>1
        <4> QED
          BY <4>1, <4>2
      <3> QED
        BY <1>1, <3>2, <3>3 DEF Present
    <2>2. CASE Has(t, y) /\ \A m \in DOMAIN r : ~Removes(r, m, y)
      <3>1. ASSUME NEW m \in 1 .. n PROVE ~Removes(p, m, y)
        BY <1>1, <1>2, <1>3, <1>4, <2>2
      <3> QED
        BY <1>1, <2>2, <3>1 DEF Present
    <2> QED
      BY <1>8, <2>1, <2>2 DEF Present
  <1> QED
    BY <1>5, <1>6, <1>7, <1>8 DEF Chained, r

(* The first entry of ring x is taken and done: nothing changes for x. *)
LEMMA TakeFirst ==
  ASSUME NEW S, NEW R, NEW p \in Seq(S), NEW k \in 1 .. Len(p), NEW x \in R,
         p[k].ring = x, p[k].op \in {"add", "remove"},
         \A j \in 1 .. k - 1 : p[j].ring # x,
         NEW s \in Seq(R), NEW t,
         t = IF p[k].op = "add" THEN Append(s, x) ELSE Without(s, x),
         Chained(p, s, x)
  PROVE  /\ Chained(Taken(p, k), t, x)
         /\ Present(Taken(p, k), t, x) <=> Present(p, s, x)
  <1> DEFINE r == Taken(p, k)
             n == Len(p)
  <1>0. n \in Nat /\ k \in 1 .. n
    OBVIOUS
  <1>1. /\ \A i \in 1 .. n - 1 : (Adds(r, i, x) <=> Adds(p, Up(k, i), x)) /\ (Removes(r, i, x) <=> Removes(p, Up(k, i), x))
        /\ DOMAIN r = 1 .. n - 1 /\ DOMAIN p = 1 .. n
    BY TakenEntries
  <1>2. \A j \in 1 .. n : Adds(p, j, x) \/ Removes(p, j, x) => j >= k
    <2> SUFFICES ASSUME NEW j \in 1 .. n, ~(j >= k), Adds(p, j, x) \/ Removes(p, j, x) PROVE FALSE
      OBVIOUS
    <2>1. j \in 1 .. k - 1
      BY <1>0
    <2> QED
      BY <2>1 DEF Adds, Removes
  <1> HIDE DEF r, n
  <1>3. /\ \A i \in 1 .. n - 1 : Up(k, i) \in 1 .. n /\ Up(k, i) # k /\ Down(k, Up(k, i)) = i
        /\ \A m \in 1 .. n : m # k => Down(k, m) \in 1 .. n - 1 /\ Up(k, Down(k, m)) = m
        /\ \A i, j \in 1 .. n - 1 : i < j <=> Up(k, i) < Up(k, j)
        /\ \A m, j \in 1 .. n : m # k /\ j # k => (m < j <=> Down(k, m) < Down(k, j))
    BY <1>0, UpDown
  <1>4. \A m \in 1 .. n : m # k => (Adds(r, Down(k, m), x) <=> Adds(p, m, x)) /\ (Removes(r, Down(k, m), x) <=> Removes(p, m, x))
    BY <1>1, <1>3
  <1>5. NoAddTwice(r, x)
    <2> SUFFICES ASSUME NEW i \in 1 .. n - 1, NEW j \in 1 .. n - 1, i < j, Adds(r, i, x), Adds(r, j, x)
                 PROVE  \E m \in i + 1 .. j - 1 : Removes(r, m, x)
      BY <1>1 DEF NoAddTwice
    <2>1. PICK m \in Up(k, i) + 1 .. Up(k, j) - 1 : Removes(p, m, x)
      BY <1>1, <1>3 DEF NoAddTwice, Chained
    <2>2. m \in 1 .. n /\ m # k /\ Up(k, i) < m /\ m < Up(k, j)
      BY <1>0, <1>1, <1>2, <1>3, <2>1
    <2>3. i < Down(k, m) /\ Down(k, m) < j /\ Removes(r, Down(k, m), x)
      BY <1>3, <1>4, <2>1, <2>2
    <2>4. Down(k, m) \in i + 1 .. j - 1
      BY <1>3, <2>2, <2>3
    <2> QED
      BY <2>3, <2>4
  <1>6. CASE p[k].op = "add"
    <2>1. t = Append(s, x) /\ Adds(p, k, x) /\ ~Removes(p, k, x)
      BY <1>6 DEF Adds, Removes
    <2>2. ~Has(s, x)
      <3> SUFFICES ASSUME Has(s, x) PROVE FALSE
        OBVIOUS
      <3>1. PICK m \in 1 .. k - 1 : Removes(p, m, x)
        BY <1>0, <1>1, <2>1 DEF Chained, NoAddHeld
      <3> QED
        BY <1>0, <1>2, <3>1
    <2>3. Has(t, x) /\ Once(t, x)
      <3>1. Has(Append(s, x), x) /\ (~Has(s, x) => Once(Append(s, x), x))
        BY SameHas
      <3> QED
        BY <2>1, <2>2, <3>1
    <2>4. NoAddHeld(r, t, x)
      <3> SUFFICES ASSUME NEW j \in 1 .. n - 1, Adds(r, j, x)
                   PROVE  \E m \in 1 .. j - 1 : Removes(r, m, x)
        BY <1>1 DEF NoAddHeld
      <3>1. Adds(p, Up(k, j), x) /\ k < Up(k, j)
        BY <1>0, <1>1, <1>2, <1>3
      <3>2. PICK m \in k + 1 .. Up(k, j) - 1 : Removes(p, m, x)
        BY <1>0, <1>1, <1>3, <2>1, <3>1 DEF Chained, NoAddTwice
      <3>3. m \in 1 .. n /\ m # k /\ m < Up(k, j)
        BY <1>0, <1>3, <3>2
      <3>4. Down(k, m) < j /\ Removes(r, Down(k, m), x) /\ Down(k, m) \in 1 .. n - 1
        BY <1>3, <1>4, <3>2, <3>3
      <3>5. Down(k, m) \in 1 .. j - 1
        BY <3>4
      <3> QED
        BY <3>4, <3>5
    <2>5. ASSUME Present(p, s, x) PROVE Present(r, t, x)
      <3>1. PICK i \in 1 .. n : Adds(p, i, x) /\ \A m \in 1 .. n : m > i => ~Removes(p, m, x)
        BY <1>1, <2>2, <2>5 DEF Present
      <3>2. CASE i = k
        <4>1. ASSUME NEW m \in 1 .. n - 1 PROVE ~Removes(r, m, x)
          <5>1. Up(k, m) \in 1 .. n /\ (Up(k, m) > k \/ Up(k, m) < k)
            BY <1>0, <1>3
          <5>2. ~Removes(p, Up(k, m), x)
            BY <1>0, <1>2, <3>1, <3>2, <5>1
          <5> QED
            BY <1>1, <5>2
        <4> QED
          BY <1>1, <2>3, <4>1 DEF Present
      <3>3. CASE i # k
        <4>1. Down(k, i) \in 1 .. n - 1 /\ Adds(r, Down(k, i), x)
          BY <1>3, <1>4, <3>1, <3>3
        <4>2. ASSUME NEW m \in 1 .. n - 1, m > Down(k, i) PROVE ~Removes(r, m, x)
          <5>1. Up(k, m) \in 1 .. n /\ Up(k, m) > i
            BY <1>3, <3>3, <4>2
          <5> QED
            BY <1>1, <3>1, <5>1
        <4> QED
          BY <1>1, <4>1, <4>2 DEF Present
      <3> QED
        BY <3>2, <3>3
    <2>6. ASSUME Present(r, t, x) PROVE Present(p, s, x)
      <3>1. CASE \E i \in DOMAIN r : Adds(r, i, x) /\ \A m \in DOMAIN r : m > i => ~Removes(r, m, x)
        <4>1. PICK i \in 1 .. n - 1 : Adds(r, i, x) /\ \A m \in 1 .. n - 1 : m > i => ~Removes(r, m, x)
          BY <1>1, <3>1
        <4>2. Up(k, i) \in 1 .. n /\ Adds(p, Up(k, i), x)
          BY <1>1, <1>3, <4>1
        <4>3. ASSUME NEW m \in 1 .. n, m > Up(k, i) PROVE ~Removes(p, m, x)
          <5>1. CASE m = k
            BY <2>1, <5>1
          <5>2. CASE m # k
            <6>1. Down(k, m) \in 1 .. n - 1 /\ Down(k, m) > i
              BY <1>3, <4>3, <5>2
            <6> QED
              BY <1>4, <4>1, <5>2, <6>1
          <5> QED
            BY <5>1, <5>2
        <4> QED
          BY <1>1, <4>2, <4>3 DEF Present
      <3>2. CASE \A m \in DOMAIN r : ~Removes(r, m, x)
        <4>1. ASSUME NEW m \in 1 .. n PROVE ~Removes(p, m, x)
          BY <1>1, <1>3, <1>4, <2>1, <3>2
        <4> QED
          BY <1>0, <1>1, <2>1, <4>1 DEF Present
      <3> QED
        BY <2>6, <3>1, <3>2 DEF Present
    <2> QED
      BY <1>5, <2>3, <2>4, <2>5, <2>6 DEF Chained, r
  <1>7. CASE p[k].op = "remove"
    <2>1. t = Without(s, x) /\ ~Adds(p, k, x) /\ Removes(p, k, x)
      BY <1>7 DEF Adds, Removes
    <2>2. ~Has(t, x) /\ Once(t, x)
      <3>1. ~Has(Without(s, x), x) /\ (Once(s, x) => Once(Without(s, x), x))
        BY SameHas
      <3> QED
        BY <2>1, <3>1 DEF Chained
    <2>3. NoAddHeld(r, t, x)
      BY <2>2 DEF NoAddHeld
    <2>4. ASSUME Present(p, s, x) PROVE Present(r, t, x)
      <3>1. PICK i \in 1 .. n : Adds(p, i, x) /\ \A m \in 1 .. n : m > i => ~Removes(p, m, x)
        BY <1>0, <1>1, <2>1, <2>4 DEF Present
      <3>2. i # k /\ Down(k, i) \in 1 .. n - 1 /\ Adds(r, Down(k, i), x)
        BY <1>3, <1>4, <2>1, <3>1
      <3>3. ASSUME NEW m \in 1 .. n - 1, m > Down(k, i) PROVE ~Removes(r, m, x)
        <4>1. Up(k, m) \in 1 .. n /\ Up(k, m) > i
          BY <1>3, <3>2, <3>3
        <4> QED
          BY <1>1, <3>1, <4>1
      <3> QED
        BY <1>1, <3>2, <3>3 DEF Present
    <2>5. ASSUME Present(r, t, x) PROVE Present(p, s, x)
      <3>1. PICK i \in 1 .. n - 1 : Adds(r, i, x) /\ \A m \in 1 .. n - 1 : m > i => ~Removes(r, m, x)
        BY <1>1, <2>2, <2>5 DEF Present
      <3>2. Up(k, i) \in 1 .. n /\ Adds(p, Up(k, i), x)
        BY <1>1, <1>3, <3>1
      <3>3. ASSUME NEW m \in 1 .. n, m > Up(k, i) PROVE ~Removes(p, m, x)
        <4>1. Up(k, i) > k
          BY <1>0, <1>2, <1>3, <3>2
        <4>2. m # k
          BY <1>0, <1>3, <3>3, <4>1
        <4>3. Down(k, m) \in 1 .. n - 1 /\ Down(k, m) > i
          BY <1>3, <3>3, <4>2
        <4> QED
          BY <1>4, <3>1, <4>2, <4>3
      <3> QED
        BY <1>1, <3>2, <3>3 DEF Present
    <2> QED
      BY <1>5, <2>2, <2>3, <2>4, <2>5 DEF Chained, r
  <1> QED
    BY <1>6, <1>7

(* With nothing to come, a ring to be polled is in the vector, and once. *)
LEMMA NothingToCome ==
  ASSUME NEW S, NEW s \in Seq(S), NEW x, Chained(<<>>, s, x)
  PROVE  /\ Present(<<>>, s, x) <=> Has(s, x)
         /\ Has(s, x) => Cardinality({k \in DOMAIN s : s[k] = x}) = 1
  <1>1. DOMAIN <<>> = {}
    OBVIOUS
  <1>2. Present(<<>>, s, x) <=> Has(s, x)
    BY <1>1 DEF Present
  <1>3. ASSUME Has(s, x) PROVE Cardinality({k \in DOMAIN s : s[k] = x}) = 1
    <2>1. PICK i \in DOMAIN s : s[i] = x
      BY <1>3 DEF Has
    <2>2. {k \in DOMAIN s : s[k] = x} = {i}
      BY <2>1 DEF Chained, Once
    <2>3. Cardinality({i}) = 1
      BY FS_Singleton
    <2> QED
      BY <2>2, <2>3
  <1> QED
    BY <1>2, <1>3

-----------------------------------------------------------------------------
(* The rings that init_queues hands out.                                    *)

(* The remainder of a multiple and a rest. *)
LEMMA RestOf ==
  ASSUME NEW d \in Nat \ {0}, NEW e \in 0 .. d - 1, NEW k \in Nat
  PROVE  (k * d + e) % d = e
  OBVIOUS

(* Products with a positive factor keep the order. *)
LEMMA TimesOrder ==
  ASSUME NEW d \in Nat \ {0}, NEW j \in Nat, NEW k \in Nat
  PROVE  /\ j * d \in Nat /\ k <= k * d
         /\ j * d = k * d => j = k
         /\ j <= k => j * d <= k * d
  OBVIOUS

(* Every number is a multiple and a rest. *)
LEMMA MultipleAndRest ==
  ASSUME NEW d \in Nat \ {0}, NEW w \in Nat
  PROVE  w % d \in 0 .. d - 1 /\ \E k \in Nat : w = k * d + (w % d)
  <1> DEFINE Sum(k, e) == k * d + e
             P(n) == \E k \in Nat : \E e \in 0 .. d - 1 : n = Sum(k, e)
             T == {n \in Nat : P(n)}
  <1>0. \A k \in Nat : \A e \in 0 .. d - 1 :
          /\ Sum(k, e) \in Nat
          /\ e + 1 < d => Sum(k, e) + 1 = Sum(k, e + 1)
          /\ ~(e + 1 < d) => Sum(k, e) + 1 = Sum(k + 1, 0)
    OBVIOUS
  <1>1. 0 \in T
    <2>1. 0 \in Nat /\ 0 \in 0 .. d - 1 /\ 0 = Sum(0, 0)
      OBVIOUS
    <2>2. P(0)
      BY <2>1
    <2> QED
      BY <2>2
  <1> HIDE DEF Sum
  <1>2. ASSUME NEW n \in T PROVE n + 1 \in T
    <2>1. PICK k \in Nat, e \in 0 .. d - 1 : n = Sum(k, e)
      OBVIOUS
    <2>2. n \in Nat
      OBVIOUS
    <2>3. CASE e + 1 < d
      <3>1. e + 1 \in 0 .. d - 1 /\ n + 1 = Sum(k, e + 1)
        BY <1>0, <2>1, <2>3
      <3> QED
        BY <2>2, <3>1
    <2>4. CASE ~(e + 1 < d)
      <3>1. k + 1 \in Nat /\ 0 \in 0 .. d - 1 /\ n + 1 = Sum(k + 1, 0)
        BY <1>0, <2>1, <2>4
      <3> QED
        BY <2>2, <3>1
    <2> QED
      BY <2>3, <2>4
  <1>3. T \in SUBSET Nat
    OBVIOUS
  <1> HIDE DEF T
  <1>4. T = Nat
    BY <1>1, <1>2, <1>3, Inductive
  <1>5. PICK k \in Nat, e \in 0 .. d - 1 : w = Sum(k, e)
    BY <1>4 DEF T
  <1>6. w % d = e
    BY <1>5, RestOf DEF Sum
  <1>7. w % d \in 0 .. d - 1 /\ w = Sum(k, w % d)
    BY <1>5, <1>6
  <1>8. \E j \in Nat : w = Sum(j, w % d)
    BY <1>7
  <1> QED
    BY <1>7, <1>8 DEF Sum

(* The cores of the k-th round of offloading core e exist while there are   *)
(* cores of e left.                                                         *)
LEMMA RoundCount ==
  ASSUME NEW e \in Offs
  PROVE  LET n == Cardinality({w \in Cores : w % E = e})
         IN  n \in Nat /\ \A k \in Nat : k * E + e < W <=> k < n
  <1> DEFINE K == {k \in Nat : ~(k * E + e < W)}
             C == {w \in Cores : w % E = e}
  <1>0. E \in Nat \ {0} /\ W \in Nat /\ e \in 0 .. E - 1 /\ e \in Nat /\ Cores = 0 .. W - 1
    BY SizesAssumption DEF Offs, Cores
  <1>1. PICK m \in K : \A k \in K : m <= k
    <2>1. W <= W * E /\ W * E \in Nat
      BY <1>0, TimesOrder
    <2>2. W \in K
      BY <1>0, <2>1
    <2>3. K \in SUBSET Nat
      OBVIOUS
    <2> HIDE DEF K
    <2> QED
      BY <2>2, <2>3, LeastElement
  <1>2. m \in Nat /\ ~(m * E + e < W)
    BY <1>1
  <1>3. ASSUME NEW k \in Nat PROVE k * E + e < W <=> k < m
    <2>1. CASE k < m
      <3>1. k \notin K
        BY <1>1, <1>2, <2>1
      <3> QED
        BY <2>1, <3>1
    <2>2. CASE ~(k < m)
      <3>1. m * E <= k * E /\ m * E \in Nat /\ k * E \in Nat
        BY <1>0, <1>2, <2>2, TimesOrder
      <3> QED
        BY <1>0, <1>2, <2>2, <3>1
    <2> QED
      BY <2>1, <2>2
  <1> DEFINE f == [k \in 0 .. m - 1 |-> k * E + e]
  <1>4. f \in Bijection(0 .. m - 1, C)
    <2>1. ASSUME NEW k \in 0 .. m - 1 PROVE k * E + e \in C
      <3>1. k \in Nat /\ k < m /\ k * E \in Nat
        BY <1>0, <1>2, TimesOrder
      <3>2. k * E + e \in Cores
        BY <1>0, <1>3, <3>1
      <3>3. (k * E + e) % E = e
        BY <1>0, <3>1, RestOf
      <3> QED
        BY <3>2, <3>3
    <2>2. ASSUME NEW a \in 0 .. m - 1, NEW b \in 0 .. m - 1, a * E + e = b * E + e PROVE a = b
      <3>1. a * E \in Nat /\ b * E \in Nat /\ a \in Nat /\ b \in Nat /\ (a * E = b * E => a = b)
        BY <1>0, <1>2, TimesOrder
      <3> QED
        BY <1>0, <2>2, <3>1
    <2>3. ASSUME NEW w \in C PROVE \E k \in 0 .. m - 1 : k * E + e = w
      <3>1. w \in Nat /\ w < W /\ w % E = e
        BY <1>0
      <3>2. PICK k \in Nat : w = k * E + (w % E)
        BY <1>0, <3>1, MultipleAndRest
      <3>3. k * E + e = w
        BY <3>1, <3>2
      <3>4. k < m
        BY <1>3, <3>1, <3>3
      <3> QED
        BY <1>2, <3>3, <3>4
    <2> HIDE DEF C
    <2>4. f \in [0 .. m - 1 -> C]
      BY <2>1
    <2>5. \A k \in 0 .. m - 1 : f[k] = k * E + e
      OBVIOUS
    <2> HIDE DEF f
    <2>6. f \in Injection(0 .. m - 1, C)
      <3>1. ASSUME NEW a \in 0 .. m - 1, NEW b \in 0 .. m - 1, f[a] = f[b] PROVE a = b
        <4>1. a * E + e = b * E + e
          BY <2>5, <3>1, Zenon
        <4> QED
          BY <2>2, <4>1, Zenon
      <3> QED
        BY <2>4, <3>1 DEF Injection, IsInjective
    <2>7. f \in Surjection(0 .. m - 1, C)
      BY <2>3, <2>4, <2>5 DEF Surjection
    <2> QED
      BY <2>6, <2>7 DEF Bijection
  <1>5. Cardinality(C) = m
    <2>1. IsFiniteSet(0 .. m - 1) /\ Cardinality(0 .. m - 1) = m
      BY <1>2, FS_Interval
    <2>2. ExistsBijection(0 .. m - 1, C)
      BY <1>4 DEF ExistsBijection
    <2> HIDE DEF C
    <2> QED
      BY <2>1, <2>2, FS_Bijection
  <1> QED
    BY <1>2, <1>3, <1>5

(* What init_queues enqueues for offloading core e. *)
FirstPending(e) ==
    [k \in 1 .. Cardinality({w \in Cores : w % E = e}) |->
        [op |-> "add", ring |-> <<(k - 1) * E + e, 1>>]]

(* It adds the first ring of each core of e, once. *)
LEMMA FirstEntries ==
  ASSUME NEW e \in Offs
  PROVE  /\ FirstPending(e) \in Seq(Entry)
         /\ \A w \in Cores : \A i \in {1, 2} :
               /\ Chained(FirstPending(e), <<>>, <<w, i>>)
               /\ Present(FirstPending(e), <<>>, <<w, i>>) <=> i = 1 /\ e = w % E
  <1> DEFINE n == Cardinality({w \in Cores : w % E = e})
             p == FirstPending(e)
             core(k) == (k - 1) * E + e
  <1>0. E \in Nat \ {0} /\ W \in Nat /\ e \in 0 .. E - 1 /\ e \in Nat /\ Cores = 0 .. W - 1
    BY SizesAssumption DEF Offs, Cores
  <1>1. n \in Nat /\ \A k \in Nat : k * E + e < W <=> k < n
    BY RoundCount
  <1> HIDE DEF n
  <1>2. p = [k \in 1 .. n |-> [op |-> "add", ring |-> <<core(k), 1>>]]
    BY DEF FirstPending, n
  <1>3. \A k \in 1 .. n : core(k) \in Cores /\ core(k) % E = e
    <2> SUFFICES ASSUME NEW k \in 1 .. n PROVE core(k) \in Cores /\ core(k) % E = e
      OBVIOUS
    <2>1. k - 1 \in Nat /\ k - 1 < n
      BY <1>1
    <2>2. (k - 1) * E + e < W /\ (k - 1) * E \in Nat
      BY <1>0, <1>1, <2>1, TimesOrder
    <2>3. core(k) % E = e
      BY <1>0, <2>1, RestOf
    <2> QED
      BY <1>0, <2>2, <2>3
  <1>4. \A j, k \in 1 .. n : core(j) = core(k) => j = k
    <2> SUFFICES ASSUME NEW j \in 1 .. n, NEW k \in 1 .. n, core(j) = core(k) PROVE j = k
      OBVIOUS
    <2>1. j - 1 \in Nat /\ k - 1 \in Nat
      BY <1>1
    <2>2. (j - 1) * E \in Nat /\ (k - 1) * E \in Nat /\ ((j - 1) * E = (k - 1) * E => j - 1 = k - 1)
      BY <1>0, <2>1, TimesOrder
    <2> QED
      BY <1>0, <2>1, <2>2
  <1>5. ASSUME NEW w \in Cores, w % E = e PROVE \E k \in 1 .. n : core(k) = w
    <2>1. w \in Nat /\ w < W
      BY <1>0
    <2>2. PICK j \in Nat : w = j * E + (w % E)
      BY <1>0, <2>1, MultipleAndRest
    <2>3. j * E + e < W /\ w = j * E + e
      BY <1>5, <2>1, <2>2
    <2>4. j + 1 \in 1 .. n /\ (j + 1) - 1 = j
      BY <1>1, <2>3
    <2>5. core(j + 1) = w
      BY <2>3, <2>4
    <2> QED
      BY <2>4, <2>5
  <1> HIDE DEF core, p
  <1>6. p \in Seq(Entry)
    <2>1. \A k \in 1 .. n : [op |-> "add", ring |-> <<core(k), 1>>] \in Entry
      BY <1>3 DEF Entry, Rings
    <2> QED
      BY <1>1, <1>2, <2>1
  <1>7. DOMAIN p = 1 .. n /\ \A k \in 1 .. n : p[k].op = "add" /\ p[k].ring = <<core(k), 1>>
    BY <1>2
  <1>8. DOMAIN <<>> = {}
    OBVIOUS
  <1>9. ASSUME NEW w \in Cores, NEW i \in {1, 2}
        PROVE  /\ Chained(p, <<>>, <<w, i>>)
               /\ Present(p, <<>>, <<w, i>>) <=> i = 1 /\ e = w % E
    <2> DEFINE x == <<w, i>>
    <2>1. ~Has(<<>>, x) /\ Once(<<>>, x)
      BY <1>8 DEF Has, Once
    <2>2. \A k \in 1 .. n : ~Removes(p, k, x) /\ (Adds(p, k, x) <=> i = 1 /\ core(k) = w)
      BY <1>7 DEF Removes, Adds
    <2> HIDE DEF x
    <2>3. NoAddTwice(p, x)
      BY <1>1, <1>4, <1>7, <2>2 DEF NoAddTwice
    <2>4. NoAddHeld(p, <<>>, x)
      BY <2>1 DEF NoAddHeld
    <2>5. Present(p, <<>>, x) <=> \E k \in 1 .. n : i = 1 /\ core(k) = w
      BY <1>7, <2>1, <2>2 DEF Present
    <2>6. (\E k \in 1 .. n : core(k) = w) <=> e = w % E
      BY <1>3, <1>5
    <2> QED
      BY <2>1, <2>3, <2>4, <2>5, <2>6 DEF Chained, x
  <1> QED
    BY <1>6, <1>9 DEF p

(* init_queues establishes the invariant. *)
LEMMA InitIInv ==
  ASSUME Init PROVE IInv
  <1>0. /\ E \in Nat \ {0} /\ W \in Nat \ {0} /\ WORD \in Nat \ {0} /\ RING \in Nat
        /\ MaxEpoch \in Nat
    BY SizesAssumption
  <1>1. RoundRobin \in [Cores -> Offs] /\ \A w \in Cores : RoundRobin[w] = w % E
    <2>1. ASSUME NEW w \in Cores PROVE w % E \in Offs
      <3>1. w \in Nat
        BY <1>0 DEF Cores
      <3> QED
        BY <1>0, <3>1, MultipleAndRest DEF Offs
    <2> QED
      BY <2>1 DEF RoundRobin
  <1>2. pending = [e \in Offs |-> FirstPending(e)]
    BY DEF Init, FirstPending
  <1>3. \A e \in Offs : pending[e] = FirstPending(e) /\ Q[e] = <<>>
    BY <1>2 DEF Init
  <1>4. TypeOK
    <2>1. pending \in [Offs -> Seq(Entry)]
      BY <1>2, FirstEntries
    <2>2. cpc = "idle" /\ cw \in Cores /\ epoch \in 0 .. MaxEpoch
      BY <1>0 DEF Init, Cores
    <2>3. O \in [Cores -> Offs] /\ newO \in [Cores -> Offs] /\ offloading_idx \in [Cores -> Offs]
      BY <1>1 DEF Init
    <2>4. new_offloading \in [Cores -> Offs \union {NONE}]
      BY DEF Init
    <2>5. /\ pc \in [Cores -> WorkerLabels] /\ qi \in [Cores -> {1, 2}]
          /\ opc \in [Offs -> {"remove", "add", "deq"}]
      BY DEF Init, WorkerLabels
    <2>6. myown \in [Cores -> BOOLEAN]
      BY DEF Init
    <2>7. /\ fill \in [Rings -> 0 .. RING] /\ cnt \in [Offs -> 0 .. WORD - 1]
      BY <1>0 DEF Init
    <2>8. Q \in [Offs -> Seq(Rings)]
      BY DEF Init
    <2>9. raced \in BOOLEAN /\ moved \in BOOLEAN
      BY Zenon DEF Init
    <2>10. /\ transfer_r = {} /\ transfer_offloading = {} /\ transfer_shard = {} /\ controller_signal = {}
           /\ overtaken = {} /\ returned = {} /\ cut = {}
      BY DEF Init
    <2> QED
      BY <2>1, <2>2, <2>3, <2>4, <2>5, <2>6, <2>7, <2>8, <2>9, <2>10 DEF TypeOK
  <1>5. Protocol
    BY DEF Init, Protocol, HasRing, TellsNew, SignalledOnly, PlanQuiet, StartsFirst,
           TransferAsked, TransferDone, AskedSignalled, Idling, ForNewCore, AfterNewCore
  <1>6. Polls
    <2> SUFFICES ASSUME NEW w \in Cores PROVE ChainedOf(w) /\ OnlyOf(w) /\ PolledOf(w)
      BY DEF Polls
    <2>1. qi[w] = 1 /\ offloading_idx[w] = w % E /\ O = offloading_idx /\ pc[w] \notin Gap /\ w % E \in Offs
      BY <1>1 DEF Init, Gap
    <2>2. ChainedOf(w)
      BY <1>3, FirstEntries DEF ChainedOf
    <2>3. OnlyOf(w)
      BY <1>3, <2>1, FirstEntries DEF OnlyOf
    <2>4. PolledOf(w)
      <3> DEFINE e == w % E
      <3>1. e \in Offs /\ e = w % E /\ offloading_idx[w] = e
        BY <2>1
      <3> HIDE DEF e
      <3>2. Present(FirstPending(e), <<>>, <<w, 1>>)
        BY <3>1, FirstEntries
      <3>3. Present(pending[e], Q[e], <<w, 1>>)
        BY <1>3, <3>1, <3>2
      <3> QED
        BY <2>1, <3>1, <3>3 DEF PolledOf, q
    <2> QED
      BY <2>2, <2>3, <2>4
  <1> QED
    BY <1>4, <1>5, <1>6 DEF IInv

-----------------------------------------------------------------------------
(* What the parts of an action do.                                          *)

(* The rings of a core. *)
LEMMA RingTypes ==
  ASSUME TypeOK, NEW w \in Cores
  PROVE  q(w) \in Rings /\ myring(w) \in Rings /\ qi[w] \in {1, 2} /\ 3 - qi[w] \in {1, 2}
  <1>1. qi[w] \in {1, 2}
    BY DEF TypeOK
  <1>2. 3 - qi[w] \in {1, 2}
    BY <1>1
  <1> QED
    BY <1>1, <1>2 DEF q, myring, Rings

(* An offloading core takes from a ring. *)
LEMMA ChooseType ==
  ASSUME TypeOK, HasRing, NEW e \in Offs, opc[e] = "deq"
  PROVE  choose(e) \in Rings
  <1> DEFINE s == Q[e]
             c == cnt[e]
  <1>1. s \in Seq(Rings) /\ s # <<>> /\ c \in Nat
    BY SizesAssumption DEF TypeOK, HasRing
  <1>2. choose(e) = s[(c % Len(s)) + 1]
    BY DEF choose
  <1> HIDE DEF s, c
  <1>3. Len(s) \in Nat \ {0}
    BY <1>1
  <1>4. c % Len(s) \in 0 .. Len(s) - 1
    BY <1>1, <1>3, MultipleAndRest
  <1>5. (c % Len(s)) + 1 \in 1 .. Len(s)
    BY <1>3, <1>4
  <1> QED
    BY <1>1, <1>2, <1>5

(* A dequeue leaves a number of packets that fits the ring ... *)
LEMMA LeftType ==
  ASSUME TypeOK, NEW x \in Rings, NEW n
  PROVE  Left(x, n) \subseteq 0 .. RING
  <1>1. fill[x] \in 0 .. RING /\ BURST \in Nat /\ RING \in Nat
    BY SizesAssumption DEF TypeOK
  <1> QED
    BY <1>1 DEF Left, Lesser

(* ... and so does an enqueue. *)
LEMMA LesserType ==
  ASSUME NEW a \in Nat
  PROVE  Lesser(RING, a) \in 0 .. RING /\ Lesser(BURST, a) \in Nat
  BY SizesAssumption DEF Lesser

(* A core asks the offloading core it names to remove q ... *)
LEMMA EnqueueRemove ==
  ASSUME TypeOK, NEW w \in Cores, pc[w] \in {"rRemove", "oRemove", "sRemove"}, Enqueue(w)
  PROVE  /\ pending' = [pending EXCEPT ![offloading_idx[w]] =
                           Append(pending[offloading_idx[w]], [op |-> "remove", ring |-> q(w)])]
         /\ (raced => raced') /\ raced' \in BOOLEAN
  <1>1. Target(w)[1] = "remove" /\ Target(w)[2] = offloading_idx[w]
    BY DEF Target
  <1>2. raced' = (raced \/ \E v \in Cores \ {w} : Target(v) = Target(w))
    BY Zenon DEF Enqueue
  <1>3. (raced => raced') /\ raced' \in BOOLEAN
    BY <1>2, Zenon
  <1> QED
    BY <1>1, <1>3 DEF Enqueue

(* ... and to add it, ... *)
LEMMA EnqueueAdd ==
  ASSUME TypeOK, NEW w \in Cores, pc[w] \in {"rAdd", "sAdd"}, Enqueue(w)
  PROVE  /\ pending' = [pending EXCEPT ![offloading_idx[w]] =
                           Append(pending[offloading_idx[w]], [op |-> "add", ring |-> q(w)])]
         /\ (raced => raced') /\ raced' \in BOOLEAN
  <1>1. Target(w)[1] = "add" /\ Target(w)[2] = offloading_idx[w]
    BY DEF Target
  <1>2. raced' = (raced \/ \E v \in Cores \ {w} : Target(v) = Target(w))
    BY Zenon DEF Enqueue
  <1>3. (raced => raced') /\ raced' \in BOOLEAN
    BY <1>2, Zenon
  <1> QED
    BY <1>1, <1>3 DEF Enqueue

(* ... or the one it has been given. *)
LEMMA EnqueueNew ==
  ASSUME TypeOK, TellsNew, TransferAsked, NEW w \in Cores, pc[w] = "oAdd", Enqueue(w)
  PROVE  /\ w \in transfer_offloading /\ new_offloading[w] = O[w]
         /\ pending' = [pending EXCEPT ![O[w]] =
                           Append(pending[O[w]], [op |-> "add", ring |-> q(w)])]
         /\ (raced => raced') /\ raced' \in BOOLEAN
  <1>0. w \in transfer_offloading /\ new_offloading[w] = O[w]
    BY DEF TellsNew, TransferAsked, ForNewCore
  <1>1. Target(w)[1] = "add" /\ Target(w)[2] = O[w]
    BY <1>0 DEF Target
  <1>2. raced' = (raced \/ \E v \in Cores \ {w} : Target(v) = Target(w))
    BY Zenon DEF Enqueue
  <1>3. (raced => raced') /\ raced' \in BOOLEAN
    BY <1>2, Zenon
  <1> QED
    BY <1>0, <1>1, <1>3 DEF Enqueue

(* The control queues keep their type. *)
LEMMA PendingType ==
  ASSUME TypeOK, NEW e \in Offs, NEW w \in Cores, NEW op \in {"remove", "add"}
  PROVE  /\ [op |-> op, ring |-> q(w)] \in Entry
         /\ [pending EXCEPT ![e] = Append(pending[e], [op |-> op, ring |-> q(w)])]
               \in [Offs -> Seq(Entry)]
  <1>1. [op |-> op, ring |-> q(w)] \in Entry
    BY RingTypes DEF Entry
  <1>2. pending \in [Offs -> Seq(Entry)]
    BY DEF TypeOK
  <1>3. Append(pending[e], [op |-> op, ring |-> q(w)]) \in Seq(Entry)
    BY <1>1, <1>2
  <1> QED
    BY <1>1, <1>2, <1>3

(* An offloading core takes the first entry of a kind. *)
LEMMA TakeEntryTakes ==
  ASSUME TypeOK, NEW e \in Offs, NEW op, Of(e, op) # {}, TakeEntry(e, op)
  PROVE  \E k \in 1 .. Len(pending[e]) :
            /\ pending[e][k] \in Entry /\ pending[e][k].op = op
            /\ pending' = [pending EXCEPT ![e] = Taken(pending[e], k)]
            /\ overtaken' = IF \E j \in 1 .. k - 1 : pending[e][j].ring = pending[e][k].ring
                            THEN overtaken \union {pending[e][k].ring} ELSE overtaken
            /\ Q' = [Q EXCEPT ![e] = IF op = "add" THEN Append(Q[e], pending[e][k].ring)
                                     ELSE Without(Q[e], pending[e][k].ring)]
  <1> DEFINE k == CHOOSE i \in Of(e, op) : \A j \in Of(e, op) : i <= j
  <1>1. pending[e] \in Seq(Entry)
    BY DEF TypeOK
  <1>2. Of(e, op) \subseteq 1 .. Len(pending[e]) /\ Of(e, op) \in SUBSET Nat
    BY <1>1 DEF Of
  <1>3. k \in Of(e, op)
    <2>1. \E i \in Of(e, op) : \A j \in Of(e, op) : i <= j
      BY <1>2, LeastElement
    <2> QED
      BY <2>1
  <1>4. /\ pending' = [pending EXCEPT ![e] = Taken(pending[e], k)]
        /\ overtaken' = IF \E j \in 1 .. k - 1 : pending[e][j].ring = pending[e][k].ring
                        THEN overtaken \union {pending[e][k].ring} ELSE overtaken
        /\ Q' = [Q EXCEPT ![e] = IF op = "add" THEN Append(Q[e], pending[e][k].ring)
                                 ELSE Without(Q[e], pending[e][k].ring)]
    BY DEF TakeEntry, Taken
  <1> HIDE DEF k
  <1>5. k \in 1 .. Len(pending[e]) /\ pending[e][k].op = op /\ pending[e][k] \in Entry
    <2>1. k \in 1 .. Len(pending[e])
      BY <1>2, <1>3
    <2>2. pending[e][k].op = op
      BY <1>3 DEF Of
    <2> QED
      BY <1>1, <2>1, <2>2
  <1> QED
    BY <1>4, <1>5

-----------------------------------------------------------------------------
(* Types.                                                                   *)

(* The controller keeps the types. *)
LEMMA TypeController ==
  ASSUME TypeOK, CtlRatio \/ Controller PROVE TypeOK'
  <1>0. W \in Nat \ {0} /\ MaxEpoch \in Nat /\ RatioCores \subseteq Cores /\ ShardCores \subseteq Cores /\ Cores = 0 .. W - 1
    BY SizesAssumption DEF Cores
  <1>1. CASE CtlRatio
    <2>1. /\ cpc' \in {"idle", "relate", "shards", "same", "signal"} /\ cw' \in Cores
          /\ epoch' \in 0 .. MaxEpoch /\ newO' \in [Cores -> Offs] /\ transfer_r' \subseteq Cores
      <3>1. cpc' \in {"idle", "relate", "shards", "same", "signal"}
        BY <1>1 DEF CtlRatio
      <3>2. cw' \in Cores
        BY <1>0, <1>1 DEF CtlRatio
      <3>3. epoch' \in 0 .. MaxEpoch
        BY <1>0, <1>1 DEF CtlRatio, TypeOK
      <3>4. newO' \in [Cores -> Offs]
        BY <1>1 DEF CtlRatio, Feasible
      <3>5. transfer_r' \subseteq Cores
        BY <1>0, <1>1 DEF CtlRatio
      <3> QED
        BY <3>1, <3>2, <3>3, <3>4, <3>5
    <2> QED
      BY <1>1, <2>1 DEF TypeOK, CtlRatio, wvars, ovars, hvars
  <1>2. ASSUME NEW a, NEW b, CtlNext(a, b) PROVE cpc' \in {a, b} /\ cw' \in Cores
    <2>1. cw \in Cores
      BY DEF TypeOK
    <2> QED
      BY <1>0, <1>2, <2>1 DEF CtlNext
  <1>3. CASE CtlRelate
    <2>1. cpc' \in {"relate", "shards"} /\ cw' \in Cores
      BY <1>2, <1>3 DEF CtlRelate
    <2>2. cw \in Cores /\ newO[cw] \in Offs /\ O[cw] \in Offs
      BY DEF TypeOK
    <2>3. pending' \in [Offs -> Seq(Entry)]
      BY <1>3, <2>2, PendingType DEF CtlRelate, TypeOK
    <2>4. /\ new_offloading' \in [Cores -> Offs \union {NONE}] /\ transfer_offloading' \subseteq Cores
          /\ returned' \subseteq Cores /\ O' \in [Cores -> Offs]
      BY <1>3, <2>2 DEF CtlRelate, TypeOK
    <2> QED
      BY <1>3, <2>1, <2>3, <2>4 DEF TypeOK, CtlRelate, wvars, ovars
  <1>4. CASE CtlShards
    <2>1. cpc' \in {"idle", "signal"} /\ transfer_shard' \subseteq Cores
      BY <1>0, <1>4 DEF CtlShards
    <2>2. moved' \in BOOLEAN
      BY <1>4, Zenon DEF CtlShards
    <2> QED
      BY <1>4, <2>1, <2>2 DEF TypeOK, CtlShards, wvars, ovars
  <1>5. CASE CtlSignal
    <2>1. cpc' \in {"signal", "idle"} /\ cw' \in Cores
      BY <1>2, <1>5 DEF CtlSignal
    <2>2. cw \in Cores /\ controller_signal' \subseteq Cores
      BY <1>5 DEF CtlSignal, TypeOK
    <2> QED
      BY <1>5, <2>1, <2>2 DEF TypeOK, CtlSignal, wvars, ovars, hvars
  <1> QED
    BY <1>1, <1>3, <1>4, <1>5 DEF Controller

(* Where a core goes next is a label. *)
LEMMA LabelTypes ==
  ASSUME NEW w
  PROVE  /\ AfterRatio(w) \in {"oRemove", "sRemove", "clear"}
         /\ AfterOffloading(w) \in {"sRemove", "clear"}
         /\ {"oRemove", "sRemove", "clear"} \subseteq WorkerLabels
  BY DEF AfterRatio, AfterOffloading, WorkerLabels

(* A working core keeps the types. *)
LEMMA TypeWorker ==
  ASSUME TypeOK, Protocol, NEW w \in Cores, Worker(w) PROVE TypeOK'
  <1>0. /\ q(w) \in Rings /\ myring(w) \in Rings /\ qi[w] \in {1, 2} /\ 3 - qi[w] \in {1, 2}
        /\ offloading_idx[w] \in Offs /\ O[w] \in Offs
    BY RingTypes DEF TypeOK
  <1>a. \A l \in WorkerLabels : [pc EXCEPT ![w] = l] \in [Cores -> WorkerLabels]
    BY DEF TypeOK
  <1>b. \A b \in BOOLEAN : [myown EXCEPT ![w] = b] \in [Cores -> BOOLEAN]
    BY DEF TypeOK
  <1>c. \A x \in Rings : \A n \in 0 .. RING : [fill EXCEPT ![x] = n] \in [Rings -> 0 .. RING]
    BY DEF TypeOK
  <1>d. AfterRatio(w) \in WorkerLabels /\ AfterOffloading(w) \in WorkerLabels
    BY LabelTypes
  <1>e. \A x \in Rings : fill[x] \in 0 .. RING /\ fill[x] \in Nat
    BY DEF TypeOK
  <1>1. CASE Drain(w)
    <2>1. pc' \in [Cores -> WorkerLabels]
      <3>1. pc' = pc \/ pc' = [pc EXCEPT ![w] = "own"]
        BY <1>1 DEF Drain, Goto
      <3>2. "own" \in WorkerLabels
        BY DEF WorkerLabels
      <3> QED
        BY <1>a, <3>1, <3>2 DEF TypeOK
    <2>2. myown' \in [Cores -> BOOLEAN]
      BY <1>1, <1>b DEF Drain, TypeOK
    <2> QED
      BY <1>1, <2>1, <2>2 DEF TypeOK, Drain, cvars, flagvars, ovars, hvars
  <1>2. CASE Signalled(w)
    <2>1. pc' \in [Cores -> WorkerLabels]
      BY <1>2, <1>a, <1>d DEF Signalled, Goto, WorkerLabels
    <2> QED
      BY <1>2, <2>1 DEF TypeOK, Signalled, cvars, flagvars, wvars, ovars, hvars
  <1>3. CASE OwnBurst(w)
    <2>1. pc' \in [Cores -> WorkerLabels]
      BY <1>3, <1>a DEF OwnBurst, Goto, WorkerLabels
    <2>2. fill' \in [Rings -> 0 .. RING]
      BY <1>0, <1>3, <1>c, LeftType DEF OwnBurst, WorkerTakes
    <2> QED
      BY <1>3, <2>1, <2>2 DEF TypeOK, OwnBurst, cvars, flagvars, wvars, ovars, hvars
  <1>4. CASE TransferR(w)
    <2>1. pc' \in [Cores -> WorkerLabels]
      BY <1>4, <1>a, <1>d DEF TransferR, Goto, WorkerLabels
    <2>2. transfer_r' \subseteq Cores
      BY <1>4 DEF TransferR, TypeOK
    <2> QED
      BY <1>4, <2>1, <2>2 DEF TypeOK, TransferR, cvars, wvars, ovars, hvars
  <1>5. CASE SwapRings(w)
    <2>1. pc' \in [Cores -> WorkerLabels]
      BY <1>5, <1>a DEF SwapRings, Goto, WorkerLabels
    <2>2. myown' \in [Cores -> BOOLEAN]
      BY <1>5, <1>b DEF SwapRings
    <2>3. qi' \in [Cores -> {1, 2}]
      BY <1>0, <1>5 DEF SwapRings, TypeOK
    <2>4. pending' \in [Offs -> Seq(Entry)] /\ raced' \in BOOLEAN
      <3>1. pc[w] \in {"rRemove", "oRemove", "sRemove"} /\ Enqueue(w)
        BY <1>5 DEF SwapRings
      <3>2. raced' \in BOOLEAN
        BY <3>1, EnqueueRemove, Zenon
      <3>3. pending' = [pending EXCEPT ![offloading_idx[w]] =
                          Append(pending[offloading_idx[w]], [op |-> "remove", ring |-> q(w)])]
        BY <3>1, EnqueueRemove
      <3>4. pending' \in [Offs -> Seq(Entry)]
        BY <1>0, <3>3, PendingType
      <3> QED
        BY <3>2, <3>4
    <2> QED
      BY <1>5, <2>1, <2>2, <2>3, <2>4 DEF TypeOK, SwapRings, cvars, flagvars, ovars
  <1>6. CASE AddSwapped(w)
    <2>1. pc' \in [Cores -> WorkerLabels]
      BY <1>6, <1>a, <1>d DEF AddSwapped, Goto
    <2>2. transfer_r' \subseteq Cores
      BY <1>6 DEF AddSwapped, TypeOK
    <2>3. pending' \in [Offs -> Seq(Entry)] /\ raced' \in BOOLEAN
      <3>1. pc[w] \in {"rAdd", "sAdd"} /\ Enqueue(w)
        BY <1>6 DEF AddSwapped
      <3>2. raced' \in BOOLEAN
        BY <3>1, EnqueueAdd, Zenon
      <3>3. pending' = [pending EXCEPT ![offloading_idx[w]] =
                          Append(pending[offloading_idx[w]], [op |-> "add", ring |-> q(w)])]
        BY <3>1, EnqueueAdd
      <3>4. pending' \in [Offs -> Seq(Entry)]
        BY <1>0, <3>3, PendingType
      <3> QED
        BY <3>2, <3>4
    <2> QED
      BY <1>6, <2>1, <2>2, <2>3 DEF TypeOK, AddSwapped, cvars, wvars, ovars
  <1>7. CASE RemoveQ(w)
    <2>1. pc' \in [Cores -> WorkerLabels]
      BY <1>7, <1>a DEF RemoveQ, Goto, WorkerLabels
    <2>2. myown' \in [Cores -> BOOLEAN]
      BY <1>7, <1>b DEF RemoveQ, TypeOK
    <2>3. fill' \in [Rings -> 0 .. RING]
      <3>1. CASE UNCHANGED fill
        BY <3>1 DEF TypeOK
      <3>2. CASE \E n \in 0 .. RING : fill' = [fill EXCEPT ![myring(w)] = Lesser(RING, @ + n)]
        <4>1. PICK n \in 0 .. RING : fill' = [fill EXCEPT ![myring(w)] = Lesser(RING, fill[myring(w)] + n)]
          BY <3>2
        <4>2. fill[myring(w)] + n \in Nat
          BY <1>0, <1>e
        <4>3. Lesser(RING, fill[myring(w)] + n) \in 0 .. RING
          BY <4>2, LesserType
        <4> QED
          BY <1>0, <1>c, <4>1, <4>3
      <3> QED
        BY <1>7, <3>1, <3>2 DEF RemoveQ
    <2>4. pending' \in [Offs -> Seq(Entry)] /\ raced' \in BOOLEAN
      <3>1. pc[w] \in {"rRemove", "oRemove", "sRemove"} /\ Enqueue(w)
        BY <1>7 DEF RemoveQ
      <3>2. raced' \in BOOLEAN
        BY <3>1, EnqueueRemove, Zenon
      <3>3. pending' = [pending EXCEPT ![offloading_idx[w]] =
                          Append(pending[offloading_idx[w]], [op |-> "remove", ring |-> q(w)])]
        BY <3>1, EnqueueRemove
      <3>4. pending' \in [Offs -> Seq(Entry)]
        BY <1>0, <3>3, PendingType
      <3> QED
        BY <3>2, <3>4
    <2> QED
      BY <1>7, <2>1, <2>2, <2>3, <2>4 DEF TypeOK, RemoveQ, cvars, flagvars, ovars
  <1>8. CASE CountQ(w)
    <2>1. pc' \in [Cores -> WorkerLabels]
      BY <1>8, <1>a DEF CountQ, Goto, WorkerLabels
    <2>2. myown' \in [Cores -> BOOLEAN]
      <3>1. myown' = [myown EXCEPT ![w] = (myown[w] \/ fill[q(w)] # 0)]
        BY <1>8, Zenon DEF CountQ
      <3>2. (myown[w] \/ fill[q(w)] # 0) \in BOOLEAN
        BY Zenon
      <3> QED
        BY <1>b, <3>1, <3>2, Zenon
    <2> QED
      BY <1>8, <2>1, <2>2 DEF TypeOK, CountQ, cvars, flagvars, ovars, hvars
  <1>9. CASE MoveQ(w)
    <2>1. pc' \in [Cores -> WorkerLabels]
      BY <1>9, <1>a DEF MoveQ, Goto, WorkerLabels
    <2>2. fill' \in [Rings -> 0 .. RING]
      <3>1. PICK n \in WorkerTakes(q(w)) :
              fill' = [fill EXCEPT ![q(w)] = n,
                                   ![myring(w)] = Lesser(RING, @ + Lesser(BURST, fill[q(w)]))]
        BY <1>9 DEF MoveQ
      <3>2. n \in 0 .. RING
        BY <1>0, LeftType DEF WorkerTakes
      <3> DEFINE a == q(w)
                 b == myring(w)
                 m == Lesser(RING, fill[b] + Lesser(BURST, fill[a]))
      <3>3. a # b
        BY <1>0 DEF q, myring
      <3>4. fill[b] \in Nat /\ Lesser(BURST, fill[a]) \in Nat
        BY <1>0, <1>e, LesserType
      <3>5. m \in 0 .. RING
        BY <3>4, LesserType
      <3>6. fill' = [fill EXCEPT ![a] = n, ![b] = m]
        BY <1>0, <3>1, <3>3
      <3> HIDE DEF a, b, m
      <3> QED
        BY <3>2, <3>5, <3>6 DEF TypeOK
    <2> QED
      BY <1>9, <2>1, <2>2 DEF TypeOK, MoveQ, cvars, flagvars, wvars, ovars, hvars
  <1>10. CASE EndOffloading(w)
    <2>1. pc' \in [Cores -> WorkerLabels]
      BY <1>10, <1>a, <1>d DEF EndOffloading, Goto
    <2>2. /\ pending' \in [Offs -> Seq(Entry)] /\ raced' \in BOOLEAN
          /\ new_offloading[w] = O[w]
      <3>1. pc[w] = "oAdd" /\ Enqueue(w) /\ TellsNew /\ TransferAsked
        BY <1>10 DEF EndOffloading, Protocol
      <3>2. raced' \in BOOLEAN
        BY <3>1, EnqueueNew, Zenon
      <3>3. /\ new_offloading[w] = O[w]
            /\ pending' = [pending EXCEPT ![O[w]] =
                              Append(pending[O[w]], [op |-> "add", ring |-> q(w)])]
        BY <3>1, EnqueueNew
      <3>4. pending' \in [Offs -> Seq(Entry)]
        BY <1>0, <3>3, PendingType
      <3> QED
        BY <3>2, <3>3, <3>4
    <2>3. /\ offloading_idx' \in [Cores -> Offs] /\ new_offloading' \in [Cores -> Offs \union {NONE}]
          /\ transfer_offloading' \subseteq Cores
      BY <1>0, <1>10, <2>2 DEF EndOffloading, TypeOK
    <2> QED
      BY <1>10, <2>1, <2>2, <2>3 DEF TypeOK, EndOffloading, cvars, ovars
  <1>11. CASE EndShard(w)
    <2>1. pc' \in [Cores -> WorkerLabels]
      BY <1>11, <1>a DEF EndShard, Goto, WorkerLabels
    <2>2. transfer_shard' \subseteq Cores
      BY <1>11 DEF EndShard, TypeOK
    <2>3. pending' \in [Offs -> Seq(Entry)] /\ raced' \in BOOLEAN
      <3>1. pc[w] \in {"rAdd", "sAdd"} /\ Enqueue(w)
        BY <1>11 DEF EndShard
      <3>2. raced' \in BOOLEAN
        BY <3>1, EnqueueAdd, Zenon
      <3>3. pending' = [pending EXCEPT ![offloading_idx[w]] =
                          Append(pending[offloading_idx[w]], [op |-> "add", ring |-> q(w)])]
        BY <3>1, EnqueueAdd
      <3>4. pending' \in [Offs -> Seq(Entry)]
        BY <1>0, <3>3, PendingType
      <3> QED
        BY <3>2, <3>4
    <2> QED
      BY <1>11, <2>1, <2>2, <2>3 DEF TypeOK, EndShard, cvars, wvars, ovars
  <1>12. CASE ClearSignal(w)
    <2>1. pc' \in [Cores -> WorkerLabels]
      BY <1>12, <1>a DEF ClearSignal, Goto, WorkerLabels
    <2>2. controller_signal' \subseteq Cores
      BY <1>12 DEF ClearSignal, TypeOK
    <2> QED
      BY <1>12, <2>1, <2>2 DEF TypeOK, ClearSignal, cvars, wvars, ovars, hvars
  <1>13. CASE Process(w)
    <2>1. pc' \in [Cores -> WorkerLabels]
      BY <1>13, <1>a DEF Process, Goto, WorkerLabels
    <2>2. myown' \in [Cores -> BOOLEAN]
      BY <1>13, <1>b DEF Process, TypeOK
    <2>3. cut' \subseteq Cores
      BY <1>13 DEF Process, TypeOK
    <2>4. fill' \in [Rings -> 0 .. RING]
      <3>1. CASE UNCHANGED fill
        BY <3>1 DEF TypeOK
      <3>2. CASE fill' = [fill EXCEPT ![q(w)] = Lesser(RING, @ + 1)]
        <4>1. Lesser(RING, fill[q(w)] + 1) \in 0 .. RING
          BY <1>0, <1>e, LesserType
        <4> QED
          BY <1>0, <1>c, <3>2, <4>1
      <3> QED
        BY <1>13, <3>1, <3>2 DEF Process
    <2> QED
      BY <1>13, <2>1, <2>2, <2>3, <2>4 DEF TypeOK, Process, cvars, flagvars, ovars
  <1> QED
    BY <1>1, <1>2, <1>3, <1>4, <1>5, <1>6, <1>7, <1>8, <1>9, <1>10, <1>11, <1>12, <1>13 DEF Worker

(* An offloading core keeps the types. *)
LEMMA TypeOffloader ==
  ASSUME TypeOK, Protocol, NEW e \in Offs, Offloader(e) PROVE TypeOK'
  <1>1. CASE Control(e)
    <2>0. Of(e, opc[e]) # {} /\ TakeEntry(e, opc[e])
      BY <1>1 DEF Control
    <2>1. PICK k \in 1 .. Len(pending[e]) :
            /\ pending[e][k] \in Entry
            /\ pending' = [pending EXCEPT ![e] = Taken(pending[e], k)]
            /\ overtaken' = IF \E j \in 1 .. k - 1 : pending[e][j].ring = pending[e][k].ring
                            THEN overtaken \union {pending[e][k].ring} ELSE overtaken
            /\ Q' = [Q EXCEPT ![e] = IF opc[e] = "add" THEN Append(Q[e], pending[e][k].ring)
                                     ELSE Without(Q[e], pending[e][k].ring)]
      BY <2>0, TakeEntryTakes
    <2> DEFINE x == pending[e][k].ring
    <2>2. x \in Rings
      BY <2>1 DEF Entry
    <2>3. pending[e] \in Seq(Entry) /\ Q[e] \in Seq(Rings)
      BY DEF TypeOK
    <2>4. Taken(pending[e], k) \in Seq(Entry)
      BY <2>3, TakenElements
    <2>5. Append(Q[e], x) \in Seq(Rings) /\ Without(Q[e], x) \in Seq(Rings)
      BY <2>2, <2>3, WithoutLeaves
    <2> HIDE DEF x
    <2>6. pending' \in [Offs -> Seq(Entry)]
      BY <2>1, <2>4 DEF TypeOK
    <2>7. Q' \in [Offs -> Seq(Rings)]
      BY <2>1, <2>5 DEF TypeOK, x
    <2>8. overtaken' \subseteq Rings
      BY <2>1, <2>2 DEF TypeOK, x
    <2> QED
      BY <1>1, <2>6, <2>7, <2>8 DEF TypeOK, Control, cvars, flagvars, wvars
  <1>2. CASE ControlEmpty(e)
    <2>1. opc' \in [Offs -> {"remove", "add", "deq"}]
      BY <1>2 DEF ControlEmpty, TypeOK
    <2> QED
      BY <1>2, <2>1 DEF TypeOK, ControlEmpty, cvars, flagvars, wvars, hvars
  <1>3. CASE OffBurst(e)
    <2>1. opc' \in [Offs -> {"remove", "add", "deq"}]
      BY <1>3 DEF OffBurst, TypeOK
    <2>2. choose(e) \in Rings
      BY <1>3, ChooseType DEF OffBurst, Protocol
    <2>3. fill' \in [Rings -> 0 .. RING]
      <3> DEFINE n == Cardinality(Polling(choose(e))) + (IF Taking(choose(e)) THEN 1 ELSE 0)
      <3>1. PICK k \in Left(choose(e), n) : fill' = [fill EXCEPT ![choose(e)] = k]
        BY <1>3 DEF OffBurst
      <3>2. k \in 0 .. RING
        BY <2>2, LeftType
      <3> QED
        BY <2>2, <3>1, <3>2 DEF TypeOK
    <2>4. (cnt[e] + 1) % WORD \in 0 .. WORD - 1
      <3>1. cnt[e] + 1 \in Nat /\ WORD \in Nat \ {0}
        BY SizesAssumption DEF TypeOK
      <3> QED
        BY <3>1, MultipleAndRest
    <2>5. cnt' \in [Offs -> 0 .. WORD - 1]
      BY <1>3, <2>4 DEF OffBurst, TypeOK
    <2> QED
      BY <1>3, <2>1, <2>3, <2>5 DEF TypeOK, OffBurst, cvars, flagvars, wvars, hvars
  <1> QED
    BY <1>1, <1>2, <1>3 DEF Offloader

-----------------------------------------------------------------------------
(* The protocol of signals and transfers.                                   *)

(* What a step of core w to label l must respect. *)
LEMMA ProtocolGoto ==
  ASSUME TypeOK, Protocol, NEW w \in Cores, NEW l,
         pc' = [pc EXCEPT ![w] = l],
         UNCHANGED <<cpc, cw, O, opc, Q>>,
         l \notin Idling => w \in controller_signal',
         \/ controller_signal' = controller_signal
         \/ controller_signal' = controller_signal \ {w} /\ w \notin transfer_offloading,
         \/ transfer_offloading' = transfer_offloading /\ new_offloading' = new_offloading
         \/ /\ transfer_offloading' = transfer_offloading \ {w}
            /\ new_offloading' = [new_offloading EXCEPT ![w] = NONE],
         l \in ForNewCore => w \in transfer_offloading',
         l \in AfterNewCore => w \notin transfer_offloading',
         cpc \in {"relate", "shards", "same"} =>
            l \in {"top", "process"} /\ myown' = myown
  PROVE  Protocol'
  <1>0. pc \in [Cores -> WorkerLabels] /\ transfer_offloading \subseteq Cores /\ controller_signal \subseteq Cores
    BY DEF TypeOK
  <1>1. pc'[w] = l /\ \A v \in Cores : v # w => pc'[v] = pc[v]
    BY <1>0
  <1>a. /\ \A v : v # w => (v \in controller_signal' <=> v \in controller_signal)
        /\ \A v : v \in controller_signal' => v \in controller_signal
    OBVIOUS
  <1>b. /\ \A v : v # w => (v \in transfer_offloading' <=> v \in transfer_offloading)
        /\ \A v : v \in transfer_offloading' => v \in transfer_offloading
        /\ \A v \in transfer_offloading' : new_offloading'[v] = new_offloading[v]
    BY <1>0 DEF TypeOK
  <1>2. HasRing'
    BY DEF Protocol, HasRing
  <1>3. TellsNew'
    BY <1>b DEF Protocol, TellsNew
  <1>4. SignalledOnly'
    BY <1>1, <1>a DEF Protocol, SignalledOnly
  <1>5. PlanQuiet'
    <2> SUFFICES ASSUME cpc' \in {"relate", "shards", "same"}, NEW v \in Cores PROVE Quiet(v)'
      BY DEF PlanQuiet
    <2>1. Quiet(v)
      BY DEF Protocol, PlanQuiet
    <2>2. myown' = myown /\ l \in {"top", "process"}
      OBVIOUS
    <2>3. v \notin controller_signal' /\ pc'[v] \in {"top", "process"}
      BY <1>1, <1>a, <2>1, <2>2 DEF Quiet
    <2>4. ~myown'[v]
      BY <2>1, <2>2 DEF Quiet
    <2> QED
      BY <2>3, <2>4 DEF Quiet
  <1>6. StartsFirst'
    BY DEF Protocol, StartsFirst
  <1>7. TransferAsked'
    BY <1>1, <1>b DEF Protocol, TransferAsked
  <1>8. TransferDone'
    BY <1>1, <1>b DEF Protocol, TransferDone
  <1>9. AskedSignalled'
    <2> SUFFICES ASSUME NEW v \in transfer_offloading'
                 PROVE  /\ cpc' = "idle" => v \in controller_signal'
                        /\ cpc' = "relate" => v < cw'
                        /\ cpc' # "same"
                        /\ cpc' = "signal" => v \in controller_signal' \/ cw' <= v
      BY DEF AskedSignalled
    <2>1. v \in transfer_offloading /\ (v \in controller_signal => v \in controller_signal')
      BY <1>b
    <2> QED
      BY <2>1 DEF Protocol, AskedSignalled
  <1> QED
    BY <1>2, <1>3, <1>4, <1>5, <1>6, <1>7, <1>8, <1>9 DEF Protocol

(* The label a core goes to when the ratio is done. *)
LEMMA AfterRatioLabel ==
  ASSUME NEW w
  PROVE  /\ AfterRatio(w) \notin Idling
         /\ AfterRatio(w) \in ForNewCore => w \in transfer_offloading
         /\ AfterRatio(w) \in AfterNewCore => w \notin transfer_offloading
         /\ AfterOffloading(w) \notin Idling /\ AfterOffloading(w) \notin ForNewCore
         /\ AfterRatio(w) \notin Gap /\ AfterOffloading(w) \notin Gap
  BY DEF AfterRatio, AfterOffloading, Idling, ForNewCore, AfterNewCore, Gap

(* A working core keeps to the protocol. *)
LEMMA ProtocolWorker ==
  ASSUME TypeOK, Protocol, NEW w \in Cores, Worker(w) PROVE Protocol'
  <1>0. /\ pc \in [Cores -> WorkerLabels]
        /\ pc[w] \notin Idling => w \in controller_signal
        /\ pc[w] \in ForNewCore => w \in transfer_offloading
        /\ pc[w] \in AfterNewCore => w \notin transfer_offloading
        /\ cpc \in {"relate", "shards", "same"} =>
              w \notin controller_signal /\ ~myown[w] /\ pc[w] \in {"top", "process"}
    BY DEF TypeOK, Protocol, SignalledOnly, TransferAsked, TransferDone, PlanQuiet, Quiet
  <1>1. CASE Drain(w)
    <2> DEFINE l == IF fill[myring(w)] = 0 THEN "top" ELSE "own"
    <2>1. pc' = [pc EXCEPT ![w] = l]
      BY <1>0, <1>1 DEF Drain, Goto
    <2>2. UNCHANGED <<cpc, cw, O, opc, Q>>
      BY <1>1 DEF Drain, cvars, flagvars, ovars
    <2>3. UNCHANGED <<controller_signal, transfer_offloading, new_offloading>>
      BY <1>1 DEF Drain, flagvars
    <2>4. cpc \notin {"relate", "shards", "same"}
      BY <1>0, <1>1 DEF Drain, Idling
    <2>5. /\ l \notin Idling => w \in controller_signal'
          /\ l \in ForNewCore => w \in transfer_offloading'
          /\ l \in AfterNewCore => w \notin transfer_offloading'
      BY <1>0, <1>1, <2>3, AfterRatioLabel DEF Drain, Idling, ForNewCore, AfterNewCore
    <2>6. l \in {"top", "process"} \/ cpc \notin {"relate", "shards", "same"}
      BY <2>4
    <2> HIDE DEF l
    <2> QED
      BY <2>1, <2>2, <2>3, <2>4, <2>5, <2>6, ProtocolGoto
  <1>2. CASE Signalled(w)
    <2> DEFINE l == IF w \in transfer_r THEN "ratio" ELSE AfterRatio(w)
    <2>1. pc' = [pc EXCEPT ![w] = l]
      BY <1>0, <1>2 DEF Signalled, Goto
    <2>2. UNCHANGED <<cpc, cw, O, opc, Q>>
      BY <1>2 DEF Signalled, cvars, flagvars, wvars, ovars
    <2>3. UNCHANGED <<controller_signal, transfer_offloading, new_offloading>>
      BY <1>2 DEF Signalled, flagvars
    <2>4. cpc \notin {"relate", "shards", "same"}
      BY <1>0, <1>2 DEF Signalled, Idling
    <2>5. /\ l \notin Idling => w \in controller_signal'
          /\ l \in ForNewCore => w \in transfer_offloading'
          /\ l \in AfterNewCore => w \notin transfer_offloading'
      BY <1>0, <1>2, <2>3, AfterRatioLabel DEF Signalled, Idling, ForNewCore, AfterNewCore
    <2>6. l \in {"top", "process"} \/ cpc \notin {"relate", "shards", "same"}
      BY <2>4
    <2> HIDE DEF l
    <2> QED
      BY <2>1, <2>2, <2>3, <2>4, <2>5, <2>6, ProtocolGoto
  <1>3. CASE OwnBurst(w)
    <2> DEFINE l == "top"
    <2>1. pc' = [pc EXCEPT ![w] = l]
      BY <1>0, <1>3 DEF OwnBurst, Goto
    <2>2. UNCHANGED <<cpc, cw, O, opc, Q>>
      BY <1>3 DEF OwnBurst, cvars, flagvars, wvars, ovars
    <2>3. UNCHANGED <<controller_signal, transfer_offloading, new_offloading>>
      BY <1>3 DEF OwnBurst, flagvars
    <2>4. cpc \notin {"relate", "shards", "same"}
      BY <1>0, <1>3 DEF OwnBurst, Idling
    <2>5. /\ l \notin Idling => w \in controller_signal'
          /\ l \in ForNewCore => w \in transfer_offloading'
          /\ l \in AfterNewCore => w \notin transfer_offloading'
      BY <1>0, <1>3, <2>3, AfterRatioLabel DEF OwnBurst, Idling, ForNewCore, AfterNewCore
    <2>6. l \in {"top", "process"} \/ cpc \notin {"relate", "shards", "same"}
      BY <2>4
    <2> HIDE DEF l
    <2> QED
      BY <2>1, <2>2, <2>3, <2>4, <2>5, <2>6, ProtocolGoto
  <1>4. CASE TransferR(w)
    <2> DEFINE l == IF fill[q(w)] # 0 THEN "rRemove" ELSE AfterRatio(w)
    <2>1. pc' = [pc EXCEPT ![w] = l]
      BY <1>0, <1>4 DEF TransferR, Goto
    <2>2. UNCHANGED <<cpc, cw, O, opc, Q>>
      BY <1>4 DEF TransferR, cvars, wvars, ovars
    <2>3. UNCHANGED <<controller_signal, transfer_offloading, new_offloading>>
      BY <1>4 DEF TransferR, flagvars
    <2>4. cpc \notin {"relate", "shards", "same"}
      BY <1>0, <1>4 DEF TransferR, Idling
    <2>5. /\ l \notin Idling => w \in controller_signal'
          /\ l \in ForNewCore => w \in transfer_offloading'
          /\ l \in AfterNewCore => w \notin transfer_offloading'
      BY <1>0, <1>4, <2>3, AfterRatioLabel DEF TransferR, Idling, ForNewCore, AfterNewCore
    <2>6. l \in {"top", "process"} \/ cpc \notin {"relate", "shards", "same"}
      BY <2>4
    <2> HIDE DEF l
    <2> QED
      BY <2>1, <2>2, <2>3, <2>4, <2>5, <2>6, ProtocolGoto
  <1>5. CASE SwapRings(w)
    <2> DEFINE l == "rAdd"
    <2>1. pc' = [pc EXCEPT ![w] = l]
      BY <1>0, <1>5 DEF SwapRings, Goto
    <2>2. UNCHANGED <<cpc, cw, O, opc, Q>>
      BY <1>5 DEF SwapRings, cvars, flagvars, ovars
    <2>3. UNCHANGED <<controller_signal, transfer_offloading, new_offloading>>
      BY <1>5 DEF SwapRings, flagvars
    <2>4. cpc \notin {"relate", "shards", "same"}
      BY <1>0, <1>5 DEF SwapRings, Idling
    <2>5. /\ l \notin Idling => w \in controller_signal'
          /\ l \in ForNewCore => w \in transfer_offloading'
          /\ l \in AfterNewCore => w \notin transfer_offloading'
      BY <1>0, <1>5, <2>3, AfterRatioLabel DEF SwapRings, Idling, ForNewCore, AfterNewCore
    <2>6. l \in {"top", "process"} \/ cpc \notin {"relate", "shards", "same"}
      BY <2>4
    <2> HIDE DEF l
    <2> QED
      BY <2>1, <2>2, <2>3, <2>4, <2>5, <2>6, ProtocolGoto
  <1>6. CASE AddSwapped(w)
    <2> DEFINE l == AfterRatio(w)
    <2>1. pc' = [pc EXCEPT ![w] = l]
      BY <1>0, <1>6 DEF AddSwapped, Goto
    <2>2. UNCHANGED <<cpc, cw, O, opc, Q>>
      BY <1>6 DEF AddSwapped, cvars, wvars, ovars
    <2>3. UNCHANGED <<controller_signal, transfer_offloading, new_offloading>>
      BY <1>6 DEF AddSwapped, flagvars
    <2>4. cpc \notin {"relate", "shards", "same"}
      BY <1>0, <1>6 DEF AddSwapped, Idling
    <2>5. /\ l \notin Idling => w \in controller_signal'
          /\ l \in ForNewCore => w \in transfer_offloading'
          /\ l \in AfterNewCore => w \notin transfer_offloading'
      BY <1>0, <1>6, <2>3, AfterRatioLabel DEF AddSwapped, Idling, ForNewCore, AfterNewCore
    <2>6. l \in {"top", "process"} \/ cpc \notin {"relate", "shards", "same"}
      BY <2>4
    <2> HIDE DEF l
    <2> QED
      BY <2>1, <2>2, <2>3, <2>4, <2>5, <2>6, ProtocolGoto
  <1>7. CASE RemoveQ(w)
    <2> DEFINE l == IF pc[w] = "oRemove" THEN "oTest" ELSE "sTest"
    <2>1. pc' = [pc EXCEPT ![w] = l]
      BY <1>0, <1>7 DEF RemoveQ, Goto
    <2>2. UNCHANGED <<cpc, cw, O, opc, Q>>
      BY <1>7 DEF RemoveQ, cvars, flagvars, ovars
    <2>3. UNCHANGED <<controller_signal, transfer_offloading, new_offloading>>
      BY <1>7 DEF RemoveQ, flagvars
    <2>4. cpc \notin {"relate", "shards", "same"}
      BY <1>0, <1>7 DEF RemoveQ, Idling
    <2>5. /\ l \notin Idling => w \in controller_signal'
          /\ l \in ForNewCore => w \in transfer_offloading'
          /\ l \in AfterNewCore => w \notin transfer_offloading'
      BY <1>0, <1>7, <2>3, AfterRatioLabel DEF RemoveQ, Idling, ForNewCore, AfterNewCore
    <2>6. l \in {"top", "process"} \/ cpc \notin {"relate", "shards", "same"}
      BY <2>4
    <2> HIDE DEF l
    <2> QED
      BY <2>1, <2>2, <2>3, <2>4, <2>5, <2>6, ProtocolGoto
  <1>8. CASE CountQ(w)
    <2> DEFINE l == IF pc[w] = "oTest" THEN IF fill[q(w)] # 0 THEN "oMove" ELSE "oAdd"
                      ELSE IF fill[q(w)] # 0 THEN "sMove" ELSE "sAdd"
    <2>1. pc' = [pc EXCEPT ![w] = l]
      BY <1>0, <1>8 DEF CountQ, Goto
    <2>2. UNCHANGED <<cpc, cw, O, opc, Q>>
      BY <1>8 DEF CountQ, cvars, flagvars, ovars
    <2>3. UNCHANGED <<controller_signal, transfer_offloading, new_offloading>>
      BY <1>8 DEF CountQ, flagvars
    <2>4. cpc \notin {"relate", "shards", "same"}
      BY <1>0, <1>8 DEF CountQ, Idling
    <2>5. /\ l \notin Idling => w \in controller_signal'
          /\ l \in ForNewCore => w \in transfer_offloading'
          /\ l \in AfterNewCore => w \notin transfer_offloading'
      BY <1>0, <1>8, <2>3, AfterRatioLabel DEF CountQ, Idling, ForNewCore, AfterNewCore
    <2>6. l \in {"top", "process"} \/ cpc \notin {"relate", "shards", "same"}
      BY <2>4
    <2> HIDE DEF l
    <2> QED
      BY <2>1, <2>2, <2>3, <2>4, <2>5, <2>6, ProtocolGoto
  <1>9. CASE MoveQ(w)
    <2> DEFINE l == IF pc[w] = "oMove" THEN "oTest" ELSE "sTest"
    <2>1. pc' = [pc EXCEPT ![w] = l]
      BY <1>0, <1>9 DEF MoveQ, Goto
    <2>2. UNCHANGED <<cpc, cw, O, opc, Q>>
      BY <1>9 DEF MoveQ, cvars, flagvars, wvars, ovars
    <2>3. UNCHANGED <<controller_signal, transfer_offloading, new_offloading>>
      BY <1>9 DEF MoveQ, flagvars
    <2>4. cpc \notin {"relate", "shards", "same"}
      BY <1>0, <1>9 DEF MoveQ, Idling
    <2>5. /\ l \notin Idling => w \in controller_signal'
          /\ l \in ForNewCore => w \in transfer_offloading'
          /\ l \in AfterNewCore => w \notin transfer_offloading'
      BY <1>0, <1>9, <2>3, AfterRatioLabel DEF MoveQ, Idling, ForNewCore, AfterNewCore
    <2>6. l \in {"top", "process"} \/ cpc \notin {"relate", "shards", "same"}
      BY <2>4
    <2> HIDE DEF l
    <2> QED
      BY <2>1, <2>2, <2>3, <2>4, <2>5, <2>6, ProtocolGoto
  <1>10. CASE EndOffloading(w)
    <2> DEFINE l == AfterOffloading(w)
    <2>1. pc' = [pc EXCEPT ![w] = l]
      BY <1>0, <1>10 DEF EndOffloading, Goto
    <2>2. UNCHANGED <<cpc, cw, O, opc, Q>>
      BY <1>10 DEF EndOffloading, cvars, ovars
    <2>3. /\ controller_signal' = controller_signal
          /\ transfer_offloading' = transfer_offloading \ {w}
          /\ new_offloading' = [new_offloading EXCEPT ![w] = NONE]
      BY <1>10 DEF EndOffloading
    <2>4. cpc \notin {"relate", "shards", "same"}
      BY <1>0, <1>10 DEF EndOffloading, Idling
    <2>5. /\ l \notin Idling => w \in controller_signal'
          /\ l \in ForNewCore => w \in transfer_offloading'
          /\ l \in AfterNewCore => w \notin transfer_offloading'
      BY <1>0, <1>10, <2>3, AfterRatioLabel DEF EndOffloading, Idling, ForNewCore, AfterNewCore
    <2>6. l \in {"top", "process"} \/ cpc \notin {"relate", "shards", "same"}
      BY <2>4
    <2> HIDE DEF l
    <2> QED
      BY <2>1, <2>2, <2>3, <2>4, <2>5, <2>6, ProtocolGoto
  <1>11. CASE EndShard(w)
    <2> DEFINE l == "clear"
    <2>1. pc' = [pc EXCEPT ![w] = l]
      BY <1>0, <1>11 DEF EndShard, Goto
    <2>2. UNCHANGED <<cpc, cw, O, opc, Q>>
      BY <1>11 DEF EndShard, cvars, wvars, ovars
    <2>3. UNCHANGED <<controller_signal, transfer_offloading, new_offloading>>
      BY <1>11 DEF EndShard, flagvars
    <2>4. cpc \notin {"relate", "shards", "same"}
      BY <1>0, <1>11 DEF EndShard, Idling
    <2>5. /\ l \notin Idling => w \in controller_signal'
          /\ l \in ForNewCore => w \in transfer_offloading'
          /\ l \in AfterNewCore => w \notin transfer_offloading'
      BY <1>0, <1>11, <2>3, AfterRatioLabel DEF EndShard, Idling, ForNewCore, AfterNewCore
    <2>6. l \in {"top", "process"} \/ cpc \notin {"relate", "shards", "same"}
      BY <2>4
    <2> HIDE DEF l
    <2> QED
      BY <2>1, <2>2, <2>3, <2>4, <2>5, <2>6, ProtocolGoto
  <1>12. CASE ClearSignal(w)
    <2> DEFINE l == "process"
    <2>1. pc' = [pc EXCEPT ![w] = l]
      BY <1>0, <1>12 DEF ClearSignal, Goto
    <2>2. UNCHANGED <<cpc, cw, O, opc, Q>>
      BY <1>12 DEF ClearSignal, cvars, wvars, ovars
    <2>3. /\ controller_signal' = controller_signal \ {w} /\ w \notin transfer_offloading
          /\ UNCHANGED <<transfer_offloading, new_offloading>>
      BY <1>0, <1>12 DEF ClearSignal, AfterNewCore
    <2>4. cpc \notin {"relate", "shards", "same"}
      BY <1>0, <1>12 DEF ClearSignal, Idling
    <2>5. /\ l \notin Idling => w \in controller_signal'
          /\ l \in ForNewCore => w \in transfer_offloading'
          /\ l \in AfterNewCore => w \notin transfer_offloading'
      BY <1>0, <1>12, <2>3, AfterRatioLabel DEF ClearSignal, Idling, ForNewCore, AfterNewCore
    <2>6. l \in {"top", "process"} \/ cpc \notin {"relate", "shards", "same"}
      BY <2>4
    <2> HIDE DEF l
    <2> QED
      BY <2>1, <2>2, <2>3, <2>4, <2>5, <2>6, ProtocolGoto
  <1>13. CASE Process(w)
    <2> DEFINE l == "top"
    <2>1. pc' = [pc EXCEPT ![w] = l]
      BY <1>0, <1>13 DEF Process, Goto
    <2>2. UNCHANGED <<cpc, cw, O, opc, Q>>
      BY <1>13 DEF Process, cvars, flagvars, ovars
    <2>3. UNCHANGED <<controller_signal, transfer_offloading, new_offloading>>
      BY <1>13 DEF Process, flagvars
    <2>4. cpc \in {"relate", "shards", "same"} => myown' = myown
      BY <1>0, <1>13 DEF Process
    <2>5. /\ l \notin Idling => w \in controller_signal'
          /\ l \in ForNewCore => w \in transfer_offloading'
          /\ l \in AfterNewCore => w \notin transfer_offloading'
      BY <1>0, <1>13, <2>3, AfterRatioLabel DEF Process, Idling, ForNewCore, AfterNewCore
    <2>6. l \in {"top", "process"} \/ cpc \notin {"relate", "shards", "same"}
      BY <2>4
    <2> HIDE DEF l
    <2> QED
      BY <2>1, <2>2, <2>3, <2>4, <2>5, <2>6, ProtocolGoto
  <1> QED
    BY <1>1, <1>2, <1>3, <1>4, <1>5, <1>6, <1>7, <1>8, <1>9, <1>10, <1>11, <1>12, <1>13 DEF Worker

(* The controller keeps to the protocol. *)
LEMMA ProtocolController ==
  ASSUME TypeOK, Protocol, CtlRatio \/ Controller PROVE Protocol'
  <1>0. /\ W \in Nat \ {0} /\ cw \in 0 .. W - 1 /\ Cores = 0 .. W - 1
        /\ transfer_offloading \subseteq Cores /\ O \in [Cores -> Offs]
        /\ new_offloading \in [Cores -> Offs \union {NONE}] /\ newO \in [Cores -> Offs]
    BY SizesAssumption DEF TypeOK, Cores
  <1>1. CASE CtlRatio
    <2>1. /\ UNCHANGED <<O, transfer_offloading, controller_signal, new_offloading, pc, myown, opc, Q>>
          /\ cw' = 0 /\ cpc' \in {"relate", "shards", "same"} /\ cpc = "idle"
          /\ \A w \in Cores : Quiet(w)
      BY <1>1 DEF CtlRatio, wvars, ovars
    <2>2. transfer_offloading = {}
      BY <1>0, <2>1 DEF Protocol, AskedSignalled, Quiet
    <2>3. \A w \in Cores : Quiet(w)'
      BY <2>1 DEF Quiet
    <2>4. HasRing' /\ TellsNew' /\ SignalledOnly' /\ TransferAsked' /\ TransferDone'
      BY <2>1 DEF Protocol, HasRing, TellsNew, SignalledOnly, TransferAsked, TransferDone
    <2>5. PlanQuiet' /\ StartsFirst' /\ AskedSignalled'
      BY <2>1, <2>2, <2>3 DEF PlanQuiet, StartsFirst, AskedSignalled
    <2> QED
      BY <2>4, <2>5 DEF Protocol
  <1>2. CASE CtlRelate
    <2>1. /\ UNCHANGED <<controller_signal, pc, myown, opc, Q>>
          /\ cpc = "relate" /\ O' = [O EXCEPT ![cw] = newO[cw]]
          /\ CtlNext("relate", "shards")
      BY <1>2 DEF CtlRelate, wvars, ovars
    <2>2. \/ UNCHANGED <<new_offloading, transfer_offloading>>
          \/ /\ new_offloading' = [new_offloading EXCEPT ![cw] = newO[cw]]
             /\ transfer_offloading' = transfer_offloading \union {cw}
      BY <1>2 DEF CtlRelate
    <2>3. \A w \in Cores : Quiet(w)
      BY <2>1 DEF Protocol, PlanQuiet
    <2>4. \A w \in Cores : Quiet(w)'
      BY <2>1, <2>3 DEF Quiet
    <2>5. \A w \in Cores : pc'[w] \in Idling
      BY <2>4 DEF Quiet, Idling
    <2>6. \A w \in transfer_offloading : w < cw /\ w \in Cores
      BY <1>0, <2>1 DEF Protocol, AskedSignalled
    <2>7. TellsNew'
      <3> SUFFICES ASSUME NEW v \in transfer_offloading' PROVE new_offloading'[v] = O'[v]
        BY DEF TellsNew
      <3>1. CASE v \in transfer_offloading
        <4>1. v # cw /\ v \in Cores /\ cw \in Cores
          BY <1>0, <2>6, <3>1
        <4>2. new_offloading'[v] = new_offloading[v] /\ O'[v] = O[v]
          BY <1>0, <2>1, <2>2, <4>1
        <4> QED
          BY <3>1, <4>2 DEF Protocol, TellsNew
      <3>2. CASE v \notin transfer_offloading
        <4>1. v = cw /\ new_offloading' = [new_offloading EXCEPT ![cw] = newO[cw]]
          BY <2>2, <3>2
        <4> QED
          BY <1>0, <2>1, <4>1
      <3> QED
        BY <3>1, <3>2
    <2>8. HasRing' /\ SignalledOnly'
      BY <2>1 DEF Protocol, HasRing, SignalledOnly
    <2>9. TransferAsked' /\ TransferDone'
      BY <2>5 DEF TransferAsked, TransferDone, Idling, ForNewCore, AfterNewCore
    <2>10. (cpc' = "relate" /\ cw' = cw + 1) \/ (cpc' = "shards" /\ cw' = 0)
      BY <2>1 DEF CtlNext
    <2>11. PlanQuiet' /\ StartsFirst'
      BY <2>4, <2>10 DEF PlanQuiet, StartsFirst
    <2>12. AskedSignalled'
      <3> SUFFICES ASSUME NEW v \in transfer_offloading'
                   PROVE  /\ cpc' = "idle" => v \in controller_signal'
                          /\ cpc' = "relate" => v < cw'
                          /\ cpc' # "same"
                          /\ cpc' = "signal" => v \in controller_signal' \/ cw' <= v
        BY DEF AskedSignalled
      <3>1. v \in Int /\ (v < cw \/ v = cw)
        <4>1. v \in transfer_offloading \/ v = cw
          BY <2>2
        <4>2. CASE v \in transfer_offloading
          <5>1. v < cw /\ v \in 0 .. W - 1
            BY <1>0, <2>6, <4>2
          <5> QED
            BY <5>1
        <4>3. CASE v = cw
          BY <1>0, <4>3
        <4> QED
          BY <4>1, <4>2, <4>3
      <3> QED
        BY <1>0, <2>10, <3>1
    <2> QED
      BY <2>7, <2>8, <2>9, <2>11, <2>12 DEF Protocol
  <1>3. CASE CtlShards
    <2>1. /\ UNCHANGED <<cw, O, transfer_offloading, controller_signal, new_offloading, pc, myown, opc, Q>>
          /\ cpc \in {"shards", "same"} /\ cpc' \in {"idle", "signal"} /\ (cpc' = "idle" => cpc = "same")
      BY <1>3 DEF CtlShards, wvars, ovars
    <2>2. HasRing' /\ TellsNew' /\ SignalledOnly' /\ TransferAsked' /\ TransferDone'
      BY <2>1 DEF Protocol, HasRing, TellsNew, SignalledOnly, TransferAsked, TransferDone
    <2>3. PlanQuiet' /\ StartsFirst'
      BY <2>1 DEF PlanQuiet, StartsFirst
    <2>4. cw = 0 /\ \A v \in transfer_offloading : cpc # "same" /\ cw <= v
      BY <1>0, <2>1 DEF Protocol, StartsFirst, AskedSignalled
    <2>5. AskedSignalled'
      BY <2>1, <2>4 DEF AskedSignalled
    <2> QED
      BY <2>2, <2>3, <2>5 DEF Protocol
  <1>4. CASE CtlSignal
    <2>1. /\ UNCHANGED <<O, transfer_offloading, new_offloading, pc, myown, opc, Q>>
          /\ cpc = "signal" /\ controller_signal' = controller_signal \union {cw}
          /\ CtlNext("signal", "idle")
      BY <1>4 DEF CtlSignal, wvars, ovars
    <2>2. HasRing' /\ TellsNew' /\ SignalledOnly' /\ TransferAsked' /\ TransferDone'
      BY <2>1 DEF Protocol, HasRing, TellsNew, SignalledOnly, TransferAsked, TransferDone
    <2>3. (cpc' = "signal" /\ cw' = cw + 1) \/ (cpc' = "idle" /\ ~(cw + 1 < W))
      BY <2>1 DEF CtlNext
    <2>4. PlanQuiet' /\ StartsFirst'
      BY <2>3 DEF PlanQuiet, StartsFirst
    <2>5. AskedSignalled'
      <3> SUFFICES ASSUME NEW v \in transfer_offloading'
                   PROVE  /\ cpc' = "idle" => v \in controller_signal'
                          /\ cpc' = "signal" => v \in controller_signal' \/ cw' <= v
        BY <2>3 DEF AskedSignalled
      <3>1. v \in 0 .. W - 1 /\ (v \in controller_signal \/ cw <= v)
        BY <1>0, <2>1 DEF Protocol, AskedSignalled
      <3>2. CASE v \in controller_signal \/ v = cw
        BY <2>1, <3>2
      <3>3. CASE cw <= v /\ v # cw
        BY <1>0, <2>3, <3>1, <3>3
      <3> QED
        BY <3>1, <3>2, <3>3
    <2> QED
      BY <2>2, <2>4, <2>5 DEF Protocol
  <1> QED
    BY <1>1, <1>2, <1>3, <1>4 DEF Controller

(* An offloading core keeps to the protocol. *)
LEMMA ProtocolOffloader ==
  ASSUME TypeOK, Protocol, NEW e \in Offs, Offloader(e) PROVE Protocol'
  <1>1. UNCHANGED <<cpc, cw, O, transfer_offloading, controller_signal, new_offloading, pc, myown>>
    BY DEF Offloader, Control, ControlEmpty, OffBurst, cvars, flagvars, wvars
  <1>2. /\ TellsNew' /\ SignalledOnly' /\ PlanQuiet' /\ StartsFirst'
        /\ TransferAsked' /\ TransferDone' /\ AskedSignalled'
    <2>1. TellsNew' /\ SignalledOnly' /\ StartsFirst' /\ TransferAsked' /\ TransferDone'
      BY <1>1 DEF Protocol, TellsNew, SignalledOnly, StartsFirst, TransferAsked, TransferDone
    <2>2. PlanQuiet'
      BY <1>1 DEF Protocol, PlanQuiet, Quiet
    <2>3. AskedSignalled'
      BY <1>1 DEF Protocol, AskedSignalled
    <2> QED
      BY <2>1, <2>2, <2>3
  <1>3. HasRing'
    <2> SUFFICES ASSUME NEW d \in Offs, opc'[d] = "deq" PROVE Q'[d] # <<>>
      BY DEF HasRing
    <2>1. opc \in [Offs -> {"remove", "add", "deq"}] /\ Q \in [Offs -> Seq(Rings)]
      BY DEF TypeOK
    <2>2. CASE Control(e)
      <3>1. opc' = opc /\ opc[e] # "deq"
        BY <2>2 DEF Control
      <3>2. d # e
        BY <3>1
      <3>3. Of(e, opc[e]) # {} /\ TakeEntry(e, opc[e])
        BY <2>2 DEF Control
      <3>4. \E s : Q' = [Q EXCEPT ![e] = s]
        BY <3>3 DEF TakeEntry
      <3>5. Q'[d] = Q[d]
        BY <2>1, <3>2, <3>4
      <3> QED
        BY <3>1, <3>5 DEF Protocol, HasRing
    <2>3. CASE ControlEmpty(e)
      <3>1. Q' = Q /\ (d # e => opc'[d] = opc[d])
        BY <2>1, <2>3 DEF ControlEmpty
      <3>2. CASE d = e
        BY <2>1, <2>3, <3>1, <3>2 DEF ControlEmpty
      <3>3. CASE d # e
        BY <3>1, <3>3 DEF Protocol, HasRing
      <3> QED
        BY <3>2, <3>3
    <2>4. CASE OffBurst(e)
      <3>1. Q' = Q /\ opc' = [opc EXCEPT ![e] = "remove"]
        BY <2>4 DEF OffBurst
      <3> QED
        BY <2>1, <3>1 DEF Protocol, HasRing
    <2> QED
      BY <2>2, <2>3, <2>4 DEF Offloader
  <1> QED
    BY <1>2, <1>3 DEF Protocol

-----------------------------------------------------------------------------
(* What will be polled.                                                     *)

Promise(w) == ChainedOf(w) /\ OnlyOf(w) /\ PolledOf(w)

(* A core that is still in order was in order before. *)
LEMMA InOrderBefore ==
  ASSUME NEW w, raced => raced', overtaken \subseteq overtaken', InOrder(w)'
  PROVE  InOrder(w)
  <1>1. ~raced' /\ \A x \in overtaken' : x[1] # w
    BY DEF InOrder
  <1>2. ~raced
    BY <1>1, Zenon
  <1>3. \A x \in overtaken : x[1] # w
    BY <1>1
  <1> QED
    BY <1>2, <1>3 DEF InOrder

(* A step that changes nothing for the rings of core v. *)
LEMMA SamePromise ==
  ASSUME TypeOK, NEW v \in Cores, Promise(v),
         \A e \in Offs : \A i \in {1, 2} :
            /\ Chained(pending[e], Q[e], <<v, i>>) => Chained(pending'[e], Q'[e], <<v, i>>)
            /\ Present(pending'[e], Q'[e], <<v, i>>) <=> Present(pending[e], Q[e], <<v, i>>),
         qi'[v] = qi[v], offloading_idx'[v] = offloading_idx[v], O'[v] = O[v],
         pc'[v] \in Gap <=> pc[v] \in Gap,
         v \in transfer_offloading' <=> v \in transfer_offloading,
         v \in returned' <=> v \in returned
  PROVE  Promise(v)'
  <1>0. qi[v] \in {1, 2} /\ offloading_idx[v] \in Offs
    BY DEF TypeOK
  <1>1. ChainedOf(v)'
    BY DEF Promise, ChainedOf
  <1>2. OnlyOf(v)'
    BY DEF Promise, OnlyOf
  <1>3. PolledOf(v)'
    <2> SUFFICES ASSUME v \notin transfer_offloading' \union returned'
                 PROVE  /\ offloading_idx'[v] = O'[v]
                        /\ pc'[v] \notin Gap => Present(pending'[offloading_idx'[v]], Q'[offloading_idx'[v]], <<v, qi'[v]>>)
      BY DEF PolledOf, q
    <2>1. /\ offloading_idx[v] = O[v]
          /\ pc[v] \notin Gap => Present(pending[offloading_idx[v]], Q[offloading_idx[v]], <<v, qi[v]>>)
      BY DEF Promise, PolledOf, q
    <2>2. Present(pending'[offloading_idx[v]], Q'[offloading_idx[v]], <<v, qi[v]>>)
             <=> Present(pending[offloading_idx[v]], Q[offloading_idx[v]], <<v, qi[v]>>)
      BY <1>0
    <2> QED
      BY <2>1, <2>2
  <1> QED
    BY <1>1, <1>2, <1>3 DEF Promise

(* A step that leaves the control queues and the vectors alone. *)
LEMMA PollsSame ==
  ASSUME TypeOK, Polls,
         UNCHANGED <<pending, Q, qi, offloading_idx, O, transfer_offloading, returned>>,
         \A v \in Cores : pc'[v] \in Gap <=> pc[v] \in Gap,
         \A v \in Cores : InOrder(v)' => InOrder(v)
  PROVE  Polls'
  <1> SUFFICES ASSUME NEW v \in Cores, InOrder(v)' PROVE Promise(v)'
    BY DEF Polls, Promise
  <1>1. Promise(v)
    BY DEF Polls, Promise
  <1> QED
    BY <1>1, SamePromise

(* An entry of core w is enqueued: nothing changes for the other rings. *)
LEMMA EnqueueOther ==
  ASSUME TypeOK, NEW w \in Cores, NEW d \in Offs, NEW op \in {"remove", "add"},
         pending' = [pending EXCEPT ![d] = Append(pending[d], [op |-> op, ring |-> q(w)])],
         Q' = Q, NEW e \in Offs, NEW x, d # e \/ x # q(w)
  PROVE  /\ Chained(pending[e], Q[e], x) => Chained(pending'[e], Q'[e], x)
         /\ Present(pending'[e], Q'[e], x) <=> Present(pending[e], Q[e], x)
  <1>0. pending \in [Offs -> Seq(Entry)] /\ [op |-> op, ring |-> q(w)] \in Entry
    BY PendingType DEF TypeOK
  <1>1. CASE d # e
    <2>1. pending'[e] = pending[e]
      BY <1>0, <1>1
    <2> QED
      BY <2>1
  <1>2. CASE d = e
    <2> DEFINE a == [op |-> op, ring |-> q(w)]
               p == pending[e]
    <2>1. p \in Seq(Entry) /\ a \in Entry /\ a.ring # x /\ pending'[e] = Append(p, a)
      BY <1>0, <1>2
    <2> HIDE DEF a, p
    <2>2. /\ Chained(p, Q[e], x) => Chained(Append(p, a), Q[e], x)
          /\ Present(Append(p, a), Q[e], x) <=> Present(p, Q[e], x)
      BY <2>1, AppendOther
    <2> QED
      BY <2>1, <2>2 DEF p
  <1> QED
    BY <1>1, <1>2

(* The removal of q. *)
LEMMA EnqueueRemoved ==
  ASSUME TypeOK, NEW w \in Cores, NEW d \in Offs,
         pending' = [pending EXCEPT ![d] = Append(pending[d], [op |-> "remove", ring |-> q(w)])],
         Q' = Q, Chained(pending[d], Q[d], q(w))
  PROVE  Chained(pending'[d], Q'[d], q(w)) /\ ~Present(pending'[d], Q'[d], q(w))
  <1> DEFINE a == [op |-> "remove", ring |-> q(w)]
             p == pending[d]
  <1>1. p \in Seq(Entry) /\ a \in Entry /\ a.op = "remove" /\ a.ring = q(w) /\ pending'[d] = Append(p, a)
    BY PendingType DEF TypeOK
  <1>2. Chained(p, Q[d], q(w))
    OBVIOUS
  <1> HIDE DEF a, p
  <1>3. Chained(Append(p, a), Q[d], q(w)) /\ ~Present(Append(p, a), Q[d], q(w))
    BY <1>1, <1>2, AppendRemove
  <1> QED
    BY <1>1, <1>3

(* The addition of q. *)
LEMMA EnqueueAdded ==
  ASSUME TypeOK, NEW w \in Cores, NEW d \in Offs,
         pending' = [pending EXCEPT ![d] = Append(pending[d], [op |-> "add", ring |-> q(w)])],
         Q' = Q, Chained(pending[d], Q[d], q(w)), ~Present(pending[d], Q[d], q(w))
  PROVE  Chained(pending'[d], Q'[d], q(w)) /\ Present(pending'[d], Q'[d], q(w))
  <1> DEFINE a == [op |-> "add", ring |-> q(w)]
             p == pending[d]
  <1>1. p \in Seq(Entry) /\ a \in Entry /\ a.op = "add" /\ a.ring = q(w) /\ pending'[d] = Append(p, a)
    BY PendingType DEF TypeOK
  <1>2. Chained(p, Q[d], q(w)) /\ ~Present(p, Q[d], q(w))
    OBVIOUS
  <1> HIDE DEF a, p
  <1>3. Chained(Append(p, a), Q[d], q(w)) /\ Present(Append(p, a), Q[d], q(w))
    BY <1>1, <1>2, AppendAdd
  <1> QED
    BY <1>1, <1>3

(* The removal of q, by the core or by the controller, at an offloading     *)
(* core d: none of the rings of w will be polled by d.                      *)
LEMMA RemovedPromise ==
  ASSUME TypeOK, NEW w \in Cores, Promise(w), NEW d \in Offs,
         pending' = [pending EXCEPT ![d] =
                        Append(pending[d], [op |-> "remove", ring |-> q(w)])],
         Q' = Q
  PROVE  \A e \in Offs : \A i \in {1, 2} :
            /\ Chained(pending'[e], Q'[e], <<w, i>>)
            /\ Present(pending'[e], Q'[e], <<w, i>>) =>
                  Present(pending[e], Q[e], <<w, i>>) /\ e # d
  <1>0. qi[w] \in {1, 2}
    BY DEF TypeOK
  <1> SUFFICES ASSUME NEW e \in Offs, NEW i \in {1, 2}
               PROVE  /\ Chained(pending'[e], Q'[e], <<w, i>>)
                      /\ Present(pending'[e], Q'[e], <<w, i>>) =>
                            Present(pending[e], Q[e], <<w, i>>) /\ e # d
    OBVIOUS
  <1>1. /\ Chained(pending[e], Q[e], <<w, i>>)
        /\ Present(pending[e], Q[e], <<w, i>>) => i = qi[w]
    BY DEF Promise, ChainedOf, OnlyOf
  <1>2. CASE i = qi[w] /\ e = d
    <2>1. <<w, i>> = q(w)
      BY <1>2 DEF q
    <2> QED
      BY <1>0, <1>1, <1>2, <2>1, EnqueueRemoved
  <1>3. CASE ~(i = qi[w] /\ e = d)
    <2>1. d # e \/ <<w, i>> # q(w)
      BY <1>3 DEF q
    <2>2. /\ Chained(pending[e], Q[e], <<w, i>>) => Chained(pending'[e], Q'[e], <<w, i>>)
          /\ Present(pending'[e], Q'[e], <<w, i>>) <=> Present(pending[e], Q[e], <<w, i>>)
      BY <2>1, EnqueueOther
    <2> QED
      BY <1>1, <1>3, <2>2
  <1> QED
    BY <1>2, <1>3

(* A core removes q. *)
LEMMA PollsRemove ==
  ASSUME TypeOK, Polls, NEW w \in Cores,
         pending' = [pending EXCEPT ![offloading_idx[w]] =
                        Append(pending[offloading_idx[w]], [op |-> "remove", ring |-> q(w)])],
         UNCHANGED <<Q, offloading_idx, O, transfer_offloading, returned>>,
         \A v \in Cores : v # w => qi'[v] = qi[v] /\ pc'[v] = pc[v],
         pc'[w] \in Gap,
         \A v \in Cores : InOrder(v)' => InOrder(v)
  PROVE  Polls'
  <1> SUFFICES ASSUME NEW v \in Cores, InOrder(v)' PROVE Promise(v)'
    BY DEF Polls, Promise
  <1>0. Promise(v) /\ offloading_idx[w] \in Offs /\ qi[w] \in {1, 2} /\ qi[v] \in {1, 2}
    BY DEF Polls, Promise, TypeOK
  <1>1. CASE v # w
    <2>1. ASSUME NEW e \in Offs, NEW i \in {1, 2}
          PROVE  /\ Chained(pending[e], Q[e], <<v, i>>) => Chained(pending'[e], Q'[e], <<v, i>>)
                 /\ Present(pending'[e], Q'[e], <<v, i>>) <=> Present(pending[e], Q[e], <<v, i>>)
      <3>1. <<v, i>> # q(w)
        BY <1>1 DEF q
      <3> QED
        BY <1>0, <3>1, EnqueueOther
    <2>2. qi'[v] = qi[v] /\ pc'[v] = pc[v]
      BY <1>1
    <2> QED
      BY <1>0, <2>1, <2>2, SamePromise
  <1>2. CASE v = w
    <2>1. \A e \in Offs : \A i \in {1, 2} :
             Chained(pending'[e], Q'[e], <<w, i>>) /\ ~Present(pending'[e], Q'[e], <<w, i>>)
      <3>1. \A e \in Offs : \A i \in {1, 2} :
               /\ Chained(pending'[e], Q'[e], <<w, i>>)
               /\ Present(pending'[e], Q'[e], <<w, i>>) =>
                     Present(pending[e], Q[e], <<w, i>>) /\ e # offloading_idx[w]
        BY <1>0, <1>2, RemovedPromise
      <3>2. \A e \in Offs : \A i \in {1, 2} : Present(pending[e], Q[e], <<w, i>>) => e = offloading_idx[w]
        BY <1>0, <1>2 DEF Promise, OnlyOf
      <3> QED
        BY <3>1, <3>2
    <2>2. ChainedOf(w)' /\ OnlyOf(w)'
      BY <2>1 DEF ChainedOf, OnlyOf
    <2>3. w \notin transfer_offloading \union returned => offloading_idx[w] = O[w]
      BY <1>0, <1>2 DEF Promise, PolledOf
    <2>4. PolledOf(w)'
      BY <2>3 DEF PolledOf
    <2> QED
      BY <1>2, <2>2, <2>4 DEF Promise
  <1> QED
    BY <1>1, <1>2

(* A core adds q, at the offloading core it names from then on. *)
LEMMA PollsAdd ==
  ASSUME TypeOK, Polls, NEW w \in Cores, NEW d \in Offs,
         pending' = [pending EXCEPT ![d] = Append(pending[d], [op |-> "add", ring |-> q(w)])],
         UNCHANGED <<Q, qi, O, returned>>,
         offloading_idx'[w] = d,
         \A v \in Cores : v # w => /\ offloading_idx'[v] = offloading_idx[v] /\ pc'[v] = pc[v]
                                   /\ v \in transfer_offloading' <=> v \in transfer_offloading,
         pc[w] \in Gap, pc'[w] \notin Gap,
         w \notin transfer_offloading' => d = O[w] \/ (w \notin transfer_offloading /\ d = offloading_idx[w]),
         \A v \in Cores : InOrder(v)' => InOrder(v)
  PROVE  Polls'
  <1> SUFFICES ASSUME NEW v \in Cores, InOrder(v)' PROVE Promise(v)'
    BY DEF Polls, Promise
  <1>0. Promise(v) /\ qi[w] \in {1, 2} /\ qi[v] \in {1, 2}
    BY DEF Polls, Promise, TypeOK
  <1>1. CASE v # w
    <2>1. ASSUME NEW e \in Offs, NEW i \in {1, 2}
          PROVE  /\ Chained(pending[e], Q[e], <<v, i>>) => Chained(pending'[e], Q'[e], <<v, i>>)
                 /\ Present(pending'[e], Q'[e], <<v, i>>) <=> Present(pending[e], Q[e], <<v, i>>)
      <3>1. <<v, i>> # q(w)
        BY <1>1 DEF q
      <3> QED
        BY <1>0, <3>1, EnqueueOther
    <2>2. /\ offloading_idx'[v] = offloading_idx[v] /\ pc'[v] = pc[v]
          /\ v \in transfer_offloading' <=> v \in transfer_offloading
      BY <1>1
    <2> QED
      BY <1>0, <2>1, <2>2, SamePromise
  <1>2. CASE v = w
    <2>1. \A e \in Offs : \A i \in {1, 2} :
             Chained(pending[e], Q[e], <<w, i>>) /\ ~Present(pending[e], Q[e], <<w, i>>)
      BY <1>0, <1>2 DEF Promise, ChainedOf, OnlyOf
    <2>2. Chained(pending'[d], Q'[d], q(w)) /\ Present(pending'[d], Q'[d], q(w))
      <3>1. Chained(pending[d], Q[d], q(w)) /\ ~Present(pending[d], Q[d], q(w))
        BY <1>0, <2>1 DEF q
      <3> QED
        BY <3>1, EnqueueAdded
    <2>3. ASSUME NEW e \in Offs, NEW i \in {1, 2}, ~(i = qi[w] /\ e = d)
          PROVE  Chained(pending'[e], Q'[e], <<w, i>>) /\ ~Present(pending'[e], Q'[e], <<w, i>>)
      <3>1. d # e \/ <<w, i>> # q(w)
        BY <2>3 DEF q
      <3>2. /\ Chained(pending[e], Q[e], <<w, i>>) => Chained(pending'[e], Q'[e], <<w, i>>)
            /\ Present(pending'[e], Q'[e], <<w, i>>) <=> Present(pending[e], Q[e], <<w, i>>)
        BY <3>1, EnqueueOther
      <3> QED
        BY <2>1, <3>2
    <2>4. q(w) = <<w, qi[w]>> /\ qi'[w] = qi[w]
      BY DEF q
    <2>5. ChainedOf(w)'
      BY <2>2, <2>3, <2>4 DEF ChainedOf
    <2>6. OnlyOf(w)'
      BY <2>3, <2>4 DEF OnlyOf
    <2>7. w \notin transfer_offloading \union returned => offloading_idx[w] = O[w]
      BY <1>0, <1>2 DEF Promise, PolledOf
    <2>8. q(w)' = q(w)
      BY <2>4 DEF q
    <2>9. PolledOf(w)'
      BY <2>2, <2>7, <2>8 DEF PolledOf
    <2> QED
      BY <1>2, <2>5, <2>6, <2>9 DEF Promise
  <1> QED
    BY <1>1, <1>2

(* A step to label l that leaves the control queues and the vectors alone. *)
LEMMA PollsGoto ==
  ASSUME TypeOK, Polls, NEW w \in Cores, NEW l,
         pc' = [pc EXCEPT ![w] = l],
         UNCHANGED <<pending, Q, qi, offloading_idx, O, transfer_offloading>>,
         l \in Gap <=> pc[w] \in Gap,
         UNCHANGED <<raced, overtaken, returned>>
  PROVE  Polls'
  <1>1. \A v \in Cores : pc'[v] \in Gap <=> pc[v] \in Gap
    BY DEF TypeOK
  <1>2. \A v \in Cores : InOrder(v)' => InOrder(v)
    <2>1. (raced => raced') /\ overtaken \subseteq overtaken'
      BY Zenon
    <2> QED
      BY <2>1, InOrderBefore
  <1> QED
    BY <1>1, <1>2, PollsSame

(* A working core keeps the promise about what is polled. *)
LEMMA PollsWorker ==
  ASSUME TypeOK, Protocol, Polls, NEW w \in Cores, Worker(w) PROVE Polls'
  <1>0. /\ pc \in [Cores -> WorkerLabels] /\ qi \in [Cores -> {1, 2}]
        /\ offloading_idx \in [Cores -> Offs] /\ offloading_idx[w] \in Offs /\ O[w] \in Offs
    BY DEF TypeOK
  <1>a. AfterRatio(w) \notin Gap /\ AfterOffloading(w) \notin Gap
    BY AfterRatioLabel
  <1>1. CASE Drain(w)
    <2> DEFINE l == IF fill[myring(w)] = 0 THEN "top" ELSE "own"
    <2>1. pc' = [pc EXCEPT ![w] = l]
      BY <1>0, <1>1 DEF Drain, Goto
    <2>2. UNCHANGED <<pending, Q, qi, offloading_idx, O, transfer_offloading, raced, overtaken, returned>>
      BY <1>1 DEF Drain, cvars, flagvars, wvars, ovars, hvars
    <2>3. l \in Gap <=> pc[w] \in Gap
      BY <1>a, <1>1 DEF Drain, Gap
    <2> HIDE DEF l
    <2> QED
      BY <2>1, <2>2, <2>3, PollsGoto
  <1>2. CASE Signalled(w)
    <2> DEFINE l == IF w \in transfer_r THEN "ratio" ELSE AfterRatio(w)
    <2>1. pc' = [pc EXCEPT ![w] = l]
      BY <1>0, <1>2 DEF Signalled, Goto
    <2>2. UNCHANGED <<pending, Q, qi, offloading_idx, O, transfer_offloading, raced, overtaken, returned>>
      BY <1>2 DEF Signalled, cvars, flagvars, wvars, ovars, hvars
    <2>3. l \in Gap <=> pc[w] \in Gap
      BY <1>a, <1>2 DEF Signalled, Gap
    <2> HIDE DEF l
    <2> QED
      BY <2>1, <2>2, <2>3, PollsGoto
  <1>3. CASE OwnBurst(w)
    <2> DEFINE l == "top"
    <2>1. pc' = [pc EXCEPT ![w] = l]
      BY <1>0, <1>3 DEF OwnBurst, Goto
    <2>2. UNCHANGED <<pending, Q, qi, offloading_idx, O, transfer_offloading, raced, overtaken, returned>>
      BY <1>3 DEF OwnBurst, cvars, flagvars, wvars, ovars, hvars
    <2>3. l \in Gap <=> pc[w] \in Gap
      BY <1>a, <1>3 DEF OwnBurst, Gap
    <2> HIDE DEF l
    <2> QED
      BY <2>1, <2>2, <2>3, PollsGoto
  <1>4. CASE TransferR(w)
    <2> DEFINE l == IF fill[q(w)] # 0 THEN "rRemove" ELSE AfterRatio(w)
    <2>1. pc' = [pc EXCEPT ![w] = l]
      BY <1>0, <1>4 DEF TransferR, Goto
    <2>2. UNCHANGED <<pending, Q, qi, offloading_idx, O, transfer_offloading, raced, overtaken, returned>>
      BY <1>4 DEF TransferR, cvars, flagvars, wvars, ovars, hvars
    <2>3. l \in Gap <=> pc[w] \in Gap
      BY <1>a, <1>4 DEF TransferR, Gap
    <2> HIDE DEF l
    <2> QED
      BY <2>1, <2>2, <2>3, PollsGoto
  <1>5. CASE SwapRings(w)
    <2>1. pc[w] \in {"rRemove", "oRemove", "sRemove"} /\ Enqueue(w)
      BY <1>5 DEF SwapRings
    <2>2. pending' = [pending EXCEPT ![offloading_idx[w]] =
                        Append(pending[offloading_idx[w]], [op |-> "remove", ring |-> q(w)])]
      BY <2>1, EnqueueRemove
    <2>3. UNCHANGED <<Q, offloading_idx, O, transfer_offloading, overtaken, returned>>
      BY <1>5 DEF SwapRings, cvars, flagvars, ovars
    <2>4. /\ \A v \in Cores : v # w => qi'[v] = qi[v] /\ pc'[v] = pc[v]
          /\ pc'[w] \in Gap
      BY <1>0, <1>5 DEF SwapRings, Goto, Gap
    <2>5. \A v \in Cores : InOrder(v)' => InOrder(v)
      <3>1. (raced => raced') /\ overtaken \subseteq overtaken'
        BY <2>1, <2>3, EnqueueRemove, Zenon
      <3> QED
        BY <3>1, InOrderBefore
    <2> QED
      BY <2>2, <2>3, <2>4, <2>5, PollsRemove
  <1>6. CASE AddSwapped(w)
    <2>1. pc[w] \in {"rAdd", "sAdd"} /\ Enqueue(w)
      BY <1>6 DEF AddSwapped
    <2>2. pending' = [pending EXCEPT ![offloading_idx[w]] =
                        Append(pending[offloading_idx[w]], [op |-> "add", ring |-> q(w)])]
      BY <2>1, EnqueueAdd
    <2>3. UNCHANGED <<Q, qi, offloading_idx, O, transfer_offloading, overtaken, returned>>
      BY <1>6 DEF AddSwapped, cvars, wvars, ovars
    <2>4. /\ \A v \in Cores : v # w => pc'[v] = pc[v]
          /\ pc[w] \in Gap /\ pc'[w] \notin Gap
      BY <1>0, <1>a, <1>6 DEF AddSwapped, Goto, Gap
    <2>5. \A v \in Cores : InOrder(v)' => InOrder(v)
      <3>1. (raced => raced') /\ overtaken \subseteq overtaken'
        BY <2>1, <2>3, EnqueueAdd, Zenon
      <3> QED
        BY <3>1, InOrderBefore
    <2> QED
      BY <1>0, <2>2, <2>3, <2>4, <2>5, PollsAdd
  <1>7. CASE RemoveQ(w)
    <2>1. pc[w] \in {"rRemove", "oRemove", "sRemove"} /\ Enqueue(w)
      BY <1>7 DEF RemoveQ
    <2>2. pending' = [pending EXCEPT ![offloading_idx[w]] =
                        Append(pending[offloading_idx[w]], [op |-> "remove", ring |-> q(w)])]
      BY <2>1, EnqueueRemove
    <2>3. UNCHANGED <<Q, offloading_idx, O, transfer_offloading, overtaken, returned>>
      BY <1>7 DEF RemoveQ, cvars, flagvars, ovars
    <2>4. /\ \A v \in Cores : v # w => qi'[v] = qi[v] /\ pc'[v] = pc[v]
          /\ pc'[w] \in Gap
      BY <1>0, <1>7 DEF RemoveQ, Goto, Gap
    <2>5. \A v \in Cores : InOrder(v)' => InOrder(v)
      <3>1. (raced => raced') /\ overtaken \subseteq overtaken'
        BY <2>1, <2>3, EnqueueRemove, Zenon
      <3> QED
        BY <3>1, InOrderBefore
    <2> QED
      BY <2>2, <2>3, <2>4, <2>5, PollsRemove
  <1>8. CASE CountQ(w)
    <2> DEFINE l == IF pc[w] = "oTest" THEN IF fill[q(w)] # 0 THEN "oMove" ELSE "oAdd"
                      ELSE IF fill[q(w)] # 0 THEN "sMove" ELSE "sAdd"
    <2>1. pc' = [pc EXCEPT ![w] = l]
      BY <1>0, <1>8 DEF CountQ, Goto
    <2>2. UNCHANGED <<pending, Q, qi, offloading_idx, O, transfer_offloading, raced, overtaken, returned>>
      BY <1>8 DEF CountQ, cvars, flagvars, wvars, ovars, hvars
    <2>3. l \in Gap <=> pc[w] \in Gap
      BY <1>a, <1>8 DEF CountQ, Gap
    <2> HIDE DEF l
    <2> QED
      BY <2>1, <2>2, <2>3, PollsGoto
  <1>9. CASE MoveQ(w)
    <2> DEFINE l == IF pc[w] = "oMove" THEN "oTest" ELSE "sTest"
    <2>1. pc' = [pc EXCEPT ![w] = l]
      BY <1>0, <1>9 DEF MoveQ, Goto
    <2>2. UNCHANGED <<pending, Q, qi, offloading_idx, O, transfer_offloading, raced, overtaken, returned>>
      BY <1>9 DEF MoveQ, cvars, flagvars, wvars, ovars, hvars
    <2>3. l \in Gap <=> pc[w] \in Gap
      BY <1>a, <1>9 DEF MoveQ, Gap
    <2> HIDE DEF l
    <2> QED
      BY <2>1, <2>2, <2>3, PollsGoto
  <1>10. CASE EndOffloading(w)
    <2>1. pc[w] = "oAdd" /\ Enqueue(w) /\ TellsNew /\ TransferAsked
      BY <1>10 DEF EndOffloading, Protocol
    <2>2. /\ pending' = [pending EXCEPT ![O[w]] =
                            Append(pending[O[w]], [op |-> "add", ring |-> q(w)])]
          /\ new_offloading[w] = O[w]
      BY <2>1, EnqueueNew
    <2>3. UNCHANGED <<Q, qi, O, overtaken, returned>>
      BY <1>10 DEF EndOffloading, cvars, ovars
    <2>4. /\ offloading_idx'[w] = O[w]
          /\ \A v \in Cores : v # w => /\ offloading_idx'[v] = offloading_idx[v] /\ pc'[v] = pc[v]
                                       /\ v \in transfer_offloading' <=> v \in transfer_offloading
          /\ pc[w] \in Gap /\ pc'[w] \notin Gap
      BY <1>0, <1>a, <1>10, <2>2 DEF EndOffloading, Goto, Gap
    <2>5. \A v \in Cores : InOrder(v)' => InOrder(v)
      <3>1. (raced => raced') /\ overtaken \subseteq overtaken'
        BY <2>1, <2>3, EnqueueNew, Zenon
      <3> QED
        BY <3>1, InOrderBefore
    <2> QED
      BY <1>0, <2>2, <2>3, <2>4, <2>5, PollsAdd
  <1>11. CASE EndShard(w)
    <2>1. pc[w] \in {"rAdd", "sAdd"} /\ Enqueue(w)
      BY <1>11 DEF EndShard
    <2>2. pending' = [pending EXCEPT ![offloading_idx[w]] =
                        Append(pending[offloading_idx[w]], [op |-> "add", ring |-> q(w)])]
      BY <2>1, EnqueueAdd
    <2>3. UNCHANGED <<Q, qi, offloading_idx, O, transfer_offloading, overtaken, returned>>
      BY <1>11 DEF EndShard, cvars, wvars, ovars
    <2>4. /\ \A v \in Cores : v # w => pc'[v] = pc[v]
          /\ pc[w] \in Gap /\ pc'[w] \notin Gap
      BY <1>0, <1>a, <1>11 DEF EndShard, Goto, Gap
    <2>5. \A v \in Cores : InOrder(v)' => InOrder(v)
      <3>1. (raced => raced') /\ overtaken \subseteq overtaken'
        BY <2>1, <2>3, EnqueueAdd, Zenon
      <3> QED
        BY <3>1, InOrderBefore
    <2> QED
      BY <1>0, <2>2, <2>3, <2>4, <2>5, PollsAdd
  <1>12. CASE ClearSignal(w)
    <2> DEFINE l == "process"
    <2>1. pc' = [pc EXCEPT ![w] = l]
      BY <1>0, <1>12 DEF ClearSignal, Goto
    <2>2. UNCHANGED <<pending, Q, qi, offloading_idx, O, transfer_offloading, raced, overtaken, returned>>
      BY <1>12 DEF ClearSignal, cvars, flagvars, wvars, ovars, hvars
    <2>3. l \in Gap <=> pc[w] \in Gap
      BY <1>a, <1>12 DEF ClearSignal, Gap
    <2> HIDE DEF l
    <2> QED
      BY <2>1, <2>2, <2>3, PollsGoto
  <1>13. CASE Process(w)
    <2> DEFINE l == "top"
    <2>1. pc' = [pc EXCEPT ![w] = l]
      BY <1>0, <1>13 DEF Process, Goto
    <2>2. UNCHANGED <<pending, Q, qi, offloading_idx, O, transfer_offloading, raced, overtaken, returned>>
      BY <1>13 DEF Process, cvars, flagvars, wvars, ovars, hvars
    <2>3. l \in Gap <=> pc[w] \in Gap
      BY <1>a, <1>13 DEF Process, Gap
    <2> HIDE DEF l
    <2> QED
      BY <2>1, <2>2, <2>3, PollsGoto
  <1> QED
    BY <1>1, <1>2, <1>3, <1>4, <1>5, <1>6, <1>7, <1>8, <1>9, <1>10, <1>11, <1>12, <1>13 DEF Worker

(* The controller keeps the promise about what is polled. *)
LEMMA PollsController ==
  ASSUME TypeOK, Protocol, Polls, CtlRatio \/ Controller PROVE Polls'
  <1>1. ASSUME UNCHANGED <<pending, Q, qi, offloading_idx, O, transfer_offloading, pc, raced, overtaken, returned>>
        PROVE  Polls'
    <2>1. (raced => raced') /\ overtaken \subseteq overtaken'
      BY <1>1, Zenon
    <2>2. \A v \in Cores : InOrder(v)' => InOrder(v)
      BY <2>1, InOrderBefore
    <2> QED
      BY <1>1, <2>2, PollsSame
  <1>2. CASE CtlRatio
    BY <1>1, <1>2 DEF CtlRatio, wvars, ovars, hvars
  <1>3. CASE CtlShards
    BY <1>1, <1>3 DEF CtlShards, wvars, ovars
  <1>4. CASE CtlSignal
    BY <1>1, <1>4 DEF CtlSignal, wvars, ovars, hvars
  <1>5. CASE CtlRelate
    <2>1. /\ UNCHANGED <<Q, qi, offloading_idx, pc, raced, overtaken>>
          /\ cpc = "relate" /\ O' = [O EXCEPT ![cw] = newO[cw]] /\ returned \subseteq returned'
      BY <1>5 DEF CtlRelate, wvars, ovars
    <2>2. cw \in Cores /\ O \in [Cores -> Offs] /\ O[cw] \in Offs /\ transfer_offloading \subseteq Cores
      BY DEF TypeOK
    <2>3. \A v \in Cores : InOrder(v)' => InOrder(v)
      <3>1. (raced => raced') /\ overtaken \subseteq overtaken'
        BY <2>1, Zenon
      <3> QED
        BY <2>1, <3>1, InOrderBefore
    <2>4. CASE newO[cw] = O[cw]
      <3>1. UNCHANGED <<pending, transfer_offloading, returned, O>>
        BY <1>5, <2>2, <2>4 DEF CtlRelate
      <3> QED
        BY <1>1, <2>1, <3>1
    <2>5. CASE newO[cw] # O[cw]
      <3>1. /\ pending' = [pending EXCEPT ![O[cw]] =
                             Append(pending[O[cw]], [op |-> "remove", ring |-> q(cw)])]
            /\ cw \in transfer_offloading' \/ cw \in returned'
            /\ \A v \in Cores : v # cw => /\ O'[v] = O[v]
                                          /\ v \in transfer_offloading' <=> v \in transfer_offloading
                                          /\ v \in returned' <=> v \in returned
        BY <1>5, <2>1, <2>2, <2>5 DEF CtlRelate
      <3> SUFFICES ASSUME NEW v \in Cores, InOrder(v)' PROVE Promise(v)'
        BY DEF Polls, Promise
      <3>2. Promise(v)
        BY <2>3 DEF Polls, Promise
      <3>3. CASE v # cw
        <4>1. ASSUME NEW e \in Offs, NEW i \in {1, 2}
              PROVE  /\ Chained(pending[e], Q[e], <<v, i>>) => Chained(pending'[e], Q'[e], <<v, i>>)
                     /\ Present(pending'[e], Q'[e], <<v, i>>) <=> Present(pending[e], Q[e], <<v, i>>)
          <5>1. <<v, i>> # q(cw)
            BY <3>3 DEF q
          <5> QED
            BY <2>1, <2>2, <3>1, <5>1, EnqueueOther
        <4>2. /\ O'[v] = O[v] /\ (v \in transfer_offloading' <=> v \in transfer_offloading)
              /\ v \in returned' <=> v \in returned
          BY <3>1, <3>3
        <4> QED
          BY <2>1, <3>2, <4>1, <4>2, SamePromise
      <3>4. CASE v = cw
        <4>1. \A e \in Offs : \A i \in {1, 2} :
                 /\ Chained(pending'[e], Q'[e], <<v, i>>)
                 /\ Present(pending'[e], Q'[e], <<v, i>>) => Present(pending[e], Q[e], <<v, i>>)
          BY <2>1, <2>2, <3>1, <3>2, <3>4, RemovedPromise
        <4>2. ChainedOf(v)'
          BY <4>1 DEF ChainedOf
        <4>3. OnlyOf(v)'
          BY <2>1, <3>2, <4>1 DEF Promise, OnlyOf
        <4>4. v \in transfer_offloading' \union returned'
          BY <3>1, <3>4
        <4>5. PolledOf(v)'
          BY <4>4 DEF PolledOf
        <4> QED
          BY <4>2, <4>3, <4>5 DEF Promise
      <3> QED
        BY <3>3, <3>4
    <2> QED
      BY <2>4, <2>5
  <1> QED
    BY <1>2, <1>3, <1>4, <1>5 DEF Controller

(* An offloading core keeps the promise about what is polled. *)
LEMMA PollsOffloader ==
  ASSUME TypeOK, Polls, NEW e \in Offs, Offloader(e) PROVE Polls'
  <1>1. ASSUME UNCHANGED <<pending, Q, qi, offloading_idx, O, transfer_offloading, pc, raced, overtaken, returned>>
        PROVE  Polls'
    <2>1. (raced => raced') /\ overtaken \subseteq overtaken'
      BY <1>1, Zenon
    <2>2. \A v \in Cores : InOrder(v)' => InOrder(v)
      BY <2>1, InOrderBefore
    <2> QED
      BY <1>1, <2>2, PollsSame
  <1>2. CASE ControlEmpty(e)
    BY <1>1, <1>2 DEF ControlEmpty, cvars, flagvars, wvars, hvars
  <1>3. CASE OffBurst(e)
    BY <1>1, <1>3 DEF OffBurst, cvars, flagvars, wvars, hvars
  <1>4. CASE Control(e)
    <2>0. Of(e, opc[e]) # {} /\ TakeEntry(e, opc[e]) /\ opc[e] \in {"remove", "add"}
      BY <1>4 DEF Control
    <2>1. UNCHANGED <<qi, offloading_idx, O, transfer_offloading, pc, raced, returned>>
      BY <1>4 DEF Control, cvars, flagvars, wvars
    <2>2. PICK k \in 1 .. Len(pending[e]) :
            /\ pending[e][k] \in Entry /\ pending[e][k].op = opc[e]
            /\ pending' = [pending EXCEPT ![e] = Taken(pending[e], k)]
            /\ overtaken' = IF \E j \in 1 .. k - 1 : pending[e][j].ring = pending[e][k].ring
                            THEN overtaken \union {pending[e][k].ring} ELSE overtaken
            /\ Q' = [Q EXCEPT ![e] = IF opc[e] = "add" THEN Append(Q[e], pending[e][k].ring)
                                     ELSE Without(Q[e], pending[e][k].ring)]
      BY <2>0, TakeEntryTakes
    <2> DEFINE p == pending[e]
               x == pending[e][k].ring
               s == Q[e]
               t == IF p[k].op = "add" THEN Append(s, x) ELSE Without(s, x)
    <2>3. /\ p \in Seq(Entry) /\ s \in Seq(Rings) /\ x \in Rings /\ k \in 1 .. Len(p)
          /\ p[k].ring = x /\ p[k].op \in {"add", "remove"}
          /\ pending \in [Offs -> Seq(Entry)] /\ Q \in [Offs -> Seq(Rings)]
      BY <2>0, <2>2 DEF TypeOK, Entry
    <2>4. /\ pending'[e] = Taken(p, k) /\ Q'[e] = t
          /\ \A d \in Offs : d # e => pending'[d] = pending[d] /\ Q'[d] = Q[d]
      BY <2>2, <2>3
    <2>5. (\E j \in 1 .. k - 1 : p[j].ring = x) => x \in overtaken'
      BY <2>2
    <2>6. \A v \in Cores : InOrder(v)' => InOrder(v)
      <3>1. overtaken \subseteq overtaken'
        BY <2>2
      <3>2. (raced => raced') /\ returned \subseteq returned'
        BY <2>1, Zenon
      <3> QED
        BY <3>1, <3>2, InOrderBefore
    <2>7. t = IF p[k].op = "add" THEN Append(s, x) ELSE Without(s, x)
      OBVIOUS
    <2>8. p = pending[e] /\ s = Q[e]
      OBVIOUS
    <2> HIDE DEF p, x, s, t
    <2> SUFFICES ASSUME NEW v \in Cores, InOrder(v)' PROVE Promise(v)'
      BY DEF Polls, Promise
    <2>9. Promise(v)
      BY <2>6 DEF Polls, Promise
    <2>10. ASSUME NEW y, y # x
           PROVE  (Has(t, y) <=> Has(s, y)) /\ (Once(s, y) => Once(t, y))
      <3>1. (Has(Append(s, x), y) <=> Has(s, y)) /\ (Once(s, y) => Once(Append(s, x), y))
        BY <2>3, <2>10, AppendHas
      <3>2. (Has(Without(s, x), y) <=> Has(s, y)) /\ (Once(s, y) => Once(Without(s, x), y))
        BY <2>3, <2>10, WithoutHas
      <3> QED
        BY <2>7, <3>1, <3>2
    <2>11. ASSUME NEW i \in {1, 2}
           PROVE  /\ Chained(p, s, <<v, i>>) => Chained(Taken(p, k), t, <<v, i>>)
                  /\ Present(Taken(p, k), t, <<v, i>>) <=> Present(p, s, <<v, i>>)
      <3> DEFINE y == <<v, i>>
      <3>1. CASE y # x
        <4>1. (Has(t, y) <=> Has(s, y)) /\ (Once(s, y) => Once(t, y)) /\ p[k].ring # y
          BY <2>3, <2>10, <3>1
        <4> HIDE DEF y
        <4>2. /\ Chained(p, s, y) => Chained(Taken(p, k), t, y)
              /\ Present(Taken(p, k), t, y) <=> Present(p, s, y)
          BY <2>3, <4>1, TakeOther
        <4> QED
          BY <4>2 DEF y
      <3>2. CASE y = x
        <4>1. x \notin overtaken'
          BY <3>2 DEF InOrder
        <4>2. \A j \in 1 .. k - 1 : p[j].ring # x
          BY <2>5, <4>1
        <4>3. Chained(p, s, x)
          BY <2>8, <2>9, <3>2 DEF Promise, ChainedOf
        <4>4. /\ Chained(Taken(p, k), t, x)
              /\ Present(Taken(p, k), t, x) <=> Present(p, s, x)
          BY <2>3, <2>7, <4>2, <4>3, TakeFirst
        <4> QED
          BY <3>2, <4>4
      <3> QED
        BY <3>1, <3>2
    <2>12. ASSUME NEW d \in Offs, NEW i \in {1, 2}
           PROVE  /\ Chained(pending[d], Q[d], <<v, i>>) => Chained(pending'[d], Q'[d], <<v, i>>)
                  /\ Present(pending'[d], Q'[d], <<v, i>>) <=> Present(pending[d], Q[d], <<v, i>>)
      <3>1. CASE d = e
        BY <2>4, <2>8, <2>11, <3>1
      <3>2. CASE d # e
        <4>1. pending'[d] = pending[d] /\ Q'[d] = Q[d]
          BY <2>4, <3>2
        <4> QED
          BY <4>1
      <3> QED
        BY <3>1, <3>2
    <2> QED
      BY <2>1, <2>9, <2>12, SamePromise
  <1> QED
    BY <1>2, <1>3, <1>4 DEF Offloader

-----------------------------------------------------------------------------
(* The theorems.                                                            *)

(* Every step of the controller, the working and the offloading cores keeps *)
(* the inductive invariant.                                                 *)
LEMMA NextIInv ==
  ASSUME IInv, [Next]_vars PROVE IInv'
  <1>0. TypeOK /\ Protocol /\ Polls
    BY DEF IInv
  <1>1. CASE CtlRatio \/ Controller
    BY <1>0, <1>1, TypeController, ProtocolController, PollsController DEF IInv
  <1>2. ASSUME NEW w \in Cores, Worker(w) PROVE IInv'
    BY <1>0, <1>2, TypeWorker, ProtocolWorker, PollsWorker DEF IInv
  <1>3. ASSUME NEW e \in Offs, Offloader(e) PROVE IInv'
    BY <1>0, <1>3, TypeOffloader, ProtocolOffloader, PollsOffloader DEF IInv
  <1>4. CASE UNCHANGED vars
    <2>1. /\ UNCHANGED cvars /\ UNCHANGED flagvars /\ UNCHANGED pending /\ UNCHANGED pc
          /\ UNCHANGED wvars /\ UNCHANGED fill /\ UNCHANGED ovars /\ UNCHANGED hvars
      BY <1>4 DEF vars
    <2>2. TypeOK'
      BY <1>0, <2>1 DEF TypeOK, cvars, flagvars, wvars, ovars, hvars
    <2>3. Protocol'
      <3>1. UNCHANGED <<cpc, cw, O, transfer_offloading, controller_signal, new_offloading, pc, myown, opc, Q>>
        BY <2>1 DEF cvars, flagvars, wvars, ovars
      <3>2. HasRing' /\ TellsNew' /\ SignalledOnly' /\ StartsFirst' /\ TransferAsked' /\ TransferDone'
        BY <1>0, <3>1 DEF Protocol, HasRing, TellsNew, SignalledOnly, StartsFirst, TransferAsked, TransferDone
      <3>3. PlanQuiet' /\ AskedSignalled'
        BY <1>0, <3>1 DEF Protocol, PlanQuiet, Quiet, AskedSignalled
      <3> QED
        BY <3>2, <3>3 DEF Protocol
    <2>4. Polls'
      <3>1. UNCHANGED <<pending, Q, qi, offloading_idx, O, transfer_offloading, pc, raced, overtaken, returned>>
        BY <2>1 DEF cvars, flagvars, wvars, ovars, hvars
      <3>2. (raced => raced') /\ overtaken \subseteq overtaken'
        BY <3>1, Zenon
      <3>3. \A v \in Cores : InOrder(v)' => InOrder(v)
        BY <3>2, InOrderBefore
      <3> QED
        BY <1>0, <3>1, <3>3, PollsSame
    <2> QED
      BY <2>2, <2>3, <2>4 DEF IInv
  <1> QED
    BY <1>1, <1>2, <1>3, <1>4 DEF Next

(* In a settled state what will be polled is what is polled. *)
LEMMA SettledPolls ==
  ASSUME IInv, Settled, NEW w \in Cores, InOrder(w), NEW e \in Offs, NEW i \in {1, 2}
  PROVE  /\ Present(pending[e], Q[e], <<w, i>>) <=> Has(Q[e], <<w, i>>)
         /\ Has(Q[e], <<w, i>>) =>
               Cardinality({k \in DOMAIN Q[e] : Q[e][k] = <<w, i>>}) = 1
  <1> DEFINE s == Q[e]
             x == <<w, i>>
  <1>1. s \in Seq(Rings) /\ pending[e] = <<>>
    BY DEF IInv, TypeOK, Settled
  <1>2. Chained(<<>>, s, x)
    BY <1>1 DEF IInv, Polls, ChainedOf
  <1> HIDE DEF s, x
  <1>3. /\ Present(<<>>, s, x) <=> Has(s, x)
        /\ Has(s, x) => Cardinality({k \in DOMAIN s : s[k] = x}) = 1
    BY <1>1, <1>2, NothingToCome
  <1> QED
    BY <1>1, <1>3 DEF s, x

(* The invariant holds throughout: what the control queues will make of the *)
(* vectors is what the controller and the working cores rely on.            *)
THEOREM Invariant == Spec => []IInv
  <1>1. Init => IInv
    BY InitIInv
  <1>2. IInv /\ [Next]_vars => IInv'
    BY NextIInv
  <1> QED
    BY <1>1, <1>2, PTL DEF Spec

(* The rings, the control queues and the vectors keep their types, for any  *)
(* number of cores: every burst is of a ring that there is.                 *)
THEOREM TypeCorrect == Spec => []TypeOK
  <1>1. IInv => TypeOK
    BY DEF IInv
  <1> QED
    BY <1>1, Invariant, PTL

(* The ring a core offloads to is once in the vector of the offloading core *)
(* given to it when the transfers of run_task and update_relationship are   *)
(* done and their removals and additions were taken in order.               *)
THEOREM PolledCorrect == Spec => []QueuePolled
  <1>1. IInv => QueuePolled
    <2> SUFFICES ASSUME IInv, Settled, NEW w \in Cores, InOrder(w), w \notin returned
                 PROVE  /\ offloading_idx[w] = O[w]
                        /\ Cardinality({k \in DOMAIN Q[O[w]] : Q[O[w]][k] = q(w)}) = 1
      BY DEF QueuePolled
    <2>1. PolledOf(w)
      BY DEF IInv, Polls
    <2>2. /\ qi[w] \in {1, 2} /\ O[w] \in Offs
          /\ w \notin transfer_offloading \union returned /\ pc[w] \notin Gap
      BY DEF IInv, TypeOK, Settled, Protocol, AskedSignalled, Gap
    <2>3. offloading_idx[w] = O[w] /\ Present(pending[O[w]], Q[O[w]], <<w, qi[w]>>)
      BY <2>1, <2>2 DEF PolledOf, q
    <2>4. Cardinality({k \in DOMAIN Q[O[w]] : Q[O[w]][k] = <<w, qi[w]>>}) = 1
      BY <2>2, <2>3, SettledPolls
    <2> QED
      BY <2>3, <2>4 DEF q
  <1> QED
    BY <1>1, Invariant, PTL

(* The rings of a vector have a core and a side. *)
LEMMA RingOf ==
  ASSUME TypeOK, NEW e \in Offs, NEW k \in DOMAIN Q[e], NEW w, Q[e][k][1] = w
  PROVE  \E i \in {1, 2} : Q[e][k] = <<w, i>>
  <1>1. Q[e] \in Seq(Rings)
    BY DEF TypeOK
  <1>2. Q[e][k] \in Rings
    BY <1>1
  <1> QED
    BY <1>2 DEF Rings

(* No offloading core but the one a core names has a ring of that core in   *)
(* its vector then, and none has its private ring.                          *)
THEOREM NobodyElseCorrect == Spec => []NobodyElsePolls
  <1>1. IInv => NobodyElsePolls
    <2> SUFFICES ASSUME IInv, Settled, NEW w \in Cores, InOrder(w),
                        NEW e \in Offs, NEW k \in DOMAIN Q[e], Q[e][k][1] = w
                 PROVE  e = offloading_idx[w] /\ Q[e][k] = q(w)
      BY DEF NobodyElsePolls
    <2>1. PICK i \in {1, 2} : Q[e][k] = <<w, i>>
      BY RingOf DEF IInv
    <2>2. Has(Q[e], <<w, i>>)
      BY <2>1 DEF Has
    <2>3. Present(pending[e], Q[e], <<w, i>>)
      BY <2>2, SettledPolls
    <2>4. e = offloading_idx[w] /\ i = qi[w]
      BY <2>3 DEF IInv, Polls, OnlyOf
    <2> QED
      BY <2>1, <2>4 DEF q
  <1> QED
    BY <1>1, Invariant, PTL

(* No transfer adds a ring to a vector that still has it: while its entries *)
(* are taken in order, a ring has one turn in a round of run_task.          *)
THEOREM OnceCorrect == Spec => []RingOnce
  <1>1. IInv => RingOnce
    <2> SUFFICES ASSUME IInv, NEW w \in Cores, InOrder(w), NEW e \in Offs,
                        NEW j \in DOMAIN Q[e], NEW k \in DOMAIN Q[e],
                        Q[e][j][1] = w, Q[e][j] = Q[e][k]
                 PROVE  j = k
      BY DEF RingOnce
    <2>1. PICK i \in {1, 2} : Q[e][j] = <<w, i>>
      BY RingOf DEF IInv
    <2>2. Once(Q[e], <<w, i>>)
      BY DEF IInv, Polls, ChainedOf, Chained
    <2> QED
      BY <2>1, <2>2 DEF Once
  <1> QED
    BY <1>1, Invariant, PTL
=============================================================================
