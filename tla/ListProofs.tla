------------------------------ MODULE ListProofs ------------------------------
(***************************************************************************)
(* Induction over the numbers, which the library states of an operator and *)
(* is stated here of a set, and what it shows of Picked.  Used by all the  *)
(* other modules of proofs.                                                *)
(***************************************************************************)
EXTENDS Lists, SequenceTheorems, FiniteSetTheorems, TLAPS

-------------------------------------------------------------------------------
(* Induction, over sets: a set of numbers that holds 0 and with each number*)
(* the next one holds them all.                                            *)

Beneath(S, k) == {j \in S : j < k}

LEMMA LeastOne ==
  ASSUME NEW S \in SUBSET Nat, S # {}
  PROVE  \E k \in S : \A j \in S : k <= j
<1> DEFINE T == {Beneath(S, k) : k \in S}
<1>1. T \subseteq FiniteSubsetsOf(Nat) /\ T # {}
  <2> SUFFICES ASSUME NEW k \in S PROVE Beneath(S, k) \in FiniteSubsetsOf(Nat)
    OBVIOUS
  <2>1. \A j \in Beneath(S, k) : j \in Nat /\ j < k
    BY DEF Beneath
  <2>2. k \in Nat /\ Beneath(S, k) \in SUBSET Nat
    BY <2>1
  <2> HIDE DEF T
  <2>3. IsFiniteSet(Beneath(S, k))
    <3>1. \A j \in Beneath(S, k) : j <= k
      BY <2>1, <2>2
    <3> QED
      BY <3>1, <2>2, FS_BoundedSetOfNaturals
  <2> QED
    BY <2>2, <2>3 DEF FiniteSubsetsOf
<1>2. PICK B \in T : \A A \in T : <<A, B>> \notin StrictSubsetOrdering(Nat)
  <2> HIDE DEF T
  <2> QED
    BY <1>1, FS_StrictSubsetOrderingWellFounded, WFMin
<1>3. PICK k \in S : B = Beneath(S, k)
  OBVIOUS
<1>4. ASSUME NEW j \in S, j < k PROVE FALSE
  <2>1. j \in Nat /\ k \in Nat
    OBVIOUS
  <2>2. \A l \in Beneath(S, j) : l \in Beneath(S, k)
    <3> TAKE l \in Beneath(S, j)
    <3>1. l \in S /\ l \in Nat /\ l < j
      BY DEF Beneath
    <3> QED
      BY <3>1, <2>1, <1>4 DEF Beneath
  <2>3. j \in Beneath(S, k) /\ j \notin Beneath(S, j)
    BY <2>1, <1>4 DEF Beneath
  <2>4. Beneath(S, j) \in SUBSET Nat /\ Beneath(S, k) \in SUBSET Nat
    BY DEF Beneath
  <2>5. <<Beneath(S, j), Beneath(S, k)>> \in StrictSubsetOrdering(Nat)
    BY <2>2, <2>3, <2>4 DEF StrictSubsetOrdering
  <2> QED
    BY <2>5, <1>2, <1>3
<1>5. \A j \in S : k <= j
  BY <1>4
<1> QED
  BY <1>5

LEMMA EveryNumber ==
  ASSUME NEW S, 0 \in S, \A n \in Nat : n \in S => n + 1 \in S
  PROVE  Nat \subseteq S
<1> DEFINE M == Nat \ S
<1> SUFFICES ASSUME M # {} PROVE FALSE
  OBVIOUS
<1>1. PICK k \in M : \A j \in M : k <= j
  <2>1. M \in SUBSET Nat
    OBVIOUS
  <2> HIDE DEF M
  <2> QED
    BY <2>1, LeastOne
<1>2. k \in Nat /\ k # 0 /\ k - 1 \in Nat
  OBVIOUS
<1>3. k - 1 \in S
  BY <1>1, <1>2
<1> QED
  BY <1>2, <1>3

(* ... and a set of lists that holds the empty one and with each list what *)
(* appending to it gives.                                                  *)
LEMMA EveryList ==
  ASSUME NEW S, NEW T, <<>> \in T,
         \A s \in Seq(S), e \in S : s \in T => Append(s, e) \in T
  PROVE  Seq(S) \subseteq T
<1> DEFINE N == {n \in Nat : \A s \in Seq(S) : Len(s) = n => s \in T}
<1>1. 0 \in N
  BY EmptySeq
<1>2. ASSUME NEW n \in Nat, n \in N PROVE n + 1 \in N
  <2> SUFFICES ASSUME NEW s \in Seq(S), Len(s) = n + 1 PROVE s \in T
    OBVIOUS
  <2>1. s # <<>>
    BY EmptySeq
  <2>2. PICK r \in Seq(S), e \in S : s = Append(r, e)
    BY <2>1, SequenceEmptyOrAppend
  <2>3. Len(r) = n
    BY <2>2, AppendProperties
  <2> QED
    BY <1>2, <2>2, <2>3
<1> HIDE DEF N
<1>3. Nat \subseteq N
  BY <1>1, <1>2, EveryNumber
<1>4. ASSUME NEW s \in Seq(S) PROVE s \in T
  <2>1. Len(s) \in N
    BY <1>3, LenProperties
  <2> QED
    BY <2>1 DEF N
<1> QED
  BY <1>4

-------------------------------------------------------------------------------
(* Picked.  PickStep is the equation its recursive function solves.        *)

PickStep(f, g, k) ==
  IF k = 0 THEN <<>> ELSE IF k \in DOMAIN f THEN Append(g[k - 1], f[k]) ELSE g[k - 1]

Picks(f, g, n) == g = [k \in 0 .. n |-> PickStep(f, g, k)]

LEMMA PicksExist ==
  ASSUME NEW f, NEW n \in Nat
  PROVE  \E g : Picks(f, g, n)
<1> DEFINE S == {m \in Nat : \E g : Picks(f, g, m)}
<1>1. 0 \in S
  <2>1. Picks(f, [k \in 0 .. 0 |-> <<>>], 0)
    BY DEF Picks, PickStep
  <2> QED
    BY <2>1
<1>2. ASSUME NEW m \in Nat, m \in S PROVE m + 1 \in S
  <2>1. PICK g : Picks(f, g, m)
    BY <1>2
  <2> DEFINE h == [k \in 0 .. m + 1 |-> IF k = m + 1 THEN PickStep(f, g, k) ELSE g[k]]
  <2>2. \A k \in 0 .. m : h[k] = g[k] /\ g[k] = PickStep(f, g, k)
    BY <2>1 DEF Picks
  <2>3. \A k \in 0 .. m + 1 : k # 0 => k - 1 \in 0 .. m
    OBVIOUS
  <2>4. \A k \in 0 .. m + 1 : PickStep(f, h, k) = PickStep(f, g, k)
    BY <2>2, <2>3 DEF PickStep
  <2>5. \A k \in 0 .. m + 1 : h[k] = PickStep(f, g, k)
    <3> TAKE k \in 0 .. m + 1
    <3>1. CASE k = m + 1
      BY <3>1
    <3>2. CASE k # m + 1
      <4>1. k \in 0 .. m
        BY <3>2
      <4> HIDE DEF h
      <4> QED
        BY <4>1, <2>2
    <3> QED
      BY <3>1, <3>2
  <2>6. h = [k \in 0 .. m + 1 |-> h[k]]
    OBVIOUS
  <2> HIDE DEF h
  <2>7. Picks(f, h, m + 1)
    BY <2>4, <2>5, <2>6 DEF Picks
  <2> QED
    BY <2>7
<1> HIDE DEF S
<1>3. n \in S
  BY <1>1, <1>2, EveryNumber
<1> QED
  BY <1>3 DEF S

(* Two solutions agree, and only the values of f below the index matter.   *)
LEMMA PicksAgree ==
  ASSUME NEW f, NEW e, NEW g, NEW h, NEW n \in Nat, NEW m \in Nat, NEW l \in Nat,
         l <= n, l <= m, Picks(f, g, n), Picks(e, h, m),
         \A i \in 1 .. l : (i \in DOMAIN f <=> i \in DOMAIN e) /\ (i \in DOMAIN f => f[i] = e[i])
  PROVE  g[l] = h[l]
<1> DEFINE S == {k \in Nat : k <= l => g[k] = h[k]}
<1>1. \A k \in Nat : k <= l => g[k] = PickStep(f, g, k) /\ h[k] = PickStep(e, h, k)
  <2> SUFFICES ASSUME NEW k \in Nat, k <= l
               PROVE  g[k] = PickStep(f, g, k) /\ h[k] = PickStep(e, h, k)
    OBVIOUS
  <2>1. k \in 0 .. n /\ k \in 0 .. m
    OBVIOUS
  <2>2. g = [i \in 0 .. n |-> PickStep(f, g, i)] /\ h = [i \in 0 .. m |-> PickStep(e, h, i)]
    BY DEF Picks
  <2>3. g[k] = [i \in 0 .. n |-> PickStep(f, g, i)][k]
    BY <2>2
  <2>4. h[k] = [i \in 0 .. m |-> PickStep(e, h, i)][k]
    BY <2>2
  <2> QED
    BY <2>1, <2>3, <2>4
<1>2. 0 \in S
  BY <1>1 DEF PickStep
<1>3. ASSUME NEW k \in Nat, k \in S PROVE k + 1 \in S
  <2> SUFFICES ASSUME k + 1 <= l PROVE g[k + 1] = h[k + 1]
    OBVIOUS
  <2>1. g[k] = h[k] /\ k + 1 \in 1 .. l /\ (k + 1) - 1 = k /\ k + 1 # 0
    BY <1>3
  <2>2. g[k + 1] = PickStep(f, g, k + 1) /\ h[k + 1] = PickStep(e, h, k + 1)
    BY <1>1
  <2> QED
    BY <2>1, <2>2 DEF PickStep
<1> HIDE DEF S
<1>4. l \in S
  BY <1>2, <1>3, EveryNumber
<1> QED
  BY <1>4 DEF S

LEMMA PickedSolves ==
  ASSUME NEW f, NEW n \in Nat
  PROVE  \E g : Picks(f, g, n) /\ Picked(f, n) = g[n]
<1> DEFINE G == CHOOSE g : Picks(f, g, n)
<1>1. Picks(f, G, n)
  BY PicksExist
<1>2. Picked(f, n) = G[n]
  BY DEF Picked, Picks, PickStep
<1> QED
  BY <1>1, <1>2

LEMMA PickedLocal ==
  ASSUME NEW f, NEW e, NEW n \in Nat,
         \A i \in 1 .. n : (i \in DOMAIN f <=> i \in DOMAIN e) /\ (i \in DOMAIN f => f[i] = e[i])
  PROVE  Picked(f, n) = Picked(e, n)
<1>1. PICK g : Picks(f, g, n) /\ Picked(f, n) = g[n]
  BY PickedSolves
<1>2. PICK h : Picks(e, h, n) /\ Picked(e, n) = h[n]
  BY PickedSolves
<1>3. n <= n
  OBVIOUS
<1>4. g[n] = h[n]
  BY <1>1, <1>2, <1>3, PicksAgree
<1> QED
  BY <1>1, <1>2, <1>4

LEMMA PickedNone == ASSUME NEW f PROVE Picked(f, 0) = <<>>
<1>1. PICK g : Picks(f, g, 0) /\ Picked(f, 0) = g[0]
  BY PickedSolves
<1> QED
  BY <1>1 DEF Picks, PickStep

LEMMA PickedNext ==
  ASSUME NEW f, NEW n \in Nat
  PROVE  Picked(f, n + 1) =
           IF n + 1 \in DOMAIN f THEN Append(Picked(f, n), f[n + 1]) ELSE Picked(f, n)
<1>1. PICK g : Picks(f, g, n) /\ Picked(f, n) = g[n]
  BY PickedSolves
<1>2. PICK h : Picks(f, h, n + 1) /\ Picked(f, n + 1) = h[n + 1]
  <2>1. n + 1 \in Nat
    OBVIOUS
  <2> QED
    BY <2>1, PickedSolves
<1>3. g[n] = h[n]
  <2>1. n <= n /\ n <= n + 1 /\ n + 1 \in Nat
    OBVIOUS
  <2> QED
    BY <1>1, <1>2, <2>1, PicksAgree
<1>4. h[n + 1] = PickStep(f, h, n + 1)
  BY <1>2 DEF Picks
<1> QED
  BY <1>1, <1>2, <1>3, <1>4 DEF PickStep
===============================================================================
