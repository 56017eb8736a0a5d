------------------------------ MODULE TurnsProofs ------------------------------
(***************************************************************************)
(* What shows that two copies of a game are no longer alike shows it: the  *)
(* proofs about Delays, NodeHash and HashExchange, and about the rings of  *)
(* HashRing the last two keep their hashes in.                             *)
(*                                                                         *)
(* Both exchanges rest on one count.  A hash is lost when a ring is full   *)
(* or when the battle it is of has been forgotten, and each needs more     *)
(* samples unread from the other side than a ring holds: as long as        *)
(* neither side is that far behind, what both have passed and read is      *)
(* compared, and what is read and not reached waits in a ring.             *)
(***************************************************************************)
EXTENDS HashExchange, NodeHash, Delays, ListProofs

-------------------------------------------------------------------------------
(* The rings.                                                              *)

(* No two entries of a ring have the same key.                             *)
Distinct(r) ==
  \A i, j \in 1 .. Len(r) : r[i].battle = r[j].battle /\ r[i].turn = r[j].turn => i = j

(* x is in the ring.                                                       *)
In(x, r) == \E i \in 1 .. Len(r) : r[i] = x

LEMMA FirstMatchIsOne ==
  ASSUME NEW S, NEW r \in Seq(S), NEW b, NEW t, Holds(r, b, t)
  PROVE  /\ FirstMatch(r, b, t) \in 1 .. Len(r)
         /\ HasKey(r[FirstMatch(r, b, t)], b, t)
<1> DEFINE M == Matches(r, b, t)
<1>1. Len(r) \in Nat
  BY LenProperties
<1>2. M \in SUBSET Nat /\ M # {} /\ \A i \in M : i \in 1 .. Len(r) /\ HasKey(r[i], b, t)
  BY <1>1 DEF Holds, Matches
<1>3. FirstMatch(r, b, t) = CHOOSE i \in M : \A j \in M : i <= j
  BY DEF FirstMatch
<1> HIDE DEF M
<1>4. \E i \in M : \A j \in M : i <= j
  BY <1>2, LeastOne
<1>5. FirstMatch(r, b, t) \in M
  BY <1>3, <1>4
<1> QED
  BY <1>2, <1>5

(* What take leaves of a ring with distinct keys.                          *)
LEMMA TakenRing ==
  ASSUME NEW S, NEW r \in Seq(S), NEW b, NEW t, Distinct(r)
  PROVE  /\ Taken(r, b, t) \in Seq(S)
         /\ Len(Taken(r, b, t)) <= Len(r)
         /\ Distinct(Taken(r, b, t))
         /\ \A x : In(x, Taken(r, b, t)) <=> In(x, r) /\ ~HasKey(x, b, t)
<1> DEFINE m == FirstMatch(r, b, t)
           u == Taken(r, b, t)
           n == Len(r)
<1>1. n \in Nat
  BY LenProperties
<1>2. CASE ~Holds(r, b, t)
  <2>1. u = r
    BY <1>2 DEF Taken
  <2>2. \A i \in 1 .. n : ~HasKey(r[i], b, t)
    BY <1>2 DEF Holds, Matches
  <2> HIDE DEF u
  <2> QED
    BY <2>1, <2>2, <1>1 DEF In, u
<1>3. CASE Holds(r, b, t)
  <2>1. m \in 1 .. n /\ HasKey(r[m], b, t)
    BY <1>3, FirstMatchIsOne
  <2>2. \A i \in 1 .. n : HasKey(r[i], b, t) => i = m
    BY <2>1 DEF HasKey, Distinct
  <2>3. u = SubSeq(r, 1, m - 1) \o SubSeq(r, m + 1, n)
    BY <1>3 DEF Taken, RemoveAt
  <2> HIDE DEF m, n, u
  <2>4. /\ u \in Seq(S) /\ Len(u) = n - 1
        /\ \A i \in 1 .. n - 1 : u[i] = IF i < m THEN r[i] ELSE r[i + 1]
    <3> DEFINE v == SubSeq(r, 1, m - 1)
               w == SubSeq(r, m + 1, n)
    <3>1. /\ v \in Seq(S) /\ Len(v) = m - 1
          /\ \A i \in 1 .. m - 1 : v[i] = r[i]
      BY <1>1, <2>1 DEF n
    <3>2. /\ w \in Seq(S) /\ Len(w) = n - m
          /\ \A i \in 1 .. n - m : w[i] = r[i + m]
      BY <1>1, <2>1 DEF n
    <3> HIDE DEF v, w
    <3>3. u = v \o w
      BY <2>3 DEF v, w
    <3>4. u \in Seq(S) /\ Len(u) = n - 1
      <4>1. u \in Seq(S) /\ Len(u) = Len(v) + Len(w)
        BY <3>1, <3>2, <3>3, ConcatProperties
      <4>2. m \in Nat
        BY <1>1, <2>1
      <4>3. (m - 1) + (n - m) = n - 1
        BY <1>1, <4>2
      <4> QED
        BY <4>1, <4>3, <3>1, <3>2
    <3>5. ASSUME NEW i \in 1 .. n - 1 PROVE u[i] = IF i < m THEN r[i] ELSE r[i + 1]
      <4>1. CASE i < m
        BY <4>1, <3>1, <3>2, <3>3, <2>1, <1>1
      <4>2. CASE ~(i < m)
        <5>1. u[i] = w[i - (m - 1)] /\ i - (m - 1) \in 1 .. n - m
          BY <4>2, <3>1, <3>2, <3>3, <2>1, <1>1
        <5>2. (i - (m - 1)) + m = i + 1
          BY <2>1, <1>1
        <5> QED
          BY <4>2, <5>1, <5>2, <3>2
      <4> QED
        BY <4>1, <4>2
    <3> QED
      BY <3>4, <3>5
  <2>5. Distinct(u)
    <3> SUFFICES ASSUME NEW i \in 1 .. n - 1, NEW j \in 1 .. n - 1,
                        u[i].battle = u[j].battle, u[i].turn = u[j].turn
                 PROVE  i = j
      BY <2>4 DEF Distinct
    <3> DEFINE k == IF i < m THEN i ELSE i + 1
               l == IF j < m THEN j ELSE j + 1
    <3>1. k \in 1 .. n /\ l \in 1 .. n /\ u[i] = r[k] /\ u[j] = r[l]
      BY <1>1, <2>1, <2>4
    <3>2. k = l
      BY <3>1 DEF Distinct, n
    <3> QED
      BY <3>2, <1>1, <2>1
  <2>6. ASSUME NEW x PROVE In(x, u) <=> In(x, r) /\ ~HasKey(x, b, t)
    <3>1. ASSUME NEW i \in 1 .. Len(u), u[i] = x PROVE In(x, r) /\ ~HasKey(x, b, t)
      <4> DEFINE k == IF i < m THEN i ELSE i + 1
      <4>1. k \in 1 .. n /\ x = r[k] /\ k # m
        BY <3>1, <1>1, <2>1, <2>4
      <4> QED
        BY <4>1, <2>2 DEF In, n
    <3>2. ASSUME NEW k \in 1 .. n, r[k] = x, ~HasKey(x, b, t) PROVE In(x, u)
      <4> DEFINE i == IF k < m THEN k ELSE k - 1
      <4>1. k # m
        BY <3>2, <2>1
      <4>2. i \in 1 .. n - 1 /\ u[i] = r[k]
        BY <4>1, <1>1, <2>1, <2>4
      <4> QED
        BY <4>2, <3>2, <2>4 DEF In
    <3> QED
      BY <3>1, <3>2 DEF In, n
  <2> QED
    BY <1>1, <2>4, <2>5, <2>6 DEF u, n
<1> QED
  BY <1>2, <1>3

LEMMA FindIsOne ==
  ASSUME NEW S, NEW r \in Seq(S), NEW b, NEW t, Holds(r, b, t)
  PROVE  In(Find(r, b, t), r) /\ HasKey(Find(r, b, t), b, t)
BY FirstMatchIsOne DEF Find, In

LEMMA HoldsIn ==
  ASSUME NEW r, NEW b, NEW t
  PROVE  Holds(r, b, t) <=> \E x : In(x, r) /\ HasKey(x, b, t)
BY DEF Holds, Matches, In

(* A ring that is not full takes one more, whichever it is.                *)
LEMMA PushedRing ==
  ASSUME NEW S, NEW r \in Seq(S), NEW h \in S
  PROVE  /\ Append(r, h) \in Seq(S) /\ Len(Append(r, h)) = Len(r) + 1
         /\ \A x : In(x, Append(r, h)) <=> In(x, r) \/ x = h
         /\ Distinct(r) /\ ~Holds(r, h.battle, h.turn) => Distinct(Append(r, h))
<1> DEFINE u == Append(r, h)
           n == Len(r)
<1>1. /\ u \in Seq(S) /\ Len(u) = n + 1 /\ n \in Nat /\ u[n + 1] = h
      /\ \A i \in 1 .. n : u[i] = r[i]
  BY AppendProperties, LenProperties
<1>2. 1 .. n + 1 = (1 .. n) \cup {n + 1}
  BY <1>1
<1> HIDE DEF u, n
<1>3. \A x : In(x, u) <=> In(x, r) \/ x = h
  BY <1>1, <1>2 DEF In, n
<1>4. ASSUME Distinct(r), ~Holds(r, h.battle, h.turn) PROVE Distinct(u)
  BY <1>1, <1>2, <1>4 DEF Distinct, Holds, Matches, HasKey, n
<1> QED
  BY <1>1, <1>3, <1>4 DEF u, n

(* purge_retired.  KeptStep is the equation its recursive function solves. *)
KeptStep(r, R, g, k) ==
  IF k = 0 THEN <<>> ELSE IF r[k].battle \in R THEN g[k - 1] ELSE Append(g[k - 1], r[k])

Keeps(r, R, g, n) == g = [k \in 0 .. n |-> KeptStep(r, R, g, k)]

LEMMA KeepsExist ==
  ASSUME NEW r, NEW R, NEW n \in Nat
  PROVE  \E g : Keeps(r, R, g, n)
<1> DEFINE S == {m \in Nat : \E g : Keeps(r, R, g, m)}
<1>1. 0 \in S
  <2>1. Keeps(r, R, [k \in 0 .. 0 |-> <<>>], 0)
    BY DEF Keeps, KeptStep
  <2> QED
    BY <2>1
<1>2. ASSUME NEW m \in Nat, m \in S PROVE m + 1 \in S
  <2>1. PICK g : Keeps(r, R, g, m)
    BY <1>2
  <2> DEFINE h == [k \in 0 .. m + 1 |-> IF k = m + 1 THEN KeptStep(r, R, g, k) ELSE g[k]]
  <2>2. \A k \in 0 .. m : h[k] = g[k] /\ g[k] = KeptStep(r, R, g, k)
    BY <2>1 DEF Keeps
  <2>3. \A k \in 0 .. m + 1 : k # 0 => k - 1 \in 0 .. m
    OBVIOUS
  <2>4. \A k \in 0 .. m + 1 : KeptStep(r, R, h, k) = KeptStep(r, R, g, k)
    BY <2>2, <2>3 DEF KeptStep
  <2>5. \A k \in 0 .. m + 1 : h[k] = KeptStep(r, R, g, k)
    <3> TAKE k \in 0 .. m + 1
    <3>1. CASE k = m + 1
      BY <3>1
    <3>2. CASE k # m + 1
      <4>1. k \in 0 .. m
        BY <3>2
      <4> HIDE DEF h
      <4> QED
        BY <4>1, <2>2
    <3> QED
      BY <3>1, <3>2
  <2>6. h = [k \in 0 .. m + 1 |-> h[k]]
    OBVIOUS
  <2> HIDE DEF h
  <2>7. Keeps(r, R, h, m + 1)
    BY <2>4, <2>5, <2>6 DEF Keeps
  <2> QED
    BY <2>7
<1> HIDE DEF S
<1>3. n \in S
  BY <1>1, <1>2, EveryNumber
<1> QED
  BY <1>3 DEF S

LEMMA PurgedRing ==
  ASSUME NEW S, NEW r \in Seq(S), NEW R, Distinct(r)
  PROVE  /\ PurgeRetired(r, R) \in Seq(S)
         /\ Len(PurgeRetired(r, R)) <= Len(r)
         /\ Distinct(PurgeRetired(r, R))
         /\ \A x : In(x, PurgeRetired(r, R)) <=> In(x, r) /\ x.battle \notin R
<1> DEFINE n == Len(r)
           g == CHOOSE f : Keeps(r, R, f, n)
           Upto(x, k) == \E i \in 1 .. k : r[i] = x
           Good(k) == /\ g[k] \in Seq(S) /\ Len(g[k]) <= k /\ Distinct(g[k])
                      /\ \A x : In(x, g[k]) <=> Upto(x, k) /\ x.battle \notin R
           T == {k \in Nat : k <= n => Good(k)}
<1>1. n \in Nat /\ \A i \in 1 .. n : r[i] \in S
  BY LenProperties, ElementOfSeq
<1>2. Keeps(r, R, g, n)
  BY <1>1, KeepsExist
<1>3. PurgeRetired(r, R) = g[n]
  BY DEF PurgeRetired, Keeps, KeptStep
<1> HIDE DEF n, g
<1>4. \A k \in 0 .. n : g[k] = KeptStep(r, R, g, k)
  BY <1>2 DEF Keeps
<1>5. 0 \in T
  <2>1. g[0] = <<>>
    BY <1>1, <1>4 DEF KeptStep
  <2>2. Good(0)
    BY <2>1, EmptySeq DEF Distinct, In
  <2> QED
    BY <2>2
<1>6. ASSUME NEW k \in Nat, k \in T PROVE k + 1 \in T
  <2> SUFFICES ASSUME k + 1 <= n PROVE Good(k + 1)
    OBVIOUS
  <2>1. Good(k)
    BY <1>1, <1>6
  <2> HIDE DEF T
  <2>2. k + 1 \in 0 .. n /\ k + 1 \in 1 .. n /\ (k + 1) - 1 = k /\ k + 1 # 0
    BY <1>1
  <2>3. g[k + 1] = IF r[k + 1].battle \in R THEN g[k] ELSE Append(g[k], r[k + 1])
    BY <1>4, <2>2 DEF KeptStep
  <2>4. 1 .. k + 1 = (1 .. k) \cup {k + 1}
    OBVIOUS
  <2>5. \A x : Upto(x, k + 1) <=> Upto(x, k) \/ x = r[k + 1]
    BY <2>4
  <2>6. CASE r[k + 1].battle \in R
    BY <2>1, <2>3, <2>5, <2>6
  <2>7. CASE r[k + 1].battle \notin R
    <3>1. ~Holds(g[k], r[k + 1].battle, r[k + 1].turn)
      <4> SUFFICES ASSUME NEW x, In(x, g[k]), HasKey(x, r[k + 1].battle, r[k + 1].turn)
                   PROVE  FALSE
        BY HoldsIn
      <4>1. PICK i \in 1 .. k : r[i] = x
        BY <2>1
      <4>2. i \in 1 .. n /\ i # k + 1
        BY <1>1
      <4> QED
        BY <2>2, <4>1, <4>2 DEF HasKey, Distinct, n
    <3>2. r[k + 1] \in S /\ g[k] \in Seq(S) /\ Distinct(g[k])
      BY <1>1, <2>1, <2>2
    <3> DEFINE u == Append(g[k], r[k + 1])
    <3>3. /\ u \in Seq(S) /\ Len(u) = Len(g[k]) + 1 /\ Distinct(u)
          /\ \A x : In(x, u) <=> In(x, g[k]) \/ x = r[k + 1]
      BY <3>1, <3>2, PushedRing
    <3>4. g[k + 1] = u
      BY <2>3, <2>7
    <3>5. Len(u) <= k + 1
      BY <2>1, <3>3, LenProperties
    <3> HIDE DEF u
    <3> QED
      BY <2>1, <2>5, <2>7, <3>3, <3>4, <3>5
  <2> QED
    BY <2>6, <2>7
<1> HIDE DEF T
<1>7. n \in T
  BY <1>1, <1>5, <1>6, EveryNumber
<1>8. Good(n)
  BY <1>1, <1>7 DEF T
<1> QED
  BY <1>3, <1>8 DEF n, In

(* As many numbers as entries.                                             *)
LEMMA RingCount ==
  ASSUME NEW S, NEW r \in Seq(S), NEW X, IsFiniteSet(X),
         \A i, j \in 1 .. Len(r) : r[i] = r[j] => i = j,
         \A i \in 1 .. Len(r) : r[i] \in X
  PROVE  Len(r) <= Cardinality(X)
<1>1. Len(r) \in Nat /\ r \in [1 .. Len(r) -> S]
  BY LenProperties
<1> DEFINE f == [i \in 1 .. Len(r) |-> r[i]]
<1>2. f \in Injection(1 .. Len(r), X)
  BY DEF Injection, IsInjective
<1>3. IsFiniteSet(1 .. Len(r)) /\ Cardinality(1 .. Len(r)) = Len(r)
  <2> DEFINE n == Len(r)
  <2>1. n \in Nat
    BY <1>1
  <2> HIDE DEF n
  <2>2. 1 \in Int /\ n \in Int /\ (1 > n => n = 0) /\ n - 1 + 1 = n
    BY <2>1
  <2>3. /\ IsFiniteSet(1 .. n)
        /\ Cardinality(1 .. n) = IF 1 > n THEN 0 ELSE n - 1 + 1
    BY <2>2, FS_Interval, Zenon
  <2>4. Cardinality(1 .. n) = n
    BY <2>2, <2>3, Zenon
  <2> QED
    BY <2>3, <2>4 DEF n
<1> QED
  BY <1>2, <1>3, FS_Injection

-------------------------------------------------------------------------------
(* Delays.  A status that the data gives a delay takes effect Wait turns   *)
(* after the one in which it was made.                                     *)

DueTurn == birth.turn + Wait

(* It has been made and has not acted.                                     *)
Pending(c) == counter[c] # Never /\ took[c] = Never

(* What waits is either untouched since it was made or has been taken over *)
(* in the turn of its making; a frame of its last turn makes it act.       *)
Waiting(c) ==
  /\ birth.turn <= now[c] /\ now[c] <= DueTurn
  /\ seen[c] => now[c] < DueTurn
  /\ \/ counter[c] = birth.delay /\ ~seen[c] /\ now[c] = birth.turn
     \/ counter[c] = Managed + DueTurn

DelaysTyped ==
  /\ birth \in [turn : Nat, delay : Delay]
  /\ now \in [Copy -> Nat]
  /\ counter \in [Copy -> Int \cup {Never}]
  /\ seen \in [Copy -> BOOLEAN]
  /\ took \in [Copy -> Nat \cup {Never}]

OnTime ==
  \A c \in Copy :
    /\ took[c] \in {Never, DueTurn}
    /\ counter[c] = Never => took[c] = Never /\ ~seen[c]
    /\ Pending(c) => Waiting(c)

DelayInv == DelaysTyped /\ (birth.delay > 0 => OnTime)

LEMMA DelayInvInit == DelaysInit => DelayInv
BY DelayParameters DEF DelaysInit, DelayInv, DelaysTyped, OnTime, Pending

(* The copies share birth, which no step changes: a step of one copy can   *)
(* disturb only what is said of that copy.                                 *)
LEMMA OneCopyMoves ==
  ASSUME OnTime, NEW c \in Copy, UNCHANGED birth,
         \A d \in Copy \ {c} : /\ now'[d] = now[d] /\ counter'[d] = counter[d]
                               /\ seen'[d] = seen[d] /\ took'[d] = took[d],
         /\ took'[c] \in {Never, DueTurn}
         /\ counter'[c] = Never => took'[c] = Never /\ ~seen'[c]
         /\ Pending(c)' => Waiting(c)'
  PROVE  OnTime'
<1>1. DueTurn' = DueTurn
  BY DEF DueTurn
<1>2. ASSUME NEW d \in Copy \ {c}
      PROVE  /\ took'[d] \in {Never, DueTurn'}
             /\ counter'[d] = Never => took'[d] = Never /\ ~seen'[d]
             /\ Pending(d)' => Waiting(d)'
  BY <1>1, <1>2 DEF OnTime, Pending, Waiting
<1> QED
  BY <1>1, <1>2 DEF OnTime

LEMMA DelayNumbers ==
  ASSUME DelayInv
  PROVE  /\ Wait \in Nat /\ Managed \in Nat /\ birth.turn \in Nat /\ DueTurn \in Nat
         /\ birth.delay \in Nat /\ birth.delay < Managed
<1>1. birth.turn \in Nat /\ birth.delay \in Delay
  BY DEF DelayInv, DelaysTyped
<1>2. Wait \in Nat /\ Managed \in Nat /\ birth.delay \in Nat /\ birth.delay < Managed
  BY <1>1, DelayParameters
<1> QED
  BY <1>1, <1>2 DEF DueTurn

LEMMA DelayInvMake ==
  ASSUME DelayInv, NEW c \in Copy, MakeStatus(c)
  PROVE  DelayInv'
<1>1. /\ counter[c] = Never /\ now[c] = birth.turn
      /\ counter' = [counter EXCEPT ![c] = birth.delay]
      /\ UNCHANGED <<now, birth, seen, took>>
  BY DEF MakeStatus
<1>2. birth.turn \in Nat /\ birth.delay \in Int /\ Wait \in Nat
  BY DelayNumbers
<1>3. DelaysTyped'
  BY <1>1, <1>2 DEF DelayInv, DelaysTyped
<1>4. ASSUME birth.delay > 0 PROVE OnTime'
  <2>1. OnTime /\ DelaysTyped
    BY <1>4 DEF DelayInv
  <2>2. took[c] = Never /\ ~seen[c]
    BY <1>1, <2>1 DEF OnTime
  <2>3. \A d \in Copy \ {c} : counter'[d] = counter[d]
    BY <1>1, <2>1 DEF DelaysTyped
  <2>4. counter'[c] = birth.delay /\ birth.delay # Never
    BY <1>1, <1>2, <2>1, DelayParameters DEF DelaysTyped
  <2>5. Waiting(c)'
    BY <1>1, <1>2, <2>2, <2>4 DEF Waiting, DueTurn
  <2> QED
    BY <1>1, <2>1, <2>2, <2>3, <2>4, <2>5, OneCopyMoves
<1> QED
  BY <1>1, <1>3, <1>4 DEF DelayInv

(* What td_decide says of a status that waits.                             *)
LEMMA TdDecided ==
  ASSUME DelayInv, birth.delay > 0, NEW c \in Copy, counter[c] \in Int, now[c] \in Nat,
         Waiting(c)
  PROVE  LET say == TdDecide(counter[c], now[c]) IN
         /\ say # "pass"
         /\ say = "fire" => now[c] = DueTurn
         /\ say = "wait" => now[c] < DueTurn /\ counter[c] = Managed + DueTurn
         /\ say = "take over" => now[c] < DueTurn /\ now[c] = birth.turn
<1>1. /\ Wait \in Nat /\ Managed \in Nat /\ birth.turn \in Nat /\ DueTurn \in Nat
      /\ birth.delay \in Nat /\ birth.delay < Managed
  BY DelayNumbers
<1>2. CASE counter[c] = birth.delay /\ now[c] = birth.turn
  <2>1. /\ ~(counter[c] >= Managed) /\ ~(counter[c] <= 0)
        /\ Wait = 0 => now[c] = DueTurn
        /\ Wait # 0 => now[c] < DueTurn
    BY <1>1, <1>2 DEF DueTurn
  <2>2. TdDecide(counter[c], now[c]) = IF Wait = 0 THEN "fire" ELSE "take over"
    BY <2>1 DEF TdDecide
  <2> QED
    BY <1>2, <2>1, <2>2
<1>3. CASE counter[c] = Managed + DueTurn
  <2>1. counter[c] >= Managed /\ counter[c] - Managed = DueTurn
    BY <1>1, <1>3
  <2>2. TdDecide(counter[c], now[c]) = IF now[c] < DueTurn THEN "wait" ELSE "fire"
    BY <2>1 DEF TdDecide
  <2>3. ~(now[c] < DueTurn) => now[c] = DueTurn
    BY <1>1 DEF Waiting
  <2> QED
    BY <1>3, <2>2, <2>3
<1> QED
  BY <1>2, <1>3 DEF Waiting

LEMMA DelayInvUpdate ==
  ASSUME DelayInv, NEW c \in Copy, NEW dt \in Nat, Update(c, dt)
  PROVE  DelayInv'
<1> DEFINE v == counter[c]
           d == TdDecide(counter[c], now[c])
<1>1. /\ v # Never /\ took[c] = Never
      /\ seen' = [seen EXCEPT ![c] = TRUE] /\ UNCHANGED <<now, birth>>
      /\ \/ d = "wait" /\ UNCHANGED <<counter, took>>
         \/ d = "pass" /\ Original(c, v, dt)
         \/ d = "take over" /\ counter' = [counter EXCEPT ![c] = Managed + now[c] + Wait]
                            /\ UNCHANGED took
         \/ d = "fire" /\ Original(c, -1, dt)
  BY DEF Update
<1>2. DelaysTyped /\ v \in Int /\ now[c] \in Nat
  BY <1>1 DEF DelayInv, DelaysTyped
<1>3. /\ Wait \in Nat /\ Managed \in Nat /\ birth.turn \in Nat /\ DueTurn \in Nat
      /\ birth.delay \in Nat /\ birth.delay < Managed
  BY DelayNumbers
<1>a. -1 \in Int /\ -1 - dt \in Int /\ v - dt \in Int /\ Managed + now[c] + Wait \in Int
  BY <1>2, <1>3
<1>b. ASSUME NEW w, Original(c, w, dt)
      PROVE  /\ counter' = [counter EXCEPT ![c] = w - dt]
             /\ took' = took \/ took' = [took EXCEPT ![c] = now[c]]
  BY <1>b DEF Original
<1>c. v = counter[c] /\ d = TdDecide(v, now[c])
  OBVIOUS
<1> HIDE DEF v, d
<1>4. DelaysTyped'
  <2>1. \/ UNCHANGED counter
        \/ counter' = [counter EXCEPT ![c] = v - dt]
        \/ counter' = [counter EXCEPT ![c] = -1 - dt]
        \/ counter' = [counter EXCEPT ![c] = Managed + now[c] + Wait]
    BY <1>1, <1>b, Zenon
  <2>2. took' = took \/ took' = [took EXCEPT ![c] = now[c]]
    BY <1>1, <1>b
  <2> QED
    BY <1>1, <1>2, <1>a, <2>1, <2>2 DEF DelaysTyped
<1>5. ASSUME birth.delay > 0 PROVE OnTime'
  <2>1. OnTime /\ Waiting(c)
    BY <1>1, <1>5, <1>c DEF DelayInv, OnTime, Pending
  <2>2. \A e \in Copy \ {c} : /\ counter'[e] = counter[e] /\ seen'[e] = seen[e]
                              /\ took'[e] = took[e]
    BY <1>1, <1>2 DEF DelaysTyped, Original
  <2>3. seen'[c]
    BY <1>1, <1>2 DEF DelaysTyped
  <2>4. /\ (d = "fire" => now[c] = DueTurn)
        /\ (d = "wait" => now[c] < DueTurn /\ v = Managed + DueTurn)
        /\ (d = "take over" => now[c] < DueTurn /\ now[c] = birth.turn)
        /\ d # "pass"
    <3>1. counter[c] \in Int
      BY <1>2, <1>c
    <3> QED
      BY <1>2, <1>5, <1>c, <2>1, <3>1, TdDecided
  <2>5. CASE d = "wait"
    <3>1. counter' = counter /\ took' = took
      BY <1>1, <2>5
    <3>2. Waiting(c)'
      <4>1. counter[c] = Managed + DueTurn /\ now[c] < DueTurn
        BY <1>c, <2>4, <2>5
      <4>2. DueTurn' = DueTurn /\ now'[c] = now[c] /\ counter'[c] = counter[c]
        BY <1>1, <3>1 DEF DueTurn
      <4> QED
        BY <1>1, <1>2, <1>3, <2>1, <4>1, <4>2 DEF Waiting
    <3>3. counter'[c] # Never
      BY <1>1, <1>c, <3>1
    <3> QED
      BY <1>1, <2>1, <2>2, <3>1, <3>2, <3>3, OneCopyMoves
  <2>6. CASE d = "take over"
    <3>1. took' = took /\ counter'[c] = Managed + now[c] + Wait
      BY <1>1, <1>2, <2>6 DEF DelaysTyped
    <3>a. Managed + now[c] + Wait = Managed + DueTurn /\ Managed + DueTurn \in Int
      <4>1. now[c] = birth.turn
        BY <2>4, <2>6
      <4> QED
        BY <4>1, <1>3 DEF DueTurn
    <3>2. Waiting(c)'
      BY <1>1, <1>3, <2>1, <2>4, <2>6, <3>1, <3>a DEF Waiting, DueTurn
    <3>3. counter'[c] # Never
      BY <3>1, <3>a, DelayParameters
    <3> QED
      BY <1>1, <2>1, <2>2, <3>1, <3>2, <3>3, OneCopyMoves
  <2>7. CASE d = "fire"
    <3>1. counter'[c] = -1 - dt /\ took'[c] = DueTurn
      <4>1. Original(c, -1, dt) /\ -1 - dt < 0
        BY <1>1, <2>7
      <4>2. took' = [took EXCEPT ![c] = now[c]]
        BY <1>1, <4>1 DEF Original
      <4> QED
        BY <1>2, <2>4, <2>7, <4>1, <4>2 DEF Original, DelaysTyped
    <3>2. counter'[c] # Never /\ took'[c] # Never
      BY <1>3, <1>a, <3>1, DelayParameters
    <3> QED
      BY <1>1, <2>1, <2>2, <3>1, <3>2, OneCopyMoves DEF Pending
  <2> QED
    BY <1>1, <2>4, <2>5, <2>6, <2>7
<1> QED
  BY <1>1, <1>4, <1>5 DEF DelayInv

LEMMA DelayInvTurn ==
  ASSUME DelayInv, NEW c \in Copy, TurnEnds(c)
  PROVE  DelayInv'
<1>1. /\ now[c] >= birth.turn => seen[c]
      /\ now' = [now EXCEPT ![c] = @ + 1]
      /\ seen' = [seen EXCEPT ![c] = took[c] # Never]
      /\ UNCHANGED <<birth, counter, took>>
  BY DEF TurnEnds
<1>2. DelaysTyped /\ now[c] \in Nat /\ birth.turn \in Nat /\ Wait \in Nat
  BY DelayParameters DEF DelayInv, DelaysTyped
<1>3. DelaysTyped'
  BY <1>1, <1>2 DEF DelaysTyped
<1>4. ASSUME birth.delay > 0 PROVE OnTime'
  <2>1. OnTime
    BY <1>4 DEF DelayInv
  <2>2. /\ now'[c] = now[c] + 1 /\ seen'[c] = (took[c] # Never)
        /\ \A e \in Copy \ {c} : now'[e] = now[e] /\ seen'[e] = seen[e]
    BY <1>1, <1>2 DEF DelaysTyped
  <2>3. ASSUME Pending(c)' PROVE Waiting(c)'
    <3>1. Pending(c) /\ Waiting(c) /\ ~seen'[c]
      BY <1>1, <2>1, <2>2, <2>3 DEF OnTime, Pending
    <3>2. seen[c] /\ now[c] < DueTurn
      BY <1>1, <1>2, <3>1 DEF Waiting
    <3> QED
      BY <1>1, <1>2, <2>2, <3>1, <3>2 DEF Waiting, DueTurn
  <2>4. counter'[c] = Never => took'[c] = Never /\ ~seen'[c]
    BY <1>1, <2>1, <2>2 DEF OnTime
  <2> QED
    BY <1>1, <2>1, <2>2, <2>3, <2>4, OneCopyMoves DEF OnTime
<1> QED
  BY <1>1, <1>3, <1>4 DEF DelayInv

(* A delay ends in the same turn in both copies, whatever their frames and *)
(* however many turns pass (td_decide, h_TimeDelay).                       *)
THEOREM DelaysEndAlike == DelaysSpec => []DelaysAgree
<1>1. DelayInv /\ [DelaysNext]_delayVars => DelayInv'
  <2> SUFFICES ASSUME DelayInv, [DelaysNext]_delayVars PROVE DelayInv'
    OBVIOUS
  <2>1. CASE UNCHANGED delayVars
    BY <2>1 DEF delayVars, DelayInv, DelaysTyped, OnTime, Pending, Waiting, DueTurn
  <2>2. ASSUME NEW c \in Copy, NEW dt \in {1, TurnTicks}, Update(c, dt) PROVE DelayInv'
    <3>1. dt \in Nat
      BY DelayParameters
    <3> QED
      BY <2>2, <3>1, DelayInvUpdate
  <2> QED
    BY <2>1, <2>2, DelayInvMake, DelayInvTurn DEF DelaysNext
<1>2. DelayInv => DelaysAgree
  BY DEF DelayInv, OnTime, DelaysAgree
<1> QED
  BY <1>1, <1>2, DelayInvInit, PTL DEF DelaysSpec

-------------------------------------------------------------------------------
(* The samples of the meta layer.                                          *)

Smp == [battle : Nat, turn : Points, hash : {0, 1}]

NodesTyped ==
  /\ node \in [Walker -> Nat]
  /\ screen \in [Walker -> {"none", "unnamed", "sampled"}]
  /\ astray \in [Walker -> {0, 1}]
  /\ mine \in [Walker -> Seq(Smp)] /\ theirs \in [Walker -> Seq(Smp)]
  /\ mail \in [Walker -> Seq(Smp)]
  /\ taken \in [Walker -> SUBSET Smp]
  /\ heard \in [Walker -> SUBSET [battle : Nat, turn : Points]]
  /\ verdict \in [Walker -> SUBSET [of : [battle : Nat, turn : Points], same : BOOLEAN]]
  /\ late \in BOOLEAN

KeysOf(T) == {KeyOf(t) : t \in T}

(* A peer takes no sample twice.                                           *)
TakenOnce(p) ==
  /\ IsFiniteSet(taken[p])
  /\ \A s, t \in taken[p] : KeyOf(s) = KeyOf(t) => s = t
  /\ \A s \in taken[p] :
       /\ s.battle <= node[p]
       /\ s.turn = "Event" /\ s.battle = node[p] => screen[p] = "sampled"

(* What the other took is in the mail, once, or has been read.             *)
MailHolds(p) ==
  /\ Distinct(mail[p])
  /\ \A s : In(s, mail[p]) => s \in taken[Partner(p)] /\ KeyOf(s) \notin heard[p]
  /\ \A s \in taken[Partner(p)] : In(s, mail[p]) \/ KeyOf(s) \in heard[p]
  /\ heard[p] \subseteq KeysOf(taken[Partner(p)])

Behindhand(p) == KeysOf(taken[p]) \ heard[p]

FewBehind(p) ==
  IsFiniteSet(Behindhand(p)) /\ Cardinality(Behindhand(p)) <= RingSize

(* One's own that has not been met.                                        *)
MineHolds(p) ==
  /\ Distinct(mine[p])
  /\ \A s : In(s, mine[p]) <=> s \in taken[p] /\ KeyOf(s) \notin heard[p]

(* The other's that one has not come to.                                   *)
TheirsHolds(p) ==
  /\ Distinct(theirs[p])
  /\ \A s : In(s, theirs[p]) <=>
       s \in taken[Partner(p)] /\ KeyOf(s) \in heard[p] /\ KeyOf(s) \notin KeysOf(taken[p])

(* Met says that p has reported the two samples, and that they are the     *)
(* same if x is TRUE.                                                      *)
Met(p, k, x) ==
  \E s \in taken[p], t \in taken[Partner(p)] :
    KeyOf(s) = k /\ KeyOf(t) = k /\ k \in heard[p] /\ x = (s.hash = t.hash)

Reported(p) ==
  \A w : w \in verdict[p] <=> \E k, x : w = [of |-> k, same |-> x] /\ Met(p, k, x)

RingsHold(p) == FewBehind(p) /\ MineHolds(p) /\ TheirsHolds(p) /\ Reported(p)

NodeInv ==
  /\ NodesTyped
  /\ \A p \in Walker : TakenOnce(p) /\ MailHolds(p)
  /\ ~late => \A p \in Walker : RingsHold(p)

LEMMA Partners ==
  ASSUME NEW p \in Walker
  PROVE  /\ Partner(p) \in Walker /\ Partner(p) # p /\ Partner(Partner(p)) = p
         /\ \A q \in Walker : q = p \/ q = Partner(p)
BY NodeParameters DEF Walker, Partner

LEMMA SameKey ==
  ASSUME NEW s \in Smp, NEW t \in Smp
  PROVE  /\ KeyOf(s) \in [battle : Nat, turn : Points]
         /\ KeyOf(s) = KeyOf(t) <=> s.battle = t.battle /\ s.turn = t.turn
         /\ KeyOf(s) = KeyOf(t) <=> HasKey(s, t.battle, t.turn)
BY DEF Smp, KeyOf, HasKey

LEMMA NodeInvInit == NodesInit => NodeInv
<1> SUFFICES ASSUME NodesInit PROVE NodeInv
  OBVIOUS
<1>1. NodesTyped
  BY EmptySeq DEF NodesInit, NodesTyped
<1>2. ASSUME NEW p \in Walker
      PROVE  /\ mine[p] = <<>> /\ theirs[p] = <<>> /\ mail[p] = <<>>
             /\ taken[p] = {} /\ heard[p] = {} /\ verdict[p] = {}
             /\ taken[Partner(p)] = {}
  BY Partners DEF NodesInit
<1>3. Distinct(<<>>) /\ \A s : ~In(s, <<>>)
  BY EmptySeq DEF Distinct, In
<1>4. ASSUME NEW p \in Walker PROVE TakenOnce(p) /\ MailHolds(p)
  BY <1>2, <1>3, FS_EmptySet DEF TakenOnce, MailHolds
<1>5. ASSUME NEW p \in Walker PROVE RingsHold(p)
  <2>1. Behindhand(p) = {}
    BY <1>2 DEF Behindhand, KeysOf
  <2>2. FewBehind(p)
    BY <2>1, FS_EmptySet, RingSizeAssumption DEF FewBehind
  <2>3. MineHolds(p) /\ TheirsHolds(p)
    BY <1>2, <1>3 DEF MineHolds, TheirsHolds
  <2>4. Reported(p)
    BY <1>2 DEF Reported, Met
  <2> QED
    BY <2>2, <2>3, <2>4 DEF RingsHold
<1> QED
  BY <1>1, <1>4, <1>5 DEF NodeInv

(* As many keys as entries in a ring.                                      *)
LEMMA KeyCount ==
  ASSUME NEW r \in Seq(Smp), Distinct(r), NEW X, IsFiniteSet(X),
         \A s : In(s, r) => KeyOf(s) \in X
  PROVE  Len(r) <= Cardinality(X)
<1> DEFINE f == [i \in 1 .. Len(r) |-> KeyOf(r[i])]
           K == [battle : Nat, turn : Points]
<1>1. Len(r) \in Nat /\ \A i \in 1 .. Len(r) : r[i] \in Smp
  BY LenProperties, ElementOfSeq
<1>2. \A i \in 1 .. Len(r) : f[i] \in K
  BY <1>1, SameKey
<1>3. f \in Seq(K) /\ Len(f) = Len(r)
  <2>1. f \in [1 .. Len(r) -> K]
    BY <1>2
  <2> QED
    BY <1>1, <2>1, IsASeq
<1>4. \A i, j \in 1 .. Len(r) : f[i] = f[j] => i = j
  BY <1>1, SameKey DEF Distinct
<1>5. \A i \in 1 .. Len(r) : f[i] \in X
  BY DEF In
<1> HIDE DEF f
<1> QED
  BY <1>3, <1>4, <1>5, RingCount

(* Only p's rings hear of p's own sample; the other's mail does.           *)
LEMMA PublishTyped ==
  ASSUME NodesTyped, NEW p \in Walker, NEW s \in Smp, Publish(p, s)
  PROVE  /\ mine' \in [Walker -> Seq(Smp)] /\ theirs' \in [Walker -> Seq(Smp)]
         /\ mail' \in [Walker -> Seq(Smp)] /\ taken' \in [Walker -> SUBSET Smp]
         /\ verdict' \in [Walker -> SUBSET [of : [battle : Nat, turn : Points], same : BOOLEAN]]
         /\ late' \in BOOLEAN
<1>1. /\ mine[p] \in Seq(Smp) /\ mail[Partner(p)] \in Seq(Smp) /\ Partner(p) \in Walker
  BY Partners DEF NodesTyped
<1>2. taken' \in [Walker -> SUBSET Smp] /\ late' \in BOOLEAN
  BY DEF Publish, NodesTyped
<1>3. mail' \in [Walker -> Seq(Smp)]
  <2>1. Append(mail[Partner(p)], s) \in Seq(Smp)
    BY <1>1, PushedRing
  <2> QED
    BY <1>1, <2>1 DEF Publish, NodesTyped
<1>4. \A r \in Seq(Smp) : PushEvicting(r, s) \in Seq(Smp)
  <2> SUFFICES ASSUME NEW r \in Seq(Smp) PROVE PushEvicting(r, s) \in Seq(Smp)
    OBVIOUS
  <2>1. CASE Len(r) = RingSize
    <3>1. r # <<>>
      BY <2>1, EmptySeq, RingSizeAssumption
    <3>2. Tail(r) \in Seq(Smp)
      BY <3>1, HeadTailProperties
    <3> QED
      BY <2>1, <3>2, PushedRing DEF PushEvicting
  <2>2. CASE Len(r) # RingSize
    BY <2>2, PushedRing DEF PushEvicting
  <2> QED
    BY <2>1, <2>2
<1>5. OtherWasFirst(p, s) => Taken(theirs[p], s.battle, s.turn) \in Seq(Smp)
  <2>1. theirs[p] \in Seq(Smp)
    BY DEF NodesTyped
  <2> SUFFICES ASSUME OtherWasFirst(p, s)
               PROVE  Taken(theirs[p], s.battle, s.turn) \in Seq(Smp)
    OBVIOUS
  <2> DEFINE m == FirstMatch(theirs[p], s.battle, s.turn)
  <2>2. Taken(theirs[p], s.battle, s.turn) = RemoveAt(theirs[p], m) /\ m \in 1 .. Len(theirs[p])
    BY <2>1, FirstMatchIsOne DEF Taken, OtherWasFirst
  <2> HIDE DEF m
  <2>3. RemoveAt(theirs[p], m) \in Seq(Smp)
    BY <2>1, <2>2 DEF RemoveAt
  <2> QED
    BY <2>2, <2>3
<1>6. mine' \in [Walker -> Seq(Smp)] /\ theirs' \in [Walker -> Seq(Smp)]
  <2>1. CASE OtherWasFirst(p, s)
    BY <2>1, <1>5 DEF Publish, NodesTyped
  <2>2. CASE ~OtherWasFirst(p, s)
    BY <2>2, <1>1, <1>4 DEF Publish, NodesTyped
  <2> QED
    BY <2>1, <2>2
<1>7. verdict' \in [Walker -> SUBSET [of : [battle : Nat, turn : Points], same : BOOLEAN]]
  <2>1. \A t : [of |-> KeyOf(s), same |-> s.hash = t.hash]
                \in [of : [battle : Nat, turn : Points], same : BOOLEAN]
    BY SameKey
  <2>2. \/ verdict' = verdict
        \/ \E t : verdict' = [verdict EXCEPT ![p] = @ \cup
                                 {[of |-> KeyOf(s), same |-> s.hash = t.hash]}]
    BY DEF Publish, Report
  <2> DEFINE R == [of : [battle : Nat, turn : Points], same : BOOLEAN]
  <2>3. verdict \in [Walker -> SUBSET R]
    BY DEF NodesTyped
  <2>4. CASE verdict' = verdict
    BY <2>3, <2>4
  <2>5. ASSUME NEW t, verdict' = [verdict EXCEPT ![p] = @ \cup
                                    {[of |-> KeyOf(s), same |-> s.hash = t.hash]}]
        PROVE  verdict' \in [Walker -> SUBSET R]
    <3> DEFINE w == [of |-> KeyOf(s), same |-> s.hash = t.hash]
    <3>1. w \in R /\ verdict' = [verdict EXCEPT ![p] = @ \cup {w}]
      BY <2>1, <2>5
    <3> HIDE DEF w, R
    <3> QED
      BY <2>3, <3>1
  <2> QED
    BY <2>2, <2>4, <2>5
<1> QED
  BY <1>2, <1>3, <1>6, <1>7

(* A sample that is new goes to the other's mail ...                       *)
LEMMA PublishMail ==
  ASSUME NodeInv, NEW p \in Walker, NEW s \in Smp, Publish(p, s), heard' = heard,
         KeyOf(s) \notin KeysOf(taken[p])
  PROVE  \A q \in Walker : MailHolds(q)'
<1> DEFINE q == Partner(p)
<1>1. /\ NodesTyped /\ q \in Walker /\ q # p /\ Partner(q) = p
      /\ \A r \in Walker : r = p \/ r = q
  BY Partners DEF NodeInv
<1>2. /\ mail' = [mail EXCEPT ![q] = Append(@, s)]
      /\ taken' = [taken EXCEPT ![p] = @ \cup {s}]
  BY DEF Publish
<1>3. /\ mail'[q] = Append(mail[q], s) /\ mail'[p] = mail[p]
      /\ taken'[p] = taken[p] \cup {s} /\ taken'[q] = taken[q]
  BY <1>1, <1>2 DEF NodesTyped
<1>4. mail[q] \in Seq(Smp) /\ taken[p] \subseteq Smp
  BY <1>1 DEF NodesTyped
<1> HIDE DEF q
<1>5. MailHolds(p) /\ MailHolds(q) /\ Partner(p) = q
  BY <1>1 DEF NodeInv, q
<1>6. MailHolds(p)'
  BY <1>1, <1>3, <1>5 DEF MailHolds
<1>7. MailHolds(q)'
  <2>1. KeyOf(s) \notin heard[q]
    BY <1>1, <1>5 DEF MailHolds
  <2>2. \A t : In(t, mail[q]) => t \in taken[p] /\ KeyOf(t) # KeyOf(s)
    BY <1>1, <1>5 DEF MailHolds, KeysOf
  <2>3. ~Holds(mail[q], s.battle, s.turn)
    BY <1>4, <2>2, HoldsIn, SameKey
  <2>4. Distinct(mail'[q]) /\ \A t : In(t, mail'[q]) <=> In(t, mail[q]) \/ t = s
    BY <1>3, <1>4, <1>5, <2>3, PushedRing DEF MailHolds
  <2>5. heard[q] \subseteq KeysOf(taken'[p])
    BY <1>1, <1>3, <1>5 DEF MailHolds, KeysOf
  <2> QED
    BY <1>1, <1>3, <1>5, <2>1, <2>2, <2>4, <2>5 DEF MailHolds
<1> QED
  BY <1>1, <1>6, <1>7

(* ... and is met with the other's, or kept.                               *)
LEMMA PublishRings ==
  ASSUME NodeInv, NEW p \in Walker, NEW s \in Smp, Publish(p, s), heard' = heard,
         KeyOf(s) \notin KeysOf(taken[p]), ~late'
  PROVE  \A q \in Walker : RingsHold(q)'
<1> DEFINE q == Partner(p)
<1>1. /\ NodesTyped /\ q \in Walker /\ q # p /\ Partner(q) = p
      /\ \A r \in Walker : r = p \/ r = q
  BY Partners DEF NodeInv
<1>2. ~late /\ Cardinality(KeysOf(taken'[p]) \ heard[p]) <= RingSize
  <2>1. late' = (late \/ Cardinality({KeyOf(t) : t \in taken'[p]} \ heard[p]) > RingSize)
    BY DEF Publish
  <2>2. taken'[p] = taken[p] \cup {s}
    BY <1>1 DEF Publish, NodesTyped
  <2>3. IsFiniteSet(KeysOf(taken[p]) \ heard[p])
    BY <1>1, <2>1 DEF NodeInv, RingsHold, FewBehind, Behindhand
  <2>4. IsFiniteSet(KeysOf(taken'[p]) \ heard[p])
    <3>1. KeysOf(taken'[p]) \ heard[p] \subseteq (KeysOf(taken[p]) \ heard[p]) \cup {KeyOf(s)}
      BY <2>2 DEF KeysOf
    <3>2. IsFiniteSet((KeysOf(taken[p]) \ heard[p]) \cup {KeyOf(s)})
      BY <2>3, FS_AddElement
    <3> QED
      BY <3>1, <3>2, FS_Subset
  <2>5. Cardinality(KeysOf(taken'[p]) \ heard[p]) \in Nat
    BY <2>4, FS_CardinalityType
  <2>6. {KeyOf(t) : t \in taken'[p]} = KeysOf(taken'[p])
    BY DEF KeysOf
  <2> QED
    <3>1. ~late /\ ~(Cardinality({KeyOf(t) : t \in taken'[p]} \ heard[p]) > RingSize)
      BY <2>1, Zenon
    <3> QED
      BY <2>5, <2>6, <3>1, RingSizeAssumption
<1>3. /\ taken' = [taken EXCEPT ![p] = @ \cup {s}]
      /\ IF OtherWasFirst(p, s)
         THEN /\ verdict' = [verdict EXCEPT ![p] = @ \cup
                   {[of |-> KeyOf(s),
                     same |-> s.hash = Find(theirs[p], s.battle, s.turn).hash]}]
              /\ theirs' = [theirs EXCEPT ![p] = Taken(@, s.battle, s.turn)]
              /\ mine' = mine
         ELSE /\ mine' = [mine EXCEPT ![p] = PushEvicting(@, s)]
              /\ UNCHANGED <<theirs, verdict>>
  BY DEF Publish, Report
<1>4. taken'[p] = taken[p] \cup {s} /\ taken'[q] = taken[q]
  BY <1>1, <1>3 DEF NodesTyped
<1>5. /\ mine[p] \in Seq(Smp) /\ theirs[p] \in Seq(Smp)
      /\ taken[p] \subseteq Smp /\ taken[q] \subseteq Smp
  BY <1>1 DEF NodesTyped
<1> HIDE DEF q
<1>6. /\ RingsHold(p) /\ RingsHold(q) /\ MailHolds(p) /\ MailHolds(q) /\ Partner(p) = q
  BY <1>1, <1>2 DEF NodeInv, q
<1>7. KeyOf(s) \notin heard[q] /\ \A t \in taken[p] : KeyOf(t) # KeyOf(s)
  BY <1>1, <1>6 DEF MailHolds, KeysOf
<1>8. RingsHold(q)'
  <2>1. mine'[q] = mine[q] /\ theirs'[q] = theirs[q] /\ (\A w : w \in verdict'[q] <=> w \in verdict[q])
    BY <1>1, <1>3 DEF NodesTyped
  <2>2. FewBehind(q)'
    BY <1>4, <1>6 DEF RingsHold, FewBehind, Behindhand
  <2>3. MineHolds(q)'
    BY <1>4, <1>6, <2>1 DEF RingsHold, MineHolds
  <2>4. TheirsHolds(q)'
    BY <1>1, <1>4, <1>6, <1>7, <2>1 DEF RingsHold, TheirsHolds
  <2>5. \A k, x : Met(q, k, x)' <=> Met(q, k, x)
    BY <1>1, <1>4, <1>7 DEF Met
  <2>6. Reported(q)'
    BY <1>6, <2>1, <2>5 DEF RingsHold, Reported
  <2> QED
    BY <2>2, <2>3, <2>4, <2>6 DEF RingsHold
<1>9. FewBehind(p)'
  <2>1. KeysOf(taken'[p]) \ heard[p] \subseteq Behindhand(p) \cup {KeyOf(s)}
    BY <1>4 DEF KeysOf, Behindhand
  <2>2. IsFiniteSet(Behindhand(p) \cup {KeyOf(s)})
    BY <1>6, FS_AddElement DEF RingsHold, FewBehind
  <2>3. IsFiniteSet(KeysOf(taken'[p]) \ heard[p])
    BY <2>1, <2>2, FS_Subset
  <2> QED
    BY <1>2, <2>3 DEF FewBehind, Behindhand, KeysOf
<1>10. Holds(theirs[p], s.battle, s.turn) <=> KeyOf(s) \in heard[p]
  <2>1. ASSUME NEW t, In(t, theirs[p]), HasKey(t, s.battle, s.turn) PROVE KeyOf(s) \in heard[p]
    <3>1. t \in taken[q] /\ KeyOf(t) \in heard[p]
      BY <1>6, <2>1 DEF RingsHold, TheirsHolds
    <3> QED
      BY <1>5, <2>1, <3>1, SameKey
  <2>2. ASSUME KeyOf(s) \in heard[p] PROVE \E t : In(t, theirs[p]) /\ HasKey(t, s.battle, s.turn)
    <3>1. PICK t \in taken[q] : KeyOf(t) = KeyOf(s)
      BY <1>6, <2>2 DEF MailHolds, KeysOf
    <3>2. In(t, theirs[p])
      BY <1>6, <2>2, <3>1 DEF RingsHold, TheirsHolds
    <3> QED
      BY <1>5, <3>1, <3>2, SameKey
  <2> QED
    BY <2>1, <2>2, HoldsIn
<1>11. CASE OtherWasFirst(p, s)
  <2> DEFINE t == Find(theirs[p], s.battle, s.turn)
             b == s.hash = t.hash
  <2>1. /\ theirs'[p] = Taken(theirs[p], s.battle, s.turn) /\ mine'[p] = mine[p]
        /\ \A w : w \in verdict'[p] <=>
             w \in verdict[p] \/ w = [of |-> KeyOf(s), same |-> b]
    BY <1>1, <1>3, <1>11 DEF NodesTyped
  <2> HIDE DEF t
  <2>2. KeyOf(s) \in heard[p] /\ In(t, theirs[p]) /\ HasKey(t, s.battle, s.turn)
    BY <1>5, <1>10, <1>11, FindIsOne DEF OtherWasFirst, t
  <2>3. t \in taken[q] /\ KeyOf(t) = KeyOf(s)
    <3>1. t \in taken[q]
      BY <1>6, <2>2 DEF RingsHold, TheirsHolds
    <3> QED
      BY <1>5, <2>2, <3>1, SameKey
  <2>4. MineHolds(p)'
    BY <1>4, <1>6, <2>1, <2>2 DEF RingsHold, MineHolds
  <2>5. TheirsHolds(p)'
    <3>1. /\ Distinct(theirs'[p])
          /\ \A x : In(x, theirs'[p]) <=> In(x, theirs[p]) /\ ~HasKey(x, s.battle, s.turn)
      BY <1>5, <1>6, <2>1, TakenRing DEF RingsHold, TheirsHolds
    <3>2. \A x \in taken[q] : HasKey(x, s.battle, s.turn) <=> KeyOf(x) = KeyOf(s)
      BY <1>5, SameKey
    <3>3. \A k : k \in KeysOf(taken'[p]) <=> k \in KeysOf(taken[p]) \/ k = KeyOf(s)
      BY <1>4 DEF KeysOf
    <3> QED
      BY <1>1, <1>4, <1>6, <3>1, <3>2, <3>3 DEF RingsHold, TheirsHolds
  <2>6. Reported(p)'
    <3>1. \A k, x : Met(p, k, x)' <=> Met(p, k, x) \/ (k = KeyOf(s) /\ x = b)
      <4>1. \A y \in taken[q] : KeyOf(y) = KeyOf(s) => y = t
        BY <1>1, <2>3 DEF NodeInv, TakenOnce
      <4> QED
        BY <1>4, <1>6, <1>7, <2>2, <2>3, <4>1 DEF Met
    <3>2. \A w : w \in verdict[p] <=> \E k, x : w = [of |-> k, same |-> x] /\ Met(p, k, x)
      BY <1>6 DEF RingsHold, Reported
    <3> HIDE DEF b
    <3>3. \A w : w \in verdict'[p] <=> \E k, x : w = [of |-> k, same |-> x] /\ Met(p, k, x)'
      <4>1. ASSUME NEW w, w \in verdict'[p]
            PROVE  \E k, x : w = [of |-> k, same |-> x] /\ Met(p, k, x)'
        <5>1. CASE w \in verdict[p]
          BY <3>1, <3>2, <5>1, Zenon
        <5>2. CASE w = [of |-> KeyOf(s), same |-> b]
          BY <3>1, <5>2, Zenon
        <5> QED
          BY <2>1, <4>1, <5>1, <5>2, Zenon
      <4>2. ASSUME NEW w, NEW k, NEW x, w = [of |-> k, same |-> x], Met(p, k, x)'
            PROVE  w \in verdict'[p]
        <5>1. CASE Met(p, k, x)
          <6>1. w \in verdict[p]
            BY <3>2, <4>2, <5>1, Zenon
          <6> QED
            BY <2>1, <6>1, Zenon
        <5>2. CASE k = KeyOf(s) /\ x = b
          <6>1. w = [of |-> KeyOf(s), same |-> b]
            BY <4>2, <5>2
          <6> QED
            BY <2>1, <6>1, Zenon
        <5> QED
          BY <3>1, <4>2, <5>1, <5>2, Zenon
      <4> QED
        BY <4>1, <4>2, Zenon
    <3> QED
      BY <3>3 DEF Reported
  <2> QED
    BY <1>1, <1>8, <1>9, <2>4, <2>5, <2>6 DEF RingsHold
<1>12. CASE ~OtherWasFirst(p, s)
  <2>1. /\ theirs'[p] = theirs[p] /\ mine'[p] = PushEvicting(mine[p], s)
        /\ \A w : w \in verdict'[p] <=> w \in verdict[p]
    BY <1>1, <1>3, <1>12 DEF NodesTyped
  <2>2. KeyOf(s) \notin heard[p]
    BY <1>10, <1>12 DEF OtherWasFirst
  <2>3. ~Holds(mine[p], s.battle, s.turn)
    <3> SUFFICES ASSUME NEW t, In(t, mine[p]), HasKey(t, s.battle, s.turn) PROVE FALSE
      BY HoldsIn
    <3>1. t \in taken[p]
      BY <1>6 DEF RingsHold, MineHolds
    <3> QED
      BY <1>5, <1>7, <3>1, SameKey
  <2> DEFINE u == Append(mine[p], s)
  <2>4. /\ u \in Seq(Smp) /\ Len(u) = Len(mine[p]) + 1 /\ Distinct(u)
        /\ \A x : In(x, u) <=> In(x, mine[p]) \/ x = s
    BY <1>5, <1>6, <2>3, PushedRing DEF RingsHold, MineHolds
  <2> HIDE DEF u
  <2>5. \A x : In(x, u) <=> x \in taken'[p] /\ KeyOf(x) \notin heard[p]
    BY <1>4, <1>6, <2>2, <2>4 DEF RingsHold, MineHolds
  <2>6. Len(mine[p]) < RingSize
    <3> DEFINE X == KeysOf(taken'[p]) \ heard[p]
    <3>1. IsFiniteSet(X) /\ Cardinality(X) <= RingSize /\ Cardinality(X) \in Nat
      BY <1>2, <1>9, FS_CardinalityType DEF FewBehind, Behindhand, KeysOf
    <3>2. \A x : In(x, u) => KeyOf(x) \in X
      BY <2>5 DEF KeysOf
    <3> HIDE DEF X
    <3>3. Len(u) <= Cardinality(X)
      BY <2>4, <3>1, <3>2, KeyCount
    <3>4. Len(mine[p]) \in Nat
      BY <1>5, LenProperties
    <3> QED
      BY <2>4, <3>1, <3>3, <3>4, RingSizeAssumption
  <2>7. mine'[p] = u
    BY <1>5, <2>1, <2>6, LenProperties, RingSizeAssumption DEF PushEvicting, u
  <2>8. MineHolds(p)'
    BY <2>4, <2>5, <2>7 DEF MineHolds
  <2>9. TheirsHolds(p)'
    <3>1. \A k : k \in KeysOf(taken'[p]) <=> k \in KeysOf(taken[p]) \/ k = KeyOf(s)
      BY <1>4 DEF KeysOf
    <3> QED
      BY <1>1, <1>4, <1>6, <2>1, <2>2, <3>1 DEF RingsHold, TheirsHolds
  <2>10. Reported(p)'
    <3>1. \A k, x : Met(p, k, x)' <=> Met(p, k, x)
      BY <1>4, <1>6, <2>2 DEF Met
    <3> QED
      BY <1>6, <2>1, <3>1 DEF RingsHold, Reported
  <2> QED
    BY <1>1, <1>8, <1>9, <2>8, <2>9, <2>10 DEF RingsHold
<1> QED
  BY <1>11, <1>12

(* A sample that is read.                                                  *)
LEMMA ReadTyped ==
  ASSUME NodesTyped, NEW p \in Walker, ReadSample(p)
  PROVE  NodesTyped'
<1> DEFINE s == Head(mail[p])
           R == [of : [battle : Nat, turn : Points], same : BOOLEAN]
<1>1. /\ mail[p] \in Seq(Smp) /\ mail[p] # <<>> /\ mine[p] \in Seq(Smp)
      /\ theirs[p] \in Seq(Smp)
  BY DEF ReadSample, NodesTyped
<1>2. s \in Smp /\ Tail(mail[p]) \in Seq(Smp)
  BY <1>1, HeadTailProperties
<1> HIDE DEF s
<1>3. /\ heard' = [heard EXCEPT ![p] = @ \cup {KeyOf(s)}]
      /\ mail' = [mail EXCEPT ![p] = Tail(@)]
      /\ UNCHANGED <<node, screen, astray, taken, late>>
      /\ IF Holds(mine[p], s.battle, s.turn)
         THEN /\ verdict' = [verdict EXCEPT ![p] = @ \cup
                    {[of |-> KeyOf(Find(mine[p], s.battle, s.turn)),
                      same |-> Find(mine[p], s.battle, s.turn).hash = s.hash]}]
              /\ mine' = [mine EXCEPT ![p] = Taken(@, s.battle, s.turn)]
              /\ theirs' = theirs
         ELSE /\ theirs' = [theirs EXCEPT ![p] = PushRefusing(@, s)]
              /\ UNCHANGED <<mine, verdict>>
  BY DEF ReadSample, Report, s
<1>4. KeyOf(s) \in [battle : Nat, turn : Points]
  BY <1>2, SameKey
<1>5. /\ node' \in [Walker -> Nat]
      /\ screen' \in [Walker -> {"none", "unnamed", "sampled"}]
      /\ astray' \in [Walker -> {0, 1}]
      /\ mail' \in [Walker -> Seq(Smp)]
      /\ taken' \in [Walker -> SUBSET Smp]
      /\ heard' \in [Walker -> SUBSET [battle : Nat, turn : Points]]
      /\ late' \in BOOLEAN
  BY <1>2, <1>3, <1>4 DEF NodesTyped
<1>6. CASE Holds(mine[p], s.battle, s.turn)
  <2> DEFINE m == FirstMatch(mine[p], s.battle, s.turn)
             t == Find(mine[p], s.battle, s.turn)
             w == [of |-> KeyOf(t), same |-> t.hash = s.hash]
  <2>1. m \in 1 .. Len(mine[p]) /\ t = mine[p][m]
    BY <1>1, <1>6, FirstMatchIsOne DEF Find
  <2>2. t \in Smp
    BY <1>1, <2>1, ElementOfSeq
  <2>3. Taken(mine[p], s.battle, s.turn) = RemoveAt(mine[p], m)
    BY <1>6 DEF Taken
  <2>4. RemoveAt(mine[p], m) \in Seq(Smp)
    <3> HIDE DEF m
    <3> QED
      BY <1>1, <2>1 DEF RemoveAt
  <2>5. w \in R
    BY <2>2, SameKey
  <2>6. verdict' = [verdict EXCEPT ![p] = @ \cup {w}] /\ verdict \in [Walker -> SUBSET R]
    BY <1>3, <1>6 DEF NodesTyped
  <2>7. mine' \in [Walker -> Seq(Smp)] /\ theirs' \in [Walker -> Seq(Smp)]
    <3>1. /\ theirs' = theirs /\ mine' = [mine EXCEPT ![p] = Taken(@, s.battle, s.turn)]
          /\ theirs \in [Walker -> Seq(Smp)] /\ mine \in [Walker -> Seq(Smp)]
      BY <1>3, <1>6 DEF NodesTyped
    <3>2. Taken(mine[p], s.battle, s.turn) \in Seq(Smp)
      BY <2>3, <2>4
    <3> HIDE DEF m, t, w, R
    <3> QED
      BY <3>1, <3>2
  <2> HIDE DEF w, R
  <2>8. verdict' \in [Walker -> SUBSET R]
    BY <2>5, <2>6
  <2> QED
    BY <1>5, <2>7, <2>8 DEF NodesTyped, R
<1>7. CASE ~Holds(mine[p], s.battle, s.turn)
  <2>1. PushRefusing(theirs[p], s) \in Seq(Smp)
    BY <1>1, <1>2, PushedRing DEF PushRefusing
  <2>2. mine' \in [Walker -> Seq(Smp)] /\ theirs' \in [Walker -> Seq(Smp)] /\ verdict' = verdict
    BY <1>3, <1>7, <2>1 DEF NodesTyped
  <2> QED
    BY <1>5, <2>2 DEF NodesTyped
<1> QED
  BY <1>6, <1>7

(* What the mail holds after its first sample has been read.               *)
LEMMA TailMail ==
  ASSUME NEW S, NEW r \in Seq(S), r # <<>>, Distinct(r)
  PROVE  /\ Distinct(Tail(r))
         /\ \A x : In(x, Tail(r)) <=> In(x, r) /\ ~HasKey(x, Head(r).battle, Head(r).turn)
<1> DEFINE n == Len(r)
<1>1. /\ n \in Nat \ {0} /\ Len(Tail(r)) = n - 1 /\ Head(r) = r[1]
      /\ \A i \in 1 .. n - 1 : Tail(r)[i] = r[i + 1]
  BY HeadTailProperties, EmptySeq
<1> DEFINE u == Tail(r)
<1> HIDE DEF n, u
<1>2. Distinct(u)
  <2> SUFFICES ASSUME NEW i \in 1 .. n - 1, NEW j \in 1 .. n - 1,
                      u[i].battle = u[j].battle, u[i].turn = u[j].turn
               PROVE  i = j
    BY <1>1 DEF Distinct, u
  <2>1. i + 1 \in 1 .. n /\ j + 1 \in 1 .. n /\ u[i] = r[i + 1] /\ u[j] = r[j + 1]
    BY <1>1 DEF u
  <2>2. i + 1 = j + 1
    BY <2>1 DEF Distinct, n
  <2> QED
    BY <2>2
<1>3. ASSUME NEW x, In(x, u) PROVE In(x, r) /\ ~HasKey(x, Head(r).battle, Head(r).turn)
  <2>1. PICK i \in 1 .. n - 1 : u[i] = x
    BY <1>1, <1>3 DEF In, u
  <2>2. i + 1 \in 1 .. n /\ r[i + 1] = x /\ i + 1 # 1 /\ 1 \in 1 .. n
    BY <1>1, <2>1 DEF u
  <2> QED
    BY <1>1, <2>2 DEF In, HasKey, Distinct, n
<1>4. ASSUME NEW x, In(x, r), ~HasKey(x, Head(r).battle, Head(r).turn) PROVE In(x, u)
  <2>1. PICK i \in 1 .. n : r[i] = x
    BY <1>4 DEF In, n
  <2>2. i # 1
    BY <1>1, <1>4, <2>1 DEF HasKey
  <2>3. i - 1 \in 1 .. n - 1 /\ u[i - 1] = x
    BY <1>1, <2>1, <2>2 DEF u
  <2> QED
    BY <1>1, <2>3 DEF In, u
<1> QED
  BY <1>2, <1>3, <1>4 DEF u

LEMMA ReadMail ==
  ASSUME NodeInv, NEW p \in Walker, ReadSample(p)
  PROVE  /\ \A q \in Walker : MailHolds(q)'
         /\ Head(mail[p]) \in taken[Partner(p)]
         /\ KeyOf(Head(mail[p])) \notin heard[p]
<1> DEFINE s == Head(mail[p])
           q == Partner(p)
<1>1. /\ NodesTyped /\ q \in Walker /\ q # p /\ Partner(q) = p
      /\ \A r \in Walker : r = p \/ r = q
  BY Partners DEF NodeInv
<1>2. /\ heard' = [heard EXCEPT ![p] = @ \cup {KeyOf(s)}]
      /\ mail' = [mail EXCEPT ![p] = Tail(@)] /\ mail[p] # <<>>
      /\ taken' = taken
  BY DEF ReadSample
<1>3. /\ mail'[p] = Tail(mail[p]) /\ mail'[q] = mail[q]
      /\ heard'[p] = heard[p] \cup {KeyOf(s)} /\ heard'[q] = heard[q]
  BY <1>1, <1>2 DEF NodesTyped
<1>4. mail[p] \in Seq(Smp) /\ taken[q] \subseteq Smp
  BY <1>1 DEF NodesTyped
<1>5. s = mail[p][1] /\ 1 \in 1 .. Len(mail[p])
  BY <1>2, <1>4, HeadTailProperties, EmptySeq
<1>6. In(s, mail[p])
  BY <1>5 DEF In
<1> HIDE DEF q
<1>7. MailHolds(p) /\ MailHolds(q) /\ Partner(p) = q
  BY <1>1 DEF NodeInv, q
<1>8. s \in taken[q] /\ KeyOf(s) \notin heard[p]
  BY <1>6, <1>7 DEF MailHolds
<1>9. /\ Distinct(mail'[p])
      /\ \A x : In(x, mail'[p]) <=> In(x, mail[p]) /\ ~HasKey(x, s.battle, s.turn)
  BY <1>2, <1>3, <1>4, <1>7, TailMail DEF MailHolds
<1> HIDE DEF s
<1>10. MailHolds(p)'
  <2>1. \A x \in taken[q] : HasKey(x, s.battle, s.turn) <=> KeyOf(x) = KeyOf(s)
    BY <1>4, <1>8, SameKey
  <2>2. heard'[p] \subseteq KeysOf(taken[q])
    BY <1>3, <1>7, <1>8 DEF MailHolds, KeysOf
  <2> QED
    BY <1>2, <1>3, <1>7, <1>9, <2>1, <2>2 DEF MailHolds
<1>11. MailHolds(q)'
  BY <1>2, <1>3, <1>7 DEF MailHolds
<1> QED
  BY <1>1, <1>7, <1>8, <1>10, <1>11 DEF s

LEMMA ReadRings ==
  ASSUME NodeInv, NEW p \in Walker, ReadSample(p), ~late
  PROVE  \A q \in Walker : RingsHold(q)'
<1> DEFINE s == Head(mail[p])
           q == Partner(p)
<1>1. /\ NodesTyped /\ q \in Walker /\ q # p /\ Partner(q) = p
      /\ \A r \in Walker : r = p \/ r = q
  BY Partners DEF NodeInv
<1>2. s \in taken[q] /\ KeyOf(s) \notin heard[p]
  BY ReadMail
<1>3. /\ heard' = [heard EXCEPT ![p] = @ \cup {KeyOf(s)}] /\ taken' = taken
      /\ IF Holds(mine[p], s.battle, s.turn)
         THEN /\ verdict' = [verdict EXCEPT ![p] = @ \cup
                    {[of |-> KeyOf(Find(mine[p], s.battle, s.turn)),
                      same |-> Find(mine[p], s.battle, s.turn).hash = s.hash]}]
              /\ mine' = [mine EXCEPT ![p] = Taken(@, s.battle, s.turn)]
              /\ theirs' = theirs
         ELSE /\ theirs' = [theirs EXCEPT ![p] = PushRefusing(@, s)]
              /\ UNCHANGED <<mine, verdict>>
  BY DEF ReadSample, Report
<1>4. heard'[p] = heard[p] \cup {KeyOf(s)} /\ heard'[q] = heard[q]
  BY <1>1, <1>3 DEF NodesTyped
<1>5. /\ mine[p] \in Seq(Smp) /\ theirs[p] \in Seq(Smp)
      /\ taken[p] \subseteq Smp /\ taken[q] \subseteq Smp
  BY <1>1 DEF NodesTyped
<1> HIDE DEF q, s
<1>6. /\ RingsHold(p) /\ RingsHold(q) /\ MailHolds(p) /\ MailHolds(q) /\ Partner(p) = q
  BY <1>1 DEF NodeInv, q
<1>7. s \in Smp
  BY <1>2, <1>5
<1>8. RingsHold(q)'
  <2>1. mine'[q] = mine[q] /\ theirs'[q] = theirs[q] /\ verdict'[q] = verdict[q]
    BY <1>1, <1>3 DEF NodesTyped
  <2>2. FewBehind(q)'
    BY <1>3, <1>4, <1>6 DEF RingsHold, FewBehind, Behindhand
  <2>3. MineHolds(q)' /\ TheirsHolds(q)'
    BY <1>1, <1>3, <1>4, <1>6, <2>1 DEF RingsHold, MineHolds, TheirsHolds
  <2>4. \A k, x : Met(q, k, x)' <=> Met(q, k, x)
    BY <1>1, <1>3, <1>4 DEF Met
  <2>5. Reported(q)'
    BY <1>6, <2>1, <2>4 DEF RingsHold, Reported
  <2> QED
    BY <2>2, <2>3, <2>5 DEF RingsHold
<1>9. FewBehind(p)'
  <2>1. Behindhand(p)' \subseteq Behindhand(p)
    BY <1>3, <1>4 DEF Behindhand
  <2>2. IsFiniteSet(Behindhand(p)) /\ Cardinality(Behindhand(p)) <= RingSize
    BY <1>6 DEF RingsHold, FewBehind
  <2> DEFINE X == Behindhand(p)
             Y == Behindhand(p)'
  <2>3. IsFiniteSet(Y) /\ Cardinality(Y) <= Cardinality(X)
    BY <2>1, <2>2, FS_Subset
  <2>4. Cardinality(X) \in Nat /\ Cardinality(Y) \in Nat
    BY <2>2, <2>3, FS_CardinalityType
  <2> HIDE DEF X, Y
  <2>5. IsFiniteSet(Y) /\ Cardinality(Y) <= RingSize
    BY <2>2, <2>3, <2>4, RingSizeAssumption DEF X
  <2> QED
    BY <2>5 DEF FewBehind, Y
<1>10. Holds(mine[p], s.battle, s.turn) <=> KeyOf(s) \in KeysOf(taken[p])
  <2>1. ASSUME NEW t, In(t, mine[p]), HasKey(t, s.battle, s.turn)
        PROVE  KeyOf(s) \in KeysOf(taken[p])
    <3>1. t \in taken[p]
      BY <1>6, <2>1 DEF RingsHold, MineHolds
    <3>2. KeyOf(t) = KeyOf(s)
      BY <1>5, <1>7, <2>1, <3>1, SameKey
    <3> QED
      BY <3>1, <3>2 DEF KeysOf
  <2>2. ASSUME KeyOf(s) \in KeysOf(taken[p])
        PROVE  \E t : In(t, mine[p]) /\ HasKey(t, s.battle, s.turn)
    <3>1. PICK t \in taken[p] : KeyOf(t) = KeyOf(s)
      BY <2>2 DEF KeysOf
    <3>2. In(t, mine[p])
      BY <1>2, <1>6, <3>1 DEF RingsHold, MineHolds
    <3> QED
      BY <1>5, <1>7, <3>1, <3>2, SameKey
  <2> QED
    BY <2>1, <2>2, HoldsIn
<1>11. CASE Holds(mine[p], s.battle, s.turn)
  <2> DEFINE t == Find(mine[p], s.battle, s.turn)
             b == t.hash = s.hash
  <2>1. /\ mine'[p] = Taken(mine[p], s.battle, s.turn) /\ theirs'[p] = theirs[p]
        /\ \A w : w \in verdict'[p] <=>
             w \in verdict[p] \/ w = [of |-> KeyOf(t), same |-> b]
    BY <1>1, <1>3, <1>11 DEF NodesTyped
  <2>2. In(t, mine[p]) /\ HasKey(t, s.battle, s.turn)
    BY <1>5, <1>11, FindIsOne
  <2> HIDE DEF t
  <2>3. t \in taken[p] /\ KeyOf(t) = KeyOf(s)
    <3>1. t \in taken[p]
      BY <1>6, <2>2 DEF RingsHold, MineHolds
    <3> QED
      BY <1>5, <1>7, <2>2, <3>1, SameKey
  <2>4. MineHolds(p)'
    <3>1. /\ Distinct(mine'[p])
          /\ \A x : In(x, mine'[p]) <=> In(x, mine[p]) /\ ~HasKey(x, s.battle, s.turn)
      BY <1>5, <1>6, <2>1, TakenRing DEF RingsHold, MineHolds
    <3>2. \A x \in taken[p] : HasKey(x, s.battle, s.turn) <=> KeyOf(x) = KeyOf(s)
      BY <1>5, <1>7, SameKey
    <3> QED
      BY <1>3, <1>4, <1>6, <3>1, <3>2 DEF RingsHold, MineHolds
  <2>5. TheirsHolds(p)'
    BY <1>1, <1>3, <1>4, <1>6, <1>10, <1>11, <2>1 DEF RingsHold, TheirsHolds
  <2>6. Reported(p)'
    <3>1. \A k, x : Met(p, k, x)' <=> Met(p, k, x) \/ (k = KeyOf(t) /\ x = b)
      <4>1. \A y \in taken[q] : KeyOf(y) = KeyOf(s) => y = s
        BY <1>1, <1>2 DEF NodeInv, TakenOnce
      <4>2. \A y \in taken[p] : KeyOf(y) = KeyOf(s) => y = t
        BY <1>1, <2>3 DEF NodeInv, TakenOnce
      <4> QED
        BY <1>2, <1>3, <1>4, <1>6, <2>3, <4>1, <4>2 DEF Met
    <3>2. \A w : w \in verdict[p] <=> \E k, x : w = [of |-> k, same |-> x] /\ Met(p, k, x)
      BY <1>6 DEF RingsHold, Reported
    <3> HIDE DEF b
    <3>3. \A w : w \in verdict'[p] <=> \E k, x : w = [of |-> k, same |-> x] /\ Met(p, k, x)'
      <4>1. ASSUME NEW w, w \in verdict'[p]
            PROVE  \E k, x : w = [of |-> k, same |-> x] /\ Met(p, k, x)'
        <5>1. CASE w \in verdict[p]
          BY <3>1, <3>2, <5>1, Zenon
        <5>2. CASE w = [of |-> KeyOf(t), same |-> b]
          BY <3>1, <5>2, Zenon
        <5> QED
          BY <2>1, <4>1, <5>1, <5>2, Zenon
      <4>2. ASSUME NEW w, NEW k, NEW x, w = [of |-> k, same |-> x], Met(p, k, x)'
            PROVE  w \in verdict'[p]
        <5>1. CASE Met(p, k, x)
          <6>1. w \in verdict[p]
            BY <3>2, <4>2, <5>1, Zenon
          <6> QED
            BY <2>1, <6>1, Zenon
        <5>2. CASE k = KeyOf(t) /\ x = b
          <6>1. w = [of |-> KeyOf(t), same |-> b]
            BY <4>2, <5>2
          <6> QED
            BY <2>1, <6>1, Zenon
        <5> QED
          BY <3>1, <4>2, <5>1, <5>2, Zenon
      <4> QED
        BY <4>1, <4>2, Zenon
    <3> QED
      BY <3>3 DEF Reported
  <2> QED
    BY <1>1, <1>8, <1>9, <2>4, <2>5, <2>6 DEF RingsHold
<1>12. CASE ~Holds(mine[p], s.battle, s.turn)
  <2>1. /\ theirs'[p] = PushRefusing(theirs[p], s) /\ mine'[p] = mine[p]
        /\ verdict'[p] = verdict[p]
    BY <1>1, <1>3, <1>12 DEF NodesTyped
  <2>2. KeyOf(s) \notin KeysOf(taken[p])
    BY <1>10, <1>12
  <2>3. ~Holds(theirs[p], s.battle, s.turn)
    <3> SUFFICES ASSUME NEW t, In(t, theirs[p]), HasKey(t, s.battle, s.turn) PROVE FALSE
      BY HoldsIn
    <3>1. t \in taken[q] /\ KeyOf(t) \in heard[p]
      BY <1>6 DEF RingsHold, TheirsHolds
    <3> QED
      BY <1>2, <1>5, <1>7, <3>1, SameKey
  <2> DEFINE u == Append(theirs[p], s)
  <2>4. /\ u \in Seq(Smp) /\ Len(u) = Len(theirs[p]) + 1 /\ Distinct(u)
        /\ \A x : In(x, u) <=> In(x, theirs[p]) \/ x = s
    BY <1>5, <1>6, <1>7, <2>3, PushedRing DEF RingsHold, TheirsHolds
  <2> HIDE DEF u
  <2>5. Len(theirs[p]) < RingSize
    <3> DEFINE X == Behindhand(q)
    <3>1. IsFiniteSet(X) /\ Cardinality(X) <= RingSize /\ Cardinality(X) \in Nat
      BY <1>6, FS_CardinalityType DEF RingsHold, FewBehind
    <3>2. \A x : In(x, u) => KeyOf(x) \in X
      <4> SUFFICES ASSUME NEW x, In(x, u) PROVE KeyOf(x) \in X
        OBVIOUS
      <4>1. x \in taken[q] /\ KeyOf(x) \notin KeysOf(taken[p])
        BY <1>2, <1>6, <2>2, <2>4 DEF RingsHold, TheirsHolds
      <4>2. heard[q] \subseteq KeysOf(taken[p])
        BY <1>1, <1>6 DEF MailHolds
      <4> QED
        BY <4>1, <4>2 DEF Behindhand, KeysOf
    <3> HIDE DEF X
    <3>3. Len(u) <= Cardinality(X)
      BY <2>4, <3>1, <3>2, KeyCount
    <3>4. Len(theirs[p]) \in Nat
      BY <1>5, LenProperties
    <3> QED
      BY <2>4, <3>1, <3>3, <3>4, RingSizeAssumption
  <2>6. theirs'[p] = u
    BY <1>5, <2>1, <2>5, LenProperties, RingSizeAssumption DEF PushRefusing, u
  <2>7. TheirsHolds(p)'
    <3>1. \A x \in taken[q] : KeyOf(x) = KeyOf(s) => x = s
      BY <1>1, <1>2 DEF NodeInv, TakenOnce
    <3> QED
      BY <1>1, <1>2, <1>3, <1>4, <1>6, <2>2, <2>4, <2>6, <3>1 DEF RingsHold, TheirsHolds
  <2>8. MineHolds(p)'
    <3>1. \A x \in taken[p] : KeyOf(x) # KeyOf(s)
      BY <2>2 DEF KeysOf
    <3> QED
      BY <1>3, <1>4, <1>6, <2>1, <3>1 DEF RingsHold, MineHolds
  <2>9. Reported(p)'
    <3>1. \A x \in taken[p] : KeyOf(x) # KeyOf(s)
      BY <2>2 DEF KeysOf
    <3>2. \A k, x : Met(p, k, x)' <=> Met(p, k, x)
      BY <1>3, <1>4, <1>6, <3>1 DEF Met
    <3> QED
      BY <1>6, <2>1, <3>2 DEF RingsHold, Reported
  <2> QED
    BY <1>1, <1>8, <1>9, <2>7, <2>8, <2>9 DEF RingsHold
<1> QED
  BY <1>11, <1>12

(* The three actions of a walker that takes or reads a sample, and the     *)
(* fault.                                                                  *)
LEMMA TakeSample ==
  ASSUME NodeInv, NEW p \in Walker, NEW s \in Smp, Publish(p, s), heard' = heard,
         UNCHANGED astray,
         KeyOf(s) \notin KeysOf(taken[p]),
         node' \in [Walker -> Nat],
         screen' \in [Walker -> {"none", "unnamed", "sampled"}],
         \A q \in Walker : q # p => node'[q] = node[q] /\ screen'[q] = screen[q],
         \A t \in taken[p] \cup {s} :
           /\ t.battle <= node'[p]
           /\ t.turn = "Event" /\ t.battle = node'[p] => screen'[p] = "sampled"
  PROVE  NodeInv'
<1>1. NodesTyped /\ taken' = [taken EXCEPT ![p] = @ \cup {s}] /\ taken[p] \subseteq Smp
  BY DEF NodeInv, Publish, NodesTyped
<1>2. NodesTyped'
  BY <1>1, PublishTyped DEF NodesTyped
<1>3. ASSUME NEW q \in Walker PROVE TakenOnce(q)'
  <2>1. TakenOnce(q) /\ TakenOnce(p)
    BY DEF NodeInv
  <2>2. CASE q # p
    <3>1. taken'[q] = taken[q]
      BY <1>1, <2>2 DEF NodesTyped
    <3> QED
      BY <2>1, <2>2, <3>1 DEF TakenOnce
  <2>3. CASE q = p
    <3>1. taken'[p] = taken[p] \cup {s}
      BY <1>1 DEF NodesTyped
    <3>2. IsFiniteSet(taken'[p])
      BY <2>1, <3>1, FS_AddElement DEF TakenOnce
    <3>3. \A t, u \in taken'[p] : KeyOf(t) = KeyOf(u) => t = u
      BY <2>1, <3>1 DEF TakenOnce, KeysOf
    <3> QED
      BY <2>3, <3>1, <3>2, <3>3 DEF TakenOnce
  <2> QED
    BY <2>2, <2>3
<1> QED
  BY <1>2, <1>3, PublishMail, PublishRings DEF NodeInv

LEMMA NodeInvEnter ==
  ASSUME NodeInv, NEW p \in Walker, EnterTheNode(p)
  PROVE  NodeInv'
<1> DEFINE n == node[p] + 1
           s == SampleAt(p, n, "Enter")
<1>1. /\ node' = [node EXCEPT ![p] = n]
      /\ \E x \in {"unnamed", "none"} : screen' = [screen EXCEPT ![p] = x]
      /\ Publish(p, s) /\ UNCHANGED <<astray, heard>>
  BY DEF EnterTheNode
<1>2. NodesTyped /\ TakenOnce(p) /\ node[p] \in Nat /\ taken[p] \subseteq Smp
  BY DEF NodeInv, NodesTyped
<1>3. s \in Smp /\ s.battle = n /\ s.turn = "Enter"
  BY <1>2 DEF NodesTyped, SampleAt, Smp, Points
<1>4. \A t \in taken[p] : t.battle \in Nat /\ t.battle <= node[p]
  BY <1>2 DEF TakenOnce, Smp
<1> HIDE DEF s
<1>5. KeyOf(s) \notin KeysOf(taken[p])
  <2> SUFFICES ASSUME NEW t \in taken[p], KeyOf(s) = KeyOf(t) PROVE FALSE
    BY DEF KeysOf
  <2>1. t.battle = n
    BY <1>2, <1>3, SameKey
  <2> QED
    BY <1>2, <1>4, <2>1
<1>6. /\ node' \in [Walker -> Nat] /\ node'[p] = n
      /\ screen' \in [Walker -> {"none", "unnamed", "sampled"}]
      /\ \A q \in Walker : q # p => node'[q] = node[q] /\ screen'[q] = screen[q]
  BY <1>1, <1>2 DEF NodesTyped
<1>7. \A t \in taken[p] \cup {s} :
        /\ t.battle <= node'[p]
        /\ ~(t.turn = "Event" /\ t.battle = node'[p])
  <2> SUFFICES ASSUME NEW t \in taken[p] \cup {s}
               PROVE  t.battle <= n /\ ~(t.turn = "Event" /\ t.battle = n)
    BY <1>6
  <2>1. CASE t \in taken[p]
    BY <1>2, <1>4, <2>1
  <2>2. CASE t = s
    <3>1. n <= n
      BY <1>2
    <3> QED
      BY <1>3, <2>2, <3>1
  <2> QED
    BY <2>1, <2>2
<1> QED
  BY <1>1, <1>3, <1>5, <1>6, <1>7, TakeSample

LEMMA NodeInvEvent ==
  ASSUME NodeInv, NEW p \in Walker, SampleEvent(p)
  PROVE  NodeInv'
<1> DEFINE s == SampleAt(p, node[p], "Event")
<1>1. /\ screen[p] = "unnamed" /\ screen' = [screen EXCEPT ![p] = "sampled"]
      /\ Publish(p, s) /\ UNCHANGED <<node, astray, heard>>
  BY DEF SampleEvent
<1>2. NodesTyped /\ TakenOnce(p) /\ node[p] \in Nat /\ taken[p] \subseteq Smp
  BY DEF NodeInv, NodesTyped
<1>3. s \in Smp /\ s.battle = node[p] /\ s.turn = "Event"
  BY <1>2 DEF NodesTyped, SampleAt, Smp, Points
<1> HIDE DEF s
<1>4. KeyOf(s) \notin KeysOf(taken[p])
  <2> SUFFICES ASSUME NEW t \in taken[p], KeyOf(s) = KeyOf(t) PROVE FALSE
    BY DEF KeysOf
  <2>1. t.battle = node[p] /\ t.turn = "Event"
    BY <1>2, <1>3, SameKey
  <2> QED
    BY <1>1, <1>2, <2>1 DEF TakenOnce
<1>5. /\ node' \in [Walker -> Nat] /\ node'[p] = node[p] /\ screen'[p] = "sampled"
      /\ screen' \in [Walker -> {"none", "unnamed", "sampled"}]
      /\ \A q \in Walker : q # p => node'[q] = node[q] /\ screen'[q] = screen[q]
  BY <1>1, <1>2 DEF NodesTyped
<1>6. \A t \in taken[p] \cup {s} : t.battle <= node'[p]
  BY <1>2, <1>3, <1>5 DEF TakenOnce
<1> QED
  BY <1>1, <1>3, <1>4, <1>5, <1>6, TakeSample

LEMMA NodeInvRead ==
  ASSUME NodeInv, NEW p \in Walker, ReadSample(p)
  PROVE  NodeInv'
<1>1. NodesTyped /\ UNCHANGED <<node, screen, taken, late>>
  BY DEF NodeInv, ReadSample
<1>2. \A q \in Walker : TakenOnce(q)'
  BY <1>1 DEF NodeInv, TakenOnce
<1> QED
  BY <1>1, <1>2, ReadTyped, ReadMail, ReadRings DEF NodeInv

LEMMA NodeInvSame ==
  ASSUME NodeInv, UNCHANGED <<node, screen, mine, theirs, mail, taken, heard, verdict, late>>,
         astray' \in [Walker -> {0, 1}]
  PROVE  NodeInv'
<1>1. NodesTyped'
  BY DEF NodeInv, NodesTyped
<1>2. \A q \in Walker : TakenOnce(q)' = TakenOnce(q) /\ MailHolds(q)' = MailHolds(q)
  BY DEF TakenOnce, MailHolds
<1>3. \A q \in Walker : RingsHold(q) => RingsHold(q)'
  <2> SUFFICES ASSUME NEW q \in Walker, RingsHold(q) PROVE RingsHold(q)'
    OBVIOUS
  <2>1. FewBehind(q)' /\ MineHolds(q)' /\ TheirsHolds(q)'
    BY DEF RingsHold, FewBehind, Behindhand, MineHolds, TheirsHolds
  <2>2. Reported(q)'
    BY DEF RingsHold, Reported, Met
  <2> QED
    BY <2>1, <2>2 DEF RingsHold
<1> QED
  BY <1>1, <1>2, <1>3 DEF NodeInv

LEMMA NodeInvNext == NodeInv /\ [NodesNext]_nodeVars => NodeInv'
<1> SUFFICES ASSUME NodeInv, [NodesNext]_nodeVars PROVE NodeInv'
  OBVIOUS
<1>1. CASE UNCHANGED nodeVars
  BY <1>1, NodeInvSame DEF nodeVars, NodeInv, NodesTyped
<1>2. ASSUME NEW p \in Walker, GoAstray(p) PROVE NodeInv'
  <2>1. astray' \in [Walker -> {0, 1}]
    BY <1>2 DEF GoAstray, NodeInv, NodesTyped
  <2> QED
    BY <1>2, <2>1, NodeInvSame DEF GoAstray
<1> QED
  BY <1>1, <1>2, NodeInvEnter, NodeInvEvent, NodeInvRead DEF NodesNext

(* With the mail read, what p has reported of a key is what there is.      *)
LEMMA NodeInvCompared == NodeInv => NodesCompared
<1> SUFFICES ASSUME NodeInv, \A p \in Walker : mail[p] = <<>>, ~late,
                    NEW p \in Walker, NEW k \in Sample
             PROVE  {v.same : v \in {w \in verdict[p] : w.of = k}}
                      = {r[1].hash = r[2].hash :
                           r \in {t \in taken[Ahead] : KeyOf(t) = k}
                                 \X {t \in taken[Behind] : KeyOf(t) = k}}
  BY DEF NodesCompared
<1> DEFINE A == {t \in taken[Ahead] : KeyOf(t) = k}
           B == {t \in taken[Behind] : KeyOf(t) = k}
           V == {w \in verdict[p] : w.of = k}
<1>1. MailHolds(p) /\ Reported(p)
  BY DEF NodeInv, RingsHold
<1>2. \A s \in taken[Partner(p)] : KeyOf(s) \in heard[p]
  <2>1. \A s : ~In(s, mail[p])
    BY EmptySeq DEF In
  <2> QED
    BY <1>1, <2>1 DEF MailHolds
<1>3. (p = Ahead /\ Partner(p) = Behind) \/ (p = Behind /\ Partner(p) = Ahead)
  BY NodeParameters DEF Walker, Partner
<1>4. \A x : (\E v \in V : v.same = x) <=> Met(p, k, x)
  <2>1. ASSUME NEW x, NEW v \in V, v.same = x PROVE Met(p, k, x)
    <3>1. PICK l, y : v = [of |-> l, same |-> y] /\ Met(p, l, y)
      BY <1>1, <2>1, Zenon DEF Reported
    <3>2. l = k /\ y = x
      BY <2>1, <3>1
    <3> QED
      BY <3>1, <3>2
  <2>2. ASSUME NEW x, Met(p, k, x) PROVE \E v \in V : v.same = x
    <3> DEFINE w == [of |-> k, same |-> x]
    <3>1. w \in verdict[p]
      BY <1>1, <2>2, Zenon DEF Reported
    <3>2. w.of = k /\ w.same = x
      OBVIOUS
    <3> QED
      BY <3>1, <3>2
  <2> QED
    BY <2>1, <2>2
<1>5. \A x : Met(p, k, x) <=> \E s \in A, t \in B : x = (s.hash = t.hash)
  <2>1. ASSUME NEW s, NEW t PROVE (s.hash = t.hash) = (t.hash = s.hash)
    OBVIOUS
  <2>2. CASE p = Ahead /\ Partner(p) = Behind
    BY <1>2, <2>2 DEF Met
  <2>3. CASE p = Behind /\ Partner(p) = Ahead
    BY <1>2, <2>1, <2>3 DEF Met
  <2> QED
    BY <1>3, <2>2, <2>3
<1>6. \A x : x \in {v.same : v \in V} <=> \E v \in V : v.same = x
  OBVIOUS
<1>7. \A x : x \in {r[1].hash = r[2].hash : r \in A \X B}
              <=> \E s \in A, t \in B : x = (s.hash = t.hash)
  <2> DEFINE Alike(s, t) == s.hash = t.hash
  <2> HIDE DEF A, B, Alike
  <2>1. \A x : x \in {Alike(r[1], r[2]) : r \in A \X B}
                <=> \E r \in A \X B : x = Alike(r[1], r[2])
    BY Zenon
  <2>2. ASSUME NEW x, NEW r \in A \X B, x = Alike(r[1], r[2])
        PROVE  \E s \in A, t \in B : x = Alike(s, t)
    <3>1. r[1] \in A /\ r[2] \in B
      OBVIOUS
    <3> QED
      BY <2>2, <3>1, Zenon
  <2>3. ASSUME NEW x, NEW s \in A, NEW t \in B, x = Alike(s, t)
        PROVE  \E r \in A \X B : x = Alike(r[1], r[2])
    <3> DEFINE pair == <<s, t>>
    <3>1. pair \in A \X B /\ pair[1] = s /\ pair[2] = t
      OBVIOUS
    <3> HIDE DEF pair
    <3>2. x = Alike(pair[1], pair[2])
      BY <2>3, <3>1, Zenon
    <3> QED
      BY <3>1, <3>2, Zenon
  <2>4. \A x : x \in {Alike(r[1], r[2]) : r \in A \X B}
                <=> \E s \in A, t \in B : x = Alike(s, t)
    BY <2>1, <2>2, <2>3, Zenon
  <2> QED
    BY <2>4 DEF Alike
<1> HIDE DEF A, B, V
<1>8. \A x : x \in {v.same : v \in V} <=> x \in {r[1].hash = r[2].hash : r \in A \X B}
  BY <1>4, <1>5, <1>6, <1>7, Zenon
<1>9. {v.same : v \in V} = {r[1].hash = r[2].hash : r \in A \X B}
  BY <1>8, Zenon
<1> QED
  BY <1>9 DEF A, B, V

(* Of a sample both peers took each of them says whether it was the same,  *)
(* and says so truly, for every map and every ring (publish and match of   *)
(* mgmp_nodehash.cpp).                                                     *)
THEOREM NodesAreCompared == NodesSpec => []NodesCompared
BY NodeInvInit, NodeInvNext, NodeInvCompared, PTL DEF NodesSpec

-------------------------------------------------------------------------------
(* HashExchange.  Numbers for battles where none is 0, and the order in    *)
(* which a peer passes its turns.                                          *)

Held(p) == IF snapped[p] = NoBattle THEN 0 ELSE snapped[p]

Before(j, k) == j.battle < k.battle \/ (j.battle = k.battle /\ j.turn < k.turn)

(* The battles left last are the ones remembered, none missing.            *)
Retiring(p) ==
  LET r == battles[p].retired IN
  /\ Held(p) = Entered(p) \/ Held(p) + 1 = Entered(p)
  /\ Len(r) = IF Entered(p) = 0 THEN 0
              ELSE IF Entered(p) - 1 < Slots THEN Entered(p) - 1 ELSE Slots
  /\ \A i \in 1 .. Len(r) : r[i] = Entered(p) - 1 - Len(r) + i

(* The turns of the roster's battle up to its counter, the first of every  *)
(* battle before.                                                          *)
Passing(p) ==
  /\ IsFiniteSet(passed[p])
  /\ \A k \in passed[p] : k.battle <= Held(p)
  /\ \A k \in Key : k.battle = Held(p) => (k \in passed[p] <=> k.turn < turn[p])
  /\ Held(p) = 0 => turn[p] = 0
  /\ \A b \in 1 .. Held(p) : [battle |-> b, turn |-> 0] \in passed[p]

(* The ring of own hashes has the last turns passed, in their order.       *)
Owned(p) ==
  LET r == myHash[p] IN
  /\ Len(r) = IF turn[p] < RingSize THEN turn[p] ELSE RingSize
  /\ \A i \in 1 .. Len(r) : r[i] = [battle |-> Held(p), turn |-> turn[p] - Len(r) + i - 1]

(* What the other has passed was read or is on its way, in the order in    *)
(* which it was passed.                                                    *)
Sent(p) ==
  /\ \A k \in Key : k \in passed[Other(p)] <=> k \in read[p] \/ In(k, net[p])
  /\ \A k \in read[p], i \in 1 .. Len(net[p]) : Before(k, net[p][i])
  /\ \A i, j \in 1 .. Len(net[p]) : i < j => Before(net[p][i], net[p][j])

Few(p) == Cardinality(passed[p] \ read[p]) <= RingSize

(* The other ring holds what was read, once each,                          *)
Queued(p) == Distinct(peerHash[p]) /\ \A x : In(x, peerHash[p]) => x \in read[p]

(* and, as long as neither peer is far behind, not reached.                *)
Waits(p) == \A x : In(x, peerHash[p]) => x \notin passed[p]

(* What was read of the battle or of a later one has been compared once    *)
(* passed, and waits in the ring before.                                   *)
Caught(p) ==
  \A k \in read[p] :
    k.battle >= Entered(p) =>
      /\ k \in passed[p] => k \in compared[p]
      /\ k \notin passed[p] => In(k, peerHash[p])

ExchangeInv ==
  /\ TypeOK
  /\ \A p \in Peer : Retiring(p) /\ Passing(p) /\ Owned(p) /\ Sent(p) /\ Queued(p)
  /\ ~wide => \A p \in Peer : Few(p) /\ Waits(p) /\ Caught(p)

LEMMA Others ==
  ASSUME NEW p \in Peer
  PROVE  /\ Other(p) \in Peer /\ Other(p) # p /\ Other(Other(p)) = p
         /\ \A q \in Peer : q = p \/ q = Other(p)
BY PeerAssumption DEF Peer, Other

LEMMA Numbers ==
  ASSUME TypeOK, NEW p \in Peer
  PROVE  /\ Entered(p) \in Nat /\ Held(p) \in Nat
         /\ Entered(p) = 0 <=> battles[p].current = NoBattle
         /\ Entered(p) # 0 => Entered(p) = battles[p].current /\ Entered(p) \in Battle
         /\ Held(p) = 0 <=> snapped[p] = NoBattle
         /\ Held(p) # 0 => Held(p) = snapped[p] /\ Held(p) \in Battle
         /\ Entered(p) <= LastBattle /\ Held(p) <= LastBattle
<1>1. LastBattle \in Nat /\ \A b \in Battle : b \in Nat /\ 1 <= b /\ b <= LastBattle
  BY BoundAssumption DEF Battle
<1>2. battles[p].current \in Battle \cup {NoBattle} /\ snapped[p] \in Battle \cup {NoBattle}
  BY DEF TypeOK
<1>3. NoBattle \notin Battle
  BY BoundAssumption
<1> QED
  BY <1>1, <1>2, <1>3 DEF Entered, Held

LEMMA ExchangeTypes ==
  ASSUME TypeOK, NEW p \in Peer
  PROVE  /\ battles[p].retired \in Seq(Battle)
         /\ battles[p] = [current |-> battles[p].current, retired |-> battles[p].retired]
         /\ turn[p] \in Nat /\ turn[p] <= LastTurn + 1 /\ LastTurn \in Nat
         /\ myHash[p] \in Seq(Key) /\ peerHash[p] \in Seq(Key) /\ net[p] \in Seq(Key)
         /\ Len(myHash[p]) <= RingSize /\ Len(peerHash[p]) <= RingSize
         /\ passed[p] \subseteq Key /\ read[p] \subseteq Key /\ compared[p] \subseteq Key
         /\ \A k \in Key : /\ k.battle \in Nat /\ k.turn \in Nat /\ k.battle # 0
                           /\ k = [battle |-> k.battle, turn |-> k.turn]
                           /\ k.battle \in Battle /\ k.turn \in 0 .. LastTurn
<1>1. LastTurn \in Nat /\ \A b \in Battle : b \in Nat /\ b # 0
  BY BoundAssumption DEF Battle
<1>2. /\ battles[p] \in [current: Battle \cup {NoBattle}, retired: Seq(Battle)]
      /\ turn[p] \in 0 .. LastTurn + 1
  BY DEF TypeOK
<1>3. myHash[p] \in Seq(Key) /\ peerHash[p] \in Seq(Key) /\ net[p] \in Seq(Key)
  BY DEF TypeOK
<1>4. /\ Len(myHash[p]) <= RingSize /\ Len(peerHash[p]) <= RingSize
      /\ passed[p] \subseteq Key /\ read[p] \subseteq Key /\ compared[p] \subseteq Key
  BY DEF TypeOK
<1>5. \A k \in Key : /\ k.battle \in Battle /\ k.turn \in 0 .. LastTurn
                     /\ k = [battle |-> k.battle, turn |-> k.turn]
  BY DEF Key
<1>6. turn[p] \in Nat /\ turn[p] <= LastTurn + 1
  BY <1>1, <1>2
<1>7. battles[p].retired \in Seq(Battle)
  BY <1>2
<1>8. battles[p] = [current |-> battles[p].current, retired |-> battles[p].retired]
  BY <1>2
<1> QED
  BY <1>1, <1>3, <1>4, <1>5, <1>6, <1>7, <1>8

(* Dropped as stale: a battle before the peer's, and one of the Slots      *)
(* before it.                                                              *)
LEMMA Stale ==
  ASSUME ExchangeInv, NEW p \in Peer, NEW b \in Battle
  PROVE  IsRetired(battles[p], b) <=> b < Entered(p) /\ Entered(p) - b <= Slots
<1> DEFINE r == battles[p].retired
           e == Entered(p)
           n == Len(r)
<1>1. /\ e \in Nat /\ (e = 0 <=> battles[p].current = NoBattle)
      /\ (e # 0 => e = battles[p].current) /\ b \in Nat /\ b # 0 /\ Slots \in Nat
      /\ NoBattle \notin Battle
  BY Numbers, BoundAssumption, SlotsAssumption DEF ExchangeInv, Battle
<1>2. n \in Nat
  BY ExchangeTypes, LenProperties DEF ExchangeInv
<1>3. /\ n = (IF e = 0 THEN 0 ELSE IF e - 1 < Slots THEN e - 1 ELSE Slots)
      /\ \A i \in 1 .. n : r[i] = e - 1 - n + i
  BY DEF ExchangeInv, Retiring
<1>4. b # NoBattle
  BY <1>1
<1>5. IsRetired(battles[p], b) <=> b # battles[p].current /\ Remembers(r, b)
  BY <1>4 DEF IsRetired, BattleRel
<1>6. Remembers(r, b) <=> \E i \in 1 .. n : r[i] = b
  BY DEF Remembers
<1> HIDE DEF r, e, n
<1>7. ASSUME NEW i \in 1 .. n, r[i] = b PROVE b < e /\ e - b <= Slots
  <2>1. b = e - 1 - n + i /\ i \in Nat /\ 1 <= i /\ i <= n
    BY <1>2, <1>3, <1>7
  <2> QED
    BY <1>1, <1>2, <1>3, <2>1
<1>8. ASSUME b < e, e - b <= Slots PROVE \E i \in 1 .. n : r[i] = b
  <2> DEFINE i == b + n + 1 - e
  <2>1. i \in 1 .. n /\ e - 1 - n + i = b
    BY <1>1, <1>2, <1>3, <1>8
  <2> HIDE DEF i
  <2> QED
    BY <1>3, <2>1
<1>9. b < e => b # battles[p].current
  BY <1>1
<1> QED
  BY <1>5, <1>6, <1>7, <1>8, <1>9 DEF e

(* The next hash to be read has not been read, nor has any after it.       *)
LEMMA NextUnread ==
  ASSUME ExchangeInv, NEW p \in Peer, net[p] # <<>>
  PROVE  /\ Head(net[p]) \in Key /\ Head(net[p]) \in passed[Other(p)]
         /\ Head(net[p]) \notin read[p]
         /\ \A k \in Key : Before(Head(net[p]), k) => k \notin read[p]
<1> DEFINE h == Head(net[p])
<1>1. TypeOK /\ Sent(p)
  BY DEF ExchangeInv
<1>2. /\ net[p] \in Seq(Key)
      /\ \A k \in Key : k.battle \in Nat /\ k.turn \in Nat
      /\ read[p] \subseteq Key
  BY <1>1, ExchangeTypes
<1>3. h \in Key /\ Len(net[p]) \in Nat \ {0} /\ h = net[p][1]
  BY <1>2, HeadTailProperties, EmptySeq
<1>4. In(h, net[p])
  BY <1>3 DEF In
<1>5. \A k \in read[p] : Before(k, h)
  BY <1>1, <1>3 DEF Sent
<1> HIDE DEF h
<1>6. h \in passed[Other(p)]
  BY <1>1, <1>3, <1>4 DEF Sent
<1>7. \A k \in Key : k = h \/ Before(h, k) => ~Before(k, h)
  BY <1>2, <1>3 DEF Before
<1> QED
  BY <1>3, <1>5, <1>6, <1>7 DEF h

(* A hash of a turn passed whose battle is not stale is found among the    *)
(* own ones: were it evicted, or its battle forgotten, more than a ring of *)
(* own turns would be unread.                                              *)
LEMMA PassedIsMet ==
  ASSUME ExchangeInv, ~wide, NEW p \in Peer, net[p] # <<>>,
         Head(net[p]) \in passed[p], ~IsRetired(battles[p], Head(net[p]).battle)
  PROVE  Meets(p, Head(net[p]))
<1> DEFINE h == Head(net[p])
           U == passed[p] \ read[p]
           c == Held(p)
           e == Entered(p)
           n == Len(myHash[p])
           t == turn[p]
<1>1. TypeOK /\ Retiring(p) /\ Passing(p) /\ Owned(p) /\ Few(p)
  BY DEF ExchangeInv
<1>2. /\ h \in Key /\ h \notin read[p]
      /\ \A k \in Key : Before(h, k) => k \notin read[p]
  BY NextUnread
<1>3. /\ h.battle \in Nat /\ h.turn \in Nat /\ h.battle # 0 /\ h.battle \in Battle
      /\ h = [battle |-> h.battle, turn |-> h.turn]
      /\ t \in Nat /\ t <= LastTurn + 1 /\ LastTurn \in Nat
  BY <1>1, <1>2, ExchangeTypes
<1>4. c \in Nat /\ e \in Nat /\ c <= LastBattle /\ LastBattle \in Nat
  BY <1>1, Numbers, BoundAssumption
<1>5. c = e \/ c + 1 = e
  BY <1>1 DEF Retiring
<1>6. /\ h.battle <= c
      /\ \A k \in Key : k.battle = c => (k \in passed[p] <=> k.turn < t)
      /\ \A b \in 1 .. c : [battle |-> b, turn |-> 0] \in passed[p]
  BY <1>1 DEF Passing
<1>7. /\ n = (IF t < RingSize THEN t ELSE RingSize)
      /\ \A i \in 1 .. n : myHash[p][i] = [battle |-> c, turn |-> t - n + i - 1]
  BY <1>1 DEF Owned
<1>8. IsFiniteSet(U) /\ Cardinality(U) <= RingSize /\ Cardinality(U) \in Nat
  <2>1. IsFiniteSet(passed[p])
    BY <1>1 DEF Passing
  <2>2. IsFiniteSet(U)
    BY <2>1, FS_Subset
  <2> QED
    BY <1>1, <2>2, FS_CardinalityType DEF Few
<1>9. RingSize \in Nat /\ RingSize # 0 /\ Slots \in Nat /\ RingSize <= Slots
  BY RingSizeAssumption, SlotsAssumption, RingsAssumption
<1>10. \A b, u : b \in 1 .. LastBattle /\ u \in 0 .. LastTurn => [battle |-> b, turn |-> u] \in Key
  BY DEF Key, Battle
<1>11. h.battle < e => e - h.battle > Slots
  BY <1>3, <1>4, <1>9, Stale
<1>12. ASSUME NEW f \in [1 .. RingSize + 1 -> Key],
              \A i, j \in 1 .. RingSize + 1 : f[i] = f[j] => i = j,
              \A i \in 1 .. RingSize + 1 : f[i] \in U
       PROVE  FALSE
  <2>1. f \in Seq(Key) /\ Len(f) = RingSize + 1
    <3>1. RingSize + 1 \in Nat
      BY <1>9
    <3> QED
      BY <3>1, IsASeq
  <2> HIDE DEF U
  <2>2. RingSize + 1 <= Cardinality(U)
    BY <1>8, <1>12, <2>1, RingCount
  <2> QED
    BY <1>8, <1>9, <2>2
<1>13. h \in U
  BY <1>2
<1>14. h.turn < t \/ h.battle # c
  BY <1>2, <1>6
<1> HIDE DEF h, c, e, n, t, U
<1>15. CASE h.battle = c
  <2> SUFFICES ASSUME ~(\E i \in 1 .. n : myHash[p][i] = h) PROVE FALSE
    <3>1. \A i \in 1 .. n : myHash[p][i] = h => i \in Matches(myHash[p], h.battle, h.turn)
      BY DEF Matches, HasKey, n
    <3> QED
      BY <3>1 DEF Meets, Holds, h
  <2>1. h.turn < t - n
    <3> SUFFICES ASSUME h.turn >= t - n PROVE FALSE
      BY <1>3, <1>7, <1>9
    <3> DEFINE i == h.turn + 1 - (t - n)
    <3>1. n \in Nat /\ h.turn < t
      BY <1>3, <1>7, <1>9, <1>14, <1>15
    <3>2. i \in 1 .. n /\ t - n + i - 1 = h.turn
      BY <1>3, <3>1
    <3> HIDE DEF i
    <3> QED
      BY <1>3, <1>7, <1>15, <3>2
  <2>2. n = RingSize /\ t - RingSize - 1 >= h.turn
    BY <1>3, <1>7, <1>9, <2>1
  <2> DEFINE f == [i \in 1 .. RingSize + 1 |-> [battle |-> c, turn |-> t - RingSize - 2 + i]]
  <2>3. ASSUME NEW i \in 1 .. RingSize + 1
        PROVE  /\ f[i] \in Key /\ f[i] \in passed[p] /\ f[i].battle = c
               /\ f[i].turn = t - RingSize - 2 + i
               /\ f[i] = h \/ Before(h, f[i])
    <3> DEFINE u == t - RingSize - 2 + i
    <3>1. u \in 0 .. LastTurn /\ u < t /\ u >= h.turn
      BY <1>3, <1>9, <2>2
    <3>2. f[i] = [battle |-> c, turn |-> u]
      OBVIOUS
    <3>3. c \in 1 .. LastBattle
      BY <1>3, <1>4, <1>15
    <3> HIDE DEF f, u
    <3>4. f[i] \in Key /\ f[i].battle = c /\ f[i].turn = u
      BY <1>10, <3>1, <3>2, <3>3
    <3>5. f[i] \in passed[p]
      BY <1>6, <3>1, <3>4
    <3>6. f[i] = h \/ Before(h, f[i])
      BY <1>3, <1>15, <3>1, <3>2, <3>4 DEF Before
    <3> QED
      BY <3>4, <3>5, <3>6 DEF u
  <2>4. f \in [1 .. RingSize + 1 -> Key]
    BY <2>3
  <2>5. \A i, j \in 1 .. RingSize + 1 : f[i] = f[j] => i = j
    <3> SUFFICES ASSUME NEW i \in 1 .. RingSize + 1, NEW j \in 1 .. RingSize + 1, f[i] = f[j]
                 PROVE  i = j
      OBVIOUS
    <3>1. t - RingSize - 2 + i = t - RingSize - 2 + j
      BY <2>3
    <3> QED
      BY <3>1, <1>3, <1>9
  <2> HIDE DEF f
  <2>6. \A i \in 1 .. RingSize + 1 : f[i] \in U
    BY <1>2, <2>3, <1>13 DEF U
  <2> QED
    BY <1>12, <2>4, <2>5, <2>6
<1>16. CASE h.battle # c
  <2>1. h.battle < c /\ h.battle + RingSize <= c
    BY <1>3, <1>4, <1>5, <1>6, <1>9, <1>11, <1>16
  <2> DEFINE f == [i \in 1 .. RingSize + 1 |->
                     IF i = 1 THEN h ELSE [battle |-> h.battle + i - 1, turn |-> 0]]
  <2>2. ASSUME NEW i \in 1 .. RingSize + 1
        PROVE  /\ f[i] \in Key /\ f[i] \in passed[p] /\ f[i].battle = h.battle + i - 1
               /\ f[i] = h \/ Before(h, f[i])
    <3>1. CASE i = 1
      <4>1. f[i] = h /\ h.battle = h.battle + i - 1
        BY <3>1, <1>3
      <4> HIDE DEF f
      <4> QED
        BY <4>1, <1>2, <1>13 DEF U
    <3>2. CASE i # 1
      <4> DEFINE b == h.battle + i - 1
      <4>1. b \in 1 .. c /\ b \in 1 .. LastBattle /\ 0 \in 0 .. LastTurn /\ b > h.battle
        BY <1>3, <1>4, <1>9, <2>1, <3>2
      <4>2. f[i] = [battle |-> b, turn |-> 0]
        BY <3>2
      <4> HIDE DEF f, b
      <4>3. f[i] \in Key /\ f[i].battle = b
        BY <1>10, <4>1, <4>2
      <4>4. f[i] \in passed[p] /\ Before(h, f[i])
        BY <1>6, <1>3, <4>1, <4>2, <4>3 DEF Before
      <4> QED
        BY <4>3, <4>4 DEF b
    <3> QED
      BY <3>1, <3>2
  <2>3. f \in [1 .. RingSize + 1 -> Key]
    BY <2>2
  <2>4. \A i, j \in 1 .. RingSize + 1 : f[i] = f[j] => i = j
    <3> SUFFICES ASSUME NEW i \in 1 .. RingSize + 1, NEW j \in 1 .. RingSize + 1, f[i] = f[j]
                 PROVE  i = j
      OBVIOUS
    <3>1. h.battle + i - 1 = h.battle + j - 1
      BY <2>2
    <3> QED
      BY <3>1, <1>3, <1>9
  <2> HIDE DEF f
  <2>5. \A i \in 1 .. RingSize + 1 : f[i] \in U
    BY <1>2, <2>2, <1>13 DEF U
  <2> QED
    BY <1>12, <2>3, <2>4, <2>5
<1> QED
  BY <1>15, <1>16

(* A hash is in the other ring once it is read.                            *)
LEMMA NotQueued ==
  ASSUME ExchangeInv, NEW p \in Peer, net[p] # <<>>
  PROVE  ~Holds(peerHash[p], Head(net[p]).battle, Head(net[p]).turn)
<1> DEFINE h == Head(net[p])
           r == peerHash[p]
<1>1. TypeOK /\ Queued(p)
  BY DEF ExchangeInv
<1>2. /\ read[p] \subseteq Key /\ \A k \in Key : k = [battle |-> k.battle, turn |-> k.turn]
      /\ h \in Key /\ h \notin read[p]
  BY <1>1, ExchangeTypes, NextUnread
<1> SUFFICES ASSUME NEW x, In(x, r), HasKey(x, h.battle, h.turn) PROVE FALSE
  BY HoldsIn
<1>3. x \in read[p] /\ x.battle = h.battle /\ x.turn = h.turn
  BY <1>1 DEF Queued, HasKey
<1> HIDE DEF h
<1> QED
  BY <1>2, <1>3

(* A hash of a turn not reached finds room: a full ring and the newcomer   *)
(* would be more than a ring of the other's turns this peer has not sent   *)
(* its own for.                                                            *)
LEMMA RoomInRing ==
  ASSUME ExchangeInv, ~wide, NEW p \in Peer, net[p] # <<>>, Head(net[p]) \notin passed[p]
  PROVE  Len(peerHash[p]) < RingSize
<1> DEFINE h == Head(net[p])
           r == peerHash[p]
           q == Other(p)
           U == passed[q] \ read[q]
<1>1. q \in Peer /\ Other(q) = p
  BY Others
<1>2. TypeOK /\ Sent(p) /\ Sent(q) /\ Passing(q) /\ Few(q) /\ Queued(p) /\ Waits(p)
  BY <1>1 DEF ExchangeInv
<1>3. h \in Key /\ h \in passed[q] /\ h \notin read[p]
  BY NextUnread
<1>4. /\ r \in Seq(Key) /\ Len(r) <= RingSize /\ read[q] \subseteq Key /\ read[p] \subseteq Key
      /\ \A k \in Key : k = [battle |-> k.battle, turn |-> k.turn]
  BY <1>1, <1>2, ExchangeTypes
<1>5. Distinct(r) /\ \A x : In(x, r) => x \in read[p] /\ x \notin passed[p]
  BY <1>2 DEF Queued, Waits
<1>6. \A k \in Key : (k \in read[p] => k \in passed[q]) /\ (k \in read[q] => k \in passed[p])
  BY <1>1, <1>2 DEF Sent
<1>7. IsFiniteSet(U) /\ Cardinality(U) <= RingSize /\ Cardinality(U) \in Nat
  <2>1. IsFiniteSet(passed[q])
    BY <1>2 DEF Passing
  <2>2. IsFiniteSet(U)
    BY <2>1, FS_Subset
  <2> QED
    BY <1>2, <2>2, FS_CardinalityType DEF Few
<1>8. Len(r) \in Nat /\ RingSize \in Nat
  BY <1>4, LenProperties, RingSizeAssumption
<1>9. ~Holds(r, h.battle, h.turn)
  BY NotQueued
<1> HIDE DEF h, r, q
<1>10. ASSUME Len(r) = RingSize PROVE FALSE
  <2> DEFINE u == Append(r, h)
  <2>1. /\ u \in Seq(Key) /\ Len(u) = Len(r) + 1 /\ Distinct(u)
        /\ \A x : In(x, u) <=> In(x, r) \/ x = h
    BY <1>3, <1>4, <1>5, <1>9, PushedRing
  <2>2. h \notin passed[p]
    BY DEF h
  <2> HIDE DEF u
  <2>3. \A i, j \in 1 .. Len(u) : u[i] = u[j] => i = j
    BY <2>1 DEF Distinct
  <2>4. \A i \in 1 .. Len(u) : u[i] \in U
    <3> TAKE i \in 1 .. Len(u)
    <3>1. In(u[i], u)
      BY DEF In
    <3>2. CASE u[i] = h
      BY <3>2, <1>3, <1>6, <2>2
    <3>3. CASE In(u[i], r)
      BY <3>3, <1>4, <1>5, <1>6
    <3> QED
      BY <2>1, <3>1, <3>2, <3>3
  <2> HIDE DEF U
  <2>5. Len(u) <= Cardinality(U)
    BY <1>7, <2>1, <2>3, <2>4, RingCount
  <2> QED
    BY <1>7, <1>8, <1>10, <2>1, <2>5
<1> QED
  BY <1>4, <1>8, <1>10 DEF r

LEMMA ExchangeInvInit == Init => ExchangeInv
<1> SUFFICES ASSUME Init PROVE ExchangeInv
  OBVIOUS
<1>1. LastTurn \in Nat /\ RingSize \in Nat
  BY BoundAssumption, RingSizeAssumption
<1>2. \A S : <<>> \in Seq(S) /\ Len(<<>>) = 0
  BY EmptySeq
<1>3. TypeOK
  <2>1. battles \in [Peer -> [current: Battle \cup {NoBattle}, retired: Seq(Battle)]]
    BY <1>2 DEF Init, NewTracker
  <2>2. snapped \in [Peer -> Battle \cup {NoBattle}] /\ turn \in [Peer -> 0 .. LastTurn + 1]
    BY <1>1 DEF Init
  <2>3. \A p \in Peer : myHash[p] = <<>> /\ peerHash[p] = <<>> /\ net[p] = <<>>
    BY DEF Init
  <2>4. \A p \in Peer : Len(myHash[p]) <= RingSize /\ Len(peerHash[p]) <= RingSize
    <3>1. ASSUME NEW r, r = <<>> PROVE Len(r) <= RingSize
      BY <1>1, <1>2, <3>1
    <3> QED
      BY <2>3, <3>1, Zenon
  <2>5. /\ passed \in [Peer -> SUBSET Key] /\ compared \in [Peer -> SUBSET Key]
        /\ read \in [Peer -> SUBSET Key] /\ wide \in BOOLEAN
    BY DEF Init
  <2>6. {myHash, peerHash, net} \subseteq [Peer -> Seq(Key)]
    BY <1>2 DEF Init
  <2> QED
    BY <2>1, <2>2, <2>4, <2>5, <2>6 DEF TypeOK
<1> SUFFICES ASSUME NEW p \in Peer
             PROVE  Retiring(p) /\ Passing(p) /\ Owned(p) /\ Sent(p) /\ Queued(p) /\ Few(p) /\ Waits(p)
                    /\ Caught(p)
  BY <1>3 DEF ExchangeInv
<1>4. /\ battles[p] = NewTracker /\ snapped[p] = NoBattle /\ turn[p] = 0
      /\ myHash[p] = <<>> /\ peerHash[p] = <<>> /\ net[p] = <<>>
      /\ passed[p] = {} /\ read[p] = {} /\ passed[Other(p)] = {}
  BY Others DEF Init
<1>5. Held(p) = 0 /\ Entered(p) = 0 /\ battles[p].retired = <<>>
  BY <1>4 DEF Held, Entered, NewTracker
<1>6. \A x : ~In(x, <<>>)
  BY EmptySeq DEF In
<1>7. Retiring(p)
  BY <1>2, <1>5 DEF Retiring
<1>8. Passing(p)
  <2>1. \A k \in Key : k.turn \in Nat /\ k.battle # 0
    BY <1>3, ExchangeTypes
  <2> QED
    BY <1>4, <1>5, <2>1, FS_EmptySet DEF Passing
<1>9. Owned(p)
  BY <1>1, <1>2, <1>4, RingSizeAssumption DEF Owned
<1>10. Sent(p)
  BY <1>2, <1>4, <1>6 DEF Sent
<1>11. Few(p)
  <2>1. passed[p] \ read[p] = {} /\ Cardinality({}) = 0
    BY <1>4, FS_EmptySet
  <2> QED
    BY <1>1, <2>1 DEF Few
<1>12. Queued(p) /\ Waits(p) /\ Caught(p)
  BY <1>2, <1>4, <1>6 DEF Queued, Waits, Caught, Distinct
<1> QED
  BY <1>7, <1>8, <1>9, <1>10, <1>11, <1>12

(* The ring of the battles left, after one more.                           *)
LEMMA PushedRetired ==
  ASSUME NEW r \in Seq(Battle), NEW e \in Battle,
         Len(r) = IF e - 1 < Slots THEN e - 1 ELSE Slots,
         \A i \in 1 .. Len(r) : r[i] = e - 1 - Len(r) + i
  PROVE  /\ PushRetired(r, e) \in Seq(Battle)
         /\ Len(PushRetired(r, e)) = IF e < Slots THEN e ELSE Slots
         /\ \A i \in 1 .. Len(PushRetired(r, e)) :
              PushRetired(r, e)[i] = e - Len(PushRetired(r, e)) + i
<1> DEFINE n == Len(r)
<1>1. e \in Nat /\ e # 0 /\ Slots \in Nat /\ Slots # 0 /\ n \in Nat
  BY BoundAssumption, SlotsAssumption, LenProperties DEF Battle
<1>2. /\ n = (IF e - 1 < Slots THEN e - 1 ELSE Slots)
      /\ \A i \in 1 .. n : r[i] = e - 1 - n + i
  OBVIOUS
<1> HIDE DEF n
<1>3. ~Remembers(r, e)
  <2> SUFFICES ASSUME NEW i \in 1 .. n, r[i] = e PROVE FALSE
    BY DEF Remembers, n
  <2>1. e = e - 1 - n + i
    BY <1>2
  <2> QED
    BY <1>1, <2>1
<1>4. CASE n < Slots
  <2> DEFINE u == Append(r, e)
  <2>1. PushRetired(r, e) = u
    BY <1>3, <1>4 DEF PushRetired, n
  <2>2. /\ u \in Seq(Battle) /\ Len(u) = n + 1 /\ u[n + 1] = e
        /\ \A i \in 1 .. n : u[i] = r[i]
    BY AppendProperties DEF n
  <2> HIDE DEF u
  <2>3. n + 1 = (IF e < Slots THEN e ELSE Slots)
    BY <1>1, <1>2, <1>4
  <2>4. ASSUME NEW i \in 1 .. n + 1 PROVE u[i] = e - (n + 1) + i
    <3>1. CASE i = n + 1
      BY <1>1, <2>2, <3>1
    <3>2. CASE i # n + 1
      <4>1. i \in 1 .. n /\ e - 1 - n + i = e - (n + 1) + i
        BY <1>1, <3>2
      <4> QED
        BY <1>2, <2>2, <4>1
    <3> QED
      BY <3>1, <3>2
  <2> QED
    BY <2>1, <2>2, <2>3, <2>4
<1>5. CASE ~(n < Slots)
  <2> DEFINE v == Tail(r)
             u == Append(v, e)
  <2>1. PushRetired(r, e) = u
    BY <1>3, <1>5 DEF PushRetired, n
  <2>2. n = Slots /\ e - 1 >= Slots
    BY <1>1, <1>2, <1>5
  <2>3. r # <<>>
    BY <1>1, <2>2, EmptySeq DEF n
  <2>4. /\ v \in Seq(Battle) /\ Len(v) = n - 1
        /\ \A i \in 1 .. n - 1 : v[i] = r[i + 1]
    BY <2>3, HeadTailProperties DEF n
  <2> HIDE DEF v
  <2>5. /\ u \in Seq(Battle) /\ Len(u) = Len(v) + 1 /\ u[Len(v) + 1] = e
        /\ \A i \in 1 .. Len(v) : u[i] = v[i]
    BY <2>4, AppendProperties
  <2> HIDE DEF u
  <2>6. Len(u) = n /\ u[n] = e /\ \A i \in 1 .. n - 1 : u[i] = v[i]
    BY <1>1, <2>4, <2>5
  <2>7. ASSUME NEW i \in 1 .. n PROVE u[i] = e - n + i
    <3>1. CASE i = n
      BY <1>1, <2>6, <3>1
    <3>2. CASE i # n
      <4>1. i \in 1 .. n - 1 /\ i + 1 \in 1 .. n /\ e - 1 - n + (i + 1) = e - n + i
        BY <1>1, <3>2
      <4> QED
        BY <1>2, <2>4, <2>6, <4>1
    <3> QED
      BY <3>1, <3>2
  <2>8. n = (IF e < Slots THEN e ELSE Slots)
    BY <1>1, <2>2
  <2> QED
    BY <2>1, <2>5, <2>6, <2>7, <2>8
<1> QED
  BY <1>4, <1>5

LEMMA EnterBattles ==
  ASSUME ExchangeInv, NEW p \in Peer, Enter(p)
  PROVE  TypeOK' /\ Retiring(p)' /\ Entered(p)' = Entered(p) + 1
<1> DEFINE e == Entered(p)
           r == battles[p].retired
           c == battles[p].current
           b == battles'[p]
<1>1. TypeOK /\ Retiring(p) /\ Leader \in Peer
  BY DEF ExchangeInv, Peer
<1>2. /\ e \in Nat /\ (e = 0 <=> c = NoBattle) /\ (e # 0 => e = c /\ e \in Battle)
      /\ e <= LastBattle /\ Entered(Leader) \in Nat /\ Entered(Leader) <= LastBattle
      /\ LastBattle \in Nat
  BY <1>1, Numbers, BoundAssumption
<1>3. Held(p) = e
  BY <1>1 DEF Enter, Held, Entered
<1>4. e + 1 \in Battle /\ e + 1 # NoBattle /\ e + 1 # 0
  <2>1. e < LastBattle
    BY <1>2 DEF Enter
  <2>2. e + 1 \in Battle
    BY <1>2, <2>1 DEF Battle
  <2> QED
    BY <1>2, <2>2, BoundAssumption
<1>5. battles' = [battles EXCEPT ![p] = EnterBattle(battles[p], e + 1)]
  BY DEF Enter
<1>6. r \in Seq(Battle)
  BY <1>1, ExchangeTypes
<1>7. /\ Len(r) = IF e = 0 THEN 0 ELSE IF e - 1 < Slots THEN e - 1 ELSE Slots
      /\ \A i \in 1 .. Len(r) : r[i] = e - 1 - Len(r) + i
  BY <1>1 DEF Retiring
<1>8. Slots \in Nat /\ Slots # 0
  BY SlotsAssumption
<1>9. b = EnterBattle(battles[p], e + 1)
  BY <1>1, <1>5 DEF TypeOK
<1>10. e + 1 # c
  BY <1>2, <1>4
<1>11. b = [current |-> e + 1, retired |-> IF c = NoBattle THEN r ELSE PushRetired(r, c)]
  BY <1>9, <1>10 DEF EnterBattle
<1> DEFINE s == IF c = NoBattle THEN r ELSE PushRetired(r, c)
<1> HIDE DEF e, c, r, b
<1>12. /\ s \in Seq(Battle) /\ Len(s) = (IF e < Slots THEN e ELSE Slots)
       /\ \A i \in 1 .. Len(s) : s[i] = e - Len(s) + i
  <2>1. CASE c = NoBattle
    <3>1. s = r /\ e = 0 /\ Len(r) = 0
      BY <1>2, <1>7, <2>1
    <3> HIDE DEF s
    <3> QED
      BY <1>6, <1>8, <3>1
  <2>2. CASE c # NoBattle
    <3>1. s = PushRetired(r, e) /\ e \in Battle /\ e # 0
      BY <1>2, <2>2
    <3>2. Len(r) = IF e - 1 < Slots THEN e - 1 ELSE Slots
      BY <1>7, <3>1
    <3> HIDE DEF s
    <3> QED
      BY <1>6, <1>7, <3>1, <3>2, PushedRetired
  <2> QED
    BY <2>1, <2>2
<1>13. b = [current |-> e + 1, retired |-> s]
  BY <1>11
<1> HIDE DEF s
<1>14. b.current = e + 1 /\ b.retired = s
  BY <1>13
<1>15. Entered(p)' = e + 1
  BY <1>4, <1>14 DEF Entered, b
<1>16. TypeOK'
  <2>1. b \in [current: Battle \cup {NoBattle}, retired: Seq(Battle)]
    BY <1>4, <1>12, <1>13
  <2>2. battles' \in [Peer -> [current: Battle \cup {NoBattle}, retired: Seq(Battle)]]
    BY <1>1, <1>5, <1>9, <2>1 DEF TypeOK, b, e
  <2> QED
    BY <1>1, <2>2 DEF TypeOK, Enter, historyVars
<1>17. Held(p)' = e
  BY <1>3 DEF Enter, Held
<1>18. Retiring(p)'
  <2> DEFINE f == e + 1
  <2>1. f - 1 = e /\ f # 0 /\ (e = f \/ e + 1 = f)
    BY <1>2
  <2>2. Entered(p)' = f /\ battles'[p].retired = s
    BY <1>14, <1>15 DEF b
  <2> HIDE DEF f
  <2> QED
    BY <1>12, <1>17, <2>1, <2>2 DEF Retiring
<1> QED
  BY <1>15, <1>16, <1>18 DEF e

LEMMA ExchangeInvEnter ==
  ASSUME ExchangeInv, NEW p \in Peer, Enter(p)
  PROVE  ExchangeInv'
<1>1. TypeOK' /\ Retiring(p)' /\ Entered(p)' = Entered(p) + 1
  BY EnterBattles
<1>2. TypeOK /\ UNCHANGED <<snapped, turn, myHash, peerHash, net, passed, read, compared, wide>>
  BY DEF ExchangeInv, Enter, historyVars
<1>3. \A q \in Peer : q # p => battles'[q] = battles[q]
  BY <1>2 DEF Enter, TypeOK
<1> SUFFICES ASSUME NEW q \in Peer
             PROVE  /\ Retiring(q)' /\ Passing(q)' /\ Owned(q)' /\ Sent(q)' /\ Queued(q)'
                    /\ (~wide)' => Few(q)' /\ Waits(q)' /\ Caught(q)'
  BY <1>1 DEF ExchangeInv
<1>4. Held(q)' = Held(q)
  BY <1>2 DEF Held
<1>5. q # p => Entered(q)' = Entered(q)
  BY <1>3 DEF Entered
<1>6. Retiring(q)'
  <2>1. q # p => Retiring(q) /\ battles'[q] = battles[q]
    BY <1>3 DEF ExchangeInv
  <2> QED
    BY <1>1, <1>4, <1>5, <2>1 DEF Retiring
<1>7. Passing(q)' /\ Owned(q)' /\ Sent(q)' /\ Queued(q)'
  <2>1. Passing(q) /\ Owned(q) /\ Sent(q) /\ Queued(q)
    BY DEF ExchangeInv
  <2> QED
    BY <1>2, <1>4, <2>1 DEF Passing, Owned, Sent, Queued
<1>8. ASSUME ~wide PROVE Few(q)' /\ Waits(q)' /\ Caught(q)'
  <2>1. Few(q) /\ Waits(q) /\ Caught(q)
    BY <1>8 DEF ExchangeInv
  <2>2. Few(q)' /\ Waits(q)'
    BY <1>2, <2>1 DEF Few, Waits
  <2>3. Entered(q) \in Nat /\ Entered(q)' \in {Entered(q), Entered(q) + 1}
    BY <1>1, <1>2, <1>5, Numbers
  <2>4. \A k \in read[q] : k.battle >= Entered(q)' => k.battle >= Entered(q)
    <3>1. \A k \in read[q] : k.battle \in Nat
      BY <1>2, ExchangeTypes
    <3>2. Entered(q) \in Nat
      BY <1>2, Numbers
    <3> QED
      BY <2>3, <3>1, <3>2
  <2>5. Caught(q)'
    BY <1>2, <2>1, <2>4 DEF Caught
  <2> QED
    BY <2>2, <2>5
<1> QED
  BY <1>2, <1>6, <1>7, <1>8

(* The ring of own hashes, after one more.                                 *)
LEMMA PushedOwn ==
  ASSUME NEW r \in Seq(Key), NEW b, NEW t \in Nat, [battle |-> b, turn |-> t] \in Key,
         Len(r) = IF t < RingSize THEN t ELSE RingSize,
         \A i \in 1 .. Len(r) : r[i] = [battle |-> b, turn |-> t - Len(r) + i - 1],
         NEW u, u = PushEvicting(r, [battle |-> b, turn |-> t])
  PROVE  /\ u \in Seq(Key) /\ Len(u) <= RingSize
         /\ Len(u) = IF t + 1 < RingSize THEN t + 1 ELSE RingSize
         /\ \A i \in 1 .. Len(u) : u[i] = [battle |-> b, turn |-> (t + 1) - Len(u) + i - 1]
<1> DEFINE n == Len(r)
           h == [battle |-> b, turn |-> t]
<1>1. n \in Nat /\ RingSize \in Nat /\ RingSize # 0 /\ h \in Key
  BY RingSizeAssumption, LenProperties
<1>2. /\ n = (IF t < RingSize THEN t ELSE RingSize)
      /\ \A i \in 1 .. n : r[i] = [battle |-> b, turn |-> t - n + i - 1]
  OBVIOUS
<1>3. u = Append(IF n = RingSize THEN Tail(r) ELSE r, h)
  BY DEF PushEvicting
<1> HIDE DEF n, h
<1>4. CASE n # RingSize
  <2>1. u = Append(r, h) /\ n = t /\ t < RingSize
    BY <1>1, <1>2, <1>3, <1>4
  <2> DEFINE w == Append(r, h)
  <2>2. /\ w \in Seq(Key) /\ Len(w) = n + 1 /\ w[n + 1] = h
        /\ \A i \in 1 .. n : w[i] = r[i]
    BY <1>1, AppendProperties DEF n
  <2>3. w = u
    BY <2>1
  <2> HIDE DEF w
  <2>4. ASSUME NEW i \in 1 .. n + 1 PROVE u[i] = [battle |-> b, turn |-> (t + 1) - (n + 1) + i - 1]
    <3>1. CASE i = n + 1
      <4>1. (t + 1) - (n + 1) + i - 1 = t
        BY <1>1, <2>1, <3>1
      <4> QED
        BY <2>2, <2>3, <3>1, <4>1 DEF h
    <3>2. CASE i # n + 1
      <4>1. i \in 1 .. n /\ (t + 1) - (n + 1) + i - 1 = t - n + i - 1
        BY <1>1, <2>1, <3>2
      <4> QED
        BY <1>2, <2>2, <2>3, <4>1
    <3> QED
      BY <3>1, <3>2
  <2>5. n + 1 <= RingSize /\ n + 1 = (IF t + 1 < RingSize THEN t + 1 ELSE RingSize)
    BY <1>1, <2>1
  <2> QED
    BY <2>2, <2>4, <2>5, <2>3
<1>5. CASE n = RingSize
  <2> DEFINE v == Tail(r)
  <2>1. u = Append(v, h) /\ t >= RingSize
    BY <1>1, <1>2, <1>3, <1>5
  <2>2. r # <<>>
    BY <1>1, <1>5, EmptySeq DEF n
  <2>3. /\ v \in Seq(Key) /\ Len(v) = n - 1
        /\ \A i \in 1 .. n - 1 : v[i] = r[i + 1]
    BY <2>2, HeadTailProperties DEF n
  <2> HIDE DEF v
  <2> DEFINE w == Append(v, h)
  <2>4. /\ w \in Seq(Key) /\ Len(w) = Len(v) + 1 /\ w[Len(v) + 1] = h
        /\ \A i \in 1 .. Len(v) : w[i] = v[i]
    BY <1>1, <2>3, AppendProperties
  <2>5. u = w
    BY <2>1
  <2> HIDE DEF w
  <2>6. /\ u \in Seq(Key) /\ Len(u) = Len(v) + 1 /\ u[Len(v) + 1] = h
        /\ \A i \in 1 .. Len(v) : u[i] = v[i]
    BY <2>4, <2>5
  <2>7. Len(u) = n /\ u[n] = h /\ \A i \in 1 .. n - 1 : u[i] = v[i]
    BY <1>1, <2>3, <2>6
  <2>8. ASSUME NEW i \in 1 .. n PROVE u[i] = [battle |-> b, turn |-> (t + 1) - n + i - 1]
    <3>1. CASE i = n
      <4>1. (t + 1) - n + i - 1 = t
        BY <1>1, <3>1
      <4> QED
        BY <2>7, <3>1, <4>1 DEF h
    <3>2. CASE i # n
      <4>1. i \in 1 .. n - 1 /\ i + 1 \in 1 .. n /\ t - n + (i + 1) - 1 = (t + 1) - n + i - 1
        BY <1>1, <3>2
      <4> QED
        BY <1>2, <2>3, <2>7, <4>1
    <3> QED
      BY <3>1, <3>2
  <2>9. n <= RingSize /\ n = (IF t + 1 < RingSize THEN t + 1 ELSE RingSize)
    BY <1>1, <1>5, <2>1
  <2> QED
    BY <2>6, <2>7, <2>8, <2>9
<1> QED
  BY <1>4, <1>5

(* A boundary: whether it is the first of its battle, its turn, its hash,  *)
(* and the two rings as it finds them.                                     *)
Fresh(p) == snapped[p] \notin {NoBattle, battles[p].current}
TurnOf(p) == IF Fresh(p) THEN 0 ELSE turn[p]
HashNow(p) == [battle |-> battles[p].current, turn |-> TurnOf(p)]
OwnNow(p) == IF Fresh(p) THEN <<>> ELSE myHash[p]
PeerNow(p) ==
  IF Fresh(p) THEN PurgeRetired(peerHash[p], {id \in Battle : IsRetired(battles[p], id)})
  ELSE peerHash[p]

LEMMA BoundarySteps ==
  ASSUME TypeOK, NEW p \in Peer, TurnBoundary(p)
  PROVE  /\ battles[p].current # NoBattle /\ TurnOf(p) <= LastTurn
         /\ snapped' = [snapped EXCEPT ![p] = battles[p].current]
         /\ turn' = [turn EXCEPT ![p] = TurnOf(p) + 1]
         /\ myHash' = [myHash EXCEPT ![p] = PushEvicting(OwnNow(p), HashNow(p))]
         /\ peerHash' = [peerHash EXCEPT ![p] = Taken(PeerNow(p), battles[p].current, TurnOf(p))]
         /\ net' = [net EXCEPT ![Other(p)] = Append(net[Other(p)], HashNow(p))]
         /\ passed' = [passed EXCEPT ![p] = passed[p] \cup {HashNow(p)}]
         /\ compared' = [compared EXCEPT ![p] =
                           IF Holds(PeerNow(p), battles[p].current, TurnOf(p))
                           THEN compared[p] \cup {HashNow(p)} ELSE compared[p]]
         /\ wide' = (wide \/ Cardinality(passed'[p] \ read[p]) > RingSize)
         /\ battles' = battles /\ read' = read
BY Zenon DEF TurnBoundary, Fresh, TurnOf, HashNow, OwnNow, PeerNow

(* Where it stands: at the turn after the last, or at the first of the     *)
(* next battle.                                                            *)
LEMMA BoundaryAt ==
  ASSUME ExchangeInv, NEW p \in Peer, TurnBoundary(p)
  PROVE  /\ HashNow(p) \in Key /\ HashNow(p).battle = Entered(p)
         /\ HashNow(p).turn = TurnOf(p) /\ TurnOf(p) \in Nat /\ Entered(p) # 0
         /\ Entered(p) = battles[p].current
         /\ \/ Held(p) = Entered(p) /\ ~Fresh(p) /\ TurnOf(p) = turn[p]
            \/ Held(p) + 1 = Entered(p) /\ TurnOf(p) = 0 /\ OwnNow(p) = <<>>
         /\ \A k \in passed[p] : Before(k, HashNow(p))
         /\ HashNow(p) \notin passed[p]
<1> DEFINE h == HashNow(p)
           e == Entered(p)
           c == Held(p)
           t == TurnOf(p)
<1>1. TypeOK /\ Retiring(p) /\ Passing(p) /\ Owned(p)
  BY DEF ExchangeInv
<1>2. battles[p].current # NoBattle /\ t <= LastTurn
  BY <1>1, BoundarySteps
<1>3. /\ e \in Nat /\ c \in Nat /\ e # 0 /\ e = battles[p].current /\ e \in Battle
      /\ (c = 0 <=> snapped[p] = NoBattle) /\ (c # 0 => c = snapped[p])
  BY <1>1, <1>2, Numbers
<1>4. /\ turn[p] \in Nat /\ LastTurn \in Nat /\ passed[p] \subseteq Key /\ myHash[p] \in Seq(Key)
      /\ \A k \in Key : k.battle \in Nat /\ k.turn \in Nat
  BY <1>1, ExchangeTypes
<1>5. t \in Nat /\ t = IF Fresh(p) THEN 0 ELSE turn[p]
  BY <1>4 DEF TurnOf
<1>6. h = [battle |-> e, turn |-> t]
  BY <1>3 DEF HashNow
<1>7. h \in Key /\ h.battle = e /\ h.turn = t
  BY <1>2, <1>3, <1>4, <1>5, <1>6 DEF Key
<1>8. c = e \/ c + 1 = e
  BY <1>1 DEF Retiring
<1>9. Fresh(p) <=> snapped[p] # NoBattle /\ snapped[p] # e
  BY <1>3 DEF Fresh
<1>10. \/ c = e /\ ~Fresh(p) /\ t = turn[p]
       \/ c + 1 = e /\ t = 0 /\ OwnNow(p) = <<>>
  <2>1. CASE c = e
    BY <1>3, <1>5, <1>9, <2>1
  <2>2. CASE c + 1 = e /\ c # 0
    <3>1. Fresh(p)
      BY <1>3, <1>9, <2>2
    <3> QED
      BY <1>5, <2>2, <3>1 DEF OwnNow
  <2>3. CASE c + 1 = e /\ c = 0
    <3>1. ~Fresh(p) /\ turn[p] = 0
      BY <1>1, <1>3, <1>9, <2>3 DEF Passing
    <3>2. Len(myHash[p]) = 0
      <4>1. Len(myHash[p]) = IF turn[p] < RingSize THEN turn[p] ELSE RingSize
        BY <1>1 DEF Owned
      <4> QED
        BY <3>1, <4>1, RingSizeAssumption
    <3>3. myHash[p] = <<>>
      BY <1>4, <3>2, EmptySeq
    <3> QED
      BY <1>5, <2>3, <3>1, <3>3 DEF OwnNow
  <2> QED
    BY <1>8, <2>1, <2>2, <2>3
<1>11. ASSUME NEW k \in passed[p] PROVE Before(k, h) /\ k # h
  <2>1. k \in Key /\ k.battle <= c /\ (k.battle = c => k.turn < turn[p])
    BY <1>1, <1>4 DEF Passing
  <2>2. k.battle \in Nat /\ k.turn \in Nat
    BY <1>4, <2>1
  <2> HIDE DEF c, e, t, h
  <2>3. \/ k.battle < e
        \/ k.battle = e /\ k.turn < t
    BY <1>3, <1>10, <2>1, <2>2
  <2> QED
    BY <1>3, <1>5, <1>7, <2>2, <2>3 DEF Before
<1> QED
  BY <1>3, <1>5, <1>7, <1>10, <1>11

(* Its ring of own hashes.                                                 *)
LEMMA BoundaryOwned ==
  ASSUME ExchangeInv, NEW p \in Peer, TurnBoundary(p)
  PROVE  /\ myHash'[p] \in Seq(Key) /\ Len(myHash'[p]) <= RingSize
         /\ Owned(p)' /\ Held(p)' = Entered(p) /\ Entered(p)' = Entered(p)
         /\ turn'[p] = TurnOf(p) + 1
<1> DEFINE r == OwnNow(p)
           e == Entered(p)
           t == TurnOf(p)
           u == PushEvicting(r, [battle |-> e, turn |-> t])
<1>1. TypeOK /\ Owned(p)
  BY DEF ExchangeInv
<1>2. /\ HashNow(p) \in Key /\ t \in Nat /\ e # 0 /\ e = battles[p].current
      /\ \/ Held(p) = e /\ ~Fresh(p) /\ t = turn[p]
         \/ Held(p) + 1 = e /\ t = 0 /\ r = <<>>
  BY BoundaryAt
<1>3. HashNow(p) = [battle |-> e, turn |-> t]
  BY <1>2 DEF HashNow
<1>4. /\ r \in Seq(Key) /\ Len(r) = (IF t < RingSize THEN t ELSE RingSize)
      /\ \A i \in 1 .. Len(r) : r[i] = [battle |-> e, turn |-> t - Len(r) + i - 1]
  <2>1. CASE Held(p) = e /\ ~Fresh(p) /\ t = turn[p]
    <3>1. r = myHash[p]
      BY <2>1 DEF OwnNow
    <3>2. myHash[p] \in Seq(Key)
      BY <1>1, ExchangeTypes
    <3> HIDE DEF r, e, t
    <3> QED
      BY <1>1, <2>1, <3>1, <3>2 DEF Owned
  <2>2. CASE t = 0 /\ r = <<>>
    <3>1. 0 < RingSize
      BY RingSizeAssumption
    <3> HIDE DEF r, t
    <3>2. r \in Seq(Key) /\ Len(r) = 0
      BY <2>2, EmptySeq
    <3> QED
      BY <2>2, <3>1, <3>2
  <2> QED
    BY <1>2, <2>1, <2>2
<1>5. /\ u \in Seq(Key) /\ Len(u) <= RingSize
      /\ Len(u) = (IF t + 1 < RingSize THEN t + 1 ELSE RingSize)
      /\ \A i \in 1 .. Len(u) : u[i] = [battle |-> e, turn |-> (t + 1) - Len(u) + i - 1]
  <2>1. [battle |-> e, turn |-> t] \in Key /\ t \in Nat
    BY <1>2, <1>3
  <2> HIDE DEF r, t, e
  <2> QED
    BY <1>4, <2>1, PushedOwn
<1>6. myHash'[p] = u /\ turn'[p] = t + 1 /\ snapped'[p] = e /\ battles' = battles
  <2>1. /\ snapped' = [snapped EXCEPT ![p] = battles[p].current]
        /\ turn' = [turn EXCEPT ![p] = t + 1]
        /\ myHash' = [myHash EXCEPT ![p] = PushEvicting(r, HashNow(p))]
        /\ battles' = battles
    BY <1>1, BoundarySteps
  <2> QED
    BY <1>1, <1>2, <1>3, <2>1 DEF TypeOK
<1>7. Entered(p)' = e
  BY <1>6 DEF Entered
<1>8. Held(p)' = e
  <2>1. e # NoBattle
    BY <1>1, <1>2, BoundarySteps
  <2> QED
    BY <1>6, <2>1 DEF Held
<1> HIDE DEF u, e, t, r
<1>9. Owned(p)'
  BY <1>5, <1>6, <1>8 DEF Owned
<1> QED
  BY <1>5, <1>6, <1>7, <1>8, <1>9 DEF e, t

(* The other's ring, and what it keeps of a battle not left.               *)
LEMMA BoundaryQueued ==
  ASSUME ExchangeInv, NEW p \in Peer, TurnBoundary(p)
  PROVE  /\ peerHash'[p] \in Seq(Key) /\ Len(peerHash'[p]) <= RingSize
         /\ Distinct(peerHash'[p])
         /\ \A x : In(x, peerHash'[p]) => In(x, peerHash[p]) /\ x # HashNow(p)
         /\ \A k \in Key : k.battle >= Entered(p) /\ In(k, peerHash[p]) =>
              IF k = HashNow(p) THEN k \in compared'[p] ELSE In(k, peerHash'[p])
         /\ compared[p] \subseteq compared'[p]
         /\ compared'[p] \subseteq compared[p] \cup {HashNow(p)}
<1> DEFINE r == peerHash[p]
           g == PeerNow(p)
           h == HashNow(p)
           e == Entered(p)
           t == TurnOf(p)
           u == Taken(g, e, t)
<1>1. TypeOK /\ Distinct(r)
  BY DEF ExchangeInv, Queued
<1>2. r \in Seq(Key) /\ Len(r) <= RingSize /\ RingSize \in Nat /\ Len(r) \in Nat
  BY <1>1, ExchangeTypes, RingSizeAssumption, LenProperties
<1>3. /\ h \in Key /\ h.battle = e /\ h.turn = t /\ e = battles[p].current
  BY BoundaryAt
<1>4. /\ g \in Seq(Key) /\ Len(g) <= Len(r) /\ Distinct(g)
      /\ \A x : In(x, g) => In(x, r)
      /\ \A x : In(x, r) /\ ~(x.battle \in Battle /\ IsRetired(battles[p], x.battle)) => In(x, g)
  <2>1. CASE Fresh(p)
    <3> DEFINE R == {id \in Battle : IsRetired(battles[p], id)}
    <3>1. g = PurgeRetired(r, R)
      BY <2>1 DEF PeerNow
    <3>2. \A b : b \in R <=> b \in Battle /\ IsRetired(battles[p], b)
      OBVIOUS
    <3> HIDE DEF R, g, r
    <3>3. /\ PurgeRetired(r, R) \in Seq(Key)
          /\ Len(PurgeRetired(r, R)) <= Len(r)
          /\ Distinct(PurgeRetired(r, R))
          /\ \A x : In(x, PurgeRetired(r, R)) <=> In(x, r) /\ x.battle \notin R
      BY <1>1, <1>2, PurgedRing
    <3> QED
      BY <3>1, <3>2, <3>3
  <2>2. CASE ~Fresh(p)
    <3>1. g = r
      BY <2>2 DEF PeerNow
    <3> HIDE DEF g, r
    <3> QED
      BY <1>1, <1>2, <3>1
  <2> QED
    BY <2>1, <2>2
<1>5. /\ peerHash' = [peerHash EXCEPT ![p] = Taken(g, battles[p].current, t)]
      /\ compared' = [compared EXCEPT ![p] =
                        IF Holds(g, battles[p].current, t) THEN compared[p] \cup {h}
                        ELSE compared[p]]
  BY <1>1, BoundarySteps
<1>6. peerHash'[p] = u /\ compared'[p] = IF Holds(g, e, t) THEN compared[p] \cup {h} ELSE compared[p]
  BY <1>1, <1>3, <1>5 DEF TypeOK
<1> HIDE DEF g
<1>7. /\ u \in Seq(Key) /\ Len(u) <= Len(g) /\ Distinct(u)
      /\ \A x : In(x, u) <=> In(x, g) /\ ~HasKey(x, e, t)
  BY <1>4, TakenRing
<1>8. Len(u) <= RingSize
  <2>1. Len(u) \in Nat /\ Len(g) \in Nat
    BY <1>4, <1>7, LenProperties
  <2> QED
    BY <1>2, <1>4, <1>7, <2>1
<1>9. \A k \in Key : k = [battle |-> k.battle, turn |-> k.turn] /\ k.battle \in Battle
  BY <1>1, ExchangeTypes
<1> HIDE DEF u, h, e, t
<1>10. HasKey(h, e, t) /\ \A k \in Key : HasKey(k, e, t) => k = h
  BY <1>3, <1>9 DEF HasKey
<1>11. \A k \in Key : k.battle >= e => ~IsRetired(battles[p], k.battle)
  <2> SUFFICES ASSUME NEW k \in Key, k.battle >= e, IsRetired(battles[p], k.battle) PROVE FALSE
    OBVIOUS
  <2>1. k.battle \in Battle
    BY <1>9
  <2>2. k.battle < e
    BY <2>1, Stale DEF e
  <2>3. k.battle \in Nat /\ e \in Nat
    BY <1>1, <1>3, ExchangeTypes, Numbers DEF e
  <2> QED
    BY <2>2, <2>3
<1>12. ASSUME NEW k \in Key, k.battle >= e, In(k, r)
       PROVE  IF k = h THEN k \in compared'[p] ELSE In(k, u)
  <2>1. In(k, g)
    BY <1>4, <1>11, <1>12
  <2>2. CASE k = h
    <3>1. Holds(g, e, t)
      BY <1>10, <2>1, <2>2, HoldsIn
    <3> QED
      BY <1>6, <2>2, <3>1
  <2>3. CASE k # h
    BY <1>7, <1>10, <2>1, <2>3
  <2> QED
    BY <2>2, <2>3
<1>13. \A x : In(x, u) => In(x, r) /\ x # h
  BY <1>4, <1>7, <1>10
<1> QED
  BY <1>6, <1>7, <1>8, <1>12, <1>13 DEF h, e, t

LEMMA BoundaryTyped ==
  ASSUME ExchangeInv, NEW p \in Peer, TurnBoundary(p)
  PROVE  TypeOK'
<1> DEFINE q == Other(p)
           h == HashNow(p)
<1>1. TypeOK /\ q \in Peer
  BY Others DEF ExchangeInv
<1>2. /\ h \in Key /\ TurnOf(p) \in Nat /\ Entered(p) = battles[p].current /\ Entered(p) # 0
  BY BoundaryAt
<1>3. /\ TurnOf(p) <= LastTurn
      /\ snapped' = [snapped EXCEPT ![p] = battles[p].current]
      /\ turn' = [turn EXCEPT ![p] = TurnOf(p) + 1]
      /\ myHash' = [myHash EXCEPT ![p] = PushEvicting(OwnNow(p), HashNow(p))]
      /\ peerHash' = [peerHash EXCEPT ![p] = Taken(PeerNow(p), battles[p].current, TurnOf(p))]
      /\ net' = [net EXCEPT ![q] = Append(net[q], h)]
      /\ passed' = [passed EXCEPT ![p] = passed[p] \cup {h}]
      /\ compared' = [compared EXCEPT ![p] =
                        IF Holds(PeerNow(p), battles[p].current, TurnOf(p))
                        THEN compared[p] \cup {h} ELSE compared[p]]
      /\ wide' = (wide \/ Cardinality(passed'[p] \ read[p]) > RingSize)
      /\ battles' = battles /\ read' = read
  BY <1>1, BoundarySteps
<1>4. /\ myHash'[p] \in Seq(Key) /\ Len(myHash'[p]) <= RingSize
      /\ peerHash'[p] \in Seq(Key) /\ Len(peerHash'[p]) <= RingSize
  BY BoundaryOwned, BoundaryQueued
<1>5. battles[p].current \in Battle
  BY <1>1, <1>2, Numbers
<1>6. LastTurn \in Nat
  BY BoundAssumption
<1> HIDE DEF h, q
<1>7. snapped' \in [Peer -> Battle \cup {NoBattle}]
  BY <1>1, <1>3, <1>5 DEF TypeOK
<1>8. turn' \in [Peer -> 0 .. LastTurn + 1]
  <2>1. TurnOf(p) + 1 \in 0 .. LastTurn + 1
    BY <1>2, <1>3, <1>6
  <2> QED
    BY <1>1, <1>3, <2>1 DEF TypeOK
<1>9. Append(net[q], h) \in Seq(Key)
  <2>1. net[q] \in Seq(Key)
    BY <1>1, ExchangeTypes
  <2> QED
    BY <1>2, <2>1, PushedRing DEF h
<1>10. {myHash', peerHash', net'} \subseteq [Peer -> Seq(Key)]
  <2>1. {myHash, peerHash, net} \subseteq [Peer -> Seq(Key)]
    BY <1>1 DEF TypeOK
  <2>2. myHash' \in [Peer -> Seq(Key)]
    <3> DEFINE s == PushEvicting(OwnNow(p), HashNow(p))
    <3>1. myHash' = [myHash EXCEPT ![p] = s]
      BY <1>3
    <3> HIDE DEF s
    <3> QED
      BY <1>4, <2>1, <3>1
  <2>3. peerHash' \in [Peer -> Seq(Key)]
    <3> DEFINE s == Taken(PeerNow(p), battles[p].current, TurnOf(p))
    <3>1. peerHash' = [peerHash EXCEPT ![p] = s]
      BY <1>3
    <3> HIDE DEF s
    <3> QED
      BY <1>4, <2>1, <3>1
  <2>4. net' \in [Peer -> Seq(Key)]
    <3> DEFINE s == Append(net[q], h)
    <3>1. net' = [net EXCEPT ![q] = s] /\ s \in Seq(Key)
      BY <1>3, <1>9
    <3> HIDE DEF s
    <3> QED
      BY <2>1, <3>1
  <2> QED
    BY <2>2, <2>3, <2>4
<1>11. \A o \in Peer : Len(myHash'[o]) <= RingSize /\ Len(peerHash'[o]) <= RingSize
  <2> SUFFICES ASSUME NEW o \in Peer, o # p
               PROVE  Len(myHash'[o]) <= RingSize /\ Len(peerHash'[o]) <= RingSize
    BY <1>4
  <2>1. myHash'[o] = myHash[o] /\ peerHash'[o] = peerHash[o]
    BY <1>1, <1>3 DEF TypeOK
  <2> QED
    BY <1>1, <2>1 DEF TypeOK
<1>12. passed' \in [Peer -> SUBSET Key] /\ compared' \in [Peer -> SUBSET Key]
  <2>1. passed[p] \cup {h} \in SUBSET Key /\ compared[p] \cup {h} \in SUBSET Key
    BY <1>1, <1>2 DEF TypeOK, h
  <2> QED
    BY <1>1, <1>3, <2>1 DEF TypeOK
<1>13. wide' \in BOOLEAN
  BY <1>1, <1>3, Zenon DEF TypeOK
<1> QED
  BY <1>1, <1>3, <1>7, <1>8, <1>10, <1>11, <1>12, <1>13 DEF TypeOK

LEMMA BoundaryPassing ==
  ASSUME ExchangeInv, NEW p \in Peer, TurnBoundary(p)
  PROVE  Passing(p)' /\ passed'[p] = passed[p] \cup {HashNow(p)}
<1> DEFINE h == HashNow(p)
           e == Entered(p)
           c == Held(p)
           t == TurnOf(p)
           P == passed[p] \cup {h}
<1>1. TypeOK /\ Passing(p)
  BY DEF ExchangeInv
<1>2. /\ h \in Key /\ h.battle = e /\ h.turn = t /\ t \in Nat /\ e # 0
      /\ (c = e /\ t = turn[p]) \/ (c + 1 = e /\ t = 0)
      /\ e = battles[p].current
  BY BoundaryAt
<1>3. Held(p)' = e /\ turn'[p] = t + 1
  BY BoundaryOwned
<1>4. passed'[p] = P
  <2>1. passed' = [passed EXCEPT ![p] = P]
    BY <1>1, BoundarySteps
  <2>2. passed \in [Peer -> SUBSET Key]
    BY <1>1 DEF TypeOK
  <2> HIDE DEF P
  <2> QED
    BY <2>1, <2>2
<1>5. c \in Nat /\ e \in Nat
  BY <1>1, Numbers
<1>6. /\ \A k \in Key : /\ k.battle \in Nat /\ k.turn \in Nat
                        /\ k = [battle |-> k.battle, turn |-> k.turn]
      /\ passed[p] \subseteq Key
  BY <1>1, ExchangeTypes
<1>7. /\ IsFiniteSet(passed[p])
      /\ \A k \in passed[p] : k.battle <= c
      /\ \A k \in Key : k.battle = c => (k \in passed[p] <=> k.turn < turn[p])
      /\ \A b \in 1 .. c : [battle |-> b, turn |-> 0] \in passed[p]
  BY <1>1 DEF Passing
<1>8. h = [battle |-> e, turn |-> t]
  BY <1>2, <1>6
<1>9. IsFiniteSet(P)
  BY <1>7, FS_AddElement
<1> HIDE DEF h, e, c, t
<1>10. \A k \in P : k.battle <= e
  BY <1>2, <1>5, <1>6, <1>7
<1>11. ASSUME NEW k \in Key, k.battle = e PROVE k \in P <=> k.turn < t + 1
  <2>1. k = h <=> k.turn = t
    BY <1>2, <1>6, <1>8, <1>11
  <2>2. k \in passed[p] <=> k.turn < t
    <3>1. CASE c = e /\ t = turn[p]
      BY <1>7, <1>11, <3>1
    <3>2. CASE c + 1 = e /\ t = 0
      <4>1. k.turn \in Nat /\ k.battle \in Nat
        BY <1>6
      <4>2. ~(k.turn < t)
        BY <3>2, <4>1
      <4>3. k \notin passed[p]
        <5> SUFFICES ASSUME k.battle <= c PROVE FALSE
          BY <1>7
        <5> QED
          BY <1>5, <1>11, <3>2
      <4> QED
        BY <4>2, <4>3
    <3> QED
      BY <1>2, <3>1, <3>2
  <2>3. k.turn \in Nat
    BY <1>6
  <2>4. k.turn < t + 1 <=> k.turn < t \/ k.turn = t
    BY <1>2, <2>3
  <2> QED
    BY <2>1, <2>2, <2>4
<1>12. \A b \in 1 .. e : [battle |-> b, turn |-> 0] \in P
  <2> TAKE b \in 1 .. e
  <2>1. CASE b \in 1 .. c
    BY <1>7, <2>1
  <2>2. CASE b \notin 1 .. c
    <3>1. b = e /\ t = 0
      BY <1>2, <1>5, <2>2
    <3> QED
      BY <1>8, <3>1
  <2> QED
    BY <2>1, <2>2
<1> HIDE DEF P
<1>13. Passing(p)'
  BY <1>2, <1>3, <1>4, <1>9, <1>10, <1>11, <1>12 DEF Passing
<1> QED
  BY <1>4, <1>13 DEF P, h

LEMMA BoundarySent ==
  ASSUME ExchangeInv, NEW p \in Peer, TurnBoundary(p)
  PROVE  \A q \in Peer : Sent(q)'
<1> DEFINE q == Other(p)
           h == HashNow(p)
           s == Append(net[q], h)
           n == Len(net[q])
<1>1. q \in Peer /\ q # p /\ Other(q) = p /\ Other(p) = q /\ \A o \in Peer : o = p \/ o = q
  BY Others
<1>2. TypeOK /\ Sent(p) /\ Sent(q)
  BY <1>1 DEF ExchangeInv
<1>3. /\ net' = [net EXCEPT ![q] = s] /\ read' = read
      /\ passed' = [passed EXCEPT ![p] = passed[p] \cup {h}]
  BY <1>2, BoundarySteps
<1>4. net \in [Peer -> Seq(Key)] /\ passed \in [Peer -> SUBSET Key]
  BY <1>2 DEF TypeOK
<1>5. h \in Key /\ \A k \in passed[p] : Before(k, h)
  BY BoundaryAt
<1>6. net[q] \in Seq(Key)
  BY <1>1, <1>4
<1>7. /\ s \in Seq(Key) /\ \A x : In(x, s) <=> In(x, net[q]) \/ x = h
      /\ Len(s) = n + 1 /\ n \in Nat /\ s[n + 1] = h /\ \A i \in 1 .. n : s[i] = net[q][i]
  <2>1. /\ s \in Seq(Key) /\ Len(s) = n + 1 /\ \A x : In(x, s) <=> In(x, net[q]) \/ x = h
    BY <1>5, <1>6, PushedRing
  <2>2. s[n + 1] = h /\ \A i \in 1 .. n : s[i] = net[q][i]
    BY <1>5, <1>6, AppendProperties
  <2> QED
    BY <1>6, <2>1, <2>2, LenProperties
<1>8. \A i \in 1 .. n : net[q][i] \in Key /\ In(net[q][i], net[q])
  BY <1>6, ElementOfSeq DEF In
<1> HIDE DEF s, n, h, q
<1>9. net'[q] = s /\ net'[p] = net[p] /\ passed'[p] = passed[p] \cup {h} /\ passed'[q] = passed[q]
  BY <1>1, <1>3, <1>4
<1>10. Sent(p)'
  BY <1>1, <1>2, <1>3, <1>9 DEF Sent
<1>11. Sent(q)'
  <2>1. /\ \A k \in Key : k \in passed[p] <=> k \in read[q] \/ In(k, net[q])
        /\ \A k \in read[q], i \in 1 .. n : Before(k, net[q][i])
        /\ \A i, j \in 1 .. n : i < j => Before(net[q][i], net[q][j])
    BY <1>1, <1>2 DEF Sent, n
  <2>2. \A k \in Key : k \in passed'[p] <=> k \in read'[q] \/ In(k, s)
    BY <1>3, <1>7, <1>9, <2>1
  <2>3. 1 .. n + 1 = (1 .. n) \cup {n + 1} /\ \A i \in 1 .. n : i < n + 1
    BY <1>7
  <2>4. read[q] \subseteq Key
    BY <1>1, <1>2, ExchangeTypes
  <2>5. \A k \in read[q] : Before(k, h)
    BY <1>5, <2>1, <2>4
  <2>6. \A i \in 1 .. n : Before(net[q][i], h)
    BY <1>5, <1>8, <2>1
  <2>7. \A k \in read'[q], i \in 1 .. n + 1 : Before(k, s[i])
    BY <1>3, <1>7, <2>1, <2>3, <2>5
  <2>8. \A i, j \in 1 .. n + 1 : i < j => Before(s[i], s[j])
    <3> SUFFICES ASSUME NEW i \in 1 .. n + 1, NEW j \in 1 .. n + 1, i < j
                 PROVE  Before(s[i], s[j])
      OBVIOUS
    <3>1. i \in 1 .. n
      BY <1>7
    <3>2. CASE j \in 1 .. n
      BY <1>7, <2>1, <3>1, <3>2
    <3>3. CASE j = n + 1
      BY <1>7, <2>6, <3>1, <3>3
    <3> QED
      BY <2>3, <3>2, <3>3
  <2> QED
    BY <1>1, <1>7, <1>9, <2>2, <2>7, <2>8 DEF Sent
<1> QED
  BY <1>1, <1>10, <1>11

LEMMA ExchangeInvBoundary ==
  ASSUME ExchangeInv, NEW p \in Peer, TurnBoundary(p)
  PROVE  ExchangeInv'
<1> DEFINE h == HashNow(p)
<1>1. TypeOK /\ TypeOK' /\ \A q \in Peer : Sent(q)'
  BY BoundaryTyped, BoundarySent DEF ExchangeInv
<1>2. Passing(p)' /\ passed'[p] = passed[p] \cup {h}
  BY BoundaryPassing
<1>3. Owned(p)' /\ Held(p)' = Entered(p) /\ Entered(p)' = Entered(p)
  BY BoundaryOwned
<1>4. h \in Key /\ h.battle = Entered(p) /\ h \notin passed[p]
  BY BoundaryAt
<1>5. /\ Distinct(peerHash'[p])
      /\ \A x : In(x, peerHash'[p]) => In(x, peerHash[p]) /\ x # h
      /\ \A k \in Key : k.battle >= Entered(p) /\ In(k, peerHash[p]) =>
           IF k = h THEN k \in compared'[p] ELSE In(k, peerHash'[p])
      /\ compared[p] \subseteq compared'[p]
  BY BoundaryQueued
<1>6. /\ battles' = battles /\ read' = read
      /\ wide' = (wide \/ Cardinality(passed'[p] \ read[p]) > RingSize)
  BY <1>1, BoundarySteps
<1>7. ASSUME NEW q \in Peer, q # p
      PROVE  /\ snapped'[q] = snapped[q] /\ turn'[q] = turn[q] /\ myHash'[q] = myHash[q]
             /\ peerHash'[q] = peerHash[q] /\ passed'[q] = passed[q] /\ compared'[q] = compared[q]
  <2>1. /\ \E x : snapped' = [snapped EXCEPT ![p] = x]
        /\ \E x : turn' = [turn EXCEPT ![p] = x]
        /\ \E x : myHash' = [myHash EXCEPT ![p] = x]
        /\ \E x : peerHash' = [peerHash EXCEPT ![p] = x]
        /\ \E x : passed' = [passed EXCEPT ![p] = x]
        /\ \E x : compared' = [compared EXCEPT ![p] = x]
    BY <1>1, BoundarySteps, Zenon
  <2>2. /\ snapped \in [Peer -> Battle \cup {NoBattle}] /\ turn \in [Peer -> 0 .. LastTurn + 1]
        /\ {myHash, peerHash} \subseteq [Peer -> Seq(Key)]
        /\ {passed, compared} \subseteq [Peer -> SUBSET Key]
    BY <1>1 DEF TypeOK
  <2> QED
    BY <1>7, <2>1, <2>2
<1> HIDE DEF h
<1> SUFFICES ASSUME NEW q \in Peer
             PROVE  /\ Retiring(q)' /\ Passing(q)' /\ Owned(q)' /\ Sent(q)' /\ Queued(q)'
                    /\ (~wide)' => Few(q)' /\ Waits(q)' /\ Caught(q)'
  BY <1>1 DEF ExchangeInv
<1>8. Retiring(q) /\ Passing(q) /\ Owned(q) /\ Queued(q)
  BY DEF ExchangeInv
<1>9. Entered(q)' = Entered(q) /\ (q # p => Held(q)' = Held(q))
  BY <1>6, <1>7 DEF Entered, Held
<1>10. Retiring(q)'
  BY <1>3, <1>6, <1>8, <1>9 DEF Retiring
<1>11. Passing(q)'
  <2>1. CASE q = p
    BY <1>2, <2>1
  <2>2. CASE q # p
    BY <1>7, <1>8, <1>9, <2>2 DEF Passing
  <2> QED
    BY <2>1, <2>2
<1>12. Owned(q)'
  <2>1. CASE q = p
    BY <1>3, <2>1
  <2>2. CASE q # p
    BY <1>7, <1>8, <1>9, <2>2 DEF Owned
  <2> QED
    BY <2>1, <2>2
<1>13. Queued(q)'
  <2>1. CASE q = p
    BY <1>5, <1>6, <1>8, <2>1 DEF Queued
  <2>2. CASE q # p
    BY <1>6, <1>7, <1>8, <2>2 DEF Queued
  <2> QED
    BY <2>1, <2>2
<1>14. ASSUME ~wide' PROVE Few(q)' /\ Waits(q)' /\ Caught(q)'
  <2>1. ~wide /\ ~(Cardinality(passed'[p] \ read[p]) > RingSize)
    BY <1>6, <1>14, Zenon
  <2>2. Few(q) /\ Waits(q) /\ Caught(q)
    BY <2>1 DEF ExchangeInv
  <2>3. CASE q = p
    <3>1. Few(p)'
      <4>1. IsFiniteSet(passed'[p])
        BY <1>2 DEF Passing
      <4>2. Cardinality(passed'[p] \ read[p]) \in Nat
        BY <4>1, FS_Subset, FS_CardinalityType
      <4>3. Cardinality(passed'[p] \ read[p]) <= RingSize
        BY <2>1, <4>2, RingSizeAssumption
      <4> QED
        BY <1>6, <4>3 DEF Few
    <3>2. Waits(p)'
      BY <1>2, <1>5, <2>2, <2>3 DEF Waits
    <3>3. Caught(p)'
      <4> SUFFICES ASSUME NEW k \in read[p], k.battle >= Entered(p)
                   PROVE  /\ k \in passed'[p] => k \in compared'[p]
                          /\ k \notin passed'[p] => In(k, peerHash'[p])
        BY <1>3, <1>6 DEF Caught
      <4>1. k \in Key
        BY <1>1, ExchangeTypes
      <4>2. /\ k \in passed[p] => k \in compared[p]
            /\ k \notin passed[p] => In(k, peerHash[p])
        BY <2>2, <2>3 DEF Caught
      <4>3. CASE k = h
        BY <1>4, <1>5, <1>2, <4>1, <4>2, <4>3
      <4>4. CASE k # h
        BY <1>5, <1>2, <4>1, <4>2, <4>4
      <4> QED
        BY <4>3, <4>4
    <3> QED
      BY <2>3, <3>1, <3>2, <3>3
  <2>4. CASE q # p
    BY <1>6, <1>7, <1>9, <2>2, <2>4 DEF Few, Waits, Caught
  <2> QED
    BY <2>3, <2>4
<1> QED
  BY <1>1, <1>10, <1>11, <1>12, <1>13, <1>14

LEMMA HashSteps ==
  ASSUME TypeOK, NEW p \in Peer, OnHash(p)
  PROVE  LET h == Head(net[p]) IN
         /\ net[p] # <<>> /\ net' = [net EXCEPT ![p] = Tail(net[p])]
         /\ read' = [read EXCEPT ![p] = read[p] \cup {h}]
         /\ UNCHANGED <<battles, snapped, turn, myHash, passed, wide>>
         /\ \/ IsRetired(battles[p], h.battle) /\ UNCHANGED <<peerHash, compared>>
            \/ /\ ~IsRetired(battles[p], h.battle) /\ Meets(p, h) /\ UNCHANGED peerHash
               /\ compared' = [compared EXCEPT ![p] = compared[p] \cup {h}]
            \/ /\ ~IsRetired(battles[p], h.battle) /\ ~Meets(p, h) /\ UNCHANGED compared
               /\ peerHash' = [peerHash EXCEPT ![p] = PushRefusing(peerHash[p], h)]
BY Zenon DEF OnHash

(* What a hash read does to the ring it may join and to what is compared.  *)
LEMMA HashQueued ==
  ASSUME ExchangeInv, NEW p \in Peer, OnHash(p)
  PROVE  /\ \A q \in Peer : q # p => peerHash'[q] = peerHash[q] /\ compared'[q] = compared[q]
         /\ peerHash' \in [Peer -> Seq(Key)] /\ compared' \in [Peer -> SUBSET Key]
         /\ Len(peerHash'[p]) <= RingSize /\ Distinct(peerHash'[p])
         /\ \A x : In(x, peerHash[p]) => In(x, peerHash'[p])
         /\ \A x : In(x, peerHash'[p]) =>
              In(x, peerHash[p])
              \/ (x = Head(net[p]) /\ ~IsRetired(battles[p], x.battle) /\ ~Meets(p, x))
         /\ compared[p] \subseteq compared'[p]
         /\ ~IsRetired(battles[p], Head(net[p]).battle) /\ Meets(p, Head(net[p]))
              => Head(net[p]) \in compared'[p]
         /\ ~IsRetired(battles[p], Head(net[p]).battle) /\ ~Meets(p, Head(net[p]))
            /\ Len(peerHash[p]) < RingSize
              => In(Head(net[p]), peerHash'[p])
<1> DEFINE h == Head(net[p])
           r == peerHash[p]
           u == Append(r, h)
<1>1. TypeOK /\ Queued(p)
  BY DEF ExchangeInv
<1>2. net[p] # <<>>
  BY <1>1, HashSteps
<1>3. \/ IsRetired(battles[p], h.battle) /\ UNCHANGED <<peerHash, compared>>
      \/ /\ ~IsRetired(battles[p], h.battle) /\ Meets(p, h) /\ UNCHANGED peerHash
         /\ compared' = [compared EXCEPT ![p] = compared[p] \cup {h}]
      \/ /\ ~IsRetired(battles[p], h.battle) /\ ~Meets(p, h) /\ UNCHANGED compared
         /\ peerHash' = [peerHash EXCEPT ![p] = PushRefusing(r, h)]
  BY <1>1, HashSteps
<1>4. h \in Key /\ ~Holds(r, h.battle, h.turn)
  BY <1>2, NextUnread, NotQueued
<1>5. /\ r \in Seq(Key) /\ Len(r) <= RingSize /\ Len(r) \in Nat /\ RingSize \in Nat
      /\ Distinct(r)
  BY <1>1, ExchangeTypes, LenProperties, RingSizeAssumption DEF Queued
<1>6. /\ peerHash \in [Peer -> Seq(Key)] /\ compared \in [Peer -> SUBSET Key]
  BY <1>1 DEF TypeOK
<1>7. /\ u \in Seq(Key) /\ Len(u) = Len(r) + 1 /\ Distinct(u)
      /\ \A x : In(x, u) <=> In(x, r) \/ x = h
  BY <1>4, <1>5, PushedRing
<1>8. PushRefusing(r, h) = IF Len(r) = RingSize THEN r ELSE u
  BY DEF PushRefusing
<1> DEFINE v == PushRefusing(r, h)
<1>9. /\ v \in Seq(Key) /\ Len(v) <= RingSize /\ Distinct(v)
      /\ \A x : In(x, r) => In(x, v)
      /\ \A x : In(x, v) => In(x, r) \/ x = h
      /\ Len(r) < RingSize => In(h, v)
  <2> HIDE DEF v, u, r, h
  <2>1. v = IF Len(r) = RingSize THEN r ELSE u
    BY <1>8 DEF v
  <2>2. CASE Len(r) = RingSize
    BY <1>5, <2>1, <2>2
  <2>3. CASE Len(r) # RingSize
    <3>1. Len(u) <= RingSize
      BY <1>5, <1>7, <2>3
    <3> QED
      BY <1>7, <2>1, <2>3, <3>1
  <2> QED
    BY <2>2, <2>3
<1> HIDE DEF v, u, h
<1>10. CASE IsRetired(battles[p], h.battle) /\ UNCHANGED <<peerHash, compared>>
  BY <1>5, <1>6, <1>10 DEF h
<1>11. CASE /\ ~IsRetired(battles[p], h.battle) /\ Meets(p, h) /\ UNCHANGED peerHash
            /\ compared' = [compared EXCEPT ![p] = compared[p] \cup {h}]
  <2>1. /\ compared' \in [Peer -> SUBSET Key] /\ compared'[p] = compared[p] \cup {h}
        /\ \A q \in Peer : q # p => compared'[q] = compared[q]
    BY <1>4, <1>6, <1>11
  <2> QED
    BY <1>5, <1>6, <1>11, <2>1 DEF h
<1>12. CASE /\ ~IsRetired(battles[p], h.battle) /\ ~Meets(p, h) /\ UNCHANGED compared
            /\ peerHash' = [peerHash EXCEPT ![p] = v]
  <2>1. /\ peerHash' \in [Peer -> Seq(Key)] /\ peerHash'[p] = v
        /\ \A q \in Peer : q # p => peerHash'[q] = peerHash[q]
    BY <1>6, <1>9, <1>12
  <2> QED
    BY <1>6, <1>9, <1>12, <2>1 DEF h
<1> QED
  BY <1>3, <1>10, <1>11, <1>12 DEF v

LEMMA HashSent ==
  ASSUME ExchangeInv, NEW p \in Peer, OnHash(p)
  PROVE  \A q \in Peer : Sent(q)'
<1> DEFINE h == Head(net[p])
           s == Tail(net[p])
           n == Len(net[p])
<1>1. TypeOK /\ Sent(p)
  BY DEF ExchangeInv
<1>2. /\ net[p] # <<>> /\ net' = [net EXCEPT ![p] = s]
      /\ read' = [read EXCEPT ![p] = read[p] \cup {h}] /\ passed' = passed
  BY <1>1, HashSteps
<1>3. net \in [Peer -> Seq(Key)] /\ read \in [Peer -> SUBSET Key]
  BY <1>1 DEF TypeOK
<1>4. /\ n \in Nat /\ n # 0 /\ s \in Seq(Key) /\ Len(s) = n - 1 /\ h = net[p][1]
      /\ \A i \in 1 .. n - 1 : s[i] = net[p][i + 1]
  BY <1>2, <1>3, HeadTailProperties, LenProperties, EmptySeq
<1> HIDE DEF s, h
<1>5. net'[p] = s /\ read'[p] = read[p] \cup {h}
  BY <1>2, <1>3
<1>6. /\ \A k \in Key : k \in passed[Other(p)] <=> k \in read[p] \/ In(k, net[p])
      /\ \A k \in read[p], i \in 1 .. n : Before(k, net[p][i])
      /\ \A i, j \in 1 .. n : i < j => Before(net[p][i], net[p][j])
  BY <1>1 DEF Sent
<1> HIDE DEF n
<1>7. \A i \in 1 .. n - 1 : i + 1 \in 1 .. n /\ 1 \in 1 .. n /\ 1 < i + 1
  BY <1>4
<1>8. \A x : In(x, net[p]) <=> x = h \/ In(x, s)
  <2>1. \A i \in 1 .. n : i = 1 \/ (i - 1 \in 1 .. n - 1 /\ (i - 1) + 1 = i)
    BY <1>4
  <2>2. ASSUME NEW i \in 1 .. n PROVE net[p][i] = h \/ In(net[p][i], s)
    <3>1. CASE i = 1
      BY <1>4, <3>1
    <3>2. CASE i # 1
      <4>1. s[i - 1] = net[p][i] /\ i - 1 \in 1 .. Len(s)
        BY <1>4, <2>1, <3>2
      <4> QED
        BY <4>1 DEF In
    <3> QED
      BY <3>1, <3>2
  <2>3. In(h, net[p])
    <3>1. 1 \in 1 .. Len(net[p])
      BY <1>4 DEF n
    <3> QED
      BY <1>4, <3>1 DEF In
  <2>4. ASSUME NEW i \in 1 .. Len(s) PROVE In(s[i], net[p])
    <3>1. i + 1 \in 1 .. Len(net[p]) /\ s[i] = net[p][i + 1]
      BY <1>4, <1>7 DEF n
    <3> QED
      BY <3>1 DEF In
  <2> QED
    BY <2>2, <2>3, <2>4 DEF In, n
<1>9. Sent(p)'
  <2>1. \A k \in Key : k \in passed[Other(p)] <=> k \in read'[p] \/ In(k, s)
    BY <1>5, <1>6, <1>8
  <2>2. \A k \in read'[p], i \in 1 .. n - 1 : Before(k, s[i])
    BY <1>4, <1>5, <1>6, <1>7
  <2>3. \A i, j \in 1 .. n - 1 : i < j => Before(s[i], s[j])
    <3> SUFFICES ASSUME NEW i \in 1 .. n - 1, NEW j \in 1 .. n - 1, i < j
                 PROVE  Before(s[i], s[j])
      OBVIOUS
    <3>1. i + 1 < j + 1 /\ i + 1 \in 1 .. n /\ j + 1 \in 1 .. n
      BY <1>4
    <3> QED
      BY <1>4, <1>6, <3>1
  <2> QED
    BY <1>2, <1>4, <1>5, <2>1, <2>2, <2>3 DEF Sent
<1> SUFFICES ASSUME NEW q \in Peer, q # p PROVE Sent(q)'
  BY <1>9
<1>10. Sent(q) /\ net'[q] = net[q] /\ read'[q] = read[q]
  BY <1>2, <1>3 DEF ExchangeInv
<1> QED
  BY <1>2, <1>10 DEF Sent

LEMMA HashTyped ==
  ASSUME ExchangeInv, NEW p \in Peer, OnHash(p)
  PROVE  TypeOK'
<1> DEFINE h == Head(net[p])
           s == Tail(net[p])
<1>1. TypeOK
  BY DEF ExchangeInv
<1>2. /\ net[p] # <<>> /\ net' = [net EXCEPT ![p] = s]
      /\ read' = [read EXCEPT ![p] = read[p] \cup {h}]
      /\ UNCHANGED <<battles, snapped, turn, myHash, passed, wide>>
  BY <1>1, HashSteps
<1>3. h \in Key
  BY <1>2, NextUnread
<1>4. net \in [Peer -> Seq(Key)] /\ read \in [Peer -> SUBSET Key]
  BY <1>1 DEF TypeOK
<1>5. s \in Seq(Key)
  BY <1>2, <1>4, HeadTailProperties
<1> HIDE DEF s, h
<1>6. net' \in [Peer -> Seq(Key)] /\ read' \in [Peer -> SUBSET Key]
  BY <1>2, <1>3, <1>4, <1>5
<1>7. /\ peerHash' \in [Peer -> Seq(Key)] /\ compared' \in [Peer -> SUBSET Key]
      /\ \A q \in Peer : Len(peerHash'[q]) <= RingSize
  <2>1. \A q \in Peer : q # p => Len(peerHash'[q]) <= RingSize
    <3>1. \A q \in Peer : q # p => peerHash'[q] = peerHash[q]
      BY HashQueued
    <3> QED
      BY <1>1, <3>1 DEF TypeOK
  <2> QED
    BY <2>1, HashQueued
<1> QED
  BY <1>1, <1>2, <1>6, <1>7 DEF TypeOK

LEMMA ExchangeInvHash ==
  ASSUME ExchangeInv, NEW p \in Peer, OnHash(p)
  PROVE  ExchangeInv'
<1> DEFINE h == Head(net[p])
           b == h.battle
<1>1. TypeOK /\ TypeOK' /\ \A q \in Peer : Sent(q)'
  BY HashTyped, HashSent DEF ExchangeInv
<1>2. /\ net[p] # <<>> /\ read' = [read EXCEPT ![p] = read[p] \cup {h}]
      /\ UNCHANGED <<battles, snapped, turn, myHash, passed, wide>>
  BY <1>1, HashSteps
<1>3. read \in [Peer -> SUBSET Key]
  BY <1>1 DEF TypeOK
<1>4. h \in Key
  BY <1>2, NextUnread
<1>5. /\ \A q \in Peer : q # p => peerHash'[q] = peerHash[q] /\ compared'[q] = compared[q]
      /\ Distinct(peerHash'[p])
      /\ \A x : In(x, peerHash[p]) => In(x, peerHash'[p])
      /\ \A x : In(x, peerHash'[p]) =>
           In(x, peerHash[p]) \/ (x = h /\ ~IsRetired(battles[p], x.battle) /\ ~Meets(p, x))
      /\ compared[p] \subseteq compared'[p]
      /\ ~IsRetired(battles[p], b) /\ Meets(p, h) => h \in compared'[p]
      /\ ~IsRetired(battles[p], b) /\ ~Meets(p, h) /\ Len(peerHash[p]) < RingSize
           => In(h, peerHash'[p])
  BY HashQueued
<1>6. ~wide /\ h \in passed[p] /\ ~IsRetired(battles[p], b) => Meets(p, h)
  BY <1>2, PassedIsMet
<1>7. ~wide /\ h \notin passed[p] => Len(peerHash[p]) < RingSize
  BY <1>2, RoomInRing
<1>8. Meets(p, h) => h \in passed[p]
  <2> SUFFICES ASSUME Meets(p, h) PROVE h \in passed[p]
    OBVIOUS
  <2> DEFINE r == myHash[p]
  <2>1. PICK i \in 1 .. Len(r) : HasKey(r[i], b, h.turn)
    BY DEF Meets, Holds, Matches
  <2>2. Owned(p) /\ Passing(p)
    BY DEF ExchangeInv
  <2>3. /\ turn[p] \in Nat /\ r \in Seq(Key) /\ h.turn \in Nat
    BY <1>1, <1>4, ExchangeTypes
  <2>4. Len(r) \in Nat
    BY <2>3, LenProperties
  <2>5. b = Held(p) /\ h.turn = turn[p] - Len(r) + i - 1
    <3>1. r[i] = [battle |-> Held(p), turn |-> turn[p] - Len(r) + i - 1]
      BY <2>2 DEF Owned
    <3> HIDE DEF r
    <3> QED
      BY <2>1, <3>1 DEF HasKey
  <2> HIDE DEF r, h
  <2>6. h.turn < turn[p]
    BY <2>3, <2>4, <2>5
  <2> QED
    BY <1>4, <2>2, <2>5, <2>6 DEF Passing
<1>9. b >= Entered(p) => ~IsRetired(battles[p], b)
  <2>1. b \in Battle /\ b \in Nat /\ Entered(p) \in Nat
    BY <1>1, <1>4, ExchangeTypes, Numbers
  <2>2. IsRetired(battles[p], b) => b < Entered(p)
    BY <2>1, Stale
  <2> QED
    BY <2>1, <2>2
<1> HIDE DEF h
<1>10. read'[p] = read[p] \cup {h} /\ \A q \in Peer : q # p => read'[q] = read[q]
  BY <1>2, <1>3
<1> SUFFICES ASSUME NEW q \in Peer
             PROVE  /\ Retiring(q)' /\ Passing(q)' /\ Owned(q)' /\ Sent(q)' /\ Queued(q)'
                    /\ (~wide)' => Few(q)' /\ Waits(q)' /\ Caught(q)'
  BY <1>1 DEF ExchangeInv
<1>11. Retiring(q) /\ Passing(q) /\ Owned(q) /\ Queued(q)
  BY DEF ExchangeInv
<1>12. Entered(q)' = Entered(q) /\ Held(q)' = Held(q)
  BY <1>2 DEF Entered, Held
<1>13. Retiring(q)' /\ Passing(q)' /\ Owned(q)'
  BY <1>2, <1>11, <1>12 DEF Retiring, Passing, Owned
<1>14. Queued(q)'
  <2>1. CASE q = p
    BY <1>5, <1>10, <1>11, <2>1 DEF Queued
  <2>2. CASE q # p
    BY <1>5, <1>10, <1>11, <2>2 DEF Queued
  <2> QED
    BY <2>1, <2>2
<1>15. ASSUME ~wide PROVE Few(q)' /\ Waits(q)' /\ Caught(q)'
  <2>1. Few(q) /\ Waits(q) /\ Caught(q)
    BY <1>15 DEF ExchangeInv
  <2>2. CASE q = p
    <3>1. Few(p)'
      <4> DEFINE U == passed[p] \ read[p]
                 V == passed[p] \ read'[p]
      <4>1. IsFiniteSet(U) /\ V \subseteq U
        <5>1. IsFiniteSet(passed[p])
          BY <1>11, <2>2 DEF Passing
        <5> QED
          BY <1>10, <5>1, FS_Subset
      <4> HIDE DEF U, V
      <4>2. Cardinality(V) <= Cardinality(U) /\ Cardinality(V) \in Nat /\ Cardinality(U) \in Nat
        BY <4>1, FS_Subset, FS_CardinalityType
      <4>3. Cardinality(U) <= RingSize
        BY <2>1, <2>2 DEF Few, U
      <4>4. Cardinality(V) <= RingSize
        BY <4>2, <4>3, RingSizeAssumption
      <4> QED
        BY <1>2, <4>4 DEF Few, V
    <3>2. Waits(p)'
      <4>1. \A x : In(x, peerHash[p]) => x \notin passed[p]
        BY <2>1, <2>2 DEF Waits
      <4>2. ~IsRetired(battles[p], b) /\ ~Meets(p, h) => h \notin passed[p]
        BY <1>6, <1>15
      <4> QED
        BY <1>2, <1>5, <4>1, <4>2 DEF Waits
    <3>3. Caught(p)'
      <4> SUFFICES ASSUME NEW k \in read'[p], k.battle >= Entered(p)
                   PROVE  /\ k \in passed[p] => k \in compared'[p]
                          /\ k \notin passed[p] => In(k, peerHash'[p])
        BY <1>2, <1>12, <2>2 DEF Caught
      <4>1. CASE k \in read[p]
        BY <1>5, <2>1, <2>2, <4>1 DEF Caught
      <4>2. CASE k = h
        <5>1. ~IsRetired(battles[p], b)
          BY <1>9, <4>2
        <5> QED
          BY <1>5, <1>6, <1>7, <1>8, <1>15, <4>2, <5>1
      <4> QED
        BY <1>10, <4>1, <4>2
    <3> QED
      BY <2>2, <3>1, <3>2, <3>3
  <2>3. CASE q # p
    BY <1>2, <1>5, <1>10, <1>12, <2>1, <2>3 DEF Few, Waits, Caught
  <2> QED
    BY <2>2, <2>3
<1> QED
  BY <1>1, <1>2, <1>13, <1>14, <1>15

LEMMA ExchangeInvNext == ExchangeInv /\ [Next]_vars => ExchangeInv'
<1> SUFFICES ASSUME ExchangeInv, [Next]_vars PROVE ExchangeInv'
  OBVIOUS
<1>1. CASE UNCHANGED vars
  <2>1. /\ UNCHANGED <<battles, snapped, turn, myHash, peerHash, net>>
        /\ UNCHANGED <<passed, read, compared, wide>>
    BY <1>1 DEF vars, historyVars
  <2>2. TypeOK'
    BY <2>1 DEF ExchangeInv, TypeOK
  <2>3. \A p \in Peer : Entered(p)' = Entered(p) /\ Held(p)' = Held(p)
    BY <2>1 DEF Entered, Held
  <2>4. ASSUME NEW p \in Peer
        PROVE  Retiring(p)' /\ Passing(p)' /\ Owned(p)' /\ Sent(p)' /\ Queued(p)'
    <3>1. Retiring(p) /\ Passing(p) /\ Owned(p) /\ Sent(p) /\ Queued(p)
      BY DEF ExchangeInv
    <3> QED
      BY <2>1, <2>3, <3>1 DEF Retiring, Passing, Owned, Sent, Queued
  <2>5. ASSUME NEW p \in Peer, ~wide PROVE Few(p)' /\ Waits(p)' /\ Caught(p)'
    <3>1. Few(p) /\ Waits(p) /\ Caught(p)
      BY <2>5 DEF ExchangeInv
    <3> QED
      BY <2>1, <2>3, <3>1 DEF Few, Waits, Caught
  <2> QED
    BY <2>1, <2>2, <2>4, <2>5 DEF ExchangeInv
<1>2. CASE Next
  <2>1. PICK p \in Peer : Enter(p) \/ TurnBoundary(p) \/ OnHash(p)
    BY <1>2 DEF Next
  <2> QED
    BY <2>1, ExchangeInvEnter, ExchangeInvBoundary, ExchangeInvHash
<1> QED
  BY <1>1, <1>2

LEMMA ExchangeInvCompared == ExchangeInv => EveryTurnCompared
<1> SUFFICES ASSUME ExchangeInv, \A p \in Peer : net[p] = <<>>, ~wide,
                    NEW k \in passed[Leader] \cap passed[Follower],
                    NEW p \in Peer, k.battle = battles[p].current
             PROVE  k \in compared[Leader] \cup compared[Follower]
  BY DEF EveryTurnCompared
<1>1. TypeOK /\ Sent(p) /\ Caught(p) /\ Other(p) \in Peer
  BY Others DEF ExchangeInv
<1>2. k \in passed[p] /\ k \in passed[Other(p)] /\ (p = Leader \/ p = Follower)
  BY DEF Peer, Other
<1>3. k \in Key /\ k.battle \in Nat /\ k.battle \in Battle
  BY <1>1, <1>2, ExchangeTypes
<1>4. ~In(k, net[p])
  BY EmptySeq DEF In
<1>5. k \in read[p]
  BY <1>1, <1>2, <1>3, <1>4 DEF Sent
<1>6. k.battle = Entered(p)
  BY <1>3, BoundAssumption DEF Entered
<1>7. k.battle >= Entered(p)
  BY <1>3, <1>6
<1>8. k \in compared[p]
  BY <1>1, <1>2, <1>5, <1>7 DEF Caught
<1> QED
  BY <1>2, <1>8

(* A turn both peers passed is compared by one of them, for every ring and *)
(* any number of battles, as long as neither has more turns behind it than *)
(* a ring holds unread from the other (HASH case of lockstep_pump, hash    *)
(* half of lockstep_turn_boundary).                                        *)
THEOREM TurnsAreCompared == Spec => []EveryTurnCompared
BY ExchangeInvInit, ExchangeInvNext, ExchangeInvCompared, PTL DEF Spec

(* Every variable of the exchange stays of its type.                       *)
THEOREM TurnsTyped == Spec => []TypeOK
<1>1. ExchangeInv => TypeOK
  BY DEF ExchangeInv
<1> QED
  BY <1>1, ExchangeInvInit, ExchangeInvNext, PTL DEF Spec

===============================================================================
