--------------------------- MODULE OwnershipProofs ---------------------------
(***************************************************************************)
(* Why every copy of a battle is split alike.  The host's table only ever  *)
(* grows at its end, so that all tables there are -- a client's, one it    *)
(* holds back, one on its way, one a battle was split by -- are beginnings *)
(* of it; and whoever enters a node has, by then, been told of every cat   *)
(* the run had when the host did.                                          *)
(*                                                                         *)
(* The second half is why ownership_forget is there: what the host need    *)
(* not send again, everyone it is linked to has had or has on the way      *)
(* (Told).                                                                 *)
(*                                                                         *)
(* And why a link neither loses nor shares a buffer of a message: a slot   *)
(* that is not queued points to none (from WrapIs on).                     *)
(***************************************************************************)
EXTENDS Ownership, Wire, ListProofs

Begins(s, t) == Len(s) <= Len(t) /\ \A i \in 1 .. Len(s) : s[i] = t[i]

(* The table a client plays by once it has applied what it holds back.     *)
Known(c) == IF pend[c] = <<>> THEN table[c] ELSE pend[c][1]

Letter ==
  [type : {"WELCOME"}] \cup [type : {"OWNERSHIP"}, table : Seq(Nat)]
    \cup [type : {"ENTERNODE"}, node : Node]

(* What a client will make of the letters s, being welcomed or not (r) and *)
(* knowing h slots: the letters it heeds, and whether it knows k slots     *)
(* when it comes to the i-th.                                              *)
Heeds(s, r, i) == r \/ \E w \in 1 .. i - 1 : s[w].type = "WELCOME"

Knows(s, r, h, i, k) ==
  \/ k <= h
  \/ \E j \in 1 .. i - 1 : s[j].type = "OWNERSHIP" /\ Heeds(s, r, j) /\ k <= Len(s[j].table)

(* The slots a battle of node n needs: those of the cats it began with.    *)
Need(n) == Capped(size[n])

Well ==
  /\ cats \in Nat
  /\ size \in [Node -> Nat]
  /\ here \in [Process -> Nat] /\ \A p \in Process : here[p] <= here[Host]
  /\ here[Host] <= MaxNodes
  /\ phase \in [Process -> {"map", "entered", "battle"}]
  /\ table \in [Process -> Seq(Nat)]
  /\ split = [p \in Process |-> split[p]]
  /\ pend \in [Client -> Seq(Seq(Nat))] /\ \A c \in Client : Len(pend[c]) <= 1
  /\ sentCount \in Seq(Nat)
  /\ ready \in [Process -> BOOLEAN] /\ snapped \in [Process -> BOOLEAN]
  /\ id \in [Client -> Nat]
  /\ chan \in [Client -> Seq(Letter)]
  /\ nodeQ \in [Client -> Seq(Node)]

(* No table is anything but a beginning of the host's.                     *)
Growth ==
  /\ Len(table[Host]) <= MaxOwnerSlots
  /\ \A n \in Node : n <= here[Host] => Need(n) <= Len(table[Host])
  /\ \A c \in Client : Begins(table[c], Known(c)) /\ Begins(Known(c), table[Host])

(* Whoever is in a node has had the slots its battle needs.                *)
Supplied ==
  \A p \in Process :
    /\ phase[p] = "entered" => here[p] \in Node /\ Need(here[p]) <= Len(table[p])
    /\ \A n \in DOMAIN split[p] :
         /\ n \in Node /\ n <= here[Host]
         /\ split[p][n] \in Seq(Nat)
         /\ Need(n) <= Len(split[p][n]) /\ Begins(split[p][n], table[Host])

Queued ==
  \A c \in Client : \A i \in 1 .. Len(nodeQ[c]) :
    nodeQ[c][i] <= here[Host] /\ Need(nodeQ[c][i]) <= Len(Known(c))

(* The letters s to a client that knows h slots, when the host's table is  *)
(* t, sz the sizes of the nodes, and last the host's node.                 *)
Sound(s, r, h, t, sz, last) ==
  /\ \A i \in 1 .. Len(s) :
       s[i].type = "OWNERSHIP" => h <= Len(s[i].table) /\ Begins(s[i].table, t)
  /\ \A i, j \in 1 .. Len(s) :
       i < j /\ s[i].type = "OWNERSHIP" /\ s[j].type = "OWNERSHIP" =>
         Len(s[i].table) <= Len(s[j].table)
  /\ \A i \in 1 .. Len(s) :
       s[i].type = "ENTERNODE" =>
         /\ s[i].node <= last
         /\ Heeds(s, r, i) => Knows(s, r, h, i, Capped(sz[s[i].node]))

(* Nobody the host counts as told is not.                                  *)
Told(s, r, h, due) ==
  Heeds(s, r, Len(s) + 1) /\ due # <<>> => Knows(s, r, h, Len(s) + 1, due[1])

Mail ==
  \A c \in Client :
    /\ Sound(chan[c], ready[c], Len(Known(c)), table[Host], size, here[Host])
    /\ id[c] # 0 => Told(chan[c], ready[c], Len(Known(c)), sentCount)
    /\ id[c] = 0 => ~ready[c] /\ chan[c] = <<>> /\ nodeQ[c] = <<>>
    /\ ~snapped[c] => pend[c] = <<>>

SplitInv == Well /\ Growth /\ Supplied /\ Queued /\ Mail
-------------------------------------------------------------------------------
(* How cats are shared out.                                                *)

LEMMA CappedIs ==
  ASSUME NEW n \in Nat
  PROVE  Capped(n) \in Nat /\ Capped(n) <= MaxOwnerSlots /\ Capped(n) <= n
         /\ (n <= MaxOwnerSlots => Capped(n) = n)
  BY SlotCapAssumption DEF Capped

LEMMA ShareIs ==
  ASSUME NEW t \in Seq(Nat), NEW p
  PROVE  Share(t, p) \in Nat
<1>1. DOMAIN t = 1 .. Len(t) /\ Len(t) \in Nat
  BY LenProperties
<1>2. PICK n : n = Len(t)
  OBVIOUS
<1>3. IsFiniteSet(1 .. n)
  BY <1>1, <1>2, FS_Interval
<1>4. {i \in DOMAIN t : t[i] = p} \in SUBSET (1 .. n)
  BY <1>1, <1>2
<1>5. IsFiniteSet({i \in DOMAIN t : t[i] = p})
  BY <1>3, <1>4, FS_Subset
<1> QED
  BY <1>5, FS_CardinalityType DEF Share

(* Somebody is the neediest.                                               *)
LEMMA NeediestIs ==
  ASSUME NEW t \in Seq(Nat), NEW n \in Nat, n # 0
  PROVE  Neediest(t, n) \in Nat
<1> DEFINE Id == 0 .. (n - 1)
           S == {Share(t, p) : p \in Id}
<1>1. S \in SUBSET Nat /\ S # {}
  <2>1. 0 \in Id
    OBVIOUS
  <2> QED
    BY <2>1, ShareIs
<1>2. PICK least \in S : \A k \in S : least <= k
  <2> HIDE DEF S
  <2> QED
    BY <1>1, LeastOne
<1> DEFINE Q == {p \in Id : Share(t, p) = least}
<1>3. Q \in SUBSET Nat /\ Q # {}
  BY <1>2
<1>4. PICK q \in Q : \A p \in Q : q <= p
  <2> HIDE DEF Q
  <2> QED
    BY <1>3, LeastOne
<1>5. q \in Id /\ Share(t, q) = least /\ q \in Nat
  BY <1>4
<1>6. ASSUME NEW p \in Id
      PROVE  Share(t, q) < Share(t, p) \/ (Share(t, q) = Share(t, p) /\ q <= p)
  <2>1. Share(t, p) \in Nat /\ least \in Nat /\ least <= Share(t, p)
    BY <1>1, <1>2, ShareIs
  <2>2. CASE p \in Q
    BY <2>2, <1>4, <1>5
  <2>3. CASE p \notin Q
    BY <2>1, <2>3, <1>5
  <2> QED
    BY <2>2, <2>3
<1>7. Neediest(t, n) \in Id
  <2> HIDE DEF S, Q
  <2> QED
    BY <1>5, <1>6 DEF Neediest
<1> QED
  BY <1>7

LEMMA InitialSplitIs ==
  ASSUME NEW total \in Nat, NEW peers \in Nat
  PROVE  InitialSplit(total, peers) \in Seq(Nat)
         /\ Len(InitialSplit(total, peers)) = Capped(total)
<1>1. PICK c, n : c = Capped(total) /\ n = AtLeastOne(peers)
  OBVIOUS
<1>2. c \in Nat /\ n \in Nat /\ n > 0
  BY <1>1, CappedIs DEF AtLeastOne
<1>3. PICK base, extra : base = c \div n /\ extra = c % n
  OBVIOUS
<1>4. base \in Nat /\ extra \in Nat /\ extra < n
  BY <1>2, <1>3
<1>5. PICK large : large = extra * (base + 1)
  OBVIOUS
<1>6. large \in Nat
  BY <1>4, <1>5
<1>7. base = 0 => large = c
  <2>1. base = 0 => extra = c
    BY <1>2, <1>3
  <2> QED
    BY <2>1, <1>4, <1>5
<1>8. ASSUME NEW i \in 1 .. c
      PROVE  (IF i <= large THEN (i - 1) \div (base + 1)
              ELSE extra + ((i - 1) - large) \div base) \in Nat
  <2>1. CASE i <= large
    <3>1. base + 1 > 0 /\ base + 1 \in Nat /\ i - 1 \in Nat
      BY <1>4
    <3>2. (i - 1) \div (base + 1) \in Nat
      BY <3>1
    <3> QED
      BY <2>1, <3>2
  <2>2. CASE ~(i <= large)
    <3>1. (i - 1) - large \in Nat /\ base # 0 /\ base \in Nat
      BY <2>2, <1>2, <1>4, <1>6, <1>7
    <3>2. PICK x : x = (i - 1) - large
      OBVIOUS
    <3>3. x \div base \in Nat
      BY <3>1, <3>2
    <3> QED
      BY <2>2, <3>2, <3>3, <1>4
  <2> QED
    BY <2>1, <2>2
<1> DEFINE f == [i \in 1 .. c |-> IF i <= large THEN (i - 1) \div (base + 1)
                                  ELSE extra + ((i - 1) - large) \div base]
<1>9. f \in [1 .. c -> Nat]
  BY <1>8
<1>10. InitialSplit(total, peers) = f
  BY <1>1, <1>3, <1>5 DEF InitialSplit
<1> HIDE DEF f
<1>11. f \in Seq(Nat) /\ Len(f) = c
  BY <1>2, <1>9
<1> QED
  BY <1>1, <1>10, <1>11

LEMMA BeginsSelf == ASSUME NEW s \in Seq(Nat) PROVE Begins(s, s)
<1>1. Len(s) \in Nat
  BY LenProperties
<1> QED
  BY <1>1 DEF Begins

LEMMA BeginsChain ==
  ASSUME NEW s \in Seq(Nat), NEW t \in Seq(Nat), NEW u \in Seq(Nat), Begins(s, t), Begins(t, u)
  PROVE  Begins(s, u)
<1>1. Len(s) \in Nat /\ Len(t) \in Nat /\ Len(u) \in Nat
  BY LenProperties
<1> QED
  BY <1>1 DEF Begins

(* Of two beginnings of one table the shorter begins the longer.           *)
LEMMA BeginsBoth ==
  ASSUME NEW s \in Seq(Nat), NEW t \in Seq(Nat), NEW u \in Seq(Nat),
         Begins(s, u), Begins(t, u), Len(s) <= Len(t)
  PROVE  Begins(s, t)
<1>1. Len(s) \in Nat /\ Len(t) \in Nat /\ Len(u) \in Nat
  BY LenProperties
<1> QED
  BY <1>1 DEF Begins

LEMMA BeginsEqual ==
  ASSUME NEW s \in Seq(Nat), NEW t \in Seq(Nat), Begins(s, t), Len(t) <= Len(s)
  PROVE  s = t
<1>1. Len(s) \in Nat /\ Len(t) \in Nat /\ Len(s) = Len(t)
  BY LenProperties DEF Begins
<1>2. \A i \in 1 .. Len(s) : s[i] = t[i]
  BY DEF Begins
<1> QED
  BY <1>1, <1>2, SeqEqual

LEMMA BeginsPrefix ==
  ASSUME NEW s \in Seq(Nat), NEW t \in Seq(Nat), Begins(s, t)
  PROVE  IsPrefix(s, t)
<1>1. PICK n : n = Len(s)
  OBVIOUS
<1>2. n \in Nat /\ n <= Len(t) /\ Len(t) \in Nat
  BY <1>1, LenProperties DEF Begins
<1>3. SubSeq(s, 1, n) = s
  BY <1>1, SubSeqFull
<1>4. /\ SubSeq(t, 1, n) \in Seq(Nat) /\ Len(SubSeq(t, 1, n)) = n
      /\ \A i \in 1 .. n : SubSeq(t, 1, n)[i] = t[i]
  BY <1>2
<1>5. s = SubSeq(t, 1, n)
  <2>1. PICK u : u = SubSeq(t, 1, n)
    OBVIOUS
  <2>2. u \in Seq(Nat) /\ Len(u) = Len(s) /\ \A i \in 1 .. Len(s) : s[i] = u[i]
    BY <1>1, <1>4, <2>1 DEF Begins
  <2>3. s = u
    BY <2>2, SeqEqual
  <2> QED
    BY <2>1, <2>3
<1> QED
  BY <1>1, <1>2, <1>3, <1>5 DEF IsPrefix

-------------------------------------------------------------------------------
(* extend_round_robin, slot by slot.                                       *)

More(t, total) == IF Capped(total) < Len(t) THEN 0 ELSE Capped(total) - Len(t)

Dealt(f, t, n, m) ==
  f = [k \in 0 .. m |-> IF k = 0 THEN t ELSE Append(f[k - 1], Neediest(f[k - 1], n))]

LEMMA DealsExist ==
  ASSUME NEW t, NEW n, NEW m \in Nat
  PROVE  \E f : Dealt(f, t, n, m)
<1> DEFINE S == {j \in Nat : \E f : Dealt(f, t, n, j)}
<1>1. 0 \in S
  <2>1. PICK f : f = [k \in 0 .. 0 |-> t]
    OBVIOUS
  <2>2. f = [k \in 0 .. 0 |-> IF k = 0 THEN t ELSE Append(f[k - 1], Neediest(f[k - 1], n))]
    BY <2>1
  <2> QED
    BY <2>2 DEF Dealt
<1>2. ASSUME NEW j \in Nat, j \in S PROVE j + 1 \in S
  <2>1. PICK f : Dealt(f, t, n, j)
    BY <1>2
  <2>2. PICK g : g = [k \in 0 .. j + 1 |->
                        IF k = j + 1 THEN Append(f[j], Neediest(f[j], n)) ELSE f[k]]
    OBVIOUS
  <2>3. ASSUME NEW k \in 0 .. j + 1
        PROVE  g[k] = IF k = 0 THEN t ELSE Append(g[k - 1], Neediest(g[k - 1], n))
    <3>1. CASE k = j + 1
      <4>1. g[k] = Append(f[j], Neediest(f[j], n)) /\ g[j] = f[j] /\ k - 1 = j /\ k # 0
        BY <2>2, <3>1
      <4> QED
        BY <4>1
    <3>2. CASE k # j + 1
      <4>1. k \in 0 .. j /\ g[k] = f[k]
        BY <2>2, <3>2
      <4>2. f[k] = IF k = 0 THEN t ELSE Append(f[k - 1], Neediest(f[k - 1], n))
        BY <2>1, <4>1 DEF Dealt
      <4>3. k # 0 => g[k - 1] = f[k - 1]
        BY <2>2, <3>2, <4>1
      <4> QED
        BY <4>1, <4>2, <4>3
    <3> QED
      BY <3>1, <3>2
  <2>4. Dealt(g, t, n, j + 1)
    <3>1. g = [k \in 0 .. j + 1 |-> g[k]]
      BY <2>2
    <3> QED
      BY <2>3, <3>1 DEF Dealt
  <2> QED
    BY <2>4
<1>3. Nat \subseteq S
  <2> HIDE DEF S
  <2> QED
    BY <1>1, <1>2, EveryNumber
<1> QED
  BY <1>3

LEMMA DealtSlots ==
  ASSUME NEW t \in Seq(Nat), NEW n \in Nat, n # 0, NEW m \in Nat, NEW f, Dealt(f, t, n, m)
  PROVE  f[m] \in Seq(Nat) /\ Len(f[m]) = Len(t) + m /\ Begins(t, f[m])
<1> DEFINE Good(k) == f[k] \in Seq(Nat) /\ Len(f[k]) = Len(t) + k /\ Begins(t, f[k])
           S == {k \in Nat : k <= m => Good(k)}
<1>1. 0 \in S
  <2>1. f[0] = t
    BY DEF Dealt
  <2>2. Len(t) \in Nat
    BY LenProperties
  <2> QED
    BY <2>1, <2>2, BeginsSelf
<1>2. ASSUME NEW k \in Nat, k \in S PROVE k + 1 \in S
  <2> SUFFICES ASSUME k + 1 <= m PROVE Good(k + 1)
    OBVIOUS
  <2>1. Good(k)
    BY <1>2
  <2>2. k + 1 \in 0 .. m /\ k + 1 # 0 /\ (k + 1) - 1 = k
    OBVIOUS
  <2>3. f[k + 1] = Append(f[k], Neediest(f[k], n))
    BY <2>2 DEF Dealt
  <2>4. PICK s, x : s = f[k] /\ x = Neediest(f[k], n)
    OBVIOUS
  <2>5. s \in Seq(Nat) /\ x \in Nat /\ Len(s) = Len(t) + k /\ Begins(t, s) /\ Len(t) \in Nat
    BY <2>1, <2>4, NeediestIs, LenProperties
  <2>6. PICK u : u = Append(s, x)
    OBVIOUS
  <2>7. u \in Seq(Nat) /\ Len(u) = Len(s) + 1 /\ \A i \in 1 .. Len(s) : u[i] = s[i]
    BY <2>5, <2>6, AppendProperties
  <2>8. Begins(t, u)
    <3>1. Len(s) \in Nat
      BY <2>5, LenProperties
    <3>2. Begins(s, u)
      BY <2>7, <3>1 DEF Begins
    <3> QED
      BY <2>5, <2>7, <3>2, BeginsChain
  <2> QED
    BY <2>3, <2>4, <2>5, <2>6, <2>7, <2>8
<1>3. Nat \subseteq S
  <2> HIDE DEF S
  <2> QED
    BY <1>1, <1>2, EveryNumber
<1>4. m \in S
  BY <1>3
<1> QED
  BY <1>4

LEMMA ExtendIs ==
  ASSUME NEW t \in Seq(Nat), NEW total \in Nat, NEW peers \in Nat
  PROVE  /\ ExtendRoundRobin(t, total, peers) \in Seq(Nat)
         /\ Len(ExtendRoundRobin(t, total, peers)) = Len(t) + More(t, total)
         /\ Begins(t, ExtendRoundRobin(t, total, peers))
<1>1. PICK n, m : n = AtLeastOne(peers) /\ m = More(t, total)
  OBVIOUS
<1>2. n \in Nat /\ n # 0 /\ m \in Nat
  <2>1. Capped(total) \in Nat /\ Len(t) \in Nat
    BY CappedIs, LenProperties
  <2> QED
    BY <1>1, <2>1 DEF AtLeastOne, More
<1>3. PICK f : f = CHOOSE g : g = [k \in 0 .. m |->
                     IF k = 0 THEN t ELSE Append(g[k - 1], Neediest(g[k - 1], n))]
  OBVIOUS
<1>4. ExtendRoundRobin(t, total, peers) = f[m]
  BY <1>1, <1>3 DEF ExtendRoundRobin, More
<1>5. Dealt(f, t, n, m)
  <2>1. \E g : g = [k \in 0 .. m |->
                     IF k = 0 THEN t ELSE Append(g[k - 1], Neediest(g[k - 1], n))]
    <3>1. PICK g : Dealt(g, t, n, m)
      BY <1>2, DealsExist
    <3> QED
      BY <3>1 DEF Dealt
  <2> QED
    BY <1>3, <2>1 DEF Dealt
<1>6. f[m] \in Seq(Nat) /\ Len(f[m]) = Len(t) + m /\ Begins(t, f[m])
  BY <1>2, <1>5, DealtSlots
<1> QED
  BY <1>1, <1>4, <1>6

LEMMA GrowIs ==
  ASSUME NEW t \in Seq(Nat), NEW total \in Nat, NEW peers \in Nat
  PROVE  /\ Grow(t, total, peers) \in Seq(Nat)
         /\ Begins(t, Grow(t, total, peers))
         /\ Capped(total) <= Len(Grow(t, total, peers))
         /\ Len(t) <= MaxOwnerSlots => Len(Grow(t, total, peers)) <= MaxOwnerSlots
<1>1. Capped(total) \in Nat /\ Capped(total) <= MaxOwnerSlots /\ Len(t) \in Nat
      /\ MaxOwnerSlots \in Nat
  BY CappedIs, LenProperties, SlotCapAssumption
<1>2. CASE t = <<>>
  <2>1. Grow(t, total, peers) = InitialSplit(total, peers)
    BY <1>2 DEF Grow
  <2>2. Len(t) = 0
    BY <1>2, EmptySeq
  <2>3. PICK g : g = InitialSplit(total, peers)
    OBVIOUS
  <2>4. g \in Seq(Nat) /\ Len(g) = Capped(total)
    BY <2>3, InitialSplitIs
  <2>5. Begins(t, g)
    BY <1>1, <2>2, <2>4 DEF Begins
  <2> QED
    BY <1>1, <2>1, <2>3, <2>4, <2>5
<1>3. CASE t # <<>>
  <2>1. Grow(t, total, peers) = ExtendRoundRobin(t, total, peers)
    BY <1>3 DEF Grow
  <2> QED
    BY <1>1, <2>1, ExtendIs DEF More
<1> QED
  BY <1>2, <1>3

-------------------------------------------------------------------------------
(* Letters on their way.                                                   *)

LEMMA LetterKinds ==
  ASSUME NEW m \in Letter
  PROVE  /\ m.type \in {"WELCOME", "OWNERSHIP", "ENTERNODE"}
         /\ m.type = "OWNERSHIP" => m.table \in Seq(Nat)
         /\ m.type = "ENTERNODE" => m.node \in Node
  BY DEF Letter

LEMMA HeedsAppend ==
  ASSUME NEW s \in Seq(Letter), NEW m \in Letter, NEW r, NEW i \in 1 .. Len(s) + 1
  PROVE  Heeds(Append(s, m), r, i) <=> Heeds(s, r, i)
<1>1. PICK u : u = Append(s, m)
  OBVIOUS
<1>2. Len(s) \in Nat /\ \A j \in 1 .. Len(s) : u[j] = s[j]
  BY <1>1, AppendProperties, LenProperties
<1>3. (\E w \in 1 .. i - 1 : u[w].type = "WELCOME") <=> (\E w \in 1 .. i - 1 : s[w].type = "WELCOME")
  BY <1>2
<1> QED
  BY <1>1, <1>3 DEF Heeds

LEMMA KnowsAppend ==
  ASSUME NEW s \in Seq(Letter), NEW m \in Letter, NEW r, NEW h, NEW i \in 1 .. Len(s) + 1, NEW k
  PROVE  Knows(Append(s, m), r, h, i, k) <=> Knows(s, r, h, i, k)
<1>1. PICK u : u = Append(s, m)
  OBVIOUS
<1>2. Len(s) \in Nat /\ \A j \in 1 .. Len(s) : u[j] = s[j]
  BY <1>1, AppendProperties, LenProperties
<1>3. \A j \in 1 .. i - 1 : j \in 1 .. Len(s) + 1 /\ u[j] = s[j]
  BY <1>2
<1>4. \A j \in 1 .. i - 1 : Heeds(u, r, j) <=> Heeds(s, r, j)
  BY <1>1, <1>3, HeedsAppend
<1> QED
  BY <1>1, <1>3, <1>4 DEF Knows

LEMMA SoundAppend ==
  ASSUME NEW s \in Seq(Letter), NEW m \in Letter, NEW r, NEW h \in Nat, NEW t \in Seq(Nat),
         NEW sz, NEW last,
         Sound(s, r, h, t, sz, last),
         m.type = "OWNERSHIP" => m.table = t /\ h <= Len(t),
         m.type = "ENTERNODE" => m.node <= last
           /\ (Heeds(s, r, Len(s) + 1) => Knows(s, r, h, Len(s) + 1, Capped(sz[m.node])))
  PROVE  Sound(Append(s, m), r, h, t, sz, last)
<1>1. PICK u, n : u = Append(s, m) /\ n = Len(s)
  OBVIOUS
<1>2. /\ n \in Nat /\ Len(u) = n + 1 /\ u[n + 1] = m
      /\ \A j \in 1 .. n : u[j] = s[j] /\ s[j] \in Letter
  BY <1>1, AppendProperties, LenProperties, ElementOfSeq
<1>3. ASSUME NEW i \in 1 .. Len(u)
      PROVE  i = n + 1 \/ i \in 1 .. n
  BY <1>2
<1>4. Begins(t, t)
  BY BeginsSelf
<1>5. ASSUME NEW i \in 1 .. Len(u), u[i].type = "OWNERSHIP"
      PROVE  h <= Len(u[i].table) /\ Begins(u[i].table, t)
  <2>1. CASE i = n + 1
    BY <2>1, <1>2, <1>4, <1>5
  <2>2. CASE i \in 1 .. n
    BY <2>2, <1>1, <1>2, <1>5 DEF Sound
  <2> QED
    BY <2>1, <2>2, <1>3
<1>6. ASSUME NEW i \in 1 .. Len(u), NEW j \in 1 .. Len(u),
             i < j, u[i].type = "OWNERSHIP", u[j].type = "OWNERSHIP"
      PROVE  Len(u[i].table) <= Len(u[j].table)
  <2>1. i \in 1 .. n
    BY <1>2, <1>6
  <2>2. CASE j = n + 1
    BY <2>1, <2>2, <1>2, <1>5, <1>6 DEF Begins
  <2>3. CASE j \in 1 .. n
    BY <2>1, <2>3, <1>1, <1>2, <1>6 DEF Sound
  <2> QED
    BY <2>2, <2>3, <1>3
<1>7. ASSUME NEW i \in 1 .. Len(u), u[i].type = "ENTERNODE"
      PROVE  u[i].node <= last /\ (Heeds(u, r, i) => Knows(u, r, h, i, Capped(sz[u[i].node])))
  <2>1. i \in 1 .. Len(s) + 1
    BY <1>1, <1>2
  <2>2. (Heeds(u, r, i) <=> Heeds(s, r, i))
        /\ \A k : Knows(u, r, h, i, k) <=> Knows(s, r, h, i, k)
    BY <2>1, <1>1, HeedsAppend, KnowsAppend
  <2>3. CASE i = n + 1
    BY <2>2, <2>3, <1>1, <1>2, <1>7
  <2>4. CASE i \in 1 .. n
    BY <2>2, <2>4, <1>1, <1>2, <1>7 DEF Sound
  <2> QED
    BY <2>3, <2>4, <1>3
<1> QED
  BY <1>1, <1>5, <1>6, <1>7 DEF Sound

(* The host's table grows, and the host goes on: nothing on its way is any *)
(* the less true.                                                          *)
LEMMA SoundLater ==
  ASSUME NEW s \in Seq(Letter), NEW r, NEW h \in Nat, NEW t \in Seq(Nat), NEW u \in Seq(Nat),
         NEW sz, NEW sy, NEW last \in Nat, NEW next \in Nat,
         Sound(s, r, h, t, sz, last), Begins(t, u), last <= next,
         \A n \in Node : n <= last => sy[n] = sz[n]
  PROVE  Sound(s, r, h, u, sy, next)
<1>1. \A i \in 1 .. Len(s) : s[i] \in Letter
  BY ElementOfSeq
<1>2. ASSUME NEW i \in 1 .. Len(s), s[i].type = "OWNERSHIP"
      PROVE  h <= Len(s[i].table) /\ Begins(s[i].table, u)
  BY <1>1, <1>2, LetterKinds, BeginsChain DEF Sound
<1>3. ASSUME NEW i \in 1 .. Len(s), s[i].type = "ENTERNODE"
      PROVE  s[i].node <= next /\ sy[s[i].node] = sz[s[i].node]
  <2>1. s[i].node <= last /\ s[i].node \in Node /\ s[i].node \in Nat
    BY <1>1, <1>3, LetterKinds DEF Sound, Node
  <2> QED
    BY <2>1
<1> QED
  BY <1>2, <1>3 DEF Sound

-------------------------------------------------------------------------------
(* A letter is read.                                                       *)

LEMMA HeedsTail ==
  ASSUME NEW s \in Seq(Letter), s # <<>>, NEW r, NEW r2,
         r2 <=> r \/ Head(s).type = "WELCOME",
         NEW i \in 1 .. Len(s)
  PROVE  Heeds(Tail(s), r2, i) <=> Heeds(s, r, i + 1)
<1>1. PICK u : u = Tail(s)
  OBVIOUS
<1>2. /\ Len(s) \in Nat /\ Head(s) = s[1]
      /\ \A j \in 1 .. Len(s) - 1 : u[j] = s[j + 1]
  BY <1>1, HeadTailProperties, LenProperties
<1>3. ASSUME NEW w \in 1 .. i - 1, u[w].type = "WELCOME"
      PROVE  \E v \in 1 .. (i + 1) - 1 : s[v].type = "WELCOME"
  BY <1>2, <1>3
<1>4. ASSUME NEW v \in 1 .. (i + 1) - 1, s[v].type = "WELCOME", v # 1
      PROVE  \E w \in 1 .. i - 1 : u[w].type = "WELCOME"
  <2>1. v - 1 \in 1 .. i - 1 /\ u[v - 1] = s[v]
    BY <1>2, <1>4
  <2> QED
    BY <2>1, <1>4
<1>5. 1 \in 1 .. (i + 1) - 1
  OBVIOUS
<1> QED
  BY <1>1, <1>2, <1>3, <1>4, <1>5 DEF Heeds

LEMMA KnowsTail ==
  ASSUME NEW s \in Seq(Letter), s # <<>>, NEW r, NEW r2,
         r2 <=> r \/ Head(s).type = "WELCOME",
         NEW h \in Nat, NEW h2 \in Nat, h <= h2,
         r /\ Head(s).type = "OWNERSHIP" => h2 = Len(Head(s).table),
         NEW i \in 1 .. Len(s), NEW k \in Nat, Knows(s, r, h, i + 1, k)
  PROVE  Knows(Tail(s), r2, h2, i, k)
<1>1. PICK u : u = Tail(s)
  OBVIOUS
<1>2. /\ Len(s) \in Nat /\ Head(s) = s[1]
      /\ \A j \in 1 .. Len(s) - 1 : u[j] = s[j + 1]
  BY <1>1, HeadTailProperties, LenProperties
<1>3. CASE k <= h
  BY <1>1, <1>3 DEF Knows
<1>4. CASE ~(k <= h)
  <2>1. PICK j \in 1 .. (i + 1) - 1 :
          s[j].type = "OWNERSHIP" /\ Heeds(s, r, j) /\ k <= Len(s[j].table)
    BY <1>4 DEF Knows
  <2>2. CASE j = 1
    <3>1. r
      BY <2>1, <2>2 DEF Heeds
    <3>2. k <= h2
      BY <3>1, <2>1, <2>2, <1>2
    <3> QED
      BY <3>2, <1>1 DEF Knows
  <2>3. CASE j # 1
    <3>1. PICK w : w = j - 1
      OBVIOUS
    <3>2. w \in 1 .. i - 1 /\ w \in 1 .. Len(s) /\ w + 1 = j /\ u[w] = s[j]
      BY <3>1, <2>3, <1>2
    <3>3. Heeds(u, r2, w)
      BY <3>2, <2>1, <1>1, HeedsTail
    <3> QED
      BY <3>2, <3>3, <2>1, <1>1 DEF Knows
  <2> QED
    BY <2>2, <2>3
<1> QED
  BY <1>3, <1>4

(* What a welcomed client reads first it has been told before.             *)
LEMMA KnowsFirst ==
  ASSUME NEW s, NEW r, NEW h, NEW k, Knows(s, r, h, 1, k)
  PROVE  k <= h
  BY DEF Knows

LEMMA SoundTail ==
  ASSUME NEW s \in Seq(Letter), s # <<>>, NEW r, NEW r2,
         r2 <=> r \/ Head(s).type = "WELCOME",
         NEW h \in Nat, NEW h2 \in Nat, h <= h2,
         r /\ Head(s).type = "OWNERSHIP" => h2 = Len(Head(s).table),
         ~(r /\ Head(s).type = "OWNERSHIP") => h2 = h,
         NEW t, NEW sz \in [Node -> Nat], NEW last, Sound(s, r, h, t, sz, last)
  PROVE  Sound(Tail(s), r2, h2, t, sz, last)
<1>1. PICK u, n : u = Tail(s) /\ n = Len(u)
  OBVIOUS
<1>2. /\ Len(s) \in Nat /\ n \in Nat /\ Len(s) = n + 1 /\ Head(s) = s[1]
      /\ \A i \in 1 .. n : u[i] = s[i + 1] /\ i + 1 \in 1 .. Len(s) /\ i \in 1 .. Len(s)
      /\ \A i \in 1 .. Len(s) : s[i] \in Letter
  <2>1. /\ u \in Seq(Letter) /\ Len(u) = Len(s) - 1 /\ Head(s) = s[1]
        /\ \A j \in 1 .. Len(s) - 1 : u[j] = s[j + 1]
    BY <1>1, HeadTailProperties
  <2>2. Len(s) \in Nat /\ n \in Nat /\ \A i \in 1 .. Len(s) : s[i] \in Letter
    BY <2>1, <1>1, LenProperties, ElementOfSeq
  <2> QED
    BY <2>1, <2>2, <1>1
<1>3. ASSUME NEW i \in 1 .. n, u[i].type = "OWNERSHIP"
      PROVE  h2 <= Len(u[i].table) /\ Begins(u[i].table, t)
  <2>1. h <= Len(s[i + 1].table) /\ Begins(s[i + 1].table, t)
    BY <1>2, <1>3 DEF Sound
  <2>2. CASE r /\ Head(s).type = "OWNERSHIP"
    <3>1. 1 \in 1 .. Len(s) /\ 1 < i + 1
      BY <1>2
    <3>2. Len(s[1].table) <= Len(s[i + 1].table)
      BY <3>1, <2>2, <1>2, <1>3 DEF Sound
    <3> QED
      BY <3>2, <2>1, <2>2, <1>2
  <2>3. CASE ~(r /\ Head(s).type = "OWNERSHIP")
    BY <2>1, <2>3, <1>2
  <2> QED
    BY <2>2, <2>3
<1>4. ASSUME NEW i \in 1 .. n, NEW j \in 1 .. n,
             i < j, u[i].type = "OWNERSHIP", u[j].type = "OWNERSHIP"
      PROVE  Len(u[i].table) <= Len(u[j].table)
  <2>1. i + 1 < j + 1
    BY <1>4
  <2> QED
    BY <2>1, <1>2, <1>4 DEF Sound
<1>5. ASSUME NEW i \in 1 .. n, u[i].type = "ENTERNODE"
      PROVE  u[i].node <= last /\ (Heeds(u, r2, i) => Knows(u, r2, h2, i, Capped(sz[u[i].node])))
  <2>1. s[i + 1].node <= last
        /\ (Heeds(s, r, i + 1) => Knows(s, r, h, i + 1, Capped(sz[u[i].node])))
    BY <1>2, <1>5 DEF Sound
  <2>0. i \in 1 .. Len(s) /\ u[i] \in Letter
    BY <1>2
  <2>2. Heeds(u, r2, i) <=> Heeds(s, r, i + 1)
    BY <2>0, <1>1, HeedsTail
  <2>3. Capped(sz[u[i].node]) \in Nat
    <3>1. u[i].node \in Node
      BY <2>0, <1>5, LetterKinds
    <3>2. sz[u[i].node] \in Nat
      BY <3>1
    <3> QED
      BY <3>2, CappedIs
  <2>4. Knows(s, r, h, i + 1, Capped(sz[u[i].node])) => Knows(u, r2, h2, i, Capped(sz[u[i].node]))
    BY <2>0, <2>3, <1>1, KnowsTail
  <2> QED
    BY <2>1, <2>2, <2>4, <1>2
<1> QED
  BY <1>1, <1>3, <1>4, <1>5 DEF Sound

LEMMA ToldTail ==
  ASSUME NEW s \in Seq(Letter), s # <<>>, NEW r, NEW r2,
         r2 <=> r \/ Head(s).type = "WELCOME",
         NEW h \in Nat, NEW h2 \in Nat, h <= h2,
         r /\ Head(s).type = "OWNERSHIP" => h2 = Len(Head(s).table),
         NEW due \in Seq(Nat), Told(s, r, h, due)
  PROVE  Told(Tail(s), r2, h2, due)
<1>1. PICK u, n : u = Tail(s) /\ n = Len(s)
  OBVIOUS
<1>2. n \in Nat /\ n \in 1 .. Len(s) /\ Len(u) + 1 = n
  <2>1. Len(u) = Len(s) - 1 /\ Len(s) \in Nat /\ Len(s) # 0
    BY <1>1, HeadTailProperties, LenProperties, EmptySeq
  <2> QED
    BY <2>1, <1>1
<1>3. SUFFICES ASSUME Heeds(u, r2, n), due # <<>> PROVE Knows(u, r2, h2, n, due[1])
  BY <1>1, <1>2 DEF Told
<1>4. due[1] \in Nat
  <2>1. Len(due) \in Nat /\ Len(due) # 0
    BY <1>3, LenProperties, EmptySeq
  <2>2. 1 \in 1 .. Len(due)
    BY <2>1
  <2> QED
    BY <2>2, ElementOfSeq
<1>5. Heeds(s, r, n + 1)
  BY <1>1, <1>2, <1>3, HeedsTail
<1>6. Knows(s, r, h, n + 1, due[1])
  BY <1>1, <1>3, <1>5 DEF Told
<1> QED
  BY <1>1, <1>2, <1>4, <1>6, KnowsTail

-------------------------------------------------------------------------------
(* ownership_publish.                                                      *)

LEMMA CountIs ==
  IsFiniteSet(Live) /\ PeerCount \in Nat /\ (Live # {} => PeerCount >= 2)
<1>1. IsFiniteSet(Live)
  BY ProcessAssumption, FS_Subset DEF Live
<1>2. Cardinality(Live) \in Nat
  BY <1>1, FS_CardinalityType
<1>3. Live # {} => Cardinality(Live) # 0
  BY <1>1, FS_EmptySet
<1> QED
  BY <1>1, <1>2, <1>3 DEF PeerCount

LEMMA GrownIs ==
  ASSUME Well, Growth
  PROVE  /\ Grown \in Seq(Nat) /\ Begins(table[Host], Grown) /\ Len(Grown) <= MaxOwnerSlots
         /\ Live # {} => Capped(cats) <= Len(Grown)
<1>1. table[Host] \in Seq(Nat) /\ cats \in Nat /\ PeerCount \in Nat
      /\ (Live # {} => PeerCount >= 2) /\ Len(table[Host]) <= MaxOwnerSlots
  BY CountIs DEF Well, Growth, Process
<1>2. PICK n : n = PeerCount
  OBVIOUS
<1>3. NoTable \in Seq(Nat) /\ Len(NoTable) = 0
  BY EmptySeq DEF NoTable
<1>4. CASE table[Host] = NoTable /\ ~(PeerCount >= 2)
  <2>1. Grown = NoTable
    BY <1>4 DEF Grown
  <2> QED
    BY <2>1, <1>1, <1>3, <1>4, BeginsSelf, SlotCapAssumption
<1>5. CASE ~(table[Host] = NoTable /\ ~(PeerCount >= 2))
  <2>1. Grown = Grow(table[Host], cats, n)
    BY <1>2, <1>5 DEF Grown
  <2> QED
    BY <2>1, <1>1, <1>2, GrowIs
<1> QED
  BY <1>4, <1>5

LEMMA KnownIs ==
  ASSUME Well, NEW c \in Client
  PROVE  /\ Known(c) \in Seq(Nat) /\ Len(Known(c)) \in Nat
         /\ table[c] \in Seq(Nat) /\ Len(table[c]) \in Nat
         /\ table[Host] \in Seq(Nat) /\ Len(table[Host]) \in Nat /\ c # Host
<1>1. c \in Process /\ Host \in Process /\ c # Host
  BY ProcessAssumption DEF Process
<1>2. table[c] \in Seq(Nat) /\ table[Host] \in Seq(Nat) /\ pend[c] \in Seq(Seq(Nat))
  BY <1>1 DEF Well
<1>3. pend[c] # <<>> => pend[c][1] \in Seq(Nat)
  <2> SUFFICES ASSUME pend[c] # <<>> PROVE pend[c][1] \in Seq(Nat)
    OBVIOUS
  <2>1. Len(pend[c]) \in Nat /\ Len(pend[c]) # 0
    BY <1>2, LenProperties, EmptySeq
  <2>2. 1 \in 1 .. Len(pend[c])
    BY <2>1
  <2> QED
    BY <2>2, <1>2, ElementOfSeq
<1>4. Known(c) \in Seq(Nat)
  BY <1>2, <1>3 DEF Known
<1> QED
  BY <1>1, <1>2, <1>4, LenProperties

LEMMA SoundEmpty ==
  ASSUME NEW r, NEW h, NEW t, NEW sz, NEW last
  PROVE  Sound(<<>>, r, h, t, sz, last)
<1>1. PICK s : s = <<>>
  OBVIOUS
<1>2. Len(s) = 0
  BY <1>1
<1>3. \A i \in 1 .. Len(s) : FALSE
  BY <1>2
<1>4. Sound(s, r, h, t, sz, last)
  BY <1>3 DEF Sound
<1> QED
  BY <1>1, <1>4

LEMMA KnowsLess ==
  ASSUME NEW s \in Seq(Letter), NEW r, NEW h \in Nat, NEW k \in Nat, NEW l \in Nat, l <= k,
         Knows(s, r, h, Len(s) + 1, k)
  PROVE  Knows(s, r, h, Len(s) + 1, l)
<1>1. CASE k <= h
  BY <1>1 DEF Knows
<1>2. CASE ~(k <= h)
  <2>1. PICK j \in 1 .. (Len(s) + 1) - 1 :
          s[j].type = "OWNERSHIP" /\ Heeds(s, r, j) /\ k <= Len(s[j].table)
    BY <1>2 DEF Knows
  <2>2. s[j] \in Letter
    <3>1. Len(s) \in Nat
      BY LenProperties
    <3>2. j \in 1 .. Len(s)
      BY <3>1
    <3> QED
      BY <3>2, ElementOfSeq
  <2>3. Len(s[j].table) \in Nat
    BY <2>1, <2>2, LetterKinds, LenProperties
  <2>4. l <= Len(s[j].table)
    BY <2>1, <2>3
  <2> QED
    BY <2>1, <2>4 DEF Knows
<1> QED
  BY <1>1, <1>2

LEMMA ToldAppend ==
  ASSUME NEW s \in Seq(Letter), NEW m \in Letter, m.type = "ENTERNODE", NEW r, NEW h \in Nat,
         NEW due \in Seq(Nat), Told(s, r, h, due)
  PROVE  Told(Append(s, m), r, h, due)
<1>1. PICK u, n : u = Append(s, m) /\ n = Len(s)
  OBVIOUS
<1>2. /\ n \in Nat /\ Len(u) = n + 1 /\ u[n + 1] = m /\ \A j \in 1 .. n : u[j] = s[j]
  BY <1>1, AppendProperties, LenProperties
<1>3. SUFFICES ASSUME Heeds(u, r, (n + 1) + 1), due # <<>>
               PROVE  Knows(u, r, h, (n + 1) + 1, due[1])
  BY <1>1, <1>2 DEF Told
<1>4. Heeds(s, r, n + 1)
  <2>1. CASE r
    BY <2>1 DEF Heeds
  <2>2. CASE ~r
    <3>1. PICK w \in 1 .. ((n + 1) + 1) - 1 : u[w].type = "WELCOME"
      BY <2>2, <1>3 DEF Heeds
    <3>2. w # n + 1
      BY <3>1, <1>2
    <3>3. w \in 1 .. (n + 1) - 1 /\ w \in 1 .. n
      BY <3>2, <1>2
    <3> QED
      BY <3>1, <3>3, <1>2 DEF Heeds
  <2> QED
    BY <2>1, <2>2
<1>5. Knows(s, r, h, n + 1, due[1])
  BY <1>1, <1>3, <1>4 DEF Told
<1>6. Knows(u, r, h, n + 1, due[1])
  BY <1>1, <1>2, <1>5, KnowsAppend
<1>7. CASE due[1] <= h
  BY <1>7 DEF Knows
<1>8. CASE ~(due[1] <= h)
  <2>1. PICK j \in 1 .. (n + 1) - 1 :
          u[j].type = "OWNERSHIP" /\ Heeds(u, r, j) /\ due[1] <= Len(u[j].table)
    BY <1>6, <1>8 DEF Knows
  <2>2. j \in 1 .. ((n + 1) + 1) - 1
    BY <1>2
  <2> QED
    BY <2>1, <2>2 DEF Knows
<1> QED
  BY <1>7, <1>8

(* After a publish everyone linked to the host has had, or has on the way, *)
(* the table it stands at, whether the publish sent it or left it out.     *)
LEMMA Publish ==
  ASSUME Well, Growth, NEW b \in Seq(Letter), NEW r, NEW h \in Nat, h <= Len(table[Host]),
         NEW due \in Seq(Nat), PublishTable(due), Live # {},
         Sound(b, r, h, table[Host], size, here[Host]), Told(b, r, h, due),
         NEW s, s = b \o Tidings(due)
  PROVE  /\ s \in Seq(Letter)
         /\ Sound(s, r, h, Grown, size, here[Host])
         /\ Heeds(s, r, Len(s) + 1) => Knows(s, r, h, Len(s) + 1, Len(Grown))
         /\ Told(s, r, h, sentCount')
<1>1. PICK t, g : t = table[Host] /\ g = Grown
  OBVIOUS
<1>2. /\ t \in Seq(Nat) /\ g \in Seq(Nat) /\ Begins(t, g) /\ Len(t) \in Nat /\ Len(g) \in Nat
      /\ h <= Len(g) /\ here[Host] \in Nat
  <2>1. t \in Seq(Nat) /\ g \in Seq(Nat) /\ Begins(t, g) /\ here[Host] \in Nat
    BY <1>1, GrownIs DEF Well, Process
  <2>2. Len(t) \in Nat /\ Len(g) \in Nat /\ Len(t) <= Len(g)
    BY <2>1, LenProperties DEF Begins
  <2> QED
    BY <2>1, <2>2, <1>1
<1>3. Sound(b, r, h, g, size, here[Host])
  <2>1. PICK w, z : w = here[Host] /\ z = size
    OBVIOUS
  <2>2. Sound(b, r, h, t, z, w) /\ w \in Nat /\ w <= w /\ \A n \in Node : n <= w => z[n] = z[n]
    BY <1>1, <1>2, <2>1
  <2>3. Sound(b, r, h, g, z, w)
    BY <2>2, <1>2, SoundLater
  <2> QED
    BY <2>1, <2>3
<1>4. CASE Unsent(due)
  <2>1. PICK m : m = [type |-> "OWNERSHIP", table |-> g]
    OBVIOUS
  <2>2. m \in Letter /\ m.type = "OWNERSHIP" /\ m.table = g
    BY <2>1, <1>2 DEF Letter
  <2>3. s = Append(b, m)
    BY <2>1, <2>2, <1>1, <1>4, AppendIsConcat DEF Tidings
  <2>4. s \in Seq(Letter) /\ Len(s) = Len(b) + 1 /\ s[Len(b) + 1] = m /\ Len(b) \in Nat
    BY <2>2, <2>3, AppendProperties, LenProperties
  <2>5. Sound(s, r, h, g, size, here[Host])
    BY <2>2, <2>3, <1>2, <1>3, SoundAppend
  <2>6. ASSUME Heeds(s, r, Len(s) + 1) PROVE Knows(s, r, h, Len(s) + 1, Len(g))
    <3>1. PICK n : n = Len(b) + 1
      OBVIOUS
    <3>2. n \in Nat /\ Len(s) = n /\ s[n] = m /\ n \in 1 .. (n + 1) - 1
      BY <2>4, <3>1
    <3>3. Heeds(s, r, n)
      <4>1. CASE r
        BY <4>1 DEF Heeds
      <4>2. CASE ~r
        <5>1. PICK w \in 1 .. (n + 1) - 1 : s[w].type = "WELCOME"
          BY <2>6, <4>2, <3>2 DEF Heeds
        <5>2. w # n
          BY <5>1, <3>2, <2>2
        <5>3. w \in 1 .. n - 1
          BY <5>2, <3>2
        <5> QED
          BY <5>1, <5>3 DEF Heeds
      <4> QED
        BY <4>1, <4>2
    <3>4. Len(g) <= Len(s[n].table)
      BY <3>2, <2>2, <1>2
    <3>5. s[n].type = "OWNERSHIP"
      BY <3>2, <2>2
    <3> QED
      BY <3>2, <3>3, <3>4, <3>5 DEF Knows
  <2>7. sentCount' = <<Len(g)>>
    BY <1>1, <1>4 DEF PublishTable
  <2>8. Told(s, r, h, sentCount')
    BY <2>6, <2>7 DEF Told
  <2> QED
    BY <1>1, <2>4, <2>5, <2>6, <2>8
<1>5. CASE ~Unsent(due)
  <2>1. s = b
    BY <1>5, ConcatEmptySeq DEF Tidings
  <2>2. sentCount' = due
    BY <1>5 DEF PublishTable
  <2>3. ASSUME Heeds(b, r, Len(b) + 1) PROVE Knows(b, r, h, Len(b) + 1, Len(g))
    <3>1. CASE g = NoTable
      <4>1. Len(g) <= h
        BY <3>1, EmptySeq DEF NoTable
      <4> QED
        BY <4>1 DEF Knows
    <3>2. CASE g # NoTable
      <4>1. due = <<Len(g)>>
        BY <3>2, <1>1, <1>5 DEF Unsent
      <4>2. due # <<>> /\ due[1] = Len(g)
        BY <4>1
      <4> QED
        BY <4>2, <2>3 DEF Told
    <3> QED
      BY <3>1, <3>2
  <2> QED
    BY <2>1, <2>2, <2>3, <1>1, <1>3
<1> QED
  BY <1>4, <1>5

-------------------------------------------------------------------------------
(* The invariant holds at the beginning.                                   *)

LEMMA SplitInit == Init => SplitInv
<1> SUFFICES ASSUME Init PROVE SplitInv
  OBVIOUS
<1>1. Host \in Process /\ Client \subseteq Process /\ Host \notin Client
  BY ProcessAssumption DEF Process
<1>2. <<>> \in Seq(Nat) /\ <<>> \in Seq(Node) /\ <<>> \in Seq(Letter) /\ <<>> \in Seq(Seq(Nat))
      /\ Len(<<>>) = 0 /\ DOMAIN <<>> = {}
  BY EmptySeq
<1>3. MaxNodes \in Nat /\ MaxOwnerSlots \in Nat
  BY OwnershipBounds, SlotCapAssumption
<1>4. \A p \in Process : /\ here[p] = 0 /\ phase[p] = "map" /\ split[p] = <<>> /\ table[p] = <<>>
                         /\ ready[p] = FALSE /\ snapped[p] = FALSE
  BY DEF Init, NoTable
<1>5. \A c \in Client : pend[c] = <<>> /\ id[c] = 0 /\ chan[c] = <<>> /\ nodeQ[c] = <<>>
  BY DEF Init
<1>6. Well
  <2>1. cats \in Nat /\ size \in [Node -> Nat] /\ sentCount \in Seq(Nat)
    BY <1>2 DEF Init
  <2>2. here \in [Process -> Nat] /\ phase \in [Process -> {"map", "entered", "battle"}]
        /\ ready \in [Process -> BOOLEAN] /\ snapped \in [Process -> BOOLEAN]
    BY DEF Init
  <2>3. table \in [Process -> Seq(Nat)] /\ pend \in [Client -> Seq(Seq(Nat))]
        /\ id \in [Client -> Nat] /\ chan \in [Client -> Seq(Letter)] /\ nodeQ \in [Client -> Seq(Node)]
    BY <1>2 DEF Init, NoTable
  <2>4. split = [p \in Process |-> split[p]]
    BY DEF Init
  <2> QED
    BY <2>1, <2>2, <2>3, <2>4, <1>1, <1>2, <1>3, <1>4, <1>5 DEF Well
<1>7. Growth
  <2>1. ASSUME NEW n \in Node, n <= here[Host] PROVE FALSE
    BY <2>1, <1>1, <1>4 DEF Node
  <2>2. \A c \in Client : Known(c) = <<>> /\ table[c] = <<>>
    BY <1>1, <1>4, <1>5 DEF Known
  <2>3. Begins(<<>>, <<>>)
    BY <1>2, BeginsSelf
  <2> QED
    BY <2>1, <2>2, <2>3, <1>1, <1>2, <1>3, <1>4 DEF Growth
<1>8. Supplied
  BY <1>2, <1>4 DEF Supplied
<1>9. Queued
  <2>1. \A i \in 1 .. Len(<<>>) : FALSE
    BY <1>2
  <2> QED
    BY <2>1, <1>5 DEF Queued
<1>10. Mail
  <2>1. ASSUME NEW c \in Client PROVE Sound(chan[c], ready[c], Len(Known(c)), table[Host], size, here[Host])
    BY <1>5, SoundEmpty
  <2> QED
    BY <2>1, <1>1, <1>4, <1>5 DEF Mail
<1> QED
  BY <1>6, <1>7, <1>8, <1>9, <1>10 DEF SplitInv

-------------------------------------------------------------------------------
(* The host speaks.                                                        *)

(* The host's table grows, and it may enter a node as it does.             *)
LEMMA TableGrows ==
  ASSUME SplitInv, table' = [table EXCEPT ![Host] = Grown],
         UNCHANGED <<split, pend, nodeQ>>,
         \A c \in Client : here'[c] = here[c] /\ phase'[c] = phase[c],
         here'[Host] \in Nat, here[Host] <= here'[Host],
         \A n \in Node : n <= here[Host] => size'[n] = size[n],
         \A n \in Node : n <= here'[Host] => Capped(size'[n]) <= Len(Grown),
         phase'[Host] = "entered" => here'[Host] \in Node
  PROVE  Growth' /\ Supplied' /\ Queued' /\ \A c \in Client : Known(c)' = Known(c)
<1>1. Well /\ Growth /\ Supplied /\ Queued
  BY DEF SplitInv
<1>2. Host \in Process /\ Client \subseteq Process /\ Host \notin Client
      /\ \A p \in Process : p = Host \/ p \in Client
  BY ProcessAssumption DEF Process
<1>3. /\ table'[Host] = Grown /\ \A c \in Client : table'[c] = table[c]
      /\ table[Host] \in Seq(Nat) /\ here[Host] \in Nat /\ \A p \in Process : here[p] \in Nat
  BY <1>1, <1>2 DEF Well
<1>4. Grown \in Seq(Nat) /\ Begins(table[Host], Grown) /\ Len(Grown) <= MaxOwnerSlots
      /\ Len(Grown) \in Nat
  BY <1>1, GrownIs, LenProperties
<1>5. ASSUME NEW c \in Client PROVE Known(c)' = Known(c)
  BY <1>3 DEF Known
<1>6. Growth'
  <2>1. ASSUME NEW n \in Node, n <= here'[Host] PROVE Need(n)' <= Len(Grown)
    BY <2>1 DEF Need
  <2>2. ASSUME NEW c \in Client
        PROVE  Begins(table'[c], Known(c)') /\ Begins(Known(c)', Grown)
    <3>1. Begins(table[c], Known(c)) /\ Begins(Known(c), table[Host])
      BY <1>1 DEF Growth
    <3>2. Begins(Known(c), Grown)
      BY <3>1, <1>1, <1>3, <1>4, KnownIs, BeginsChain
    <3> QED
      BY <3>1, <3>2, <1>3, <1>5
  <2> QED
    BY <2>1, <2>2, <1>3, <1>4 DEF Growth
<1>7. ASSUME NEW n \in Node, n <= here[Host] PROVE Capped(size'[n]) = Need(n) /\ n <= here'[Host]
  <2>1. n \in Nat
    BY DEF Node
  <2> QED
    BY <2>1, <1>3, <1>7 DEF Need
<1>8. Supplied'
  <2> SUFFICES ASSUME NEW p \in Process
               PROVE  /\ phase'[p] = "entered" =>
                           here'[p] \in Node /\ Capped(size'[here'[p]]) <= Len(table'[p])
                      /\ \A n \in DOMAIN split[p] :
                           /\ n \in Node /\ n <= here'[Host]
                           /\ split[p][n] \in Seq(Nat)
                           /\ Capped(size'[n]) <= Len(split[p][n]) /\ Begins(split[p][n], Grown)
    BY <1>3 DEF Supplied, Need
  <2>1. ASSUME NEW n \in DOMAIN split[p]
        PROVE  /\ n \in Node /\ n <= here'[Host]
               /\ split[p][n] \in Seq(Nat)
               /\ Capped(size'[n]) <= Len(split[p][n]) /\ Begins(split[p][n], Grown)
    <3>1. /\ n \in Node /\ n <= here[Host] /\ split[p][n] \in Seq(Nat)
          /\ Need(n) <= Len(split[p][n]) /\ Begins(split[p][n], table[Host])
      BY <1>1 DEF Supplied
    <3>2. Begins(split[p][n], Grown)
      BY <3>1, <1>3, <1>4, BeginsChain
    <3> QED
      BY <3>1, <3>2, <1>7
  <2>2. ASSUME phase'[p] = "entered"
        PROVE  here'[p] \in Node /\ Capped(size'[here'[p]]) <= Len(table'[p])
    <3>1. CASE p = Host
      <4>1. here'[Host] \in Node /\ here'[Host] <= here'[Host]
        BY <2>2, <3>1
      <4> QED
        BY <4>1, <3>1, <1>3
    <3>2. CASE p \in Client
      <4>1. here[p] \in Node /\ Need(here[p]) <= Len(table[p]) /\ here[p] <= here[Host]
        BY <3>2, <2>2, <1>1 DEF Supplied, Well
      <4>2. here'[p] = here[p] /\ table'[p] = table[p]
        BY <3>2, <1>3
      <4>3. Capped(size'[here'[p]]) = Need(here[p])
        BY <4>1, <4>2, <1>7 DEF Need
      <4> QED
        BY <4>1, <4>2, <4>3
    <3> QED
      BY <3>1, <3>2, <1>2
  <2> QED
    BY <2>1, <2>2
<1>9. Queued'
  <2> SUFFICES ASSUME NEW c \in Client, NEW i \in 1 .. Len(nodeQ[c])
               PROVE  nodeQ[c][i] <= here'[Host] /\ Capped(size'[nodeQ[c][i]]) <= Len(Known(c))
    BY <1>5 DEF Queued, Need
  <2>1. nodeQ[c][i] <= here[Host] /\ Need(nodeQ[c][i]) <= Len(Known(c))
    BY <1>1 DEF Queued
  <2>2. nodeQ[c][i] \in Node
    BY <1>1, ElementOfSeq DEF Well
  <2> QED
    BY <2>1, <2>2, <1>7
<1> QED
  BY <1>5, <1>6, <1>8, <1>9

(* What the host knows of a client's letters before it writes another.     *)
LEMMA MailOf ==
  ASSUME SplitInv, NEW c \in Client
  PROVE  /\ chan[c] \in Seq(Letter) /\ Len(Known(c)) \in Nat /\ Len(Known(c)) <= Len(table[Host])
         /\ Sound(chan[c], ready[c], Len(Known(c)), table[Host], size, here[Host])
         /\ id[c] # 0 => Told(chan[c], ready[c], Len(Known(c)), sentCount)
         /\ id[c] = 0 => ~ready[c] /\ chan[c] = <<>> /\ nodeQ[c] = <<>>
         /\ ~snapped[c] => pend[c] = <<>>
<1>1. Well /\ Growth /\ Mail
  BY DEF SplitInv
<1>2. Begins(Known(c), table[Host])
  BY <1>1 DEF Growth
<1>3. chan[c] \in Seq(Letter)
  BY <1>1 DEF Well
<1> QED
  BY <1>1, <1>2, <1>3, KnownIs DEF Mail, Begins

LEMMA HostFacts ==
  ASSUME SplitInv
  PROVE  /\ Host \in Process /\ Client \subseteq Process /\ Host \notin Client
         /\ \A p \in Process : p = Host \/ p \in Client
         /\ here[Host] \in Nat /\ here[Host] <= MaxNodes /\ MaxNodes \in Nat
         /\ cats \in Nat
         /\ table[Host] \in Seq(Nat) /\ Len(table[Host]) \in Nat
         /\ Grown \in Seq(Nat) /\ Len(Grown) \in Nat /\ Begins(table[Host], Grown)
         /\ Len(table[Host]) <= Len(Grown)
         /\ \A n \in Node : n <= here[Host] =>
              Need(n) \in Nat /\ Need(n) = Capped(size[n]) /\ Need(n) <= Len(Grown)
         /\ Live # {} => Capped(cats) <= Len(Grown)
         /\ sentCount \in Seq(Nat)
<1>1. Well /\ Growth
  BY DEF SplitInv
<1>2. /\ Host \in Process /\ Client \subseteq Process /\ Host \notin Client
      /\ \A p \in Process : p = Host \/ p \in Client
  BY ProcessAssumption DEF Process
<1>3. /\ here[Host] \in Nat /\ here[Host] <= MaxNodes /\ table[Host] \in Seq(Nat) /\ cats \in Nat
      /\ sentCount \in Seq(Nat) /\ MaxNodes \in Nat
  BY <1>1, <1>2, OwnershipBounds DEF Well
<1>4. Len(table[Host]) \in Nat
  BY <1>3, LenProperties
<1>5. /\ Grown \in Seq(Nat) /\ Begins(table[Host], Grown) /\ Len(Grown) \in Nat
      /\ Live # {} => Capped(cats) <= Len(Grown)
  BY <1>1, GrownIs, LenProperties
<1>6. Len(table[Host]) <= Len(Grown)
  BY <1>5 DEF Begins
<1>7. ASSUME NEW n \in Node, n <= here[Host]
      PROVE  Need(n) \in Nat /\ Need(n) = Capped(size[n]) /\ Need(n) <= Len(Grown)
  <2>1. size[n] \in Nat
    BY <1>1 DEF Well
  <2>2. Need(n) \in Nat /\ Need(n) = Capped(size[n])
    BY <2>1, CappedIs DEF Need
  <2>3. Need(n) <= Len(table[Host])
    BY <1>1, <1>7 DEF Growth
  <2> QED
    BY <2>2, <2>3, <1>4, <1>5, <1>6
<1> QED
  BY <1>2, <1>3, <1>4, <1>5, <1>6, <1>7

LEMMA SentIs ==
  ASSUME SplitInv, NEW due \in Seq(Nat), PublishTable(due)
  PROVE  sentCount' \in Seq(Nat) /\ table' = [table EXCEPT ![Host] = Grown]
         /\ table' \in [Process -> Seq(Nat)] /\ table'[Host] = Grown
         /\ Tidings(due) \in Seq(Letter)
<1>1. Host \in Process /\ Grown \in Seq(Nat) /\ Len(Grown) \in Nat
  BY HostFacts
<1>2. table \in [Process -> Seq(Nat)]
  BY DEF SplitInv, Well
<1>3. [type |-> "OWNERSHIP", table |-> Grown] \in Letter
  BY <1>1 DEF Letter
<1>4. Tidings(due) \in Seq(Letter)
  BY <1>3 DEF Tidings
<1> QED
  BY <1>1, <1>2, <1>4 DEF PublishTable

LEMMA SplitFrameTick == SplitInv /\ FrameTick => SplitInv'
<1> SUFFICES ASSUME SplitInv, FrameTick PROVE SplitInv'
  OBVIOUS
<1>1. Well /\ Growth /\ Supplied /\ Queued /\ Mail
  BY DEF SplitInv
<1>2. /\ PublishTable(sentCount) /\ chan' = ToLive(Tidings(sentCount))
      /\ UNCHANGED <<cats, size, here, phase, split, snapped, pend, ready, id, nodeQ>>
  BY DEF FrameTick, runVars
<1>3. sentCount \in Seq(Nat)
  BY HostFacts
<1>4. Growth' /\ Supplied' /\ Queued' /\ \A c \in Client : Known(c)' = Known(c)
  <2>1. table' = [table EXCEPT ![Host] = Grown]
    BY <1>2, <1>3, SentIs
  <2>2. here[Host] \in Nat /\ here[Host] <= here[Host]
    BY HostFacts
  <2>3. \A n \in Node : n <= here[Host] => Capped(size[n]) <= Len(Grown)
    BY HostFacts
  <2>4. phase[Host] = "entered" => here[Host] \in Node
    BY <1>1, HostFacts DEF Supplied
  <2> QED
    BY <2>1, <2>2, <2>3, <2>4, <1>2, TableGrows
<1>5. ASSUME NEW c \in Client
      PROVE  /\ chan'[c] \in Seq(Letter)
             /\ Sound(chan'[c], ready[c], Len(Known(c)), Grown, size, here[Host])
             /\ id[c] # 0 => Told(chan'[c], ready[c], Len(Known(c)), sentCount')
             /\ id[c] = 0 => chan'[c] = <<>>
  <2>1. CASE c \in Live
    <3>1. chan'[c] = chan[c] \o Tidings(sentCount) /\ id[c] # 0 /\ Live # {}
      BY <2>1, <1>2 DEF ToLive, Live
    <3> QED
      BY <3>1, <1>1, <1>2, <1>3, MailOf, Publish
  <2>2. CASE c \notin Live
    <3>1. chan'[c] = <<>> /\ id[c] = 0
      BY <2>2, <1>2, MailOf DEF ToLive, Live
    <3> QED
      BY <3>1, SoundEmpty, EmptySeq
  <2> QED
    BY <2>1, <2>2
<1>6. Well'
  <2>1. chan' = [c \in Client |-> chan'[c]]
    BY <1>2 DEF ToLive
  <2>2. chan' \in [Client -> Seq(Letter)]
    BY <2>1, <1>5
  <2>3. sentCount' \in Seq(Nat) /\ table' \in [Process -> Seq(Nat)]
    BY <1>2, <1>3, SentIs
  <2> QED
    BY <2>2, <2>3, <1>1, <1>2 DEF Well
<1>7. Mail'
  <2>1. table'[Host] = Grown
    BY <1>2, <1>3, SentIs
  <2> SUFFICES ASSUME NEW c \in Client
               PROVE  /\ Sound(chan'[c], ready[c], Len(Known(c)), Grown, size, here[Host])
                      /\ id[c] # 0 => Told(chan'[c], ready[c], Len(Known(c)), sentCount')
                      /\ id[c] = 0 => ~ready[c] /\ chan'[c] = <<>> /\ nodeQ[c] = <<>>
                      /\ ~snapped[c] => pend[c] = <<>>
    BY <2>1, <1>2, <1>4 DEF Mail
  <2> QED
    BY <1>5, MailOf
<1> QED
  BY <1>4, <1>6, <1>7 DEF SplitInv

(* handle_hello.  The newcomer heeds what comes after its welcome, and all *)
(* that matters of what was sent before it comes again.                    *)
LEMMA SplitHello ==
  ASSUME SplitInv, NEW c \in Client, HandleHello(c)
  PROVE  SplitInv'
<1>1. Well /\ Growth /\ Supplied /\ Queued /\ Mail
  BY DEF SplitInv
<1> DEFINE none == Forget(sentCount)
           node == IF here[Host] = 0 THEN <<>>
                   ELSE <<[type |-> "ENTERNODE", node |-> here[Host]]>>
           welcome == [type |-> "WELCOME"]
           letters == chan[c] \o <<welcome>> \o Tidings(none) \o node
<1>2. /\ PublishTable(none)
      /\ chan' = [ToLive(Tidings(none)) EXCEPT ![c] = letters]
      /\ ready' = [ready EXCEPT ![Host] = TRUE]
      /\ c \in Live
      /\ UNCHANGED <<cats, size, here, phase, split, snapped, pend, id, nodeQ>>
  BY DEF HandleHello, runVars, Live
<1>3. none = <<>> /\ none \in Seq(Nat) /\ Live # {} /\ id[c] # 0
  BY <1>2, EmptySeq DEF Forget, Live
<1>4. Growth' /\ Supplied' /\ Queued' /\ \A d \in Client : Known(d)' = Known(d)
  <2>1. table' = [table EXCEPT ![Host] = Grown]
    BY <1>2 DEF PublishTable
  <2>2. here[Host] \in Nat /\ here[Host] <= here[Host]
    BY HostFacts
  <2>3. \A n \in Node : n <= here[Host] => Capped(size[n]) <= Len(Grown)
    BY HostFacts
  <2>4. phase[Host] = "entered" => here[Host] \in Node
    BY <1>1, HostFacts DEF Supplied
  <2> QED
    BY <2>1, <2>2, <2>3, <2>4, <1>2, TableGrows
<1>5. PICK r, h : r = ready[c] /\ h = Len(Known(c))
  OBVIOUS
<1>6. PICK b : b = Append(chan[c], welcome)
  OBVIOUS
<1>7. PICK s : s = b \o Tidings(none)
  OBVIOUS
<1>8. /\ chan[c] \in Seq(Letter) /\ welcome \in Letter /\ welcome.type = "WELCOME"
      /\ b \in Seq(Letter) /\ Tidings(none) \in Seq(Letter)
      /\ h \in Nat /\ h <= Len(table[Host])
  <2>1. chan[c] \in Seq(Letter) /\ h \in Nat /\ h <= Len(table[Host])
    BY <1>5, MailOf
  <2>2. welcome \in Letter /\ welcome.type = "WELCOME"
    BY DEF Letter
  <2>3. Tidings(none) \in Seq(Letter)
    BY <1>2, <1>3, SentIs
  <2> QED
    BY <2>1, <2>2, <2>3, <1>6, AppendProperties
<1> HIDE DEF none, welcome
<1>9. letters = s \o node
  BY <1>6, <1>7, <1>8, AppendIsConcat
<1>10. /\ s \in Seq(Letter)
       /\ Sound(s, r, h, Grown, size, here[Host])
       /\ Heeds(s, r, Len(s) + 1) => Knows(s, r, h, Len(s) + 1, Len(Grown))
       /\ Told(s, r, h, sentCount')
  <2>1. Sound(b, r, h, table[Host], size, here[Host])
    BY <1>5, <1>6, <1>8, MailOf, HostFacts, SoundAppend
  <2>2. Told(b, r, h, none)
    BY <1>3 DEF Told
  <2> QED
    BY <2>1, <2>2, <1>1, <1>2, <1>3, <1>7, <1>8, Publish
<1>11. /\ letters \in Seq(Letter)
       /\ Sound(letters, r, h, Grown, size, here[Host])
       /\ Told(letters, r, h, sentCount')
  <2>1. CASE here[Host] = 0
    <3>1. letters = s
      BY <2>1, <1>9, <1>10, ConcatEmptySeq
    <3> HIDE DEF letters
    <3> QED
      BY <3>1, <1>10
  <2>2. CASE here[Host] # 0
    <3>1. PICK m, n : m = [type |-> "ENTERNODE", node |-> here[Host]] /\ n = here[Host]
      OBVIOUS
    <3>2. n \in Node /\ n \in Nat /\ n <= n
      BY <2>2, <3>1, HostFacts DEF Node
    <3>3. m \in Letter /\ m.type = "ENTERNODE" /\ m.node = n
      BY <3>1, <3>2 DEF Letter
    <3>4. letters = Append(s, m)
      BY <2>2, <3>1, <3>3, <1>9, <1>10, AppendIsConcat
    <3>5. Capped(size[n]) \in Nat /\ Capped(size[n]) <= Len(Grown) /\ Len(Grown) \in Nat
          /\ Grown \in Seq(Nat)
      BY <3>1, <3>2, HostFacts
    <3>6. Heeds(s, r, Len(s) + 1) => Knows(s, r, h, Len(s) + 1, Capped(size[n]))
      BY <3>5, <1>8, <1>10, KnowsLess
    <3>7. sentCount' \in Seq(Nat)
      BY <1>2, <1>3, SentIs
    <3> HIDE DEF letters
    <3>8. letters \in Seq(Letter)
      BY <3>3, <3>4, <1>10, AppendProperties
    <3>9. Sound(letters, r, h, Grown, size, here[Host])
      BY <3>1, <3>2, <3>3, <3>4, <3>5, <3>6, <1>8, <1>10, SoundAppend
    <3>10. Told(letters, r, h, sentCount')
      BY <3>3, <3>4, <3>7, <1>8, <1>10, ToldAppend
    <3> QED
      BY <3>8, <3>9, <3>10
  <2> QED
    BY <2>1, <2>2
<1> HIDE DEF letters
<1>12. ASSUME NEW d \in Client
       PROVE  /\ chan'[d] \in Seq(Letter)
              /\ Sound(chan'[d], ready[d], Len(Known(d)), Grown, size, here[Host])
              /\ id[d] # 0 => Told(chan'[d], ready[d], Len(Known(d)), sentCount')
              /\ id[d] = 0 => chan'[d] = <<>>
  <2>1. CASE d = c
    <3>1. chan'[c] = letters
      BY <1>2 DEF ToLive
    <3> QED
      BY <2>1, <3>1, <1>3, <1>5, <1>11
  <2>2. CASE d # c /\ d \in Live
    <3>1. chan'[d] = chan[d] \o Tidings(none) /\ id[d] # 0
      BY <2>2, <1>2 DEF ToLive, Live
    <3>2. Told(chan[d], ready[d], Len(Known(d)), none)
      BY <1>3 DEF Told
    <3> QED
      BY <3>1, <3>2, <1>1, <1>2, <1>3, MailOf, Publish
  <2>3. CASE d # c /\ d \notin Live
    <3>1. chan'[d] = <<>> /\ id[d] = 0
      BY <2>3, <1>2, MailOf DEF ToLive, Live
    <3> QED
      BY <3>1, SoundEmpty, EmptySeq
  <2> QED
    BY <2>1, <2>2, <2>3
<1>13. Well'
  <2>1. chan' = [d \in Client |-> chan'[d]]
    BY <1>2 DEF ToLive
  <2>2. chan' \in [Client -> Seq(Letter)]
    BY <2>1, <1>12
  <2>3. sentCount' \in Seq(Nat) /\ table' \in [Process -> Seq(Nat)]
    BY <1>2, <1>3, SentIs
  <2>4. ready' \in [Process -> BOOLEAN]
    BY <1>1, <1>2 DEF Well
  <2> QED
    BY <2>2, <2>3, <2>4, <1>1, <1>2 DEF Well
<1>14. Mail'
  <2>1. table'[Host] = Grown
    BY <1>2, <1>3, SentIs
  <2>2. \A d \in Client : ready'[d] = ready[d]
    BY <1>1, <1>2, HostFacts DEF Well
  <2> SUFFICES ASSUME NEW d \in Client
               PROVE  /\ Sound(chan'[d], ready[d], Len(Known(d)), Grown, size, here[Host])
                      /\ id[d] # 0 => Told(chan'[d], ready[d], Len(Known(d)), sentCount')
                      /\ id[d] = 0 => ~ready[d] /\ chan'[d] = <<>> /\ nodeQ[d] = <<>>
                      /\ ~snapped[d] => pend[d] = <<>>
    BY <2>1, <2>2, <1>2, <1>4 DEF Mail
  <2> QED
    BY <1>12, MailOf
<1> QED
  BY <1>4, <1>13, <1>14 DEF SplitInv

(* follow_on_enter_node.                                                   *)
LEMMA SplitEnter == SplitInv /\ HostEnterNode => SplitInv'
<1> SUFFICES ASSUME SplitInv, HostEnterNode PROVE SplitInv'
  OBVIOUS
<1>1. Well /\ Growth /\ Supplied /\ Queued /\ Mail
  BY DEF SplitInv
<1>2. PICK n, m : n = here[Host] + 1 /\ m = [type |-> "ENTERNODE", node |-> n]
  OBVIOUS
<1>3. /\ PublishTable(sentCount) /\ here[Host] < MaxNodes /\ Live # {}
      /\ here' = [here EXCEPT ![Host] = n]
      /\ size' = [size EXCEPT ![n] = cats]
      /\ chan' = ToLive(Tidings(sentCount) \o <<m>>)
      /\ phase' = [phase EXCEPT ![Host] = "entered"]
      /\ UNCHANGED <<cats, split, snapped, pend, ready, id, nodeQ>>
  BY <1>2 DEF HostEnterNode
<1>4. /\ sentCount \in Seq(Nat) /\ n \in Nat /\ n \in Node /\ here[Host] \in Nat
      /\ here[Host] <= n /\ n <= n /\ n <= MaxNodes /\ cats \in Nat
      /\ Capped(cats) \in Nat /\ Capped(cats) <= Len(Grown) /\ Len(Grown) \in Nat
      /\ Grown \in Seq(Nat)
  <2>1. /\ sentCount \in Seq(Nat) /\ here[Host] \in Nat /\ cats \in Nat /\ MaxNodes \in Nat
        /\ Capped(cats) <= Len(Grown) /\ Len(Grown) \in Nat /\ Grown \in Seq(Nat)
    BY <1>3, HostFacts
  <2>2. n \in Nat /\ n \in 1 .. MaxNodes /\ here[Host] <= n /\ n <= n /\ n <= MaxNodes
    BY <2>1, <1>2, <1>3
  <2> QED
    BY <2>1, <2>2, CappedIs DEF Node
<1>5. /\ here'[Host] = n /\ \A c \in Client : here'[c] = here[c] /\ phase'[c] = phase[c]
      /\ size'[n] = cats /\ size' \in [Node -> Nat]
      /\ here' \in [Process -> Nat] /\ phase' \in [Process -> {"map", "entered", "battle"}]
      /\ \A k \in Node : k <= here[Host] => size'[k] = size[k]
      /\ \A k \in Node : k <= n => (k = n \/ k <= here[Host])
  <2>1. /\ here \in [Process -> Nat] /\ size \in [Node -> Nat]
        /\ phase \in [Process -> {"map", "entered", "battle"}]
    BY <1>1 DEF Well
  <2>2. here'[Host] = n /\ \A c \in Client : here'[c] = here[c] /\ phase'[c] = phase[c]
    BY <2>1, <1>3, HostFacts
  <2>3. size'[n] = cats /\ size' \in [Node -> Nat] /\ \A k \in Node : k # n => size'[k] = size[k]
    BY <2>1, <1>3, <1>4
  <2>4. \A k \in Node : k <= here[Host] => k # n
    BY <1>2, <1>4 DEF Node
  <2>5. \A k \in Node : k <= n => (k = n \/ k <= here[Host])
    BY <1>2, <1>4 DEF Node
  <2>6. here' \in [Process -> Nat] /\ phase' \in [Process -> {"map", "entered", "battle"}]
    BY <2>1, <1>3, <1>4
  <2> QED
    BY <2>2, <2>3, <2>4, <2>5, <2>6
<1>6. Growth' /\ Supplied' /\ Queued' /\ \A c \in Client : Known(c)' = Known(c)
  <2>1. table' = [table EXCEPT ![Host] = Grown]
    BY <1>3 DEF PublishTable
  <2>2. \A k \in Node : k <= n => Capped(size'[k]) <= Len(Grown)
    <3> TAKE k \in Node
    <3>1. CASE k = n
      BY <3>1, <1>4, <1>5
    <3>2. CASE k <= here[Host]
      BY <3>2, <1>5, HostFacts
    <3> QED
      BY <3>1, <3>2, <1>5
  <2>3. here'[Host] \in Nat /\ here[Host] <= here'[Host] /\ here'[Host] \in Node
    BY <1>4, <1>5
  <2>4. \A k \in Node : k <= here'[Host] => Capped(size'[k]) <= Len(Grown)
    BY <2>2, <1>5
  <2> QED
    BY <2>1, <2>3, <2>4, <1>3, <1>5, TableGrows
<1>7. ASSUME NEW c \in Client
      PROVE  /\ chan'[c] \in Seq(Letter)
             /\ Sound(chan'[c], ready[c], Len(Known(c)), Grown, size', n)
             /\ id[c] # 0 => Told(chan'[c], ready[c], Len(Known(c)), sentCount')
             /\ id[c] = 0 => chan'[c] = <<>>
  <2>1. CASE c \in Live
    <3>1. PICK s, r, h : s = chan[c] \o Tidings(sentCount) /\ r = ready[c] /\ h = Len(Known(c))
      OBVIOUS
    <3>2. chan[c] \in Seq(Letter) /\ Tidings(sentCount) \in Seq(Letter) /\ id[c] # 0
          /\ h \in Nat /\ h <= Len(table[Host]) /\ sentCount' \in Seq(Nat)
      BY <2>1, <3>1, <1>3, <1>4, MailOf, SentIs DEF Live
    <3>3. /\ s \in Seq(Letter)
          /\ Sound(s, r, h, Grown, size, here[Host])
          /\ Heeds(s, r, Len(s) + 1) => Knows(s, r, h, Len(s) + 1, Len(Grown))
          /\ Told(s, r, h, sentCount')
      BY <3>1, <3>2, <1>1, <1>3, <1>4, MailOf, Publish
    <3>4. m \in Letter /\ m.type = "ENTERNODE" /\ m.node = n
      BY <1>2, <1>4 DEF Letter
    <3>5. chan'[c] = Append(s, m)
      <4>1. chan'[c] = chan[c] \o (Tidings(sentCount) \o <<m>>)
        BY <2>1, <1>3 DEF ToLive
      <4>2. <<m>> \in Seq(Letter)
        BY <3>4
      <4>3. chan'[c] = s \o <<m>>
        <5>1. PICK x, y, v : x = chan[c] /\ y = Tidings(sentCount) /\ v = <<m>>
          OBVIOUS
        <5>2. (x \o y) \o v = x \o (y \o v)
          <6>1. x \in Seq(Letter) /\ y \in Seq(Letter) /\ v \in Seq(Letter)
            BY <5>1, <4>2, <3>2
          <6> QED
            BY <6>1, ConcatAssociative
        <5> QED
          BY <4>1, <5>1, <5>2, <3>1
      <4> QED
        BY <4>3, <3>3, <3>4, AppendIsConcat
    <3>6. PICK z : z = size'
      OBVIOUS
    <3>7. Sound(s, r, h, Grown, z, n)
      <4>1. PICK g, y, w : g = Grown /\ y = size /\ w = here[Host]
        OBVIOUS
      <4>2. g \in Seq(Nat) /\ Begins(g, g) /\ w \in Nat /\ w <= n /\ Sound(s, r, h, g, y, w)
            /\ \A k \in Node : k <= w => z[k] = y[k]
        BY <4>1, <1>4, <1>5, <3>3, <3>6, BeginsSelf
      <4>3. Sound(s, r, h, g, z, n)
        BY <4>2, <3>2, <3>3, <1>4, SoundLater
      <4> QED
        BY <4>1, <4>3
    <3>8. Heeds(s, r, Len(s) + 1) => Knows(s, r, h, Len(s) + 1, Capped(z[n]))
      BY <3>2, <3>3, <3>6, <1>4, <1>5, KnowsLess
    <3>9. PICK u : u = Append(s, m)
      OBVIOUS
    <3>10. Sound(u, r, h, Grown, z, n)
      BY <3>2, <3>3, <3>4, <3>7, <3>8, <3>9, <1>4, SoundAppend
    <3>11. u \in Seq(Letter) /\ Told(u, r, h, sentCount')
      BY <3>2, <3>3, <3>4, <3>9, ToldAppend, AppendProperties
    <3> QED
      BY <3>1, <3>2, <3>5, <3>6, <3>9, <3>10, <3>11
  <2>2. CASE c \notin Live
    <3>1. chan'[c] = <<>> /\ id[c] = 0
      BY <2>2, <1>3, MailOf DEF ToLive, Live
    <3> QED
      BY <3>1, SoundEmpty, EmptySeq
  <2> QED
    BY <2>1, <2>2
<1>8. Well'
  <2>1. chan' = [c \in Client |-> chan'[c]]
    BY <1>3 DEF ToLive
  <2>2. chan' \in [Client -> Seq(Letter)]
    BY <2>1, <1>7
  <2>3. sentCount' \in Seq(Nat) /\ table' \in [Process -> Seq(Nat)]
    BY <1>3, <1>4, SentIs
  <2>4. \A p \in Process : here'[p] <= here'[Host]
    <3> TAKE p \in Process
    <3>1. CASE p = Host
      BY <3>1, <1>4, <1>5
    <3>2. CASE p \in Client
      <4>1. here[p] <= here[Host] /\ here[p] \in Nat /\ here'[p] = here[p]
        BY <3>2, <1>1, <1>5 DEF Well
      <4> QED
        BY <4>1, <1>4, <1>5
    <3> QED
      BY <3>1, <3>2, HostFacts
  <2> QED
    BY <2>2, <2>3, <2>4, <1>1, <1>3, <1>4, <1>5 DEF Well
<1>9. Mail'
  <2>1. table'[Host] = Grown
    BY <1>3, <1>4, SentIs
  <2> SUFFICES ASSUME NEW c \in Client
               PROVE  /\ Sound(chan'[c], ready[c], Len(Known(c)), Grown, size', n)
                      /\ id[c] # 0 => Told(chan'[c], ready[c], Len(Known(c)), sentCount')
                      /\ id[c] = 0 => ~ready[c] /\ chan'[c] = <<>> /\ nodeQ[c] = <<>>
                      /\ ~snapped[c] => pend[c] = <<>>
    BY <2>1, <1>3, <1>5, <1>6 DEF Mail
  <2> QED
    BY <1>7, MailOf
<1> QED
  BY <1>6, <1>8, <1>9 DEF SplitInv

LEMMA SplitRecruit == SplitInv /\ Recruit => SplitInv'
<1> SUFFICES ASSUME SplitInv, Recruit PROVE SplitInv'
  OBVIOUS
<1>1. Well /\ Growth /\ Supplied /\ Queued /\ Mail
  BY DEF SplitInv
<1>2. /\ cats' = cats + 1
      /\ UNCHANGED <<size, here, phase, split, snapped, table, sentCount, pend, ready, id, chan,
                     nodeQ>>
  BY DEF Recruit, tableVars
<1>3. Well'
  BY <1>1, <1>2 DEF Well
<1>4. (\A c \in Client : Known(c)' = Known(c)) /\ \A n \in Node : Need(n)' = Need(n)
  BY <1>2 DEF Known, Need
<1>5. Growth' /\ Supplied' /\ Queued' /\ Mail'
  BY <1>1, <1>2, <1>4 DEF Growth, Supplied, Queued, Mail, Need, Known
<1> QED
  BY <1>3, <1>5 DEF SplitInv

-------------------------------------------------------------------------------
(* Clients come and go.                                                    *)

LEMMA SplitConnect ==
  ASSUME SplitInv, NEW c \in Client, Connect(c)
  PROVE  SplitInv'
<1>1. Well /\ Growth /\ Supplied /\ Queued /\ Mail
  BY DEF SplitInv
<1>2. /\ id[c] = 0 /\ id' = [id EXCEPT ![c] = LowestFree]
      /\ UNCHANGED <<cats, size, here, phase, split, snapped, table, sentCount, pend, ready, chan,
                     nodeQ>>
  BY DEF Connect, tableVars, runVars
<1>3. LowestFree \in Nat
  <2>1. FreeIds \in SUBSET Nat /\ FreeIds # {}
    BY DEF Connect, FreeIds
  <2>2. \E i \in FreeIds : \A j \in FreeIds : i <= j
    BY <2>1, LeastOne
  <2>3. LowestFree \in FreeIds
    BY <2>2 DEF LowestFree
  <2> QED
    BY <2>1, <2>3
<1>4. Well'
  BY <1>1, <1>2, <1>3 DEF Well
<1>5. \A d \in Client : Known(d)' = Known(d)
  BY <1>2 DEF Known
<1>6. Growth' /\ Supplied' /\ Queued'
  BY <1>1, <1>2, <1>5 DEF Growth, Supplied, Queued, Need, Known
<1>7. Mail'
  <2> SUFFICES ASSUME NEW d \in Client
               PROVE  /\ Sound(chan[d], ready[d], Len(Known(d)), table[Host], size, here[Host])
                      /\ id'[d] # 0 => Told(chan[d], ready[d], Len(Known(d)), sentCount)
                      /\ id'[d] = 0 => ~ready[d] /\ chan[d] = <<>> /\ nodeQ[d] = <<>>
                      /\ ~snapped[d] => pend[d] = <<>>
    BY <1>2, <1>5 DEF Mail
  <2>1. CASE d = c
    <3>1. ~ready[c] /\ chan[c] = <<>> /\ nodeQ[c] = <<>>
      BY <1>2, MailOf
    <3>2. ~Heeds(chan[c], ready[c], Len(chan[c]) + 1)
      <4>1. Len(chan[c]) = 0
        BY <3>1, EmptySeq
      <4>2. \A w \in 1 .. (Len(chan[c]) + 1) - 1 : FALSE
        BY <4>1
      <4> QED
        BY <3>1, <4>2 DEF Heeds
    <3>3. Told(chan[c], ready[c], Len(Known(c)), sentCount)
      BY <3>2 DEF Told
    <3> QED
      BY <2>1, <3>1, <3>3, MailOf
  <2>2. CASE d # c
    <3>1. id'[d] = id[d]
      BY <2>2, <1>1, <1>2 DEF Well
    <3> QED
      BY <3>1, MailOf
  <2> QED
    BY <2>1, <2>2
<1> QED
  BY <1>4, <1>6, <1>7 DEF SplitInv

LEMMA UnlinkFacts ==
  ASSUME SplitInv, NEW c \in Client, Unlink(c)
  PROVE  /\ id' \in [Client -> Nat] /\ id'[c] = 0
         /\ chan' \in [Client -> Seq(Letter)] /\ chan'[c] = <<>>
         /\ ready' \in [Process -> BOOLEAN] /\ ready'[c] = FALSE
         /\ nodeQ' \in [Client -> Seq(Node)] /\ nodeQ'[c] = <<>>
         /\ \A d \in Client : d # c =>
              id'[d] = id[d] /\ chan'[d] = chan[d] /\ ready'[d] = ready[d] /\ nodeQ'[d] = nodeQ[d]
<1>1. /\ id \in [Client -> Nat] /\ chan \in [Client -> Seq(Letter)]
      /\ ready \in [Process -> BOOLEAN] /\ nodeQ \in [Client -> Seq(Node)]
  BY DEF SplitInv, Well
<1>2. <<>> \in Seq(Letter) /\ <<>> \in Seq(Node) /\ Client \subseteq Process
  BY EmptySeq DEF Process
<1> QED
  BY <1>1, <1>2 DEF Unlink

LEMMA SplitLose ==
  ASSUME SplitInv, NEW c \in Client, LoseLink(c)
  PROVE  SplitInv'
<1>1. Well /\ Growth /\ Supplied /\ Queued /\ Mail
  BY DEF SplitInv
<1>2. /\ Unlink(c)
      /\ UNCHANGED <<cats, size, here, phase, split, snapped, table, sentCount, pend>>
  BY DEF LoseLink, tableVars, runVars
<1>3. Well'
  BY <1>1, <1>2, UnlinkFacts DEF Well
<1>4. \A d \in Client : Known(d)' = Known(d)
  BY <1>2 DEF Known
<1>5. Growth' /\ Supplied'
  BY <1>1, <1>2, <1>4 DEF Growth, Supplied, Need, Known
<1>6. Queued'
  <2> SUFFICES ASSUME NEW d \in Client, NEW i \in 1 .. Len(nodeQ'[d])
               PROVE  nodeQ'[d][i] <= here[Host] /\ Capped(size[nodeQ'[d][i]]) <= Len(Known(d))
    BY <1>2, <1>4 DEF Queued, Need
  <2>1. CASE d = c
    <3>1. Len(nodeQ'[d]) = 0
      BY <2>1, <1>2, UnlinkFacts, EmptySeq
    <3> QED
      BY <3>1
  <2>2. CASE d # c
    BY <2>2, <1>1, <1>2, UnlinkFacts DEF Queued, Need
  <2> QED
    BY <2>1, <2>2
<1>7. Mail'
  <2> SUFFICES ASSUME NEW d \in Client
               PROVE  /\ Sound(chan'[d], ready'[d], Len(Known(d)), table[Host], size, here[Host])
                      /\ id'[d] # 0 => Told(chan'[d], ready'[d], Len(Known(d)), sentCount)
                      /\ id'[d] = 0 => ~ready'[d] /\ chan'[d] = <<>> /\ nodeQ'[d] = <<>>
                      /\ ~snapped[d] => pend[d] = <<>>
    BY <1>2, <1>4 DEF Mail
  <2>1. CASE d = c
    BY <2>1, <1>2, UnlinkFacts, SoundEmpty, MailOf
  <2>2. CASE d # c
    BY <2>2, <1>2, UnlinkFacts, MailOf
  <2> QED
    BY <2>1, <2>2
<1> QED
  BY <1>3, <1>5, <1>6, <1>7 DEF SplitInv

LEMMA SplitRestart ==
  ASSUME SplitInv, NEW c \in Client, Restart(c)
  PROVE  SplitInv'
<1>1. Well /\ Growth /\ Supplied /\ Queued /\ Mail
  BY DEF SplitInv
<1>2. /\ Unlink(c)
      /\ table' = [table EXCEPT ![c] = <<>>] /\ pend' = [pend EXCEPT ![c] = <<>>]
      /\ split' = [split EXCEPT ![c] = <<>>] /\ snapped' = [snapped EXCEPT ![c] = FALSE]
      /\ here' = [here EXCEPT ![c] = 0] /\ phase' = [phase EXCEPT ![c] = "map"]
      /\ UNCHANGED <<cats, size, sentCount>>
  BY DEF Restart, NoTable
<1>3. Host # c /\ Host \in Process /\ c \in Process /\ Client \subseteq Process
      /\ here[Host] \in Nat
  BY HostFacts
<1>4. /\ <<>> \in Seq(Nat) /\ <<>> \in Seq(Seq(Nat)) /\ Len(<<>>) = 0 /\ DOMAIN <<>> = {}
      /\ Len(table[Host]) \in Nat /\ table[Host] \in Seq(Nat)
  BY EmptySeq, HostFacts
<1>5. /\ table'[c] = <<>> /\ pend'[c] = <<>> /\ split'[c] = <<>> /\ snapped'[c] = FALSE
      /\ here'[c] = 0 /\ phase'[c] = "map"
      /\ \A p \in Process : p # c =>
           /\ table'[p] = table[p] /\ split'[p] = split[p] /\ snapped'[p] = snapped[p]
           /\ here'[p] = here[p] /\ phase'[p] = phase[p]
      /\ \A d \in Client : d # c => pend'[d] = pend[d]
  <2>1. split = [p \in Process |-> split[p]] /\ table \in [Process -> Seq(Nat)]
        /\ pend \in [Client -> Seq(Seq(Nat))] /\ snapped \in [Process -> BOOLEAN]
        /\ here \in [Process -> Nat] /\ phase \in [Process -> {"map", "entered", "battle"}]
    BY <1>1 DEF Well
  <2>2. split'[c] = <<>> /\ \A p \in Process : p # c => split'[p] = split[p]
    BY <2>1, <1>2, <1>3
  <2> QED
    BY <2>1, <2>2, <1>2, <1>3
<1>6. Well'
  <2>1. table' \in [Process -> Seq(Nat)] /\ pend' \in [Client -> Seq(Seq(Nat))]
        /\ snapped' \in [Process -> BOOLEAN] /\ here' \in [Process -> Nat]
        /\ phase' \in [Process -> {"map", "entered", "battle"}]
    BY <1>1, <1>2, <1>4 DEF Well
  <2>2. split' = [p \in Process |-> split'[p]]
    BY <1>1, <1>2 DEF Well
  <2>3. \A p \in Process : here'[p] <= here'[Host]
    <3> TAKE p \in Process
    <3>1. here'[Host] = here[Host]
      BY <1>3, <1>5
    <3>2. CASE p = c
      BY <3>1, <3>2, <1>3, <1>5
    <3>3. CASE p # c
      <4>1. here'[p] = here[p]
        BY <3>3, <1>5
      <4> QED
        BY <3>1, <4>1, <1>1 DEF Well
    <3> QED
      BY <3>2, <3>3
  <2>4. here'[Host] <= MaxNodes
    BY <1>1, <1>3, <1>5 DEF Well
  <2>5. \A d \in Client : Len(pend'[d]) <= 1
    BY <1>1, <1>4, <1>5 DEF Well
  <2> QED
    BY <2>1, <2>2, <2>3, <2>4, <2>5, <1>1, <1>2, UnlinkFacts DEF Well
<1>7. /\ Known(c)' = <<>> /\ \A d \in Client : d # c => Known(d)' = Known(d)
      /\ table'[Host] = table[Host] /\ here'[Host] = here[Host]
  BY <1>3, <1>5 DEF Known
<1>8. Growth'
  <2>1. Begins(<<>>, <<>>) /\ Begins(<<>>, table[Host])
    BY <1>4 DEF Begins
  <2> SUFFICES ASSUME NEW d \in Client
               PROVE  Begins(table'[d], Known(d)') /\ Begins(Known(d)', table[Host])
    BY <1>1, <1>2, <1>7 DEF Growth, Need
  <2>2. CASE d = c
    BY <2>1, <2>2, <1>5, <1>7
  <2>3. CASE d # c
    BY <2>3, <1>1, <1>3, <1>5, <1>7 DEF Growth
  <2> QED
    BY <2>2, <2>3
<1>9. Supplied'
  <2> SUFFICES ASSUME NEW p \in Process
               PROVE  /\ phase'[p] = "entered" =>
                           here'[p] \in Node /\ Capped(size[here'[p]]) <= Len(table'[p])
                      /\ \A n \in DOMAIN split'[p] :
                           /\ n \in Node /\ n <= here[Host]
                           /\ split'[p][n] \in Seq(Nat)
                           /\ Capped(size[n]) <= Len(split'[p][n])
                           /\ Begins(split'[p][n], table[Host])
    BY <1>2, <1>7 DEF Supplied, Need
  <2>1. CASE p = c
    BY <2>1, <1>4, <1>5
  <2>2. CASE p # c
    BY <2>2, <1>1, <1>5 DEF Supplied, Need
  <2> QED
    BY <2>1, <2>2
<1>10. Queued'
  <2> SUFFICES ASSUME NEW d \in Client, NEW i \in 1 .. Len(nodeQ'[d])
               PROVE  nodeQ'[d][i] <= here[Host] /\ Capped(size[nodeQ'[d][i]]) <= Len(Known(d)')
    BY <1>2, <1>7 DEF Queued, Need
  <2>1. CASE d = c
    <3>1. Len(nodeQ'[d]) = 0
      BY <2>1, <1>2, UnlinkFacts, EmptySeq
    <3> QED
      BY <3>1
  <2>2. CASE d # c
    BY <2>2, <1>1, <1>2, <1>7, UnlinkFacts DEF Queued, Need
  <2> QED
    BY <2>1, <2>2
<1>11. Mail'
  <2> SUFFICES ASSUME NEW d \in Client
               PROVE  /\ Sound(chan'[d], ready'[d], Len(Known(d)'), table[Host], size, here[Host])
                      /\ id'[d] # 0 => Told(chan'[d], ready'[d], Len(Known(d)'), sentCount)
                      /\ id'[d] = 0 => ~ready'[d] /\ chan'[d] = <<>> /\ nodeQ'[d] = <<>>
                      /\ ~snapped'[d] => pend'[d] = <<>>
    BY <1>2, <1>7 DEF Mail
  <2>1. CASE d = c
    <3>1. /\ chan'[c] = <<>> /\ id'[c] = 0 /\ ~ready'[c] /\ nodeQ'[c] = <<>>
      BY <1>2, UnlinkFacts
    <3>2. pend'[c] = <<>>
      BY <1>5
    <3> QED
      BY <2>1, <3>1, <3>2, SoundEmpty
  <2>2. CASE d # c
    <3>1. /\ chan'[d] = chan[d] /\ id'[d] = id[d] /\ ready'[d] = ready[d] /\ nodeQ'[d] = nodeQ[d]
      BY <2>2, <1>2, UnlinkFacts
    <3>2. Known(d)' = Known(d) /\ pend'[d] = pend[d] /\ snapped'[d] = snapped[d]
      BY <2>2, <1>3, <1>5, <1>7
    <3>3. ~snapped'[d] => pend'[d] = <<>>
      BY <3>2, MailOf
    <3> QED
      BY <3>1, <3>2, <3>3, MailOf
  <2> QED
    BY <2>1, <2>2
<1> QED
  BY <1>6, <1>8, <1>9, <1>10, <1>11 DEF SplitInv

-------------------------------------------------------------------------------
(* A client reads, follows and plays.                                      *)

LEMMA ReadsOn ==
  ASSUME SplitInv, NEW c \in Client, chan[c] # <<>>,
         NEW m, m = Head(chan[c]),
         NEW r2, r2 <=> ready[c] \/ m.type = "WELCOME",
         NEW h2 \in Nat, Len(Known(c)) <= h2,
         ready[c] /\ m.type = "OWNERSHIP" => h2 = Len(m.table),
         ~(ready[c] /\ m.type = "OWNERSHIP") => h2 = Len(Known(c))
  PROVE  /\ Tail(chan[c]) \in Seq(Letter)
         /\ Sound(Tail(chan[c]), r2, h2, table[Host], size, here[Host])
         /\ id[c] # 0 /\ Told(Tail(chan[c]), r2, h2, sentCount)
<1>1. PICK s, r, h : s = chan[c] /\ r = ready[c] /\ h = Len(Known(c))
  OBVIOUS
<1>2. /\ s \in Seq(Letter) /\ h \in Nat /\ id[c] # 0 /\ s # <<>>
      /\ Sound(s, r, h, table[Host], size, here[Host]) /\ Told(s, r, h, sentCount)
  BY <1>1, MailOf
<1>3. size \in [Node -> Nat] /\ sentCount \in Seq(Nat)
  BY DEF SplitInv, Well
<1>4. Tail(s) \in Seq(Letter)
  BY <1>2, HeadTailProperties
<1>5. Sound(Tail(s), r2, h2, table[Host], size, here[Host])
  BY <1>1, <1>2, <1>3, SoundTail
<1>6. Told(Tail(s), r2, h2, sentCount)
  BY <1>1, <1>2, <1>3, ToldTail
<1> QED
  BY <1>1, <1>2, <1>4, <1>5, <1>6

(* The first letter, as a welcomed client finds it.                        *)
LEMMA FirstLetter ==
  ASSUME SplitInv, NEW c \in Client, chan[c] # <<>>, NEW m, m = Head(chan[c])
  PROVE  /\ m \in Letter
         /\ m.type = "OWNERSHIP" =>
              /\ m.table \in Seq(Nat) /\ Len(m.table) \in Nat
              /\ Len(Known(c)) <= Len(m.table) /\ Begins(m.table, table[Host])
         /\ m.type = "ENTERNODE" =>
              m.node \in Node /\ m.node <= here[Host]
              /\ (ready[c] => Need(m.node) <= Len(Known(c)))
<1>1. PICK s, r, h : s = chan[c] /\ r = ready[c] /\ h = Len(Known(c))
  OBVIOUS
<1>2. /\ s \in Seq(Letter) /\ h \in Nat /\ Sound(s, r, h, table[Host], size, here[Host])
  BY <1>1, MailOf
<1>3. m = s[1] /\ m \in Letter /\ 1 \in 1 .. Len(s)
  <2>1. Len(s) \in Nat /\ Len(s) # 0
    BY <1>1, <1>2, LenProperties, EmptySeq
  <2> QED
    BY <2>1, <1>1, <1>2, HeadTailProperties, ElementOfSeq
<1>4. ASSUME m.type = "OWNERSHIP"
      PROVE  /\ m.table \in Seq(Nat) /\ Len(m.table) \in Nat
             /\ h <= Len(m.table) /\ Begins(m.table, table[Host])
  BY <1>2, <1>3, <1>4, LetterKinds, LenProperties DEF Sound
<1>5. ASSUME m.type = "ENTERNODE"
      PROVE  m.node \in Node /\ m.node <= here[Host] /\ (r => Need(m.node) <= h)
  <2>1. m.node \in Node /\ m.node <= here[Host]
        /\ (Heeds(s, r, 1) => Knows(s, r, h, 1, Capped(size[m.node])))
    BY <1>2, <1>3, <1>5, LetterKinds DEF Sound
  <2>2. r => Heeds(s, r, 1)
    BY DEF Heeds
  <2> QED
    BY <2>1, <2>2, KnowsFirst DEF Need
<1> QED
  BY <1>1, <1>3, <1>4, <1>5

(* When only client c has read, and knows no less for it.                  *)
LEMMA OthersKeep ==
  ASSUME SplitInv, NEW c \in Client,
         UNCHANGED <<size, here, split, snapped, sentCount, id>>,
         table'[Host] = table[Host],
         \A d \in Client : d # c =>
           /\ chan'[d] = chan[d] /\ ready'[d] = ready[d] /\ nodeQ'[d] = nodeQ[d]
           /\ table'[d] = table[d] /\ pend'[d] = pend[d],
         Begins(table'[c], Known(c)') /\ Begins(Known(c)', table[Host]),
         Sound(chan'[c], ready'[c], Len(Known(c)'), table[Host], size, here[Host]),
         id[c] # 0, Told(chan'[c], ready'[c], Len(Known(c)'), sentCount),
         ~snapped[c] => pend'[c] = <<>>
  PROVE  Growth' /\ Mail' /\ \A d \in Client : d # c => Known(d)' = Known(d)
<1>1. Growth /\ Mail
  BY DEF SplitInv
<1>2. \A d \in Client : d # c => Known(d)' = Known(d)
  BY DEF Known
<1>3. Growth'
  <2> SUFFICES ASSUME NEW d \in Client
               PROVE  Begins(table'[d], Known(d)') /\ Begins(Known(d)', table[Host])
    BY <1>1 DEF Growth, Need
  <2>1. CASE d = c
    BY <2>1
  <2>2. CASE d # c
    BY <2>2, <1>1, <1>2 DEF Growth
  <2> QED
    BY <2>1, <2>2
<1>4. Mail'
  <2> SUFFICES ASSUME NEW d \in Client
               PROVE  /\ Sound(chan'[d], ready'[d], Len(Known(d)'), table[Host], size, here[Host])
                      /\ id[d] # 0 => Told(chan'[d], ready'[d], Len(Known(d)'), sentCount)
                      /\ id[d] = 0 => ~ready'[d] /\ chan'[d] = <<>> /\ nodeQ'[d] = <<>>
                      /\ ~snapped[d] => pend'[d] = <<>>
    BY DEF Mail
  <2>1. CASE d = c
    BY <2>1
  <2>2. CASE d # c
    BY <2>2, <1>2, MailOf
  <2> QED
    BY <2>1, <2>2
<1> QED
  BY <1>2, <1>3, <1>4

LEMMA SplitWelcome ==
  ASSUME SplitInv, NEW c \in Client, NEW m, OnWelcome(c, m)
  PROVE  SplitInv'
<1>1. Well /\ Growth /\ Supplied /\ Queued /\ Mail
  BY DEF SplitInv
<1>2. /\ chan[c] # <<>> /\ m = Head(chan[c]) /\ chan' = [chan EXCEPT ![c] = Tail(@)]
      /\ m.type = "WELCOME" \/ ~ready[c]
      /\ ready' = [ready EXCEPT ![c] = @ \/ m.type = "WELCOME"]
      /\ UNCHANGED <<cats, size, here, phase, split, snapped, table, sentCount, pend, id, nodeQ>>
  BY DEF OnWelcome, Receive, runVars
<1>3. c \in Process /\ Host # c
  BY HostFacts
<1>4. /\ ready' \in [Process -> BOOLEAN] /\ (ready'[c] <=> ready[c] \/ m.type = "WELCOME")
      /\ chan'[c] = Tail(chan[c])
  BY <1>1, <1>2, <1>3 DEF Well
<1>5. \A d \in Client : d # c => ready'[d] = ready[d] /\ chan'[d] = chan[d]
  BY <1>1, <1>2, HostFacts DEF Well
<1>6. \A d \in Client : Known(d)' = Known(d)
  BY <1>2 DEF Known
<1>7. /\ Tail(chan[c]) \in Seq(Letter)
      /\ Sound(chan'[c], ready'[c], Len(Known(c)'), table[Host], size, here[Host])
      /\ id[c] # 0 /\ Told(chan'[c], ready'[c], Len(Known(c)'), sentCount)
  <2>1. PICK r, h : r = ready'[c] /\ h = Len(Known(c))
    OBVIOUS
  <2>2. h \in Nat /\ h <= h
    BY <2>1, MailOf
  <2>3. r <=> ready[c] \/ m.type = "WELCOME"
    BY <2>1, <1>4
  <2>4. ~(ready[c] /\ m.type = "OWNERSHIP")
    BY <1>2
  <2>5. /\ Tail(chan[c]) \in Seq(Letter)
        /\ Sound(Tail(chan[c]), r, h, table[Host], size, here[Host])
        /\ id[c] # 0 /\ Told(Tail(chan[c]), r, h, sentCount)
    BY <2>1, <2>2, <2>3, <2>4, <1>2, ReadsOn
  <2> QED
    BY <2>1, <2>5, <1>4, <1>6
<1>8. Well'
  BY <1>1, <1>2, <1>4, <1>7 DEF Well
<1>9. Growth' /\ Mail'
  <2>1. Begins(table[c], Known(c)) /\ Begins(Known(c), table[Host])
    BY <1>1 DEF Growth
  <2>2. ~snapped[c] => pend[c] = <<>>
    BY MailOf
  <2> QED
    BY <2>1, <2>2, <1>2, <1>5, <1>6, <1>7, OthersKeep
<1>10. Supplied' /\ Queued'
  BY <1>1, <1>2, <1>6 DEF Supplied, Queued, Need, Known
<1> QED
  BY <1>8, <1>9, <1>10 DEF SplitInv

LEMMA SplitOwnership ==
  ASSUME SplitInv, NEW c \in Client, NEW m, OnOwnership(c, m)
  PROVE  SplitInv'
<1>1. Well /\ Growth /\ Supplied /\ Queued /\ Mail
  BY DEF SplitInv
<1>2. /\ chan[c] # <<>> /\ m = Head(chan[c]) /\ chan' = [chan EXCEPT ![c] = Tail(@)]
      /\ m.type = "OWNERSHIP" /\ ready[c]
      /\ \/ snapped[c] /\ pend' = [pend EXCEPT ![c] = <<m.table>>] /\ table' = table
         \/ ~snapped[c] /\ table' = [table EXCEPT ![c] = Adopted(c, m.table)] /\ pend' = pend
      /\ UNCHANGED <<cats, size, here, phase, split, snapped, ready, sentCount, id, nodeQ>>
  BY DEF OnOwnership, Receive, runVars
<1>3. c \in Process /\ Host # c /\ Client \subseteq Process
  BY HostFacts
<1>4. /\ m \in Letter /\ m.table \in Seq(Nat) /\ Len(m.table) \in Nat
      /\ Len(Known(c)) <= Len(m.table) /\ Begins(m.table, table[Host])
  BY <1>2, FirstLetter
<1>5. /\ table[c] \in Seq(Nat) /\ Len(table[c]) \in Nat /\ Len(Known(c)) \in Nat
      /\ table[Host] \in Seq(Nat) /\ Known(c) \in Seq(Nat)
      /\ Begins(table[c], Known(c)) /\ Begins(Known(c), table[Host])
      /\ Begins(table[c], table[Host])
      /\ Len(table[c]) <= Len(m.table)
  <2>1. /\ table[c] \in Seq(Nat) /\ Len(table[c]) \in Nat /\ Len(Known(c)) \in Nat
        /\ table[Host] \in Seq(Nat) /\ Known(c) \in Seq(Nat)
    BY <1>1, KnownIs
  <2>2. Begins(table[c], Known(c)) /\ Begins(Known(c), table[Host])
    BY <1>1 DEF Growth
  <2>3. Len(table[c]) <= Len(Known(c))
    BY <2>2 DEF Begins
  <2> QED
    BY <2>1, <2>2, <2>3, <1>4, BeginsChain
<1>6. /\ table' \in [Process -> Seq(Nat)] /\ pend' \in [Client -> Seq(Seq(Nat))]
      /\ Known(c)' = m.table /\ Len(pend'[c]) <= 1
      /\ table'[c] \in Seq(Nat) /\ Begins(table'[c], m.table) /\ Len(table[c]) <= Len(table'[c])
      /\ ~snapped[c] => pend'[c] = <<>>
      /\ \A p \in Process : p # c => table'[p] = table[p]
      /\ \A d \in Client : d # c => pend'[d] = pend[d]
  <2>1. CASE snapped[c]
    <3>1. /\ pend' = [pend EXCEPT ![c] = <<m.table>>] /\ table' = table
          /\ pend \in [Client -> Seq(Seq(Nat))] /\ table \in [Process -> Seq(Nat)]
      BY <2>1, <1>1, <1>2 DEF Well
    <3>2. <<m.table>> \in Seq(Seq(Nat)) /\ <<m.table>> # <<>> /\ <<m.table>>[1] = m.table
          /\ Len(<<m.table>>) = 1
      BY <1>4
    <3>3. pend'[c] = <<m.table>> /\ pend' \in [Client -> Seq(Seq(Nat))]
      BY <3>1, <3>2
    <3>4. Known(c)' = m.table
      BY <3>2, <3>3 DEF Known
    <3>5. Begins(table[c], m.table)
      BY <1>4, <1>5, BeginsBoth
    <3> QED
      BY <2>1, <3>1, <3>2, <3>3, <3>4, <3>5, <1>3, <1>5
  <2>2. CASE ~snapped[c]
    <3>1. pend[c] = <<>>
      BY <2>2, MailOf
    <3>2. Adopted(c, m.table) = m.table
      BY <1>4, <1>5 DEF Adopted
    <3>3. /\ table' = [table EXCEPT ![c] = m.table] /\ pend' = pend
          /\ pend \in [Client -> Seq(Seq(Nat))] /\ table \in [Process -> Seq(Nat)]
      BY <2>2, <3>2, <1>1, <1>2 DEF Well
    <3>4. table'[c] = m.table /\ table' \in [Process -> Seq(Nat)]
      BY <3>3, <1>3, <1>4
    <3>5. Known(c)' = m.table
      BY <3>1, <3>3, <3>4 DEF Known
    <3>6. Begins(m.table, m.table)
      BY <1>4, BeginsSelf
    <3>7. Len(pend'[c]) <= 1
      BY <3>3, <1>1 DEF Well
    <3> QED
      BY <2>2, <3>1, <3>3, <3>4, <3>5, <3>6, <3>7, <1>3, <1>4, <1>5
  <2> QED
    BY <2>1, <2>2
<1>7. chan'[c] = Tail(chan[c]) /\ \A d \in Client : d # c => chan'[d] = chan[d]
  BY <1>1, <1>2 DEF Well
<1>8. /\ Tail(chan[c]) \in Seq(Letter)
      /\ Sound(chan'[c], ready'[c], Len(Known(c)'), table[Host], size, here[Host])
      /\ id[c] # 0 /\ Told(chan'[c], ready'[c], Len(Known(c)'), sentCount)
  <2>1. PICK r, h : r = ready[c] /\ h = Len(m.table)
    OBVIOUS
  <2>2. r <=> ready[c] \/ m.type = "WELCOME"
    BY <2>1, <1>2
  <2>3. /\ Tail(chan[c]) \in Seq(Letter)
        /\ Sound(Tail(chan[c]), r, h, table[Host], size, here[Host])
        /\ id[c] # 0 /\ Told(Tail(chan[c]), r, h, sentCount)
    BY <2>1, <2>2, <1>2, <1>4, ReadsOn
  <2> QED
    BY <2>1, <2>3, <1>2, <1>6, <1>7
<1>9. Well'
  <2>1. chan' \in [Client -> Seq(Letter)]
    BY <1>1, <1>2, <1>8 DEF Well
  <2>2. \A d \in Client : Len(pend'[d]) <= 1
    <3> TAKE d \in Client
    <3>1. CASE d = c
      BY <3>1, <1>6
    <3>2. CASE d # c
      BY <3>2, <1>1, <1>6 DEF Well
    <3> QED
      BY <3>1, <3>2
  <2> QED
    BY <2>1, <2>2, <1>1, <1>2, <1>6 DEF Well
<1>10. Growth' /\ Mail' /\ \A d \in Client : d # c => Known(d)' = Known(d)
  <2>1. table'[Host] = table[Host]
    BY <1>3, <1>6, HostFacts
  <2>2. \A d \in Client : d # c =>
           /\ chan'[d] = chan[d] /\ ready'[d] = ready[d] /\ nodeQ'[d] = nodeQ[d]
           /\ table'[d] = table[d] /\ pend'[d] = pend[d]
    BY <1>2, <1>3, <1>6, <1>7
  <2>3. Begins(table'[c], Known(c)') /\ Begins(Known(c)', table[Host])
    BY <1>4, <1>6
  <2> QED
    BY <2>1, <2>2, <2>3, <1>2, <1>6, <1>8, OthersKeep
<1>11. Supplied'
  <2> SUFFICES ASSUME NEW p \in Process
               PROVE  /\ phase[p] = "entered" =>
                           here[p] \in Node /\ Capped(size[here[p]]) <= Len(table'[p])
                      /\ \A n \in DOMAIN split[p] :
                           /\ n \in Node /\ n <= here[Host]
                           /\ split[p][n] \in Seq(Nat)
                           /\ Capped(size[n]) <= Len(split[p][n])
                           /\ Begins(split[p][n], table'[Host])
    BY <1>2 DEF Supplied, Need
  <2>1. table'[Host] = table[Host]
    BY <1>3, <1>6, HostFacts
  <2>2. \A n \in DOMAIN split[p] :
           /\ n \in Node /\ n <= here[Host]
           /\ split[p][n] \in Seq(Nat)
           /\ Capped(size[n]) <= Len(split[p][n])
           /\ Begins(split[p][n], table'[Host])
    BY <2>1, <1>1 DEF Supplied, Need
  <2>3. ASSUME phase[p] = "entered"
        PROVE  here[p] \in Node /\ Capped(size[here[p]]) <= Len(table'[p])
    <3>1. here[p] \in Node /\ Capped(size[here[p]]) <= Len(table[p])
      BY <2>3, <1>1 DEF Supplied, Need
    <3>2. CASE p # c
      BY <3>1, <3>2, <1>6
    <3>3. CASE p = c
      <4>1. size[here[p]] \in Nat
        BY <3>1, <1>1 DEF Well
      <4>2. Capped(size[here[p]]) \in Nat /\ Len(table'[c]) \in Nat
        BY <4>1, <1>6, CappedIs, LenProperties
      <4> QED
        BY <3>1, <3>3, <4>2, <1>5, <1>6
    <3> QED
      BY <3>2, <3>3
  <2> QED
    BY <2>2, <2>3
<1>12. Queued'
  <2> SUFFICES ASSUME NEW d \in Client, NEW i \in 1 .. Len(nodeQ[d])
               PROVE  nodeQ[d][i] <= here[Host] /\ Capped(size[nodeQ[d][i]]) <= Len(Known(d)')
    BY <1>2 DEF Queued, Need
  <2>1. nodeQ[d][i] <= here[Host] /\ Capped(size[nodeQ[d][i]]) <= Len(Known(d))
    BY <1>1 DEF Queued, Need
  <2>2. CASE d # c
    BY <2>1, <2>2, <1>10
  <2>3. CASE d = c
    <3>1. nodeQ[d][i] \in Node
      BY <1>1, ElementOfSeq DEF Well
    <3>2. size[nodeQ[d][i]] \in Nat
      BY <3>1, <1>1 DEF Well
    <3>3. Capped(size[nodeQ[d][i]]) \in Nat
      BY <3>2, CappedIs
    <3> QED
      BY <2>1, <2>3, <3>3, <1>4, <1>5, <1>6
  <2> QED
    BY <2>2, <2>3
<1> QED
  BY <1>9, <1>10, <1>11, <1>12 DEF SplitInv

LEMMA SplitEnterNode ==
  ASSUME SplitInv, NEW c \in Client, NEW m, OnEnterNode(c, m)
  PROVE  SplitInv'
<1>1. Well /\ Growth /\ Supplied /\ Queued /\ Mail
  BY DEF SplitInv
<1>2. /\ chan[c] # <<>> /\ m = Head(chan[c]) /\ chan' = [chan EXCEPT ![c] = Tail(@)]
      /\ m.type = "ENTERNODE" /\ ready[c]
      /\ nodeQ' = [nodeQ EXCEPT ![c] = Append(@, m.node)] \/ nodeQ' = nodeQ
      /\ UNCHANGED <<cats, size, here, phase, split, snapped, table, pend, ready, sentCount, id>>
  BY DEF OnEnterNode, Receive, runVars
<1>3. m \in Letter /\ m.node \in Node /\ m.node <= here[Host] /\ Need(m.node) <= Len(Known(c))
  BY <1>2, FirstLetter
<1>4. PICK q : q = Append(nodeQ[c], m.node)
  OBVIOUS
<1>5. /\ q \in Seq(Node) /\ Len(q) = Len(nodeQ[c]) + 1 /\ q[Len(nodeQ[c]) + 1] = m.node
      /\ \A i \in 1 .. Len(nodeQ[c]) : q[i] = nodeQ[c][i]
      /\ Len(nodeQ[c]) \in Nat
  <2>1. nodeQ[c] \in Seq(Node)
    BY <1>1 DEF Well
  <2> QED
    BY <2>1, <1>3, <1>4, AppendProperties, LenProperties
<1>6. /\ nodeQ' \in [Client -> Seq(Node)] /\ (nodeQ'[c] = q \/ nodeQ'[c] = nodeQ[c])
      /\ \A d \in Client : d # c => nodeQ'[d] = nodeQ[d]
  BY <1>1, <1>2, <1>4, <1>5 DEF Well
<1>7. chan'[c] = Tail(chan[c]) /\ \A d \in Client : d # c => chan'[d] = chan[d]
  BY <1>1, <1>2 DEF Well
<1>8. \A d \in Client : Known(d)' = Known(d)
  BY <1>2 DEF Known
<1>9. /\ Tail(chan[c]) \in Seq(Letter)
      /\ Sound(chan'[c], ready'[c], Len(Known(c)'), table[Host], size, here[Host])
      /\ id[c] # 0 /\ Told(chan'[c], ready'[c], Len(Known(c)'), sentCount)
  <2>1. PICK r, h : r = ready[c] /\ h = Len(Known(c))
    OBVIOUS
  <2>2. (r <=> ready[c] \/ m.type = "WELCOME") /\ h \in Nat /\ h <= h
        /\ ~(ready[c] /\ m.type = "OWNERSHIP")
    BY <2>1, <1>2, MailOf
  <2>3. /\ Tail(chan[c]) \in Seq(Letter)
        /\ Sound(Tail(chan[c]), r, h, table[Host], size, here[Host])
        /\ id[c] # 0 /\ Told(Tail(chan[c]), r, h, sentCount)
    BY <2>1, <2>2, <1>2, ReadsOn
  <2> QED
    BY <2>1, <2>3, <1>2, <1>7, <1>8
<1>10. Well'
  <2>1. chan' \in [Client -> Seq(Letter)]
    BY <1>1, <1>2, <1>9 DEF Well
  <2> QED
    BY <2>1, <1>1, <1>2, <1>6 DEF Well
<1>11. Growth' /\ Mail'
  <2>1. Begins(table[c], Known(c)) /\ Begins(Known(c), table[Host])
    BY <1>1 DEF Growth
  <2>2. ~snapped[c] => pend[c] = <<>>
    BY MailOf
  <2> QED
    BY <2>1, <2>2, <1>2, <1>6, <1>7, <1>8, <1>9, OthersKeep
<1>12. Supplied'
  BY <1>1, <1>2 DEF Supplied, Need
<1>13. Queued'
  <2> SUFFICES ASSUME NEW d \in Client, NEW i \in 1 .. Len(nodeQ'[d])
               PROVE  nodeQ'[d][i] <= here[Host] /\ Need(nodeQ'[d][i]) <= Len(Known(d))
    BY <1>2, <1>8 DEF Queued, Need
  <2>1. CASE d # c \/ nodeQ'[c] = nodeQ[c]
    BY <2>1, <1>1, <1>6 DEF Queued
  <2>2. CASE d = c /\ nodeQ'[c] = q
    <3>1. CASE i = Len(nodeQ[c]) + 1
      BY <2>2, <3>1, <1>3, <1>5
    <3>2. CASE i \in 1 .. Len(nodeQ[c])
      BY <2>2, <3>2, <1>1, <1>5 DEF Queued
    <3> QED
      BY <2>2, <3>1, <3>2, <1>5
  <2> QED
    BY <2>1, <2>2, <1>6
<1> QED
  BY <1>10, <1>11, <1>12, <1>13 DEF SplitInv

(* follow_map_update: what was held back is applied, and the first node of *)
(* the queue was covered by it.                                            *)
LEMMA SplitFollow ==
  ASSUME SplitInv, NEW c \in Client, FollowNode(c)
  PROVE  SplitInv'
<1>1. Well /\ Growth /\ Supplied /\ Queued /\ Mail
  BY DEF SplitInv
<1>2. PICK n, t : n = Head(nodeQ[c]) /\ t = ApplyPending(c)
  OBVIOUS
<1>3. /\ nodeQ[c] # <<>>
      /\ here' = [here EXCEPT ![c] = n] /\ phase' = [phase EXCEPT ![c] = "entered"]
      /\ nodeQ' = [nodeQ EXCEPT ![c] = Tail(@)]
      /\ table' = [table EXCEPT ![c] = t] /\ pend' = [pend EXCEPT ![c] = <<>>]
      /\ UNCHANGED <<cats, size, split, snapped, sentCount, ready, id, chan>>
  BY <1>2 DEF FollowNode
<1>4. c \in Process /\ Host \in Process /\ Host # c /\ here[Host] \in Nat /\ Client \subseteq Process
  BY HostFacts
<1>5. /\ table[c] \in Seq(Nat) /\ Len(table[c]) \in Nat /\ Len(Known(c)) \in Nat
      /\ Known(c) \in Seq(Nat) /\ table[Host] \in Seq(Nat)
      /\ Begins(table[c], Known(c)) /\ Begins(Known(c), table[Host])
      /\ Len(table[c]) <= Len(Known(c))
  <2>1. /\ table[c] \in Seq(Nat) /\ Len(table[c]) \in Nat /\ Len(Known(c)) \in Nat
        /\ Known(c) \in Seq(Nat) /\ table[Host] \in Seq(Nat)
    BY <1>1, KnownIs
  <2>2. Begins(table[c], Known(c)) /\ Begins(Known(c), table[Host])
    BY <1>1 DEF Growth
  <2> QED
    BY <2>1, <2>2 DEF Begins
<1>6. t = Known(c)
  <2>1. CASE pend[c] = <<>>
    BY <2>1, <1>2 DEF ApplyPending, Known
  <2>2. CASE pend[c] # <<>>
    <3>1. Known(c) = pend[c][1]
      BY <2>2 DEF Known
    <3>2. t = Adopted(c, Known(c))
      BY <2>2, <3>1, <1>2 DEF ApplyPending
    <3> QED
      BY <3>2, <1>5 DEF Adopted
  <2> QED
    BY <2>1, <2>2
<1>7. /\ nodeQ[c] \in Seq(Node) /\ Len(nodeQ[c]) \in Nat /\ n = nodeQ[c][1] /\ n \in Node
      /\ n \in Nat /\ n <= here[Host] /\ Need(n) <= Len(Known(c))
      /\ Tail(nodeQ[c]) \in Seq(Node)
      /\ \A i \in 1 .. Len(Tail(nodeQ[c])) :
           i + 1 \in 1 .. Len(nodeQ[c]) /\ Tail(nodeQ[c])[i] = nodeQ[c][i + 1]
  <2>1. PICK q, u : q = nodeQ[c] /\ u = Tail(q)
    OBVIOUS
  <2>2. q \in Seq(Node) /\ q # <<>>
    BY <2>1, <1>1, <1>3 DEF Well
  <2>3. /\ Len(q) \in Nat /\ Len(q) # 0 /\ n = q[1] /\ u \in Seq(Node) /\ Len(u) = Len(q) - 1
        /\ \A i \in 1 .. Len(q) - 1 : u[i] = q[i + 1]
    BY <2>1, <2>2, <1>2, HeadTailProperties, LenProperties, EmptySeq
  <2>4. 1 \in 1 .. Len(q)
    BY <2>3
  <2>5. n \in Node /\ n \in Nat /\ n <= here[Host] /\ Need(n) <= Len(Known(c))
    <3>1. n \in Node
      BY <2>2, <2>3, <2>4, ElementOfSeq
    <3>2. n <= here[Host] /\ Need(n) <= Len(Known(c))
      BY <2>1, <2>3, <2>4, <1>1 DEF Queued
    <3> QED
      BY <3>1, <3>2 DEF Node
  <2>6. \A i \in 1 .. Len(u) : i + 1 \in 1 .. Len(q) /\ u[i] = q[i + 1]
    BY <2>3
  <2> QED
    BY <2>1, <2>2, <2>3, <2>5, <2>6
<1>8. /\ here' \in [Process -> Nat] /\ phase' \in [Process -> {"map", "entered", "battle"}]
      /\ table' \in [Process -> Seq(Nat)] /\ pend' \in [Client -> Seq(Seq(Nat))]
      /\ nodeQ' \in [Client -> Seq(Node)]
      /\ here'[c] = n /\ table'[c] = Known(c) /\ pend'[c] = <<>> /\ nodeQ'[c] = Tail(nodeQ[c])
      /\ \A p \in Process : p # c =>
           here'[p] = here[p] /\ table'[p] = table[p] /\ phase'[p] = phase[p]
      /\ \A d \in Client : d # c => pend'[d] = pend[d] /\ nodeQ'[d] = nodeQ[d]
  <2>1. /\ here \in [Process -> Nat] /\ phase \in [Process -> {"map", "entered", "battle"}]
        /\ table \in [Process -> Seq(Nat)] /\ pend \in [Client -> Seq(Seq(Nat))]
        /\ nodeQ \in [Client -> Seq(Node)]
    BY <1>1 DEF Well
  <2>2. <<>> \in Seq(Seq(Nat)) /\ t \in Seq(Nat)
    BY <1>5, <1>6, EmptySeq
  <2> QED
    BY <2>1, <2>2, <1>3, <1>4, <1>6, <1>7
<1>9. \A d \in Client : Known(d)' = Known(d)
  <2> TAKE d \in Client
  <2>1. CASE d = c
    BY <2>1, <1>8 DEF Known
  <2>2. CASE d # c
    BY <2>2, <1>4, <1>8 DEF Known
  <2> QED
    BY <2>1, <2>2
<1>10. table'[Host] = table[Host] /\ here'[Host] = here[Host]
  BY <1>4, <1>8
<1>11. Well'
  <2>1. \A p \in Process : here'[p] <= here'[Host]
    <3> TAKE p \in Process
    <3>1. CASE p = c
      BY <3>1, <1>7, <1>8, <1>10
    <3>2. CASE p # c
      BY <3>2, <1>1, <1>8, <1>10 DEF Well
    <3> QED
      BY <3>1, <3>2
  <2>2. \A d \in Client : Len(pend'[d]) <= 1
    <3> TAKE d \in Client
    <3>1. CASE d = c
      BY <3>1, <1>8, EmptySeq
    <3>2. CASE d # c
      BY <3>2, <1>1, <1>8 DEF Well
    <3> QED
      BY <3>1, <3>2
  <2> QED
    BY <2>1, <2>2, <1>1, <1>3, <1>8, <1>10 DEF Well
<1>12. Growth'
  <2> SUFFICES ASSUME NEW d \in Client
               PROVE  Begins(table'[d], Known(d)) /\ Begins(Known(d), table[Host])
    BY <1>1, <1>3, <1>9, <1>10 DEF Growth, Need
  <2>1. CASE d = c
    BY <2>1, <1>5, <1>8, BeginsSelf
  <2>2. CASE d # c
    BY <2>2, <1>1, <1>4, <1>8 DEF Growth
  <2> QED
    BY <2>1, <2>2
<1>13. Supplied'
  <2> SUFFICES ASSUME NEW p \in Process
               PROVE  /\ phase'[p] = "entered" =>
                           here'[p] \in Node /\ Capped(size[here'[p]]) <= Len(table'[p])
                      /\ \A k \in DOMAIN split[p] :
                           /\ k \in Node /\ k <= here[Host]
                           /\ split[p][k] \in Seq(Nat)
                           /\ Capped(size[k]) <= Len(split[p][k])
                           /\ Begins(split[p][k], table[Host])
    BY <1>3, <1>10 DEF Supplied, Need
  <2>1. CASE p = c
    BY <2>1, <1>1, <1>7, <1>8 DEF Supplied, Need
  <2>2. CASE p # c
    BY <2>2, <1>1, <1>8 DEF Supplied, Need
  <2> QED
    BY <2>1, <2>2
<1>14. Queued'
  <2> SUFFICES ASSUME NEW d \in Client, NEW i \in 1 .. Len(nodeQ'[d])
               PROVE  nodeQ'[d][i] <= here[Host] /\ Need(nodeQ'[d][i]) <= Len(Known(d))
    BY <1>3, <1>9, <1>10 DEF Queued, Need
  <2>1. CASE d = c
    BY <2>1, <1>1, <1>7, <1>8 DEF Queued
  <2>2. CASE d # c
    BY <2>2, <1>1, <1>8 DEF Queued
  <2> QED
    BY <2>1, <2>2
<1>15. Mail'
  <2> SUFFICES ASSUME NEW d \in Client
               PROVE  /\ Sound(chan[d], ready[d], Len(Known(d)), table[Host], size, here[Host])
                      /\ id[d] # 0 => Told(chan[d], ready[d], Len(Known(d)), sentCount)
                      /\ id[d] = 0 => ~ready[d] /\ chan[d] = <<>> /\ nodeQ'[d] = <<>>
                      /\ ~snapped[d] => pend'[d] = <<>>
    BY <1>3, <1>9, <1>10 DEF Mail
  <2>1. CASE d = c
    <3>1. id[c] # 0
      BY <1>3, MailOf
    <3> QED
      BY <2>1, <3>1, <1>8, MailOf
  <2>2. CASE d # c
    BY <2>2, <1>8, MailOf
  <2> QED
    BY <2>1, <2>2
<1> QED
  BY <1>11, <1>12, <1>13, <1>14, <1>15 DEF SplitInv

LEMMA SplitSnapshot ==
  ASSUME SplitInv, NEW p \in Process, Snapshot(p)
  PROVE  SplitInv'
<1>1. Well /\ Growth /\ Supplied /\ Queued /\ Mail
  BY DEF SplitInv
<1>2. PICK n, f : /\ n = here[p]
                  /\ f = [k \in (DOMAIN split[p]) \cup {n} |->
                            IF k = n THEN table[p] ELSE split[p][k]]
  OBVIOUS
<1>3. /\ phase[p] = "entered" /\ phase' = [phase EXCEPT ![p] = "battle"]
      /\ snapped' = [snapped EXCEPT ![p] = TRUE] /\ split' = [split EXCEPT ![p] = f]
      /\ UNCHANGED <<cats, size, here, table, sentCount, pend, ready, id, chan, nodeQ>>
  BY <1>2 DEF Snapshot, tableVars
<1>4. /\ n \in Node /\ n \in Nat /\ n <= here[Host] /\ Need(n) <= Len(table[p])
      /\ table[p] \in Seq(Nat) /\ Begins(table[p], table[Host])
  <2>1. n \in Node /\ n <= here[Host] /\ Need(n) <= Len(table[p]) /\ table[p] \in Seq(Nat)
    BY <1>1, <1>2, <1>3 DEF Supplied, Well
  <2>2. CASE p = Host
    BY <2>1, <2>2, BeginsSelf DEF Node
  <2>3. CASE p # Host
    <3>1. p \in Client
      BY <2>3, HostFacts
    <3>2. Begins(table[p], Known(p)) /\ Begins(Known(p), table[Host])
      BY <3>1, <1>1 DEF Growth
    <3> QED
      BY <2>1, <3>1, <3>2, <1>1, KnownIs, BeginsChain DEF Node
  <2> QED
    BY <2>2, <2>3
<1>5. /\ split'[p] = f /\ \A q \in Process : q # p => split'[q] = split[q]
      /\ split' = [q \in Process |-> split'[q]]
      /\ phase' \in [Process -> {"map", "entered", "battle"}]
      /\ phase'[p] = "battle" /\ \A q \in Process : q # p => phase'[q] = phase[q]
  <2>1. split = [q \in Process |-> split[q]] /\ phase \in [Process -> {"map", "entered", "battle"}]
    BY <1>1 DEF Well
  <2>2. split'[p] = f /\ \A q \in Process : q # p => split'[q] = split[q]
    BY <2>1, <1>3
  <2>3. split' = [q \in Process |-> split'[q]]
    BY <2>1, <1>3
  <2> QED
    BY <2>1, <2>2, <2>3, <1>3
<1>6. /\ DOMAIN f = (DOMAIN split[p]) \cup {n} /\ f[n] = table[p]
      /\ \A k \in DOMAIN split[p] : k # n => f[k] = split[p][k]
  BY <1>2
<1>7. snapped' \in [Process -> BOOLEAN] /\ \A q \in Process : snapped[q] => snapped'[q]
  BY <1>1, <1>3 DEF Well
<1>8. Well'
  BY <1>1, <1>3, <1>5, <1>7 DEF Well
<1>9. \A d \in Client : Known(d)' = Known(d)
  BY <1>3 DEF Known
<1>10. Growth' /\ Queued'
  BY <1>1, <1>3, <1>9 DEF Growth, Queued, Need
<1>11. Supplied'
  <2> SUFFICES ASSUME NEW q \in Process
               PROVE  /\ phase'[q] = "entered" => here[q] \in Node /\ Need(here[q]) <= Len(table[q])
                      /\ \A k \in DOMAIN split'[q] :
                           /\ k \in Node /\ k <= here[Host]
                           /\ split'[q][k] \in Seq(Nat)
                           /\ Need(k) <= Len(split'[q][k])
                           /\ Begins(split'[q][k], table[Host])
    BY <1>3 DEF Supplied, Need
  <2>1. CASE q = p
    <3>1. ASSUME NEW k \in DOMAIN f
          PROVE  /\ k \in Node /\ k <= here[Host] /\ f[k] \in Seq(Nat)
                 /\ Need(k) <= Len(f[k]) /\ Begins(f[k], table[Host])
      <4>1. CASE k = n
        BY <4>1, <1>4, <1>6
      <4>2. CASE k # n
        <5>1. k \in DOMAIN split[p] /\ f[k] = split[p][k]
          BY <3>1, <4>2, <1>6
        <5> QED
          BY <5>1, <1>1 DEF Supplied
      <4> QED
        BY <4>1, <4>2
    <3> QED
      BY <2>1, <3>1, <1>5
  <2>2. CASE q # p
    BY <2>2, <1>1, <1>5 DEF Supplied
  <2> QED
    BY <2>1, <2>2
<1>12. Mail'
  <2> SUFFICES ASSUME NEW d \in Client
               PROVE  /\ Sound(chan[d], ready[d], Len(Known(d)), table[Host], size, here[Host])
                      /\ id[d] # 0 => Told(chan[d], ready[d], Len(Known(d)), sentCount)
                      /\ id[d] = 0 => ~ready[d] /\ chan[d] = <<>> /\ nodeQ[d] = <<>>
                      /\ ~snapped'[d] => pend[d] = <<>>
    BY <1>3, <1>9 DEF Mail
  <2>1. ~snapped'[d] => pend[d] = <<>>
    BY <1>7, MailOf, HostFacts
  <2> QED
    BY <2>1, MailOf
<1> QED
  BY <1>8, <1>10, <1>11, <1>12 DEF SplitInv

LEMMA SplitEnd ==
  ASSUME SplitInv, NEW p \in Process, EndBattle(p)
  PROVE  SplitInv'
<1>1. Well /\ Growth /\ Supplied /\ Queued /\ Mail
  BY DEF SplitInv
<1>2. /\ phase' = [phase EXCEPT ![p] = "map"]
      /\ UNCHANGED <<cats, size, here, split, snapped, table, sentCount, pend, ready, id, chan,
                     nodeQ>>
  BY DEF EndBattle, tableVars
<1>3. /\ phase' \in [Process -> {"map", "entered", "battle"}]
      /\ \A q \in Process : phase'[q] = "entered" => phase[q] = "entered"
  BY <1>1, <1>2 DEF Well
<1>4. Well'
  BY <1>1, <1>2, <1>3 DEF Well
<1>5. \A d \in Client : Known(d)' = Known(d)
  BY <1>2 DEF Known
<1>6. Growth' /\ Queued' /\ Mail' /\ Supplied'
  BY <1>1, <1>2, <1>3, <1>5 DEF Growth, Queued, Mail, Supplied, Need, Known
<1> QED
  BY <1>4, <1>6 DEF SplitInv

LEMMA SplitStep == SplitInv /\ [Next]_vars => SplitInv'
<1> SUFFICES ASSUME SplitInv, [Next]_vars PROVE SplitInv'
  OBVIOUS
<1>1. CASE FrameTick \/ Recruit \/ HostEnterNode
  BY <1>1, SplitFrameTick, SplitRecruit, SplitEnter
<1>2. ASSUME NEW c \in Client,
             Connect(c) \/ HandleHello(c) \/ LoseLink(c) \/ Restart(c) \/ FollowNode(c)
      PROVE  SplitInv'
  BY <1>2, SplitConnect, SplitHello, SplitLose, SplitRestart, SplitFollow
<1>3. ASSUME NEW c \in Client, NEW m, OnWelcome(c, m) \/ OnOwnership(c, m) \/ OnEnterNode(c, m)
      PROVE  SplitInv'
  BY <1>3, SplitWelcome, SplitOwnership, SplitEnterNode
<1>4. ASSUME NEW p \in Process, Snapshot(p) \/ EndBattle(p)
      PROVE  SplitInv'
  BY <1>4, SplitSnapshot, SplitEnd
<1>5. CASE UNCHANGED vars
  <2>1. UNCHANGED <<cats, size, here, phase, split, snapped, table, sentCount, pend, ready, id,
                    chan, nodeQ>>
    BY <1>5 DEF vars, runVars, tableVars
  <2> QED
    BY <2>1 DEF SplitInv, Well, Growth, Supplied, Queued, Mail, Need, Known
<1> QED
  BY <1>1, <1>2, <1>3, <1>4, <1>5 DEF Next

-------------------------------------------------------------------------------
(* Any two processes that have split the same battle read the same owner   *)
(* for every cat the run had when the host entered its node, and an owner  *)
(* there is: whatever was recruited, lost, held back or sent again         *)
(* meanwhile, and however long anybody takes (ownership_publish,           *)
(* ownership_forget, ownership_apply_pending, snapshot_cats).              *)
THEOREM SplitsAgree == Spec => []SameSplit
<1>1. SplitInv => SameSplit
  <2> SUFFICES ASSUME SplitInv, NEW c \in Client,
                      NEW n \in (DOMAIN split[Host]) \cap (DOMAIN split[c]), NEW i \in 1 .. size[n]
               PROVE  /\ OwnerOf(split[Host][n], i) = OwnerOf(split[c][n], i)
                      /\ i <= MaxOwnerSlots => OwnerOf(split[c][n], i) # NoOwner
    BY DEF SameSplit
  <2>1. PICK s, t, u : s = split[Host][n] /\ t = split[c][n] /\ u = table[Host]
    OBVIOUS
  <2>2. /\ s \in Seq(Nat) /\ t \in Seq(Nat) /\ u \in Seq(Nat) /\ n \in Node
        /\ Need(n) <= Len(s) /\ Need(n) <= Len(t) /\ Begins(s, u) /\ Begins(t, u)
        /\ Len(u) <= MaxOwnerSlots
    BY <2>1, HostFacts DEF SplitInv, Supplied, Growth
  <2>3. size[n] \in Nat /\ Need(n) = Capped(size[n]) /\ i \in Nat /\ 1 <= i
    BY <2>2 DEF SplitInv, Well, Need
  <2>4. /\ Len(s) \in Nat /\ Len(t) \in Nat /\ Len(u) \in Nat /\ MaxOwnerSlots \in Nat
        /\ DOMAIN s = 1 .. Len(s) /\ DOMAIN t = 1 .. Len(t)
        /\ Len(s) <= Len(u) /\ Len(t) <= Len(u)
    BY <2>2, LenProperties, SlotCapAssumption DEF Begins
  <2>5. CASE i <= MaxOwnerSlots
    <3>1. i <= Capped(size[n])
      BY <2>3, <2>4, <2>5 DEF Capped
    <3>2. i \in 1 .. Len(s) /\ i \in 1 .. Len(t)
      <4>1. Capped(size[n]) \in Nat
        BY <2>3, CappedIs
      <4>2. PICK k, x, y : k = Capped(size[n]) /\ x = Len(s) /\ y = Len(t)
        OBVIOUS
      <4>3. k \in Nat /\ x \in Nat /\ y \in Nat /\ i <= k /\ k <= x /\ k <= y
        BY <4>1, <4>2, <3>1, <2>2, <2>3, <2>4
      <4>4. i \in 1 .. x /\ i \in 1 .. y
        BY <4>3, <2>3
      <4> QED
        BY <4>2, <4>4
    <3>3. s[i] = u[i] /\ t[i] = u[i]
      BY <3>2, <2>2 DEF Begins
    <3>4. t[i] \in Nat
      BY <3>2, <2>2, ElementOfSeq
    <3>5. t[i] # NoOwner
      BY <3>4, SlotCapAssumption
    <3> QED
      BY <3>2, <3>3, <3>5, <2>1, <2>4 DEF OwnerOf
  <2>6. CASE ~(i <= MaxOwnerSlots)
    <3>1. i \notin DOMAIN s /\ i \notin DOMAIN t
      BY <2>2, <2>3, <2>4, <2>6
    <3> QED
      BY <3>1, <2>1, <2>6 DEF OwnerOf
  <2> QED
    BY <2>5, <2>6
<1> QED
  BY <1>1, SplitInit, SplitStep, PTL DEF Spec

(* A welcomed client that has read all its messages holds, applied or      *)
(* pending, the table the host last published, whoever joined, left or     *)
(* joined again in the meantime (ownership_forget).                        *)
THEOREM NothingIsMissed == Spec => []NothingMissed
<1>1. SplitInv => NothingMissed
  <2> SUFFICES ASSUME SplitInv, NEW c \in Client, ready[c], id[c] # 0,
                      \A i \in DOMAIN chan[c] : chan[c][i].type # "OWNERSHIP",
                      sentCount = <<Len(table[Host])>>
               PROVE  table[Host] = Known(c)
    BY DEF NothingMissed, Known
  <2>1. PICK s, r, h, k : s = chan[c] /\ r = ready[c] /\ h = Len(Known(c)) /\ k = Len(table[Host])
    OBVIOUS
  <2>2. s \in Seq(Letter) /\ Told(s, r, h, sentCount) /\ h \in Nat /\ r
    BY <2>1, MailOf
  <2>3. sentCount # <<>> /\ sentCount[1] = k
    BY <2>1
  <2>4. Knows(s, r, h, Len(s) + 1, k)
    BY <2>2, <2>3 DEF Told, Heeds
  <2>5. k <= h
    <3>1. DOMAIN s = 1 .. Len(s) /\ Len(s) \in Nat
      BY <2>2, LenProperties
    <3>2. ASSUME NEW j \in 1 .. (Len(s) + 1) - 1 PROVE s[j].type # "OWNERSHIP"
      <4>1. j \in DOMAIN s
        BY <3>1
      <4> QED
        BY <4>1, <2>1
    <3> QED
      BY <3>2, <2>4 DEF Knows
  <2>6. /\ Known(c) \in Seq(Nat) /\ table[Host] \in Seq(Nat) /\ Begins(Known(c), table[Host])
    BY KnownIs DEF SplitInv, Growth
  <2> QED
    BY <2>1, <2>5, <2>6, BeginsEqual
<1> QED
  BY <1>1, SplitInit, SplitStep, PTL DEF Spec

Kept(p) == IsPrefix(table[p], table'[p]) \/ (p # Host /\ table'[p] = NoTable /\ here'[p] = 0)

LEMMA SplitKept ==
  ASSUME SplitInv, [Next]_vars, NEW p \in Process
  PROVE  Kept(p)
<1>1. Well /\ Growth
  BY DEF SplitInv
<1>2. table[p] \in Seq(Nat) /\ table \in [Process -> Seq(Nat)]
  BY <1>1 DEF Well
<1>3. ASSUME table'[p] = table[p] PROVE Kept(p)
  BY <1>2, <1>3, BeginsSelf, BeginsPrefix DEF Kept
<1>4. ASSUME NEW due, PublishTable(due) PROVE Kept(p)
  <2>1. table' = [table EXCEPT ![Host] = Grown] /\ Host \in Process
    BY <1>4, HostFacts DEF PublishTable
  <2>2. CASE p = Host
    <3>1. Grown \in Seq(Nat) /\ Begins(table[p], Grown) /\ table'[p] = Grown
      BY <2>1, <2>2, <1>2, HostFacts
    <3> QED
      BY <3>1, <1>2, BeginsPrefix DEF Kept
  <2>3. CASE p # Host
    BY <2>1, <2>3, <1>2, <1>3
  <2> QED
    BY <2>2, <2>3
<1>5. ASSUME NEW c \in Client, Restart(c) PROVE Kept(p)
  <2>1. /\ table' = [table EXCEPT ![c] = NoTable] /\ here' = [here EXCEPT ![c] = 0]
        /\ here \in [Process -> Nat] /\ c # Host
    BY <1>1, <1>5, HostFacts DEF Restart, Well
  <2>2. CASE p = c
    BY <2>1, <2>2, <1>2 DEF Kept
  <2>3. CASE p # c
    BY <2>1, <2>3, <1>2, <1>3
  <2> QED
    BY <2>2, <2>3
<1>6. ASSUME NEW c \in Client, NEW t \in Seq(Nat), Begins(table[c], t) \/ t = table[c],
             table' = [table EXCEPT ![c] = t]
      PROVE  Kept(p)
  <2>1. CASE p = c
    <3>1. table'[p] = t
      BY <2>1, <1>2, <1>6
    <3>2. Begins(table[p], t)
      BY <2>1, <1>2, <1>6, BeginsSelf
    <3> QED
      BY <3>1, <3>2, <1>2, BeginsPrefix DEF Kept
  <2>2. CASE p # c
    BY <2>2, <1>2, <1>3, <1>6
  <2> QED
    BY <2>1, <2>2
<1>7. ASSUME NEW c \in Client, FollowNode(c) PROVE Kept(p)
  <2>1. PICK t : t = ApplyPending(c)
    OBVIOUS
  <2>2. table' = [table EXCEPT ![c] = t]
    BY <2>1, <1>7 DEF FollowNode
  <2>3. /\ table[c] \in Seq(Nat) /\ Known(c) \in Seq(Nat) /\ Begins(table[c], Known(c))
        /\ t = table[c] \/ t = Known(c)
    <3>1. table[c] \in Seq(Nat) /\ Known(c) \in Seq(Nat) /\ Begins(table[c], Known(c))
      BY <1>1, KnownIs DEF Growth
    <3> QED
      BY <3>1, <2>1 DEF ApplyPending, Adopted, Known
  <2> QED
    BY <2>2, <2>3, <1>6
<1>8. ASSUME NEW c \in Client, NEW m, OnOwnership(c, m) PROVE Kept(p)
  <2>1. CASE table' = table
    BY <2>1, <1>3
  <2>2. CASE table' # table
    <3>1. PICK t : t = Adopted(c, m.table)
      OBVIOUS
    <3>2. /\ table' = [table EXCEPT ![c] = t]
          /\ chan[c] # <<>> /\ m = Head(chan[c]) /\ m.type = "OWNERSHIP"
      BY <2>2, <3>1, <1>8 DEF OnOwnership, Receive
    <3>3. /\ m.table \in Seq(Nat) /\ Begins(m.table, table[Host])
          /\ table[c] \in Seq(Nat) /\ table[Host] \in Seq(Nat)
          /\ Begins(table[c], table[Host]) /\ Len(table[c]) \in Nat /\ Len(m.table) \in Nat
      BY <3>2, <1>1, FirstLetter, KnownIs, BeginsChain DEF Growth
    <3>4. CASE Len(m.table) < Len(table[c])
      <4>1. t = table[c]
        BY <3>1, <3>4 DEF Adopted
      <4> QED
        BY <4>1, <3>2, <3>3, <1>6
    <3>5. CASE ~(Len(m.table) < Len(table[c]))
      <4>1. t = m.table
        BY <3>1, <3>5 DEF Adopted
      <4>2. Begins(table[c], t)
        BY <4>1, <3>3, <3>5, BeginsBoth
      <4> QED
        BY <4>1, <4>2, <3>2, <3>3, <1>6
    <3> QED
      BY <3>4, <3>5
  <2> QED
    BY <2>1, <2>2
<1>9. CASE FrameTick \/ HostEnterNode
  BY <1>4, <1>9 DEF FrameTick, HostEnterNode
<1>10. CASE Recruit
  BY <1>3, <1>10 DEF Recruit, tableVars
<1>11. ASSUME NEW c \in Client, HandleHello(c) PROVE Kept(p)
  BY <1>4, <1>11 DEF HandleHello
<1>12. ASSUME NEW c \in Client, Connect(c) \/ LoseLink(c) PROVE Kept(p)
  BY <1>3, <1>12 DEF Connect, LoseLink, tableVars
<1>13. ASSUME NEW c \in Client, NEW m, OnWelcome(c, m) \/ OnEnterNode(c, m) PROVE Kept(p)
  BY <1>3, <1>13 DEF OnWelcome, OnEnterNode
<1>14. ASSUME NEW q \in Process, Snapshot(q) \/ EndBattle(q) PROVE Kept(p)
  BY <1>3, <1>14 DEF Snapshot, EndBattle, tableVars
<1>15. CASE UNCHANGED vars
  BY <1>3, <1>15 DEF vars, tableVars
<1> QED
  BY <1>5, <1>7, <1>8, <1>9, <1>10, <1>11, <1>12, <1>13, <1>14, <1>15 DEF Next

(* A cat once given is never given to another player, on any process's     *)
(* table, through growth, loss and return: a table is begun anew only when *)
(* its process is (grow, apply_now).                                       *)
THEOREM CatsKeepOwners == Spec => NeverReassigned
<1> DEFINE Keeps == \A p \in Process : Kept(p)
<1>1. SplitInv /\ [Next]_vars => Keeps
  BY SplitKept
<1>2. Keeps => \A p \in Process :
        \/ IsPrefix(table[p], table'[p])
        \/ p # Host /\ table'[p] = NoTable /\ here'[p] = 0
  BY DEF Kept
<1> HIDE DEF Keeps
<1> QED
  BY <1>1, <1>2, SplitInit, SplitStep, PTL DEF Spec, NeverReassigned

-------------------------------------------------------------------------------
(* The buffers of a link's messages.                                       *)

LEMMA WrapIs ==
  ASSUME NEW n \in Nat, n > 0, NEW a \in Nat, a < n + n
  PROVE  a % n = IF a < n THEN a ELSE a - n
<1>1. CASE a < n
  BY <1>1
<1>2. CASE ~(a < n)
  <2>1. PICK d, r : d = a \div n /\ r = a % n
    OBVIOUS
  <2>2. d \in Int /\ r \in 0 .. n - 1 
    BY <2>1
  <2>3. a = n * d + r
    BY <2>1
  <2>4. d = 1
    BY <1>2, <2>2, <2>3
  <2> QED
    BY <1>2, <2>1, <2>3, <2>4
<1> QED
  BY <1>1, <1>2

(* How far a slot of the queue is behind its head, and what is queued.     *)
Behind(i) == IF i >= head THEN i - head ELSE i - head + QueueCap
InRing(i) == Behind(i) < count

RingTypes ==
  /\ head \in 0 .. QueueCap - 1 /\ count \in 0 .. QueueCap
  /\ queue = [i \in 0 .. QueueCap - 1 |-> queue[i]]
  /\ \A i \in 0 .. QueueCap - 1 :
       queue[i] = [from |-> queue[i].from, m |-> queue[i].m, ptrs |-> queue[i].ptrs]
  /\ hand # <<>> => hand = <<hand[1]>>

Taken == UNION {hand[i].ptrs : i \in DOMAIN hand}

(* A slot that is not queued points to nothing, no two own a buffer, and   *)
(* every buffer in use has an owner.                                       *)
HeapInv ==
  /\ RingTypes
  /\ \A i \in Slots : ~InRing(i) => queue[i].ptrs = {}
  /\ \A i, j \in Slots : i # j => queue[i].ptrs \cap queue[j].ptrs = {}
  /\ \A i \in Slots : queue[i].ptrs \cap Taken = {}
  /\ \A b : b \in heap <=> b \in Taken \/ \E i \in Slots : b \in queue[i].ptrs

LEMMA FreshIs == ASSUME NEW n PROVE Fresh(n) \cap heap = {}
BY DEF Fresh

LEMMA SlotsAre == ASSUME RingTypes PROVE Slots = 0 .. QueueCap - 1
BY DEF RingTypes, Slots

(* A message is queued: its slot was free.                                 *)
LEMMA HeapPush ==
  ASSUME HeapInv, NEW p, NEW m, Push(p, m), UNCHANGED <<head, hand>>
  PROVE  HeapInv'
<1>1. /\ QueueCap \in Nat /\ QueueCap > 0 /\ RingTypes /\ Slots = 0 .. QueueCap - 1
      /\ head \in 0 .. QueueCap - 1 /\ count \in 0 .. QueueCap
  BY WireBounds, SlotsAre DEF HeapInv, RingTypes
<1>2. CASE count >= QueueCap
  <2>1. UNCHANGED <<head, hand, queue, count, heap>>
    BY <1>2 DEF Push, Drop
  <2> QED
    BY <2>1 DEF HeapInv, RingTypes, Slots, InRing, Behind, Taken
<1>3. CASE ~(count >= QueueCap)
  <2> DEFINE new == Fresh(BuffersOf(m))
             s == [from |-> p, m |-> m, ptrs |-> new]
  <2>0. PICK at : at = (head + count) % QueueCap
    OBVIOUS
  <2>1. /\ queue' = [queue EXCEPT ![at] = s]
        /\ count' = count + 1 /\ heap' = heap \cup new
    BY <1>3, <2>0 DEF Push
  <2>2. new \cap heap = {}
    BY FreshIs
  <2>3. at = IF head + count < QueueCap THEN head + count ELSE head + count - QueueCap
    <3>1. head + count \in Nat /\ head + count < QueueCap + QueueCap
      BY <1>1, <1>3
    <3> QED
      BY <1>1, <2>0, <3>1, WrapIs
  <2>4. s.ptrs = new /\ s = [from |-> s.from, m |-> s.m, ptrs |-> s.ptrs]
    OBVIOUS
  <2> HIDE DEF new, s
  <2>5. at \in 0 .. QueueCap - 1 /\ Behind(at) = count
    BY <1>1, <1>3, <2>3 DEF Behind
  <2>6. /\ queue'[at] = s /\ \A i \in 0 .. QueueCap - 1 : i # at => queue'[i] = queue[i]
        /\ queue' = [i \in 0 .. QueueCap - 1 |-> queue'[i]]
    BY <1>1, <2>1, <2>5 DEF RingTypes
  <2>7. RingTypes'
    BY <1>1, <1>3, <2>1, <2>4, <2>6 DEF RingTypes
  <2>8. Slots' = Slots
    BY <1>1, <2>6 DEF Slots
  <2>9. queue[at].ptrs = {}
    BY <1>1, <2>5 DEF HeapInv, InRing
  <2>10. \A i \in Slots : i # at => (InRing(i)' <=> InRing(i))
    <3> TAKE i \in Slots
    <3>1. Behind(i)' = Behind(i) /\ Behind(i) \in Nat
      BY <1>1 DEF Behind
    <3>2. Behind(i) = Behind(at) => i = at
      BY <1>1, <2>5 DEF Behind
    <3> QED
      BY <1>1, <2>1, <2>5, <3>1, <3>2 DEF InRing
  <2>11. InRing(at)'
    <3>1. Behind(at)' = Behind(at)
      BY DEF Behind
    <3> QED
      BY <1>1, <2>1, <2>5, <3>1 DEF InRing
  <2>12. \A i \in Slots : ~InRing(i)' => queue'[i].ptrs = {}
    BY <1>1, <2>6, <2>10, <2>11 DEF HeapInv
  <2>13. \A i \in Slots : queue[i].ptrs \cap new = {}
    BY <2>2 DEF HeapInv
  <2>14. Taken' = Taken /\ Taken \cap new = {}
    BY <2>2 DEF HeapInv, Taken
  <2>15. \A i, j \in Slots : i # j => queue'[i].ptrs \cap queue'[j].ptrs = {}
    BY <1>1, <2>4, <2>6, <2>13 DEF HeapInv
  <2>16. \A i \in Slots : queue'[i].ptrs \cap Taken' = {}
    BY <1>1, <2>4, <2>6, <2>14 DEF HeapInv
  <2>17. \A b : b \in heap' <=> b \in Taken' \/ \E i \in Slots : b \in queue'[i].ptrs
    <3> TAKE b
    <3>1. (\E i \in Slots : b \in queue'[i].ptrs)
            <=> (\E i \in Slots : b \in queue[i].ptrs) \/ b \in new
      BY <1>1, <2>4, <2>5, <2>6, <2>9
    <3>2. b \in heap <=> b \in Taken \/ \E i \in Slots : b \in queue[i].ptrs
      BY DEF HeapInv
    <3> QED
      BY <2>1, <2>14, <3>1, <3>2
  <2> QED
    BY <2>7, <2>8, <2>12, <2>15, <2>16, <2>17 DEF HeapInv
<1> QED
  BY <1>2, <1>3

(* The oldest message is taken: the slot forgets its buffers.              *)
LEMMA HeapPoll ==
  ASSUME HeapInv, Poll
  PROVE  HeapInv'
<1>1. /\ QueueCap \in Nat /\ QueueCap > 0 /\ RingTypes /\ Slots = 0 .. QueueCap - 1
      /\ head \in 0 .. QueueCap - 1 /\ count \in 0 .. QueueCap
  BY WireBounds, SlotsAre DEF HeapInv, RingTypes
<1> DEFINE t == queue[head]
           s == Handed(t)
<1>2. /\ hand = <<>> /\ count > 0 /\ hand' = <<t>> /\ queue' = [queue EXCEPT ![head] = s]
      /\ head' = (head + 1) % QueueCap /\ count' = count - 1 /\ UNCHANGED heap
  BY DEF Poll
<1>3. t = [from |-> t.from, m |-> t.m, ptrs |-> t.ptrs]
  BY <1>1 DEF RingTypes
<1>4. s.ptrs = {} /\ s = [from |-> s.from, m |-> s.m, ptrs |-> s.ptrs]
  <2>1. s = [from |-> t.from, m |-> t.m, ptrs |-> {}]
    BY <1>3 DEF Handed
  <2> QED
    BY <2>1
<1> HIDE DEF s
<1>5. head' = IF head + 1 < QueueCap THEN head + 1 ELSE head + 1 - QueueCap
  <2>1. head + 1 \in Nat /\ head + 1 < QueueCap + QueueCap
    BY <1>1
  <2> QED
    BY <1>1, <1>2, <2>1, WrapIs
<1>6. /\ queue'[head] = s /\ \A i \in 0 .. QueueCap - 1 : i # head => queue'[i] = queue[i]
      /\ queue' = [i \in 0 .. QueueCap - 1 |-> queue'[i]]
  BY <1>1, <1>2 DEF RingTypes
<1>7. hand' # <<>> /\ hand' = <<hand'[1]>>
  BY <1>2
<1>8. RingTypes'
  <2>1. head' \in 0 .. QueueCap - 1 /\ count' \in 0 .. QueueCap
    BY <1>1, <1>2, <1>5
  <2>2. \A i \in 0 .. QueueCap - 1 :
          queue'[i] = [from |-> queue'[i].from, m |-> queue'[i].m, ptrs |-> queue'[i].ptrs]
    BY <1>1, <1>4, <1>6 DEF RingTypes
  <2> QED
    BY <1>6, <1>7, <2>1, <2>2 DEF RingTypes
<1>9. Slots' = Slots
  BY <1>1, <1>6 DEF Slots
<1>10. Taken = {} /\ Taken' = t.ptrs
  <2>1. DOMAIN <<>> = {}
    OBVIOUS
  <2>2. DOMAIN hand' = {1} /\ hand'[1] = t
    BY <1>2
  <2> QED
    BY <1>2, <2>1, <2>2 DEF Taken
<1>11. \A i \in Slots : i # head => (InRing(i)' <=> InRing(i))
  <2> TAKE i \in Slots
  <2>1. i # head => Behind(i)' = Behind(i) - 1 /\ Behind(i) \in Nat
    BY <1>1, <1>5 DEF Behind
  <2> QED
    BY <1>1, <1>2, <2>1 DEF InRing
<1>12. \A i \in Slots : ~InRing(i)' => queue'[i].ptrs = {}
  BY <1>1, <1>4, <1>6, <1>11 DEF HeapInv
<1>13. \A i, j \in Slots : i # j => queue'[i].ptrs \cap queue'[j].ptrs = {}
  BY <1>1, <1>4, <1>6 DEF HeapInv
<1>14. \A i \in Slots : queue'[i].ptrs \cap Taken' = {}
  BY <1>1, <1>4, <1>6, <1>10 DEF HeapInv
<1>15. \A b : b \in heap' <=> b \in Taken' \/ \E i \in Slots : b \in queue'[i].ptrs
  <2> TAKE b
  <2>1. (\E i \in Slots : b \in queue[i].ptrs)
          <=> (\E i \in Slots : b \in queue'[i].ptrs) \/ b \in t.ptrs
    BY <1>1, <1>4, <1>6
  <2>2. b \in heap <=> b \in Taken \/ \E i \in Slots : b \in queue[i].ptrs
    BY DEF HeapInv
  <2> QED
    BY <1>2, <1>10, <2>1, <2>2
<1> QED
  BY <1>8, <1>9, <1>12, <1>13, <1>14, <1>15 DEF HeapInv

LEMMA HeapRelease ==
  ASSUME HeapInv, Release
  PROVE  HeapInv'
<1>1. /\ hand # <<>> /\ heap' = heap \ hand[1].ptrs /\ hand' = <<>>
      /\ UNCHANGED <<queue, head, count>> /\ hand = <<hand[1]>>
  BY DEF Release, HeapInv, RingTypes
<1>2. Taken = hand[1].ptrs /\ Taken' = {}
  <2>1. DOMAIN <<>> = {}
    OBVIOUS
  <2>2. DOMAIN hand = {1}
    <3> DEFINE t == hand[1]
    <3>1. hand = <<t>>
      BY <1>1
    <3> HIDE DEF t
    <3> QED
      BY <3>1
  <2> QED
    BY <1>1, <2>1, <2>2 DEF Taken
<1>3. RingTypes' /\ Slots' = Slots
  BY <1>1 DEF HeapInv, RingTypes, Slots
<1>4. \A i \in Slots : InRing(i)' <=> InRing(i)
  BY <1>1 DEF InRing, Behind
<1>5. \A b : b \in heap' <=> b \in Taken' \/ \E i \in Slots : b \in queue'[i].ptrs
  <2> TAKE b
  <2>1. b \in heap <=> b \in Taken \/ \E i \in Slots : b \in queue[i].ptrs
    BY DEF HeapInv
  <2>2. \A i \in Slots : queue[i].ptrs \cap Taken = {}
    BY DEF HeapInv
  <2> QED
    BY <1>1, <1>2, <2>1, <2>2
<1> QED
  BY <1>1, <1>2, <1>3, <1>4, <1>5 DEF HeapInv

LEMMA HeapStep == HeapInv /\ [WireNext]_wireVars => HeapInv'
<1> SUFFICES ASSUME HeapInv, [WireNext]_wireVars PROVE HeapInv'
  OBVIOUS
<1>1. ASSUME UNCHANGED <<queue, head, count, hand, heap>> PROVE HeapInv'
  BY <1>1 DEF HeapInv, RingTypes, Slots, InRing, Behind, Taken
<1>2. CASE UNCHANGED wireVars
  BY <1>1, <1>2 DEF wireVars, queueVars
<1>3. CASE \E w \in Writer : Begin(w) \/ WritePart(w)
  BY <1>1, <1>3 DEF Begin, WritePart, queueVars
<1>4. CASE LinkLost \/ ReadLength \/ ReadEnd
  BY <1>1, <1>4 DEF LinkLost, ReadLength, ReadEnd, queueVars
<1>5. CASE ReadBody
  <2>1. UNCHANGED <<head, hand>>
    BY <1>5 DEF ReadBody
  <2>2. UNCHANGED <<queue, count, heap>> \/ \E p, m : Push(p, m)
    BY <1>5 DEF ReadBody
  <2>3. CASE UNCHANGED <<queue, count, heap>>
    BY <1>1, <2>1, <2>3
  <2>4. CASE \E p, m : Push(p, m)
    BY <2>1, <2>4, HeapPush
  <2> QED
    BY <2>2, <2>3, <2>4
<1>6. CASE Poll \/ Release
  BY <1>6, HeapPoll, HeapRelease
<1> QED
  BY <1>2, <1>3, <1>4, <1>5, <1>6 DEF WireNext

LEMMA HeapIs == HeapInv => OneOwner
<1> SUFFICES ASSUME HeapInv PROVE OneOwner
  OBVIOUS
<1>1. Taken \cup UNION {queue[i].ptrs : i \in Slots} \subseteq heap
  BY DEF HeapInv
<1>2. ASSUME NEW b \in heap
      PROVE  Cardinality(Pointing(b)) + (IF b \in Taken THEN 1 ELSE 0) = 1
  <2>1. CASE b \in Taken
    <3>1. Pointing(b) = {}
      BY <2>1 DEF HeapInv, Pointing
    <3>2. Cardinality(Pointing(b)) = 0
      BY <3>1, FS_EmptySet
    <3> QED
      BY <2>1, <3>2
  <2>2. CASE b \notin Taken
    <3>1. PICK i \in Slots : b \in queue[i].ptrs
      BY <1>2, <2>2 DEF HeapInv
    <3>2. Pointing(b) = {i}
      BY <3>1 DEF HeapInv, Pointing
    <3>3. Cardinality(Pointing(b)) = 1
      BY <3>2, FS_Singleton
    <3> QED
      BY <2>2, <3>3
  <2> QED
    BY <2>1, <2>2
<1> QED
  BY <1>1, <1>2 DEF OneOwner, Taken

(* Whatever is read, queued, dropped, taken and released, a buffer in use  *)
(* has one owner, and none that was freed is pointed to (queue_push,       *)
(* net_poll, net_msg_release).                                             *)
THEOREM BuffersOwned == WireSpec => []OneOwner
<1>1. WireInit => HeapInv
  <2> SUFFICES ASSUME WireInit PROVE HeapInv
    OBVIOUS
  <2>1. /\ QueueCap \in Nat /\ QueueCap > 0 /\ head = 0 /\ count = 0 /\ hand = <<>> /\ heap = {}
        /\ queue = [i \in 0 .. QueueCap - 1 |-> EmptySlot] /\ DOMAIN <<>> = {}
    BY WireBounds DEF WireInit
  <2>2. EmptySlot = [from |-> EmptySlot.from, m |-> EmptySlot.m, ptrs |-> EmptySlot.ptrs]
        /\ EmptySlot.ptrs = {}
    BY DEF EmptySlot
  <2>3. RingTypes
    BY <2>1, <2>2 DEF RingTypes
  <2>4. Taken = {} /\ \A i \in Slots : queue[i].ptrs = {}
    BY <2>1, <2>2 DEF Taken, Slots
  <2> QED
    BY <2>1, <2>3, <2>4 DEF HeapInv
<1>2. HeapInv /\ [WireNext]_wireVars => HeapInv'
  BY HeapStep
<1>3. HeapInv => OneOwner
  BY HeapIs
<1> QED
  BY <1>1, <1>2, <1>3, PTL DEF WireSpec
==============================================================================
