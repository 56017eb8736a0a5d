--------------------------- MODULE ScreenSyncProofs ---------------------------
(***************************************************************************)
(* Proofs about ScreenSync, for any number of players and nodes.           *)
(*                                                                         *)
(* A vote carries no screen, so ByConsent rests on an order: a peer has    *)
(* read a vote of every other before it leaves a screen, and no peer votes *)
(* twice for one, so what is still unread is for later screens.            *)
(***************************************************************************)
EXTENDS ScreenSync, Facing, SequenceTheorems, FiniteSetTheorems, TLAPS

NoTreasure == \A n \in Node : Visit[n] # "treasure"

(* The next unread votes of q at p, by node.                               *)
Unread(q, p) == {wire[q][p][i].node : i \in DOMAIN wire[q][p]}

(* What p tracks and has pressed is no later than where it stands.         *)
Tracked ==
  \A p \in Peer, k \in Kind :
    /\ kinds[p][k].armed <= at[p]
    /\ \A n \in Node :
         pressed[p][<<n, k>>] > 0 =>
           /\ n <= kinds[p][k].armed
           /\ n = kinds[p][k].armed => kinds[p][k].fired

(* A screen that is up is one of the run's.                                *)
Standing == \A p \in Peer : open[p] => at[p] # 0

OnceInv == TypeOK /\ Standing /\ Tracked /\ PressedOnce

(* A vote is for a button of a node its author has reached; the vote for   *)
(* the node it stands in is still on its own record.                       *)
Cast ==
  \A q \in Peer, n \in Node, k \in Kind :
    <<n, k>> \in clicked[q] =>
      /\ n <= at[q] /\ k = ExitKind(n)
      /\ n = at[q] => kinds[q][k].armed = n /\ q \in kinds[q][k].voted

(* Votes travel in the order of the nodes.                                 *)
Ascending ==
  \A p, q \in Peer :
    /\ wire[p][p] = <<>>
    /\ \A i \in DOMAIN wire[q][p] :
         LET v == wire[q][p][i] IN <<v.node, v.kind>> \in clicked[q]
    /\ \A i, j \in DOMAIN wire[q][p] : i < j => wire[q][p][i].node < wire[q][p][j].node

(* A node left behind has had its exit pressed.                            *)
Passed ==
  \A p \in Peer, n \in Node :
    n < at[p] \/ (n = at[p] /\ ~open[p]) => pressed[p][<<n, ExitKind(n)>>] > 0

(* Whoever is counted, or was when a button was pressed, has voted for that*)
(* button, and nothing unread from it is that old.                         *)
Settled(p, q, n, k) ==
  /\ <<n, k>> \in clicked[q]
  /\ \A m \in Unread(q, p) : n < m

Counted ==
  \A p, q \in Peer, n \in Node, k \in Kind :
    kinds[p][k].armed = n /\ q \in kinds[p][k].voted => Settled(p, q, n, k)

Consumed ==
  \A p, q \in Peer, n \in Node, k \in Kind :
    pressed[p][<<n, k>>] > 0 => Settled(p, q, n, k)

(* A count that has a button has the exit of its node.                     *)
Fitting == \A p \in Peer, n \in Node, k \in Kind : kinds[p][k].armed = n => k = ExitKind(n)

ConsentInv == OnceInv /\ Fitting /\ Cast /\ Ascending /\ Passed /\ Counted /\ Consumed

-------------------------------------------------------------------------------
LEMMA NodeIsNat == Len(Visit) \in Nat /\ \A n \in Node : n \in Nat /\ n > 0
<1>1. Len(Visit) \in Nat
  BY VisitAssumption, LenProperties
<1> QED
  BY <1>1 DEF Node

LEMMA KindsOf == \A n \in Node : ExitKind(n) \in Kind /\ ButtonsOf(n) \subseteq Kind
BY DEF ExitKind, ButtonsOf, Kind

LEMMA ThresholdNat == \A p \in Peer, k \in Kind : Threshold(p, k) \in Nat
BY PeerAssumption, FS_CardinalityType DEF Threshold

LEMMA ExceptTwo ==
  ASSUME NEW A, NEW B, NEW S, NEW f \in [A -> [B -> S]], NEW i \in A, NEW j \in B, NEW e \in S
  PROVE  /\ [f EXCEPT ![i][j] = e] \in [A -> [B -> S]]
         /\ [f EXCEPT ![i][j] = e][i][j] = e
         /\ \A x \in A, y \in B : x # i \/ y # j => [f EXCEPT ![i][j] = e][x][y] = f[x][y]
OBVIOUS

(* What Settle leaves behind when kind k of p becomes s.                   *)
LEMMA SettleResult ==
  ASSUME TypeOK, NEW p \in Peer, NEW k \in Kind, NEW s \in KindState, Settle(p, k, s)
  PROVE  /\ kinds' \in [Peer -> [Kind -> KindState]]
         /\ pressed' \in [Peer -> [Button -> Nat]]
         /\ \A r \in Peer, j \in Kind : r # p \/ j # k => kinds'[r][j] = kinds[r][j]
         /\ kinds'[p][k].armed = s.armed /\ kinds'[p][k].voted = s.voted
         /\ kinds'[p][k].fired <=> s.fired \/ Fires(p, k, s)
         /\ \A r \in Peer, b \in Button :
              pressed'[r][b] = IF r = p /\ b = <<s.armed, k>> /\ Fires(p, k, s)
                               THEN pressed[r][b] + 1 ELSE pressed[r][b]
<1> DEFINE t == [s EXCEPT !.fired = TRUE]
<1>1. t \in KindState /\ t.armed = s.armed /\ t.voted = s.voted /\ t.fired
  BY DEF KindState
<1>2. kinds \in [Peer -> [Kind -> KindState]] /\ pressed \in [Peer -> [Button -> Nat]]
  BY DEF TypeOK
<1> HIDE DEF t
<1>3. CASE Fires(p, k, s)
  <2>1. <<s.armed, k>> \in Button
    BY <1>3 DEF Fires, KindState, Button
  <2>2. pressed[p][<<s.armed, k>>] + 1 \in Nat
    BY <1>2, <2>1
  <2>3. /\ kinds' = [kinds EXCEPT ![p][k] = t]
        /\ pressed' = [pressed EXCEPT ![p][<<s.armed, k>>] = pressed[p][<<s.armed, k>>] + 1]
    BY <1>3 DEF Settle, t
  <2>4. /\ kinds' \in [Peer -> [Kind -> KindState]]
        /\ kinds'[p][k] = t
        /\ \A r \in Peer, j \in Kind : r # p \/ j # k => kinds'[r][j] = kinds[r][j]
    BY <1>1, <1>2, <2>3, ExceptTwo
  <2>5. /\ pressed' \in [Peer -> [Button -> Nat]]
        /\ pressed'[p][<<s.armed, k>>] = pressed[p][<<s.armed, k>>] + 1
        /\ \A r \in Peer, b \in Button :
             r # p \/ b # <<s.armed, k>> => pressed'[r][b] = pressed[r][b]
    BY <1>2, <2>1, <2>2, <2>3, ExceptTwo
  <2>6. \A r \in Peer, b \in Button :
          pressed'[r][b] = IF r = p /\ b = <<s.armed, k>> /\ Fires(p, k, s)
                           THEN pressed[r][b] + 1 ELSE pressed[r][b]
    BY <1>3, <2>5
  <2> QED
    BY <1>1, <1>3, <2>4, <2>5, <2>6
<1>4. CASE ~Fires(p, k, s)
  <2>1. kinds' = [kinds EXCEPT ![p][k] = s] /\ pressed' = pressed
    BY <1>4 DEF Settle
  <2>2. /\ kinds' \in [Peer -> [Kind -> KindState]]
        /\ kinds'[p][k] = s
        /\ \A r \in Peer, j \in Kind : r # p \/ j # k => kinds'[r][j] = kinds[r][j]
    BY <1>2, <2>1, ExceptTwo
  <2> QED
    BY <1>2, <1>4, <2>1, <2>2
<1> QED
  BY <1>3, <1>4

LEMMA KindStateParts ==
  ASSUME NEW s \in KindState
  PROVE  s.armed \in Node \cup {0} /\ s.armed \in Nat /\ s.voted \subseteq Peer
<1>1. s.armed \in Node \cup {0} /\ s.voted \in SUBSET Peer
  BY DEF KindState
<1> QED
  BY <1>1, NodeIsNat

LEMMA ArmedType ==
  ASSUME NEW s \in KindState, NEW n \in Node
  PROVE  /\ Armed(s, n) \in KindState /\ Armed(s, n).armed = n
         /\ s.armed # n => Armed(s, n).voted = {} /\ ~Armed(s, n).fired
         /\ s.armed = n => Armed(s, n) = s
BY DEF Armed, KindState

(* Looking at a button: its kind is one of the three, its node a real one. *)
LEMMA ShownButton ==
  ASSUME TypeOK, Standing, NEW p \in Peer, NEW k, k \in Shown(p)
  PROVE  k \in Kind /\ at[p] \in Node /\ open[p] /\ k \in ButtonsOf(at[p])
BY KindsOf DEF Shown, TypeOK, Standing

-------------------------------------------------------------------------------
(* A count is kept once: OnceInv.                                          *)

LEMMA OnceSettle ==
  ASSUME OnceInv, NEW p \in Peer, NEW k \in Kind, NEW s \in KindState, Settle(p, k, s),
         at' = at,
         s.armed <= at[p], kinds[p][k].armed <= s.armed,
         s.armed = kinds[p][k].armed => s.fired = kinds[p][k].fired
  PROVE  Tracked' /\ PressedOnce'
<1> USE NodeIsNat
<1>1. /\ kinds \in [Peer -> [Kind -> KindState]]
      /\ pressed \in [Peer -> [Button -> Nat]]
      /\ at \in [Peer -> Node \cup {0}]
      /\ s.armed \in Node \cup {0} /\ s.armed \in Nat
      /\ \A r \in Peer, j \in Kind : kinds[r][j].armed \in Nat
      /\ \A n \in Node, j \in Kind : <<n, j>> \in Button
      /\ TypeOK /\ Tracked /\ PressedOnce
  <2>1. /\ kinds \in [Peer -> [Kind -> KindState]]
        /\ pressed \in [Peer -> [Button -> Nat]]
        /\ at \in [Peer -> Node \cup {0}]
        /\ TypeOK /\ Tracked /\ PressedOnce
    BY DEF OnceInv, TypeOK
  <2>2. s.armed \in Node \cup {0} /\ s.armed \in Nat
    BY KindStateParts
  <2>3. ASSUME NEW r \in Peer, NEW j \in Kind PROVE kinds[r][j].armed \in Nat
    <3>1. kinds[r][j] \in KindState
      BY <2>1
    <3> QED
      BY <3>1, KindStateParts
  <2>4. \A n \in Node, j \in Kind : <<n, j>> \in Button
    BY DEF Button
  <2> QED
    BY <2>1, <2>2, <2>3, <2>4
<1>2. /\ \A r \in Peer, j \in Kind : r # p \/ j # k => kinds'[r][j] = kinds[r][j]
      /\ kinds'[p][k].armed = s.armed /\ kinds'[p][k].voted = s.voted
      /\ kinds'[p][k].fired <=> s.fired \/ Fires(p, k, s)
      /\ \A r \in Peer, b \in Button :
           pressed'[r][b] = IF r = p /\ b = <<s.armed, k>> /\ Fires(p, k, s)
                            THEN pressed[r][b] + 1 ELSE pressed[r][b]
  BY <1>1, SettleResult
<1>3. ASSUME NEW r \in Peer, NEW j \in Kind
      PROVE  /\ kinds'[r][j].armed <= at'[r]
             /\ \A n \in Node :
                  pressed'[r][<<n, j>>] > 0 =>
                    /\ n <= kinds'[r][j].armed
                    /\ n = kinds'[r][j].armed => kinds'[r][j].fired
  <2>1. CASE r # p \/ j # k
    <3>1. kinds'[r][j] = kinds[r][j]
      BY <1>2, <2>1
    <3>2. \A n \in Node : pressed'[r][<<n, j>>] = pressed[r][<<n, j>>]
      BY <1>1, <1>2, <2>1
    <3> QED
      BY <1>1, <3>1, <3>2 DEF Tracked
  <2>2. CASE r = p /\ j = k
    <3>1. kinds'[r][j].armed <= at'[r]
      BY <1>2, <2>2
    <3>2. ASSUME NEW n \in Node, pressed'[p][<<n, k>>] > 0
          PROVE  n <= s.armed /\ (n = s.armed => kinds'[p][k].fired)
      <4>1. CASE pressed[p][<<n, k>>] > 0
        <5>1. n <= kinds[p][k].armed /\ (n = kinds[p][k].armed => kinds[p][k].fired)
          BY <1>1, <4>1 DEF Tracked
        <5>2. n \in Nat /\ s.armed \in Nat /\ kinds[p][k].armed \in Nat
          BY <1>1
        <5>3. n <= s.armed /\ (n = s.armed => n = kinds[p][k].armed)
          BY <5>1, <5>2
        <5> QED
          BY <1>2, <5>1, <5>3
      <4>2. CASE ~(pressed[p][<<n, k>>] > 0)
        <5>1. n = s.armed /\ Fires(p, k, s)
          BY <1>1, <1>2, <3>2, <4>2
        <5> QED
          BY <1>1, <1>2, <5>1
      <4> QED
        BY <4>1, <4>2
    <3> QED
      BY <1>2, <2>2, <3>1, <3>2
  <2> QED
    BY <2>1, <2>2
<1>4. ASSUME NEW r \in Peer, NEW b \in Button
      PROVE  pressed'[r][b] <= 1
  <2>1. CASE r = p /\ b = <<s.armed, k>> /\ Fires(p, k, s)
    <3>1. s.armed \in Node /\ ~s.fired
      BY <1>1, <2>1 DEF Fires
    <3>2. ~(pressed[p][<<s.armed, k>>] > 0)
      <4>1. pressed[p][<<s.armed, k>>] > 0 =>
              /\ s.armed <= kinds[p][k].armed
              /\ s.armed = kinds[p][k].armed => kinds[p][k].fired
        BY <1>1, <3>1 DEF Tracked
      <4>2. s.armed \in Nat /\ kinds[p][k].armed \in Nat
        BY <1>1
      <4>3. s.armed <= kinds[p][k].armed => s.armed = kinds[p][k].armed
        BY <4>2
      <4> QED
        BY <3>1, <4>1, <4>3
    <3>3. pressed[p][b] \in Nat
      BY <1>1
    <3> QED
      BY <1>2, <2>1, <3>2, <3>3
  <2>2. CASE ~(r = p /\ b = <<s.armed, k>> /\ Fires(p, k, s))
    BY <1>1, <1>2, <2>2 DEF PressedOnce
  <2> QED
    BY <2>1, <2>2
<1> QED
  BY <1>3, <1>4 DEF Tracked, PressedOnce

LEMMA OnceEnter ==
  ASSUME OnceInv, NEW p \in Peer, Enter(p)
  PROVE  OnceInv'
<1> USE NodeIsNat
<1>1. at \in [Peer -> Node \cup {0}] /\ open \in [Peer -> BOOLEAN] /\ Host \in Peer
  BY PeerAssumption DEF OnceInv, TypeOK
<1>2. \A r \in Peer : at[r] \in Nat /\ at[r] <= Len(Visit)
  BY <1>1 DEF Node
<1>3. at[p] + 1 \in Node
  BY <1>1, <1>2 DEF Enter, Node
<1>4. /\ at' = [at EXCEPT ![p] = at[p] + 1]
      /\ open' = [open EXCEPT ![p] = TRUE]
      /\ kinds' = kinds /\ pressed' = pressed
  BY DEF Enter
<1>5. TypeOK'
  BY <1>1, <1>3, <1>4 DEF Enter, OnceInv, TypeOK
<1>6. Standing'
  <2> SUFFICES ASSUME NEW r \in Peer, open'[r] PROVE at'[r] # 0
    BY DEF Standing
  <2>1. CASE r = p
    BY <2>1, <1>1, <1>3, <1>4
  <2>2. CASE r # p
    BY <2>2, <1>1, <1>4 DEF OnceInv, Standing
  <2> QED
    BY <2>1, <2>2
<1>7. Tracked'
  <2>1. ASSUME NEW r \in Peer, NEW k \in Kind PROVE kinds'[r][k].armed <= at'[r]
    <3>1. kinds[r][k] \in KindState /\ kinds[r][k].armed <= at[r]
      BY DEF OnceInv, TypeOK, Tracked
    <3>2. kinds[r][k].armed \in Nat
      BY <3>1, KindStateParts
    <3>3. at'[r] = at[r] \/ at'[r] = at[r] + 1
      BY <1>1, <1>4
    <3> QED
      BY <1>2, <1>4, <3>1, <3>2, <3>3
  <2> QED
    BY <1>4, <2>1 DEF OnceInv, Tracked
<1>8. PressedOnce'
  BY <1>4 DEF OnceInv, PressedOnce
<1> QED
  BY <1>5, <1>6, <1>7, <1>8 DEF OnceInv

LEMMA OnceClose ==
  ASSUME OnceInv, NEW p \in Peer, Close(p)
  PROVE  OnceInv'
<1>1. open' = [open EXCEPT ![p] = FALSE] /\ open \in [Peer -> BOOLEAN]
  BY DEF Close, OnceInv, TypeOK
<1>2. TypeOK'
  BY <1>1 DEF Close, OnceInv, TypeOK
<1>3. Standing'
  BY <1>1 DEF Close, OnceInv, Standing
<1> QED
  BY <1>2, <1>3 DEF Close, OnceInv, Tracked, PressedOnce

(* A count that starts or goes on at the node p stands in.                 *)
LEMMA OnceArmed ==
  ASSUME OnceInv, NEW p \in Peer, NEW k \in Kind, at[p] \in Node
  PROVE  LET s == Armed(kinds[p][k], at[p]) IN
         /\ s \in KindState /\ s.armed = at[p]
         /\ kinds[p][k].armed <= s.armed
         /\ s.armed = kinds[p][k].armed => s = kinds[p][k]
         /\ s.fired \/ s.voted # {} => s = kinds[p][k]
<1>1. kinds[p][k] \in KindState /\ kinds[p][k].armed <= at[p]
  BY DEF OnceInv, TypeOK, Tracked
<1> QED
  BY <1>1, ArmedType

LEMMA OnceButtonUpdate ==
  ASSUME OnceInv, NEW p \in Peer, NEW k \in Kind, ButtonUpdate(p, k)
  PROVE  OnceInv'
<1> DEFINE s == Armed(kinds[p][k], at[p])
<1>1. at[p] \in Node
  BY ShownButton DEF ButtonUpdate, OnceInv
<1>2. /\ s \in KindState /\ s.armed = at[p] /\ kinds[p][k].armed <= s.armed
      /\ s.armed = kinds[p][k].armed => s.fired = kinds[p][k].fired
  BY <1>1, OnceArmed
<1>3. Settle(p, k, s) /\ at' = at /\ open' = open /\ wire' = wire
      /\ clicked' = clicked /\ astray' = astray
  BY DEF ButtonUpdate
<1> HIDE DEF s
<1>4. s.armed <= at[p] /\ TypeOK
  BY <1>1, <1>2, NodeIsNat DEF OnceInv
<1>5. Tracked' /\ PressedOnce'
  BY <1>2, <1>3, <1>4, OnceSettle
<1>6. TypeOK' /\ Standing'
  BY <1>2, <1>3, <1>4, SettleResult DEF OnceInv, TypeOK, Standing
<1> QED
  BY <1>5, <1>6 DEF OnceInv

(* What a vote of p for the screen in front of it does.                    *)
VoteSent(p, k) ==
  [wire EXCEPT ![p] =
     [q \in Peer |-> IF q = p THEN wire[p][q]
                     ELSE Append(wire[p][q], [kind |-> k, node |-> at[p]])]]

LEMMA SentType ==
  ASSUME TypeOK, NEW p \in Peer, NEW k \in Kind, at[p] \in Node
  PROVE  VoteSent(p, k) \in [Peer -> [Peer -> Seq(Vote)]]
<1>1. [kind |-> k, node |-> at[p]] \in Vote
  BY DEF Vote
<1>2. \A q \in Peer : wire[p][q] \in Seq(Vote)
  BY DEF TypeOK
<1>3. \A q \in Peer : Append(wire[p][q], [kind |-> k, node |-> at[p]]) \in Seq(Vote)
  BY <1>1, <1>2, AppendProperties
<1> QED
  BY <1>2, <1>3 DEF VoteSent, TypeOK

(* A click is swallowed, or is the player's vote for this screen.          *)
LEMMA ClickCases ==
  ASSUME OnceInv, NEW p \in Peer, NEW k \in Kind, ButtonClick(p, k)
  PROVE  LET s == Armed(kinds[p][k], at[p])
             t == [s EXCEPT !.voted = s.voted \cup {p}]
         IN \/ UNCHANGED vars
            \/ /\ at[p] \in Node /\ open[p] /\ k \in ButtonsOf(at[p])
               /\ ~s.fired /\ p \notin s.voted
               /\ t \in KindState /\ t.armed = at[p] /\ t.voted = s.voted \cup {p} /\ ~t.fired
               /\ wire' = VoteSent(p, k)
               /\ clicked' = [clicked EXCEPT ![p] = clicked[p] \cup {<<at[p], k>>}]
               /\ Settle(p, k, t)
               /\ at' = at /\ open' = open /\ astray' = astray
<1> DEFINE s == Armed(kinds[p][k], at[p])
           t == [s EXCEPT !.voted = s.voted \cup {p}]
<1>1. at[p] \in Node /\ open[p] /\ k \in ButtonsOf(at[p])
  BY ShownButton DEF ButtonClick, OnceInv
<1>2. s \in KindState /\ s.armed = at[p] /\ (s.fired \/ s.voted # {} => s = kinds[p][k])
  BY <1>1, OnceArmed
<1>3. CASE s.fired \/ p \in s.voted
  <2>1. s = kinds[p][k] /\ kinds' = [kinds EXCEPT ![p][k] = s]
    BY <1>2, <1>3 DEF ButtonClick
  <2>2. kinds \in [Peer -> [Kind -> KindState]]
    BY DEF OnceInv, TypeOK
  <2>3. kinds' = kinds
    BY <2>1, <2>2
  <2> QED
    BY <1>3, <2>3 DEF ButtonClick, vars
<1>4. CASE ~(s.fired \/ p \in s.voted)
  <2>1. t \in KindState /\ t.armed = s.armed /\ t.voted = s.voted \cup {p} /\ t.fired = s.fired
    BY <1>2 DEF KindState
  <2>2. /\ wire' = VoteSent(p, k)
        /\ clicked' = [clicked EXCEPT ![p] = clicked[p] \cup {<<at[p], k>>}]
        /\ Settle(p, k, t)
        /\ at' = at /\ open' = open /\ astray' = astray
    BY <1>4 DEF ButtonClick, VoteSent
  <2> HIDE DEF s, t
  <2>3. ~s.fired /\ p \notin s.voted /\ t.armed = at[p] /\ ~t.fired
    BY <1>2, <1>4, <2>1
  <2> QED
    BY <1>1, <2>1, <2>2, <2>3 DEF s, t
<1> QED
  BY <1>3, <1>4

LEMMA OnceStutter == OnceInv /\ UNCHANGED vars => OnceInv'
BY DEF OnceInv, TypeOK, Standing, Tracked, PressedOnce, vars

LEMMA OnceButtonClick ==
  ASSUME OnceInv, NEW p \in Peer, NEW k \in Kind, ButtonClick(p, k)
  PROVE  OnceInv'
<1> DEFINE s == Armed(kinds[p][k], at[p])
           t == [s EXCEPT !.voted = s.voted \cup {p}]
<1>1. CASE UNCHANGED vars
  BY <1>1, OnceStutter
<1>2. CASE ~UNCHANGED vars
  <2>1. /\ at[p] \in Node /\ k \in ButtonsOf(at[p])
        /\ ~s.fired /\ t \in KindState /\ t.armed = at[p] /\ ~t.fired
        /\ wire' = VoteSent(p, k)
        /\ clicked' = [clicked EXCEPT ![p] = clicked[p] \cup {<<at[p], k>>}]
        /\ Settle(p, k, t)
        /\ at' = at /\ open' = open /\ astray' = astray
    BY <1>2, ClickCases
  <2>2. /\ s.armed = at[p] /\ kinds[p][k].armed <= s.armed
        /\ s.armed = kinds[p][k].armed => s = kinds[p][k]
    BY <2>1, OnceArmed
  <2> HIDE DEF s, t
  <2>3. /\ t.armed <= at[p] /\ kinds[p][k].armed <= t.armed
        /\ t.armed = kinds[p][k].armed => t.fired = kinds[p][k].fired
    <3>1. at[p] \in Nat
      BY <2>1, NodeIsNat
    <3>2. kinds[p][k].fired \in BOOLEAN /\ t.fired \in BOOLEAN
      BY <2>1 DEF OnceInv, TypeOK, KindState
    <3> QED
      BY <2>1, <2>2, <3>1, <3>2
  <2>4. Tracked' /\ PressedOnce'
    BY <2>1, <2>3, OnceSettle
  <2>5. kinds' \in [Peer -> [Kind -> KindState]] /\ pressed' \in [Peer -> [Button -> Nat]]
    BY <2>1, SettleResult DEF OnceInv
  <2>6. wire' \in [Peer -> [Peer -> Seq(Vote)]]
    BY <2>1, SentType DEF OnceInv
  <2>7. clicked' \in [Peer -> SUBSET Button]
    <3>1. <<at[p], k>> \in Button
      BY <2>1 DEF Button
    <3> QED
      BY <2>1, <3>1 DEF OnceInv, TypeOK
  <2>8. TypeOK' /\ Standing'
    BY <2>1, <2>5, <2>6, <2>7 DEF OnceInv, TypeOK, Standing
  <2> QED
    BY <2>4, <2>8 DEF OnceInv
<1> QED
  BY <1>1, <1>2

(* A vote read is the oldest of its author and joins the count it names.   *)
LEMMA MessageCases ==
  ASSUME OnceInv, NEW p \in Peer, NEW q \in Peer, OnMessage(p, q)
  PROVE  LET v == Head(wire[q][p])
             s == kinds[p][v.kind]
             t == [s EXCEPT !.voted = s.voted \cup {q}]
         IN /\ wire[q][p] # <<>> /\ v \in Vote
            /\ wire' = [wire EXCEPT ![q][p] = Tail(wire[q][p])]
            /\ wire' \in [Peer -> [Peer -> Seq(Vote)]]
            /\ at' = at /\ open' = open /\ clicked' = clicked /\ astray' \in BOOLEAN
            /\ \/ q \in s.voted /\ kinds' = kinds /\ pressed' = pressed
               \/ /\ q \notin s.voted /\ Settle(p, v.kind, t)
                  /\ s \in KindState /\ t \in KindState
                  /\ t.armed = s.armed /\ t.voted = s.voted \cup {q} /\ t.fired = s.fired
<1> DEFINE v == Head(wire[q][p])
           s == kinds[p][v.kind]
           t == [s EXCEPT !.voted = s.voted \cup {q}]
<1>1. wire \in [Peer -> [Peer -> Seq(Vote)]] /\ wire[q][p] # <<>>
  BY DEF OnMessage, OnceInv, TypeOK
<1>2. v \in Vote /\ Tail(wire[q][p]) \in Seq(Vote)
  BY <1>1, HeadTailProperties
<1>3. v.kind \in Kind
  BY <1>2 DEF Vote
<1>4. s \in KindState
  BY <1>3 DEF OnceInv, TypeOK
<1>5. t \in KindState /\ t.armed = s.armed /\ t.voted = s.voted \cup {q} /\ t.fired = s.fired
  BY <1>4 DEF KindState
<1>6. wire' = [wire EXCEPT ![q][p] = Tail(wire[q][p])]
  BY DEF OnMessage
<1>7. wire' \in [Peer -> [Peer -> Seq(Vote)]]
  BY <1>1, <1>2, <1>6, ExceptTwo
<1>8. at' = at /\ open' = open /\ clicked' = clicked /\ astray' \in BOOLEAN
  BY DEF OnMessage, OnceInv, TypeOK
<1>9. \/ q \in s.voted /\ kinds' = kinds /\ pressed' = pressed
      \/ q \notin s.voted /\ Settle(p, v.kind, t)
  BY DEF OnMessage
<1> QED
  BY <1>1, <1>2, <1>4, <1>5, <1>6, <1>7, <1>8, <1>9

LEMMA OnceOnMessage ==
  ASSUME OnceInv, NEW p \in Peer, NEW q \in Peer, OnMessage(p, q)
  PROVE  OnceInv'
<1> DEFINE v == Head(wire[q][p])
           s == kinds[p][v.kind]
           t == [s EXCEPT !.voted = s.voted \cup {q}]
<1>1. /\ v.kind \in Kind
      /\ wire' \in [Peer -> [Peer -> Seq(Vote)]]
      /\ at' = at /\ open' = open /\ clicked' = clicked /\ astray' \in BOOLEAN
  BY MessageCases DEF Vote
<1>2. \/ kinds' = kinds /\ pressed' = pressed
      \/ /\ Settle(p, v.kind, t) /\ t \in KindState
         /\ t.armed = s.armed /\ t.fired = s.fired
  BY MessageCases
<1>3. CASE kinds' = kinds /\ pressed' = pressed
  <2>1. TypeOK'
    BY <1>1, <1>3 DEF OnceInv, TypeOK
  <2> QED
    BY <1>1, <1>3, <2>1 DEF OnceInv, Standing, Tracked, PressedOnce
<1>4. CASE /\ Settle(p, v.kind, t) /\ t \in KindState
           /\ t.armed = s.armed /\ t.fired = s.fired
  <2>1. s.armed <= at[p]
    BY <1>1 DEF OnceInv, Tracked
  <2>2. s.armed \in Nat
    BY <1>1, KindStateParts DEF OnceInv, TypeOK
  <2> HIDE DEF t
  <2>3. kinds[p][v.kind].armed <= t.armed
    BY <1>4, <2>2
  <2> HIDE DEF v
  <2>4. Tracked' /\ PressedOnce'
    BY <1>1, <1>4, <2>1, <2>3, OnceSettle
  <2>5. kinds' \in [Peer -> [Kind -> KindState]] /\ pressed' \in [Peer -> [Button -> Nat]]
    BY <1>1, <1>4, SettleResult DEF OnceInv
  <2>6. TypeOK' /\ Standing'
    BY <1>1, <2>5 DEF OnceInv, TypeOK, Standing
  <2> QED
    BY <2>4, <2>6 DEF OnceInv
<1> QED
  BY <1>2, <1>3, <1>4

LEMMA OnceInit == Init => OnceInv
<1> SUFFICES ASSUME Init PROVE OnceInv
  OBVIOUS
<1>1. TypeOK
  <2>1. [armed |-> 0, voted |-> {}, fired |-> FALSE] \in KindState
    BY DEF KindState
  <2>2. kinds \in [Peer -> [Kind -> KindState]]
    BY <2>1 DEF Init
  <2>3. wire \in [Peer -> [Peer -> Seq(Vote)]]
    BY EmptySeq DEF Init
  <2> QED
    BY <2>2, <2>3 DEF Init, TypeOK
<1>2. Standing /\ PressedOnce
  BY DEF Init, Standing, PressedOnce
<1>3. Tracked
  <2>1. \A n \in Node, k \in Kind : <<n, k>> \in Button
    BY DEF Button
  <2> QED
    BY <2>1 DEF Init, Tracked
<1> QED
  BY <1>1, <1>2, <1>3 DEF OnceInv

LEMMA OnceStep == OnceInv /\ [Next]_vars => OnceInv'
<1> SUFFICES ASSUME OnceInv, [Next]_vars PROVE OnceInv'
  OBVIOUS
<1>1. ASSUME NEW p \in Peer, Enter(p) PROVE OnceInv'
  BY <1>1, OnceEnter
<1>2. ASSUME NEW p \in Peer, Close(p) PROVE OnceInv'
  BY <1>2, OnceClose
<1>3. ASSUME NEW p \in Peer, NEW k \in Kind, ButtonUpdate(p, k) PROVE OnceInv'
  BY <1>3, OnceButtonUpdate
<1>4. ASSUME NEW p \in Peer, NEW k \in Kind, ButtonClick(p, k) PROVE OnceInv'
  BY <1>4, OnceButtonClick
<1>5. ASSUME NEW p \in Peer, NEW q \in Peer, OnMessage(p, q) PROVE OnceInv'
  BY <1>5, OnceOnMessage
<1>6. CASE UNCHANGED vars
  BY <1>6, OnceStutter
<1> QED
  BY <1>1, <1>2, <1>3, <1>4, <1>5, <1>6 DEF Next

(* Every reachable state of the screen votes is well typed.                *)
THEOREM ScreensTyped == Spec => []TypeOK
<1>1. OnceInv => TypeOK
  BY DEF OnceInv
<1> QED
  BY <1>1, OnceInit, OnceStep, PTL DEF Spec

(* The mod presses a screen's button at most once on each copy, for any    *)
(* players, nodes, clicks, frames and order of votes (State::kind[k].fired *)
(* and its reset by ensure_armed).                                         *)
THEOREM OnePress == Spec => []PressedOnce
<1>1. OnceInv => PressedOnce
  BY DEF OnceInv
<1> QED
  BY <1>1, OnceInit, OnceStep, PTL DEF Spec

-------------------------------------------------------------------------------
(* Consent, in a run without treasures: ConsentInv.                        *)

LEMMA OneButton ==
  ASSUME NoTreasure, NEW n \in Node
  PROVE  ButtonsOf(n) = {ExitKind(n)} /\ ExitKind(n) # "chestOpen"
BY DEF NoTreasure, ButtonsOf, ExitKind

(* A button that is pressed has everybody's vote.                          *)
LEMMA FiresWithAll ==
  ASSUME NoTreasure, TypeOK, NEW p \in Peer, NEW k \in Kind, NEW s \in KindState,
         k # "chestOpen", Fires(p, k, s)
  PROVE  s.voted = Peer /\ s.armed \in Node
<1>1. ~InTreasure(p)
  BY DEF InTreasure, NoTreasure, TypeOK
<1>2. Cardinality(s.voted) >= Cardinality(Peer)
  BY <1>1 DEF Fires, Threshold
<1>3. s.voted \in SUBSET Peer /\ s.armed \in Node
  BY KindStateParts DEF Fires
<1>4. IsFiniteSet(Peer)
  BY PeerAssumption
<1>5. /\ IsFiniteSet(s.voted) /\ Cardinality(s.voted) <= Cardinality(Peer)
      /\ Cardinality(Peer) = Cardinality(s.voted) => Peer = s.voted
  BY <1>3, <1>4, FS_Subset
<1>6. Cardinality(Peer) \in Nat /\ Cardinality(s.voted) \in Nat
  BY <1>4, <1>5, FS_CardinalityType
<1> QED
  BY <1>2, <1>3, <1>5, <1>6

(* If the step keeps every vote it found counted, and those of the new     *)
(* count are for its button, counting and pressing are in order.           *)
LEMMA ConsentSettle ==
  ASSUME NoTreasure, ConsentInv,
         NEW p \in Peer, NEW k \in Kind, NEW s \in KindState, k # "chestOpen",
         Settle(p, k, s), at' = at, open' = open,
         \A r, q \in Peer, n \in Node, j \in Kind :
           Settled(r, q, n, j) => Settled(r, q, n, j)',
         \A n \in Node : s.armed = n => k = ExitKind(n),
         \A q \in s.voted, n \in Node : s.armed = n => Settled(p, q, n, k)'
  PROVE  Fitting' /\ Passed' /\ Counted' /\ Consumed'
<1>1. TypeOK /\ OnceInv /\ Fitting /\ Passed /\ Counted /\ Consumed
  BY DEF ConsentInv, OnceInv
<1>2. /\ \A r \in Peer, j \in Kind : r # p \/ j # k => kinds'[r][j] = kinds[r][j]
      /\ kinds'[p][k].armed = s.armed /\ kinds'[p][k].voted = s.voted
      /\ \A r \in Peer, b \in Button :
           pressed'[r][b] = IF r = p /\ b = <<s.armed, k>> /\ Fires(p, k, s)
                            THEN pressed[r][b] + 1 ELSE pressed[r][b]
  BY <1>1, SettleResult
<1>3. /\ \A r \in Peer, b \in Button : pressed[r][b] \in Nat
      /\ \A n \in Node, j \in Kind : <<n, j>> \in Button
  BY <1>1 DEF TypeOK, Button
<1>4. Passed'
  <2> SUFFICES ASSUME NEW r \in Peer, NEW n \in Node,
                      n < at'[r] \/ (n = at'[r] /\ ~open'[r])
               PROVE  pressed'[r][<<n, ExitKind(n)>>] > 0
    BY DEF Passed
  <2>1. pressed[r][<<n, ExitKind(n)>>] > 0
    BY <1>1 DEF Passed
  <2>2. <<n, ExitKind(n)>> \in Button
    BY <1>3, KindsOf
  <2> QED
    BY <1>2, <1>3, <2>1, <2>2
<1>5. Fitting'
  BY <1>1, <1>2 DEF Fitting
<1>6. Counted'
  <2> SUFFICES ASSUME NEW r \in Peer, NEW q \in Peer, NEW n \in Node, NEW j \in Kind,
                      kinds'[r][j].armed = n, q \in kinds'[r][j].voted
               PROVE  Settled(r, q, n, j)'
    BY DEF Counted
  <2>1. CASE r = p /\ j = k
    BY <1>2, <2>1
  <2>2. CASE r # p \/ j # k
    <3>1. kinds'[r][j] = kinds[r][j]
      BY <1>2, <2>2
    <3>2. Settled(r, q, n, j)
      BY <1>1, <3>1 DEF Counted
    <3> QED
      BY <3>2
  <2> QED
    BY <2>1, <2>2
<1>7. Consumed'
  <2> SUFFICES ASSUME NEW r \in Peer, NEW q \in Peer, NEW n \in Node, NEW j \in Kind,
                      pressed'[r][<<n, j>>] > 0
               PROVE  Settled(r, q, n, j)'
    BY DEF Consumed
  <2>1. CASE pressed[r][<<n, j>>] > 0
    <3>1. Settled(r, q, n, j)
      BY <1>1, <2>1 DEF Consumed
    <3> QED
      BY <3>1
  <2>2. CASE ~(pressed[r][<<n, j>>] > 0)
    <3>1. r = p /\ n = s.armed /\ j = k /\ Fires(p, k, s)
      BY <1>2, <1>3, <2>2
    <3>2. s.voted = Peer
      BY <1>1, <3>1, FiresWithAll
    <3> QED
      BY <3>1, <3>2
  <2> QED
    BY <2>1, <2>2
<1> QED
  BY <1>4, <1>5, <1>6, <1>7

LEMMA ConsentEnter ==
  ASSUME NoTreasure, ConsentInv, NEW p \in Peer, Enter(p)
  PROVE  ConsentInv'
<1> USE NodeIsNat
<1>1. OnceInv /\ Fitting /\ Cast /\ Ascending /\ Passed /\ Counted /\ Consumed
  BY DEF ConsentInv
<1>2. at \in [Peer -> Node \cup {0}] /\ open \in [Peer -> BOOLEAN]
  BY <1>1 DEF OnceInv, TypeOK
<1>3. /\ at' = [at EXCEPT ![p] = at[p] + 1] /\ ~open[p]
      /\ open' = [open EXCEPT ![p] = TRUE]
      /\ kinds' = kinds /\ pressed' = pressed /\ wire' = wire /\ clicked' = clicked
  BY DEF Enter
<1>4. /\ \A r \in Peer : at[r] \in Nat
      /\ at'[p] = at[p] + 1 /\ open'[p]
      /\ \A r \in Peer : r # p => at'[r] = at[r] /\ open'[r] = open[r]
  BY <1>2, <1>3
<1>5. OnceInv'
  BY <1>1, OnceEnter
<1>6. Cast'
  <2> SUFFICES ASSUME NEW q \in Peer, NEW n \in Node, NEW k \in Kind, <<n, k>> \in clicked[q]
               PROVE  /\ n <= at'[q] /\ k = ExitKind(n)
                      /\ n = at'[q] => kinds[q][k].armed = n /\ q \in kinds[q][k].voted
    BY <1>3 DEF Cast
  <2>1. /\ n <= at[q] /\ k = ExitKind(n)
        /\ n = at[q] => kinds[q][k].armed = n /\ q \in kinds[q][k].voted
    BY <1>1 DEF Cast
  <2>2. at'[q] = at[q] \/ at'[q] = at[q] + 1
    BY <1>4
  <2> QED
    BY <1>4, <2>1, <2>2
<1>7. Passed'
  <2> SUFFICES ASSUME NEW r \in Peer, NEW n \in Node,
                      n < at'[r] \/ (n = at'[r] /\ ~open'[r])
               PROVE  pressed[r][<<n, ExitKind(n)>>] > 0
    BY <1>3 DEF Passed
  <2>1. n < at[r] \/ (n = at[r] /\ ~open[r])
    BY <1>3, <1>4
  <2> QED
    BY <1>1, <2>1 DEF Passed
<1>8. Fitting' /\ Ascending' /\ Counted' /\ Consumed'
  BY <1>1, <1>3 DEF Fitting, Ascending, Counted, Consumed, Settled, Unread
<1> QED
  BY <1>5, <1>6, <1>7, <1>8 DEF ConsentInv

LEMMA ConsentClose ==
  ASSUME NoTreasure, ConsentInv, NEW p \in Peer, Close(p)
  PROVE  ConsentInv'
<1>1. OnceInv /\ Fitting /\ Cast /\ Ascending /\ Passed /\ Counted /\ Consumed
  BY DEF ConsentInv
<1>2. /\ open' = [open EXCEPT ![p] = FALSE] /\ open \in [Peer -> BOOLEAN]
      /\ pressed[p][<<at[p], ExitKind(at[p])>>] > 0
      /\ at' = at /\ kinds' = kinds /\ pressed' = pressed /\ wire' = wire /\ clicked' = clicked
  BY <1>1 DEF Close, OnceInv, TypeOK
<1>3. OnceInv'
  BY <1>1, OnceClose
<1>4. Passed'
  BY <1>1, <1>2 DEF Passed
<1>5. Cast' /\ Ascending'
  BY <1>1, <1>2 DEF Cast, Ascending
<1>6. Fitting' /\ Counted' /\ Consumed'
  BY <1>1, <1>2 DEF Fitting, Counted, Consumed, Settled, Unread
<1> QED
  BY <1>3, <1>4, <1>5, <1>6 DEF ConsentInv

LEMMA ConsentStutter == ConsentInv /\ UNCHANGED vars => ConsentInv'
<1> SUFFICES ASSUME ConsentInv, UNCHANGED vars PROVE ConsentInv'
  OBVIOUS
<1>1. OnceInv'
  BY OnceStutter DEF ConsentInv
<1>2. UNCHANGED <<at, open, kinds, pressed, wire, clicked>>
  BY DEF vars
<1>3. Fitting /\ Cast /\ Ascending /\ Passed /\ Counted /\ Consumed
  BY DEF ConsentInv
<1>4. Passed'
  BY <1>2, <1>3 DEF Passed
<1>5. Cast' /\ Ascending'
  BY <1>2, <1>3 DEF Cast, Ascending
<1>6. Fitting' /\ Counted' /\ Consumed'
  BY <1>2, <1>3 DEF Fitting, Counted, Consumed, Settled, Unread
<1> QED
  BY <1>1, <1>4, <1>5, <1>6 DEF ConsentInv

LEMMA ConsentButtonUpdate ==
  ASSUME NoTreasure, ConsentInv, NEW p \in Peer, NEW k \in Kind, ButtonUpdate(p, k)
  PROVE  ConsentInv'
<1> DEFINE s == Armed(kinds[p][k], at[p])
<1>1. OnceInv /\ TypeOK /\ Fitting /\ Cast /\ Ascending /\ Passed /\ Counted /\ Consumed
  BY DEF ConsentInv, OnceInv
<1>2. at[p] \in Node /\ k \in ButtonsOf(at[p])
  BY <1>1, ShownButton DEF ButtonUpdate, OnceInv
<1>3. k = ExitKind(at[p]) /\ k # "chestOpen"
  BY <1>2, OneButton
<1>4. s \in KindState /\ s.armed = at[p] /\ (s.fired \/ s.voted # {} => s = kinds[p][k])
  BY <1>1, <1>2, OnceArmed
<1>5. s.armed = kinds[p][k].armed => s = kinds[p][k]
  BY <1>1, <1>2, OnceArmed
<1>6. Settle(p, k, s) /\ at' = at /\ open' = open /\ wire' = wire /\ clicked' = clicked
  BY DEF ButtonUpdate
<1> HIDE DEF s
<1>7. \A r, q \in Peer, n \in Node, j \in Kind :
        Settled(r, q, n, j) => Settled(r, q, n, j)'
  BY <1>6 DEF Settled, Unread
<1>8. ASSUME NEW q \in s.voted, NEW n \in Node, s.armed = n
      PROVE  Settled(p, q, n, k)'
  <2>1. q \in Peer /\ s = kinds[p][k]
    BY <1>4, KindStateParts
  <2>2. Settled(p, q, n, k)
    BY <1>1, <1>8, <2>1 DEF Counted
  <2> QED
    BY <1>7, <2>1, <2>2
<1>9. Fitting' /\ Passed' /\ Counted' /\ Consumed'
  BY <1>3, <1>4, <1>6, <1>7, <1>8, ConsentSettle
<1>10. Cast'
  <2> SUFFICES ASSUME NEW q \in Peer, NEW n \in Node, NEW j \in Kind, <<n, j>> \in clicked[q]
               PROVE  /\ n <= at[q] /\ j = ExitKind(n)
                      /\ n = at[q] => kinds'[q][j].armed = n /\ q \in kinds'[q][j].voted
    BY <1>6 DEF Cast
  <2>1. /\ n <= at[q] /\ j = ExitKind(n)
        /\ n = at[q] => kinds[q][j].armed = n /\ q \in kinds[q][j].voted
    BY <1>1 DEF Cast
  <2>2. \/ kinds'[q][j] = kinds[q][j]
        \/ q = p /\ j = k /\ kinds'[q][j].armed = s.armed /\ kinds'[q][j].voted = s.voted
    BY <1>1, <1>4, <1>6, SettleResult
  <2> QED
    BY <1>4, <1>5, <2>1, <2>2
<1>11. Ascending'
  BY <1>1, <1>6 DEF Ascending
<1>12. OnceInv'
  BY <1>1, OnceButtonUpdate
<1> QED
  BY <1>9, <1>10, <1>11, <1>12 DEF ConsentInv

(* A player that may still vote for the screen it is looking at has not    *)
(* voted for it, so its new vote is for a later node than all its others.  *)
LEMMA NewVote ==
  ASSUME NoTreasure, ConsentInv, NEW p \in Peer, NEW k \in Kind,
         at[p] \in Node, k = ExitKind(at[p]),
         p \notin Armed(kinds[p][k], at[p]).voted,
         NEW n \in Node, NEW j \in Kind, <<n, j>> \in clicked[p]
  PROVE  n < at[p]
<1>1. OnceInv /\ Cast
  BY DEF ConsentInv
<1>2. /\ n <= at[p] /\ j = ExitKind(n)
      /\ n = at[p] => kinds[p][j].armed = n /\ p \in kinds[p][j].voted
  BY <1>1 DEF Cast
<1>3. n # at[p]
  <2> SUFFICES ASSUME n = at[p] PROVE FALSE
    OBVIOUS
  <2>1. kinds[p][k].armed = at[p] /\ p \in kinds[p][k].voted
    BY <1>2
  <2> QED
    BY <2>1 DEF Armed
<1> QED
  BY <1>2, <1>3, NodeIsNat

(* What is on the way from q to r once p has voted.                        *)
LEMMA SentWire ==
  ASSUME TypeOK, NEW p \in Peer, NEW k \in Kind, at[p] \in Node,
         NEW q \in Peer, NEW r \in Peer
  PROVE  LET v == [kind |-> k, node |-> at[p]] IN
         \/ VoteSent(p, k)[q][r] = wire[q][r]
         \/ q = p /\ r # p /\ VoteSent(p, k)[q][r] = Append(wire[q][r], v)
<1>1. wire \in [Peer -> [Peer -> Seq(Vote)]]
  BY DEF TypeOK
<1> QED
  BY <1>1 DEF VoteSent

(* A vote sent leaves what had been counted in order.                      *)
LEMMA SentSettled ==
  ASSUME NoTreasure, ConsentInv, NEW p \in Peer, NEW k \in Kind,
         at[p] \in Node, k = ExitKind(at[p]),
         p \notin Armed(kinds[p][k], at[p]).voted,
         wire' = VoteSent(p, k),
         clicked' = [clicked EXCEPT ![p] = clicked[p] \cup {<<at[p], k>>}],
         NEW r \in Peer, NEW q \in Peer, NEW n \in Node, NEW j \in Kind,
         Settled(r, q, n, j)
  PROVE  Settled(r, q, n, j)'
<1>1. TypeOK
  BY DEF ConsentInv, OnceInv
<1>2. wire[q][r] \in Seq(Vote) /\ clicked \in [Peer -> SUBSET Button]
  BY <1>1 DEF TypeOK
<1>3. <<n, j>> \in clicked[q] /\ \A i \in DOMAIN wire[q][r] : n < wire[q][r][i].node
  BY DEF Settled, Unread
<1>4. <<n, j>> \in clicked'[q]
  BY <1>2, <1>3
<1>5. ASSUME NEW i \in DOMAIN wire'[q][r] PROVE n < wire'[q][r][i].node
  <2> DEFINE v == [kind |-> k, node |-> at[p]]
  <2>1. CASE wire'[q][r] = wire[q][r]
    BY <1>3, <2>1, <1>5
  <2>2. CASE q = p /\ wire'[q][r] = Append(wire[q][r], v)
    <3>1. v \in Vote /\ v.node = at[p]
      BY DEF Vote
    <3> HIDE DEF v
    <3>2. /\ Len(Append(wire[q][r], v)) = Len(wire[q][r]) + 1
          /\ Append(wire[q][r], v) \in Seq(Vote)
          /\ \A m \in 1 .. Len(wire[q][r]) : Append(wire[q][r], v)[m] = wire[q][r][m]
          /\ Append(wire[q][r], v)[Len(wire[q][r]) + 1] = v
      BY <1>2, <3>1, AppendProperties
    <3>3. /\ DOMAIN wire[q][r] = 1 .. Len(wire[q][r]) /\ Len(wire[q][r]) \in Nat
          /\ DOMAIN wire'[q][r] = 1 .. Len(wire[q][r]) + 1
      BY <1>2, <2>2, <3>2, LenProperties
    <3>4. CASE i = Len(wire[q][r]) + 1
      <4>1. n < at[p]
        BY <1>3, <2>2, NewVote
      <4> QED
        BY <2>2, <3>1, <3>2, <3>4, <4>1
    <3>5. CASE i \in 1 .. Len(wire[q][r])
      BY <1>3, <2>2, <3>2, <3>3, <3>5
    <3> QED
      BY <1>5, <3>3, <3>4, <3>5
  <2> QED
    BY <1>1, <2>1, <2>2, SentWire
<1> QED
  BY <1>4, <1>5 DEF Settled, Unread

LEMMA SentAscending ==
  ASSUME NoTreasure, ConsentInv, NEW p \in Peer, NEW k \in Kind,
         at[p] \in Node, k = ExitKind(at[p]),
         p \notin Armed(kinds[p][k], at[p]).voted,
         wire' = VoteSent(p, k),
         clicked' = [clicked EXCEPT ![p] = clicked[p] \cup {<<at[p], k>>}]
  PROVE  Ascending'
<1> DEFINE v == [kind |-> k, node |-> at[p]]
<1>1. TypeOK /\ Ascending
  BY DEF ConsentInv, OnceInv
<1>2. wire \in [Peer -> [Peer -> Seq(Vote)]] /\ clicked \in [Peer -> SUBSET Button]
  BY <1>1 DEF TypeOK
<1>3. v \in Vote /\ v.node = at[p] /\ v.kind = k
  BY DEF Vote
<1>4. \A q \in Peer : clicked[q] \subseteq clicked'[q]
  BY <1>2
<1>5. <<at[p], k>> \in clicked'[p]
  BY <1>2
<1> HIDE DEF v
<1>6. ASSUME NEW q \in Peer, NEW r \in Peer
      PROVE  /\ q = r => wire'[q][r] = <<>>
             /\ \A i \in DOMAIN wire'[q][r] :
                  <<wire'[q][r][i].node, wire'[q][r][i].kind>> \in clicked'[q]
             /\ \A i, j \in DOMAIN wire'[q][r] :
                  i < j => wire'[q][r][i].node < wire'[q][r][j].node
  <2>1. /\ q = r => wire[q][r] = <<>>
        /\ \A i \in DOMAIN wire[q][r] :
             <<wire[q][r][i].node, wire[q][r][i].kind>> \in clicked[q]
        /\ \A i, j \in DOMAIN wire[q][r] : i < j => wire[q][r][i].node < wire[q][r][j].node
    BY <1>1 DEF Ascending
  <2>2. CASE wire'[q][r] = wire[q][r]
    BY <1>4, <2>1, <2>2
  <2>3. CASE q = p /\ r # p /\ wire'[q][r] = Append(wire[q][r], v)
    <3>1. wire[q][r] \in Seq(Vote)
      BY <1>2
    <3>2. /\ Len(Append(wire[q][r], v)) = Len(wire[q][r]) + 1
          /\ Append(wire[q][r], v) \in Seq(Vote)
          /\ \A m \in 1 .. Len(wire[q][r]) : Append(wire[q][r], v)[m] = wire[q][r][m]
          /\ Append(wire[q][r], v)[Len(wire[q][r]) + 1] = v
      BY <1>3, <3>1, AppendProperties
    <3>3. /\ DOMAIN wire[q][r] = 1 .. Len(wire[q][r]) /\ Len(wire[q][r]) \in Nat
          /\ DOMAIN wire'[q][r] = 1 .. Len(wire[q][r]) + 1
      BY <2>3, <3>1, <3>2, LenProperties
    <3>4. \A i \in 1 .. Len(wire[q][r]) : wire'[q][r][i] = wire[q][r][i]
      BY <2>3, <3>2
    <3>5. wire'[q][r][Len(wire[q][r]) + 1] = v
      BY <2>3, <3>2
    <3>6. \A i \in 1 .. Len(wire[q][r]) : wire[q][r][i].node < at[p]
      <4> SUFFICES ASSUME NEW i \in 1 .. Len(wire[q][r]) PROVE wire[q][r][i].node < at[p]
        OBVIOUS
      <4>1. wire[q][r][i] \in Vote
        BY <3>1, ElementOfSeq
      <4>2. <<wire[q][r][i].node, wire[q][r][i].kind>> \in clicked[p]
        BY <2>1, <2>3, <3>3
      <4>3. wire[q][r][i].node \in Node /\ wire[q][r][i].kind \in Kind
        BY <4>1 DEF Vote
      <4> QED
        BY <4>2, <4>3, NewVote
    <3>7. ASSUME NEW i \in DOMAIN wire'[q][r]
          PROVE  <<wire'[q][r][i].node, wire'[q][r][i].kind>> \in clicked'[q]
      <4>1. CASE i \in 1 .. Len(wire[q][r])
        BY <1>4, <2>1, <3>3, <3>4, <4>1
      <4>2. CASE i = Len(wire[q][r]) + 1
        BY <1>3, <1>5, <2>3, <3>5, <4>2
      <4> QED
        BY <3>3, <3>7, <4>1, <4>2
    <3>8. ASSUME NEW i \in DOMAIN wire'[q][r], NEW j \in DOMAIN wire'[q][r], i < j
          PROVE  wire'[q][r][i].node < wire'[q][r][j].node
      <4>1. i \in 1 .. Len(wire[q][r])
        BY <3>3, <3>8
      <4>2. CASE j \in 1 .. Len(wire[q][r])
        BY <2>1, <3>3, <3>4, <3>8, <4>1, <4>2
      <4>3. CASE j = Len(wire[q][r]) + 1
        BY <1>3, <3>4, <3>5, <3>6, <4>1, <4>3
      <4>4. j \in 1 .. Len(wire[q][r]) \/ j = Len(wire[q][r]) + 1
        BY <3>3
      <4> QED
        BY <4>2, <4>3, <4>4
    <3> QED
      BY <2>3, <3>7, <3>8
  <2>4. \/ wire'[q][r] = wire[q][r]
        \/ q = p /\ r # p /\ wire'[q][r] = Append(wire[q][r], v)
    BY <1>1, SentWire DEF v
  <2> QED
    BY <2>2, <2>3, <2>4
<1> QED
  BY <1>6 DEF Ascending

LEMMA ConsentButtonClick ==
  ASSUME NoTreasure, ConsentInv, NEW p \in Peer, NEW k \in Kind, ButtonClick(p, k)
  PROVE  ConsentInv'
<1> DEFINE s == Armed(kinds[p][k], at[p])
           t == [s EXCEPT !.voted = s.voted \cup {p}]
<1>1. OnceInv /\ TypeOK /\ Cast /\ Ascending /\ Counted
  BY DEF ConsentInv, OnceInv
<1>2. CASE UNCHANGED vars
  BY <1>2, ConsentStutter
<1>3. CASE ~UNCHANGED vars
  <2>1. /\ at[p] \in Node /\ k \in ButtonsOf(at[p])
        /\ p \notin s.voted /\ t \in KindState /\ t.armed = at[p]
        /\ t.voted = s.voted \cup {p}
        /\ wire' = VoteSent(p, k)
        /\ clicked' = [clicked EXCEPT ![p] = clicked[p] \cup {<<at[p], k>>}]
        /\ Settle(p, k, t)
        /\ at' = at /\ open' = open
    BY <1>1, <1>3, ClickCases
  <2>2. k = ExitKind(at[p]) /\ k # "chestOpen"
    BY <2>1, OneButton
  <2>3. /\ s \in KindState /\ s.armed = at[p]
        /\ s.voted # {} => s = kinds[p][k]
        /\ s.armed = kinds[p][k].armed => s = kinds[p][k]
    BY <1>1, <2>1, OnceArmed
  <2>4. clicked \in [Peer -> SUBSET Button]
    BY <1>1 DEF TypeOK
  <2>5. \A r, q \in Peer, n \in Node, j \in Kind : Settled(r, q, n, j) => Settled(r, q, n, j)'
    BY <2>1, <2>2, SentSettled
  <2>6. Ascending'
    BY <2>1, <2>2, SentAscending
  <2> HIDE DEF s, t
  <2>7. ASSUME NEW q \in t.voted, NEW n \in Node, t.armed = n
        PROVE  Settled(p, q, n, k)'
    <3>1. CASE q \in s.voted
      <4>1. q \in Peer /\ s = kinds[p][k]
        BY <2>3, <3>1, KindStateParts
      <4>2. Settled(p, q, n, k)
        BY <1>1, <2>1, <2>3, <2>7, <3>1, <4>1 DEF Counted
      <4> QED
        BY <2>5, <4>1, <4>2
    <3>2. CASE q = p
      <4>1. <<n, k>> \in clicked'[p]
        BY <2>1, <2>4, <2>7
      <4>2. wire'[p][p] = <<>>
        BY <2>6 DEF Ascending
      <4>3. \A m \in Unread(p, p)' : n < m
        BY <4>2, EmptySeq DEF Unread
      <4> QED
        BY <3>2, <4>1, <4>3 DEF Settled
    <3> QED
      BY <2>1, <2>7, <3>1, <3>2
  <2>8. Fitting' /\ Passed' /\ Counted' /\ Consumed'
    BY <2>1, <2>2, <2>5, <2>7, ConsentSettle
  <2>9. Cast'
    <3> SUFFICES ASSUME NEW q \in Peer, NEW n \in Node, NEW j \in Kind, <<n, j>> \in clicked'[q]
                 PROVE  /\ n <= at[q] /\ j = ExitKind(n)
                        /\ n = at[q] => kinds'[q][j].armed = n /\ q \in kinds'[q][j].voted
      BY <2>1 DEF Cast
    <3>1. \/ kinds'[q][j] = kinds[q][j] /\ (q # p \/ j # k)
          \/ q = p /\ j = k /\ kinds'[q][j].armed = at[p] /\ kinds'[q][j].voted = s.voted \cup {p}
      BY <1>1, <2>1, SettleResult
    <3>2. CASE <<n, j>> \in clicked[q]
      <4>1. /\ n <= at[q] /\ j = ExitKind(n)
            /\ n = at[q] => kinds[q][j].armed = n /\ q \in kinds[q][j].voted
        BY <1>1, <3>2 DEF Cast
      <4> QED
        BY <3>1, <4>1
    <3>3. CASE <<n, j>> \notin clicked[q]
      <4>1. q = p /\ n = at[p] /\ j = k
        BY <2>1, <2>4, <3>3
      <4> QED
        BY <2>1, <2>2, <3>1, <4>1, NodeIsNat
    <3> QED
      BY <3>2, <3>3
  <2>10. OnceInv'
    BY <1>1, OnceButtonClick
  <2> QED
    BY <2>6, <2>8, <2>9, <2>10 DEF ConsentInv
<1> QED
  BY <1>2, <1>3

(* The votes behind the oldest one of q at p are for later nodes than it.  *)
LEMMA ReadOldest ==
  ASSUME ConsentInv, NEW p \in Peer, NEW q \in Peer, wire[q][p] # <<>>,
         wire' = [wire EXCEPT ![q][p] = Tail(wire[q][p])]
  PROVE  LET v == Head(wire[q][p]) IN
         /\ v \in Vote /\ q # p
         /\ <<v.node, v.kind>> \in clicked[q]
         /\ v.node \in Unread(q, p)
         /\ \A m \in Unread(q, p)' : v.node < m
         /\ \A r, o \in Peer : Unread(o, r)' \subseteq Unread(o, r)
         /\ clicked' = clicked => Ascending'
<1> DEFINE w == wire[q][p]
           v == Head(w)
<1>1. TypeOK /\ Ascending
  BY DEF ConsentInv, OnceInv
<1>2. wire \in [Peer -> [Peer -> Seq(Vote)]] /\ w \in Seq(Vote)
  BY <1>1 DEF TypeOK
<1>3. /\ v \in Vote /\ Tail(w) \in Seq(Vote)
      /\ Len(w) \in Nat /\ Len(w) > 0 /\ DOMAIN w = 1 .. Len(w)
      /\ Len(Tail(w)) = Len(w) - 1
      /\ \A i \in 1 .. Len(Tail(w)) : Tail(w)[i] = w[i + 1]
  BY <1>2, EmptySeq, LenProperties, HeadTailProperties
<1>4. DOMAIN Tail(w) = 1 .. (Len(w) - 1)
  BY <1>3, LenProperties
<1>5. v = w[1] /\ 1 \in DOMAIN w
  BY <1>2, <1>3
<1>6. /\ wire'[q][p] = Tail(w)
      /\ \A o, r \in Peer : o # q \/ r # p => wire'[o][r] = wire[o][r]
  BY <1>2, <1>3, ExceptTwo
<1>7. /\ \A i \in DOMAIN w : <<w[i].node, w[i].kind>> \in clicked[q]
      /\ \A i, j \in DOMAIN w : i < j => w[i].node < w[j].node
  BY <1>1 DEF Ascending
<1>8. q # p
  BY <1>1 DEF Ascending
<1> HIDE DEF w, v
<1>9. \A i \in DOMAIN Tail(w) : i + 1 \in DOMAIN w /\ 1 < i + 1 /\ Tail(w)[i] = w[i + 1]
  BY <1>3, <1>4
<1>10. v.node \in Unread(q, p)
  BY <1>5 DEF Unread, w
<1>11. \A m \in Unread(q, p)' : v.node < m
  <2> SUFFICES ASSUME NEW m \in Unread(q, p)' PROVE v.node < m
    OBVIOUS
  <2>1. PICK i \in DOMAIN wire'[q][p] : m = wire'[q][p][i].node
    BY DEF Unread
  <2>2. i \in DOMAIN Tail(w) /\ m = Tail(w)[i].node
    BY <1>6, <2>1
  <2> QED
    BY <1>5, <1>7, <1>9, <2>2
<1>12. ASSUME NEW r \in Peer, NEW o \in Peer PROVE Unread(o, r)' \subseteq Unread(o, r)
  <2>1. CASE o # q \/ r # p
    BY <1>6, <2>1 DEF Unread
  <2>2. CASE o = q /\ r = p
    BY <1>6, <1>9, <2>2 DEF Unread, w
  <2> QED
    BY <2>1, <2>2
<1>13. ASSUME clicked' = clicked PROVE Ascending'
  <2> SUFFICES ASSUME NEW r \in Peer, NEW o \in Peer
               PROVE  /\ r = o => wire'[o][r] = <<>>
                      /\ \A i \in DOMAIN wire'[o][r] :
                           <<wire'[o][r][i].node, wire'[o][r][i].kind>> \in clicked[o]
                      /\ \A i, j \in DOMAIN wire'[o][r] :
                           i < j => wire'[o][r][i].node < wire'[o][r][j].node
    BY <1>13 DEF Ascending
  <2>1. CASE o # q \/ r # p
    BY <1>1, <1>6, <2>1 DEF Ascending
  <2>2. CASE o = q /\ r = p
    <3>1. \A i, j \in DOMAIN Tail(w) : i < j => i + 1 < j + 1
      BY <1>3, <1>4
    <3>2. \A i, j \in DOMAIN Tail(w) : i < j => Tail(w)[i].node < Tail(w)[j].node
      BY <1>7, <1>9, <3>1
    <3>3. \A i \in DOMAIN Tail(w) : <<Tail(w)[i].node, Tail(w)[i].kind>> \in clicked[q]
      BY <1>7, <1>9
    <3> QED
      BY <1>6, <1>8, <2>2, <3>2, <3>3
  <2> QED
    BY <2>1, <2>2
<1>14. <<v.node, v.kind>> \in clicked[q]
  BY <1>5, <1>7
<1> QED
  BY <1>3, <1>8, <1>10, <1>11, <1>12, <1>13, <1>14 DEF v, w

(* The oldest vote of q at p, when p counts for the exit of node n, is for *)
(* n or for a later node, and then q has asked to leave n all the same.    *)
LEMMA ReadInOrder ==
  ASSUME NoTreasure, ConsentInv, NEW p \in Peer, NEW q \in Peer, OnMessage(p, q),
         NEW k \in Kind, k = Head(wire[q][p]).kind,
         NEW n \in Node, kinds[p][k].armed = n
  PROVE  Settled(p, q, n, k)'
<1> DEFINE v == Head(wire[q][p])
<1>1. OnceInv /\ TypeOK /\ Fitting /\ Cast /\ Passed /\ Consumed /\ Tracked
  BY DEF ConsentInv, OnceInv
<1>2. /\ wire[q][p] # <<>> /\ wire' = [wire EXCEPT ![q][p] = Tail(wire[q][p])]
      /\ clicked' = clicked
  BY <1>1, MessageCases
<1>3. /\ v \in Vote
      /\ <<v.node, v.kind>> \in clicked[q] /\ v.node \in Unread(q, p)
      /\ \A m \in Unread(q, p)' : v.node < m
      /\ Unread(q, p)' \subseteq Unread(q, p)
  BY <1>2, ReadOldest
<1>4. v.kind = k /\ v.node \in Node /\ k = ExitKind(n) /\ n <= at[p]
  <2>1. v.node \in Node
    BY <1>3 DEF Vote
  <2> QED
    BY <1>1, <2>1 DEF Fitting, Tracked
<1> HIDE DEF v
<1>5. /\ \A r \in Peer : at[r] \in Nat
      /\ n \in Nat /\ n > 0 /\ v.node \in Nat
  BY <1>1, <1>4, NodeIsNat DEF TypeOK
<1>6. CASE n < at[p]
  <2>1. Settled(p, q, n, k)
    BY <1>1, <1>4, <1>6 DEF Passed, Consumed
  <2> QED
    BY <1>2, <1>3, <2>1 DEF Settled
<1>7. CASE n = at[p]
  <2>1. n <= v.node
    <3>1. CASE n = 1
      BY <1>4, <3>1 DEF Node
    <3>2. CASE n # 1
      <4>1. n - 1 \in Node /\ n - 1 < at[p]
        BY <1>5, <1>7, <3>2 DEF Node
      <4>2. pressed[p][<<n - 1, ExitKind(n - 1)>>] > 0
        BY <1>1, <4>1 DEF Passed
      <4>3. ExitKind(n - 1) \in Kind
        BY <4>1, KindsOf
      <4>4. Settled(p, q, n - 1, ExitKind(n - 1))
        BY <1>1, <4>1, <4>2, <4>3 DEF Consumed
      <4>5. n - 1 < v.node
        BY <1>3, <4>4 DEF Settled
      <4> QED
        BY <1>5, <4>5
    <3> QED
      BY <3>1, <3>2
  <2>2. <<n, k>> \in clicked[q]
    <3>1. CASE n = v.node
      BY <1>3, <1>4, <3>1
    <3>2. CASE n < v.node
      <4>1. v.node <= at[q]
        BY <1>1, <1>3, <1>4 DEF Cast
      <4>2. n < at[q]
        BY <1>5, <3>2, <4>1
      <4>3. pressed[q][<<n, k>>] > 0
        BY <1>1, <1>4, <4>2 DEF Passed
      <4>4. Settled(q, q, n, k)
        BY <1>1, <4>3 DEF Consumed
      <4> QED
        BY <4>4 DEF Settled
    <3> QED
      BY <1>5, <2>1, <3>1, <3>2
  <2>3. ASSUME NEW m \in Unread(q, p)' PROVE n < m
    <3>1. v.node < m
      BY <1>3
    <3>2. m \in Nat
      <4>1. m \in Unread(q, p)
        BY <1>3
      <4>2. wire[q][p] \in Seq(Vote)
        BY <1>1 DEF TypeOK
      <4>3. \A i \in DOMAIN wire[q][p] : wire[q][p][i] \in Vote
        BY <4>2, LenProperties, ElementOfSeq
      <4> QED
        BY <4>1, <4>3, NodeIsNat DEF Unread, Vote
    <3> QED
      BY <1>5, <2>1, <3>1, <3>2
  <2> QED
    BY <1>2, <2>2, <2>3 DEF Settled
<1> QED
  BY <1>4, <1>5, <1>6, <1>7

LEMMA ConsentOnMessage ==
  ASSUME NoTreasure, ConsentInv, NEW p \in Peer, NEW q \in Peer, OnMessage(p, q)
  PROVE  ConsentInv'
<1>0. PICK k \in Kind : k = Head(wire[q][p]).kind
  BY MessageCases DEF ConsentInv, Vote
<1> DEFINE v == Head(wire[q][p])
           s == kinds[p][k]
           t == [s EXCEPT !.voted = s.voted \cup {q}]
<1>1. OnceInv /\ TypeOK /\ Fitting /\ Cast /\ Passed /\ Counted /\ Consumed
  BY DEF ConsentInv, OnceInv
<1>2. /\ wire[q][p] # <<>> /\ v \in Vote
      /\ wire' = [wire EXCEPT ![q][p] = Tail(wire[q][p])]
      /\ at' = at /\ open' = open /\ clicked' = clicked
  BY <1>1, MessageCases
<1>9. \/ q \in s.voted /\ kinds' = kinds /\ pressed' = pressed
      \/ /\ q \notin s.voted /\ Settle(p, k, t)
         /\ s \in KindState /\ t \in KindState
         /\ t.armed = s.armed /\ t.voted = s.voted \cup {q}
  <2>1. v.kind = k
    BY <1>0
  <2>2. LET so == kinds[p][v.kind]
            to == [so EXCEPT !.voted = so.voted \cup {q}]
        IN \/ q \in so.voted /\ kinds' = kinds /\ pressed' = pressed
           \/ /\ q \notin so.voted /\ Settle(p, v.kind, to)
              /\ so \in KindState /\ to \in KindState
              /\ to.armed = so.armed /\ to.voted = so.voted \cup {q}
    BY <1>1, MessageCases
  <2> HIDE DEF v
  <2> QED
    BY <2>1, <2>2
<1>3. /\ Ascending' /\ <<v.node, v.kind>> \in clicked[q]
      /\ \A r, o \in Peer : Unread(o, r)' \subseteq Unread(o, r)
  BY <1>2, ReadOldest
<1>4. \A r, o \in Peer, n \in Node, j \in Kind : Settled(r, o, n, j) => Settled(r, o, n, j)'
  BY <1>2, <1>3 DEF Settled
<1>5. k # "chestOpen"
  <2>1. v.kind = k /\ v.node \in Node
    BY <1>0, <1>2 DEF Vote
  <2>2. k = ExitKind(v.node)
    BY <1>1, <1>3, <2>1 DEF Cast
  <2> QED
    BY <2>1, <2>2, OneButton
<1>6. \A n \in Node : s.armed = n => k = ExitKind(n) /\ Settled(p, q, n, k)'
  BY <1>0, <1>1, ReadInOrder DEF Fitting
<1>7. Fitting' /\ Passed' /\ Counted' /\ Consumed' /\ Cast'
  <2>1. CASE kinds' = kinds /\ pressed' = pressed
    <3>1. Fitting' /\ Passed'
      BY <1>1, <1>2, <2>1 DEF Fitting, Passed
    <3>4. Cast'
      BY <1>1, <1>2, <2>1 DEF Cast
    <3>2. Counted'
      <4> SUFFICES ASSUME NEW r \in Peer, NEW o \in Peer, NEW n \in Node, NEW j \in Kind,
                          kinds[r][j].armed = n, o \in kinds[r][j].voted
                   PROVE  Settled(r, o, n, j)'
        BY <2>1 DEF Counted
      <4>1. Settled(r, o, n, j)
        BY <1>1 DEF Counted
      <4> QED
        BY <1>4, <4>1
    <3>3. Consumed'
      <4> SUFFICES ASSUME NEW r \in Peer, NEW o \in Peer, NEW n \in Node, NEW j \in Kind,
                          pressed[r][<<n, j>>] > 0
                   PROVE  Settled(r, o, n, j)'
        BY <2>1 DEF Consumed
      <4>1. Settled(r, o, n, j)
        BY <1>1 DEF Consumed
      <4> QED
        BY <1>4, <4>1
    <3> QED
      BY <3>1, <3>2, <3>3, <3>4
  <2>2. CASE /\ q \notin s.voted /\ Settle(p, k, t)
             /\ s \in KindState /\ t \in KindState
             /\ t.armed = s.armed /\ t.voted = s.voted \cup {q}
    <3> HIDE DEF t
    <3>1. ASSUME NEW o \in t.voted, NEW n \in Node, t.armed = n
          PROVE  Settled(p, o, n, k)'
      <4>1. CASE o \in s.voted
        <5>1. o \in Peer
          BY <2>2, <4>1, KindStateParts
        <5>2. Settled(p, o, n, k)
          BY <1>1, <1>5, <2>2, <3>1, <4>1, <5>1 DEF Counted
        <5> QED
          BY <1>4, <1>5, <5>1, <5>2
      <4>2. CASE o = q
        BY <1>6, <2>2, <3>1, <4>2
      <4> QED
        BY <2>2, <3>1, <4>1, <4>2
    <3>2. \A n \in Node : t.armed = n => k = ExitKind(n)
      BY <1>6, <2>2
    <3>3. Fitting' /\ Passed' /\ Counted' /\ Consumed'
      BY <1>2, <1>4, <1>5, <2>2, <3>1, <3>2, ConsentSettle
    <3>4. Cast'
      <4> SUFFICES ASSUME NEW o \in Peer, NEW n \in Node, NEW j \in Kind, <<n, j>> \in clicked[o]
                   PROVE  /\ n <= at[o] /\ j = ExitKind(n)
                          /\ n = at[o] => kinds'[o][j].armed = n /\ o \in kinds'[o][j].voted
        BY <1>2 DEF Cast
      <4>1. /\ n <= at[o] /\ j = ExitKind(n)
            /\ n = at[o] => kinds[o][j].armed = n /\ o \in kinds[o][j].voted
        BY <1>1 DEF Cast
      <4>2. \/ kinds'[o][j] = kinds[o][j]
            \/ /\ o = p /\ j = k /\ kinds'[o][j].armed = s.armed
               /\ kinds'[o][j].voted = s.voted \cup {q}
        BY <1>1, <1>5, <2>2, SettleResult
      <4> QED
        BY <4>1, <4>2
    <3> QED
      BY <3>3, <3>4
  <2> QED
    BY <1>9, <2>1, <2>2
<1>8. OnceInv'
  BY <1>1, OnceOnMessage
<1> QED
  BY <1>3, <1>7, <1>8 DEF ConsentInv

LEMMA ConsentInit == Init => ConsentInv
<1> SUFFICES ASSUME Init PROVE ConsentInv
  OBVIOUS
<1>1. OnceInv
  BY OnceInit
<1>2. /\ \A p \in Peer : at[p] = 0 /\ ~open[p] /\ clicked[p] = {}
      /\ \A p \in Peer, k \in Kind : kinds[p][k].armed = 0 /\ kinds[p][k].voted = {}
      /\ \A q, p \in Peer : wire[q][p] = <<>>
      /\ \A p \in Peer, n \in Node, k \in Kind : pressed[p][<<n, k>>] = 0
  BY DEF Init, Button
<1>3. Fitting /\ Cast /\ Counted
  BY <1>2, NodeIsNat DEF Fitting, Cast, Counted
<1>4. Ascending
  BY <1>2, EmptySeq DEF Ascending
<1>5. Passed
  BY <1>2, NodeIsNat DEF Passed
<1>6. Consumed
  BY <1>2 DEF Consumed
<1> QED
  BY <1>1, <1>3, <1>4, <1>5, <1>6 DEF ConsentInv

LEMMA ConsentStep ==
  ASSUME NoTreasure
  PROVE  ConsentInv /\ [Next]_vars => ConsentInv'
<1> SUFFICES ASSUME ConsentInv, [Next]_vars PROVE ConsentInv'
  OBVIOUS
<1>1. ASSUME NEW p \in Peer, Enter(p) PROVE ConsentInv'
  BY <1>1, ConsentEnter
<1>2. ASSUME NEW p \in Peer, Close(p) PROVE ConsentInv'
  BY <1>2, ConsentClose
<1>3. ASSUME NEW p \in Peer, NEW k \in Kind, ButtonUpdate(p, k) PROVE ConsentInv'
  BY <1>3, ConsentButtonUpdate
<1>4. ASSUME NEW p \in Peer, NEW k \in Kind, ButtonClick(p, k) PROVE ConsentInv'
  BY <1>4, ConsentButtonClick
<1>5. ASSUME NEW p \in Peer, NEW q \in Peer, OnMessage(p, q) PROVE ConsentInv'
  BY <1>5, ConsentOnMessage
<1>6. CASE UNCHANGED vars
  BY <1>6, ConsentStutter
<1> QED
  BY <1>1, <1>2, <1>3, <1>4, <1>5, <1>6 DEF Next

LEMMA ConsentSuffices ==
  ASSUME NoTreasure
  PROVE  ConsentInv => ByConsent
BY DEF ConsentInv, Consumed, Settled, ByConsent, NoTreasure

(* In a run of events and shops, for any number of players and nodes, no   *)
(* copy leaves a screen before every player has asked to leave that very   *)
(* one, although the vote on the wire names no screen.                     *)
THEOREM LeavingTogether ==
  ASSUME NoTreasure
  PROVE  Spec => []ByConsent
<1>1. ConsentInv => ByConsent
  BY ConsentSuffices
<1>2. ConsentInv /\ [Next]_vars => ConsentInv'
  BY ConsentStep
<1> QED
  BY <1>1, <1>2, ConsentInit, PTL DEF Spec

-------------------------------------------------------------------------------
(* Facing.                                                                 *)

Letter ==
  [type : {"FACE"}, battle : Nat, cat : Pet, way : Way] \cup [type : {"ACTION"}, battle : Nat]

FacesTyped ==
  /\ bout \in [Player -> Nat] /\ done \in [Player -> Nat]
  /\ stage \in [Player -> {"over", "boundary", "turn", "deciding", "acting"}]
  /\ faces \in [Player -> [Pet -> Way \cup {Midway}]]
  /\ post \in [Player -> Seq(Letter)]
  /\ polled = [p \in Player |-> polled[p]]

(* A copy is in a battle of the script, at a turn of it.                   *)
Scripted ==
  \A p \in Player :
    /\ stage[p] # "over" => bout[p] \in 1 .. Len(Script)
    /\ stage[p] \in {"turn", "deciding", "acting"} => done[p] < Len(Script[bout[p]])

(* The cat that acts is the one whose brain was polled.                    *)
ItsTurn ==
  \A p \in Player :
    stage[p] \in {"deciding", "acting"} => polled[p] = NextDecision(p).cat

EarnedInv == FacesTyped /\ Scripted /\ ItsTurn /\ FacingEarned

(* What is decided in a turn leaves its cat one way or the other.          *)
LEMMA DecisionIs ==
  ASSUME NEW p \in Player, FacesTyped, Scripted, stage[p] \in {"turn", "deciding", "acting"}
  PROVE  NextDecision(p).cat \in Fighter /\ NextDecision(p).to \in Way
<1>1. Len(Script) \in Nat /\ bout[p] \in 1 .. Len(Script)
  BY FacingParameters DEF Scripted
<1>2. PICK s : s = Script[bout[p]]
  OBVIOUS
<1>3. s \in Seq([cat : Fighter, to : Way])
  BY <1>1, <1>2, FacingParameters
<1>4. done[p] \in Nat /\ Len(s) \in Nat /\ done[p] < Len(s)
  BY <1>2, <1>3 DEF FacesTyped, Scripted
<1>5. done[p] + 1 \in 1 .. Len(s)
  BY <1>4
<1>6. s[done[p] + 1] \in [cat : Fighter, to : Way]
  BY <1>3, <1>5, ElementOfSeq
<1> QED
  BY <1>2, <1>6 DEF NextDecision

(* A set of cats in a row.                                                 *)
LEMMA InARow ==
  ASSUME NEW S, S \subseteq Pet
  PROVE  SetToSeq(S) \in Seq(S)
<1>1. IsFiniteSet(S)
  BY FacingParameters, FS_Subset
<1>2. PICK n \in Nat : n = Cardinality(S) /\ ExistsBijection(1 .. n, S)
  BY <1>1, FS_CardinalityType
<1>3. PICK f : f \in Bijection(1 .. n, S)
  BY <1>2 DEF ExistsBijection
<1>4. f \in [1 .. n -> S] /\ IsInjective(f)
  BY <1>3 DEF Bijection, Injection, IsInjective
<1>5. SetToSeq(S) = CHOOSE g \in [1 .. n -> S] : IsInjective(g)
  BY <1>2 DEF SetToSeq
<1>6. SetToSeq(S) \in [1 .. n -> S]
  BY <1>4, <1>5
<1> QED
  BY <1>6, SeqDef

(* Facings are sent as they are: if none of the cats is midway, none of the*)
(* letters is.                                                             *)
LEMMA SentFacings ==
  ASSUME EarnedInv, NEW p \in Player, NEW S, S \subseteq Pet,
         \A c \in S : faces[p][c] # Midway
  PROVE  Sent(p, SetToSeq(S)) \in [Player -> Seq(Letter)]
<1>1. PICK cs : cs = SetToSeq(S)
  OBVIOUS
<1>2. cs \in Seq(S) /\ Len(cs) \in Nat /\ DOMAIN cs = 1 .. Len(cs)
  BY <1>1, InARow
<1>3. PICK k : k = [i \in DOMAIN cs |-> FaceMsg(p, cs[i])]
  OBVIOUS
<1>4. \A i \in 1 .. Len(cs) : k[i] \in Letter
  <2> SUFFICES ASSUME NEW i \in 1 .. Len(cs) PROVE k[i] \in Letter
    OBVIOUS
  <2>1. cs[i] \in S /\ cs[i] \in Pet
    BY <1>2
  <2>2. faces[p][cs[i]] \in Way \cup {Midway} /\ bout[p] \in Nat
    BY <2>1 DEF EarnedInv, FacesTyped
  <2>3. faces[p][cs[i]] \in Way
    BY <2>1, <2>2
  <2>4. FaceMsg(p, cs[i]) \in Letter
    BY <2>1, <2>2, <2>3 DEF FaceMsg, Letter
  <2> QED
    BY <1>2, <1>3, <2>4
<1>5. k \in Seq(Letter)
  <2>1. k = [i \in 1 .. Len(cs) |-> FaceMsg(p, cs[i])]
    BY <1>2, <1>3
  <2>2. k \in [1 .. Len(cs) -> Letter]
    BY <1>4, <2>1
  <2> QED
    BY <2>2, <1>2, SeqDef
<1>6. \A q \in Player : post[q] \o k \in Seq(Letter)
  BY <1>5 DEF EarnedInv, FacesTyped
<1>7. Sent(p, cs) = [post EXCEPT ![Opponent(p)] = @ \o k]
  BY <1>3 DEF Sent
<1> HIDE DEF Letter
<1>8. \A q : [post EXCEPT ![q] = @ \o k] \in [Player -> Seq(Letter)]
  BY <1>6 DEF EarnedInv, FacesTyped
<1> QED
  BY <1>1, <1>7, <1>8

LEMMA EarnedInit == FacingInit => EarnedInv
<1> SUFFICES ASSUME FacingInit PROVE EarnedInv
  OBVIOUS
<1>1. FacesTyped
  <2>1. \A p \in Player : post[p] = <<>>
    BY DEF FacingInit
  <2>2. post \in [Player -> Seq(Letter)]
    BY <2>1, EmptySeq DEF FacingInit
  <2> QED
    BY <2>2 DEF FacingInit, FacesTyped, Way
<1>2. Scripted /\ ItsTurn
  BY DEF FacingInit, Scripted, ItsTurn
<1>3. FacingEarned
  BY DEF FacingInit, FacingEarned, Midway
<1> QED
  BY <1>1, <1>2, <1>3 DEF EarnedInv

(* No letter of a well typed queue shows a cat midway.                     *)
LEMMA LetterEarned ==
  ASSUME NEW s \in Seq(Letter), NEW i \in DOMAIN s, s[i].type = "FACE"
  PROVE  s[i].way # Midway
<1>1. s[i] \in Letter
  BY ElementOfSeq
<1> QED
  BY <1>1 DEF Letter, Way, Midway

LEMMA EarnedSnapshot ==
  ASSUME EarnedInv, NEW p \in Player, Snapshot(p)
  PROVE  EarnedInv'
<1>1. FacesTyped /\ Scripted /\ ItsTurn /\ FacingEarned
  BY DEF EarnedInv
<1>2. Len(Script) \in Nat /\ bout[p] \in Nat /\ bout[p] + 1 \in 1 .. Len(Script)
  BY <1>1, FacingParameters DEF FacesTyped, Snapshot
<1>3. FacesTyped'
  <2>1. bout' \in [Player -> Nat] /\ done' \in [Player -> Nat]
    BY <1>1, <1>2 DEF FacesTyped, Snapshot
  <2>2. stage' \in [Player -> {"over", "boundary", "turn", "deciding", "acting"}]
    BY <1>1 DEF FacesTyped, Snapshot
  <2>3. faces' \in [Player -> [Pet -> Way \cup {Midway}]]
    BY <1>1 DEF FacesTyped, Snapshot, Way
  <2>4. polled' = [q \in Player |-> polled'[q]]
    BY <1>1 DEF FacesTyped, Snapshot
  <2> QED
    BY <1>1, <2>1, <2>2, <2>3, <2>4 DEF FacesTyped, Snapshot
<1>4. Scripted'
  BY <1>1, <1>2 DEF FacesTyped, Scripted, Snapshot
<1>5. ItsTurn'
  BY <1>1 DEF FacesTyped, ItsTurn, Snapshot, NextDecision
<1>6. \A q \in Player : \A c \in Pet : faces'[q][c] = Midway => Acting(q, c)'
  BY <1>1 DEF FacesTyped, FacingEarned, Acting, Snapshot, Midway
<1>7. FacingEarned'
  BY <1>1, <1>6 DEF FacingEarned, FacesTyped, Snapshot
<1> QED
  BY <1>3, <1>4, <1>5, <1>7 DEF EarnedInv

(* What moves neither the battle nor the turn has to keep the faces and    *)
(* the letters typed, and a cat midway only as it acts.                    *)
LEMMA EarnedByFaces ==
  ASSUME EarnedInv, UNCHANGED <<bout, stage, done, polled>>,
         faces' \in [Player -> [Pet -> Way \cup {Midway}]], post' \in [Player -> Seq(Letter)],
         \A q \in Player : \A c \in Pet : faces'[q][c] = Midway => Acting(q, c)
  PROVE  EarnedInv'
<1>1. FacesTyped /\ Scripted /\ ItsTurn
  BY DEF EarnedInv
<1>2. FacesTyped'
  BY <1>1 DEF FacesTyped
<1>3. Scripted' /\ ItsTurn'
  BY <1>1 DEF Scripted, ItsTurn, NextDecision
<1>4. FacingEarned'
  <2>1. \A q \in Player : \A c \in Pet : faces'[q][c] = Midway => Acting(q, c)'
    BY DEF Acting
  <2>2. \A q \in Player : \A i \in DOMAIN post'[q] :
          post'[q][i].type = "FACE" => post'[q][i].way # Midway
    BY LetterEarned
  <2> QED
    BY <2>1, <2>2 DEF FacingEarned
<1> QED
  BY <1>2, <1>3, <1>4 DEF EarnedInv

(* The faces as they were, or one of them turned.                          *)
LEMMA OneFace ==
  ASSUME EarnedInv, NEW p \in Player, NEW c \in Pet, NEW w \in Way \cup {Midway},
         w = Midway => Acting(p, c) \/ faces[p][c] = Midway,
         faces' = [faces EXCEPT ![p][c] = w]
  PROVE  /\ faces' \in [Player -> [Pet -> Way \cup {Midway}]]
         /\ \A q \in Player : \A d \in Pet : faces'[q][d] = Midway => Acting(q, d)
<1>1. faces \in [Player -> [Pet -> Way \cup {Midway}]]
  BY DEF EarnedInv, FacesTyped
<1>2. \A q \in Player : \A d \in Pet : faces[q][d] = Midway => Acting(q, d)
  BY DEF EarnedInv, FacingEarned
<1>3. faces' \in [Player -> [Pet -> Way \cup {Midway}]]
  BY <1>1
<1>4. ASSUME NEW q \in Player, NEW d \in Pet, faces'[q][d] = Midway
      PROVE  Acting(q, d)
  <2>1. CASE q = p /\ d = c
    BY <2>1, <1>1, <1>2, <1>4
  <2>2. CASE ~(q = p /\ d = c)
    BY <2>2, <1>1, <1>2, <1>4
  <2> QED
    BY <2>1, <2>2
<1> QED
  BY <1>3, <1>4

LEMMA EarnedClick ==
  ASSUME EarnedInv, NEW p \in Player, NEW c \in Pet, Click(p, c)
  PROVE  EarnedInv'
<1>1. PICK w \in Way \ {faces[p][c]} : faces' = [faces EXCEPT ![p][c] = w]
  BY DEF Click
<1>2. w \in Way /\ w # Midway
  BY <1>1 DEF Way, Midway
<1>3. UNCHANGED <<bout, stage, done, polled, post>> /\ post \in [Player -> Seq(Letter)]
  BY DEF Click, EarnedInv, FacesTyped
<1> QED
  BY <1>1, <1>2, <1>3, OneFace, EarnedByFaces

(* A preview puts back what it has turned.                                 *)
LEMMA EarnedPreview ==
  ASSUME EarnedInv, NEW p \in Player, NEW c \in Pet, AimPreview(p) \/ DrawHighlight(p, c)
  PROVE  EarnedInv'
<1>1. faces' = faces
  <2>1. \A d : [faces EXCEPT ![p][d] = faces[p][d]] = faces
    BY DEF EarnedInv, FacesTyped
  <2>2. CASE AimPreview(p)
    BY <2>1, <2>2 DEF AimPreview, PutBack
  <2>3. CASE DrawHighlight(p, c)
    BY <2>1, <2>3 DEF DrawHighlight, Fenced
  <2> QED
    BY <2>2, <2>3
<1>2. UNCHANGED <<bout, stage, done, polled, post>>
  BY DEF AimPreview, DrawHighlight
<1> QED
  BY <1>1, <1>2, EarnedByFaces DEF EarnedInv, FacesTyped, FacingEarned

(* Whose turn it is, is not sent while it acts.                            *)
LEMMA EarnedFrame ==
  ASSUME EarnedInv, NEW p \in Player, FaceFrame(p)
  PROVE  EarnedInv'
<1>1. PICK due : /\ due = {c \in Kept(p) : Quiescent(p, c) /\ FaceDue(p, c)}
                 /\ post' = Sent(p, SetToSeq(due))
  BY DEF FaceFrame
<1>2. due \subseteq Pet /\ \A c \in due : faces[p][c] # Midway
  BY <1>1 DEF Kept, Quiescent, EarnedInv, FacingEarned, Acting
<1>3. post' \in [Player -> Seq(Letter)]
  BY <1>1, <1>2, SentFacings
<1>4. UNCHANGED <<bout, stage, done, polled, faces>>
  BY DEF FaceFrame
<1> QED
  BY <1>3, <1>4, EarnedByFaces DEF EarnedInv, FacesTyped, FacingEarned

LEMMA EarnedReadPost ==
  ASSUME EarnedInv, NEW p \in Player, ReadPost(p)
  PROVE  EarnedInv'
<1>1. post \in [Player -> Seq(Letter)]
  BY DEF EarnedInv, FacesTyped
<1>2. post[p] \in Seq(Letter) /\ post[p] # <<>>
  BY <1>1 DEF ReadPost
<1>3. PICK m \in Letter : m = Head(post[p])
  BY <1>2, HeadTailProperties
<1>4. Tail(post[p]) \in Seq(Letter)
  BY <1>2, HeadTailProperties
<1>5. post' \in [Player -> Seq(Letter)]
  BY <1>1, <1>4 DEF ReadPost
<1>6. UNCHANGED <<bout, stage, done, polled>>
  BY DEF ReadPost
<1>7. CASE faces' = faces
  BY <1>5, <1>6, <1>7, EarnedByFaces DEF EarnedInv, FacesTyped, FacingEarned
<1>8. CASE faces' # faces
  <2>1. m.type = "FACE" /\ faces' = [faces EXCEPT ![p][m.cat] = m.way]
    BY <1>3, <1>8 DEF ReadPost
  <2>2. m.cat \in Pet /\ m.way \in Way /\ m.way # Midway
    BY <2>1 DEF Letter, Way, Midway
  <2> QED
    BY <2>1, <2>2, <1>5, <1>6, OneFace, EarnedByFaces
<1> QED
  BY <1>7, <1>8

(* At a boundary nobody acts, so every cat one keeps can be sent.          *)
LEMMA EarnedTurnTick ==
  ASSUME EarnedInv, NEW p \in Player, TurnTick(p)
  PROVE  EarnedInv'
<1>1. FacesTyped /\ Scripted /\ ItsTurn /\ FacingEarned
  BY DEF EarnedInv
<1>2. Kept(p) \subseteq Pet /\ \A c \in Kept(p) : faces[p][c] # Midway
  BY <1>1 DEF TurnTick, Kept, FacingEarned, Acting
<1>3. post' \in [Player -> Seq(Letter)]
  BY <1>2, SentFacings DEF TurnTick
<1>4. PICK s \in {"turn", "over"} :
        /\ stage' = [stage EXCEPT ![p] = s]
        /\ s = "turn" => done[p] < Len(Script[bout[p]])
  BY DEF TurnTick
<1>5. UNCHANGED <<bout, done, polled, faces>> /\ stage[p] = "boundary"
  BY DEF TurnTick
<1>6. FacesTyped'
  BY <1>1, <1>3, <1>4, <1>5 DEF FacesTyped
<1>7. Scripted'
  BY <1>1, <1>4, <1>5 DEF FacesTyped, Scripted
<1>8. ItsTurn'
  BY <1>1, <1>4, <1>5 DEF FacesTyped, ItsTurn, NextDecision
<1>9. \A q \in Player : \A c \in Pet : faces'[q][c] = Midway => Acting(q, c)'
  BY <1>1, <1>4, <1>5 DEF FacesTyped, FacingEarned, Acting
<1>10. FacingEarned'
  BY <1>3, <1>9, LetterEarned DEF FacingEarned
<1> QED
  BY <1>6, <1>7, <1>8, <1>10 DEF EarnedInv

LEMMA EarnedPoll ==
  ASSUME EarnedInv, NEW p \in Player, Poll(p)
  PROVE  EarnedInv'
<1>1. FacesTyped /\ Scripted /\ ItsTurn /\ FacingEarned
  BY DEF EarnedInv
<1>2. UNCHANGED <<bout, done, faces, post>> /\ stage[p] = "turn"
  BY DEF Poll
<1>3. /\ stage' = [stage EXCEPT ![p] = "deciding"]
      /\ polled' = [polled EXCEPT ![p] = NextDecision(p).cat]
  BY DEF Poll
<1>4. FacesTyped'
  <2>1. polled' = [q \in Player |-> polled'[q]]
    BY <1>1, <1>3 DEF FacesTyped
  <2>2. stage' \in [Player -> {"over", "boundary", "turn", "deciding", "acting"}]
    BY <1>1, <1>3 DEF FacesTyped
  <2> QED
    BY <2>1, <2>2, <1>1, <1>2 DEF FacesTyped
<1>5. Scripted'
  BY <1>1, <1>2, <1>3 DEF FacesTyped, Scripted
<1>6. ItsTurn'
  BY <1>1, <1>2, <1>3 DEF FacesTyped, ItsTurn, NextDecision
<1>7. FacingEarned'
  BY <1>1, <1>2, <1>3 DEF FacesTyped, FacingEarned, Acting
<1> QED
  BY <1>4, <1>5, <1>6, <1>7 DEF EarnedInv

(* The facing that goes with a decision is the one its cat had before.     *)
LEMMA EarnedApply ==
  ASSUME EarnedInv, NEW p \in Player, ApplyDecision(p)
  PROVE  EarnedInv'
<1>1. FacesTyped /\ Scripted /\ ItsTurn /\ FacingEarned
  BY DEF EarnedInv
<1>2. UNCHANGED <<bout, done, polled>> /\ stage[p] = "deciding"
  BY DEF ApplyDecision
<1>3. PICK c : c = NextDecision(p).cat
  OBVIOUS
<1>4. c = polled[p]
  BY <1>1, <1>2, <1>3 DEF ItsTurn
<1>5. stage' = [stage EXCEPT ![p] = "acting"]
  BY DEF ApplyDecision
<1>6. post' \in [Player -> Seq(Letter)]
  <2>1. CASE post' = post
    BY <2>1, <1>1 DEF FacesTyped
  <2>2. CASE post' # post
    <3>1. c \in Pet /\ post' = [post EXCEPT ![Opponent(p)] = @ \o <<ActionMsg(p), FaceMsg(p, c)>>]
      BY <2>2, <1>3 DEF ApplyDecision, Kept
    <3>2. bout[p] \in Nat /\ faces[p][c] \in Way
      BY <3>1, <1>1, <1>2 DEF FacesTyped, FacingEarned, Acting
    <3>3. ActionMsg(p) \in Letter /\ FaceMsg(p, c) \in Letter
      BY <3>1, <3>2 DEF ActionMsg, FaceMsg, Letter
    <3>4. <<ActionMsg(p), FaceMsg(p, c)>> \in Seq(Letter)
      BY <3>3
    <3>5. \A q \in Player : post[q] \o <<ActionMsg(p), FaceMsg(p, c)>> \in Seq(Letter)
      BY <3>4, <1>1 DEF FacesTyped
    <3> QED
      BY <3>1, <3>5, <1>1 DEF FacesTyped
  <2> QED
    BY <2>1, <2>2
<1>7. \/ faces' = faces
      \/ c \in Pet /\ faces' = [faces EXCEPT ![p][c] = Midway]
  BY <1>3 DEF ApplyDecision
<1>8. FacesTyped'
  <2>1. faces' \in [Player -> [Pet -> Way \cup {Midway}]]
    <3>1. faces \in [Player -> [Pet -> Way \cup {Midway}]]
      BY <1>1 DEF FacesTyped
    <3>2. c \in Pet => [faces EXCEPT ![p][c] = Midway] \in [Player -> [Pet -> Way \cup {Midway}]]
      BY <3>1
    <3> QED
      BY <3>1, <3>2, <1>7
  <2>2. stage' \in [Player -> {"over", "boundary", "turn", "deciding", "acting"}]
    BY <1>1, <1>5 DEF FacesTyped
  <2> QED
    BY <2>1, <2>2, <1>1, <1>2, <1>6 DEF FacesTyped
<1>9. Scripted'
  BY <1>1, <1>2, <1>5 DEF FacesTyped, Scripted
<1>10. ItsTurn'
  BY <1>1, <1>2, <1>5 DEF FacesTyped, ItsTurn, NextDecision
<1>11. \A q \in Player : \A d \in Pet : faces'[q][d] = Midway => Acting(q, d)'
  BY <1>1, <1>2, <1>4, <1>5, <1>7 DEF FacesTyped, FacingEarned, Acting
<1>12. FacingEarned'
  BY <1>6, <1>11, LetterEarned DEF FacingEarned
<1> QED
  BY <1>8, <1>9, <1>10, <1>12 DEF EarnedInv

(* The cat that acted looks the way its decision left it.                  *)
LEMMA EarnedAnimation ==
  ASSUME EarnedInv, NEW p \in Player, AnimationEnds(p)
  PROVE  EarnedInv'
<1>1. FacesTyped /\ Scripted /\ ItsTurn /\ FacingEarned
  BY DEF EarnedInv
<1>2. UNCHANGED <<bout, polled, post>> /\ stage[p] = "acting"
  BY DEF AnimationEnds
<1>3. PICK d : d = NextDecision(p)
  OBVIOUS
<1>4. d.cat = polled[p] /\ d.to \in Way
  BY <1>1, <1>2, <1>3, DecisionIs DEF ItsTurn
<1>5. /\ stage' = [stage EXCEPT ![p] = "boundary"]
      /\ done' = [done EXCEPT ![p] = @ + 1]
  BY DEF AnimationEnds
<1>6. faces' = IF d.cat \in Pet THEN [faces EXCEPT ![p][d.cat] = d.to] ELSE faces
  BY <1>3 DEF AnimationEnds
<1>7. FacesTyped'
  <2>1. faces' \in [Player -> [Pet -> Way \cup {Midway}]]
    BY <1>1, <1>4, <1>6 DEF FacesTyped
  <2>2. stage' \in [Player -> {"over", "boundary", "turn", "deciding", "acting"}]
    BY <1>1, <1>5 DEF FacesTyped
  <2>3. done' \in [Player -> Nat]
    BY <1>1, <1>5 DEF FacesTyped
  <2> QED
    BY <2>1, <2>2, <2>3, <1>1, <1>2 DEF FacesTyped
<1>8. Scripted'
  BY <1>1, <1>2, <1>5 DEF FacesTyped, Scripted
<1>9. ItsTurn'
  BY <1>1, <1>2, <1>5 DEF FacesTyped, ItsTurn, NextDecision
<1>10. ASSUME NEW q \in Player, NEW c \in Pet, faces'[q][c] = Midway
       PROVE  stage'[q] = "acting" /\ polled'[q] = c
  <2>1. CASE q # p
    BY <2>1, <1>1, <1>2, <1>5, <1>6, <1>10 DEF FacesTyped, FacingEarned, Acting
  <2>2. CASE q = p
    <3>1. faces[p] \in [Pet -> Way \cup {Midway}]
      BY <1>1 DEF FacesTyped
    <3>2. c # polled[p]
      BY <3>1, <2>2, <1>1, <1>4, <1>6, <1>10 DEF FacesTyped, Way, Midway
    <3>3. faces[p][c] = Midway
      BY <3>1, <3>2, <2>2, <1>1, <1>4, <1>6, <1>10 DEF FacesTyped
    <3> QED
      BY <3>2, <3>3, <1>1 DEF FacingEarned, Acting
  <2> QED
    BY <2>1, <2>2
<1>11. FacingEarned'
  BY <1>1, <1>2, <1>10 DEF FacingEarned, Acting
<1> QED
  BY <1>7, <1>8, <1>9, <1>11 DEF EarnedInv

LEMMA EarnedStep == EarnedInv /\ [FacingNext]_facingVars => EarnedInv'
<1> SUFFICES ASSUME EarnedInv, [FacingNext]_facingVars PROVE EarnedInv'
  OBVIOUS
<1>1. ASSUME NEW p \in Player, Snapshot(p) \/ TurnTick(p) \/ Poll(p) PROVE EarnedInv'
  BY <1>1, EarnedSnapshot, EarnedTurnTick, EarnedPoll
<1>2. ASSUME NEW p \in Player, ApplyDecision(p) \/ AnimationEnds(p) PROVE EarnedInv'
  BY <1>2, EarnedApply, EarnedAnimation
<1>3. ASSUME NEW p \in Player, FaceFrame(p) \/ ReadPost(p) PROVE EarnedInv'
  BY <1>3, EarnedFrame, EarnedReadPost
<1>4. ASSUME NEW p \in Player, NEW c \in Pet, Click(p, c) \/ DrawHighlight(p, c) PROVE EarnedInv'
  BY <1>4, EarnedClick, EarnedPreview
<1>5. ASSUME NEW p \in Player, AimPreview(p) PROVE EarnedInv'
  <2>1. polled[p] \in Pet
    BY <1>5 DEF AimPreview, Kept
  <2> QED
    BY <2>1, <1>5, EarnedPreview
<1>6. CASE (\E p \in Player : TimePasses(p)) \/ UNCHANGED facingVars
  <2>1. UNCHANGED <<bout, stage, done, polled, faces, post>>
    BY <1>6 DEF TimePasses, facingVars
  <2> QED
    BY <2>1, EarnedByFaces DEF EarnedInv, FacesTyped, FacingEarned
<1> QED
  BY <1>1, <1>2, <1>3, <1>4, <1>5, <1>6 DEF FacingNext

(* What a copy shows of an aim, of the other's aim or of an animation in   *)
(* flight neither stays in it nor is sent (lockstep_preview_facing_end,    *)
(* lockstep_state_fence_end, lockstep_face_frame_tick), for any number of  *)
(* cats and battles and whatever they decide.                              *)
THEOREM FacingsEarned == FacingSpec => []FacingEarned
<1>1. EarnedInv => FacingEarned
  BY DEF EarnedInv
<1> QED
  BY <1>1, EarnedInit, EarnedStep, PTL DEF FacingSpec
==============================================================================
