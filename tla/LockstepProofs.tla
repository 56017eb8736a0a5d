---------------------------- MODULE LockstepProofs ----------------------------
(***************************************************************************)
(* Proofs about Lockstep, for every number of peers, cats and nodes.       *)
(*                                                                         *)
(* TypeInv is TypeOK with what it needs to be inductive: a copy that is in *)
(* a battle holds the list of the battle the tracker calls current, and    *)
(* only a copy whose turn is under way has a decision queued.  GateInv is  *)
(* about who has joined.  Then one copy of a battle and the road that leads*)
(* to it, what holds of a member whatever the others do, on which          *)
(* AgreementProofs and HaltProofs rest:                                    *)
(*                                                                         *)
(*   - lists of decisions: what Lockstep's Picked, ActsOf and Carried      *)
(*     give for an empty list, a longer one and two in a row, and how      *)
(*     many turns a list ends;                                             *)
(*   - where a copy is in its battle is what it has decided there          *)
(*     (CopyInv);                                                          *)
(*   - nobody enters a node twice (RoadInv);                               *)
(*   - what is said in a step, and by whom.                                *)
(***************************************************************************)
EXTENDS Lockstep, ListProofs

InBattle ==
  \A p \in Peer :
    /\ phase[p] # "map" => node[p] \in Node /\ node[p] = battles[p].current
    /\ queued[p] # <<>> => phase[p] = "turn"

TypeInv == TypeOK /\ InBattle

-------------------------------------------------------------------------------
(* Values.                                                                 *)

LEMMA HostIsPeer == Host \in Peer /\ Client \subseteq Peer /\ \A c \in Client : c # Host
BY HostAssumption DEF Peer

LEMMA NoneIsNoNode == NoBattle \notin Node
BY NodeAssumption

LEMMA EmptyFits == \A S : <<>> \in Seq(S)
BY EmptySeq

LEMMA AppendFits ==
  ASSUME NEW S, NEW s \in Seq(S), NEW e \in S
  PROVE  Append(s, e) \in Seq(S)
OBVIOUS

(* A sequence of zero or one element of S.                                 *)
LEMMA OneFits == ASSUME NEW S, NEW e \in S PROVE <<e>> \in Seq(S)
OBVIOUS

(* Updating one entry of a table of tables.                                *)
LEMMA ExceptTwo ==
  ASSUME NEW A, NEW B, NEW S, NEW f \in [A -> [B -> S]], NEW i \in A, NEW j \in B, NEW e \in S
  PROVE  [f EXCEPT ![i][j] = e] \in [A -> [B -> S]]
OBVIOUS

LEMMA ExceptThree ==
  ASSUME NEW A, NEW B, NEW C, NEW S, NEW f \in [A -> [B -> [C -> S]]],
         NEW i \in A, NEW j \in B, NEW k \in C, NEW e \in S
  PROVE  [f EXCEPT ![i][j][k] = e] \in [A -> [B -> [C -> S]]]
<1>1. [f[i] EXCEPT ![j][k] = e] \in [B -> [C -> S]]
  BY ExceptTwo
<1>2. [f EXCEPT ![i] = [f[i] EXCEPT ![j][k] = e]] \in [A -> [B -> [C -> S]]]
  BY <1>1
<1> QED
  BY <1>2

LEMMA TrackerType ==
  ASSUME NEW t \in Tracker, NEW id \in Node
  PROVE  EnterBattle(t, id) \in Tracker /\ EnterBattle(t, id).current = id
<1>1. t.retired \in Seq(Node) /\ t.current \in Node \cup {NoBattle}
  BY DEF Tracker
<1>2. \A ring \in Seq(Node), i \in Node : PushRetired(ring, i) \in Seq(Node)
  <2> SUFFICES ASSUME NEW ring \in Seq(Node), NEW i \in Node
               PROVE  PushRetired(ring, i) \in Seq(Node)
    OBVIOUS
  <2>1. CASE Remembers(ring, i)
    BY <2>1 DEF PushRetired
  <2>2. CASE ~Remembers(ring, i) /\ Len(ring) < Slots
    BY <2>2 DEF PushRetired
  <2>3. CASE ~Remembers(ring, i) /\ ~(Len(ring) < Slots)
    <3>1. ring # <<>>
      BY <2>3, SlotsAssumption, EmptySeq
    <3>2. Tail(ring) \in Seq(Node)
      BY <3>1, HeadTailProperties
    <3> QED
      BY <2>3, <3>2 DEF PushRetired
  <2> QED
    BY <2>1, <2>2, <2>3
<1> QED
  BY <1>1, <1>2 DEF EnterBattle, Tracker

(* What every link carries: In[q] to the queue of q, Out[c] to the host.   *)
LEMMA TransmitKeeps ==
  ASSUME NEW In, NEW Out, NEW p \in Peer, NEW box, NEW ms,
         \A q \in Peer : box[q] \in Seq(In[q]),
         \A c \in Client : up[c] \in Seq(Out[c]),
         DOMAIN up = Client,
         p = Host => \A q \in Client : ms \in Seq(In[q]),
         p # Host => ms \in Seq(Out[p]),
         Transmit(p, box, ms)
  PROVE  /\ DOMAIN inq' = Peer /\ \A q \in Peer : inq'[q] \in Seq(In[q])
         /\ DOMAIN up' = Client /\ \A c \in Client : up'[c] \in Seq(Out[c])
<1>1. DOMAIN inq' = Peer
  BY DEF Transmit
<1>2. ASSUME NEW q \in Peer PROVE inq'[q] \in Seq(In[q])
  <2>1. CASE p = Host /\ q # Host
    <3>1. ms \in Seq(In[q]) /\ box[q] \in Seq(In[q])
      BY <2>1, <1>2 DEF Peer
    <3>2. box[q] \o ms \in Seq(In[q])
      BY <3>1, ConcatProperties
    <3> QED
      BY <2>1, <3>2, <1>2 DEF Transmit
  <2>2. CASE ~(p = Host /\ q # Host)
    BY <2>2, <1>2 DEF Transmit
  <2> QED
    BY <2>1, <2>2
<1>3. DOMAIN up' = Client
  BY DEF Transmit
<1>4. ASSUME NEW c \in Client PROVE up'[c] \in Seq(Out[c])
  <2>1. CASE p # Host /\ c = p
    <3>1. up[c] \o ms \in Seq(Out[c])
      BY <2>1, <1>4, ConcatProperties
    <3> QED
      BY <2>1, <3>1, <1>4 DEF Transmit
  <2>2. CASE ~(p # Host /\ c = p)
    BY <2>2, <1>4 DEF Transmit
  <2> QED
    BY <2>1, <2>2
<1> QED
  BY <1>1, <1>2, <1>3, <1>4

(* ... in particular messages.                                             *)
LEMMA TransmitType ==
  ASSUME TypeOK, NEW p \in Peer, NEW box \in [Peer -> Seq(Message)],
         NEW ms \in Seq(Message), Transmit(p, box, ms)
  PROVE  inq' \in [Peer -> Seq(Message)] /\ up' \in [Client -> Seq(Message)]
<1> DEFINE In == [q \in Peer |-> Message]
           Out == [c \in Client |-> Message]
<1>1. /\ \A q \in Peer : box[q] \in Seq(In[q])
      /\ \A c \in Client : up[c] \in Seq(Out[c])
      /\ DOMAIN up = Client
      /\ p = Host => \A q \in Client : ms \in Seq(In[q])
      /\ p # Host => ms \in Seq(Out[p])
  BY DEF TypeOK, Peer
<1> HIDE DEF In, Out
<1>2. /\ DOMAIN inq' = Peer /\ \A q \in Peer : inq'[q] \in Seq(In[q])
      /\ DOMAIN up' = Client /\ \A c \in Client : up'[c] \in Seq(Out[c])
  BY <1>1, TransmitKeeps
<1>3. /\ \A q \in Peer : inq'[q] \in Seq(Message)
      /\ \A c \in Client : up'[c] \in Seq(Message)
  BY <1>2 DEF In, Out
<1>4. inq' \in [Peer -> Seq(Message)]
  BY <1>3 DEF Transmit
<1>5. up' \in [Client -> Seq(Message)]
  BY <1>3 DEF Transmit, TypeOK
<1> QED
  BY <1>4, <1>5

LEMMA RestType ==
  ASSUME TypeOK, NEW p \in Peer, inq[p] # <<>>
  PROVE  Rest(p) \in [Peer -> Seq(Message)] /\ Head(inq[p]) \in Message
<1>1. Head(inq[p]) \in Message /\ Tail(inq[p]) \in Seq(Message)
  BY HeadTailProperties DEF TypeOK
<1> QED
  BY <1>1 DEF Rest, TypeOK

LEMMA HaltType ==
  ASSUME NEW p \in Peer
  PROVE  \A bad \in BOOLEAN : HaltIf(p, bad) \in Seq(Message)
<1>1. Halt(p) \in Message
  BY DEF Halt, Message
<1> QED
  BY <1>1, EmptyFits, OneFits DEF HaltIf

LEMMA HashType ==
  ASSUME TypeOK, NEW p \in Peer, NEW t \in Nat,
         node[p] \in Node, battles[p].current \in Node
  PROVE  BuildHash(p, t) \in Hash
<1>1. hist[p][node[p]] \in Seq(Decision)
  BY DEF TypeOK
<1> QED
  BY <1>1 DEF BuildHash, Reading, Hash, Digest

LEMMA RingType ==
  ASSUME NEW hs \in SUBSET Hash, NEW h \in Hash
  PROVE  PushEvicting(hs, h) \in SUBSET Hash /\ PushRefusing(hs, h) \in SUBSET Hash
BY DEF PushEvicting, PushRefusing

(* The hash half of a boundary keeps its three variables typed and sends   *)
(* well-formed messages.                                                   *)
LEMMA HashTurnType ==
  ASSUME TypeOK, NEW p \in Peer, NEW t \in Nat, NEW own \in SUBSET Hash,
         NEW held \in [Peer -> SUBSET Hash], NEW stopped \in BOOLEAN,
         node[p] \in Node, battles[p].current \in Node,
         HashTurn(p, t, own, held, stopped)
  PROVE  /\ turn' \in [Peer -> Nat]
         /\ myHash' \in [Peer -> SUBSET Hash]
         /\ peerHash' \in [Peer -> [Peer -> SUBSET Hash]]
         /\ HashMessages(p, t, held, stopped) \in Seq(Message)
<1> DEFINE h == BuildHash(p, t)
<1>1. h \in Hash
  BY HashType
<1> HIDE DEF h
<1>2. PushEvicting(own, h) \in SUBSET Hash
  BY <1>1, RingType
<1>3. Compared(p, h, held) \in [Peer -> SUBSET Hash]
  BY DEF Compared
<1>4. /\ turn' \in [Peer -> Nat]
      /\ myHash' \in [Peer -> SUBSET Hash]
      /\ peerHash' \in [Peer -> [Peer -> SUBSET Hash]]
  <2>1. CASE stopped
    <3>1. /\ turn' = [turn EXCEPT ![p] = t]
          /\ myHash' = [myHash EXCEPT ![p] = own]
          /\ peerHash' = [peerHash EXCEPT ![p] = held]
      BY <2>1 DEF HashTurn
    <3>2. turn' \in [Peer -> Nat]
      BY <3>1 DEF TypeOK
    <3>3. myHash' \in [Peer -> SUBSET Hash]
      BY <3>1 DEF TypeOK
    <3>4. peerHash' \in [Peer -> [Peer -> SUBSET Hash]]
      BY <3>1 DEF TypeOK
    <3> QED
      BY <3>2, <3>3, <3>4
  <2>2. CASE ~stopped
    <3>1. /\ turn' = [turn EXCEPT ![p] = t + 1]
          /\ myHash' = [myHash EXCEPT ![p] = PushEvicting(own, h)]
          /\ peerHash' = [peerHash EXCEPT ![p] = Compared(p, h, held)]
      BY <2>2 DEF HashTurn, h
    <3>2. turn' \in [Peer -> Nat]
      BY <3>1 DEF TypeOK
    <3>3. myHash' \in [Peer -> SUBSET Hash]
      BY <3>1, <1>2 DEF TypeOK
    <3>4. peerHash' \in [Peer -> [Peer -> SUBSET Hash]]
      BY <3>1, <1>3 DEF TypeOK
    <3> QED
      BY <3>2, <3>3, <3>4
  <2> QED
    BY <2>1, <2>2
<1>5. HashMessages(p, t, held, stopped) \in Seq(Message)
  <2>1. Mismatch(p, h, held) \in BOOLEAN
    BY BoundsAssumption DEF Mismatch
  <2>2. [type |-> "HASH", from |-> p, hash |-> h] \in Message
    BY <1>1 DEF Message
  <2>3. HaltIf(p, Mismatch(p, h, held)) \in Seq(Message)
    BY <2>1, HaltType
  <2>4. <<[type |-> "HASH", from |-> p, hash |-> h]>> \o HaltIf(p, Mismatch(p, h, held))
          \in Seq(Message)
    BY <2>2, <2>3, OneFits, ConcatProperties
  <2> QED
    BY <2>4, EmptyFits DEF HashMessages, h
<1> QED
  BY <1>4, <1>5

-------------------------------------------------------------------------------
(* Every step keeps TypeInv: one lemma per action.                         *)

LEMMA EnterNodeType ==
  ASSUME TypeInv, NEW p \in Peer, NEW n \in Node, phase[p] = "map",
         EnterNode(p, n), queued' = queued
  PROVE  /\ battles' \in [Peer -> Tracker]
         /\ sentLog' \in [Peer -> Seq(Action)]
         /\ phase' \in [Peer -> {"map", "boundary", "turn"}]
         /\ node' \in [Peer -> Node \cup {NoBattle}]
         /\ clock' \in [Peer -> Nat]
         /\ InBattle'
<1>1. EnterBattle(battles[p], n) \in Tracker /\ EnterBattle(battles[p], n).current = n
  BY TrackerType DEF TypeInv, TypeOK
<1>2. battles' = [battles EXCEPT ![p] = EnterBattle(battles[p], n)]
  BY DEF EnterNode
<1>3. battles' \in [Peer -> Tracker]
  BY <1>1, <1>2 DEF TypeInv, TypeOK
<1>4. sentLog' \in [Peer -> Seq(Action)]
  <2>1. sentLog' = [sentLog EXCEPT ![p] = IF n = battles[p].current THEN sentLog[p] ELSE <<>>]
    BY DEF EnterNode
  <2> QED
    BY <2>1, EmptyFits DEF TypeInv, TypeOK
<1>5. /\ phase' \in [Peer -> {"map", "boundary", "turn"}]
      /\ node' \in [Peer -> Node \cup {NoBattle}]
      /\ clock' \in [Peer -> Nat]
  <2>1. CASE n \in Combat
    <3>1. /\ phase' = [phase EXCEPT ![p] = "boundary"]
          /\ node' = [node EXCEPT ![p] = n]
          /\ clock' = [clock EXCEPT ![p] = 0]
      BY <2>1 DEF EnterNode
    <3> QED
      BY <3>1 DEF TypeInv, TypeOK
  <2>2. CASE n \notin Combat
    BY <2>2 DEF EnterNode, TypeInv, TypeOK
  <2> QED
    BY <2>1, <2>2
<1>6. ASSUME NEW q \in Peer
      PROVE  /\ phase'[q] # "map" => node'[q] \in Node /\ node'[q] = battles'[q].current
             /\ queued'[q] # <<>> => phase'[q] = "turn"
  <2>1. CASE q # p
    BY <2>1, <1>2 DEF EnterNode, TypeInv, TypeOK, InBattle
  <2>2. CASE q = p
    <3>1. battles'[p].current = n
      BY <1>1, <1>2 DEF TypeInv, TypeOK
    <3>2. queued'[p] = <<>>
      BY DEF TypeInv, InBattle
    <3>3. phase'[p] # "map" => node'[p] = n
      BY DEF EnterNode, TypeInv, TypeOK
    <3> QED
      BY <2>2, <3>1, <3>2, <3>3
  <2> QED
    BY <2>1, <2>2
<1> QED
  BY <1>3, <1>4, <1>5, <1>6 DEF InBattle

LEMMA HostEnterNodeType ==
  ASSUME TypeInv, NEW n \in Node, HostEnterNode(n)
  PROVE  TypeInv'
<1> DEFINE ms == <<[type |-> "ENTERNODE", from |-> Host, seed |-> n]>>
<1>1. ms \in Seq(Message)
  BY HostIsPeer, OneFits DEF Message
<1>2. inq' \in [Peer -> Seq(Message)] /\ up' \in [Client -> Seq(Message)]
  <2>1. Transmit(Host, inq, ms)
    BY DEF HostEnterNode
  <2> HIDE DEF ms
  <2>2. inq \in [Peer -> Seq(Message)] /\ TypeOK
    BY DEF TypeInv, TypeOK
  <2> QED
    BY <1>1, <2>1, <2>2, HostIsPeer, TransmitType
<1>3. route' \in Seq(Node)
  BY DEF HostEnterNode, TypeInv, TypeOK
<1>4. EnterNode(Host, n) /\ phase[Host] = "map" /\ queued' = queued
  BY DEF HostEnterNode
<1>5. /\ battles' \in [Peer -> Tracker]
      /\ sentLog' \in [Peer -> Seq(Action)]
      /\ phase' \in [Peer -> {"map", "boundary", "turn"}]
      /\ node' \in [Peer -> Node \cup {NoBattle}]
      /\ clock' \in [Peer -> Nat]
      /\ InBattle'
  BY <1>4, HostIsPeer, EnterNodeType
<1>6. TypeOK'
  BY <1>2, <1>3, <1>5 DEF HostEnterNode, TypeInv, TypeOK, rosterVars, hashVars
<1> QED
  BY <1>5, <1>6 DEF TypeInv

LEMMA FollowNodeType ==
  ASSUME TypeInv, NEW c \in Client, FollowNode(c)
  PROVE  TypeInv'
<1>1. Head(nodeQ[c]) \in Node /\ Tail(nodeQ[c]) \in Seq(Node)
  BY HeadTailProperties DEF FollowNode, TypeInv, TypeOK
<1>2. EnterNode(c, Head(nodeQ[c])) /\ phase[c] = "map" /\ queued' = queued /\ c \in Peer
  BY HostIsPeer DEF FollowNode
<1>3. /\ battles' \in [Peer -> Tracker]
      /\ sentLog' \in [Peer -> Seq(Action)]
      /\ phase' \in [Peer -> {"map", "boundary", "turn"}]
      /\ node' \in [Peer -> Node \cup {NoBattle}]
      /\ clock' \in [Peer -> Nat]
      /\ InBattle'
  BY <1>1, <1>2, EnterNodeType
<1>4. nodeQ' \in [Client -> Seq(Node)]
  BY <1>1 DEF FollowNode, TypeInv, TypeOK
<1>5. TypeOK'
  BY <1>3, <1>4 DEF FollowNode, TypeInv, TypeOK, rosterVars, hashVars, netVars
<1> QED
  BY <1>3, <1>5 DEF TypeInv

LEMMA LinkReceiveType ==
  ASSUME TypeInv, NEW c \in Client, LinkReceive(c)
  PROVE  TypeInv'
<1>1. Head(up[c]) \in Message /\ Tail(up[c]) \in Seq(Message)
  BY HeadTailProperties DEF LinkReceive, TypeInv, TypeOK
<1>2. up' \in [Client -> Seq(Message)]
  BY <1>1 DEF LinkReceive, TypeInv, TypeOK
<1>3. inq' \in [Peer -> Seq(Message)]
  BY <1>1, AppendFits DEF LinkReceive, TypeInv, TypeOK
<1>4. TypeOK'
  BY <1>2, <1>3 DEF LinkReceive, TypeInv, TypeOK, gameVars, rosterVars, hashVars, actionVars
<1> QED
  BY <1>4 DEF LinkReceive, TypeInv, InBattle, gameVars

(* The handlers of lockstep_pump: m is the oldest message of p's queue.    *)
LEMMA PumpedMessage ==
  ASSUME TypeOK, NEW p \in Peer, NEW m, Polls(p, m)
  PROVE  /\ m \in Message /\ Rest(p) \in [Peer -> Seq(Message)]
         /\ \A ms \in Seq(Message) :
              Transmit(p, Rest(p), ms) =>
                inq' \in [Peer -> Seq(Message)] /\ up' \in [Client -> Seq(Message)]
<1>1. m \in Message /\ Rest(p) \in [Peer -> Seq(Message)]
  BY RestType DEF Polls
<1> QED
  BY <1>1, TransmitType

LEMMA MessageParts ==
  ASSUME NEW m \in Message
  PROVE  /\ m.from \in Peer
         /\ m.type = "ENTERNODE" => m.seed \in Node
         /\ m.type = "CONTROL" => m.control \in Control
         /\ m.type = "ACTION" => m.action \in Action
         /\ m.type = "HASH" => m.hash \in Hash
BY DEF Message

LEMMA OnEnterNodeType ==
  ASSUME TypeInv, NEW p \in Peer, NEW m, Polls(p, m), OnEnterNode(p, m)
  PROVE  TypeInv'
<1>1. inq' \in [Peer -> Seq(Message)] /\ up' \in [Client -> Seq(Message)]
  BY PumpedMessage, EmptyFits DEF OnEnterNode, TypeInv
<1>2. m.seed \in Node
  BY PumpedMessage, MessageParts DEF OnEnterNode, TypeInv
<1>3. nodeQ' \in [Client -> Seq(Node)]
  BY <1>2, AppendFits DEF OnEnterNode, TypeInv, TypeOK
<1>4. TypeOK'
  BY <1>1, <1>3 DEF OnEnterNode, TypeInv, TypeOK, gameVars, rosterVars, hashVars, actionVars
<1> QED
  BY <1>4 DEF OnEnterNode, TypeInv, InBattle, gameVars

LEMMA OnControlType ==
  ASSUME TypeInv, NEW p \in Peer, NEW m, Polls(p, m), OnControl(p, m)
  PROVE  TypeInv'
<1> DEFINE stale == Stale(p, m.control.battle)
           ctl == IF stale THEN control[p]
                  ELSE [control[p] EXCEPT ![m.from] = m.control]
           checks == /\ ~stale /\ ~controlChecked[p] /\ roster[p] # NoBattle
                     /\ AllReported(ctl, battles[p].current)
           bad == checks /\ ~SplitAgrees(ctl)
<1>1. /\ control' = [control EXCEPT ![p] = ctl]
      /\ controlChecked' = [controlChecked EXCEPT ![p] = @ \/ checks]
      /\ halted' = [halted EXCEPT ![p] = @ \/ bad]
      /\ Transmit(p, Rest(p), HaltIf(p, bad))
      /\ checks \in BOOLEAN /\ bad \in BOOLEAN
      /\ ctl = control[p] \/ ctl = [control[p] EXCEPT ![m.from] = m.control]
  BY DEF OnControl
<1> HIDE DEF stale, ctl, checks, bad
<1>2. m.from \in Peer /\ m.control \in Control
  BY PumpedMessage, MessageParts DEF OnControl, TypeInv
<1>3. inq' \in [Peer -> Seq(Message)] /\ up' \in [Client -> Seq(Message)]
  BY <1>1, PumpedMessage, HaltType DEF TypeInv
<1>4. control' \in [Peer -> [Peer -> Control]]
  <2>1. control[p] \in [Peer -> Control]
    BY DEF TypeInv, TypeOK
  <2>2. ctl \in [Peer -> Control]
    BY <1>1, <1>2, <2>1
  <2> QED
    BY <1>1, <2>2 DEF TypeInv, TypeOK
<1>5. controlChecked' \in [Peer -> BOOLEAN] /\ halted' \in [Peer -> BOOLEAN]
  BY <1>1 DEF TypeInv, TypeOK
<1>6. TypeOK'
  BY <1>3, <1>4, <1>5 DEF OnControl, TypeInv, TypeOK, gameVars, hashVars, actionVars
<1> QED
  BY <1>6 DEF OnControl, TypeInv, InBattle, gameVars

LEMMA OnActionType ==
  ASSUME TypeInv, NEW p \in Peer, NEW m, Polls(p, m), OnAction(p, m)
  PROVE  TypeInv'
<1> DEFINE a == m.action
<1>1. a \in Action /\ a.battle \in Node /\ a.cat \in Human
  BY PumpedMessage, MessageParts DEF OnAction, TypeInv, Action
<1>2. inq' \in [Peer -> Seq(Message)] /\ up' \in [Client -> Seq(Message)]
  BY PumpedMessage, EmptyFits DEF OnAction, TypeInv
<1>3. sentLog' \in [Peer -> Seq(Action)]
  <2>1. Logged(p, a) \in Seq(Action)
    BY <1>1, AppendFits DEF Logged, TypeInv, TypeOK
  <2>2. sentLog' = sentLog \/ sentLog' = [sentLog EXCEPT ![p] = Logged(p, a)]
    BY DEF OnAction
  <2> QED
    BY <2>1, <2>2 DEF TypeInv, TypeOK
<1>4. pending' \in [Peer -> [Node -> [Human -> Seq(Action)]]]
  <2>1. pending' = pending \/ pending' = [pending EXCEPT ![p][a.battle][a.cat] = Append(@, a)]
    BY DEF OnAction
  <2>2. Append(pending[p][a.battle][a.cat], a) \in Seq(Action)
    BY <1>1, AppendFits DEF TypeInv, TypeOK
  <2>3. pending \in [Peer -> [Node -> [Human -> Seq(Action)]]]
    BY DEF TypeInv, TypeOK
  <2> HIDE DEF a
  <2>4. [pending EXCEPT ![p][a.battle][a.cat] = Append(@, a)]
          \in [Peer -> [Node -> [Human -> Seq(Action)]]]
    BY <1>1, <2>2, <2>3, ExceptThree
  <2> QED
    BY <2>1, <2>3, <2>4
<1>5. TypeOK'
  BY <1>2, <1>3, <1>4 DEF OnAction, TypeInv, TypeOK, gameVars, rosterVars, hashVars
<1> QED
  BY <1>5 DEF OnAction, TypeInv, InBattle, gameVars

LEMMA OnHashType ==
  ASSUME TypeInv, NEW p \in Peer, NEW m, Polls(p, m), OnHash(p, m)
  PROVE  TypeInv'
<1> DEFINE h == m.hash
<1>1. m.from \in Peer /\ h \in Hash
  BY PumpedMessage, MessageParts DEF OnHash, TypeInv
<1>2. PICK bad \in BOOLEAN :
        /\ halted' = [halted EXCEPT ![p] = @ \/ bad]
        /\ Transmit(p, Rest(p), HaltIf(p, bad))
  BY BoundsAssumption DEF OnHash
<1>3. inq' \in [Peer -> Seq(Message)] /\ up' \in [Client -> Seq(Message)]
  BY <1>2, PumpedMessage, HaltType DEF TypeInv
<1>4. peerHash' \in [Peer -> [Peer -> SUBSET Hash]]
  <2>1. \/ peerHash' = peerHash
        \/ peerHash' = [peerHash EXCEPT ![p][m.from] = PushRefusing(@, h)]
    BY DEF OnHash
  <2>2. peerHash \in [Peer -> [Peer -> SUBSET Hash]]
    BY DEF TypeInv, TypeOK
  <2>3. PushRefusing(peerHash[p][m.from], h) \in SUBSET Hash
    <3>1. peerHash[p][m.from] \in SUBSET Hash
      BY <1>1, <2>2
    <3> QED
      BY <1>1, <3>1, RingType
  <2>4. [peerHash EXCEPT ![p][m.from] = PushRefusing(@, h)] \in [Peer -> [Peer -> SUBSET Hash]]
    <3> DEFINE e == PushRefusing(peerHash[p][m.from], h)
    <3> HIDE DEF e, h
    <3>1. [peerHash EXCEPT ![p][m.from] = e] \in [Peer -> [Peer -> SUBSET Hash]]
      BY <1>1, <2>2, <2>3, ExceptTwo DEF e
    <3> QED
      BY <3>1 DEF e
  <2> QED
    BY <2>1, <2>2, <2>4
<1>5. halted' \in [Peer -> BOOLEAN]
  BY <1>2 DEF TypeInv, TypeOK
<1>6. TypeOK'
  BY <1>3, <1>4, <1>5 DEF OnHash, TypeInv, TypeOK, gameVars, rosterVars, actionVars
<1> QED
  BY <1>6 DEF OnHash, TypeInv, InBattle, gameVars

LEMMA OnHaltType ==
  ASSUME TypeInv, NEW p \in Peer, NEW m, Polls(p, m), OnHalt(p, m)
  PROVE  TypeInv'
<1>1. inq' \in [Peer -> Seq(Message)] /\ up' \in [Client -> Seq(Message)]
  BY PumpedMessage, EmptyFits DEF OnHalt, TypeInv
<1>2. TypeOK'
  BY <1>1 DEF OnHalt, TypeInv, TypeOK, gameVars, rosterVars, hashVars, actionVars
<1> QED
  BY <1>2 DEF OnHalt, TypeInv, InBattle, gameVars

(* Turn boundaries.                                                        *)
LEMMA BeginTurnType ==
  ASSUME TypeInv, NEW p \in Peer, phase[p] = "boundary", BeginTurn(p), battles' = battles
  PROVE  /\ phase' \in [Peer -> {"map", "boundary", "turn"}]
         /\ clock' \in [Peer -> Nat]
         /\ InBattle'
<1>1. phase' = [phase EXCEPT ![p] = "turn"] /\ clock' = [clock EXCEPT ![p] = @ + 1]
  BY DEF BeginTurn
<1>2. phase' \in [Peer -> {"map", "boundary", "turn"}]
  BY <1>1 DEF TypeInv, TypeOK
<1>3. clock' \in [Peer -> Nat]
  BY <1>1 DEF TypeInv, TypeOK
<1>4. InBattle'
  BY <1>1 DEF BeginTurn, TypeInv, TypeOK, InBattle
<1> QED
  BY <1>2, <1>3, <1>4

LEMMA TakeRosterType ==
  ASSUME TypeInv, NEW p \in Peer, TakeRoster(p)
  PROVE  TypeInv'
<1> DEFINE fresh == roster[p] # NoBattle
           drops(id) == fresh /\ Stale(p, id)
           mine == [battle |-> battles[p].current, cats |-> Claims(p)]
           ctl == [q \in Peer |-> IF q = p THEN mine
                                  ELSE IF drops(control[p][q].battle) THEN NoControl
                                  ELSE control[p][q]]
           checks == AllReported(ctl, battles[p].current)
           bad == checks /\ ~SplitAgrees(ctl)
           stopped == halted[p] \/ bad
           t == IF fresh THEN 0 ELSE turn[p]
           own == IF fresh THEN {} ELSE myHash[p]
           held == [q \in Peer |-> {g \in peerHash[p][q] : ~drops(g.battle)}]
           differs == ~stopped /\ Mismatch(p, BuildHash(p, t), held)
           said == <<[type |-> "CONTROL", from |-> p, control |-> mine]>>
           ms == said \o HaltIf(p, bad) \o HashMessages(p, t, held, stopped)
           kept == IF fresh THEN Purged(p) ELSE pending[p]
<1>1. /\ phase[p] = "boundary"
      /\ roster' = [roster EXCEPT ![p] = node[p]]
      /\ joined' = [joined EXCEPT ![p] = @ \cup {node[p]}]
      /\ control' = [control EXCEPT ![p] = ctl]
      /\ controlChecked' = [controlChecked EXCEPT ![p] = checks]
      /\ halted' = [halted EXCEPT ![p] = @ \/ bad \/ differs]
      /\ outstanding' = [outstanding EXCEPT ![p] = @ /\ ~fresh]
      /\ sentLog' = [sentLog EXCEPT ![p] = IF fresh THEN <<>> ELSE @]
      /\ pending' = [pending EXCEPT ![p] = kept]
      /\ HashTurn(p, t, own, held, stopped)
      /\ Transmit(p, inq, ms)
      /\ BeginTurn(p)
      /\ UNCHANGED <<battles, table, nodeQ>>
  BY DEF TakeRoster
<1>2. node[p] \in Node /\ battles[p].current = node[p]
  BY <1>1 DEF TypeInv, InBattle
<1>3. mine \in Control
  BY <1>2 DEF Control, Claims
<1>4. ctl \in [Peer -> Control]
  <2>1. \A q \in Peer : control[p][q] \in Control
    BY DEF TypeInv, TypeOK
  <2>2. NoControl \in Control
    BY DEF NoControl, Control
  <2> HIDE DEF mine, drops
  <2> QED
    BY <1>3, <2>1, <2>2
<1>5. /\ checks \in BOOLEAN /\ bad \in BOOLEAN /\ stopped \in BOOLEAN /\ fresh \in BOOLEAN
      /\ differs \in BOOLEAN
  BY DEF AllReported, TypeInv, TypeOK
<1>6. t \in Nat /\ own \in SUBSET Hash
  BY DEF TypeInv, TypeOK
<1>7. held \in [Peer -> SUBSET Hash]
  <2>1. \A q \in Peer : peerHash[p][q] \in SUBSET Hash
    BY DEF TypeInv, TypeOK
  <2> HIDE DEF drops
  <2> QED
    BY <2>1
<1>8. kept \in [Node -> [Human -> Seq(Action)]]
  <2>1. \A n \in Node : pending[p][n] \in [Human -> Seq(Action)]
    BY DEF TypeInv, TypeOK
  <2>2. [c \in Human |-> <<>>] \in [Human -> Seq(Action)]
    BY EmptyFits
  <2> QED
    BY <2>1, <2>2 DEF Purged, TypeInv, TypeOK
<1>9. said \in Seq(Message)
  <2>1. [type |-> "CONTROL", from |-> p, control |-> mine] \in Message
    BY <1>3 DEF Message
  <2> QED
    BY <2>1, OneFits
<1> HIDE DEF fresh, drops, mine, ctl, checks, bad, stopped, t, own, held, differs, said, kept
<1>10. /\ turn' \in [Peer -> Nat]
       /\ myHash' \in [Peer -> SUBSET Hash]
       /\ peerHash' \in [Peer -> [Peer -> SUBSET Hash]]
       /\ HashMessages(p, t, held, stopped) \in Seq(Message)
  <2>1. TypeOK /\ battles[p].current \in Node
    BY <1>2 DEF TypeInv
  <2>2. HashTurn(p, t, own, held, stopped)
    BY <1>1
  <2> QED
    BY <1>2, <1>5, <1>6, <1>7, <2>1, <2>2, HashTurnType
<1>11. inq' \in [Peer -> Seq(Message)] /\ up' \in [Client -> Seq(Message)]
  <2>1. HaltIf(p, bad) \in Seq(Message)
    BY <1>5, HaltType
  <2>2. ms \in Seq(Message)
    BY <1>9, <1>10, <2>1, ConcatProperties
  <2>3. inq \in [Peer -> Seq(Message)] /\ TypeOK
    BY DEF TypeInv, TypeOK
  <2> HIDE DEF ms
  <2> QED
    BY <1>1, <2>2, <2>3, TransmitType
<1>12. roster' \in [Peer -> Node \cup {NoBattle}] /\ joined' \in [Peer -> SUBSET Node]
  BY <1>1, <1>2 DEF TypeInv, TypeOK
<1>13. control' \in [Peer -> [Peer -> Control]]
  BY <1>1, <1>4 DEF TypeInv, TypeOK
<1>14. controlChecked' \in [Peer -> BOOLEAN] /\ halted' \in [Peer -> BOOLEAN]
  BY <1>1, <1>5 DEF TypeInv, TypeOK
<1>15. outstanding' \in [Peer -> BOOLEAN]
  BY <1>1, <1>5 DEF TypeInv, TypeOK
<1>16. sentLog' \in [Peer -> Seq(Action)]
  BY <1>1, EmptyFits DEF TypeInv, TypeOK
<1>17. pending' \in [Peer -> [Node -> [Human -> Seq(Action)]]]
  BY <1>1, <1>8 DEF TypeInv, TypeOK
<1>18. /\ phase' \in [Peer -> {"map", "boundary", "turn"}]
       /\ clock' \in [Peer -> Nat]
       /\ InBattle'
  BY <1>1, BeginTurnType
<1>19. TypeOK'
  BY <1>1, <1>10, <1>11, <1>12, <1>13, <1>14, <1>15, <1>16, <1>17, <1>18
     DEF BeginTurn, TypeInv, TypeOK
<1> QED
  BY <1>18, <1>19 DEF TypeInv

LEMMA NextTurnType ==
  ASSUME TypeInv, NEW p \in Peer, NextTurn(p)
  PROVE  TypeInv'
<1>1. node[p] \in Node /\ battles[p].current \in Node /\ phase[p] = "boundary"
  BY DEF NextTurn, TypeInv, InBattle
<1>2. /\ turn[p] \in Nat /\ myHash[p] \in SUBSET Hash /\ halted[p] \in BOOLEAN
      /\ peerHash[p] \in [Peer -> SUBSET Hash]
  BY DEF TypeInv, TypeOK
<1>3. /\ turn' \in [Peer -> Nat]
      /\ myHash' \in [Peer -> SUBSET Hash]
      /\ peerHash' \in [Peer -> [Peer -> SUBSET Hash]]
      /\ HashMessages(p, turn[p], peerHash[p], halted[p]) \in Seq(Message)
  <2>1. TypeOK /\ HashTurn(p, turn[p], myHash[p], peerHash[p], halted[p])
    BY DEF TypeInv, NextTurn
  <2> QED
    BY <1>1, <1>2, <2>1, HashTurnType
<1>4. inq' \in [Peer -> Seq(Message)] /\ up' \in [Client -> Seq(Message)]
  <2>1. inq \in [Peer -> Seq(Message)] /\ TypeOK
    BY DEF TypeInv, TypeOK
  <2> QED
    BY <1>3, <2>1, TransmitType DEF NextTurn
<1>5. halted' \in [Peer -> BOOLEAN]
  BY DEF NextTurn, TypeInv, TypeOK
<1>6. /\ phase' \in [Peer -> {"map", "boundary", "turn"}]
      /\ clock' \in [Peer -> Nat]
      /\ InBattle'
  BY <1>1, BeginTurnType DEF NextTurn
<1>7. TypeOK'
  BY <1>3, <1>4, <1>5, <1>6 DEF NextTurn, BeginTurn, TypeInv, TypeOK, rosterVars, actionVars
<1> QED
  BY <1>6, <1>7 DEF TypeInv

(* Decisions.                                                              *)
LEMMA ReleaseType ==
  ASSUME TypeInv, NEW p \in Peer, NEW d \in Decision, phase[p] = "turn",
         Release(p, d), battles' = battles
  PROVE  queued' \in [Peer -> Seq(Decision)] /\ InBattle'
<1>1. queued' = [queued EXCEPT ![p] = <<d>>]
  BY DEF Release
<1>2. queued' \in [Peer -> Seq(Decision)]
  BY <1>1, OneFits DEF TypeInv, TypeOK
<1>3. InBattle'
  BY <1>1 DEF Release, TypeInv, TypeOK, InBattle
<1> QED
  BY <1>2, <1>3

LEMMA DecideAIType ==
  ASSUME TypeInv, NEW p \in Peer, DecideAI(p), Actor(p) \in Cat
  PROVE  TypeInv'
<1> DEFINE d == [cat |-> Actor(p), act |-> EndTurn]
<1>1. d \in Decision
  BY DEF Decision, Act
<1>2. Release(p, d) /\ phase[p] = "turn" /\ battles' = battles
  BY DEF DecideAI, Polled
<1>3. queued' \in [Peer -> Seq(Decision)] /\ InBattle'
  BY <1>1, <1>2, ReleaseType
<1>4. TypeOK'
  BY <1>3 DEF DecideAI, Release, TypeInv, TypeOK, rosterVars, hashVars, actionVars, netVars
<1> QED
  BY <1>3, <1>4 DEF TypeInv

LEMMA DecideLocalType ==
  ASSUME TypeInv, NEW p \in Peer, NEW act \in Act, DecideLocal(p, act)
  PROVE  TypeInv'
<1> DEFINE a == [battle |-> battles[p].current, turn |-> turn[p],
                 cat |-> Actor(p), act |-> act]
           d == [cat |-> Actor(p), act |-> act]
           ms == <<[type |-> "ACTION", from |-> p, action |-> a]>>
<1>1. /\ Release(p, d) /\ phase[p] = "turn" /\ battles' = battles
      /\ Actor(p) \in Human /\ Actor(p) \in Cat
  BY CatAssumption DEF DecideLocal, HumanPolled, Polled
<1>2. d \in Decision
  BY <1>1 DEF Decision
<1>3. a \in Action
  BY <1>1 DEF Action, TypeInv, TypeOK, InBattle
<1>4. queued' \in [Peer -> Seq(Decision)] /\ InBattle'
  BY <1>1, <1>2, ReleaseType
<1>5. /\ outstanding' \in [Peer -> BOOLEAN] /\ sentLog' \in [Peer -> Seq(Action)]
      /\ inq' \in [Peer -> Seq(Message)] /\ up' \in [Client -> Seq(Message)]
  <2>1. CASE outstanding[p]
    BY <2>1 DEF DecideLocal, TypeInv, TypeOK, netVars
  <2>2. CASE ~outstanding[p]
    <3>1. /\ sentLog' = [sentLog EXCEPT ![p] = Logged(p, a)]
          /\ outstanding' = [outstanding EXCEPT ![p] = TRUE]
          /\ Transmit(p, inq, ms)
      BY <2>2 DEF DecideLocal
    <3>2. Logged(p, a) \in Seq(Action)
      BY <1>3, AppendFits DEF Logged, TypeInv, TypeOK
    <3>3. ms \in Seq(Message)
      BY <1>3, OneFits DEF Message
    <3> HIDE DEF a, ms
    <3>4. inq' \in [Peer -> Seq(Message)] /\ up' \in [Client -> Seq(Message)]
      <4>1. inq \in [Peer -> Seq(Message)] /\ TypeOK
        BY DEF TypeInv, TypeOK
      <4> QED
        BY <3>1, <3>3, <4>1, TransmitType
    <3>5. outstanding' \in [Peer -> BOOLEAN] /\ sentLog' \in [Peer -> Seq(Action)]
      BY <3>1, <3>2 DEF TypeInv, TypeOK
    <3> QED
      BY <3>4, <3>5
  <2> QED
    BY <2>1, <2>2
<1>6. TypeOK'
  BY <1>4, <1>5 DEF DecideLocal, Release, TypeInv, TypeOK, rosterVars, hashVars
<1> QED
  BY <1>4, <1>6 DEF TypeInv

LEMMA ApplyRemoteType ==
  ASSUME TypeInv, NEW p \in Peer, ApplyRemote(p)
  PROVE  TypeInv'
<1> DEFINE n == battles[p].current
           k == Actor(p)
           d == [cat |-> k, act |-> Head(Offered(p)).act]
<1>1. phase[p] = "turn" /\ battles' = battles /\ k \in Human /\ k \in Cat /\ n \in Node
  BY CatAssumption DEF ApplyRemote, HumanPolled, Polled, TypeInv, InBattle
<1>2. /\ pending[p][n][k] \in Seq(Action) /\ pending[p][n][k] # <<>>
      /\ Offered(p) = pending[p][n][k]
  BY <1>1 DEF ApplyRemote, Offered, TypeInv, TypeOK
<1>3. Head(Offered(p)) \in Action /\ Tail(pending[p][n][k]) \in Seq(Action)
  BY <1>2, HeadTailProperties
<1>4. d \in Decision
  BY <1>1, <1>3 DEF Decision, Action
<1>5. pending' \in [Peer -> [Node -> [Human -> Seq(Action)]]]
  <2>1. pending' = [pending EXCEPT ![p][n][k] = Tail(@)]
    BY DEF ApplyRemote
  <2>2. pending \in [Peer -> [Node -> [Human -> Seq(Action)]]]
    BY DEF TypeInv, TypeOK
  <2> DEFINE rest == Tail(pending[p][n][k])
  <2> HIDE DEF n, k, rest
  <2>3. [pending EXCEPT ![p][n][k] = rest] \in [Peer -> [Node -> [Human -> Seq(Action)]]]
    BY <1>1, <1>3, <2>2, ExceptThree DEF rest
  <2> QED
    BY <2>1, <2>3 DEF rest
<1> HIDE DEF n, k
<1>6. CASE Release(p, d) /\ UNCHANGED <<halted, netVars>>
  <2>1. queued' \in [Peer -> Seq(Decision)] /\ InBattle'
    BY <1>1, <1>4, <1>6, ReleaseType
  <2>2. TypeOK'
    BY <1>5, <1>6, <2>1 DEF ApplyRemote, Release, TypeInv, TypeOK, rosterVars, hashVars, netVars
  <2> QED
    BY <2>1, <2>2 DEF TypeInv
<1>7. CASE /\ halted' = [halted EXCEPT ![p] = TRUE]
           /\ Transmit(p, inq, HaltIf(p, TRUE))
           /\ UNCHANGED gameVars
  <2>1. inq \in [Peer -> Seq(Message)] /\ TypeOK
    BY DEF TypeInv, TypeOK
  <2>2. inq' \in [Peer -> Seq(Message)] /\ up' \in [Client -> Seq(Message)]
    BY <1>7, <2>1, HaltType, TransmitType
  <2>3. TypeOK'
    BY <1>5, <1>7, <2>2 DEF ApplyRemote, TypeInv, TypeOK, gameVars, rosterVars, hashVars
  <2> QED
    BY <1>7, <1>1, <2>3 DEF TypeInv, InBattle, gameVars
<1> QED
  BY <1>6, <1>7 DEF ApplyRemote, k

LEMMA ApplyType ==
  ASSUME TypeInv, NEW p \in Peer, Apply(p)
  PROVE  TypeInv'
<1>1. phase[p] = "turn" /\ node[p] \in Node /\ Head(queued[p]) \in Decision
  BY HeadTailProperties DEF Apply, TypeInv, TypeOK, InBattle
<1>2. hist' \in [Peer -> [Node -> Seq(Decision)]]
  <2>1. hist' = [hist EXCEPT ![p][node[p]] = Append(@, Head(queued[p]))]
    BY DEF Apply
  <2>2. hist \in [Peer -> [Node -> Seq(Decision)]]
    BY DEF TypeInv, TypeOK
  <2> DEFINE e == Append(hist[p][node[p]], Head(queued[p]))
  <2>3. e \in Seq(Decision)
    BY <1>1, <2>2, AppendFits
  <2> HIDE DEF e
  <2>4. [hist EXCEPT ![p][node[p]] = e] \in [Peer -> [Node -> Seq(Decision)]]
    BY <1>1, <2>2, <2>3, ExceptTwo
  <2> QED
    BY <2>1, <2>4 DEF e
<1>3. outstanding' \in [Peer -> BOOLEAN]
  BY DEF Apply, TypeInv, TypeOK
<1>4. queued' \in [Peer -> Seq(Decision)]
  BY EmptyFits DEF Apply, TypeInv, TypeOK
<1>5. phase' \in [Peer -> {"map", "boundary", "turn"}]
  BY DEF Apply, TypeInv, TypeOK
<1>6. InBattle'
  BY <1>1 DEF Apply, TypeInv, TypeOK, InBattle
<1>7. TypeOK'
  BY <1>2, <1>3, <1>4, <1>5 DEF Apply, TypeInv, TypeOK, rosterVars, hashVars, netVars
<1> QED
  BY <1>6, <1>7 DEF TypeInv

LEMMA DivergeType ==
  ASSUME TypeInv, NEW p \in Peer, Diverge(p)
  PROVE  TypeInv'
<1>1. drift' \in [Peer -> BOOLEAN]
  BY DEF Diverge, TypeInv, TypeOK
<1>2. TypeOK'
  BY <1>1 DEF Diverge, TypeInv, TypeOK, rosterVars, hashVars, actionVars, netVars
<1> QED
  BY <1>2 DEF Diverge, TypeInv, InBattle

(* The cat a copy gives its turn to is one of the battle's.                *)
LEMMA ActorIsCat ==
  ASSUME TypeOK, NEW p \in Peer
  PROVE  Actor(p) \in Cat
<1>1. Len(TurnOrder) \in Nat /\ Len(TurnOrder) > 0
  BY CatAssumption, EmptySeq
<1>2. clock[p] - 1 \in Int
  BY DEF TypeOK
<1>3. \A i \in Int, n \in Nat : n > 0 => 1 + (i % n) \in 1 .. n
  OBVIOUS
<1>4. 1 + ((clock[p] - 1) % Len(TurnOrder)) \in 1 .. Len(TurnOrder)
  BY <1>1, <1>2, <1>3
<1> QED
  BY <1>4, CatAssumption, ElementOfSeq DEF Actor

LEMMA TypeInit == Init => TypeInv
<1> SUFFICES ASSUME Init PROVE TypeInv
  OBVIOUS
<1>1. NewTracker \in Tracker
  BY EmptyFits DEF NewTracker, Tracker
<1>2. NoControl \in Control
  BY DEF NoControl, Control
<1>3. TypeOK
  BY <1>1, <1>2, EmptyFits DEF Init, TypeOK
<1> QED
  BY <1>3 DEF Init, TypeInv, InBattle

LEMMA TypeStep == TypeInv /\ [Next]_vars => TypeInv'
<1> SUFFICES ASSUME TypeInv, [Next]_vars PROVE TypeInv'
  OBVIOUS
<1>1. ASSUME NEW n \in Node, HostEnterNode(n) PROVE TypeInv'
  BY <1>1, HostEnterNodeType
<1>2. ASSUME NEW c \in Client, FollowNode(c) \/ LinkReceive(c) PROVE TypeInv'
  BY <1>2, FollowNodeType, LinkReceiveType
<1>3. ASSUME NEW p \in Peer, PumpStep(p) PROVE TypeInv'
  <2>1. Polls(p, Head(inq[p]))
    BY <1>3 DEF PumpStep, Pump
  <2> QED
    BY <1>3, <2>1, OnEnterNodeType, OnControlType, OnActionType, OnHashType, OnHaltType
       DEF PumpStep, Pump
<1>4. ASSUME NEW p \in Peer, Boundary(p) PROVE TypeInv'
  BY <1>4, TakeRosterType, NextTurnType DEF Boundary
<1>5. ASSUME NEW p \in Peer, Decide(p) PROVE TypeInv'
  <2>1. Actor(p) \in Cat
    BY ActorIsCat DEF TypeInv
  <2> QED
    BY <1>5, <2>1, DecideAIType, DecideLocalType, ApplyRemoteType DEF Decide
<1>6. ASSUME NEW p \in Peer, Apply(p) \/ Diverge(p) PROVE TypeInv'
  BY <1>6, ApplyType, DivergeType
<1>7. CASE UNCHANGED vars
  BY <1>7 DEF vars, gameVars, rosterVars, hashVars, actionVars, netVars, TypeInv, TypeOK, InBattle
<1> QED
  BY <1>1, <1>2, <1>3, <1>4, <1>5, <1>6, <1>7 DEF Next

(* Every variable keeps its type, whatever the peers, cats, nodes and      *)
(* queue sizes: no handler stores a message where another kind belongs.    *)
THEOREM TypeCorrect == Spec => []TypeOK
<1>1. TypeInv => TypeOK
  BY DEF TypeInv
<1> QED
  BY <1>1, TypeInit, TypeStep, PTL DEF Spec

-------------------------------------------------------------------------------
(* The join barrier.  GateInv says why a peer may trust the splits it has  *)
(* filed: every CONTROL in flight or on file was sent by a member that had *)
(* taken its roster for that battle, and says what that member's table     *)
(* says; and a check, once passed, was of the battle still on the roster.  *)

Truthful(m) ==
  m.type = "CONTROL" =>
    m.control.battle \in joined[m.from] /\ m.control.cats = Claims(m.from)

Inbox(p) == {m \in Message : m.from # p /\ Truthful(m)}
Outbox(c) == {m \in Message : m.from = c /\ Truthful(m)}

Announced ==
  /\ \A p \in Peer : inq[p] \in Seq(Inbox(p))
  /\ \A c \in Client : up[c] \in Seq(Outbox(c))

Filed ==
  \A p, q \in Peer :
    control[p][q].battle # NoBattle =>
      control[p][q].battle \in joined[q] /\ control[p][q].cats = Claims(q)

OwnRoster ==
  \A p \in Peer :
    roster[p] # NoBattle => roster[p] \in joined[p] /\ control[p][p].battle = roster[p]

InStep ==
  \A p \in Peer : phase[p] = "turn" /\ ~halted[p] => roster[p] = node[p]

Checked ==
  \A p \in Peer :
    controlChecked[p] => roster[p] # NoBattle /\ \A q \in Peer : roster[p] \in joined[q]

GateInv == Announced /\ Filed /\ OwnRoster /\ InStep /\ Checked /\ SoleDriver

Grows == table' = table /\ \A q \in Peer : joined[q] \subseteq joined'[q]

LEMMA BoxesGrow ==
  ASSUME Grows, NEW p \in Peer
  PROVE  Inbox(p) \subseteq Inbox(p)' /\ Outbox(p) \subseteq Outbox(p)'
<1>1. ASSUME NEW m \in Message, Truthful(m) PROVE Truthful(m)'
  <2>1. m.from \in Peer
    BY MessageParts
  <2> QED
    BY <1>1, <2>1 DEF Truthful, Grows, Claims
<1> QED
  BY <1>1 DEF Inbox, Outbox

(* Sending only what is true keeps the links truthful.                     *)
LEMMA SendKeeps ==
  ASSUME TypeOK, Announced, Grows, NEW p \in Peer, NEW box, NEW ms,
         \A q \in Peer : box[q] \in Seq(Inbox(q)'),
         ms \in Seq(Outbox(p)'), Transmit(p, box, ms)
  PROVE  Announced'
<1> DEFINE In == [q \in Peer |-> Inbox(q)']
           Out == [c \in Client |-> Outbox(c)']
<1>1. \A c \in Client : up[c] \in Seq(Out[c])
  <2> SUFFICES ASSUME NEW c \in Client PROVE up[c] \in Seq(Outbox(c)')
    OBVIOUS
  <2>1. up[c] \in Seq(Outbox(c)) /\ Outbox(c) \subseteq Outbox(c)'
    BY HostIsPeer, BoxesGrow DEF Announced
  <2> QED
    BY <2>1, SeqMonotonic
<1>2. p = Host => \A q \in Client : ms \in Seq(In[q])
  <2> SUFFICES ASSUME p = Host, NEW q \in Client PROVE ms \in Seq(Inbox(q)')
    BY DEF Peer
  <2>1. Outbox(p)' \subseteq Inbox(q)'
    BY HostIsPeer DEF Outbox, Inbox
  <2> QED
    BY <2>1, SeqMonotonic
<1>3. p # Host => ms \in Seq(Out[p])
  BY DEF Peer
<1>4. \A q \in Peer : box[q] \in Seq(In[q])
  OBVIOUS
<1>5. DOMAIN up = Client
  BY DEF TypeOK
<1> HIDE DEF In, Out
<1>6. /\ \A q \in Peer : inq'[q] \in Seq(In[q])
      /\ \A c \in Client : up'[c] \in Seq(Out[c])
  BY <1>1, <1>2, <1>3, <1>4, <1>5, TransmitKeeps
<1> QED
  BY <1>6 DEF In, Out, Announced

(* ... and so does taking a message off a queue.                           *)
LEMMA BoxKeeps ==
  ASSUME TypeOK, Announced, Grows
  PROVE  \A q \in Peer : inq[q] \in Seq(Inbox(q)')
<1> SUFFICES ASSUME NEW q \in Peer PROVE inq[q] \in Seq(Inbox(q)')
  OBVIOUS
<1>1. inq[q] \in Seq(Inbox(q)) /\ Inbox(q) \subseteq Inbox(q)'
  BY BoxesGrow DEF Announced
<1> QED
  BY <1>1, SeqMonotonic

LEMMA PumpKeeps ==
  ASSUME TypeOK, Announced, Grows, NEW p \in Peer, NEW m, Polls(p, m)
  PROVE  /\ m \in Inbox(p)
         /\ \A q \in Peer : Rest(p)[q] \in Seq(Inbox(q)')
<1>1. m \in Inbox(p) /\ Tail(inq[p]) \in Seq(Inbox(p))
  BY HeadTailProperties DEF Announced, Polls
<1>2. ASSUME NEW q \in Peer PROVE Rest(p)[q] \in Seq(Inbox(q)')
  <2>1. CASE q = p
    <3>1. Inbox(p) \subseteq Inbox(p)'
      BY BoxesGrow
    <3>2. Tail(inq[p]) \in Seq(Inbox(p)')
      BY <1>1, <3>1, SeqMonotonic
    <3> QED
      BY <2>1, <3>2 DEF Rest, TypeOK
  <2>2. CASE q # p
    <3>1. inq[q] \in Seq(Inbox(q)')
      BY BoxKeeps
    <3> QED
      BY <2>2, <3>1, <1>2 DEF Rest, TypeOK
  <2> QED
    BY <2>1, <2>2
<1> QED
  BY <1>1, <1>2

(* Everything but CONTROL may be sent at any time.                         *)
LEMMA OtherMessages ==
  ASSUME NEW p \in Peer, NEW m \in Message, m.type # "CONTROL", m.from = p
  PROVE  m \in Outbox(p)'
BY DEF Outbox, Truthful

LEMMA HaltSaid ==
  ASSUME NEW p \in Peer, NEW bad \in BOOLEAN
  PROVE  HaltIf(p, bad) \in Seq(Outbox(p)')
<1>1. Halt(p) \in Message /\ Halt(p).type = "HALT" /\ Halt(p).from = p
  BY DEF Halt, Message
<1>2. Halt(p) \in Outbox(p)'
  BY <1>1, OtherMessages
<1> QED
  BY <1>2, EmptyFits, OneFits DEF HaltIf

LEMMA HashSaid ==
  ASSUME TypeOK, NEW p \in Peer, NEW t \in Nat, NEW held, NEW stopped,
         node[p] \in Node, battles[p].current \in Node
  PROVE  HashMessages(p, t, held, stopped) \in Seq(Outbox(p)')
<1> DEFINE h == BuildHash(p, t)
           m == [type |-> "HASH", from |-> p, hash |-> h]
<1>1. h \in Hash
  BY HashType
<1>2. m \in Message /\ m.type = "HASH" /\ m.from = p
  BY <1>1 DEF Message
<1>3. Mismatch(p, h, held) \in BOOLEAN
  BY BoundsAssumption DEF Mismatch
<1> HIDE DEF m, h
<1>4. <<m>> \in Seq(Outbox(p)') /\ HaltIf(p, Mismatch(p, h, held)) \in Seq(Outbox(p)')
  BY <1>2, <1>3, OtherMessages, OneFits, HaltSaid
<1>5. <<m>> \o HaltIf(p, Mismatch(p, h, held)) \in Seq(Outbox(p)')
  BY <1>4, ConcatProperties
<1> QED
  BY <1>5, EmptyFits DEF HashMessages, h, m

(* A step that leaves the rosters and the splits alone has only the links  *)
(* and the pace of the copies to account for.                              *)
LEMMA RosterFrame ==
  ASSUME GateInv, UNCHANGED rosterVars, \A p \in Peer : halted[p] => halted'[p]
  PROVE  Grows /\ Filed' /\ OwnRoster' /\ Checked' /\ SoleDriver'
<1>1. /\ roster' = roster /\ joined' = joined /\ table' = table
      /\ control' = control /\ controlChecked' = controlChecked
  BY DEF rosterVars
<1>2. Grows
  BY <1>1 DEF Grows
<1>3. Filed' /\ OwnRoster' /\ Checked'
  BY <1>1 DEF GateInv, Filed, OwnRoster, Checked, Claims
<1>4. SoleDriver'
  BY <1>1 DEF GateInv, SoleDriver, Claims
<1> QED
  BY <1>2, <1>3, <1>4

(* A step of this kind that also sends nothing new.                        *)
LEMMA SilentFrame ==
  ASSUME TypeOK, GateInv, UNCHANGED <<rosterVars, netVars>>,
         \A p \in Peer : halted[p] => halted'[p], InStep'
  PROVE  GateInv'
<1>1. Grows /\ Filed' /\ OwnRoster' /\ Checked' /\ SoleDriver'
  BY RosterFrame
<1>2. Announced'
  <2>1. inq' = inq /\ up' = up
    BY DEF netVars
  <2>2. \A q \in Peer : inq[q] \in Seq(Inbox(q)')
    BY <1>1, BoxKeeps DEF GateInv
  <2>3. ASSUME NEW c \in Client PROVE up[c] \in Seq(Outbox(c)')
    <3>1. up[c] \in Seq(Outbox(c)) /\ Outbox(c) \subseteq Outbox(c)'
      BY <1>1, HostIsPeer, BoxesGrow DEF GateInv, Announced
    <3> QED
      BY <3>1, SeqMonotonic
  <2> QED
    BY <2>1, <2>2, <2>3 DEF Announced
<1> QED
  BY <1>1, <1>2 DEF GateInv

(* A step of this kind that sends ms.                                      *)
LEMMA SpokenFrame ==
  ASSUME TypeOK, GateInv, UNCHANGED rosterVars,
         \A p \in Peer : halted[p] => halted'[p], InStep',
         NEW p \in Peer, NEW box, NEW ms, ms \in Seq(Outbox(p)'), Transmit(p, box, ms),
         \A q \in Peer : box[q] \in Seq(Inbox(q)')
  PROVE  GateInv'
<1>1. Grows /\ Filed' /\ OwnRoster' /\ Checked' /\ SoleDriver'
  BY RosterFrame
<1>2. Announced'
  BY <1>1, SendKeeps DEF GateInv
<1> QED
  BY <1>1, <1>2 DEF GateInv

LEMMA GateHostEnterNode ==
  ASSUME TypeInv, GateInv, NEW n \in Node, HostEnterNode(n)
  PROVE  GateInv'
<1> DEFINE m == [type |-> "ENTERNODE", from |-> Host, seed |-> n]
<1>1. UNCHANGED rosterVars /\ halted' = halted /\ Transmit(Host, inq, <<m>>)
  BY DEF HostEnterNode
<1>2. InStep'
  BY DEF HostEnterNode, EnterNode, rosterVars, GateInv, InStep, TypeInv, TypeOK
<1>3. m \in Message /\ m.type # "CONTROL" /\ m.from = Host
  BY HostIsPeer DEF Message
<1> HIDE DEF m
<1>4. <<m>> \in Seq(Outbox(Host)')
  BY <1>3, HostIsPeer, OtherMessages, OneFits
<1>5. Grows
  BY <1>1, RosterFrame
<1>6. \A q \in Peer : inq[q] \in Seq(Inbox(q)')
  BY <1>5, BoxKeeps DEF GateInv, TypeInv
<1> QED
  BY <1>1, <1>2, <1>4, <1>6, HostIsPeer, SpokenFrame DEF TypeInv

LEMMA GateFollowNode ==
  ASSUME TypeInv, GateInv, NEW c \in Client, FollowNode(c)
  PROVE  GateInv'
<1>1. InStep'
  BY HostIsPeer DEF FollowNode, EnterNode, rosterVars, GateInv, InStep, TypeInv, TypeOK
<1> QED
  BY <1>1, SilentFrame DEF FollowNode, TypeInv

LEMMA GateLinkReceive ==
  ASSUME TypeInv, GateInv, NEW c \in Client, LinkReceive(c)
  PROVE  GateInv'
<1> DEFINE m == Head(up[c])
<1>1. UNCHANGED rosterVars /\ halted' = halted /\ phase' = phase /\ node' = node
  BY DEF LinkReceive, gameVars
<1>2. Grows /\ Filed' /\ OwnRoster' /\ Checked' /\ SoleDriver'
  BY <1>1, RosterFrame
<1>3. InStep'
  BY <1>1 DEF GateInv, InStep, rosterVars
<1>4. c \in Peer /\ c # Host
  BY HostIsPeer
<1>5. m \in Outbox(c) /\ Tail(up[c]) \in Seq(Outbox(c))
  BY HeadTailProperties DEF LinkReceive, GateInv, Announced
<1>6. Outbox(c) \subseteq Outbox(c)'
  BY <1>2, <1>4, BoxesGrow
<1>7. ASSUME NEW q \in Peer PROVE inq'[q] \in Seq(Inbox(q)')
  <2>1. inq[q] \in Seq(Inbox(q)')
    BY <1>2, BoxKeeps DEF GateInv, TypeInv
  <2>2. q # c => m \in Inbox(q)'
    BY <1>5, <1>6 DEF Outbox, Inbox
  <2>3. inq'[q] = inq[q] \/ (q # c /\ inq'[q] = Append(inq[q], m))
    BY <1>4, <1>7 DEF LinkReceive
  <2> QED
    BY <2>1, <2>2, <2>3, AppendFits
<1>8. ASSUME NEW d \in Client PROVE up'[d] \in Seq(Outbox(d)')
  <2>1. up[d] \in Seq(Outbox(d)) /\ Outbox(d) \subseteq Outbox(d)'
    BY <1>2, HostIsPeer, BoxesGrow DEF GateInv, Announced
  <2>2. up'[d] \in Seq(Outbox(d))
    BY <1>5, <2>1 DEF LinkReceive, TypeInv, TypeOK
  <2> QED
    BY <2>1, <2>2, SeqMonotonic
<1>9. Announced'
  BY <1>7, <1>8 DEF Announced
<1> QED
  BY <1>2, <1>3, <1>9 DEF GateInv

(* The handlers that file no split.                                        *)
LEMMA GateHandler ==
  ASSUME TypeInv, GateInv, NEW p \in Peer, NEW m, Polls(p, m),
         OnEnterNode(p, m) \/ OnAction(p, m) \/ OnHash(p, m) \/ OnHalt(p, m)
  PROVE  GateInv'
<1>1. /\ UNCHANGED rosterVars /\ phase' = phase /\ node' = node
      /\ \A q \in Peer : halted[q] => halted'[q]
  BY DEF OnEnterNode, OnAction, OnHash, OnHalt, gameVars, actionVars, hashVars, TypeInv, TypeOK
<1>2. InStep'
  BY <1>1 DEF GateInv, InStep, rosterVars
<1>3. PICK ms \in Seq(Outbox(p)') : Transmit(p, Rest(p), ms)
  <2>1. <<>> \in Seq(Outbox(p)')
    BY EmptyFits
  <2>2. CASE OnHash(p, m)
    <3>1. PICK bad \in BOOLEAN : Transmit(p, Rest(p), HaltIf(p, bad))
      BY <2>2, BoundsAssumption DEF OnHash
    <3> QED
      BY <3>1, HaltSaid
  <2> QED
    BY <2>1, <2>2 DEF OnEnterNode, OnAction, OnHalt
<1>4. Grows
  BY <1>1, RosterFrame
<1>5. \A q \in Peer : Rest(p)[q] \in Seq(Inbox(q)')
  BY <1>4, PumpKeeps DEF GateInv, TypeInv
<1> QED
  BY <1>1, <1>2, <1>3, <1>5, SpokenFrame DEF TypeInv

LEMMA GateNextTurn ==
  ASSUME TypeInv, GateInv, NEW p \in Peer, NextTurn(p)
  PROVE  GateInv'
<1> DEFINE ms == HashMessages(p, turn[p], peerHash[p], halted[p])
<1>1. /\ UNCHANGED rosterVars /\ \A q \in Peer : halted[q] => halted'[q]
      /\ Transmit(p, inq, ms)
  BY DEF NextTurn, TypeInv, TypeOK
<1>2. InStep'
  BY DEF NextTurn, BeginTurn, rosterVars, GateInv, InStep, TypeInv, TypeOK
<1>3. node[p] \in Node /\ battles[p].current \in Node /\ turn[p] \in Nat
  BY DEF NextTurn, TypeInv, TypeOK, InBattle
<1>4. ms \in Seq(Outbox(p)')
  BY <1>3, HashSaid DEF TypeInv
<1> HIDE DEF ms
<1>5. Grows
  BY <1>1, RosterFrame
<1>6. \A q \in Peer : inq[q] \in Seq(Inbox(q)')
  BY <1>5, BoxKeeps DEF GateInv, TypeInv
<1> QED
  BY <1>1, <1>2, <1>4, <1>6, SpokenFrame DEF TypeInv

LEMMA GateDecideLocal ==
  ASSUME TypeInv, GateInv, NEW p \in Peer, NEW act \in Act, DecideLocal(p, act)
  PROVE  GateInv'
<1> DEFINE a == [battle |-> battles[p].current, turn |-> turn[p],
                 cat |-> Actor(p), act |-> act]
           m == [type |-> "ACTION", from |-> p, action |-> a]
<1>1. UNCHANGED rosterVars /\ halted' = halted /\ phase' = phase /\ node' = node
  BY DEF DecideLocal, Release
<1>2. InStep'
  BY <1>1 DEF GateInv, InStep, rosterVars
<1>3. CASE outstanding[p]
  BY <1>1, <1>2, <1>3, SilentFrame DEF DecideLocal, TypeInv
<1>4. CASE ~outstanding[p]
  <2>1. a \in Action
    BY DEF DecideLocal, HumanPolled, Polled, Action, TypeInv, TypeOK, InBattle
  <2>2. m \in Message /\ m.type # "CONTROL" /\ m.from = p
    BY <2>1 DEF Message
  <2>3. Transmit(p, inq, <<m>>)
    BY <1>4 DEF DecideLocal
  <2> HIDE DEF a, m
  <2>4. <<m>> \in Seq(Outbox(p)')
    BY <2>2, OtherMessages, OneFits
  <2>5. Grows
    BY <1>1, RosterFrame
  <2>6. \A q \in Peer : inq[q] \in Seq(Inbox(q)')
    BY <2>5, BoxKeeps DEF GateInv, TypeInv
  <2> QED
    BY <1>1, <1>2, <2>3, <2>4, <2>6, SpokenFrame DEF TypeInv
<1> QED
  BY <1>3, <1>4

LEMMA GateApplyRemote ==
  ASSUME TypeInv, GateInv, NEW p \in Peer, ApplyRemote(p)
  PROVE  GateInv'
<1>1. /\ UNCHANGED rosterVars /\ \A q \in Peer : halted[q] => halted'[q]
      /\ phase' = phase /\ node' = node
  BY DEF ApplyRemote, Release, gameVars, TypeInv, TypeOK
<1>2. InStep'
  BY <1>1 DEF GateInv, InStep, rosterVars
<1>3. CASE UNCHANGED <<halted, netVars>>
  BY <1>1, <1>2, <1>3, SilentFrame DEF TypeInv
<1>4. CASE Transmit(p, inq, HaltIf(p, TRUE))
  <2>1. HaltIf(p, TRUE) \in Seq(Outbox(p)')
    BY HaltSaid
  <2>2. Grows
    BY <1>1, RosterFrame
  <2>3. \A q \in Peer : inq[q] \in Seq(Inbox(q)')
    BY <2>2, BoxKeeps DEF GateInv, TypeInv
  <2> QED
    BY <1>1, <1>2, <1>4, <2>1, <2>3, SpokenFrame DEF TypeInv
<1> QED
  BY <1>3, <1>4 DEF ApplyRemote

(* Steps of the copies themselves.                                         *)
LEMMA GateQuiet ==
  ASSUME TypeInv, GateInv, NEW p \in Peer, DecideAI(p) \/ Apply(p) \/ Diverge(p)
  PROVE  GateInv'
<1>1. UNCHANGED <<rosterVars, netVars>> /\ halted' = halted
  BY DEF DecideAI, Apply, Diverge
<1>2. InStep'
  <2>1. \A q \in Peer : phase'[q] = "turn" => phase[q] = "turn"
    BY DEF DecideAI, Apply, Diverge, Release, TypeInv, TypeOK, InBattle
  <2>2. node' = node
    BY DEF DecideAI, Apply, Diverge, Release
  <2> QED
    BY <1>1, <2>1, <2>2 DEF rosterVars, GateInv, InStep
<1> QED
  BY <1>1, <1>2, SilentFrame DEF TypeInv

(* A complete set of splits for battle b, each of them true: everyone is   *)
(* in b, and if the splits agree, each human cat has one driver.           *)
LEMMA SplitsTell ==
  ASSUME NEW ctl, NEW b, b # NoBattle, AllReported(ctl, b),
         \A q \in Peer : ctl[q].battle # NoBattle =>
                           ctl[q].battle \in joined'[q] /\ ctl[q].cats = Claims(q)'
  PROVE  /\ \A q \in Peer : b \in joined'[q]
         /\ SplitAgrees(ctl) =>
              \A c \in Human : \E o \in Peer : \A q \in Peer : c \in Claims(q)' <=> q = o
<1>1. \A q \in Peer : b \in joined'[q] /\ ctl[q].cats = Claims(q)'
  BY DEF AllReported
<1> QED
  BY <1>1 DEF SplitAgrees

LEMMA GateOnControl ==
  ASSUME TypeInv, GateInv, NEW p \in Peer, NEW m, Polls(p, m), OnControl(p, m)
  PROVE  GateInv'
<1> DEFINE stale == Stale(p, m.control.battle)
           ctl == IF stale THEN control[p]
                  ELSE [control[p] EXCEPT ![m.from] = m.control]
           checks == /\ ~stale /\ ~controlChecked[p] /\ roster[p] # NoBattle
                     /\ AllReported(ctl, battles[p].current)
           bad == checks /\ ~SplitAgrees(ctl)
<1>1. /\ control' = [control EXCEPT ![p] = ctl]
      /\ controlChecked' = [controlChecked EXCEPT ![p] = @ \/ checks]
      /\ halted' = [halted EXCEPT ![p] = @ \/ bad]
      /\ Transmit(p, Rest(p), HaltIf(p, bad))
      /\ phase' = phase /\ node' = node /\ battles' = battles
      /\ roster' = roster /\ joined' = joined /\ table' = table
      /\ checks \in BOOLEAN /\ bad \in BOOLEAN
      /\ ctl = control[p] \/ ctl = [control[p] EXCEPT ![m.from] = m.control]
      /\ checks => roster[p] # NoBattle /\ AllReported(ctl, battles[p].current)
      /\ checks /\ ~bad => SplitAgrees(ctl)
  BY DEF OnControl, gameVars
<1> HIDE DEF stale, ctl, checks, bad
<1>2. Grows /\ \A q \in Peer : Claims(q)' = Claims(q)
  BY <1>1 DEF Grows, Claims
<1>3. m \in Message /\ m.from \in Peer /\ m.from # p /\ Truthful(m) /\ m.type = "CONTROL"
  BY <1>2, PumpKeeps, MessageParts DEF Inbox, OnControl, GateInv, TypeInv
<1>4. control[p] \in [Peer -> Control]
  BY DEF TypeInv, TypeOK
<1>5. \A q \in Peer : ctl[q].battle # NoBattle =>
                        ctl[q].battle \in joined'[q] /\ ctl[q].cats = Claims(q)'
  BY <1>1, <1>2, <1>3, <1>4 DEF GateInv, Filed, Truthful
<1>6. ctl[p] = control[p][p]
  BY <1>1, <1>3, <1>4
<1>7. Announced'
  <2>1. \A q \in Peer : Rest(p)[q] \in Seq(Inbox(q)')
    BY <1>2, PumpKeeps DEF GateInv, TypeInv
  <2>2. HaltIf(p, bad) \in Seq(Outbox(p)')
    BY <1>1, HaltSaid
  <2> QED
    BY <1>1, <1>2, <2>1, <2>2, SendKeeps DEF GateInv, TypeInv
<1>8. Filed'
  BY <1>1, <1>2, <1>5 DEF GateInv, Filed, TypeInv, TypeOK
<1>9. OwnRoster'
  BY <1>1, <1>6 DEF GateInv, OwnRoster, TypeInv, TypeOK
<1>10. InStep'
  BY <1>1 DEF GateInv, InStep, TypeInv, TypeOK
<1>11. checks => /\ roster[p] # NoBattle
                 /\ \A q \in Peer : roster[p] \in joined'[q]
                 /\ SplitAgrees(ctl) =>
                      \A c \in Human : \E o \in Peer :
                        \A q \in Peer : c \in Claims(q)' <=> q = o
  <2> SUFFICES ASSUME checks
               PROVE  /\ \A q \in Peer : roster[p] \in joined'[q]
                      /\ SplitAgrees(ctl) =>
                           \A c \in Human : \E o \in Peer :
                             \A q \in Peer : c \in Claims(q)' <=> q = o
    BY <1>1
  <2>1. roster[p] # NoBattle /\ AllReported(ctl, battles[p].current)
    BY <1>1
  <2>2. roster[p] = battles[p].current
    BY <2>1, <1>6 DEF AllReported, GateInv, OwnRoster
  <2> QED
    BY <2>1, <2>2, <1>5, SplitsTell
<1>12. Checked'
  BY <1>1, <1>11 DEF GateInv, Checked, TypeInv, TypeOK
<1>13. SoleDriver'
  <2> SUFFICES ASSUME NEW r \in Peer, controlChecked'[r], ~halted'[r]
               PROVE  \A c \in Human : \E o \in Peer :
                        \A q \in Peer : c \in Claims(q)' <=> q = o
    BY DEF SoleDriver
  <2>1. CASE r = p /\ ~controlChecked[p]
    <3>1. checks /\ ~bad
      BY <2>1, <1>1 DEF TypeInv, TypeOK
    <3> QED
      BY <3>1, <1>1, <1>11
  <2>2. CASE ~(r = p /\ ~controlChecked[p])
    <3>1. controlChecked[r] /\ ~halted[r]
      BY <2>2, <1>1 DEF TypeInv, TypeOK
    <3> QED
      BY <3>1, <1>2 DEF GateInv, SoleDriver
  <2> QED
    BY <2>1, <2>2
<1> QED
  BY <1>7, <1>8, <1>9, <1>10, <1>12, <1>13 DEF GateInv

LEMMA GateTakeRoster ==
  ASSUME TypeInv, GateInv, NEW p \in Peer, TakeRoster(p)
  PROVE  GateInv'
<1> DEFINE fresh == roster[p] # NoBattle
           drops(id) == fresh /\ Stale(p, id)
           mine == [battle |-> battles[p].current, cats |-> Claims(p)]
           ctl == [q \in Peer |-> IF q = p THEN mine
                                  ELSE IF drops(control[p][q].battle) THEN NoControl
                                  ELSE control[p][q]]
           checks == AllReported(ctl, battles[p].current)
           bad == checks /\ ~SplitAgrees(ctl)
           stopped == halted[p] \/ bad
           t == IF fresh THEN 0 ELSE turn[p]
           own == IF fresh THEN {} ELSE myHash[p]
           held == [q \in Peer |-> {g \in peerHash[p][q] : ~drops(g.battle)}]
           differs == ~stopped /\ Mismatch(p, BuildHash(p, t), held)
           m == [type |-> "CONTROL", from |-> p, control |-> mine]
           ms == <<m>> \o HaltIf(p, bad) \o HashMessages(p, t, held, stopped)
<1>1. /\ phase[p] = "boundary"
      /\ roster' = [roster EXCEPT ![p] = node[p]]
      /\ joined' = [joined EXCEPT ![p] = @ \cup {node[p]}]
      /\ control' = [control EXCEPT ![p] = ctl]
      /\ controlChecked' = [controlChecked EXCEPT ![p] = checks]
      /\ halted' = [halted EXCEPT ![p] = @ \/ bad \/ differs]
      /\ Transmit(p, inq, ms)
      /\ phase' = [phase EXCEPT ![p] = "turn"]
      /\ UNCHANGED <<table, node>>
  BY DEF TakeRoster, BeginTurn
<1>2. node[p] \in Node /\ battles[p].current = node[p] /\ node[p] # NoBattle
  BY <1>1, NoneIsNoNode DEF TypeInv, InBattle
<1>3. Grows /\ node[p] \in joined'[p] /\ \A q \in Peer : Claims(q)' = Claims(q)
  BY <1>1 DEF Grows, Claims, TypeInv, TypeOK
<1>4. \A q \in Peer : ctl[q].battle # NoBattle =>
                        ctl[q].battle \in joined'[q] /\ ctl[q].cats = Claims(q)'
  <2> SUFFICES ASSUME NEW q \in Peer, ctl[q].battle # NoBattle
               PROVE  ctl[q].battle \in joined'[q] /\ ctl[q].cats = Claims(q)'
    OBVIOUS
  <2>1. CASE q = p
    BY <2>1, <1>2, <1>3
  <2>2. CASE q # p
    <3>1. ctl[q] = control[p][q]
      BY <2>2 DEF NoControl
    <3>2. control[p][q].battle \in joined[q] /\ control[p][q].cats = Claims(q)
      BY <3>1 DEF GateInv, Filed
    <3> QED
      BY <3>1, <3>2, <1>3 DEF Grows
  <2> QED
    BY <2>1, <2>2
<1>5. ctl[p] = mine /\ mine.battle = node[p]
  BY <1>2
<1>6. checks \in BOOLEAN /\ bad \in BOOLEAN /\ t \in Nat
  BY DEF AllReported, TypeInv, TypeOK
<1>7. Announced'
  <2>1. m \in Message /\ m.from = p
    BY <1>2 DEF Message, Control, Claims
  <2>2. m \in Outbox(p)'
    BY <2>1, <1>2, <1>3 DEF Outbox, Truthful
  <2>3. HaltIf(p, bad) \in Seq(Outbox(p)')
    BY <1>6, HaltSaid
  <2>4. HashMessages(p, t, held, stopped) \in Seq(Outbox(p)')
    <3>1. TypeOK /\ battles[p].current \in Node
      BY <1>2 DEF TypeInv
    <3> HIDE DEF t, held, stopped
    <3> QED
      BY <3>1, <1>2, <1>6, HashSaid
  <2> HIDE DEF m, bad, t, held, stopped
  <2>5. ms \in Seq(Outbox(p)')
    BY <2>2, <2>3, <2>4, OneFits, ConcatProperties
  <2> HIDE DEF ms
  <2>6. \A q \in Peer : inq[q] \in Seq(Inbox(q)')
    BY <1>3, BoxKeeps DEF GateInv, TypeInv
  <2> QED
    BY <1>1, <1>3, <2>5, <2>6, SendKeeps DEF GateInv, TypeInv
<1>8. checks => /\ \A q \in Peer : node[p] \in joined'[q]
                /\ SplitAgrees(ctl) =>
                     \A c \in Human : \E o \in Peer : \A q \in Peer : c \in Claims(q)' <=> q = o
  <2> HIDE DEF ctl
  <2> QED
    BY <1>2, <1>4, SplitsTell
<1> HIDE DEF fresh, drops, mine, ctl, checks, bad, stopped, t, own, held, differs, m, ms
<1>9. Filed'
  <2> SUFFICES ASSUME NEW r \in Peer, NEW q \in Peer, control'[r][q].battle # NoBattle
               PROVE  /\ control'[r][q].battle \in joined'[q]
                      /\ control'[r][q].cats = Claims(q)'
    BY DEF Filed
  <2>1. CASE r = p
    BY <2>1, <1>1, <1>4 DEF TypeInv, TypeOK
  <2>2. CASE r # p
    <3>1. control'[r][q] = control[r][q]
      BY <2>2, <1>1 DEF TypeInv, TypeOK
    <3> QED
      BY <3>1, <1>3 DEF GateInv, Filed, Grows
  <2> QED
    BY <2>1, <2>2
<1>10. OwnRoster'
  <2> SUFFICES ASSUME NEW r \in Peer, roster'[r] # NoBattle
               PROVE  roster'[r] \in joined'[r] /\ control'[r][r].battle = roster'[r]
    BY DEF OwnRoster
  <2>1. CASE r = p
    BY <2>1, <1>1, <1>3, <1>5 DEF TypeInv, TypeOK
  <2>2. CASE r # p
    <3>1. roster'[r] = roster[r] /\ control'[r] = control[r]
      BY <2>2, <1>1 DEF TypeInv, TypeOK
    <3> QED
      BY <3>1, <1>3 DEF GateInv, OwnRoster, Grows
  <2> QED
    BY <2>1, <2>2
<1>11. InStep'
  BY <1>1 DEF GateInv, InStep, TypeInv, TypeOK
<1>12. Checked'
  <2> SUFFICES ASSUME NEW r \in Peer, controlChecked'[r]
               PROVE  roster'[r] # NoBattle /\ \A q \in Peer : roster'[r] \in joined'[q]
    BY DEF Checked
  <2>1. CASE r = p
    BY <2>1, <1>1, <1>2, <1>8 DEF TypeInv, TypeOK
  <2>2. CASE r # p
    <3>1. roster'[r] = roster[r] /\ controlChecked[r]
      BY <2>2, <1>1 DEF TypeInv, TypeOK
    <3> QED
      BY <3>1, <1>3 DEF GateInv, Checked, Grows
  <2> QED
    BY <2>1, <2>2
<1>13. SoleDriver'
  <2> SUFFICES ASSUME NEW r \in Peer, controlChecked'[r], ~halted'[r]
               PROVE  \A c \in Human : \E o \in Peer :
                        \A q \in Peer : c \in Claims(q)' <=> q = o
    BY DEF SoleDriver
  <2>1. CASE r = p
    <3>1. checks /\ ~bad
      BY <2>1, <1>1 DEF TypeInv, TypeOK
    <3>2. SplitAgrees(ctl)
      BY <3>1 DEF bad
    <3> QED
      BY <3>1, <3>2, <1>8
  <2>2. CASE r # p
    <3>1. controlChecked[r] /\ ~halted[r]
      BY <2>2, <1>1 DEF TypeInv, TypeOK
    <3> QED
      BY <3>1, <1>3 DEF GateInv, SoleDriver
  <2> QED
    BY <2>1, <2>2
<1> QED
  BY <1>7, <1>9, <1>10, <1>11, <1>12, <1>13 DEF GateInv

LEMMA GateInit == Init => GateInv
<1> SUFFICES ASSUME Init PROVE GateInv
  OBVIOUS
<1>1. Announced
  BY EmptyFits DEF Init, Announced
<1>2. Filed
  BY DEF Init, Filed, NoControl
<1> QED
  BY <1>1, <1>2 DEF Init, GateInv, OwnRoster, InStep, Checked, SoleDriver

LEMMA GateStep == TypeInv /\ GateInv /\ [Next]_vars => GateInv'
<1> SUFFICES ASSUME TypeInv, GateInv, [Next]_vars PROVE GateInv'
  OBVIOUS
<1>1. ASSUME NEW n \in Node, HostEnterNode(n) PROVE GateInv'
  BY <1>1, GateHostEnterNode
<1>2. ASSUME NEW c \in Client, FollowNode(c) \/ LinkReceive(c) PROVE GateInv'
  BY <1>2, GateFollowNode, GateLinkReceive
<1>3. ASSUME NEW p \in Peer, PumpStep(p) PROVE GateInv'
  <2>1. Polls(p, Head(inq[p]))
    BY <1>3 DEF PumpStep, Pump
  <2> QED
    BY <1>3, <2>1, GateHandler, GateOnControl DEF PumpStep, Pump
<1>4. ASSUME NEW p \in Peer, Boundary(p) PROVE GateInv'
  BY <1>4, GateTakeRoster, GateNextTurn DEF Boundary
<1>5. ASSUME NEW p \in Peer, Decide(p) PROVE GateInv'
  BY <1>5, GateQuiet, GateDecideLocal, GateApplyRemote DEF Decide
<1>6. ASSUME NEW p \in Peer, Apply(p) \/ Diverge(p) PROVE GateInv'
  BY <1>6, GateQuiet
<1>7. CASE UNCHANGED vars
  <2>1. UNCHANGED <<rosterVars, netVars>> /\ halted' = halted /\ phase' = phase /\ node' = node
    BY <1>7 DEF vars, gameVars
  <2>2. InStep'
    BY <2>1 DEF rosterVars, GateInv, InStep
  <2> QED
    BY <2>1, <2>2, SilentFrame DEF TypeInv
<1> QED
  BY <1>1, <1>2, <1>3, <1>4, <1>5, <1>6, <1>7 DEF Next

(* Past the barrier every human cat has exactly one driver, whatever       *)
(* tables the members hold and however their splits crossed on the way.    *)
THEOREM OneDriver == Spec => []SoleDriver
<1>1. GateInv => SoleDriver
  BY DEF GateInv
<1> QED
  BY <1>1, TypeInit, TypeStep, GateInit, GateStep, PTL DEF Spec

(* A member whose brain is polled past the barrier is in a battle that     *)
(* every member has snapshotted.                                           *)
LEMMA PolledTogether ==
  ASSUME TypeInv, GateInv, JoinBarrier, NEW p \in Peer, HumanPolled(p)
  PROVE  \A q \in Peer : node[p] \in joined[q]
<1>1. controlChecked[p] /\ phase[p] = "turn" /\ ~halted[p]
  BY DEF HumanPolled, Polled, BarrierBlocks, BarrierDecide
<1> QED
  BY <1>1 DEF GateInv, Checked, InStep

LEMMA HereFrame ==
  ASSUME EveryoneHere, \A q \in Peer : joined[q] \subseteq joined'[q],
         \A p \in Peer, b \in Node :
           HumanActed(p, b)' => HumanActed(p, b) \/ \A q \in Peer : b \in joined[q]
  PROVE  EveryoneHere'
BY DEF EveryoneHere

(* A step that leaves the copies' decisions where they are.                *)
LEMMA HereStill ==
  ASSUME EveryoneHere, \A q \in Peer : joined[q] \subseteq joined'[q],
         node' = node, queued' = queued, hist' = hist
  PROVE  EveryoneHere'
<1>1. \A p \in Peer, b \in Node : HumanActed(p, b)' => HumanActed(p, b)
  BY DEF HumanActed
<1> QED
  BY <1>1, HereFrame

LEMMA HereEnterNode ==
  ASSUME TypeInv, EveryoneHere, NEW p \in Peer, NEW n \in Node, phase[p] = "map",
         EnterNode(p, n), queued' = queued, hist' = hist, joined' = joined
  PROVE  EveryoneHere'
<1>1. queued[p] = <<>>
  BY DEF TypeInv, InBattle
<1>2. \A q \in Peer : q # p => node'[q] = node[q]
  BY DEF EnterNode, TypeInv, TypeOK
<1>3. ASSUME NEW q \in Peer, NEW b \in Node, HumanActed(q, b)'
      PROVE  HumanActed(q, b)
  BY <1>1, <1>2, <1>3 DEF HumanActed
<1> QED
  BY <1>3, HereFrame

LEMMA HereRelease ==
  ASSUME TypeInv, EveryoneHere, NEW p \in Peer, NEW d, Release(p, d), joined' = joined,
         d.cat \in Human => \A q \in Peer : node[p] \in joined[q]
  PROVE  EveryoneHere'
<1>1. queued' = [queued EXCEPT ![p] = <<d>>] /\ node' = node /\ hist' = hist
  BY DEF Release
<1>2. ASSUME NEW q \in Peer, NEW b \in Node, HumanActed(q, b)'
      PROVE  HumanActed(q, b) \/ \A r \in Peer : b \in joined[r]
  <2>1. CASE q = p
    <3>1. queued'[p] = <<d>>
      BY <1>1 DEF TypeInv, TypeOK
    <3>2. \A i \in DOMAIN queued'[p] : queued'[p][i] = d
      BY <3>1
    <3> QED
      BY <2>1, <1>1, <1>2, <3>2 DEF HumanActed
  <2>2. CASE q # p
    <3>1. queued'[q] = queued[q]
      BY <2>2, <1>1 DEF TypeInv, TypeOK
    <3> QED
      BY <3>1, <1>1, <1>2 DEF HumanActed
  <2> QED
    BY <2>1, <2>2
<1> QED
  BY <1>2, HereFrame

LEMMA HereApply ==
  ASSUME TypeInv, EveryoneHere, NEW p \in Peer, Apply(p)
  PROVE  EveryoneHere'
<1>1. /\ hist' = [hist EXCEPT ![p][node[p]] = Append(@, Head(queued[p]))]
      /\ queued' = [queued EXCEPT ![p] = <<>>] /\ node' = node /\ joined' = joined
      /\ queued[p] # <<>>
  BY DEF Apply, rosterVars
<1>2. node[p] \in Node /\ hist[p][node[p]] \in Seq(Decision) /\ queued[p] \in Seq(Decision)
  BY <1>1 DEF TypeInv, TypeOK, InBattle
<1>3. 1 \in DOMAIN queued[p] /\ Head(queued[p]) = queued[p][1]
  BY <1>1, <1>2
<1>4. ASSUME NEW q \in Peer, NEW b \in Node, HumanActed(q, b)'
      PROVE  HumanActed(q, b)
  <2>1. CASE q # p
    <3>1. hist'[q] = hist[q] /\ queued'[q] = queued[q]
      BY <2>1, <1>1 DEF TypeInv, TypeOK
    <3> QED
      BY <3>1, <1>1, <1>4 DEF HumanActed
  <2>2. CASE q = p
    <3>1. queued'[p] = <<>>
      BY <1>1 DEF TypeInv, TypeOK
    <3>2. PICK i \in DOMAIN hist'[p][b] : hist'[p][b][i].cat \in Human
      BY <2>2, <3>1, <1>4 DEF HumanActed
    <3>3. CASE b # node[p]
      <4>1. hist'[p][b] = hist[p][b]
        BY <3>3, <1>1 DEF TypeInv, TypeOK
      <4> QED
        BY <2>2, <3>2, <4>1 DEF HumanActed
    <3>4. CASE b = node[p]
      <4>1. hist'[p][b] = Append(hist[p][b], Head(queued[p]))
        BY <3>4, <1>1 DEF TypeInv, TypeOK
      <4>2. CASE i \in DOMAIN hist[p][b]
        <5>1. hist'[p][b][i] = hist[p][b][i]
          BY <4>1, <4>2, <1>2, <3>4
        <5> QED
          BY <2>2, <3>2, <4>2, <5>1 DEF HumanActed
      <4>3. CASE i \notin DOMAIN hist[p][b]
        <5>1. hist'[p][b][i] = Head(queued[p])
          BY <4>1, <4>3, <1>2, <3>2, <3>4
        <5> QED
          BY <2>2, <3>2, <3>4, <5>1, <1>3 DEF HumanActed
      <4> QED
        BY <4>2, <4>3
    <3> QED
      BY <3>3, <3>4
  <2> QED
    BY <2>1, <2>2
<1> QED
  BY <1>1, <1>4, HereFrame

LEMMA HereStep ==
  ASSUME JoinBarrier, TypeInv, GateInv, EveryoneHere, [Next]_vars
  PROVE  EveryoneHere'
<1>1. ASSUME NEW n \in Node, HostEnterNode(n) PROVE EveryoneHere'
  BY <1>1, HostIsPeer, HereEnterNode DEF HostEnterNode, rosterVars
<1>2. ASSUME NEW c \in Client, FollowNode(c) PROVE EveryoneHere'
  <2>1. Head(nodeQ[c]) \in Node
    BY <1>2, HeadTailProperties DEF FollowNode, TypeInv, TypeOK
  <2> QED
    BY <1>2, <2>1, HostIsPeer, HereEnterNode DEF FollowNode, rosterVars
<1>3. ASSUME NEW c \in Client, LinkReceive(c) PROVE EveryoneHere'
  BY <1>3, HereStill DEF LinkReceive, gameVars, rosterVars
<1>4. ASSUME NEW p \in Peer, PumpStep(p) PROVE EveryoneHere'
  <2>1. joined' = joined /\ node' = node /\ queued' = queued /\ hist' = hist
    BY <1>4 DEF PumpStep, Pump, OnEnterNode, OnControl, OnAction, OnHash, OnHalt,
                gameVars, rosterVars
  <2> QED
    BY <2>1, HereStill
<1>5. ASSUME NEW p \in Peer, Boundary(p) PROVE EveryoneHere'
  <2>1. node' = node /\ queued' = queued /\ hist' = hist
    BY <1>5 DEF Boundary, TakeRoster, NextTurn, BeginTurn
  <2>2. joined' = joined \/ joined' = [joined EXCEPT ![p] = @ \cup {node[p]}]
    BY <1>5 DEF Boundary, TakeRoster, NextTurn, rosterVars
  <2>3. \A q \in Peer : joined[q] \subseteq joined'[q]
    <3>1. joined \in [Peer -> SUBSET Node]
      BY DEF TypeInv, TypeOK
    <3>2. CASE joined' = [joined EXCEPT ![p] = joined[p] \cup {node[p]}]
      BY <3>1, <3>2
    <3> QED
      BY <2>2, <3>2
  <2> QED
    BY <2>1, <2>3, HereStill
<1>6. ASSUME NEW p \in Peer, DecideAI(p) PROVE EveryoneHere'
  BY <1>6, HereRelease DEF DecideAI, rosterVars
<1>7. ASSUME NEW p \in Peer, NEW act \in Act, DecideLocal(p, act) PROVE EveryoneHere'
  <2>1. \A q \in Peer : node[p] \in joined[q]
    BY <1>7, PolledTogether DEF DecideLocal
  <2> QED
    BY <1>7, <2>1, HereRelease DEF DecideLocal, rosterVars
<1>8. ASSUME NEW p \in Peer, ApplyRemote(p) PROVE EveryoneHere'
  <2>1. \A q \in Peer : node[p] \in joined[q]
    BY <1>8, PolledTogether DEF ApplyRemote
  <2>2. joined' = joined
    BY <1>8 DEF ApplyRemote, rosterVars
  <2>3. CASE UNCHANGED gameVars
    BY <2>2, <2>3, HereStill DEF gameVars
  <2>4. CASE Release(p, [cat |-> Actor(p), act |-> Head(Offered(p)).act])
    BY <2>1, <2>2, <2>4, HereRelease
  <2> QED
    BY <1>8, <2>3, <2>4 DEF ApplyRemote
<1>9. ASSUME NEW p \in Peer, Apply(p) PROVE EveryoneHere'
  BY <1>9, HereApply
<1>10. ASSUME NEW p \in Peer, Diverge(p) PROVE EveryoneHere'
  BY <1>10, HereStill DEF Diverge, rosterVars
<1>11. CASE UNCHANGED vars
  BY <1>11, HereStill DEF vars, gameVars, rosterVars
<1> QED
  BY <1>1, <1>2, <1>3, <1>4, <1>5, <1>6, <1>7, <1>8, <1>9, <1>10, <1>11 DEF Next, Decide

LEMMA HereInit == Init => EveryoneHere
<1> SUFFICES ASSUME Init PROVE EveryoneHere
  OBVIOUS
<1>1. \A p \in Peer, b \in Node : ~HumanActed(p, b)
  BY DEF Init, HumanActed
<1> QED
  BY <1>1 DEF EveryoneHere

(* With the join barrier on, no member's player acts in a battle that some *)
(* other member has not entered and snapshotted: nobody can be left behind *)
(* by a human decision.                                                    *)
THEOREM BarrierHolds == JoinBarrier /\ Spec => []EveryoneHere
<1>1. JoinBarrier /\ TypeInv /\ GateInv /\ EveryoneHere /\ [Next]_vars => EveryoneHere'
  BY HereStep
<1>2. CASE JoinBarrier
  <2>1. TypeInv /\ GateInv /\ EveryoneHere /\ [Next]_vars => EveryoneHere'
    BY <1>1, <1>2
  <2> QED
    BY <2>1, TypeInit, TypeStep, GateInit, GateStep, HereInit, PTL DEF Spec
<1>3. CASE ~JoinBarrier
  BY <1>3
<1> QED
  BY <1>2, <1>3

-------------------------------------------------------------------------------
(* Lists of decisions, and of messages: what one more element adds.        *)

Does(d, c) == IF d.cat = c THEN <<d.act>> ELSE <<>>
Told(m, b, c) == IF Tells(m, b, c) THEN <<m.action.act>> ELSE <<>>

LEMMA ActsNone == ASSUME NEW c PROVE ActsOf(<<>>, c) = <<>>
BY PickedNone DEF ActsOf

LEMMA CarriedNone == ASSUME NEW b, NEW c PROVE Carried(<<>>, b, c) = <<>>
BY PickedNone DEF Carried

(* S is a set of records whose decisions are typed.                        *)
Decisive(S) == \A d \in S : d.act \in Act

LEMMA ActsNext ==
  ASSUME NEW S, NEW s \in Seq(S), NEW d \in S, NEW c
  PROVE  ActsOf(Append(s, d), c) =
           IF d.cat = c THEN Append(ActsOf(s, c), d.act) ELSE ActsOf(s, c)
<1> DEFINE t == Append(s, d)
           F(u) == [i \in {j \in DOMAIN u : u[j].cat = c} |-> u[i].act]
           n == Len(s)
<1>1. n \in Nat /\ Len(t) = n + 1 /\ DOMAIN s = 1 .. n /\ DOMAIN t = 1 .. n + 1
  BY AppendProperties, LenProperties
<1>2. t[n + 1] = d /\ \A i \in 1 .. n : t[i] = s[i]
  BY AppendProperties
<1> HIDE DEF t, n
<1>3. \A i \in 1 .. n : /\ i \in DOMAIN F(t) <=> i \in DOMAIN F(s)
                        /\ i \in DOMAIN F(t) => F(t)[i] = F(s)[i]
  <2> TAKE i \in 1 .. n
  <2>1. t[i] = s[i] /\ i \in DOMAIN t /\ i \in DOMAIN s
    BY <1>1, <1>2
  <2> QED
    BY <2>1
<1>4. /\ n + 1 \in DOMAIN F(t) <=> d.cat = c
      /\ n + 1 \in DOMAIN F(t) => F(t)[n + 1] = d.act
  BY <1>1, <1>2
<1>5. ActsOf(t, c) = Picked(F(t), n + 1) /\ ActsOf(s, c) = Picked(F(s), n)
  BY <1>1 DEF ActsOf, n
<1> HIDE DEF F
<1>6. Picked(F(t), n) = Picked(F(s), n)
  BY <1>1, <1>3, PickedLocal
<1>7. Picked(F(t), n + 1) = IF n + 1 \in DOMAIN F(t) THEN Append(Picked(F(t), n), F(t)[n + 1])
                           ELSE Picked(F(t), n)
  BY <1>1, PickedNext
<1> QED
  BY <1>4, <1>5, <1>6, <1>7 DEF t

LEMMA CarriedNext ==
  ASSUME NEW S, NEW s \in Seq(S), NEW m \in S, NEW b, NEW c
  PROVE  Carried(Append(s, m), b, c) =
           IF Tells(m, b, c) THEN Append(Carried(s, b, c), m.action.act) ELSE Carried(s, b, c)
<1> DEFINE t == Append(s, m)
           F(u) == [i \in {j \in DOMAIN u : Tells(u[j], b, c)} |-> u[i].action.act]
           n == Len(s)
<1>1. n \in Nat /\ Len(t) = n + 1 /\ DOMAIN s = 1 .. n /\ DOMAIN t = 1 .. n + 1
  BY AppendProperties, LenProperties
<1>2. t[n + 1] = m /\ \A i \in 1 .. n : t[i] = s[i]
  BY AppendProperties
<1> HIDE DEF t, n
<1>3. \A i \in 1 .. n : /\ i \in DOMAIN F(t) <=> i \in DOMAIN F(s)
                        /\ i \in DOMAIN F(t) => F(t)[i] = F(s)[i]
  <2> TAKE i \in 1 .. n
  <2>1. t[i] = s[i] /\ i \in DOMAIN t /\ i \in DOMAIN s
    BY <1>1, <1>2
  <2> QED
    BY <2>1
<1>4. /\ n + 1 \in DOMAIN F(t) <=> Tells(m, b, c)
      /\ n + 1 \in DOMAIN F(t) => F(t)[n + 1] = m.action.act
  BY <1>1, <1>2
<1>5. Carried(t, b, c) = Picked(F(t), n + 1) /\ Carried(s, b, c) = Picked(F(s), n)
  BY <1>1 DEF Carried, n
<1> HIDE DEF F
<1>6. Picked(F(t), n) = Picked(F(s), n)
  BY <1>1, <1>3, PickedLocal
<1>7. Picked(F(t), n + 1) = IF n + 1 \in DOMAIN F(t) THEN Append(Picked(F(t), n), F(t)[n + 1])
                           ELSE Picked(F(t), n)
  BY <1>1, PickedNext
<1> QED
  BY <1>4, <1>5, <1>6, <1>7 DEF t

(* What they say are decisions.                                            *)
LEMMA ActsTyped ==
  ASSUME NEW S, NEW s \in Seq(S), Decisive(S), NEW c
  PROVE  ActsOf(s, c) \in Seq(Act)
<1> DEFINE T == {u \in Seq(S) : ActsOf(u, c) \in Seq(Act)}
<1>1. <<>> \in T
  BY EmptySeq, ActsNone
<1>2. \A u \in Seq(S), d \in S : u \in T => Append(u, d) \in T
  <2> SUFFICES ASSUME NEW u \in Seq(S), NEW d \in S, ActsOf(u, c) \in Seq(Act)
               PROVE  Append(u, d) \in Seq(S) /\ ActsOf(Append(u, d), c) \in Seq(Act)
    OBVIOUS
  <2>1. d.act \in Act
    BY DEF Decisive
  <2>2. Append(ActsOf(u, c), d.act) \in Seq(Act)
    BY <2>1, AppendProperties
  <2>3. ActsOf(Append(u, d), c) =
          IF d.cat = c THEN Append(ActsOf(u, c), d.act) ELSE ActsOf(u, c)
    BY ActsNext
  <2> QED
    BY <2>2, <2>3, AppendProperties
<1> HIDE DEF T
<1>3. s \in T
  BY <1>1, <1>2, EveryList
<1> QED
  BY <1>3 DEF T

LEMMA CarriedTyped ==
  ASSUME NEW s \in Seq(Message), NEW b, NEW c
  PROVE  Carried(s, b, c) \in Seq(Act)
<1> DEFINE T == {u \in Seq(Message) : Carried(u, b, c) \in Seq(Act)}
<1>1. <<>> \in T
  BY EmptySeq, CarriedNone
<1>2. \A u \in Seq(Message), m \in Message : u \in T => Append(u, m) \in T
  <2> SUFFICES ASSUME NEW u \in Seq(Message), NEW m \in Message, Carried(u, b, c) \in Seq(Act)
               PROVE  Append(u, m) \in Seq(Message) /\ Carried(Append(u, m), b, c) \in Seq(Act)
    OBVIOUS
  <2>1. Tells(m, b, c) => m.action.act \in Act
    BY DEF Tells, Message, Action
  <2>2. Tells(m, b, c) => Append(Carried(u, b, c), m.action.act) \in Seq(Act)
    BY <2>1, AppendProperties
  <2>3. Carried(Append(u, m), b, c) =
          IF Tells(m, b, c) THEN Append(Carried(u, b, c), m.action.act) ELSE Carried(u, b, c)
    BY CarriedNext
  <2> QED
    BY <2>2, <2>3, AppendProperties
<1> HIDE DEF T
<1>3. s \in T
  BY <1>1, <1>2, EveryList
<1> QED
  BY <1>3 DEF T

(* Two lists in a row.                                                     *)
LEMMA ActsInARow ==
  ASSUME NEW S, NEW s \in Seq(S), NEW t \in Seq(S), Decisive(S), NEW c
  PROVE  ActsOf(s \o t, c) = ActsOf(s, c) \o ActsOf(t, c)
<1> DEFINE T == {u \in Seq(S) : ActsOf(s \o u, c) = ActsOf(s, c) \o ActsOf(u, c)}
<1>1. ActsOf(s, c) \in Seq(Act)
  BY ActsTyped
<1>2. <<>> \in T
  <2>1. s \o <<>> = s /\ ActsOf(s, c) \o <<>> = ActsOf(s, c)
    BY <1>1, ConcatEmptySeq
  <2> QED
    BY <2>1, EmptySeq, ActsNone
<1>3. \A u \in Seq(S), d \in S : u \in T => Append(u, d) \in T
  <2> SUFFICES ASSUME NEW u \in Seq(S), NEW d \in S,
                      ActsOf(s \o u, c) = ActsOf(s, c) \o ActsOf(u, c)
               PROVE  /\ Append(u, d) \in Seq(S)
                      /\ ActsOf(s \o Append(u, d), c) = ActsOf(s, c) \o ActsOf(Append(u, d), c)
    OBVIOUS
  <2>1. s \o u \in Seq(S) /\ s \o Append(u, d) = Append(s \o u, d)
    BY ConcatProperties
  <2>2. ActsOf(Append(u, d), c) = IF d.cat = c THEN Append(ActsOf(u, c), d.act) ELSE ActsOf(u, c)
    BY ActsNext
  <2>3. ActsOf(Append(s \o u, d), c) =
          IF d.cat = c THEN Append(ActsOf(s \o u, c), d.act) ELSE ActsOf(s \o u, c)
    <3> DEFINE r == s \o u
    <3>1. r \in Seq(S)
      BY <2>1
    <3> HIDE DEF r
    <3>2. ActsOf(Append(r, d), c) = IF d.cat = c THEN Append(ActsOf(r, c), d.act) ELSE ActsOf(r, c)
      BY <3>1, ActsNext
    <3> QED
      BY <3>2 DEF r
  <2>4. ActsOf(u, c) \in Seq(Act) /\ d.act \in Act
    BY ActsTyped DEF Decisive
  <2>5. ActsOf(s, c) \o Append(ActsOf(u, c), d.act) = Append(ActsOf(s, c) \o ActsOf(u, c), d.act)
    BY <1>1, <2>4
  <2> QED
    BY <2>1, <2>2, <2>3, <2>5, AppendProperties
<1> HIDE DEF T
<1>4. t \in T
  BY <1>2, <1>3, EveryList
<1> QED
  BY <1>4 DEF T

LEMMA CarriedInARow ==
  ASSUME NEW s \in Seq(Message), NEW t \in Seq(Message), NEW b, NEW c
  PROVE  Carried(s \o t, b, c) = Carried(s, b, c) \o Carried(t, b, c)
<1> DEFINE T == {u \in Seq(Message) : Carried(s \o u, b, c) = Carried(s, b, c) \o Carried(u, b, c)}
<1>1. Carried(s, b, c) \in Seq(Act)
  BY CarriedTyped
<1>2. <<>> \in T
  <2>1. s \o <<>> = s /\ Carried(s, b, c) \o <<>> = Carried(s, b, c)
    BY <1>1, ConcatEmptySeq
  <2> QED
    BY <2>1, EmptySeq, CarriedNone
<1>3. \A u \in Seq(Message), m \in Message : u \in T => Append(u, m) \in T
  <2> SUFFICES ASSUME NEW u \in Seq(Message), NEW m \in Message,
                      Carried(s \o u, b, c) = Carried(s, b, c) \o Carried(u, b, c)
               PROVE  /\ Append(u, m) \in Seq(Message)
                      /\ Carried(s \o Append(u, m), b, c) =
                           Carried(s, b, c) \o Carried(Append(u, m), b, c)
    OBVIOUS
  <2>1. s \o u \in Seq(Message) /\ s \o Append(u, m) = Append(s \o u, m)
    BY ConcatProperties
  <2>2. Carried(Append(u, m), b, c) =
          IF Tells(m, b, c) THEN Append(Carried(u, b, c), m.action.act) ELSE Carried(u, b, c)
    BY CarriedNext
  <2>3. Carried(Append(s \o u, m), b, c) =
          IF Tells(m, b, c) THEN Append(Carried(s \o u, b, c), m.action.act)
          ELSE Carried(s \o u, b, c)
    <3> DEFINE r == s \o u
    <3>1. r \in Seq(Message)
      BY <2>1
    <3> HIDE DEF r
    <3>2. Carried(Append(r, m), b, c) =
            IF Tells(m, b, c) THEN Append(Carried(r, b, c), m.action.act) ELSE Carried(r, b, c)
      BY <3>1, CarriedNext
    <3> QED
      BY <3>2 DEF r
  <2>4. Carried(u, b, c) \in Seq(Act) /\ (Tells(m, b, c) => m.action.act \in Act)
    BY CarriedTyped DEF Tells, Message, Action
  <2>5. Tells(m, b, c) => Carried(s, b, c) \o Append(Carried(u, b, c), m.action.act) =
                            Append(Carried(s, b, c) \o Carried(u, b, c), m.action.act)
    BY <1>1, <2>4
  <2> QED
    BY <2>1, <2>2, <2>3, <2>5, AppendProperties
<1> HIDE DEF T
<1>4. t \in T
  BY <1>2, <1>3, EveryList
<1> QED
  BY <1>4 DEF T

(* A list of one, and the first of a list.                                 *)
LEMMA ActsOfOne ==
  ASSUME NEW S, NEW d \in S, NEW c
  PROVE  ActsOf(<<d>>, c) = Does(d, c)
<1>1. <<d>> = Append(<<>>, d) /\ <<>> \in Seq(S)
  BY EmptySeq
<1>2. ActsOf(Append(<<>>, d), c) = IF d.cat = c THEN Append(ActsOf(<<>>, c), d.act) ELSE ActsOf(<<>>, c)
  BY <1>1, ActsNext
<1> QED
  BY <1>1, <1>2, ActsNone DEF Does

LEMMA CarriedOfOne ==
  ASSUME NEW m \in Message, NEW b, NEW c
  PROVE  Carried(<<m>>, b, c) = Told(m, b, c)
<1> DEFINE r == <<>>
<1>1. <<m>> = Append(r, m) /\ r \in Seq(Message)
  BY EmptySeq
<1>2. Carried(r, b, c) = <<>>
  BY CarriedNone
<1> HIDE DEF r
<1>3. Carried(Append(r, m), b, c) =
        IF Tells(m, b, c) THEN Append(Carried(r, b, c), m.action.act) ELSE Carried(r, b, c)
  BY <1>1, CarriedNext
<1>4. Carried(<<m>>, b, c) = IF Tells(m, b, c) THEN Append(<<>>, m.action.act) ELSE <<>>
  BY <1>1, <1>2, <1>3
<1> QED
  BY <1>4 DEF Told

LEMMA FirstAndRest ==
  ASSUME NEW S, NEW s \in Seq(S), s # <<>>
  PROVE  <<Head(s)>> \in Seq(S) /\ Tail(s) \in Seq(S) /\ Head(s) \in S
         /\ s = <<Head(s)>> \o Tail(s)
<1>1. Head(s) \in S /\ Tail(s) \in Seq(S) /\ Len(Tail(s)) = Len(s) - 1
      /\ \A i \in 1 .. Len(Tail(s)) : Tail(s)[i] = s[i + 1]
  BY HeadTailProperties
<1>2. <<Head(s)>> \in Seq(S) /\ Len(<<Head(s)>>) = 1 /\ <<Head(s)>>[1] = Head(s)
  BY <1>1
<1>3. Head(s) = s[1] /\ Len(s) \in Nat
  BY LenProperties
<1> DEFINE t == <<Head(s)>> \o Tail(s)
<1>4. t \in Seq(S) /\ Len(t) = 1 + Len(Tail(s))
      /\ \A i \in 1 .. 1 + Len(Tail(s)) : t[i] = IF i <= 1 THEN <<Head(s)>>[i] ELSE Tail(s)[i - 1]
  BY <1>1, <1>2, ConcatProperties
<1> HIDE DEF t
<1>5. Len(t) = Len(s)
  BY <1>1, <1>3, <1>4
<1>6. ASSUME NEW i \in 1 .. Len(s) PROVE s[i] = t[i]
  <2>1. CASE i = 1
    BY <2>1, <1>1, <1>2, <1>3, <1>4
  <2>2. CASE i # 1
    <3>1. i - 1 \in 1 .. Len(Tail(s)) /\ (i - 1) + 1 = i /\ i \in 1 .. 1 + Len(Tail(s)) /\ ~(i <= 1)
      BY <2>2, <1>1, <1>3
    <3> QED
      BY <3>1, <1>1, <1>4
  <2> QED
    BY <2>1, <2>2
<1>7. s = t
  BY <1>4, <1>5, <1>6, SeqEqual
<1> QED
  BY <1>1, <1>2, <1>7 DEF t

LEMMA CarriedFirst ==
  ASSUME NEW ms \in Seq(Message), ms # <<>>, NEW b, NEW c
  PROVE  Carried(ms, b, c) = Told(Head(ms), b, c) \o Carried(Tail(ms), b, c)
<1>1. <<Head(ms)>> \in Seq(Message) /\ Tail(ms) \in Seq(Message) /\ Head(ms) \in Message
      /\ ms = <<Head(ms)>> \o Tail(ms)
  BY FirstAndRest
<1> DEFINE u == <<Head(ms)>>
           t == Tail(ms)
<1>2. u \in Seq(Message) /\ t \in Seq(Message) /\ ms = u \o t
  BY <1>1
<1>3. Carried(u, b, c) = Told(Head(ms), b, c)
  BY <1>1, CarriedOfOne
<1> HIDE DEF u, t
<1>4. Carried(u \o t, b, c) = Carried(u, b, c) \o Carried(t, b, c)
  BY <1>2, CarriedInARow
<1> QED
  BY <1>2, <1>3, <1>4 DEF t

LEMMA ActsFirst ==
  ASSUME NEW S, NEW s \in Seq(S), s # <<>>, Decisive(S), NEW c
  PROVE  ActsOf(s, c) = Does(Head(s), c) \o ActsOf(Tail(s), c)
<1>1. <<Head(s)>> \in Seq(S) /\ Tail(s) \in Seq(S) /\ Head(s) \in S
      /\ s = <<Head(s)>> \o Tail(s)
  BY FirstAndRest
<1> DEFINE u == <<Head(s)>>
           t == Tail(s)
<1>2. u \in Seq(S) /\ t \in Seq(S) /\ s = u \o t
  BY <1>1
<1>3. ActsOf(u, c) = Does(Head(s), c)
  BY <1>1, ActsOfOne
<1> HIDE DEF u, t
<1>4. ActsOf(u \o t, c) = ActsOf(u, c) \o ActsOf(t, c)
  BY <1>2, ActsInARow
<1> QED
  BY <1>2, <1>3, <1>4 DEF t

(* A list in which nothing is of cat c.                                    *)
LEMMA ActsOfOthers ==
  ASSUME NEW S, NEW s \in Seq(S), NEW c, \A i \in 1 .. Len(s) : s[i].cat # c
  PROVE  ActsOf(s, c) = <<>>
<1> DEFINE T == {u \in Seq(S) : (\A i \in 1 .. Len(u) : u[i].cat # c) => ActsOf(u, c) = <<>>}
<1>1. <<>> \in T
  BY EmptySeq, ActsNone
<1>2. \A u \in Seq(S), d \in S : u \in T => Append(u, d) \in T
  <2> SUFFICES ASSUME NEW u \in Seq(S), NEW d \in S,
                      (\A i \in 1 .. Len(u) : u[i].cat # c) => ActsOf(u, c) = <<>>,
                      \A i \in 1 .. Len(Append(u, d)) : Append(u, d)[i].cat # c
               PROVE  ActsOf(Append(u, d), c) = <<>>
    BY AppendProperties
  <2>1. /\ Len(Append(u, d)) = Len(u) + 1 /\ Len(u) \in Nat
        /\ \A i \in 1 .. Len(u) : Append(u, d)[i] = u[i]
        /\ Append(u, d)[Len(u) + 1] = d
    BY AppendProperties, LenProperties
  <2>2. d.cat # c /\ \A i \in 1 .. Len(u) : u[i].cat # c
    BY <2>1
  <2> QED
    BY <2>2, ActsNext
<1> HIDE DEF T
<1>3. s \in T
  BY <1>1, <1>2, EveryList
<1> QED
  BY <1>3 DEF T

LEMMA CarriedOfOthers ==
  ASSUME NEW s \in Seq(Message), NEW b, NEW c, \A i \in 1 .. Len(s) : ~Tells(s[i], b, c)
  PROVE  Carried(s, b, c) = <<>>
<1> DEFINE T == {u \in Seq(Message) :
                  (\A i \in 1 .. Len(u) : ~Tells(u[i], b, c)) => Carried(u, b, c) = <<>>}
<1>1. <<>> \in T
  BY EmptySeq, CarriedNone
<1>2. \A u \in Seq(Message), d \in Message : u \in T => Append(u, d) \in T
  <2> SUFFICES ASSUME NEW u \in Seq(Message), NEW d \in Message,
                      (\A i \in 1 .. Len(u) : ~Tells(u[i], b, c)) => Carried(u, b, c) = <<>>,
                      \A i \in 1 .. Len(Append(u, d)) : ~Tells(Append(u, d)[i], b, c)
               PROVE  Carried(Append(u, d), b, c) = <<>>
    BY AppendProperties
  <2>1. /\ Len(Append(u, d)) = Len(u) + 1 /\ Len(u) \in Nat
        /\ \A i \in 1 .. Len(u) : Append(u, d)[i] = u[i]
        /\ Append(u, d)[Len(u) + 1] = d
    BY AppendProperties, LenProperties
  <2>2. ~Tells(d, b, c) /\ \A i \in 1 .. Len(u) : ~Tells(u[i], b, c)
    BY <2>1
  <2> QED
    BY <2>2, CarriedNext
<1> HIDE DEF T
<1>3. s \in T
  BY <1>1, <1>2, EveryList
<1> QED
  BY <1>3 DEF T

-------------------------------------------------------------------------------
(* One list begins another; two lists agree wherever both have an element. *)

Begins(t, s) == Len(t) <= Len(s) /\ \A i \in 1 .. Len(t) : t[i] = s[i]
Agree(s, t) == \A i \in (DOMAIN s) \cap (DOMAIN t) : s[i] = t[i]

LEMMA BeginsSplits ==
  ASSUME NEW S, NEW s \in Seq(S), NEW t \in Seq(S), Begins(t, s)
  PROVE  /\ SubSeq(s, Len(t) + 1, Len(s)) \in Seq(S)
         /\ s = t \o SubSeq(s, Len(t) + 1, Len(s))
<1> DEFINE m == Len(t)
           n == Len(s)
           u == SubSeq(s, m + 1, n)
<1>1. m \in Nat /\ n \in Nat /\ m <= n /\ \A i \in 1 .. m : t[i] = s[i]
  BY LenProperties DEF Begins
<1>2. \A i \in m + 1 .. n : s[i] \in S
  BY <1>1, ElementOfSeq
<1>3. /\ u \in Seq(S) /\ Len(u) = n - m
      /\ \A i \in 1 .. n - m : u[i] = s[m + i]
  <2> HIDE DEF m, n
  <2>1. m + 1 \in Int /\ n \in Int
    BY <1>1
  <2>2. /\ u \in Seq(S) /\ Len(u) = IF m + 1 <= n THEN n - (m + 1) + 1 ELSE 0
        /\ \A i \in 1 .. n - (m + 1) + 1 : u[i] = s[(m + 1) + i - 1]
    BY <2>1, <1>2, SubSeqProperties
  <2>3. \A i \in 1 .. n - m : (m + 1) + i - 1 = m + i
    BY <1>1
  <2>4. n - (m + 1) + 1 = n - m
    BY <1>1
  <2> HIDE DEF u
  <2> QED
    BY <1>1, <2>2, <2>3, <2>4
<1> HIDE DEF u
<1> DEFINE r == t \o u
<1>4. /\ r \in Seq(S) /\ Len(r) = m + (n - m)
      /\ \A i \in 1 .. m + (n - m) : r[i] = IF i <= m THEN t[i] ELSE u[i - m]
  BY <1>3, ConcatProperties
<1> HIDE DEF r
<1>5. Len(r) = n
  BY <1>1, <1>4
<1>6. ASSUME NEW i \in 1 .. n PROVE s[i] = r[i]
  <2>1. CASE i <= m
    BY <2>1, <1>1, <1>4
  <2>2. CASE ~(i <= m)
    <3>1. i - m \in 1 .. n - m /\ m + (i - m) = i /\ i \in 1 .. m + (n - m)
      BY <2>2, <1>1
    <3> QED
      BY <3>1, <2>2, <1>3, <1>4
  <2> QED
    BY <2>1, <2>2
<1>7. s = r
  BY <1>4, <1>5, <1>6, SeqEqual
<1> QED
  BY <1>3, <1>7 DEF r, u

LEMMA ConcatBegins ==
  ASSUME NEW S, NEW s \in Seq(S), NEW t \in Seq(S), NEW u \in Seq(S), s = t \o u
  PROVE  Begins(t, s)
<1>1. /\ Len(s) = Len(t) + Len(u) /\ Len(t) \in Nat /\ Len(u) \in Nat
      /\ \A i \in 1 .. Len(t) + Len(u) : s[i] = IF i <= Len(t) THEN t[i] ELSE u[i - Len(t)]
  BY ConcatProperties, LenProperties
<1> QED
  BY <1>1 DEF Begins

(* A list that begins another says no more of any cat.                     *)
LEMMA BeginsActs ==
  ASSUME NEW S, NEW s \in Seq(S), NEW t \in Seq(S), Decisive(S), Begins(t, s), NEW c
  PROVE  Begins(ActsOf(t, c), ActsOf(s, c))
<1> DEFINE u == SubSeq(s, Len(t) + 1, Len(s))
<1>1. u \in Seq(S) /\ s = t \o u
  BY BeginsSplits
<1> HIDE DEF u
<1>2. ActsOf(t \o u, c) = ActsOf(t, c) \o ActsOf(u, c)
  BY <1>1, ActsInARow
<1>3. ActsOf(s, c) \in Seq(Act) /\ ActsOf(t, c) \in Seq(Act) /\ ActsOf(u, c) \in Seq(Act)
  BY <1>1, ActsTyped
<1> QED
  BY <1>1, <1>2, <1>3, ConcatBegins

(* A list that has one more decision of cat c than another it agrees with  *)
(* up to there says what it is.                                            *)
LEMMA AheadActs ==
  ASSUME NEW S, NEW s \in Seq(S), NEW t \in Seq(S), Decisive(S), Begins(t, s),
         Len(t) + 1 \in 1 .. Len(s), NEW c, s[Len(t) + 1].cat = c
  PROVE  /\ Len(ActsOf(s, c)) > Len(ActsOf(t, c))
         /\ ActsOf(s, c)[Len(ActsOf(t, c)) + 1] = s[Len(t) + 1].act
<1> DEFINE d == s[Len(t) + 1]
           r == Append(t, d)
<1>1. d \in S /\ Len(t) \in Nat /\ Len(s) \in Nat
  BY LenProperties, ElementOfSeq
<1>2. r \in Seq(S) /\ Len(r) = Len(t) + 1 /\ r[Len(t) + 1] = d /\ \A i \in 1 .. Len(t) : r[i] = t[i]
  BY <1>1, AppendProperties
<1>3. d.cat = c /\ d.act \in Act
  BY <1>1 DEF Decisive
<1>4. Begins(r, s)
  <2> HIDE DEF r
  <2>1. \A i \in 1 .. Len(t) + 1 : i = Len(t) + 1 \/ i \in 1 .. Len(t)
    BY <1>1
  <2> QED
    BY <1>1, <1>2, <2>1 DEF Begins
<1>5. ActsOf(r, c) = Append(ActsOf(t, c), d.act)
  <2>1. ActsOf(Append(t, d), c) = IF d.cat = c THEN Append(ActsOf(t, c), d.act) ELSE ActsOf(t, c)
    BY <1>1, ActsNext
  <2> QED
    BY <1>3, <2>1
<1>6. Begins(ActsOf(r, c), ActsOf(s, c))
  <2> HIDE DEF r
  <2> QED
    BY <1>2, <1>4, BeginsActs
<1>7. ActsOf(t, c) \in Seq(Act) /\ ActsOf(s, c) \in Seq(Act)
  BY ActsTyped
<1> HIDE DEF r, d
<1> DEFINE x == ActsOf(t, c)
           y == ActsOf(s, c)
<1>8. x \in Seq(Act) /\ y \in Seq(Act) /\ Len(x) \in Nat /\ Len(y) \in Nat
  BY <1>7, LenProperties
<1> HIDE DEF x, y
<1>9. Begins(Append(x, d.act), y)
  <2>1. ActsOf(r, c) = Append(x, d.act)
    BY <1>5 DEF x
  <2>2. Begins(ActsOf(r, c), y)
    BY <1>6 DEF y
  <2> QED
    BY <2>1, <2>2
<1>10. Len(Append(x, d.act)) = Len(x) + 1 /\ Append(x, d.act)[Len(x) + 1] = d.act
  BY <1>3, <1>8, AppendProperties
<1>11. Len(y) > Len(x) /\ y[Len(x) + 1] = d.act
  <2>1. PICK z : z = Append(x, d.act)
    OBVIOUS
  <2>2. Begins(z, y) /\ Len(z) = Len(x) + 1 /\ z[Len(x) + 1] = d.act
    BY <2>1, <1>9, <1>10
  <2>3. Len(x) + 1 \in 1 .. Len(z) /\ Len(z) <= Len(y)
    BY <2>2, <1>8 DEF Begins
  <2> QED
    BY <2>2, <2>3, <1>8 DEF Begins
<1> QED
  BY <1>11 DEF x, y, d

LEMMA AgreeBegins ==
  ASSUME NEW S, NEW s \in Seq(S), NEW t \in Seq(S), Agree(s, t), Len(t) <= Len(s)
  PROVE  Begins(t, s)
<1>1. DOMAIN s = 1 .. Len(s) /\ DOMAIN t = 1 .. Len(t) /\ Len(s) \in Nat /\ Len(t) \in Nat
  BY LenProperties
<1> QED
  BY <1>1 DEF Agree, Begins

-------------------------------------------------------------------------------
(* The turns ended by the first i decisions of s.                          *)

Ends(s, i) == Cardinality({j \in 1 .. i : s[j].act = EndTurn})

LEMMA EndsType ==
  ASSUME NEW s, NEW i \in Nat
  PROVE  /\ IsFiniteSet({j \in 1 .. i : s[j].act = EndTurn})
         /\ Ends(s, i) \in Nat
<1>1. IsFiniteSet(1 .. i)
  BY FS_Interval
<1>2. IsFiniteSet({j \in 1 .. i : s[j].act = EndTurn})
  BY <1>1, FS_Subset
<1> QED
  BY <1>2, FS_CardinalityType DEF Ends

LEMMA EndsNone == ASSUME NEW s PROVE Ends(s, 0) = 0
<1>1. {j \in 1 .. 0 : s[j].act = EndTurn} = {}
  OBVIOUS
<1> QED
  BY <1>1, FS_EmptySet DEF Ends

LEMMA EndsNext ==
  ASSUME NEW s, NEW i \in Nat
  PROVE  Ends(s, i + 1) = IF s[i + 1].act = EndTurn THEN Ends(s, i) + 1 ELSE Ends(s, i)
<1> DEFINE A == {j \in 1 .. i : s[j].act = EndTurn}
           B == {j \in 1 .. i + 1 : s[j].act = EndTurn}
<1>1. IsFiniteSet(A) /\ i + 1 \notin A
  <2>1. i + 1 \notin A
    OBVIOUS
  <2>2. IsFiniteSet(A)
    BY EndsType
  <2> QED
    BY <2>1, <2>2
<1>2. CASE s[i + 1].act = EndTurn
  <2>1. B = A \cup {i + 1}
    BY <1>2
  <2>2. Cardinality(A \cup {i + 1}) = Cardinality(A) + 1
    <3> HIDE DEF A
    <3> QED
      BY <1>1, FS_AddElement
  <2> QED
    BY <1>2, <2>1, <2>2 DEF Ends
<1>3. CASE s[i + 1].act # EndTurn
  <2>1. B = A
    BY <1>3
  <2> QED
    BY <1>3, <2>1 DEF Ends
<1> QED
  BY <1>2, <1>3

LEMMA EndsGrow ==
  ASSUME NEW s, NEW i \in Nat, NEW j \in Nat, i <= j
  PROVE  Ends(s, i) <= Ends(s, j)
<1> DEFINE A == {k \in 1 .. i : s[k].act = EndTurn}
           B == {k \in 1 .. j : s[k].act = EndTurn}
<1>1. IsFiniteSet(B) /\ A \in SUBSET B
  BY EndsType
<1>2. Cardinality(A) <= Cardinality(B)
  <2> HIDE DEF A, B
  <2> QED
    BY <1>1, FS_Subset
<1> QED
  BY <1>2 DEF Ends

LEMMA EndsSame ==
  ASSUME NEW s, NEW t, NEW i \in Nat, \A j \in 1 .. i : s[j] = t[j]
  PROVE  Ends(s, i) = Ends(t, i)
<1>1. {j \in 1 .. i : s[j].act = EndTurn} = {j \in 1 .. i : t[j].act = EndTurn}
  OBVIOUS
<1> QED
  BY <1>1 DEF Ends

(* The turn that decision j ends is counted from there on.                 *)
LEMMA EndsPast ==
  ASSUME NEW s, NEW i \in Nat, NEW j \in Nat, i < j, s[j].act = EndTurn
  PROVE  Ends(s, i) < Ends(s, j)
<1>1. j - 1 \in Nat /\ i <= j - 1 /\ (j - 1) + 1 = j
  OBVIOUS
<1>2. Ends(s, i) <= Ends(s, j - 1)
  BY <1>1, EndsGrow
<1>3. Ends(s, j) = Ends(s, j - 1) + 1
  BY <1>1, EndsNext
<1>4. Ends(s, i) \in Nat /\ Ends(s, j - 1) \in Nat
  BY <1>1, EndsType
<1> QED
  BY <1>2, <1>3, <1>4

-------------------------------------------------------------------------------
(* One copy: where it is in its battle is what it has decided there.       *)

(* The turn after which a battle ends; the cat whose turn follows n turns. *)
LastTurn == IF Turns = 0 THEN 1 ELSE Turns
Seat(n) == TurnOrder[1 + (n % Len(TurnOrder))]

Seated(ds) ==
  \A i \in 1 .. Len(ds) :
    /\ ds[i].cat = Seat(Ends(ds, i - 1))
    /\ Ends(ds, i - 1) < LastTurn
    /\ ds[i].cat \notin Human => ds[i].act = EndTurn

Over(p, b) == Ends(hist[p][b], Len(hist[p][b]))
Finished(p, b) == Over(p, b) = LastTurn

Placed(p) ==
  /\ node[p] # NoBattle => node[p] \in Combat
  /\ battles[p].current \in Combat => node[p] = battles[p].current
  /\ \A b \in Node : hist[p][b] # <<>> => b \in Combat

Paced(p) ==
  /\ phase[p] = "map" /\ node[p] # NoBattle => Finished(p, node[p])
  /\ phase[p] = "boundary" => Over(p, node[p]) = clock[p] /\ clock[p] < LastTurn
  /\ phase[p] = "turn" => Over(p, node[p]) = clock[p] - 1 /\ clock[p] \in 1 .. LastTurn

(* A battle left behind is finished, and so is one that is retired.        *)
Behind(p) ==
  \A b \in Node :
    /\ b # node[p] => hist[p][b] = <<>> \/ Finished(p, b)
    /\ b \in Combat /\ Stale(p, b) => Finished(p, b)

Copy(p) ==
  /\ Len(queued[p]) <= 1
  /\ outstanding[p] => queued[p] # <<>>
  /\ Placed(p)
  /\ Paced(p)
  /\ Behind(p)
  /\ \A b \in Node : Seated(Taken(p, b))

CopyInv == \A p \in Peer : Copy(p)

-------------------------------------------------------------------------------
(* The road: a node is entered once.                                       *)

Untouched(p, n) ==
  /\ hist[p][n] = <<>>
  /\ node[p] # n
  /\ battles[p].current # n
  /\ n \notin joined[p]

OnRoute(n) == \E i \in 1 .. Len(route) : route[i] = n

Announces(m) == m.type = "ENTERNODE"

(* What a client's queue of messages still announces.                      *)
Expects(c, box) ==
  \A i \in 1 .. Len(box) :
    Announces(box[i]) =>
      /\ OnRoute(box[i].seed)
      /\ Untouched(c, box[i].seed)
      /\ \A j \in 1 .. Len(box) : Announces(box[j]) /\ box[j].seed = box[i].seed => j = i
      /\ \A j \in 1 .. Len(nodeQ[c]) : nodeQ[c][j] # box[i].seed

(* ... and what it has yet to follow.                                      *)
Follows(c) ==
  \A i \in 1 .. Len(nodeQ[c]) :
    /\ OnRoute(nodeQ[c][i])
    /\ Untouched(c, nodeQ[c][i])
    /\ \A j \in 1 .. Len(nodeQ[c]) : nodeQ[c][j] = nodeQ[c][i] => j = i

RoadInv ==
  /\ \A p \in Peer, n \in Node : ~OnRoute(n) => Untouched(p, n)
  /\ \A c \in Client : Follows(c) /\ Expects(c, inq[c])

-------------------------------------------------------------------------------
(* What no step undoes.                                                    *)
LEMMA Steady ==
  ASSUME TypeInv, [Next]_vars
  PROVE  /\ table' = table
         /\ \A q \in Peer : /\ joined[q] \subseteq joined'[q]
                            /\ halted[q] => halted'[q]
                            /\ drift[q] => drift'[q]
<1>1. TypeOK
  BY DEF TypeInv
<1>2. ASSUME NEW n \in Node, HostEnterNode(n)
      PROVE  table' = table /\ joined' = joined /\ halted' = halted /\ drift' = drift
  BY <1>2 DEF HostEnterNode, rosterVars
<1>3. ASSUME NEW c \in Client, FollowNode(c) \/ LinkReceive(c)
      PROVE  table' = table /\ joined' = joined /\ halted' = halted /\ drift' = drift
  BY <1>3 DEF FollowNode, LinkReceive, rosterVars, gameVars
<1>4. ASSUME NEW p \in Peer, PumpStep(p)
      PROVE  /\ table' = table /\ joined' = joined /\ drift' = drift
             /\ \A q \in Peer : halted[q] => halted'[q]
  BY <1>4, <1>1 DEF PumpStep, Pump, OnEnterNode, OnControl, OnAction, OnHash, OnHalt,
                    rosterVars, gameVars, TypeOK
<1>5. ASSUME NEW p \in Peer, TakeRoster(p)
      PROVE  /\ table' = table /\ joined' = [joined EXCEPT ![p] = @ \cup {node[p]}] /\ drift' = drift
             /\ \A q \in Peer : halted[q] => halted'[q]
  BY <1>5, <1>1 DEF TakeRoster, BeginTurn, TypeOK
<1>6. ASSUME NEW p \in Peer, NextTurn(p)
      PROVE  /\ table' = table /\ joined' = joined /\ drift' = drift
             /\ \A q \in Peer : halted[q] => halted'[q]
  BY <1>6, <1>1 DEF NextTurn, BeginTurn, rosterVars, TypeOK
<1>7. ASSUME NEW p \in Peer, Decide(p)
      PROVE  /\ table' = table /\ joined' = joined /\ drift' = drift
             /\ \A q \in Peer : halted[q] => halted'[q]
  BY <1>7, <1>1 DEF Decide, DecideAI, DecideLocal, ApplyRemote, Release, gameVars, rosterVars, TypeOK
<1>8. ASSUME NEW p \in Peer, Apply(p) \/ Diverge(p)
      PROVE  /\ table' = table /\ joined' = joined /\ halted' = halted
             /\ \A q \in Peer : drift[q] => drift'[q]
  BY <1>8, <1>1 DEF Apply, Diverge, rosterVars, TypeOK
<1>9. CASE UNCHANGED vars
  BY <1>9 DEF vars, gameVars, rosterVars
<1>10. ASSUME NEW p \in Peer, TakeRoster(p), NEW q \in Peer PROVE joined[q] \subseteq joined'[q]
  <2>1. joined \in [Peer -> SUBSET Node]
    BY <1>1 DEF TypeOK
  <2> QED
    BY <2>1, <1>5, <1>10
<1> QED
  BY <1>2, <1>3, <1>4, <1>5, <1>6, <1>7, <1>8, <1>9, <1>10 DEF Next, Boundary

-------------------------------------------------------------------------------
(* One copy.                                                               *)

LEMMA LastTurnType == LastTurn \in Nat /\ LastTurn >= 1
BY BoundsAssumption DEF LastTurn

LEMMA Decisions == Decisive(Decision) /\ Decisive(Action)
BY DEF Decisive, Decision, Action

LEMMA TakenType ==
  ASSUME TypeOK, NEW p \in Peer, NEW b \in Node
  PROVE  /\ Taken(p, b) \in Seq(Decision)
         /\ hist[p][b] \in Seq(Decision) /\ queued[p] \in Seq(Decision)
<1>1. hist[p][b] \in Seq(Decision) /\ queued[p] \in Seq(Decision)
  BY DEF TypeOK
<1>2. (IF node[p] = b THEN queued[p] ELSE <<>>) \in Seq(Decision)
  BY <1>1
<1> QED
  BY <1>1, <1>2, ConcatProperties DEF Taken

LEMMA TakenIdle ==
  ASSUME TypeOK, NEW p \in Peer, NEW b \in Node, node[p] # b \/ queued[p] = <<>>
  PROVE  Taken(p, b) = hist[p][b]
<1>1. hist[p][b] \in Seq(Decision)
  BY DEF TypeOK
<1> QED
  BY <1>1, ConcatEmptySeq DEF Taken

LEMMA SeatedNext ==
  ASSUME NEW ds \in Seq(Decision), NEW d \in Decision, Seated(ds),
         d.cat = Seat(Ends(ds, Len(ds))), Ends(ds, Len(ds)) < LastTurn,
         d.cat \notin Human => d.act = EndTurn
  PROVE  Seated(Append(ds, d))
<1> DEFINE r == Append(ds, d)
           n == Len(ds)
<1>1. n \in Nat /\ Len(r) = n + 1 /\ r[n + 1] = d /\ \A i \in 1 .. n : r[i] = ds[i]
  BY AppendProperties, LenProperties
<1> HIDE DEF r, n
<1>2. \A i \in 0 .. n : Ends(r, i) = Ends(ds, i)
  <2> TAKE i \in 0 .. n
  <2>1. i \in Nat /\ \A j \in 1 .. i : r[j] = ds[j]
    BY <1>1
  <2> QED
    BY <2>1, EndsSame
<1>3. ASSUME NEW i \in 1 .. n + 1
      PROVE  /\ r[i].cat = Seat(Ends(r, i - 1))
             /\ Ends(r, i - 1) < LastTurn
             /\ r[i].cat \notin Human => r[i].act = EndTurn
  <2>1. i - 1 \in 0 .. n
    BY <1>1
  <2>2. Ends(r, i - 1) = Ends(ds, i - 1)
    BY <2>1, <1>2
  <2>3. CASE i = n + 1
    <3>1. i - 1 = n
      BY <2>3, <1>1
    <3> QED
      BY <2>2, <2>3, <3>1, <1>1 DEF n
  <2>4. CASE i # n + 1
    <3>1. i \in 1 .. n
      BY <2>4, <1>1
    <3> QED
      BY <3>1, <2>2, <1>1 DEF Seated, n
  <2> QED
    BY <2>3, <2>4
<1> QED
  BY <1>1, <1>3 DEF Seated, r

LEMMA CopyFrame ==
  ASSUME NEW p \in Peer, Copy(p),
         hist'[p] = hist[p], node'[p] = node[p], phase'[p] = phase[p], clock'[p] = clock[p],
         queued'[p] = queued[p], battles'[p] = battles[p], outstanding'[p] => outstanding[p]
  PROVE  Copy(p)'
<1>1. Placed(p)' /\ Paced(p)'
  BY DEF Copy, Placed, Paced, Finished, Over
<1>2. Behind(p)'
  BY DEF Copy, Behind, Stale, Finished, Over
<1>3. \A b \in Node : Taken(p, b)' = Taken(p, b)
  BY DEF Taken
<1>4. \A b \in Node : Seated(Taken(p, b))'
  BY <1>3 DEF Copy, Seated
<1> QED
  BY <1>1, <1>2, <1>4 DEF Copy

(* What the ring remembers after entering n it remembered before, but for  *)
(* the battle left.                                                        *)
LEMMA RetiredBefore ==
  ASSUME NEW t \in Tracker, NEW n \in Node, NEW b \in Node, IsRetired(EnterBattle(t, n), b)
  PROVE  IsRetired(t, b) \/ b = t.current
<1>1. t.retired \in Seq(Node) /\ t.current \in Node \cup {NoBattle}
  BY DEF Tracker
<1>2. CASE n = t.current
  BY <1>2 DEF EnterBattle
<1>3. CASE n # t.current
  <2> DEFINE e == EnterBattle(t, n)
  <2>1. /\ e.current = n
        /\ e.retired = IF t.current = NoBattle THEN t.retired ELSE PushRetired(t.retired, t.current)
    BY <1>3 DEF EnterBattle
  <2>2. Remembers(e.retired, b)
    BY DEF IsRetired, BattleRel
  <2> HIDE DEF e
  <2>3. ASSUME NEW x \in Node, Remembers(PushRetired(t.retired, x), b)
        PROVE  Remembers(t.retired, b) \/ b = x
    <3>1. CASE Remembers(t.retired, x)
      BY <2>3, <3>1 DEF PushRetired
    <3>2. CASE ~Remembers(t.retired, x)
      <4> DEFINE u == IF Len(t.retired) < Slots THEN t.retired ELSE Tail(t.retired)
      <4>1. t.retired = <<>> => Len(t.retired) < Slots
        BY SlotsAssumption, EmptySeq
      <4>2. /\ u \in Seq(Node)
            /\ \A i \in 1 .. Len(u) : Remembers(t.retired, u[i])
        <5>1. CASE Len(t.retired) < Slots
          BY <5>1, <1>1 DEF Remembers
        <5>2. CASE ~(Len(t.retired) < Slots)
          <6>1. /\ Tail(t.retired) \in Seq(Node) /\ Len(Tail(t.retired)) = Len(t.retired) - 1
                /\ \A i \in 1 .. Len(Tail(t.retired)) : Tail(t.retired)[i] = t.retired[i + 1]
                /\ Len(t.retired) \in Nat
            BY <5>2, <4>1, <1>1, HeadTailProperties, LenProperties
          <6>2. \A i \in 1 .. Len(Tail(t.retired)) : i + 1 \in 1 .. Len(t.retired)
            BY <6>1
          <6> QED
            BY <5>2, <6>1, <6>2 DEF Remembers
        <5> QED
          BY <5>1, <5>2
      <4> HIDE DEF u
      <4>3. PICK i \in 1 .. Len(Append(u, x)) : Append(u, x)[i] = b
        BY <2>3, <3>2 DEF PushRetired, Remembers, u
      <4>4. /\ Len(Append(u, x)) = Len(u) + 1 /\ Append(u, x)[Len(u) + 1] = x
            /\ \A j \in 1 .. Len(u) : Append(u, x)[j] = u[j]
            /\ Len(u) \in Nat
        BY <4>2, AppendProperties, LenProperties
      <4>5. i = Len(u) + 1 \/ i \in 1 .. Len(u)
        BY <4>4
      <4> QED
        BY <4>2, <4>3, <4>4, <4>5
    <3> QED
      BY <3>1, <3>2
  <2>4. Remembers(t.retired, b) \/ b = t.current
    BY <2>1, <2>2, <2>3, <1>1
  <2> QED
    BY <2>4 DEF IsRetired, BattleRel
<1> QED
  BY <1>2, <1>3

LEMMA CopyEnter ==
  ASSUME TypeInv, NEW p \in Peer, Copy(p), NEW n \in Node, Untouched(p, n),
         phase[p] = "map", EnterNode(p, n),
         queued' = queued, hist' = hist, outstanding' = outstanding
  PROVE  Copy(p)'
<1>1. /\ battles' = [battles EXCEPT ![p] = EnterBattle(battles[p], n)]
      /\ IF n \in Combat
         THEN /\ phase' = [phase EXCEPT ![p] = "boundary"]
              /\ node' = [node EXCEPT ![p] = n]
              /\ clock' = [clock EXCEPT ![p] = 0]
         ELSE UNCHANGED <<phase, node, clock>>
  BY DEF EnterNode
<1>2. TypeOK /\ queued[p] = <<>> /\ hist[p][n] = <<>> /\ node[p] # n /\ battles[p].current # n
  BY DEF TypeInv, InBattle, Untouched
<1>3. battles[p] \in Tracker /\ battles'[p] = EnterBattle(battles[p], n) /\ battles'[p].current = n
  BY <1>1, <1>2, TrackerType DEF TypeOK
<1>4. /\ n \in Combat => phase'[p] = "boundary" /\ node'[p] = n /\ clock'[p] = 0
      /\ n \notin Combat => phase'[p] = "map" /\ node'[p] = node[p] /\ clock'[p] = clock[p]
  BY <1>1, <1>2 DEF TypeOK
<1>5. Placed(p) /\ Paced(p) /\ Behind(p)
  BY DEF Copy
<1>6. \A b \in Node : (Finished(p, b)' <=> Finished(p, b)) /\ Over(p, b)' = Over(p, b)
  BY DEF Finished, Over
<1>7. \A b \in Node : b # n => hist[p][b] = <<>> \/ Finished(p, b)
  <2> TAKE b \in Node
  <2>1. b # node[p] => hist[p][b] = <<>> \/ Finished(p, b)
    BY <1>5 DEF Behind
  <2>2. b = node[p] => Finished(p, b)
    BY <1>5, NoneIsNoNode DEF Paced
  <2> QED
    BY <2>1, <2>2
<1>8. Placed(p)'
  BY <1>3, <1>4, <1>5, NodeAssumption DEF Placed
<1>9. Paced(p)'
  <2>1. CASE n \in Combat
    <3>1. Over(p, n) = 0
      BY <1>2, EndsNone DEF Over
    <3> QED
      BY <2>1, <3>1, <1>4, <1>6, LastTurnType DEF Paced
  <2>2. CASE n \notin Combat
    <3>1. node[p] \in Node \cup {NoBattle}
      BY <1>2 DEF TypeOK
    <3> QED
      BY <2>2, <3>1, <1>2, <1>4, <1>5, <1>6 DEF Paced
  <2> QED
    BY <2>1, <2>2
<1>10. Behind(p)'
  <2> SUFFICES ASSUME NEW b \in Node
               PROVE  /\ b # node'[p] => hist[p][b] = <<>> \/ Finished(p, b)
                      /\ b \in Combat /\ Stale(p, b)' => Finished(p, b)
    BY <1>6 DEF Behind
  <2>1. b # node'[p] => hist[p][b] = <<>> \/ Finished(p, b)
    BY <1>2, <1>4, <1>7
  <2>2. ASSUME b \in Combat, Stale(p, b)' PROVE Finished(p, b)
    <3>1. Stale(p, b) \/ b = battles[p].current
      BY <2>2, <1>3, RetiredBefore DEF Stale
    <3>2. b = battles[p].current => node[p] = b
      BY <2>2, <1>5 DEF Placed
    <3> QED
      BY <2>2, <3>1, <3>2, <1>5, NoneIsNoNode DEF Behind, Paced
  <2> QED
    BY <2>1, <2>2
<1>11. ASSUME NEW b \in Node PROVE Seated(Taken(p, b))'
  <2>1. Taken(p, b) = hist[p][b] /\ Seated(Taken(p, b))
    BY <1>2, TakenIdle DEF Copy
  <2>2. Taken(p, b)' = hist[p][b] \o <<>>
    BY <1>2 DEF Taken
  <2>3. hist[p][b] \o <<>> = hist[p][b]
    BY <1>2, TakenType, ConcatEmptySeq
  <2> QED
    BY <2>1, <2>2, <2>3 DEF Seated
<1> QED
  BY <1>8, <1>9, <1>10, <1>11 DEF Copy

LEMMA CopyBegin ==
  ASSUME TypeInv, NEW p \in Peer, Copy(p), phase[p] = "boundary", BeginTurn(p),
         battles' = battles, outstanding'[p] => outstanding[p]
  PROVE  Copy(p)'
<1>1. /\ phase'[p] = "turn" /\ clock'[p] = clock[p] + 1 /\ clock[p] \in Nat
      /\ node' = node /\ queued' = queued /\ hist' = hist
  BY DEF BeginTurn, TypeInv, TypeOK
<1>2. Placed(p)'
  BY <1>1 DEF Copy, Placed
<1>3. Paced(p)'
  <2>1. Over(p, node[p]) = clock[p] /\ clock[p] < LastTurn
    BY DEF Copy, Paced
  <2>2. Over(p, node[p])' = Over(p, node[p])
    BY <1>1 DEF Over
  <2>3. clock'[p] - 1 = clock[p] /\ clock'[p] \in 1 .. LastTurn
    BY <1>1, <2>1, LastTurnType
  <2> QED
    BY <1>1, <2>1, <2>2, <2>3 DEF Paced
<1>4. Behind(p)'
  BY <1>1 DEF Copy, Behind, Stale, Finished, Over
<1>5. \A b \in Node : Seated(Taken(p, b))'
  <2> TAKE b \in Node
  <2>1. Taken(p, b)' = Taken(p, b)
    BY <1>1 DEF Taken
  <2>2. Seated(Taken(p, b))
    BY DEF Copy
  <2> QED
    BY <2>1, <2>2 DEF Seated
<1> QED
  BY <1>1, <1>2, <1>3, <1>4, <1>5 DEF Copy

(* A decision released is the next of the copy.                            *)
LEMMA TakenNext ==
  ASSUME TypeInv, NEW p \in Peer, queued[p] = <<>>, NEW d \in Decision, Release(p, d)
  PROVE  \A q \in Peer, b \in Node :
           /\ q = p /\ b = node[p] => Taken(q, b)' = Append(Taken(q, b), d)
           /\ ~(q = p /\ b = node[p]) => Taken(q, b)' = Taken(q, b)
<1> SUFFICES ASSUME NEW q \in Peer, NEW b \in Node
             PROVE  /\ q = p /\ b = node[p] => Taken(q, b)' = Append(Taken(q, b), d)
                    /\ ~(q = p /\ b = node[p]) => Taken(q, b)' = Taken(q, b)
  OBVIOUS
<1>1. TypeOK /\ node' = node /\ hist' = hist /\ queued'[p] = <<d>>
      /\ \A r \in Peer : r # p => queued'[r] = queued[r]
  BY DEF Release, TypeInv, TypeOK
<1>2. ASSUME q = p, b = node[p] PROVE Taken(q, b)' = Append(Taken(q, b), d)
  <2>1. Taken(q, b) = hist[p][b] /\ hist[p][b] \in Seq(Decision)
    BY <1>1, <1>2, TakenIdle, TakenType
  <2>2. Taken(q, b)' = hist[p][b] \o <<d>>
    BY <1>1, <1>2 DEF Taken
  <2> QED
    BY <2>1, <2>2, AppendIsConcat
<1>3. ASSUME ~(q = p /\ b = node[p]) PROVE Taken(q, b)' = Taken(q, b)
  BY <1>1, <1>3 DEF Taken
<1> QED
  BY <1>2, <1>3

LEMMA CopyRelease ==
  ASSUME TypeInv, NEW p \in Peer, Copy(p), phase[p] = "turn", queued[p] = <<>>,
         NEW d \in Decision, d.cat = Actor(p), d.cat \notin Human => d.act = EndTurn,
         Release(p, d), battles' = battles
  PROVE  Copy(p)'
<1>1. /\ phase' = phase /\ node' = node /\ hist' = hist /\ clock' = clock
      /\ queued'[p] = <<d>> /\ TypeOK
  BY DEF Release, TypeInv, TypeOK
<1>2. Placed(p)' /\ Paced(p)'
  BY <1>1 DEF Copy, Placed, Paced, Finished, Over
<1>3. Behind(p)'
  BY <1>1 DEF Copy, Behind, Stale, Finished, Over
<1>4. Len(queued'[p]) <= 1 /\ queued'[p] # <<>>
  BY <1>1
<1>5. ASSUME NEW b \in Node PROVE Seated(Taken(p, b))'
  <2>1. Seated(Taken(p, b)) /\ Taken(p, b) \in Seq(Decision)
    BY <1>1, TakenType DEF Copy
  <2>2. CASE b = node[p]
    <3>1. Taken(p, b) = hist[p][b]
      BY <1>1, TakenIdle
    <3>2. Ends(Taken(p, b), Len(Taken(p, b))) = clock[p] - 1 /\ clock[p] \in 1 .. LastTurn
      BY <2>2, <3>1 DEF Copy, Paced, Over
    <3>3. d.cat = Seat(Ends(Taken(p, b), Len(Taken(p, b))))
      BY <3>2 DEF Actor, Seat
    <3>4. Ends(Taken(p, b), Len(Taken(p, b))) < LastTurn
      BY <3>2, LastTurnType
    <3>5. Seated(Append(Taken(p, b), d))
      BY <2>1, <3>3, <3>4, SeatedNext
    <3>6. Taken(p, b)' = Append(Taken(p, b), d)
      BY <2>2, TakenNext
    <3> QED
      BY <3>5, <3>6 DEF Seated
  <2>3. CASE b # node[p]
    <3>1. Taken(p, b)' = Taken(p, b)
      BY <2>3, TakenNext
    <3> QED
      BY <2>1, <3>1 DEF Seated
  <2> QED
    BY <2>2, <2>3
<1> QED
  BY <1>2, <1>3, <1>4, <1>5 DEF Copy

(* Applying a decision leaves what the copy has taken where it is.         *)
LEMMA TakenApplied ==
  ASSUME TypeInv, NEW p \in Peer, Copy(p), Apply(p)
  PROVE  /\ node[p] \in Node /\ Head(queued[p]) \in Decision
         /\ Taken(p, node[p]) = Append(hist[p][node[p]], Head(queued[p]))
         /\ hist'[p][node[p]] = Taken(p, node[p])
         /\ \A q \in Peer, b \in Node :
              /\ ~(q = p /\ b = node[p]) => hist'[q][b] = hist[q][b]
              /\ Taken(q, b)' = Taken(q, b)
<1>1. /\ queued[p] # <<>> /\ phase[p] = "turn" /\ node' = node
      /\ hist' = [hist EXCEPT ![p][node[p]] = Append(hist[p][node[p]], Head(queued[p]))]
      /\ queued' = [queued EXCEPT ![p] = <<>>] /\ TypeOK
  BY DEF Apply, TypeInv, InBattle
<1>2. node[p] \in Node /\ queued[p] \in Seq(Decision) /\ Len(queued[p]) <= 1
  BY <1>1 DEF TypeInv, TypeOK, InBattle, Copy
<1>3. Head(queued[p]) \in Decision /\ queued[p] = <<Head(queued[p])>>
  BY <1>1, <1>2
<1>4. hist[p][node[p]] \in Seq(Decision)
  BY <1>1, <1>2 DEF TypeOK
<1>5. Taken(p, node[p]) = Append(hist[p][node[p]], Head(queued[p]))
  <2>1. Taken(p, node[p]) = hist[p][node[p]] \o queued[p]
    BY DEF Taken
  <2> QED
    BY <2>1, <1>3, <1>4, AppendIsConcat
<1>6. hist'[p][node[p]] = Append(hist[p][node[p]], Head(queued[p]))
  BY <1>1, <1>2 DEF TypeOK
<1>7. \A q \in Peer, b \in Node : ~(q = p /\ b = node[p]) => hist'[q][b] = hist[q][b]
  BY <1>1, <1>2 DEF TypeOK
<1>8. queued'[p] = <<>> /\ \A q \in Peer : q # p => queued'[q] = queued[q]
  BY <1>1 DEF TypeOK
<1>9. ASSUME NEW q \in Peer, NEW b \in Node PROVE Taken(q, b)' = Taken(q, b)
  <2>1. CASE q # p
    BY <2>1, <1>1, <1>7, <1>8 DEF Taken
  <2>2. CASE q = p /\ b # node[p]
    BY <2>2, <1>1, <1>7, <1>8 DEF Taken
  <2>3. CASE q = p /\ b = node[p]
    <3>1. Taken(q, b)' = hist'[p][b] \o <<>>
      BY <2>3, <1>1, <1>8 DEF Taken
    <3>2. Taken(p, b) \in Seq(Decision)
      BY <1>1, TakenType
    <3>3. Taken(p, b) \o <<>> = Taken(p, b)
      BY <3>2, ConcatEmptySeq
    <3> QED
      BY <2>3, <3>1, <3>3, <1>5, <1>6
  <2> QED
    BY <2>1, <2>2, <2>3
<1> QED
  BY <1>2, <1>3, <1>5, <1>6, <1>7, <1>9

LEMMA EndsAppend ==
  ASSUME NEW S, NEW s \in Seq(S), NEW d \in S
  PROVE  Ends(Append(s, d), Len(Append(s, d))) =
           IF d.act = EndTurn THEN Ends(s, Len(s)) + 1 ELSE Ends(s, Len(s))
<1> DEFINE r == Append(s, d)
           n == Len(s)
<1>1. n \in Nat /\ Len(r) = n + 1 /\ r[n + 1] = d /\ \A i \in 1 .. n : r[i] = s[i]
  BY AppendProperties, LenProperties
<1> HIDE DEF r, n
<1>2. Ends(r, n) = Ends(s, n)
  BY <1>1, EndsSame
<1>3. Ends(r, n + 1) = IF r[n + 1].act = EndTurn THEN Ends(r, n) + 1 ELSE Ends(r, n)
  BY <1>1, EndsNext
<1> QED
  BY <1>1, <1>2, <1>3 DEF r, n

LEMMA CopyApply ==
  ASSUME TypeInv, NEW p \in Peer, Copy(p), Apply(p)
  PROVE  Copy(p)'
<1> DEFINE d == Head(queued[p])
           n == node[p]
<1>1. /\ phase[p] = "turn" /\ node' = node /\ clock' = clock /\ battles' = battles /\ TypeOK
      /\ queued' = [queued EXCEPT ![p] = <<>>]
      /\ outstanding' = [outstanding EXCEPT ![p] = FALSE]
      /\ phase' = [phase EXCEPT ![p] = IF d.act # EndTurn THEN "turn"
                                       ELSE IF clock[p] < Turns THEN "boundary" ELSE "map"]
  BY DEF Apply, TypeInv, InBattle
<1>2. /\ n \in Node /\ d \in Decision
      /\ Taken(p, n) = Append(hist[p][n], d) /\ hist'[p][n] = Taken(p, n)
      /\ \A b \in Node : b # n => hist'[p][b] = hist[p][b]
      /\ \A b \in Node : Taken(p, b)' = Taken(p, b)
  BY TakenApplied
<1>3. queued'[p] = <<>> /\ ~outstanding'[p]
  BY <1>1 DEF TypeOK
<1>4. Placed(p) /\ Paced(p) /\ Behind(p) /\ \A b \in Node : Seated(Taken(p, b))
  BY DEF Copy
<1>5. Over(p, n) = clock[p] - 1 /\ clock[p] \in 1 .. LastTurn
  BY <1>1, <1>4 DEF Paced
<1>6. Over(p, n)' = IF d.act = EndTurn THEN clock[p] ELSE clock[p] - 1
  <2>1. hist[p][n] \in Seq(Decision)
    BY <1>1, <1>2, TakenType
  <2>2. Over(p, n)' = Ends(Append(hist[p][n], d), Len(Append(hist[p][n], d)))
    BY <1>1, <1>2 DEF Over
  <2>3. clock[p] - 1 + 1 = clock[p]
    BY <1>5
  <2> HIDE DEF d, n
  <2>4. Ends(Append(hist[p][n], d), Len(Append(hist[p][n], d))) =
          IF d.act = EndTurn THEN Ends(hist[p][n], Len(hist[p][n])) + 1
          ELSE Ends(hist[p][n], Len(hist[p][n]))
    BY <1>2, <2>1, EndsAppend
  <2> QED
    BY <1>5, <2>2, <2>3, <2>4 DEF Over
<1>7. Placed(p)'
  <2>1. n \in Combat
    BY <1>2, <1>4, NoneIsNoNode DEF Placed
  <2> QED
    BY <2>1, <1>1, <1>2, <1>4 DEF Placed
<1>8. Paced(p)'
  <2>1. phase'[p] = IF d.act # EndTurn THEN "turn"
                    ELSE IF clock[p] < Turns THEN "boundary" ELSE "map"
    BY <1>1 DEF TypeOK
  <2>2. Turns \in Nat /\ LastTurn = IF Turns = 0 THEN 1 ELSE Turns
    BY BoundsAssumption DEF LastTurn
  <2>3. CASE d.act # EndTurn
    BY <2>1, <2>3, <1>1, <1>5, <1>6 DEF Paced
  <2>4. CASE d.act = EndTurn /\ clock[p] < Turns
    <3>1. phase'[p] = "boundary"
      BY <2>1, <2>4
    <3>2. clock[p] < LastTurn
      BY <2>2, <2>4, <1>5
    <3> QED
      BY <3>1, <3>2, <2>4, <1>1, <1>6 DEF Paced
  <2>5. CASE d.act = EndTurn /\ ~(clock[p] < Turns)
    <3>1. phase'[p] = "map"
      BY <2>1, <2>5
    <3>2. clock[p] = LastTurn
      BY <2>2, <2>5, <1>5
    <3> QED
      BY <3>1, <3>2, <2>5, <1>1, <1>6 DEF Paced, Finished
  <2> QED
    BY <2>3, <2>4, <2>5
<1>9. Behind(p)'
  <2> SUFFICES ASSUME NEW b \in Node
               PROVE  /\ b # n => hist'[p][b] = <<>> \/ Finished(p, b)'
                      /\ b \in Combat /\ Stale(p, b)' => Finished(p, b)'
    BY <1>1 DEF Behind
  <2>1. CASE b # n
    <3>1. hist'[p][b] = hist[p][b]
      BY <2>1, <1>2
    <3> QED
      BY <3>1, <2>1, <1>1, <1>4 DEF Behind, Finished, Over, Stale
  <2>2. CASE b = n
    <3>1. battles[p].current = b /\ b # NoBattle
      BY <2>2, <1>1, <1>2, NoneIsNoNode DEF TypeInv, InBattle
    <3>2. ~Stale(p, b)'
      BY <3>1, <1>1 DEF Stale, IsRetired, BattleRel
    <3> QED
      BY <2>2, <3>2
  <2> QED
    BY <2>1, <2>2
<1>10. \A b \in Node : Seated(Taken(p, b))'
  BY <1>2, <1>4 DEF Seated
<1>11. Len(queued'[p]) <= 1
  BY <1>3, EmptySeq
<1> QED
  BY <1>3, <1>7, <1>8, <1>9, <1>10, <1>11 DEF Copy

(* The decision an accepted one becomes.                                   *)
LEMMA OfferedParts ==
  ASSUME TypeInv, NEW p \in Peer, HumanPolled(p), Offered(p) # <<>>
  PROVE  /\ battles[p].current \in Node /\ node[p] = battles[p].current
         /\ Actor(p) \in Human /\ Actor(p) \in Cat
         /\ Offered(p) = pending[p][battles[p].current][Actor(p)]
         /\ Offered(p) \in Seq(Action)
         /\ Head(Offered(p)) \in Action
         /\ [cat |-> Actor(p), act |-> Head(Offered(p)).act] \in Decision
<1>1. phase[p] = "turn" /\ Actor(p) \in Human /\ Actor(p) \in Cat
  BY CatAssumption DEF HumanPolled, Polled
<1>2. battles[p].current \in Node /\ node[p] = battles[p].current
  BY <1>1 DEF TypeInv, InBattle
<1>3. Offered(p) = pending[p][battles[p].current][Actor(p)] /\ Offered(p) \in Seq(Action)
  BY <1>1, <1>2 DEF Offered, TypeInv, TypeOK
<1>4. Head(Offered(p)) \in Action
  BY <1>3, HeadTailProperties
<1>5. Head(Offered(p)).act \in Act
  BY <1>4 DEF Action
<1> QED
  BY <1>1, <1>2, <1>3, <1>4, <1>5 DEF Decision

(* What a copy decides is typed, its turn's, and an AI cat's ends the turn.*)
LEMMA DecideReleases ==
  ASSUME TypeInv, NEW p \in Peer, Decide(p)
  PROVE  /\ phase[p] = "turn" /\ queued[p] = <<>> /\ ~halted[p]
         /\ battles' = battles /\ roster' = roster /\ joined' = joined
         /\ \/ UNCHANGED gameVars /\ outstanding' = outstanding /\ ApplyRemote(p)
            \/ \E d \in Decision :
                 /\ Release(p, d) /\ d.cat = Actor(p)
                 /\ d.cat \notin Human => d.act = EndTurn
<1>1. Polled(p) /\ battles' = battles /\ roster' = roster /\ joined' = joined
  BY DEF Decide, DecideAI, DecideLocal, ApplyRemote, HumanPolled, rosterVars
<1>2. CASE DecideAI(p)
  <2>1. Actor(p) \in Cat
    BY ActorIsCat DEF TypeInv
  <2>2. [cat |-> Actor(p), act |-> EndTurn] \in Decision
    BY <2>1 DEF Decision, Act
  <2> QED
    BY <1>1, <1>2, <2>2 DEF DecideAI, Polled
<1>3. ASSUME NEW act \in Act, DecideLocal(p, act)
      PROVE  \E d \in Decision : /\ Release(p, d) /\ d.cat = Actor(p)
                                 /\ d.cat \notin Human => d.act = EndTurn
  <2>1. Actor(p) \in Human /\ Actor(p) \in Cat
    BY <1>3, CatAssumption DEF DecideLocal, HumanPolled
  <2>2. [cat |-> Actor(p), act |-> act] \in Decision
    BY <2>1 DEF Decision
  <2> QED
    BY <1>3, <2>1, <2>2 DEF DecideLocal
<1>4. CASE ApplyRemote(p)
  <2>1. Actor(p) \in Human /\ [cat |-> Actor(p), act |-> Head(Offered(p)).act] \in Decision
    BY <1>4, OfferedParts DEF ApplyRemote
  <2> QED
    BY <1>1, <1>4, <2>1 DEF ApplyRemote, Polled
<1> QED
  BY <1>1, <1>2, <1>3, <1>4 DEF Decide, Polled

LEMMA EntersUntouched ==
  ASSUME TypeInv, RoadInv
  PROVE  /\ \A n \in Node : HostEnterNode(n) => Untouched(Host, n)
         /\ \A c \in Client : FollowNode(c) =>
              /\ Head(nodeQ[c]) \in Node /\ Head(nodeQ[c]) = nodeQ[c][1] /\ 1 \in 1 .. Len(nodeQ[c])
              /\ Untouched(c, Head(nodeQ[c]))
<1>1. ASSUME NEW n \in Node, HostEnterNode(n) PROVE Untouched(Host, n)
  <2>1. ~OnRoute(n)
    BY <1>1 DEF HostEnterNode, OnRoute
  <2> QED
    BY <2>1, HostIsPeer DEF RoadInv
<1>2. ASSUME NEW c \in Client, FollowNode(c)
      PROVE  /\ Head(nodeQ[c]) \in Node /\ Head(nodeQ[c]) = nodeQ[c][1] /\ 1 \in 1 .. Len(nodeQ[c])
             /\ Untouched(c, Head(nodeQ[c]))
  <2>1. nodeQ[c] \in Seq(Node) /\ nodeQ[c] # <<>>
    BY <1>2 DEF FollowNode, TypeInv, TypeOK
  <2>2. Head(nodeQ[c]) \in Node /\ Head(nodeQ[c]) = nodeQ[c][1] /\ 1 \in 1 .. Len(nodeQ[c])
    BY <2>1
  <2> QED
    BY <2>2 DEF RoadInv, Follows
<1> QED
  BY <1>1, <1>2

(* What each peer's game does in a step: enter a node, begin a turn,       *)
(* release a decision, apply it, or nothing that a copy sees.              *)
Idle(q) ==
  /\ hist'[q] = hist[q] /\ node'[q] = node[q] /\ phase'[q] = phase[q] /\ clock'[q] = clock[q]
  /\ queued'[q] = queued[q] /\ battles'[q] = battles[q] /\ outstanding'[q] = outstanding[q]

LEMMA OthersIdle ==
  ASSUME TypeInv, NEW p \in Peer,
         \/ \E n \in Node : p = Host /\ HostEnterNode(n)
         \/ p \in Client /\ FollowNode(p)
         \/ Boundary(p) \/ Decide(p) \/ Apply(p)
  PROVE  \A q \in Peer : q # p => Idle(q)
<1>1. ASSUME NEW n \in Node, p = Host /\ HostEnterNode(n) PROVE \A q \in Peer : q # p => Idle(q)
  BY <1>1 DEF HostEnterNode, EnterNode, Idle, TypeInv, TypeOK
<1>2. CASE p \in Client /\ FollowNode(p)
  BY <1>2 DEF FollowNode, EnterNode, Idle, TypeInv, TypeOK
<1>3. CASE Boundary(p)
  BY <1>3 DEF Boundary, TakeRoster, NextTurn, BeginTurn, Idle, TypeInv, TypeOK, actionVars
<1>4. CASE Decide(p)
  <2>1. CASE DecideAI(p)
    BY <2>1 DEF DecideAI, Release, actionVars, Idle, TypeInv, TypeOK
  <2>2. ASSUME NEW act \in Act, DecideLocal(p, act) PROVE \A q \in Peer : q # p => Idle(q)
    BY <2>2 DEF DecideLocal, Release, Idle, TypeInv, TypeOK
  <2>3. CASE ApplyRemote(p)
    BY <2>3 DEF ApplyRemote, Release, gameVars, Idle, TypeInv, TypeOK
  <2> QED
    BY <1>4, <2>1, <2>2, <2>3 DEF Decide
<1>5. CASE Apply(p)
  <2>1. node[p] \in Node
    BY <1>5 DEF Apply, TypeInv, InBattle
  <2> QED
    BY <1>5, <2>1 DEF Apply, Idle, TypeInv, TypeOK
<1> QED
  BY <1>1, <1>2, <1>3, <1>4, <1>5

LEMMA AllIdle ==
  ASSUME TypeInv,
         \/ \E c \in Client : LinkReceive(c)
         \/ \E p \in Peer : PumpStep(p) \/ Diverge(p)
         \/ UNCHANGED vars
  PROVE  \A q \in Peer : Idle(q)
<1>1. ASSUME NEW c \in Client, LinkReceive(c) PROVE \A q \in Peer : Idle(q)
  BY <1>1 DEF LinkReceive, gameVars, actionVars, Idle
<1>2. ASSUME NEW p \in Peer, PumpStep(p) PROVE \A q \in Peer : Idle(q)
  BY <1>2 DEF PumpStep, Pump, OnEnterNode, OnControl, OnAction, OnHash, OnHalt,
              gameVars, actionVars, Idle
<1>3. ASSUME NEW p \in Peer, Diverge(p) PROVE \A q \in Peer : Idle(q)
  BY <1>3 DEF Diverge, actionVars, Idle
<1>4. CASE UNCHANGED vars
  BY <1>4 DEF vars, gameVars, actionVars, Idle
<1> QED
  BY <1>1, <1>2, <1>3, <1>4

LEMMA CopyStep ==
  ASSUME TypeInv, RoadInv, CopyInv, [Next]_vars
  PROVE  CopyInv'
<1>1. \A q \in Peer : Idle(q) => Copy(q)'
  <2> SUFFICES ASSUME NEW q \in Peer, Idle(q) PROVE Copy(q)'
    OBVIOUS
  <2>1. Copy(q)
    BY DEF CopyInv
  <2> QED
    BY <2>1, CopyFrame DEF Idle
<1>2. ASSUME NEW p \in Peer, Copy(p)', \A q \in Peer : q # p => Idle(q) PROVE CopyInv'
  BY <1>1, <1>2 DEF CopyInv
<1>3. ASSUME NEW n \in Node, HostEnterNode(n) PROVE CopyInv'
  <2>1. Copy(Host) /\ Untouched(Host, n) /\ Host \in Peer
    BY <1>3, HostIsPeer, EntersUntouched DEF CopyInv
  <2>2. /\ phase[Host] = "map" /\ EnterNode(Host, n)
        /\ queued' = queued /\ hist' = hist /\ outstanding' = outstanding
    BY <1>3 DEF HostEnterNode
  <2>3. Copy(Host)'
    BY <2>1, <2>2, CopyEnter
  <2> QED
    BY <1>2, <1>3, <2>1, <2>3, OthersIdle
<1>4. ASSUME NEW c \in Client, FollowNode(c) PROVE CopyInv'
  <2>1. /\ Copy(c) /\ Untouched(c, Head(nodeQ[c])) /\ Head(nodeQ[c]) \in Node /\ c \in Peer
    BY <1>4, HostIsPeer, EntersUntouched DEF CopyInv
  <2>2. /\ phase[c] = "map" /\ EnterNode(c, Head(nodeQ[c]))
        /\ queued' = queued /\ hist' = hist /\ outstanding' = outstanding
    BY <1>4 DEF FollowNode
  <2>3. Copy(c)'
    BY <2>1, <2>2, CopyEnter
  <2> QED
    BY <1>2, <1>4, <2>1, <2>3, OthersIdle
<1>5. ASSUME NEW p \in Peer, Boundary(p) PROVE CopyInv'
  <2>1. /\ phase[p] = "boundary" /\ BeginTurn(p) /\ battles' = battles
        /\ outstanding'[p] => outstanding[p]
    BY <1>5 DEF Boundary, TakeRoster, NextTurn, actionVars, TypeInv, TypeOK
  <2>2. Copy(p)'
    BY <2>1, CopyBegin DEF CopyInv
  <2> QED
    BY <1>2, <1>5, <2>2, OthersIdle
<1>6. ASSUME NEW p \in Peer, Decide(p) PROVE CopyInv'
  <2>1. Copy(p)
    BY DEF CopyInv
  <2>2. CASE UNCHANGED gameVars /\ outstanding' = outstanding
    <3>1. battles' = battles
      BY <1>6, DecideReleases
    <3> QED
      BY <2>2, <3>1, <1>1 DEF gameVars, Idle, CopyInv
  <2>3. ASSUME NEW d \in Decision, Release(p, d), d.cat = Actor(p), d.cat \notin Human => d.act = EndTurn
        PROVE  CopyInv'
    <3>1. phase[p] = "turn" /\ queued[p] = <<>> /\ battles' = battles
      BY <1>6, DecideReleases
    <3>2. Copy(p)'
      BY <2>1, <2>3, <3>1, CopyRelease
    <3> QED
      BY <1>2, <1>6, <3>2, OthersIdle
  <2> QED
    BY <1>6, <2>2, <2>3, DecideReleases
<1>7. ASSUME NEW p \in Peer, Apply(p) PROVE CopyInv'
  <2>1. Copy(p)'
    BY <1>7, CopyApply DEF CopyInv
  <2> QED
    BY <1>2, <1>7, <2>1, OthersIdle
<1>8. CASE \/ \E c \in Client : LinkReceive(c)
           \/ \E p \in Peer : PumpStep(p) \/ Diverge(p)
           \/ UNCHANGED vars
  BY <1>1, <1>8, AllIdle DEF CopyInv
<1> QED
  BY <1>3, <1>4, <1>5, <1>6, <1>7, <1>8 DEF Next

LEMMA TakenEnter ==
  ASSUME TypeInv, NEW p \in Peer, NEW n \in Node, phase[p] = "map", EnterNode(p, n),
         queued' = queued, hist' = hist, NEW q \in Peer, NEW b \in Node
  PROVE  Taken(q, b)' = Taken(q, b)
<1>1. CASE q = p
  <2>1. queued[p] = <<>> /\ queued'[p] = <<>> /\ hist'[p] = hist[p]
    BY DEF TypeInv, InBattle
  <2> QED
    BY <2>1, <1>1 DEF Taken
<1>2. CASE q # p
  <2>1. node'[q] = node[q]
    BY <1>2 DEF EnterNode, TypeInv, TypeOK
  <2> QED
    BY <2>1 DEF Taken
<1> QED
  BY <1>1, <1>2

(* Only a decision changes what a copy has taken.                          *)
LEMMA TakenSame ==
  ASSUME TypeInv, CopyInv, [Next]_vars, ~\E p \in Peer : Decide(p),
         NEW q \in Peer, NEW b \in Node
  PROVE  Taken(q, b)' = Taken(q, b)
<1>1. ASSUME Idle(q) PROVE Taken(q, b)' = Taken(q, b)
  BY <1>1 DEF Idle, Taken
<1>2. ASSUME NEW n \in Node, HostEnterNode(n) PROVE Taken(q, b)' = Taken(q, b)
  <2>1. phase[Host] = "map" /\ EnterNode(Host, n) /\ queued' = queued /\ hist' = hist
    BY <1>2 DEF HostEnterNode
  <2> QED
    BY <2>1, HostIsPeer, TakenEnter
<1>3. ASSUME NEW c \in Client, FollowNode(c) PROVE Taken(q, b)' = Taken(q, b)
  <2>1. /\ phase[c] = "map" /\ EnterNode(c, Head(nodeQ[c])) /\ queued' = queued /\ hist' = hist
        /\ Head(nodeQ[c]) \in Node
    BY <1>3, HeadTailProperties DEF FollowNode, TypeInv, TypeOK
  <2> QED
    BY <2>1, HostIsPeer, TakenEnter
<1>4. ASSUME NEW p \in Peer, Boundary(p) PROVE Taken(q, b)' = Taken(q, b)
  <2>1. hist' = hist /\ node' = node /\ queued' = queued
    BY <1>4 DEF Boundary, TakeRoster, NextTurn, BeginTurn
  <2> QED
    BY <2>1 DEF Taken
<1>5. ASSUME NEW p \in Peer, Apply(p) PROVE Taken(q, b)' = Taken(q, b)
  BY <1>5, TakenApplied DEF CopyInv
<1>6. CASE \/ \E c \in Client : LinkReceive(c)
           \/ \E p \in Peer : PumpStep(p) \/ Diverge(p)
           \/ UNCHANGED vars
  BY <1>1, <1>6, AllIdle
<1> QED
  BY <1>2, <1>3, <1>4, <1>5, <1>6 DEF Next

LEMMA ActedTaken ==
  ASSUME TypeInv, NEW p \in Peer, NEW b \in Node
  PROVE  HumanActed(p, b) <=> \E i \in 1 .. Len(Taken(p, b)) : Taken(p, b)[i].cat \in Human
<1>0. PICK h, u : h = hist[p][b] /\ u = (IF node[p] = b THEN queued[p] ELSE <<>>)
  OBVIOUS
<1>7. PICK r : r = h \o u
  OBVIOUS
<1>1. h \in Seq(Decision) /\ u \in Seq(Decision) /\ Taken(p, b) = r
  BY <1>0, <1>7, EmptyFits, TakenType DEF TypeInv, Taken
<1>2. /\ Len(h) \in Nat /\ Len(u) \in Nat /\ Len(r) = Len(h) + Len(u)
      /\ \A i \in 1 .. Len(h) + Len(u) : r[i] = IF i <= Len(h) THEN h[i] ELSE u[i - Len(h)]
  BY <1>7, <1>1, ConcatProperties, LenProperties
<1>3. HumanActed(p, b) <=> \/ \E i \in 1 .. Len(h) : h[i].cat \in Human
                          \/ \E i \in 1 .. Len(u) : u[i].cat \in Human
  <2>1. DOMAIN h = 1 .. Len(h) /\ DOMAIN u = 1 .. Len(u)
    BY <1>1, LenProperties
  <2>2. node[p] # b => Len(u) = 0
    BY <1>0, EmptySeq
  <2>3. \A i \in 1 .. Len(u) : node[p] = b
    BY <2>2
  <2> QED
    BY <2>1, <2>3, <1>0 DEF HumanActed
<1>4. ASSUME NEW i \in 1 .. Len(r), r[i].cat \in Human
      PROVE  \/ \E j \in 1 .. Len(h) : h[j].cat \in Human
             \/ \E j \in 1 .. Len(u) : u[j].cat \in Human
  <2>1. CASE i <= Len(h)
    <3>1. i \in 1 .. Len(h) /\ r[i] = h[i]
      BY <2>1, <1>2
    <3> QED
      BY <3>1, <1>4
  <2>2. CASE ~(i <= Len(h))
    <3>1. i - Len(h) \in 1 .. Len(u) /\ r[i] = u[i - Len(h)]
      BY <2>2, <1>2
    <3> QED
      BY <3>1, <1>4
  <2> QED
    BY <2>1, <2>2
<1>5. ASSUME NEW j \in 1 .. Len(h), h[j].cat \in Human PROVE \E i \in 1 .. Len(r) : r[i].cat \in Human
  <2>1. j \in 1 .. Len(r) /\ r[j] = h[j]
    BY <1>2
  <2> QED
    BY <2>1, <1>5
<1>6. ASSUME NEW j \in 1 .. Len(u), u[j].cat \in Human PROVE \E i \in 1 .. Len(r) : r[i].cat \in Human
  <2>1. /\ j + Len(h) \in 1 .. Len(r) /\ ~(j + Len(h) <= Len(h)) /\ (j + Len(h)) - Len(h) = j
        /\ j + Len(h) \in 1 .. Len(h) + Len(u)
    BY <1>2
  <2>2. r[j + Len(h)] = u[j]
    BY <2>1, <1>2
  <2> QED
    BY <2>1, <2>2, <1>6
<1> QED
  BY <1>1, <1>3, <1>4, <1>5, <1>6

LEMMA ActedTakenNext ==
  TypeInv' => \A p \in Peer, b \in Node :
                HumanActed(p, b)' <=> \E i \in 1 .. Len(Taken(p, b)') : Taken(p, b)'[i].cat \in Human
<1> DEFINE Acted == \A p \in Peer, b \in Node :
             HumanActed(p, b) <=> \E i \in 1 .. Len(Taken(p, b)) : Taken(p, b)[i].cat \in Human
<1>1. TypeInv => Acted
  BY ActedTaken
<1> HIDE DEF Acted
<1>2. TypeInv' => Acted'
  BY <1>1, PTL
<1> QED
  BY <1>2 DEF Acted

-------------------------------------------------------------------------------
(* What is said in a step, and by whom.                                    *)

Chatter == {m \in Message : m.type \in {"CONTROL", "HASH", "HALT"}}

LEMMA HaltIn ==
  ASSUME NEW X, NEW p \in Peer, NEW bad, bad /\ ~halted[p] => Halt(p) \in X
  PROVE  HaltIf(p, bad) \in Seq(X)
BY EmptyFits, OneFits DEF HaltIf

LEMMA HashesIn ==
  ASSUME NEW X, NEW p \in Peer, NEW t, NEW held, NEW stopped,
         ~stopped => [type |-> "HASH", from |-> p, hash |-> BuildHash(p, t)] \in X,
         ~stopped /\ Mismatch(p, BuildHash(p, t), held) /\ ~halted[p] => Halt(p) \in X
  PROVE  HashMessages(p, t, held, stopped) \in Seq(X)
<1>0. PICK h, m : h = BuildHash(p, t) /\ m = [type |-> "HASH", from |-> p, hash |-> h]
  OBVIOUS
<1>1. CASE ~stopped
  <2>1. <<m>> \in Seq(X) /\ HaltIf(p, Mismatch(p, h, held)) \in Seq(X)
    BY <1>0, <1>1, OneFits, HaltIn
  <2>2. <<m>> \o HaltIf(p, Mismatch(p, h, held)) \in Seq(X)
    BY <2>1, ConcatProperties
  <2> QED
    BY <2>2, <1>0, <1>1 DEF HashMessages
<1>2. CASE stopped
  BY <1>2, EmptyFits DEF HashMessages
<1> QED
  BY <1>1, <1>2

LEMMA ChatterSaid ==
  ASSUME TypeInv, NEW p \in Peer
  PROVE  /\ Halt(p) \in Chatter
         /\ \A t \in Nat : node[p] \in Node /\ battles[p].current \in Node =>
              [type |-> "HASH", from |-> p, hash |-> BuildHash(p, t)] \in Chatter
         /\ battles[p].current \in Node =>
              [type |-> "CONTROL", from |-> p,
               control |-> [battle |-> battles[p].current, cats |-> Claims(p)]] \in Chatter
<1>1. Halt(p) \in Chatter
  BY DEF Halt, Message, Chatter
<1>2. ASSUME NEW t \in Nat, node[p] \in Node, battles[p].current \in Node
      PROVE  [type |-> "HASH", from |-> p, hash |-> BuildHash(p, t)] \in Chatter
  <2> DEFINE h == BuildHash(p, t)
  <2>1. h \in Hash
    BY <1>2, HashType DEF TypeInv
  <2> HIDE DEF h
  <2>2. [type |-> "HASH", from |-> p, hash |-> h] \in Chatter
    BY <2>1 DEF Message, Chatter
  <2> QED
    BY <2>2 DEF h
<1>3. ASSUME battles[p].current \in Node
      PROVE  [type |-> "CONTROL", from |-> p,
              control |-> [battle |-> battles[p].current, cats |-> Claims(p)]] \in Chatter
  <2> DEFINE k == [battle |-> battles[p].current, cats |-> Claims(p)]
  <2>1. k \in Control
    BY <1>3 DEF Control, Claims
  <2> HIDE DEF k
  <2>2. [type |-> "CONTROL", from |-> p, control |-> k] \in Chatter
    BY <2>1 DEF Message, Chatter
  <2> QED
    BY <2>2 DEF k
<1> QED
  BY <1>1, <1>2, <1>3

(* The turn whose hash a boundary takes: the first of a new battle, or the *)
(* one the peer has come to.                                               *)
Key(p) == IF roster[p] \in {NoBattle, node[p]} THEN turn[p] ELSE 0

SplitOf(p) ==
  [type |-> "CONTROL", from |-> p,
   control |-> [battle |-> battles[p].current, cats |-> Claims(p)]]
HashOf(p) == [type |-> "HASH", from |-> p, hash |-> BuildHash(p, Key(p))]

(* A boundary says the split, the hash and, if they clash, that it halts.  *)
(* X is any set of messages with these in it.                              *)
LEMMA RosterSays ==
  ASSUME TypeInv, NEW X, NEW p \in Peer, TakeRoster(p), SplitOf(p) \in X,
         ~halted[p] => HashOf(p) \in X,
         halted'[p] /\ ~halted[p] => Halt(p) \in X
  PROVE  \E ms \in Seq(X) : Transmit(p, inq, ms)
<1> DEFINE fresh == roster[p] # NoBattle
           drops(id) == fresh /\ Stale(p, id)
           mine == [battle |-> battles[p].current, cats |-> Claims(p)]
           ctl == [q \in Peer |-> IF q = p THEN mine
                                  ELSE IF drops(control[p][q].battle) THEN NoControl
                                  ELSE control[p][q]]
           checks == AllReported(ctl, battles[p].current)
           bad == checks /\ ~SplitAgrees(ctl)
           stopped == halted[p] \/ bad
           t == IF fresh THEN 0 ELSE turn[p]
           held == [q \in Peer |-> {g \in peerHash[p][q] : ~drops(g.battle)}]
           differs == ~stopped /\ Mismatch(p, BuildHash(p, t), held)
           m == [type |-> "CONTROL", from |-> p, control |-> mine]
           ms == <<m>> \o HaltIf(p, bad) \o HashMessages(p, t, held, stopped)
<1>1. /\ Transmit(p, inq, ms)
      /\ halted' = [halted EXCEPT ![p] = halted[p] \/ bad \/ differs]
  BY DEF TakeRoster
<1>2. m \in X
  BY DEF SplitOf
<1>3. bad \/ differs => halted'[p]
  <2> HIDE DEF bad, differs
  <2> QED
    BY <1>1 DEF TypeInv, TypeOK
<1>4. roster[p] \in {NoBattle, node[p]} => ~fresh \/ halted[p]
  BY DEF TakeRoster
<1>5. ~stopped => t = Key(p) /\ ~halted[p]
  <2>1. stopped = (halted[p] \/ bad)
    OBVIOUS
  <2> HIDE DEF bad
  <2> QED
    BY <2>1, <1>4, NoneIsNoNode DEF Key, TakeRoster
<1>6. ~stopped => [type |-> "HASH", from |-> p, hash |-> BuildHash(p, t)] \in X
  <2> HIDE DEF t, stopped
  <2> QED
    BY <1>5 DEF HashOf
<1>7. ~stopped /\ Mismatch(p, BuildHash(p, t), held) /\ ~halted[p] => Halt(p) \in X
  <2>1. ~stopped /\ Mismatch(p, BuildHash(p, t), held) => differs
    OBVIOUS
  <2> HIDE DEF stopped, t, held, differs, bad
  <2> QED
    BY <2>1, <1>3
<1> HIDE DEF m, bad, t, held, stopped, differs
<1>8. <<m>> \in Seq(X) /\ HaltIf(p, bad) \in Seq(X) /\ HashMessages(p, t, held, stopped) \in Seq(X)
  BY <1>2, <1>3, <1>6, <1>7, OneFits, HaltIn, HashesIn
<1>9. ms \in Seq(X)
  BY <1>8, ConcatProperties
<1> QED
  BY <1>1, <1>9

LEMMA TurnSays ==
  ASSUME TypeInv, NEW X, NEW p \in Peer, NextTurn(p),
         ~halted[p] => HashOf(p) \in X,
         halted'[p] /\ ~halted[p] => Halt(p) \in X
  PROVE  \E ms \in Seq(X) : Transmit(p, inq, ms)
<1>1. ~halted[p] => Key(p) = turn[p]
  BY DEF NextTurn, Key
<1>2. Mismatch(p, BuildHash(p, turn[p]), peerHash[p]) => halted'[p]
  BY DEF NextTurn, TypeInv, TypeOK
<1>3. HashMessages(p, turn[p], peerHash[p], halted[p]) \in Seq(X)
  BY <1>1, <1>2, HashesIn DEF HashOf
<1> QED
  BY <1>3 DEF NextTurn

LEMMA KeyType == ASSUME TypeInv, NEW p \in Peer PROVE Key(p) \in Nat
BY DEF Key, TypeInv, TypeOK

LEMMA BoundarySays ==
  ASSUME TypeInv, NEW p \in Peer, Boundary(p)
  PROVE  \E ms \in Seq(Chatter) : Transmit(p, inq, ms)
<1>1. node[p] \in Node /\ battles[p].current \in Node
  BY DEF Boundary, TakeRoster, NextTurn, TypeInv, TypeOK, InBattle
<1>2. SplitOf(p) \in Chatter /\ HashOf(p) \in Chatter /\ Halt(p) \in Chatter
  BY <1>1, KeyType, ChatterSaid DEF SplitOf, HashOf
<1> QED
  BY <1>2, RosterSays, TurnSays DEF Boundary

LEMMA PumpSays ==
  ASSUME TypeInv, NEW X, NEW p \in Peer, PumpStep(p),
         halted'[p] /\ ~halted[p] => Halt(p) \in X
  PROVE  \E ms \in Seq(X) : Transmit(p, Rest(p), ms)
<1> DEFINE m == Head(inq[p])
<1>1. <<>> \in Seq(X)
  BY EmptyFits
<1>2. CASE OnEnterNode(p, m) \/ OnAction(p, m) \/ OnHalt(p, m)
  BY <1>1, <1>2 DEF OnEnterNode, OnAction, OnHalt
<1>3. CASE OnControl(p, m) \/ OnHash(p, m)
  <2>1. PICK bad : Transmit(p, Rest(p), HaltIf(p, bad))
                   /\ halted' = [halted EXCEPT ![p] = halted[p] \/ bad]
    BY <1>3 DEF OnControl, OnHash
  <2>2. bad => halted'[p]
    BY <2>1 DEF TypeInv, TypeOK
  <2>3. HaltIf(p, bad) \in Seq(X)
    BY <2>2, HaltIn
  <2> QED
    BY <2>1, <2>3
<1> QED
  BY <1>2, <1>3 DEF PumpStep, Pump

NodeOf(n) == [type |-> "ENTERNODE", from |-> Host, seed |-> n]

Move(p, act) ==
  [battle |-> battles[p].current, turn |-> turn[p], cat |-> Actor(p), act |-> act]
MoveOf(p, act) == [type |-> "ACTION", from |-> p, action |-> Move(p, act)]

(* The links carry only what is in In and Out as long as all that is said  *)
(* and passed on is.                                                       *)
LEMMA LinksStep ==
  ASSUME TypeInv, [Next]_vars, NEW In, NEW Out, NEW Said,
         \A q \in Peer : inq[q] \in Seq(In[q]),
         \A c \in Client : up[c] \in Seq(Out[c]),
         \A c \in Client : LinkReceive(c) => \A q \in Peer : q # c => Head(up[c]) \in In[q],
         \A q \in Client : Said[Host] \subseteq In[q],
         \A c \in Client : Said[c] \subseteq Out[c],
         \A n \in Node : HostEnterNode(n) => NodeOf(n) \in Said[Host],
         \A p \in Peer :
           /\ halted'[p] /\ ~halted[p] => Halt(p) \in Said[p]
           /\ TakeRoster(p) => SplitOf(p) \in Said[p]
           /\ Boundary(p) /\ ~halted[p] => HashOf(p) \in Said[p]
           /\ \A act \in Act : DecideLocal(p, act) /\ ~outstanding[p] => MoveOf(p, act) \in Said[p]
  PROVE  /\ \A q \in Peer : inq'[q] \in Seq(In[q])
         /\ \A c \in Client : up'[c] \in Seq(Out[c])
<1> DEFINE Links == /\ \A q \in Peer : inq'[q] \in Seq(In[q])
                    /\ \A c \in Client : up'[c] \in Seq(Out[c])
<1>1. DOMAIN up = Client /\ DOMAIN inq = Peer
  BY DEF TypeInv, TypeOK
<1>2. ASSUME NEW p \in Peer, NEW box, NEW ms \in Seq(Said[p]), Transmit(p, box, ms),
             \A q \in Peer : box[q] \in Seq(In[q])
      PROVE  Links
  <2>1. p = Host => \A q \in Client : ms \in Seq(In[q])
    BY SeqMonotonic
  <2>2. p # Host => ms \in Seq(Out[p])
    <3>1. p # Host => p \in Client
      BY DEF Peer
    <3> QED
      BY <3>1, SeqMonotonic
  <2> QED
    BY <1>1, <1>2, <2>1, <2>2, TransmitKeeps
<1>3. ASSUME UNCHANGED netVars PROVE Links
  BY <1>3 DEF netVars
<1> HIDE DEF Links
<1>4. ASSUME NEW n \in Node, HostEnterNode(n) PROVE Links
  <2>1. Transmit(Host, inq, <<NodeOf(n)>>) /\ <<NodeOf(n)>> \in Seq(Said[Host])
    BY <1>4, OneFits DEF HostEnterNode, NodeOf
  <2> QED
    BY <2>1, <1>2, HostIsPeer
<1>5. ASSUME NEW c \in Client, LinkReceive(c) PROVE Links
  <2>0. PICK m : m = Head(up[c])
    OBVIOUS
  <2>1. /\ up[c] # <<>> /\ up' = [up EXCEPT ![c] = Tail(up[c])]
        /\ \A q \in Peer : inq'[q] = inq[q] \/ (inq'[q] = Append(inq[q], m) /\ (q = Host \/ q # c))
    BY <2>0, <1>5 DEF LinkReceive
  <2>2. \A q \in Peer : (q = Host \/ q # c) => m \in In[q]
    BY <2>0, <1>5, HostIsPeer
  <2>3. \A q \in Peer : inq'[q] \in Seq(In[q])
    BY <2>1, <2>2, AppendFits
  <2>4. Tail(up[c]) \in Seq(Out[c])
    BY <2>1, HeadTailProperties
  <2>5. \A d \in Client : up'[d] \in Seq(Out[d])
    BY <2>1, <2>4, <1>1
  <2> QED
    BY <2>3, <2>5 DEF Links
<1>6. ASSUME NEW p \in Peer, PumpStep(p) PROVE Links
  <2>1. \E ms \in Seq(Said[p]) : Transmit(p, Rest(p), ms)
    BY <1>6, PumpSays
  <2>2. \A q \in Peer : Rest(p)[q] \in Seq(In[q])
    <3>1. Tail(inq[p]) \in Seq(In[p])
      BY <1>6, HeadTailProperties DEF PumpStep
    <3> QED
      BY <3>1, <1>1 DEF Rest
  <2> QED
    BY <2>1, <2>2, <1>2
<1>7. ASSUME NEW p \in Peer, Boundary(p) PROVE Links
  <2>1. CASE TakeRoster(p)
    BY <2>1, <1>2, <1>7, RosterSays
  <2>2. CASE NextTurn(p)
    BY <2>2, <1>2, <1>7, TurnSays
  <2> QED
    BY <2>1, <2>2, <1>7 DEF Boundary
<1>8. ASSUME NEW p \in Peer, DecideAI(p) PROVE Links
  BY <1>3, <1>8 DEF DecideAI
<1>9. ASSUME NEW p \in Peer, NEW act \in Act, DecideLocal(p, act) PROVE Links
  <2>1. CASE outstanding[p]
    BY <2>1, <1>3, <1>9 DEF DecideLocal
  <2>2. CASE ~outstanding[p]
    <3>1. Transmit(p, inq, <<MoveOf(p, act)>>)
      BY <2>2, <1>9 DEF DecideLocal, MoveOf, Move
    <3>2. <<MoveOf(p, act)>> \in Seq(Said[p])
      BY <2>2, <1>9, OneFits
    <3> QED
      BY <3>1, <3>2, <1>2
  <2> QED
    BY <2>1, <2>2
<1>10. ASSUME NEW p \in Peer, ApplyRemote(p) PROVE Links
  <2>1. CASE UNCHANGED netVars
    BY <2>1, <1>3
  <2>2. CASE halted' = [halted EXCEPT ![p] = TRUE] /\ Transmit(p, inq, HaltIf(p, TRUE))
    <3>1. halted'[p] /\ ~halted[p]
      BY <2>2, <1>10 DEF ApplyRemote, HumanPolled, Polled, TypeInv, TypeOK
    <3>2. HaltIf(p, TRUE) \in Seq(Said[p])
      BY <3>1, HaltIn
    <3> QED
      BY <2>2, <3>2, <1>2
  <2> QED
    BY <2>1, <2>2, <1>10 DEF ApplyRemote
<1>11. ASSUME NEW p \in Peer, Apply(p) \/ Diverge(p) PROVE Links
  BY <1>3, <1>11 DEF Apply, Diverge
<1>12. ASSUME NEW c \in Client, FollowNode(c) PROVE Links
  BY <1>3, <1>12 DEF FollowNode
<1>13. ASSUME UNCHANGED vars PROVE Links
  BY <1>3, <1>13 DEF vars
<1>14. Links
  BY <1>4, <1>5, <1>6, <1>7, <1>8, <1>9, <1>10, <1>11, <1>12, <1>13 DEF Next, Decide
<1> QED
  BY <1>14 DEF Links

-------------------------------------------------------------------------------
(* The road.                                                               *)

LEMMA UntouchedEnter ==
  ASSUME TypeInv, NEW p \in Peer, NEW m \in Node, EnterNode(p, m), hist' = hist, joined' = joined,
         NEW q \in Peer, NEW n \in Node, Untouched(q, n), q = p => m # n
  PROVE  Untouched(q, n)'
<1>1. battles[p] \in Tracker /\ battles'[p] = EnterBattle(battles[p], m)
      /\ \A r \in Peer : r # p => battles'[r] = battles[r]
  BY DEF EnterNode, TypeInv, TypeOK
<1>2. battles'[p].current = m
  BY <1>1, TrackerType
<1>3. (node'[p] = m \/ node'[p] = node[p]) /\ \A r \in Peer : r # p => node'[r] = node[r]
  BY DEF EnterNode, TypeInv, TypeOK
<1> QED
  BY <1>1, <1>2, <1>3 DEF Untouched

(* A node is untouched until the peer enters it.                           *)
LEMMA UntouchedStays ==
  ASSUME TypeInv, [Next]_vars, NEW q \in Peer, NEW n \in Node, Untouched(q, n),
         ~(q = Host /\ HostEnterNode(n)),
         ~(q \in Client /\ FollowNode(q) /\ Head(nodeQ[q]) = n)
  PROVE  Untouched(q, n)'
<1>1. ASSUME NEW m \in Node, HostEnterNode(m) PROVE Untouched(q, n)'
  <2>1. q = Host => m # n
    BY <1>1
  <2>2. EnterNode(Host, m) /\ hist' = hist /\ joined' = joined
    BY <1>1 DEF HostEnterNode, rosterVars
  <2> QED
    BY <2>1, <2>2, HostIsPeer, UntouchedEnter
<1>2. ASSUME NEW c \in Client, FollowNode(c) PROVE Untouched(q, n)'
  <2>1. q = c => Head(nodeQ[c]) # n
    BY <1>2
  <2>2. EnterNode(c, Head(nodeQ[c])) /\ hist' = hist /\ joined' = joined
    BY <1>2 DEF FollowNode, rosterVars
  <2>3. Head(nodeQ[c]) \in Node
    BY <1>2, HeadTailProperties DEF FollowNode, TypeInv, TypeOK
  <2> QED
    BY <2>1, <2>2, <2>3, HostIsPeer, UntouchedEnter
<1>3. ASSUME NEW p \in Peer, Boundary(p) PROVE Untouched(q, n)'
  <2>1. hist' = hist /\ node' = node /\ battles' = battles
    BY <1>3 DEF Boundary, TakeRoster, NextTurn, BeginTurn
  <2>2. joined' = joined \/ joined' = [joined EXCEPT ![p] = @ \cup {node[p]}]
    BY <1>3 DEF Boundary, TakeRoster, NextTurn, rosterVars
  <2>3. n \notin joined'[q]
    <3>1. joined \in [Peer -> SUBSET Node] /\ n \notin joined[q] /\ node[q] # n
      BY DEF Untouched, TypeInv, TypeOK
    <3>2. CASE joined' = [joined EXCEPT ![p] = joined[p] \cup {node[p]}]
      BY <3>1, <3>2
    <3> QED
      BY <2>2, <3>1, <3>2
  <2> QED
    BY <2>1, <2>3 DEF Untouched
<1>4. ASSUME NEW p \in Peer, Apply(p) PROVE Untouched(q, n)'
  <2>1. node' = node /\ battles' = battles /\ joined' = joined
        /\ hist' = [hist EXCEPT ![p][node[p]] = Append(hist[p][node[p]], Head(queued[p]))]
    BY <1>4 DEF Apply, rosterVars
  <2>2. hist'[q][n] = hist[q][n]
    BY <2>1 DEF Untouched, TypeInv, TypeOK
  <2> QED
    BY <2>1, <2>2 DEF Untouched
<1>5. ASSUME hist' = hist, node' = node, battles' = battles, joined' = joined PROVE Untouched(q, n)'
  BY <1>5 DEF Untouched
<1>6. ASSUME NEW c \in Client, LinkReceive(c) PROVE Untouched(q, n)'
  BY <1>5, <1>6 DEF LinkReceive, gameVars, rosterVars
<1>7. ASSUME NEW p \in Peer, PumpStep(p) PROVE Untouched(q, n)'
  BY <1>5, <1>7 DEF PumpStep, Pump, OnEnterNode, OnControl, OnAction, OnHash, OnHalt,
                    gameVars, rosterVars
<1>8. ASSUME NEW p \in Peer, Decide(p) \/ Diverge(p) PROVE Untouched(q, n)'
  BY <1>5, <1>8 DEF Decide, DecideAI, DecideLocal, ApplyRemote, Release, Diverge,
                    gameVars, rosterVars
<1>9. CASE UNCHANGED vars
  BY <1>5, <1>9 DEF vars, gameVars, rosterVars
<1> QED
  BY <1>1, <1>2, <1>3, <1>4, <1>6, <1>7, <1>8, <1>9 DEF Next

(* A message taken off a queue, and messages of another kind added to it.  *)
LEMMA ExpectsRest ==
  ASSUME NEW c, NEW box \in Seq(Message), box # <<>>, Expects(c, box)
  PROVE  Expects(c, Tail(box))
<1> DEFINE t == Tail(box)
           n == Len(t)
<1>1. n \in Nat /\ \A i \in 1 .. n : t[i] = box[i + 1] /\ i + 1 \in 1 .. Len(box)
  BY HeadTailProperties, LenProperties
<1>2. \A i, j \in 1 .. n : i + 1 = j + 1 => i = j
  OBVIOUS
<1> HIDE DEF t, n
<1>3. ASSUME NEW i \in 1 .. n, Announces(t[i])
      PROVE  /\ OnRoute(t[i].seed) /\ Untouched(c, t[i].seed)
             /\ \A j \in 1 .. n : Announces(t[j]) /\ t[j].seed = t[i].seed => j = i
             /\ \A j \in 1 .. Len(nodeQ[c]) : nodeQ[c][j] # t[i].seed
  <2>1. t[i] = box[i + 1] /\ i + 1 \in 1 .. Len(box)
    BY <1>1
  <2>2. ASSUME NEW j \in 1 .. n, Announces(t[j]), t[j].seed = t[i].seed PROVE j = i
    <3>1. t[j] = box[j + 1] /\ j + 1 \in 1 .. Len(box)
      BY <1>1
    <3>2. j + 1 = i + 1
      BY <1>3, <2>1, <2>2, <3>1 DEF Expects
    <3> QED
      BY <3>2, <1>2
  <2> QED
    BY <1>3, <2>1, <2>2 DEF Expects
<1> QED
  BY <1>3 DEF Expects, t, n

LEMMA ExpectsMore ==
  ASSUME NEW c, NEW box \in Seq(Message), Expects(c, box), NEW ms \in Seq(Message),
         \A i \in 1 .. Len(ms) : ~Announces(ms[i])
  PROVE  Expects(c, box \o ms)
<1> DEFINE r == box \o ms
           n == Len(box)
           k == Len(ms)
<1>1. /\ n \in Nat /\ k \in Nat /\ Len(r) = n + k
      /\ \A i \in 1 .. n + k : r[i] = IF i <= n THEN box[i] ELSE ms[i - n]
  BY ConcatProperties, LenProperties
<1> HIDE DEF r, n, k
<1>2. ASSUME NEW i \in 1 .. n + k, Announces(r[i]) PROVE i \in 1 .. n /\ r[i] = box[i]
  <2>1. CASE i <= n
    BY <2>1, <1>1
  <2>2. CASE ~(i <= n)
    <3>1. i - n \in 1 .. k /\ r[i] = ms[i - n]
      BY <2>2, <1>1
    <3> QED
      BY <3>1, <1>2 DEF k
  <2> QED
    BY <2>1, <2>2
<1>3. ASSUME NEW i \in 1 .. n + k, Announces(r[i])
      PROVE  /\ OnRoute(r[i].seed) /\ Untouched(c, r[i].seed)
             /\ \A j \in 1 .. n + k : Announces(r[j]) /\ r[j].seed = r[i].seed => j = i
             /\ \A j \in 1 .. Len(nodeQ[c]) : nodeQ[c][j] # r[i].seed
  <2>1. i \in 1 .. n /\ r[i] = box[i] /\ Announces(box[i])
    BY <1>2, <1>3
  <2>2. \A j \in 1 .. n + k : Announces(r[j]) => j \in 1 .. n /\ r[j] = box[j]
    BY <1>2
  <2> QED
    BY <2>1, <2>2 DEF Expects, n
<1> QED
  BY <1>1, <1>3 DEF Expects, r, n, k

LEMMA RouteStep ==
  ASSUME TypeInv, [Next]_vars
  PROVE  /\ \A n : OnRoute(n) => OnRoute(n)'
         /\ \A n \in Node : HostEnterNode(n) => OnRoute(n)'
<1>1. ASSUME NEW m \in Node, HostEnterNode(m)
      PROVE  OnRoute(m)' /\ \A n : OnRoute(n) => OnRoute(n)'
  <2>1. route' = Append(route, m) /\ route \in Seq(Node)
    BY <1>1 DEF HostEnterNode, TypeInv, TypeOK
  <2>2. /\ Len(route') = Len(route) + 1 /\ route'[Len(route) + 1] = m /\ Len(route) \in Nat
        /\ \A i \in 1 .. Len(route) : route'[i] = route[i]
    BY <2>1, AppendProperties, LenProperties
  <2>3. \A i \in 1 .. Len(route) : i \in 1 .. Len(route')
    BY <2>2
  <2>4. Len(route) + 1 \in 1 .. Len(route')
    BY <2>2
  <2> QED
    BY <2>2, <2>3, <2>4 DEF OnRoute
<1>2. ASSUME ~\E m \in Node : HostEnterNode(m) PROVE route' = route
  <2>1. ASSUME NEW c \in Client, FollowNode(c) \/ LinkReceive(c) PROVE route' = route
    BY <2>1 DEF FollowNode, LinkReceive, gameVars
  <2>2. ASSUME NEW p \in Peer, PumpStep(p) PROVE route' = route
    BY <2>2 DEF PumpStep, Pump, OnEnterNode, OnControl, OnAction, OnHash, OnHalt, gameVars
  <2>3. ASSUME NEW p \in Peer, Boundary(p) PROVE route' = route
    BY <2>3 DEF Boundary, TakeRoster, NextTurn, BeginTurn
  <2>4. ASSUME NEW p \in Peer, Decide(p) PROVE route' = route
    BY <2>4 DEF Decide, DecideAI, DecideLocal, ApplyRemote, Release, gameVars
  <2>5. ASSUME NEW p \in Peer, Apply(p) \/ Diverge(p) PROVE route' = route
    BY <2>5 DEF Apply, Diverge
  <2>6. CASE UNCHANGED vars
    BY <2>6 DEF vars, gameVars
  <2> QED
    BY <1>2, <2>1, <2>2, <2>3, <2>4, <2>5, <2>6 DEF Next
<1> QED
  BY <1>1, <1>2 DEF OnRoute

(* Messages of other kinds than ENTERNODE leave what is announced alone.   *)
LEMMA ExpectsSent ==
  ASSUME NEW p \in Peer, NEW c \in Client, NEW box, NEW ms,
         box[c] \in Seq(Message), Expects(c, box[c]), ms \in Seq(Message),
         \A i \in 1 .. Len(ms) : ~Announces(ms[i]),
         Transmit(p, box, ms)
  PROVE  Expects(c, inq'[c])
<1>1. inq'[c] = box[c] \/ inq'[c] = box[c] \o ms
  BY HostIsPeer DEF Transmit
<1> QED
  BY <1>1, ExpectsMore

LEMMA ChatterAnnouncesNothing ==
  ASSUME NEW ms \in Seq(Chatter)
  PROVE  ms \in Seq(Message) /\ \A i \in 1 .. Len(ms) : ~Announces(ms[i])
<1>1. \A i \in 1 .. Len(ms) : ms[i] \in Chatter
  BY ElementOfSeq
<1>2. Chatter \subseteq Message
  BY DEF Chatter
<1>3. ms \in Seq(Message)
  BY <1>2, SeqMonotonic
<1> QED
  BY <1>1, <1>3 DEF Chatter, Announces

LEMMA OneAnnouncesNothing ==
  ASSUME NEW m \in Message, m.type # "ENTERNODE"
  PROVE  <<m>> \in Seq(Message) /\ \A i \in 1 .. Len(<<m>>) : ~Announces(<<m>>[i])
BY OneFits DEF Announces

(* A client that enters no node still has what it was to hear and follow.  *)
LEMMA RoadFrame ==
  ASSUME TypeInv, [Next]_vars, NEW c \in Client, NEW box \in Seq(Message),
         Expects(c, box), Follows(c), ~FollowNode(c),
         nodeQ'[c] = nodeQ[c], inq'[c] = box
  PROVE  Follows(c)' /\ Expects(c, inq[c])'
<1>1. c \in Peer /\ c # Host
  BY HostIsPeer
<1>2. ASSUME NEW n \in Node, OnRoute(n), Untouched(c, n) PROVE OnRoute(n)' /\ Untouched(c, n)'
  BY <1>1, <1>2, RouteStep, UntouchedStays
<1>3. Follows(c)'
  <2>1. \A i \in 1 .. Len(nodeQ[c]) : nodeQ[c][i] \in Node
    BY ElementOfSeq DEF TypeInv, TypeOK
  <2> QED
    BY <1>2, <2>1 DEF Follows
<1>4. Expects(c, box)'
  <2>1. ASSUME NEW i \in 1 .. Len(box), Announces(box[i]) PROVE box[i].seed \in Node
    <3>1. box[i] \in Message
      BY ElementOfSeq
    <3> QED
      BY <2>1, <3>1, MessageParts DEF Announces
  <2> QED
    BY <1>2, <2>1 DEF Expects
<1> QED
  BY <1>3, <1>4 DEF Expects

(* The client that follows.                                                *)
LEMMA RoadFollow ==
  ASSUME TypeInv, RoadInv, NEW c \in Client, FollowNode(c)
  PROVE  Follows(c)' /\ Expects(c, inq[c])'
<1>0. PICK q, t, box : q = nodeQ[c] /\ t = Tail(q) /\ box = inq[c]
  OBVIOUS
<1>1. c \in Peer /\ c # Host /\ [Next]_vars /\ Follows(c) /\ Expects(c, box)
  BY <1>0, HostIsPeer DEF Next, RoadInv
<1>2. /\ nodeQ'[c] = t /\ inq' = inq /\ q # <<>> /\ q \in Seq(Node) /\ box \in Seq(Message)
  BY <1>0, <1>1 DEF FollowNode, netVars, TypeInv, TypeOK
<1>3. /\ Len(t) \in Nat /\ Head(q) = q[1] /\ 1 \in 1 .. Len(q)
      /\ \A i \in 1 .. Len(t) : t[i] = q[i + 1] /\ i + 1 \in 1 .. Len(q) /\ i + 1 # 1
  BY <1>0, <1>2, HeadTailProperties, LenProperties
<1>4. \A i, j \in 1 .. Len(t) : i + 1 = j + 1 => i = j
  BY <1>3
<1>5. ASSUME NEW n \in Node, OnRoute(n), Untouched(c, n), Head(q) # n
      PROVE  OnRoute(n)' /\ Untouched(c, n)'
  BY <1>0, <1>1, <1>5, RouteStep, UntouchedStays
<1>6. \A i \in 1 .. Len(q) : q[i] \in Node
  BY <1>2, ElementOfSeq
<1>7. ASSUME NEW i \in 1 .. Len(t)
      PROVE  /\ OnRoute(t[i])' /\ Untouched(c, t[i])'
             /\ \A j \in 1 .. Len(t) : t[j] = t[i] => j = i
  <2>1. t[i] = q[i + 1] /\ i + 1 \in 1 .. Len(q) /\ i + 1 # 1
    BY <1>3
  <2>2. Head(q) # t[i] /\ t[i] \in Node /\ OnRoute(t[i]) /\ Untouched(c, t[i])
    BY <2>1, <1>0, <1>1, <1>3, <1>6 DEF Follows
  <2>3. ASSUME NEW j \in 1 .. Len(t), t[j] = t[i] PROVE j = i
    <3>1. t[j] = q[j + 1] /\ j + 1 \in 1 .. Len(q)
      BY <1>3
    <3>2. j + 1 = i + 1
      BY <2>1, <2>3, <3>1, <1>0, <1>1 DEF Follows
    <3> QED
      BY <3>2, <1>4
  <2> QED
    BY <2>2, <2>3, <1>5
<1>8. ASSUME NEW i \in 1 .. Len(box), Announces(box[i])
      PROVE  /\ OnRoute(box[i].seed)' /\ Untouched(c, box[i].seed)'
             /\ \A j \in 1 .. Len(t) : t[j] # box[i].seed
  <2>1. box[i].seed \in Node
    <3>1. box[i] \in Message
      BY <1>2, ElementOfSeq
    <3> QED
      BY <3>1, <1>8, MessageParts DEF Announces
  <2>2. OnRoute(box[i].seed) /\ Untouched(c, box[i].seed) /\ \A j \in 1 .. Len(q) : q[j] # box[i].seed
    BY <1>0, <1>1, <1>8 DEF Expects
  <2> QED
    BY <2>1, <2>2, <1>3, <1>5
<1>9. Follows(c)'
  BY <1>2, <1>7 DEF Follows
<1>10. Expects(c, inq[c])'
  BY <1>0, <1>1, <1>2, <1>8, SMTT(30) DEF Expects
<1> QED
  BY <1>9, <1>10

(* The host enters a node: a new one, and it says so.                      *)
LEMMA RoadEnter ==
  ASSUME TypeInv, RoadInv, NEW n \in Node, HostEnterNode(n), NEW c \in Client
  PROVE  Follows(c)' /\ Expects(c, inq[c])'
<1>0. PICK m, box, r, q, k :
        /\ m = [type |-> "ENTERNODE", from |-> Host, seed |-> n]
        /\ box = inq[c] /\ r = Append(box, m) /\ q = nodeQ[c] /\ k = Len(box)
  OBVIOUS
<1>1. c \in Peer /\ c # Host /\ [Next]_vars /\ Follows(c) /\ Expects(c, box)
  BY <1>0, HostIsPeer DEF Next, RoadInv
<1>2. ~OnRoute(n) /\ Untouched(c, n)
  BY <1>1 DEF HostEnterNode, OnRoute, RoadInv
<1>3. phase[Host] = "map" /\ nodeQ'[c] = q
  BY <1>0 DEF HostEnterNode
<1>4. /\ box \in Seq(Message) /\ q \in Seq(Node)
      /\ m \in Message /\ Announces(m) /\ m.seed = n
  BY <1>0, <1>1, HostIsPeer DEF TypeInv, TypeOK, Message, Announces
<1>5. inq'[c] = r
  <2>1. inq'[c] = box \o <<m>>
    BY <1>0, <1>1 DEF HostEnterNode, Transmit
  <2>2. Append(box, m) = box \o <<m>>
    BY <1>4, AppendIsConcat
  <2> QED
    BY <1>0, <2>1, <2>2
<1>6. /\ k \in Nat /\ Len(r) = k + 1 /\ r[k + 1] = m
      /\ \A i \in 1 .. k : r[i] = box[i]
  BY <1>0, <1>4, AppendProperties, LenProperties
<1>7. \A i \in 1 .. k + 1 : i = k + 1 \/ i \in 1 .. k
  BY <1>6
<1>8. ASSUME NEW x \in Node, OnRoute(x) \/ x = n, Untouched(c, x)
      PROVE  OnRoute(x)' /\ Untouched(c, x)'
  <2>1. ~(c \in Client /\ FollowNode(c) /\ Head(nodeQ[c]) = x)
    <3>1. q # <<>> => Len(Tail(q)) = Len(q) - 1 /\ Len(q) \in Nat
      BY <1>4, HeadTailProperties, LenProperties
    <3>2. FollowNode(c) => q # <<>> /\ nodeQ'[c] = Tail(q)
      BY <1>0 DEF FollowNode, TypeInv, TypeOK
    <3> QED
      BY <3>1, <3>2, <1>3
  <2> QED
    BY <2>1, <1>1, <1>8, RouteStep, UntouchedStays
<1>9. ASSUME NEW i \in 1 .. k, Announces(box[i])
      PROVE  box[i].seed \in Node /\ OnRoute(box[i].seed)
  <2>1. box[i] \in Message
    BY <1>0, <1>4, ElementOfSeq
  <2> QED
    BY <2>1, <1>0, <1>1, <1>9, MessageParts DEF Announces, Expects
<1>10. \A i \in 1 .. Len(q) : q[i] \in Node /\ OnRoute(q[i]) /\ Untouched(c, q[i])
  BY <1>0, <1>1, <1>4, ElementOfSeq DEF Follows
<1>11. ASSUME NEW i \in 1 .. k + 1, Announces(r[i])
      PROVE  /\ OnRoute(r[i].seed)' /\ Untouched(c, r[i].seed)'
             /\ \A j \in 1 .. k + 1 : Announces(r[j]) /\ r[j].seed = r[i].seed => j = i
             /\ \A j \in 1 .. Len(q) : q[j] # r[i].seed
  <2>1. \A j \in 1 .. k : Announces(r[j]) => r[j].seed # n
    BY <1>2, <1>6, <1>9
  <2>2. CASE i = k + 1
    <3>1. r[i].seed = n
      BY <2>2, <1>4, <1>6
    <3>2. \A j \in 1 .. k + 1 : Announces(r[j]) /\ r[j].seed = n => j = i
      BY <2>1, <2>2, <1>7
    <3> QED
      BY <3>1, <3>2, <1>2, <1>8, <1>10
  <2>3. CASE i \in 1 .. k
    <3>1. r[i] = box[i] /\ Announces(box[i]) /\ box[i].seed \in Node /\ OnRoute(box[i].seed)
      BY <2>3, <1>6, <1>9, <1>11
    <3>2. /\ Untouched(c, box[i].seed)
          /\ \A j \in 1 .. k : Announces(box[j]) /\ box[j].seed = box[i].seed => j = i
          /\ \A j \in 1 .. Len(q) : q[j] # box[i].seed
      BY <2>3, <3>1, <1>0, <1>1 DEF Expects
    <3>3. ASSUME NEW j \in 1 .. k + 1, Announces(r[j]), r[j].seed = r[i].seed PROVE j = i
      <4>1. j # k + 1
        BY <2>1, <2>3, <3>3, <1>4, <1>6, <1>11
      <4>2. j \in 1 .. k /\ r[j] = box[j]
        BY <4>1, <1>6, <1>7
      <4> QED
        BY <4>2, <3>1, <3>2, <3>3
    <3> QED
      BY <3>1, <3>2, <3>3, <1>8
  <2> QED
    BY <2>2, <2>3, <1>7
<1>12. Expects(c, inq[c])'
  BY <1>0, <1>3, <1>5, <1>6, <1>11, SMTT(30) DEF Expects
<1>13. Follows(c)'
  <2>1. \A i \in 1 .. Len(q) : OnRoute(q[i])' /\ Untouched(c, q[i])'
    BY <1>8, <1>10
  <2> QED
    BY <2>1, <1>0, <1>1, <1>3 DEF Follows
<1> QED
  BY <1>12, <1>13

(* A client hears of a node: it leaves its messages for its queue.         *)
LEMMA RoadHears ==
  ASSUME TypeInv, RoadInv, NEW c \in Client, PumpStep(c), OnEnterNode(c, Head(inq[c]))
  PROVE  Follows(c)' /\ Expects(c, inq[c])'
<1>0. PICK box, t, q, m : box = inq[c] /\ t = Tail(box) /\ q = nodeQ[c] /\ m = Head(box)
  OBVIOUS
<1>1. c \in Peer /\ c # Host /\ [Next]_vars /\ Follows(c) /\ Expects(c, box)
  BY <1>0, HostIsPeer DEF Next, RoadInv
<1>2. box \in Seq(Message) /\ box # <<>> /\ q \in Seq(Node)
  BY <1>0, <1>1 DEF PumpStep, TypeInv, TypeOK
<1>3. /\ Len(t) \in Nat /\ m = box[1] /\ 1 \in 1 .. Len(box) /\ t \in Seq(Message)
      /\ \A i \in 1 .. Len(t) : t[i] = box[i + 1] /\ i + 1 \in 1 .. Len(box) /\ i + 1 # 1
  BY <1>0, <1>2, HeadTailProperties, LenProperties
<1>4. Announces(m) /\ m \in Message /\ m.seed \in Node
  <2>1. m \in Message
    BY <1>2, <1>3, ElementOfSeq
  <2> QED
    BY <2>1, <1>0, MessageParts DEF OnEnterNode, Announces
<1>5. inq'[c] = t
  BY <1>0, <1>1 DEF OnEnterNode, Transmit, Rest, TypeInv, TypeOK
<1>6. ~FollowNode(c)
  <2>1. Len(t) = Len(box) - 1 /\ Len(box) \in Nat
    BY <1>0, <1>2, HeadTailProperties, LenProperties
  <2>2. FollowNode(c) => inq' = inq
    BY DEF FollowNode, netVars
  <2>3. t # box
    <3> SUFFICES ASSUME t = box PROVE FALSE
      OBVIOUS
    <3> QED
      BY <2>1
  <2>4. inq'[c] # inq[c]
    BY <2>3, <1>0, <1>5
  <2> QED
    BY <2>2, <2>4
<1>7. Expects(c, t)
  BY <1>0, <1>1, <1>2, ExpectsRest
<1>8. CASE nodeQ'[c] = q
  BY <1>0, <1>1, <1>3, <1>5, <1>6, <1>7, <1>8, RoadFrame
<1>9. CASE nodeQ'[c] = Append(q, m.seed)
  <2>0. PICK r, k : r = Append(q, m.seed) /\ k = Len(q)
    OBVIOUS
  <2>1. /\ k \in Nat /\ Len(r) = k + 1 /\ r[k + 1] = m.seed
        /\ \A i \in 1 .. k : r[i] = q[i]
    BY <2>0, <1>2, <1>4, AppendProperties, LenProperties
  <2>2. \A i \in 1 .. k + 1 : i = k + 1 \/ i \in 1 .. k
    BY <2>1
  <2>3. ASSUME NEW n \in Node, OnRoute(n), Untouched(c, n) PROVE OnRoute(n)' /\ Untouched(c, n)'
    BY <1>1, <1>6, <2>3, RouteStep, UntouchedStays
  <2>4. /\ OnRoute(m.seed) /\ Untouched(c, m.seed)
        /\ \A i \in 1 .. k : q[i] # m.seed
    BY <2>0, <1>0, <1>1, <1>3, <1>4 DEF Expects
  <2>5. ASSUME NEW i \in 1 .. k + 1
        PROVE  /\ OnRoute(r[i])' /\ Untouched(c, r[i])'
               /\ \A j \in 1 .. k + 1 : r[j] = r[i] => j = i
    <3>1. \A j \in 1 .. k : q[j] \in Node /\ OnRoute(q[j]) /\ Untouched(c, q[j])
                            /\ \A l \in 1 .. k : q[l] = q[j] => l = j
      BY <2>0, <1>0, <1>1, <1>2, ElementOfSeq DEF Follows
    <3>2. r[i] \in Node /\ OnRoute(r[i]) /\ Untouched(c, r[i])
      BY <2>1, <2>2, <2>4, <3>1, <1>4
    <3>3. \A j \in 1 .. k + 1 : r[j] = r[i] => j = i
      BY <2>1, <2>2, <2>4, <3>1
    <3> QED
      BY <2>3, <3>2, <3>3
  <2>6. ASSUME NEW i \in 1 .. Len(t), Announces(t[i])
        PROVE  /\ OnRoute(t[i].seed)' /\ Untouched(c, t[i].seed)'
               /\ \A j \in 1 .. Len(t) : Announces(t[j]) /\ t[j].seed = t[i].seed => j = i
               /\ \A j \in 1 .. k + 1 : r[j] # t[i].seed
    <3>1. t[i] \in Message /\ t[i] = box[i + 1] /\ i + 1 \in 1 .. Len(box) /\ i + 1 # 1
      BY <1>3, ElementOfSeq
    <3>2. t[i].seed \in Node
      BY <2>6, <3>1, MessageParts DEF Announces
    <3>3. /\ OnRoute(t[i].seed) /\ Untouched(c, t[i].seed)
          /\ \A j \in 1 .. Len(t) : Announces(t[j]) /\ t[j].seed = t[i].seed => j = i
          /\ \A j \in 1 .. k : q[j] # t[i].seed
      BY <2>0, <2>6, <1>0, <1>7 DEF Expects
    <3>4. m.seed # t[i].seed
      BY <2>6, <3>1, <1>1, <1>3, <1>4 DEF Expects
    <3>5. \A j \in 1 .. k + 1 : r[j] # t[i].seed
      BY <3>3, <3>4, <2>1, <2>2
    <3> QED
      BY <3>2, <3>3, <3>5, <2>3
  <2>7. nodeQ'[c] = r
    BY <1>9, <2>0
  <2>8. Follows(c)'
    BY <2>1, <2>5, <2>7 DEF Follows
  <2>9. Expects(c, inq[c])'
    BY <2>1, <2>6, <2>7, <1>5 DEF Expects
  <2> QED
    BY <2>8, <2>9
<1> QED
  BY <1>0, <1>8, <1>9 DEF OnEnterNode, TypeInv, TypeOK

(* Every other step leaves a client's queue, and adds to its messages      *)
(* nothing that announces a node.                                          *)
LEMMA RoadSays ==
  ASSUME TypeInv, RoadInv, NEW c \in Client, [Next]_vars,
         ~(\E n \in Node : HostEnterNode(n)), ~FollowNode(c),
         ~(PumpStep(c) /\ OnEnterNode(c, Head(inq[c])))
  PROVE  nodeQ'[c] = nodeQ[c] /\ Expects(c, inq'[c]) /\ inq'[c] \in Seq(Message)
<1>1. c \in Peer /\ c # Host /\ Expects(c, inq[c]) /\ inq[c] \in Seq(Message)
  BY HostIsPeer DEF RoadInv, TypeInv, TypeOK
<1>2. inq'[c] \in Seq(Message)
  BY <1>1, TypeStep DEF TypeInv, TypeOK
<1>3. ASSUME NEW p \in Peer, NEW ms \in Seq(Chatter), Transmit(p, inq, ms) PROVE Expects(c, inq'[c])
  BY <1>1, <1>3, ChatterAnnouncesNothing, ExpectsSent
<1>4. ASSUME NEW d \in Client, FollowNode(d)
      PROVE  nodeQ'[c] = nodeQ[c] /\ Expects(c, inq'[c])
  BY <1>1, <1>4 DEF FollowNode, netVars, TypeInv, TypeOK
<1>5. ASSUME NEW d \in Client, LinkReceive(d)
      PROVE  nodeQ'[c] = nodeQ[c] /\ Expects(c, inq'[c])
  <2>0. PICK m : m = Head(up[d])
    OBVIOUS
  <2>1. m \in Message /\ nodeQ' = nodeQ
    BY <2>0, <1>5, HeadTailProperties DEF LinkReceive, TypeInv, TypeOK
  <2>2. inq'[c] = inq[c] \/ (inq'[c] = Append(inq[c], m) /\ m.type \in Relayed)
    BY <2>0, <1>1, <1>5 DEF LinkReceive
  <2>3. m.type \in Relayed => Expects(c, inq[c] \o <<m>>)
    BY <2>1, <1>1, OneAnnouncesNothing, ExpectsMore DEF Relayed
  <2>4. Append(inq[c], m) = inq[c] \o <<m>>
    BY <2>1, <1>1, AppendIsConcat
  <2> QED
    BY <2>1, <2>2, <2>3, <2>4, <1>1
<1>6. ASSUME NEW p \in Peer, PumpStep(p)
      PROVE  nodeQ'[c] = nodeQ[c] /\ Expects(c, inq'[c])
  <2>1. PICK ms \in Seq(Chatter) : Transmit(p, Rest(p), ms)
    <3>1. Halt(p) \in Chatter
      BY ChatterSaid
    <3> QED
      BY <1>6, <3>1, PumpSays
  <2>2. Rest(p)[c] \in Seq(Message) /\ Expects(c, Rest(p)[c])
    <3>1. inq[p] # <<>>
      BY <1>6 DEF PumpStep
    <3>2. Rest(p)[c] = IF p = c THEN Tail(inq[c]) ELSE inq[c]
      BY <1>1 DEF Rest, TypeInv, TypeOK
    <3>3. p = c => Expects(c, Tail(inq[c])) /\ Tail(inq[c]) \in Seq(Message)
      BY <3>1, <1>1, ExpectsRest, HeadTailProperties
    <3> QED
      BY <3>2, <3>3, <1>1
  <2>3. Expects(c, inq'[c])
    BY <2>1, <2>2, ChatterAnnouncesNothing, ExpectsSent
  <2>4. nodeQ'[c] = nodeQ[c]
    <3>1. CASE OnEnterNode(p, Head(inq[p]))
      <4>1. p # c
        BY <1>6, <3>1
      <4> QED
        BY <3>1, <4>1 DEF OnEnterNode, TypeInv, TypeOK
    <3> QED
      BY <1>6, <3>1 DEF PumpStep, Pump, OnControl, OnAction, OnHash, OnHalt
  <2> QED
    BY <2>3, <2>4
<1>7. ASSUME NEW p \in Peer, Boundary(p)
      PROVE  nodeQ'[c] = nodeQ[c] /\ Expects(c, inq'[c])
  <2>1. nodeQ' = nodeQ
    BY <1>7 DEF Boundary, TakeRoster, NextTurn
  <2> QED
    BY <2>1, <1>3, <1>7, BoundarySays
<1>8. ASSUME NEW p \in Peer, Decide(p)
      PROVE  nodeQ'[c] = nodeQ[c] /\ Expects(c, inq'[c])
  <2>1. nodeQ' = nodeQ
    BY <1>8 DEF Decide, DecideAI, DecideLocal, ApplyRemote
  <2>2. CASE DecideAI(p)
    BY <2>1, <2>2, <1>1 DEF DecideAI, netVars
  <2>3. ASSUME NEW act \in Act, DecideLocal(p, act) PROVE Expects(c, inq'[c])
    <3>0. PICK m : m = [type |-> "ACTION", from |-> p,
                        action |-> [battle |-> battles[p].current, turn |-> turn[p],
                                    cat |-> Actor(p), act |-> act]]
      OBVIOUS
    <3>1. inq' = inq \/ Transmit(p, inq, <<m>>)
      BY <2>3, <3>0 DEF DecideLocal, netVars
    <3>2. m \in Message /\ m.type # "ENTERNODE"
      <4>0. PICK a : a = [battle |-> battles[p].current, turn |-> turn[p],
                          cat |-> Actor(p), act |-> act]
        OBVIOUS
      <4>1. a \in Action
        BY <4>0, <2>3 DEF DecideLocal, HumanPolled, Polled, Action, TypeInv, TypeOK, InBattle
      <4>2. m = [type |-> "ACTION", from |-> p, action |-> a]
        BY <3>0, <4>0
      <4> QED
        BY <4>1, <4>2 DEF Message
    <3>3. <<m>> \in Seq(Message) /\ \A i \in 1 .. Len(<<m>>) : ~Announces(<<m>>[i])
      BY <3>2, OneAnnouncesNothing
    <3>4. Transmit(p, inq, <<m>>) => Expects(c, inq'[c])
      BY <3>3, <1>1, ExpectsSent
    <3> QED
      BY <3>1, <3>4, <1>1
  <2>4. CASE ApplyRemote(p)
    <3>1. inq' = inq \/ Transmit(p, inq, HaltIf(p, TRUE))
      BY <2>4 DEF ApplyRemote, netVars
    <3>2. HaltIf(p, TRUE) \in Seq(Chatter)
      BY ChatterSaid, HaltIn
    <3> QED
      BY <2>1, <3>1, <3>2, <1>1, <1>3
  <2> QED
    BY <2>1, <2>2, <2>3, <2>4, <1>8 DEF Decide
<1>9. ASSUME NEW p \in Peer, Apply(p) \/ Diverge(p)
      PROVE  nodeQ'[c] = nodeQ[c] /\ Expects(c, inq'[c])
  BY <1>1, <1>9 DEF Apply, Diverge, netVars
<1>10. CASE UNCHANGED vars
  BY <1>1, <1>10 DEF vars, netVars
<1> QED
  BY <1>2, <1>4, <1>5, <1>6, <1>7, <1>8, <1>9, <1>10 DEF Next

LEMMA RoadStep ==
  ASSUME TypeInv, RoadInv, [Next]_vars
  PROVE  RoadInv'
<1>1. ASSUME NEW p \in Peer, NEW n \in Node, ~OnRoute(n)' PROVE Untouched(p, n)'
  <2>1. ~OnRoute(n) /\ ~HostEnterNode(n)
    BY <1>1, RouteStep
  <2>2. Untouched(p, n)
    BY <2>1 DEF RoadInv
  <2>3. ~(p \in Client /\ FollowNode(p) /\ Head(nodeQ[p]) = n)
    <3>1. p \in Client /\ FollowNode(p) => OnRoute(Head(nodeQ[p]))
      BY EntersUntouched DEF RoadInv, Follows
    <3> QED
      BY <3>1, <2>1
  <2> QED
    BY <2>1, <2>2, <2>3, UntouchedStays
<1>2. ASSUME NEW c \in Client PROVE Follows(c)' /\ Expects(c, inq[c])'
  <2>1. CASE \E n \in Node : HostEnterNode(n)
    BY <2>1, RoadEnter
  <2>2. CASE FollowNode(c)
    BY <2>2, RoadFollow
  <2>3. CASE PumpStep(c) /\ OnEnterNode(c, Head(inq[c]))
    BY <2>3, RoadHears
  <2>4. CASE /\ ~(\E n \in Node : HostEnterNode(n)) /\ ~FollowNode(c)
             /\ ~(PumpStep(c) /\ OnEnterNode(c, Head(inq[c])))
    <3>1. PICK box : box = inq'[c]
      OBVIOUS
    <3>2. nodeQ'[c] = nodeQ[c] /\ Expects(c, box) /\ box \in Seq(Message) /\ inq'[c] = box
      BY <2>4, <3>1, RoadSays
    <3>3. Follows(c)
      BY DEF RoadInv
    <3> QED
      BY <2>4, <3>2, <3>3, RoadFrame
  <2> QED
    BY <2>1, <2>2, <2>3, <2>4
<1> QED
  BY <1>1, <1>2 DEF RoadInv
==============================================================================
