---------------------------- MODULE JourneyProofs ----------------------------
(***************************************************************************)
(* Walking the run, for any number of clients and nodes: every client      *)
(* enters the host's nodes in the host's order, except those it refuses    *)
(* (WayInv), and where a node has at most one screen of a kind, every copy *)
(* carries out what the owner of the screen decided there, once.           *)
(*                                                                         *)
(* A choice names its node and kind, and so one screen (OneOfAKind).  Each *)
(* copy has it once: on its way, in the slot of its kind or carried out    *)
(* (Chosen), because its author, who enters a node once, decides a screen  *)
(* once (Placed), and every reading of it takes it away.                   *)
(*                                                                         *)
(* The shop on the way (from Letters on): a candy bought gives its level   *)
(* to one cat.  While no timer has run out too early, at most one candy is *)
(* under way, and a copy that does not know its cat has a click that waits *)
(* for an announcement that is still to come (Round, HaulInv).             *)
(***************************************************************************)
EXTENDS Journey, ShopMirror, ListProofs

-------------------------------------------------------------------------------
(* Types.                                                                  *)

LEMMA NodeIs ==
  /\ Len(Visit) \in Nat
  /\ \A n \in Node : n \in Nat /\ n > 0 /\ Screens(n) \in Seq(ScreenOf)
<1>1. Len(Visit) \in Nat
  BY VisitAssumption, LenProperties
<1>2. ASSUME NEW n \in Node PROVE Screens(n) \in Seq(ScreenOf)
  <2>1. Visit[n] \in NodeInfo
    BY <1>1, <1>2, VisitAssumption, ElementOfSeq DEF Node
  <2> QED
    BY <2>1 DEF NodeInfo, Screens
<1> QED
  BY <1>1, <1>2 DEF Node

LEMMA LastOf ==
  ASSUME NEW S, NEW s \in Seq(S), s # <<>>
  PROVE  Len(s) \in 1 .. Len(s) /\ Last(s) = s[Len(s)] /\ Last(s) \in S
<1>1. Len(s) \in Nat /\ Len(s) # 0
  BY LenProperties, EmptySeq
<1>2. Len(s) \in 1 .. Len(s)
  BY <1>1
<1> QED
  BY <1>2, ElementOfSeq DEF Last

LEMMA HereIs ==
  ASSUME TypeOK, NEW p \in Peer
  PROVE  /\ Here(p) \in Nat
         /\ visited[p] # <<>> => Here(p) \in Node /\ Here(p) = visited[p][Len(visited[p])]
<1>1. visited[p] \in Seq(Node)
  BY DEF TypeOK
<1>2. CASE visited[p] = <<>>
  BY <1>2 DEF Here
<1>3. CASE visited[p] # <<>>
  BY <1>1, <1>3, LastOf, NodeIs DEF Here
<1> QED
  BY <1>2, <1>3

LEMMA SentTyped ==
  ASSUME TypeOK, NEW p \in Peer, NEW m \in Message
  PROVE  Sent(p, m) \in [Peer -> [Peer -> Seq(Message)]]
<1>1. \A q \in Peer : wire[p][q] \in Seq(Message) /\ Append(wire[p][q], m) \in Seq(Message)
  BY AppendProperties DEF TypeOK
<1>2. PICK f : f = [q \in Peer |-> IF q # p /\ (p = Host \/ q = Host)
                                    THEN Append(wire[p][q], m) ELSE wire[p][q]]
  OBVIOUS
<1>3. f \in [Peer -> Seq(Message)]
  BY <1>1, <1>2
<1>4. Sent(p, m) = [wire EXCEPT ![p] = f]
  BY <1>2 DEF Sent
<1> QED
  BY <1>3, <1>4 DEF TypeOK

LEMMA ReadTyped ==
  ASSUME TypeOK, NEW p \in Peer, NEW q \in Peer, wire[q][p] # <<>>
  PROVE  /\ Head(wire[q][p]) \in Message
         /\ [wire EXCEPT ![q][p] = Tail(@)] \in [Peer -> [Peer -> Seq(Message)]]
<1>1. wire[q][p] \in Seq(Message) /\ Tail(wire[q][p]) \in Seq(Message)
      /\ Head(wire[q][p]) \in Message
  BY HeadTailProperties DEF TypeOK
<1> QED
  BY <1>1 DEF TypeOK

LEMMA RememberedTyped ==
  ASSUME NEW r \in Seq(Node), Len(r) <= SkippedRing, NEW n \in Node
  PROVE  Remembered(r, n) \in Seq(Node) /\ Len(Remembered(r, n)) <= SkippedRing
<1>1. SkippedRing \in Nat /\ Len(r) \in Nat
  BY JourneyBounds, LenProperties
<1>2. PICK a : a = Append(r, n)
  OBVIOUS
<1>3. a \in Seq(Node) /\ Len(a) = Len(r) + 1 /\ a # <<>>
  BY <1>2, AppendProperties
<1>4. Tail(a) \in Seq(Node) /\ Len(Tail(a)) = Len(a) - 1
  BY <1>3, HeadTailProperties
<1>5. CASE Contains(r, n)
  BY <1>5 DEF Remembered
<1>6. CASE ~Contains(r, n) /\ Len(a) > SkippedRing
  <2>1. Remembered(r, n) = Tail(a)
    BY <1>2, <1>6 DEF Remembered
  <2> QED
    BY <2>1, <1>1, <1>3, <1>4
<1>7. CASE ~Contains(r, n) /\ ~(Len(a) > SkippedRing)
  <2>1. Remembered(r, n) = a
    BY <1>2, <1>7 DEF Remembered
  <2> QED
    BY <2>1, <1>1, <1>3, <1>7
<1> QED
  BY <1>5, <1>6, <1>7

LEMMA SkipTyped ==
  ASSUME TypeOK, NEW c \in Client, NEW n \in Node, Skip(c, n)
  PROVE  /\ skipped' \in [Peer -> Seq(Node)]
         /\ \A p \in Peer : Len(skipped'[p]) <= SkippedRing
         /\ held' \in [Peer -> [Kind -> Choice \cup {NoChoice}]]
<1>1. c \in Peer /\ skipped[c] \in Seq(Node) /\ Len(skipped[c]) <= SkippedRing
  BY DEF TypeOK, Peer
<1>2. PICK r : r = Remembered(skipped[c], n)
  OBVIOUS
<1>3. r \in Seq(Node) /\ Len(r) <= SkippedRing
  BY <1>1, <1>2, RememberedTyped
<1>4. skipped' = [skipped EXCEPT ![c] = r]
  BY <1>2 DEF Skip
<1>5. PICK f : f = [k \in Kind |-> IF held[c][k] # NoChoice /\ held[c][k].node = n
                                   THEN NoChoice ELSE held[c][k]]
  OBVIOUS
<1>6. f \in [Kind -> Choice \cup {NoChoice}]
  BY <1>1, <1>5 DEF TypeOK
<1>7. held' = [held EXCEPT ![c] = f]
  BY <1>5 DEF Skip
<1> HIDE DEF Choice
<1> QED
  BY <1>1, <1>3, <1>4, <1>6, <1>7 DEF TypeOK

(* A copy inside a node is in one of the run, and shows one of its screens.*)
Standing ==
  \A p \in Peer :
    /\ inNode[p] => visited[p] # <<>>
    /\ shown[p] # "none" => inNode[p] /\ ScreensLeft(p)

StandInv == TypeOK /\ Standing

LEMMA CurrentIs ==
  ASSUME StandInv, NEW p \in Peer, inNode[p], ScreensLeft(p)
  PROVE  /\ Here(p) \in Node /\ stage[p] + 1 \in DOMAIN Screens(Here(p))
         /\ CurrentScreen(p) \in ScreenOf /\ Current(p) \in Screen
<1>1. Here(p) \in Node
  BY HereIs DEF StandInv, Standing
<1>2. Screens(Here(p)) \in Seq(ScreenOf) /\ stage[p] \in Nat
  BY <1>1, NodeIs DEF StandInv, TypeOK
<1>3. Len(Screens(Here(p))) \in Nat /\ DOMAIN Screens(Here(p)) = 1 .. Len(Screens(Here(p)))
  BY <1>2, LenProperties
<1>4. stage[p] + 1 \in 1 .. Len(Screens(Here(p)))
  BY <1>2, <1>3 DEF ScreensLeft
<1>5. CurrentScreen(p) \in ScreenOf
  BY <1>2, <1>4, ElementOfSeq DEF CurrentScreen
<1>6. Current(p) \in Screen
  BY <1>1, <1>2 DEF Current, Screen
<1> QED
  BY <1>1, <1>3, <1>4, <1>5, <1>6

LEMMA StandInit == Init => StandInv
<1> SUFFICES ASSUME Init PROVE StandInv
  OBVIOUS
<1>1. visited \in [Peer -> Seq(Node)] /\ taken \in [Peer -> Seq(Decision)]
      /\ nodeQ \in [Client -> Seq(Node)] /\ skipped \in [Peer -> Seq(Node)]
  BY EmptySeq DEF Init
<1>2. wire \in [Peer -> [Peer -> Seq(Message)]]
  BY EmptySeq DEF Init
<1>3. (\A c \in Client : Len(nodeQ[c]) <= MaxPending)
      /\ \A p \in Peer : Len(skipped[p]) <= SkippedRing
  BY EmptySeq, JourneyBounds DEF Init
<1>4. Standing
  BY DEF Init, Standing
<1>5. /\ inNode \in [Peer -> BOOLEAN] /\ modal \in [Client -> BOOLEAN] /\ stage \in [Peer -> Nat]
      /\ shown \in [Peer -> Shown] /\ missed \in [Client -> SUBSET Node]
  BY DEF Init, Shown
<1>6. /\ cached \in [Peer -> [Kind -> Screen \cup {NoScreen}]]
      /\ held \in [Peer -> [Kind -> Choice \cup {NoChoice}]]
  BY DEF Init
<1> QED
  BY <1>1, <1>2, <1>3, <1>4, <1>5, <1>6 DEF StandInv, TypeOK

(* Going into a node.                                                      *)
LEMMA StandEnter ==
  ASSUME StandInv, NEW p \in Peer, NEW n \in Node, Enter(p, n), shown[p] = "none",
         UNCHANGED <<modal, shown, taken, held, skipped, missed>>,
         nodeQ' \in [Client -> Seq(Node)], \A c \in Client : Len(nodeQ'[c]) <= MaxPending,
         wire' \in [Peer -> [Peer -> Seq(Message)]]
  PROVE  StandInv'
<1>1. TypeOK /\ Standing
  BY DEF StandInv
<1>2. visited[p] \in Seq(Node) /\ Append(visited[p], n) \in Seq(Node)
      /\ Append(visited[p], n) # <<>>
  <2>1. visited[p] \in Seq(Node)
    BY <1>1 DEF TypeOK
  <2>2. Append(visited[p], n) \in Seq(Node) /\ Len(Append(visited[p], n)) = Len(visited[p]) + 1
        /\ Len(visited[p]) \in Nat
    BY <2>1, AppendProperties, LenProperties
  <2>3. Len(Append(visited[p], n)) # Len(<<>>)
    BY <2>2, EmptySeq
  <2> QED
    BY <2>1, <2>2, <2>3
<1>3. visited' \in [Peer -> Seq(Node)]
  BY <1>1, <1>2 DEF Enter, TypeOK
<1>4. cached' \in [Peer -> [Kind -> Screen \cup {NoScreen}]]
  BY <1>1 DEF Enter, ScreensForgotten, TypeOK
<1>5. inNode' \in [Peer -> BOOLEAN] /\ stage' \in [Peer -> Nat]
  BY <1>1 DEF Enter, TypeOK
<1>6. TypeOK'
  BY <1>1, <1>3, <1>4, <1>5 DEF TypeOK
<1>7. ASSUME NEW q \in Peer
      PROVE  /\ inNode'[q] => visited'[q] # <<>>
             /\ shown'[q] # "none" => inNode'[q] /\ ScreensLeft(q)'
  <2>1. CASE q = p
    BY <2>1, <1>1, <1>2 DEF Enter, TypeOK
  <2>2. CASE q # p
    BY <2>2, <1>1 DEF Enter, TypeOK, Standing, ScreensLeft, Here
  <2> QED
    BY <2>1, <2>2
<1> QED
  BY <1>6, <1>7 DEF StandInv, Standing

LEMMA StandHostEnterNode ==
  ASSUME StandInv, HostEnterNode
  PROVE  StandInv' /\ Here(Host) + 1 \in Node /\ shown[Host] = "none"
<1>1. TypeOK /\ Standing /\ Host \in Peer
  BY DEF StandInv, Peer
<1>2. Here(Host) \in Nat /\ Len(Visit) \in Nat
  BY <1>1, HereIs, NodeIs
<1>3. Here(Host) + 1 \in Node
  BY <1>2 DEF HostEnterNode, Node
<1>4. PICK m : m = [type |-> "ENTERNODE", node |-> Here(Host) + 1]
  OBVIOUS
<1>5. m \in Message
  BY <1>3, <1>4 DEF Message
<1>6. wire' \in [Peer -> [Peer -> Seq(Message)]]
  BY <1>1, <1>4, <1>5, SentTyped DEF HostEnterNode
<1>7. shown[Host] = "none"
  BY <1>1 DEF HostEnterNode, Standing
<1>8. nodeQ' \in [Client -> Seq(Node)] /\ \A c \in Client : Len(nodeQ'[c]) <= MaxPending
  BY <1>1 DEF HostEnterNode, TypeOK
<1>9. Enter(Host, Here(Host) + 1) /\ UNCHANGED <<modal, shown, taken, held, skipped, missed>>
  BY DEF HostEnterNode
<1>10. StandInv'
  BY <1>1, <1>3, <1>6, <1>7, <1>8, <1>9, StandEnter
<1> QED
  BY <1>3, <1>7, <1>10

(* Reading the letter of a node; n is the node.                            *)
LEMMA NodeLetter ==
  ASSUME StandInv, NEW c \in Client, wire[Host][c] # <<>>, Head(wire[Host][c]).type = "ENTERNODE"
  PROVE  /\ Head(wire[Host][c]).node \in Node
         /\ [wire EXCEPT ![Host][c] = Tail(@)] \in [Peer -> [Peer -> Seq(Message)]]
<1>1. TypeOK /\ Host \in Peer /\ c \in Peer
  BY DEF StandInv, Peer
<1>2. PICK m : m = Head(wire[Host][c])
  OBVIOUS
<1>3. m \in Message /\ m.type = "ENTERNODE"
  BY <1>1, <1>2, ReadTyped
<1>4. m.node \in Node
  BY <1>3 DEF Message
<1> QED
  BY <1>1, <1>2, <1>4, ReadTyped

LEMMA StandOnEnterNode ==
  ASSUME StandInv, NEW c \in Client, OnEnterNode(c)
  PROVE  StandInv'
<1>1. TypeOK /\ Standing /\ c \in Peer
  BY DEF StandInv, Peer
<1>2. PICK n : n = Head(wire[Host][c]).node
  OBVIOUS
<1>3. n \in Node /\ wire' \in [Peer -> [Peer -> Seq(Message)]]
  BY <1>2, NodeLetter DEF OnEnterNode
<1>4. CASE Full(nodeQ[c])
  <2>1. missed' = [missed EXCEPT ![c] = @ \cup {n}] /\ Skip(c, n) /\ nodeQ' = nodeQ
    BY <1>2, <1>4 DEF OnEnterNode
  <2>2. missed' \in [Client -> SUBSET Node]
    BY <2>1, <1>1, <1>3 DEF TypeOK
  <2>3. UNCHANGED <<gameVars, cached>>
    BY DEF OnEnterNode
  <2>4. TypeOK'
    BY <2>1, <2>2, <2>3, <1>1, <1>3, SkipTyped DEF TypeOK, gameVars
  <2> QED
    BY <2>3, <2>4, <1>1 DEF StandInv, Standing, gameVars, ScreensLeft, Here
<1>5. CASE ~Full(nodeQ[c])
  <2>1. nodeQ' = [nodeQ EXCEPT ![c] = Append(@, n)] /\ UNCHANGED <<missed, skipped, held>>
    BY <1>2, <1>5 DEF OnEnterNode, Queued
  <2>2. nodeQ[c] \in Seq(Node) /\ Len(nodeQ[c]) \in Nat /\ Len(nodeQ[c]) < MaxPending
    BY <1>1, <1>5, LenProperties, JourneyBounds DEF TypeOK, Full
  <2>3. Append(nodeQ[c], n) \in Seq(Node) /\ Len(Append(nodeQ[c], n)) <= MaxPending
    BY <2>2, <1>3, AppendProperties, JourneyBounds
  <2>4. nodeQ' \in [Client -> Seq(Node)] /\ \A d \in Client : Len(nodeQ'[d]) <= MaxPending
    BY <2>1, <2>3, <1>1 DEF TypeOK
  <2>5. UNCHANGED <<gameVars, cached>>
    BY DEF OnEnterNode
  <2>6. TypeOK'
    BY <2>1, <2>4, <2>5, <1>1, <1>3 DEF TypeOK, gameVars
  <2> QED
    BY <2>5, <2>6, <1>1 DEF StandInv, Standing, gameVars, ScreensLeft, Here
<1> QED
  BY <1>4, <1>5

(* The node at the head of the queue, and the queue without it.            *)
LEMMA NodeAhead ==
  ASSUME StandInv, NEW c \in Client, nodeQ[c] # <<>>
  PROVE  /\ Head(nodeQ[c]) \in Node
         /\ [nodeQ EXCEPT ![c] = Tail(@)] \in [Client -> Seq(Node)]
         /\ \A d \in Client : Len([nodeQ EXCEPT ![c] = Tail(@)][d]) <= MaxPending
<1>1. nodeQ[c] \in Seq(Node) /\ Len(nodeQ[c]) <= MaxPending /\ Len(nodeQ[c]) \in Nat
  BY LenProperties DEF StandInv, TypeOK
<1>2. PICK t : t = Tail(nodeQ[c])
  OBVIOUS
<1>3. Head(nodeQ[c]) \in Node /\ t \in Seq(Node) /\ Len(t) = Len(nodeQ[c]) - 1
  BY <1>1, <1>2, HeadTailProperties
<1>4. Len(t) <= MaxPending
  BY <1>1, <1>3, JourneyBounds
<1> QED
  BY <1>2, <1>3, <1>4 DEF StandInv, TypeOK

LEMMA StandRefuseNode ==
  ASSUME StandInv, NEW c \in Client, RefuseNode(c)
  PROVE  StandInv'
<1>1. TypeOK /\ Standing
  BY DEF StandInv
<1>2. PICK n : n = Head(nodeQ[c])
  OBVIOUS
<1>3. nodeQ[c] # <<>> /\ Skip(c, n) /\ UNCHANGED <<gameVars, cached, wire>>
      /\ missed' = [missed EXCEPT ![c] = @ \cup {n}]
      /\ nodeQ' = [nodeQ EXCEPT ![c] = Tail(@)]
  BY <1>2 DEF RefuseNode, MapTicks
<1>4. n \in Node /\ nodeQ' \in [Client -> Seq(Node)]
      /\ \A d \in Client : Len(nodeQ'[d]) <= MaxPending
  BY <1>2, <1>3, NodeAhead
<1>5. missed' \in [Client -> SUBSET Node]
  BY <1>1, <1>3, <1>4 DEF TypeOK
<1>6. TypeOK'
  BY <1>1, <1>3, <1>4, <1>5, SkipTyped DEF TypeOK, gameVars
<1> QED
  BY <1>1, <1>3, <1>6 DEF StandInv, Standing, gameVars, ScreensLeft, Here

LEMMA StandFollowNode ==
  ASSUME StandInv, NEW c \in Client, FollowNode(c)
  PROVE  StandInv' /\ Head(nodeQ[c]) \in Node /\ shown[c] = "none"
<1>1. TypeOK /\ Standing /\ c \in Peer
  BY DEF StandInv, Peer
<1>2. PICK n : n = Head(nodeQ[c])
  OBVIOUS
<1>3. /\ nodeQ[c] # <<>> /\ ~inNode[c] /\ Enter(c, n)
      /\ UNCHANGED <<modal, shown, taken, held, skipped, missed, wire>>
      /\ nodeQ' = [nodeQ EXCEPT ![c] = Tail(@)]
  BY <1>2 DEF FollowNode, MapTicks
<1>4. n \in Node /\ nodeQ' \in [Client -> Seq(Node)]
      /\ \A d \in Client : Len(nodeQ'[d]) <= MaxPending
  BY <1>2, <1>3, NodeAhead
<1>5. shown[c] = "none" /\ wire' \in [Peer -> [Peer -> Seq(Message)]]
  BY <1>1, <1>3 DEF Standing, TypeOK
<1>6. StandInv'
  BY <1>1, <1>3, <1>4, <1>5, StandEnter
<1> QED
  BY <1>2, <1>4, <1>5, <1>6

LEMMA StandModal ==
  ASSUME StandInv, NEW c \in Client, OpenModal(c) \/ CloseModal(c) \/ PlayerCloses(c)
  PROVE  StandInv'
<1>1. /\ \E b \in BOOLEAN : modal' = [modal EXCEPT ![c] = b]
      /\ UNCHANGED <<visited, inNode, stage, shown, taken, nodeQ, cached, held, skipped, missed,
                     wire>>
  BY DEF OpenModal, CloseModal, PlayerCloses
<1>2. modal' \in [Client -> BOOLEAN]
  BY <1>1 DEF StandInv, TypeOK
<1>3. TypeOK'
  BY <1>1, <1>2 DEF StandInv, TypeOK
<1> QED
  BY <1>1, <1>3 DEF StandInv, Standing, ScreensLeft, Here

(* What changes on the screen of one copy, and what is kept for it.        *)
LEMMA StandShown ==
  ASSUME StandInv, NEW p \in Peer, NEW s \in Shown, shown' = [shown EXCEPT ![p] = s],
         s # "none" => inNode[p] /\ ScreensLeft(p),
         UNCHANGED <<visited, inNode, modal, stage, nodeQ, skipped, missed>>,
         taken' \in [Peer -> Seq(Decision)],
         cached' \in [Peer -> [Kind -> Screen \cup {NoScreen}]],
         held' \in [Peer -> [Kind -> Choice \cup {NoChoice}]],
         wire' \in [Peer -> [Peer -> Seq(Message)]]
  PROVE  StandInv'
<1>1. TypeOK /\ Standing
  BY DEF StandInv
<1>2. shown' \in [Peer -> Shown]
  BY <1>1 DEF TypeOK
<1>3. TypeOK'
  BY <1>1, <1>2 DEF TypeOK
<1>4. Standing'
  BY <1>1 DEF TypeOK, Standing, ScreensLeft, Here
<1> QED
  BY <1>3, <1>4 DEF StandInv

LEMMA StandScreenUp ==
  ASSUME StandInv, NEW p \in Peer, ScreenUp(p)
  PROVE  StandInv'
<1>1. CurrentScreen(p) \in ScreenOf /\ Current(p) \in Screen
  BY CurrentIs DEF ScreenUp
<1>2. CurrentScreen(p).kind \in Kind
  BY <1>1 DEF ScreenOf
<1>3. cached' \in [Peer -> [Kind -> Screen \cup {NoScreen}]]
  BY <1>1, <1>2 DEF ScreenUp, StandInv, TypeOK
<1>4. /\ shown' = [shown EXCEPT ![p] = "building"] /\ inNode[p] /\ ScreensLeft(p)
      /\ UNCHANGED <<visited, inNode, modal, stage, taken, nodeQ, held, skipped, missed, wire>>
  BY DEF ScreenUp
<1>5. "building" \in Shown
  BY DEF Shown
<1> QED
  BY <1>3, <1>4, <1>5, StandShown DEF StandInv, TypeOK

LEMMA StandBuild ==
  ASSUME StandInv, NEW p \in Peer, Build(p)
  PROVE  StandInv'
<1>1. /\ shown' = [shown EXCEPT ![p] = "up"] /\ inNode[p] /\ ScreensLeft(p)
      /\ UNCHANGED <<visited, inNode, modal, stage, taken, nodeQ, cached, held, skipped, missed,
                     wire>>
  BY DEF Build, StandInv, Standing
<1>2. "up" \in Shown
  BY DEF Shown
<1> QED
  BY <1>1, <1>2, StandShown DEF StandInv, TypeOK

LEMMA CarryTyped ==
  ASSUME TypeOK, NEW p \in Peer, NEW s \in Screen, NEW o \in Nat, Carry(p, s, o)
  PROVE  taken' \in [Peer -> Seq(Decision)]
<1>1. [screen |-> s, option |-> o] \in Decision
  BY DEF Decision
<1>2. taken[p] \in Seq(Decision)
  BY DEF TypeOK
<1>3. Append(taken[p], [screen |-> s, option |-> o]) \in Seq(Decision)
  BY <1>1, <1>2, AppendProperties
<1> QED
  BY <1>3 DEF Carry, TypeOK

(* What the player who decides the screen says: its choice.                *)
Said(p, o) ==
  [kind |-> CurrentScreen(p).kind, node |-> Here(p), option |-> o,
   count |-> CurrentScreen(p).options]

LEMMA ChooseIs ==
  ASSUME StandInv, NEW p \in Peer, Choose(p)
  PROVE  \E o \in Nat :
           /\ Said(p, o) \in Choice
           /\ [type |-> "CHOICE", choice |-> Said(p, o)] \in Message
           /\ wire' = Sent(p, [type |-> "CHOICE", choice |-> Said(p, o)])
           /\ Carry(p, Current(p), o)
<1>1. inNode[p] /\ ScreensLeft(p)
  BY DEF Choose, StandInv, Standing
<1>2. CurrentScreen(p) \in ScreenOf /\ Here(p) \in Node
  BY <1>1, CurrentIs
<1>3. PICK o \in 0 .. (CurrentScreen(p).options - 1) :
        /\ wire' = Sent(p, [type |-> "CHOICE", choice |-> Said(p, o)])
        /\ Carry(p, Current(p), o)
  BY DEF Choose, Said
<1>4. CurrentScreen(p).options \in Nat \ {0} /\ CurrentScreen(p).kind \in Kind
  BY <1>2 DEF ScreenOf
<1>5. o \in Nat
  BY <1>4
<1>6. Said(p, o) \in Choice
  BY <1>2, <1>4, <1>5 DEF Said, Choice
<1>7. [type |-> "CHOICE", choice |-> Said(p, o)] \in Message
  BY <1>6 DEF Message
<1> QED
  BY <1>3, <1>5, <1>6, <1>7

LEMMA StandChoose ==
  ASSUME StandInv, NEW p \in Peer, Choose(p)
  PROVE  StandInv'
<1>1. TypeOK /\ inNode[p] /\ ScreensLeft(p) /\ Current(p) \in Screen
  BY CurrentIs DEF Choose, StandInv, Standing
<1>2. PICK o \in Nat :
           /\ [type |-> "CHOICE", choice |-> Said(p, o)] \in Message
           /\ wire' = Sent(p, [type |-> "CHOICE", choice |-> Said(p, o)])
           /\ Carry(p, Current(p), o)
  BY ChooseIs
<1>3. wire' \in [Peer -> [Peer -> Seq(Message)]]
  BY <1>1, <1>2, SentTyped
<1>4. taken' \in [Peer -> Seq(Decision)]
  BY <1>1, <1>2, CarryTyped
<1>5. /\ shown' = [shown EXCEPT ![p] = "committed"]
      /\ UNCHANGED <<visited, inNode, modal, stage, nodeQ, cached, held, skipped, missed>>
  BY DEF Choose
<1>6. "committed" \in Shown
  BY DEF Shown
<1> QED
  BY <1>1, <1>3, <1>4, <1>5, <1>6, StandShown DEF TypeOK

(* Applying a choice puts it back in its slot, or clears the slot and      *)
(* carries the decision out, or does not.                                  *)
LEMMA Outcomes ==
  ASSUME NEW p \in Peer, NEW s, NEW ch, ApplyPending(p, s, ch)
  PROVE  \/ held' = [held EXCEPT ![p][ch.kind] = ch] /\ UNCHANGED <<taken, shown>>
         \/ held' = [held EXCEPT ![p][ch.kind] = NoChoice] /\ UNCHANGED <<taken, shown>>
         \/ /\ held' = [held EXCEPT ![p][ch.kind] = NoChoice]
            /\ Due(p, s, ch) /\ Carry(p, s, ch.option)
            /\ \/ s = Current(p) /\ shown[p] = "up" /\ shown' = [shown EXCEPT ![p] = "committed"]
               \/ ~(s = Current(p) /\ shown[p] = "up") /\ UNCHANGED shown
BY DEF ApplyPending, Inject

LEMMA StandApply ==
  ASSUME StandInv, NEW p \in Peer, NEW s \in Screen, NEW ch \in Choice, ApplyPending(p, s, ch),
         UNCHANGED <<visited, inNode, modal, stage, nodeQ, cached, skipped, missed>>,
         wire' \in [Peer -> [Peer -> Seq(Message)]]
  PROVE  StandInv'
<1>1. TypeOK /\ Standing
  BY DEF StandInv
<1>2. ch.kind \in Kind /\ ch.option \in Nat
  BY DEF Choice
<1>3. \A c \in {ch, NoChoice} :
        [held EXCEPT ![p][ch.kind] = c] \in [Peer -> [Kind -> Choice \cup {NoChoice}]]
  <2> SUFFICES ASSUME NEW c \in {ch, NoChoice}
               PROVE  [held EXCEPT ![p][ch.kind] = c] \in [Peer -> [Kind -> Choice \cup {NoChoice}]]
    OBVIOUS
  <2>1. c \in Choice \cup {NoChoice}
    OBVIOUS
  <2> HIDE DEF Choice
  <2> QED
    BY <2>1, <1>1, <1>2 DEF TypeOK
<1>4. held' \in [Peer -> [Kind -> Choice \cup {NoChoice}]]
  BY <1>3, Outcomes
<1>5. taken' \in [Peer -> Seq(Decision)]
  BY <1>1, <1>2, Outcomes, CarryTyped DEF TypeOK
<1>6. CASE shown' = shown
  <2>1. TypeOK'
    BY <1>1, <1>4, <1>5, <1>6 DEF TypeOK
  <2> QED
    BY <2>1, <1>1, <1>6 DEF StandInv, Standing, ScreensLeft, Here
<1>7. CASE shown' # shown
  <2>1. shown[p] = "up" /\ shown' = [shown EXCEPT ![p] = "committed"] /\ "committed" \in Shown
    BY <1>7, Outcomes DEF Shown
  <2>2. inNode[p] /\ ScreensLeft(p)
    BY <2>1, <1>1 DEF Standing
  <2> QED
    BY <2>1, <2>2, <1>1, <1>4, <1>5, StandShown DEF TypeOK
<1> QED
  BY <1>6, <1>7

LEMMA StandScreenTick ==
  ASSUME StandInv, NEW p \in Peer, ScreenTick(p)
  PROVE  StandInv'
<1>1. TypeOK /\ Standing /\ inNode[p] /\ ScreensLeft(p)
  BY DEF ScreenTick, StandInv, Standing
<1>2. Current(p) \in Screen /\ CurrentScreen(p) \in ScreenOf
  BY <1>1, CurrentIs
<1>3. PICK k : k = CurrentScreen(p).kind
  OBVIOUS
<1>4. k \in Kind /\ held[p][k] \in Choice
  BY <1>1, <1>2, <1>3 DEF ScreenOf, ScreenTick, TypeOK
<1>5. UNCHANGED <<visited, inNode, modal, stage, nodeQ, cached, skipped, missed, wire>>
  BY DEF ScreenTick
<1>6. CASE ApplyPending(p, Current(p), held[p][k])
  BY <1>1, <1>2, <1>4, <1>5, <1>6, StandApply DEF TypeOK
<1>7. CASE ~ApplyPending(p, Current(p), held[p][k])
  <2>1. held' = [held EXCEPT ![p][k] = NoChoice] /\ UNCHANGED <<taken, shown>>
    BY <1>3, <1>7 DEF ScreenTick
  <2>2. held' \in [Peer -> [Kind -> Choice \cup {NoChoice}]]
    BY <2>1, <1>1 DEF TypeOK
  <2>3. TypeOK'
    BY <2>1, <2>2, <1>1, <1>5 DEF TypeOK
  <2> QED
    BY <2>1, <2>3, <1>1, <1>5 DEF StandInv, Standing, ScreensLeft, Here
<1> QED
  BY <1>6, <1>7

LEMMA StandOnChoice ==
  ASSUME StandInv, NEW p \in Peer, NEW q \in Peer, OnChoice(p, q)
  PROVE  StandInv' /\ Head(wire[q][p]).choice \in Choice
<1>1. TypeOK /\ Standing
  BY DEF StandInv
<1>2. PICK m : m = Head(wire[q][p])
  OBVIOUS
<1>3. m \in Message /\ wire' \in [Peer -> [Peer -> Seq(Message)]]
  BY <1>1, <1>2, ReadTyped DEF OnChoice
<1>4. PICK ch : ch = m.choice
  OBVIOUS
<1>5. ch \in Choice
  BY <1>2, <1>3, <1>4 DEF Message, OnChoice
<1>6. ch.kind \in Kind
  BY <1>5 DEF Choice
<1>7. PICK s : s = cached[p][ch.kind]
  OBVIOUS
<1>8. UNCHANGED <<visited, inNode, modal, stage, nodeQ, cached, skipped, missed>>
  BY DEF OnChoice
<1>9. \/ held' = held /\ UNCHANGED <<taken, shown>>
      \/ held' = [held EXCEPT ![p][ch.kind] = ch] /\ UNCHANGED <<taken, shown>>
      \/ s # NoScreen /\ ApplyPending(p, s, ch)
  BY <1>2, <1>4, <1>7 DEF OnChoice
<1>10. CASE s # NoScreen /\ ApplyPending(p, s, ch)
  <2>1. s \in Screen
    BY <1>1, <1>6, <1>7, <1>10 DEF TypeOK
  <2> QED
    BY <2>1, <1>2, <1>3, <1>4, <1>5, <1>8, <1>10, StandApply
<1>11. CASE ~(s # NoScreen /\ ApplyPending(p, s, ch))
  <2>1. UNCHANGED <<taken, shown>>
    BY <1>9, <1>11
  <2>2. held' \in [Peer -> [Kind -> Choice \cup {NoChoice}]]
    <3>1. [held EXCEPT ![p][ch.kind] = ch] \in [Peer -> [Kind -> Choice \cup {NoChoice}]]
      BY <1>1, <1>5, <1>6 DEF TypeOK
    <3> QED
      BY <3>1, <1>1, <1>9, <1>11 DEF TypeOK
  <2>3. TypeOK'
    BY <2>1, <2>2, <1>1, <1>3, <1>8 DEF TypeOK
  <2> QED
    BY <2>1, <2>3, <1>1, <1>2, <1>4, <1>5, <1>8 DEF StandInv, Standing, ScreensLeft, Here
<1> QED
  BY <1>10, <1>11

LEMMA StandCloseScreen ==
  ASSUME StandInv, NEW p \in Peer, CloseScreen(p)
  PROVE  StandInv'
<1>1. TypeOK /\ Standing
  BY DEF StandInv
<1>2. /\ shown' = [shown EXCEPT ![p] = "none"] /\ stage' = [stage EXCEPT ![p] = @ + 1]
      /\ UNCHANGED <<visited, inNode, modal, taken, nodeQ, cached, held, skipped, missed, wire>>
  BY DEF CloseScreen
<1>3. shown' \in [Peer -> Shown] /\ stage' \in [Peer -> Nat]
  BY <1>1, <1>2 DEF TypeOK, Shown
<1>4. TypeOK'
  BY <1>1, <1>2, <1>3 DEF TypeOK
<1>5. Standing'
  BY <1>1, <1>2 DEF TypeOK, Standing, ScreensLeft, Here
<1> QED
  BY <1>4, <1>5 DEF StandInv

LEMMA StandLeaveNode ==
  ASSUME StandInv, NEW p \in Peer, LeaveNode(p)
  PROVE  StandInv'
<1>1. TypeOK /\ Standing
  BY DEF StandInv
<1>2. /\ inNode' = [inNode EXCEPT ![p] = FALSE] /\ shown[p] = "none"
      /\ UNCHANGED <<visited, modal, stage, shown, taken, nodeQ, cached, held, skipped, missed,
                     wire>>
  BY DEF LeaveNode
<1>3. inNode' \in [Peer -> BOOLEAN]
  BY <1>1, <1>2 DEF TypeOK
<1>4. TypeOK'
  BY <1>1, <1>2, <1>3 DEF TypeOK
<1>5. Standing'
  BY <1>1, <1>2 DEF TypeOK, Standing, ScreensLeft, Here
<1> QED
  BY <1>4, <1>5 DEF StandInv

LEMMA StandStutter == StandInv /\ UNCHANGED vars => StandInv'
BY DEF vars, gameVars, StandInv, TypeOK, Standing, ScreensLeft, Here

LEMMA StandStep == StandInv /\ [Next]_vars => StandInv'
<1> SUFFICES ASSUME StandInv, [Next]_vars PROVE StandInv'
  OBVIOUS
<1>1. ASSUME NEW c \in Client, OnEnterNode(c) \/ RefuseNode(c) \/ FollowNode(c) PROVE StandInv'
  BY <1>1, StandOnEnterNode, StandRefuseNode, StandFollowNode
<1>2. ASSUME NEW c \in Client, OpenModal(c) \/ CloseModal(c) \/ PlayerCloses(c) PROVE StandInv'
  BY <1>2, StandModal
<1>3. ASSUME NEW p \in Peer, ScreenUp(p) \/ Build(p) \/ Choose(p) PROVE StandInv'
  BY <1>3, StandScreenUp, StandBuild, StandChoose
<1>4. ASSUME NEW p \in Peer, ScreenTick(p) \/ CloseScreen(p) \/ LeaveNode(p) PROVE StandInv'
  BY <1>4, StandScreenTick, StandCloseScreen, StandLeaveNode
<1>5. ASSUME NEW p \in Peer, NEW q \in Peer, OnChoice(p, q) PROVE StandInv'
  BY <1>5, StandOnChoice
<1> QED
  BY <1>1, <1>2, <1>3, <1>4, <1>5, StandHostEnterNode, StandStutter DEF Next

(* Every reachable state is well typed; a copy inside a node stands in one *)
(* of the run's, and what it shows is a screen of it.                      *)
THEOREM WalkTyped == Spec => []TypeOK
<1>1. StandInv => TypeOK
  BY DEF StandInv
<1> QED
  BY <1>1, StandInit, StandStep, PTL DEF Spec

-------------------------------------------------------------------------------
(* Lists of rising numbers.                                                *)

Rising(f) == \A i, j \in DOMAIN f : i < j => f[i] < f[j]
Below(S, T) == \A x \in S : \A y \in T : x < y
Values(f) == {f[i] : i \in DOMAIN f}

LEMMA AppendRising ==
  ASSUME NEW s \in Seq(Nat), Rising(s), NEW n \in Nat, \A i \in DOMAIN s : s[i] < n
  PROVE  /\ Append(s, n) \in Seq(Nat) /\ Rising(Append(s, n))
         /\ Values(Append(s, n)) = Values(s) \cup {n}
<1>1. PICK a : a = Append(s, n)
  OBVIOUS
<1>2. a \in Seq(Nat) /\ Len(a) = Len(s) + 1 /\ Len(s) \in Nat /\ a[Len(s) + 1] = n
      /\ \A i \in 1 .. Len(s) : a[i] = s[i]
  BY <1>1, AppendProperties, LenProperties
<1>3. DOMAIN s = 1 .. Len(s) /\ DOMAIN a = 1 .. Len(s) + 1
  BY <1>2, LenProperties
<1>4. \A i \in DOMAIN s : s[i] \in Nat
  BY <1>3, ElementOfSeq
<1>5. Rising(a)
  <2> SUFFICES ASSUME NEW i \in DOMAIN a, NEW j \in DOMAIN a, i < j PROVE a[i] < a[j]
    BY DEF Rising
  <2>1. i \in 1 .. Len(s)
    BY <1>2, <1>3
  <2>2. CASE j = Len(s) + 1
    BY <2>1, <2>2, <1>2, <1>3
  <2>3. CASE j # Len(s) + 1
    <3>1. j \in 1 .. Len(s)
      BY <2>3, <1>2, <1>3
    <3> QED
      BY <3>1, <2>1, <1>2, <1>3 DEF Rising
  <2> QED
    BY <2>2, <2>3
<1>6. Values(a) = Values(s) \cup {n}
  <2>1. Len(s) + 1 \in DOMAIN a /\ \A i \in DOMAIN s : i \in DOMAIN a /\ a[i] = s[i]
    BY <1>2, <1>3
  <2>2. \A i \in DOMAIN a : i \in DOMAIN s \/ i = Len(s) + 1
    BY <1>2, <1>3
  <2> QED
    BY <2>1, <2>2, <1>2 DEF Values
<1> QED
  BY <1>1, <1>2, <1>5, <1>6

LEMMA ConcatRising ==
  ASSUME NEW s \in Seq(Nat), NEW t \in Seq(Nat), Rising(s), Rising(t), Below(Values(s), Values(t))
  PROVE  /\ s \o t \in Seq(Nat) /\ Rising(s \o t)
         /\ Values(s \o t) = Values(s) \cup Values(t)
<1>1. PICK a : a = s \o t
  OBVIOUS
<1>2. a \in Seq(Nat) /\ Len(a) = Len(s) + Len(t) /\ Len(s) \in Nat /\ Len(t) \in Nat
      /\ \A i \in 1 .. Len(s) + Len(t) : a[i] = IF i <= Len(s) THEN s[i] ELSE t[i - Len(s)]
  BY <1>1, ConcatProperties, LenProperties
<1>3. DOMAIN s = 1 .. Len(s) /\ DOMAIN t = 1 .. Len(t) /\ DOMAIN a = 1 .. Len(s) + Len(t)
  BY <1>2, LenProperties
<1>4. \A i \in DOMAIN a : \/ i \in DOMAIN s /\ a[i] = s[i]
                          \/ i - Len(s) \in DOMAIN t /\ a[i] = t[i - Len(s)] /\ i > Len(s)
  BY <1>2, <1>3
<1>5. Rising(a)
  <2> SUFFICES ASSUME NEW i \in DOMAIN a, NEW j \in DOMAIN a, i < j PROVE a[i] < a[j]
    BY DEF Rising
  <2>1. i \in Nat /\ j \in Nat
    BY <1>3
  <2>2. CASE i \in DOMAIN s /\ a[i] = s[i]
    <3>1. CASE j \in DOMAIN s /\ a[j] = s[j]
      BY <2>2, <3>1 DEF Rising
    <3>2. CASE j - Len(s) \in DOMAIN t /\ a[j] = t[j - Len(s)]
      BY <2>2, <3>2 DEF Below, Values
    <3> QED
      BY <3>1, <3>2, <1>4
  <2>3. CASE i - Len(s) \in DOMAIN t /\ a[i] = t[i - Len(s)] /\ i > Len(s)
    <3>1. j > Len(s) /\ ~(j \in DOMAIN s)
      BY <2>1, <2>3, <1>2, <1>3
    <3>2. j - Len(s) \in DOMAIN t /\ a[j] = t[j - Len(s)] /\ i - Len(s) < j - Len(s)
      BY <3>1, <2>1, <1>2, <1>4
    <3> QED
      BY <2>3, <3>2 DEF Rising
  <2> QED
    BY <2>2, <2>3, <1>4
<1>6. Values(a) = Values(s) \cup Values(t)
  <2>1. Values(a) \subseteq Values(s) \cup Values(t)
    BY <1>4 DEF Values
  <2>2. \A i \in DOMAIN s : i \in DOMAIN a /\ a[i] = s[i]
    BY <1>2, <1>3
  <2>3. ASSUME NEW j \in DOMAIN t PROVE j + Len(s) \in DOMAIN a /\ a[j + Len(s)] = t[j]
    <3>1. j \in Nat /\ j > 0 /\ j <= Len(t)
      BY <1>2, <1>3
    <3>2. j + Len(s) \in 1 .. Len(s) + Len(t) /\ ~(j + Len(s) <= Len(s))
          /\ (j + Len(s)) - Len(s) = j
      BY <3>1, <1>2
    <3> QED
      BY <3>2, <1>2, <1>3
  <2>4. Values(s) \subseteq Values(a)
    BY <2>2 DEF Values
  <2>5. Values(t) \subseteq Values(a)
    BY <2>3 DEF Values
  <2> QED
    BY <2>1, <2>4, <2>5
<1> QED
  BY <1>1, <1>2, <1>5, <1>6

(* A rising list is known by its members.                                  *)
LEMMA OneRising ==
  ASSUME NEW s \in Seq(Nat), NEW t \in Seq(Nat), Rising(s), Rising(t), Values(s) = Values(t)
  PROVE  s = t
<1>1. Len(s) \in Nat /\ DOMAIN s = 1 .. Len(s) /\ Len(t) \in Nat /\ DOMAIN t = 1 .. Len(t)
  BY LenProperties
<1>2. (\A i \in DOMAIN s : s[i] \in Nat) /\ (\A i \in DOMAIN t : t[i] \in Nat)
  BY <1>1, ElementOfSeq
<1> DEFINE Same(k) == (k \in DOMAIN s <=> k \in DOMAIN t) /\ (k \in DOMAIN s => s[k] = t[k])
<1> DEFINE S == {n \in Nat : \A k \in 1 .. n : Same(k)}
<1>3. ASSUME NEW a \in Seq(Nat), NEW b \in Seq(Nat), Rising(a), Rising(b), Values(a) = Values(b),
             NEW n \in Nat, \A k \in 1 .. n : k \in DOMAIN a => k \in DOMAIN b /\ a[k] = b[k],
             \A k \in 1 .. n : k \in DOMAIN b => k \in DOMAIN a /\ a[k] = b[k],
             n + 1 \in DOMAIN a
      PROVE  n + 1 \in DOMAIN b /\ a[n + 1] = b[n + 1]
  <2>1. Len(a) \in Nat /\ DOMAIN a = 1 .. Len(a) /\ Len(b) \in Nat /\ DOMAIN b = 1 .. Len(b)
    BY LenProperties
  <2>2. (\A i \in DOMAIN a : a[i] \in Nat) /\ (\A i \in DOMAIN b : b[i] \in Nat)
    BY <2>1, ElementOfSeq
  <2>3. Rising(a) /\ Rising(b) /\ n + 1 \in DOMAIN a /\ n + 1 \in Nat
    BY <1>3
  <2>4. PICK j \in DOMAIN b : b[j] = a[n + 1]
    BY <1>3 DEF Values
  <2>5. j \in Nat /\ ~(j \in 1 .. n)
    <3>1. ASSUME j \in 1 .. n PROVE FALSE
      <4>1. j \in DOMAIN a /\ a[j] = b[j] /\ j < n + 1
        BY <3>1, <2>4, <1>3
      <4>2. a[j] < a[n + 1] /\ a[j] \in Nat
        BY <4>1, <2>2, <2>3 DEF Rising
      <4> QED
        BY <4>1, <4>2, <2>4
    <3> QED
      BY <3>1, <2>1
  <2>6. n + 1 \in DOMAIN b /\ (j = n + 1 \/ n + 1 < j)
    <3>1. j > 0 /\ j <= Len(b)
      BY <2>1
    <3>2. j = n + 1 \/ n + 1 < j
      BY <3>1, <2>5
    <3>3. n + 1 \in 1 .. Len(b)
      BY <3>1, <3>2, <2>1, <2>5
    <3> QED
      BY <3>2, <3>3, <2>1
  <2>7. PICK i \in DOMAIN a : a[i] = b[n + 1]
    BY <2>6, <1>3 DEF Values
  <2>8. i \in Nat /\ ~(i \in 1 .. n)
    <3>1. ASSUME i \in 1 .. n PROVE FALSE
      <4>1. i \in DOMAIN b /\ a[i] = b[i] /\ i < n + 1
        BY <3>1, <2>7, <1>3
      <4>2. b[i] < b[n + 1] /\ b[i] \in Nat
        BY <4>1, <2>2, <2>6, <2>3 DEF Rising
      <4> QED
        BY <4>1, <4>2, <2>7
    <3> QED
      BY <3>1, <2>1
  <2>9. i = n + 1 \/ n + 1 < i
    <3>1. i > 0
      BY <2>1
    <3> QED
      BY <3>1, <2>8
  <2>10. a[n + 1] <= b[n + 1]
    BY <2>2, <2>7, <2>8, <2>9, <2>3 DEF Rising
  <2>11. b[n + 1] <= a[n + 1]
    BY <2>2, <2>4, <2>5, <2>6, <2>3 DEF Rising
  <2> QED
    BY <2>2, <2>6, <2>3, <2>10, <2>11
<1>4. 0 \in S
  OBVIOUS
<1>5. ASSUME NEW n \in Nat, n \in S PROVE n + 1 \in S
  <2>1. \A k \in 1 .. n : Same(k)
    BY <1>5
  <2> HIDE DEF S
  <2>2. n + 1 \in DOMAIN s => n + 1 \in DOMAIN t /\ s[n + 1] = t[n + 1]
    BY <2>1, <1>3
  <2>3. n + 1 \in DOMAIN t => n + 1 \in DOMAIN s /\ t[n + 1] = s[n + 1]
    BY <2>1, <1>3
  <2>4. Same(n + 1)
    BY <2>2, <2>3
  <2> HIDE DEF Same
  <2> QED
    BY <2>1, <2>4 DEF S
<1>6. Nat \subseteq S
  <2> HIDE DEF S
  <2> QED
    BY <1>4, <1>5, EveryNumber
<1>7. \A k \in Nat \ {0} : Same(k)
  <2> TAKE k \in Nat \ {0}
  <2>1. k \in S /\ k \in 1 .. k
    BY <1>6
  <2> QED
    BY <2>1
<1>8. \A k \in Nat \ {0} : k <= Len(s) <=> k <= Len(t)
  BY <1>1, <1>7
<1>9. Len(s) = Len(t)
  <2>1. PICK l \in Nat, m \in Nat : l = Len(s) /\ m = Len(t)
    BY <1>1
  <2>2. l # 0 => l <= m
    BY <2>1, <1>8
  <2>3. m # 0 => m <= l
    BY <2>1, <1>8
  <2>4. l = m
    BY <2>2, <2>3
  <2> QED
    BY <2>1, <2>4
<1>10. \A k \in 1 .. Len(s) : s[k] = t[k]
  BY <1>1, <1>7
<1> QED
  BY <1>9, <1>10, SeqEqual

(* The values of a rising function on some of 1 .. n, picked in order.     *)
LEMMA PickedRising ==
  ASSUME NEW f, NEW N \in Nat, DOMAIN f \subseteq 1 .. N, \A i \in DOMAIN f : f[i] \in Nat,
         Rising(f)
  PROVE  Picked(f, N) \in Seq(Nat) /\ Rising(Picked(f, N)) /\ Values(Picked(f, N)) = Values(f)
<1> DEFINE Upto(n) == {f[i] : i \in {j \in DOMAIN f : j <= n}}
<1> DEFINE S == {n \in Nat : /\ Picked(f, n) \in Seq(Nat) /\ Rising(Picked(f, n))
                             /\ Values(Picked(f, n)) = Upto(n)}
<1>1. 0 \in S
  <2>1. Picked(f, 0) = <<>>
    BY PickedNone
  <2>2. Upto(0) = {}
    OBVIOUS
  <2>3. Values(<<>>) = {} /\ Rising(<<>>)
    BY EmptySeq DEF Values, Rising
  <2> HIDE DEF Upto
  <2> QED
    BY <2>1, <2>2, <2>3, EmptySeq
<1>2. ASSUME NEW n \in Nat, n \in S PROVE n + 1 \in S
  <2>1. PICK s : s = Picked(f, n)
    OBVIOUS
  <2>2. s \in Seq(Nat) /\ Rising(s) /\ Values(s) = Upto(n)
    BY <2>1, <1>2
  <2>3. CASE n + 1 \in DOMAIN f
    <3>1. Picked(f, n + 1) = Append(s, f[n + 1]) /\ f[n + 1] \in Nat
      BY <2>1, <2>3, PickedNext
    <3>2. ASSUME NEW i \in DOMAIN s PROVE s[i] < f[n + 1]
      <4>1. s[i] \in Upto(n)
        BY <2>2 DEF Values
      <4>2. PICK j \in DOMAIN f : j <= n /\ s[i] = f[j]
        BY <4>1
      <4>3. j < n + 1
        BY <4>2
      <4> QED
        BY <4>2, <4>3, <2>3 DEF Rising
    <3>3. Upto(n + 1) = Upto(n) \cup {f[n + 1]}
      <4>1. \A i \in DOMAIN f : i <= n + 1 <=> i <= n \/ i = n + 1
        OBVIOUS
      <4> QED
        BY <4>1, <2>3
    <3> HIDE DEF Upto
    <3>4. /\ Append(s, f[n + 1]) \in Seq(Nat) /\ Rising(Append(s, f[n + 1]))
          /\ Values(Append(s, f[n + 1])) = Upto(n + 1)
      BY <3>1, <3>2, <3>3, <2>2, AppendRising
    <3>5. /\ Picked(f, n + 1) \in Seq(Nat) /\ Rising(Picked(f, n + 1))
          /\ Values(Picked(f, n + 1)) = Upto(n + 1)
      BY <3>1, <3>4
    <3>6. n + 1 \in Nat
      OBVIOUS
    <3> QED
      BY <3>5, <3>6
  <2>4. CASE n + 1 \notin DOMAIN f
    <3>1. Picked(f, n + 1) = s
      BY <2>1, <2>4, PickedNext
    <3>2. Upto(n + 1) = Upto(n)
      <4>1. \A i \in DOMAIN f : i <= n + 1 <=> i <= n
        BY <2>4
      <4> QED
        BY <4>1
    <3> HIDE DEF Upto
    <3> QED
      BY <3>1, <3>2, <2>2
  <2> QED
    BY <2>3, <2>4
<1>3. N \in S
  <2> HIDE DEF S
  <2> QED
    BY <1>1, <1>2, EveryNumber
<1>4. Upto(N) = Values(f)
  BY DEF Values
<1> HIDE DEF Upto
<1> QED
  BY <1>3, <1>4

-------------------------------------------------------------------------------
(* The way of one client: it has entered v, has q queued and w coming from *)
(* the host, has refused m; the host has entered 1 .. h.                   *)

LettersOf(w) == [i \in {j \in DOMAIN w : w[j].type = "ENTERNODE"} |-> w[i].node]

Way(v, q, w, m, h) ==
  /\ Rising(v) /\ Rising(q) /\ Rising(LettersOf(w))
  /\ Below(Values(v), Values(q))
  /\ Below(Values(v), Values(LettersOf(w))) /\ Below(Values(q), Values(LettersOf(w)))
  /\ m \subseteq 1 .. h
  /\ Values(v) \cup Values(q) \cup Values(LettersOf(w)) = (1 .. h) \ m

LEMMA ListIs ==
  ASSUME NEW S, NEW s \in Seq(S)
  PROVE  Len(s) \in Nat /\ DOMAIN s = 1 .. Len(s) /\ \A i \in DOMAIN s : s[i] \in S
BY LenProperties, ElementOfSeq

LEMMA LetterIs ==
  ASSUME NEW w \in Seq(Message)
  PROVE  /\ DOMAIN LettersOf(w) \subseteq 1 .. Len(w)
         /\ \A i \in DOMAIN LettersOf(w) :
              i \in DOMAIN w /\ w[i].type = "ENTERNODE" /\ LettersOf(w)[i] = w[i].node
              /\ w[i].node \in Node
         /\ \A i \in DOMAIN w : w[i].type = "ENTERNODE" => i \in DOMAIN LettersOf(w)
<1>1. Len(w) \in Nat /\ DOMAIN w = 1 .. Len(w) /\ \A i \in DOMAIN w : w[i] \in Message
  BY ListIs
<1>2. \A m \in Message : m.type = "ENTERNODE" => m.node \in Node
  BY DEF Message
<1> QED
  BY <1>1, <1>2 DEF LettersOf

(* A letter more at the end.                                               *)
LEMMA LettersGrow ==
  ASSUME NEW w \in Seq(Message), NEW m \in Message
  PROVE  /\ m.type = "CHOICE" => LettersOf(Append(w, m)) = LettersOf(w)
         /\ m.type = "ENTERNODE" =>
              /\ DOMAIN LettersOf(Append(w, m)) = DOMAIN LettersOf(w) \cup {Len(w) + 1}
              /\ LettersOf(Append(w, m))[Len(w) + 1] = m.node
              /\ \A i \in DOMAIN LettersOf(w) : LettersOf(Append(w, m))[i] = LettersOf(w)[i]
<1>1. PICK a : a = Append(w, m)
  OBVIOUS
<1>2. a \in Seq(Message) /\ Len(a) = Len(w) + 1 /\ Len(w) \in Nat /\ a[Len(w) + 1] = m
      /\ \A i \in 1 .. Len(w) : a[i] = w[i]
  BY <1>1, AppendProperties, LenProperties
<1>3. DOMAIN w = 1 .. Len(w) /\ DOMAIN a = 1 .. Len(w) + 1
  BY <1>2, ListIs
<1>4. \A i \in DOMAIN a : \/ i \in DOMAIN w /\ a[i] = w[i]
                          \/ i = Len(w) + 1 /\ a[i] = m
  BY <1>2, <1>3
<1>5. \A i \in DOMAIN w : i \in DOMAIN a /\ a[i] = w[i] /\ i # Len(w) + 1
  BY <1>2, <1>3
<1>6. Len(w) + 1 \in DOMAIN a
  BY <1>2, <1>3
<1>7. CASE m.type = "CHOICE"
  <2>1. {j \in DOMAIN a : a[j].type = "ENTERNODE"} = {j \in DOMAIN w : w[j].type = "ENTERNODE"}
    BY <1>4, <1>5, <1>7
  <2>2. LettersOf(a) = LettersOf(w)
    BY <2>1, <1>5 DEF LettersOf
  <2> QED
    BY <2>2, <1>1, <1>7
<1>8. CASE m.type = "ENTERNODE"
  <2>1. {j \in DOMAIN a : a[j].type = "ENTERNODE"}
        = {j \in DOMAIN w : w[j].type = "ENTERNODE"} \cup {Len(w) + 1}
    BY <1>2, <1>4, <1>5, <1>6, <1>8
  <2>2. /\ DOMAIN LettersOf(a) = DOMAIN LettersOf(w) \cup {Len(w) + 1}
        /\ \A i \in DOMAIN LettersOf(a) : LettersOf(a)[i] = a[i].node
        /\ \A i \in DOMAIN LettersOf(w) : LettersOf(w)[i] = w[i].node /\ i \in DOMAIN w
    BY <2>1 DEF LettersOf
  <2>3. LettersOf(a)[Len(w) + 1] = m.node
    BY <2>2, <1>2
  <2>4. \A i \in DOMAIN LettersOf(w) : LettersOf(a)[i] = LettersOf(w)[i]
    BY <2>2, <1>5
  <2> QED
    BY <2>2, <2>3, <2>4, <1>1, <1>8
<1> QED
  BY <1>7, <1>8

(* The first letter read: the rest are one place further on.               *)
LEMMA LettersLeft ==
  ASSUME NEW w \in Seq(Message), w # <<>>
  PROVE  /\ \A i \in DOMAIN LettersOf(Tail(w)) :
              /\ i \in Nat /\ i + 1 \in DOMAIN LettersOf(w) /\ i + 1 # 1
              /\ LettersOf(Tail(w))[i] = LettersOf(w)[i + 1]
         /\ \A i \in DOMAIN LettersOf(w) :
              i # 1 => /\ i \in Nat /\ i - 1 \in DOMAIN LettersOf(Tail(w))
                       /\ LettersOf(Tail(w))[i - 1] = LettersOf(w)[i]
         /\ 1 \in DOMAIN LettersOf(w) <=> Head(w).type = "ENTERNODE"
         /\ 1 \in DOMAIN LettersOf(w) => LettersOf(w)[1] = Head(w).node
<1>1. PICK t : t = Tail(w)
  OBVIOUS
<1>2. t \in Seq(Message) /\ Len(t) = Len(w) - 1 /\ Len(w) \in Nat /\ Head(w) = w[1]
      /\ \A i \in 1 .. Len(t) : t[i] = w[i + 1]
  BY <1>1, HeadTailProperties, LenProperties
<1>3. DOMAIN w = 1 .. Len(w) /\ DOMAIN t = 1 .. Len(w) - 1 /\ Len(w) # 0
  BY <1>2, ListIs, EmptySeq
<1>4. \A i \in DOMAIN t : i \in Nat /\ i + 1 \in DOMAIN w /\ i + 1 # 1 /\ t[i] = w[i + 1]
  BY <1>2, <1>3
<1>5. \A i \in DOMAIN w : i # 1 => i \in Nat /\ i - 1 \in DOMAIN t /\ t[i - 1] = w[i]
  <2> SUFFICES ASSUME NEW i \in DOMAIN w, i # 1
               PROVE  i \in Nat /\ i - 1 \in DOMAIN t /\ t[i - 1] = w[i]
    OBVIOUS
  <2>1. i \in Nat /\ i - 1 \in 1 .. Len(w) - 1 /\ (i - 1) + 1 = i
    BY <1>2, <1>3
  <2> QED
    BY <2>1, <1>3, <1>4
<1>6. 1 \in DOMAIN w
  BY <1>2, <1>3
<1>7. ASSUME NEW i \in DOMAIN LettersOf(t)
      PROVE  /\ i \in Nat /\ i + 1 \in DOMAIN LettersOf(w) /\ i + 1 # 1
             /\ LettersOf(t)[i] = LettersOf(w)[i + 1]
  <2>1. i \in DOMAIN t /\ t[i].type = "ENTERNODE" /\ LettersOf(t)[i] = t[i].node
    BY <1>7 DEF LettersOf
  <2>2. i + 1 \in DOMAIN w /\ w[i + 1].type = "ENTERNODE" /\ t[i] = w[i + 1]
    BY <2>1, <1>4
  <2>3. i + 1 \in DOMAIN LettersOf(w) /\ LettersOf(w)[i + 1] = w[i + 1].node
    BY <2>2 DEF LettersOf
  <2> QED
    BY <2>1, <2>2, <2>3, <1>4
<1>8. ASSUME NEW i \in DOMAIN LettersOf(w), i # 1
      PROVE  /\ i \in Nat /\ i - 1 \in DOMAIN LettersOf(t)
             /\ LettersOf(t)[i - 1] = LettersOf(w)[i]
  <2>1. i \in DOMAIN w /\ w[i].type = "ENTERNODE" /\ LettersOf(w)[i] = w[i].node
    BY <1>8 DEF LettersOf
  <2>2. i \in Nat /\ i - 1 \in DOMAIN t /\ t[i - 1] = w[i]
    BY <2>1, <1>5, <1>8
  <2>3. i - 1 \in DOMAIN LettersOf(t) /\ LettersOf(t)[i - 1] = t[i - 1].node
    BY <2>1, <2>2 DEF LettersOf
  <2> QED
    BY <2>1, <2>2, <2>3
<1>9. (1 \in DOMAIN LettersOf(w) <=> w[1].type = "ENTERNODE")
      /\ (1 \in DOMAIN LettersOf(w) => LettersOf(w)[1] = w[1].node)
  BY <1>6 DEF LettersOf
<1> QED
  BY <1>1, <1>2, <1>7, <1>8, <1>9

LEMMA ListRead ==
  ASSUME NEW s \in Seq(Nat), s # <<>>, Rising(s)
  PROVE  /\ Head(s) \in Nat /\ Tail(s) \in Seq(Nat) /\ Rising(Tail(s))
         /\ Values(s) = {Head(s)} \cup Values(Tail(s))
         /\ Below({Head(s)}, Values(Tail(s)))
<1>1. PICK t : t = Tail(s)
  OBVIOUS
<1>2. t \in Seq(Nat) /\ Len(t) = Len(s) - 1 /\ Len(s) \in Nat /\ Head(s) = s[1]
      /\ Head(s) \in Nat /\ \A i \in 1 .. Len(t) : t[i] = s[i + 1]
  BY <1>1, HeadTailProperties, LenProperties
<1>3. DOMAIN s = 1 .. Len(s) /\ DOMAIN t = 1 .. Len(s) - 1 /\ Len(s) # 0
  BY <1>2, ListIs, EmptySeq
<1>4. \A i \in DOMAIN t : i \in Nat /\ i > 0 /\ i + 1 \in DOMAIN s /\ t[i] = s[i + 1]
  BY <1>2, <1>3
<1>5. \A i \in DOMAIN s : i # 1 => i - 1 \in DOMAIN t /\ t[i - 1] = s[i]
  <2> SUFFICES ASSUME NEW i \in DOMAIN s, i # 1 PROVE i - 1 \in DOMAIN t /\ t[i - 1] = s[i]
    OBVIOUS
  <2>1. i \in Nat /\ i - 1 \in 1 .. Len(s) - 1 /\ (i - 1) + 1 = i
    BY <1>2, <1>3
  <2> QED
    BY <2>1, <1>3, <1>4
<1>6. 1 \in DOMAIN s
  BY <1>2, <1>3
<1>7. Rising(t)
  <2> SUFFICES ASSUME NEW i \in DOMAIN t, NEW j \in DOMAIN t, i < j PROVE t[i] < t[j]
    BY DEF Rising
  <2>1. i + 1 < j + 1
    BY <1>4
  <2> QED
    BY <2>1, <1>4 DEF Rising
<1>8. Values(s) = {s[1]} \cup Values(t)
  <2>1. Values(s) \subseteq {s[1]} \cup Values(t)
    BY <1>5 DEF Values
  <2>2. Values(t) \subseteq Values(s)
    BY <1>4 DEF Values
  <2>3. s[1] \in Values(s)
    BY <1>6 DEF Values
  <2> QED
    BY <2>1, <2>2, <2>3
<1>9. Below({s[1]}, Values(t))
  <2> SUFFICES ASSUME NEW i \in DOMAIN t PROVE s[1] < t[i]
    BY DEF Below, Values
  <2>1. 1 < i + 1
    BY <1>4
  <2> QED
    BY <2>1, <1>4, <1>6 DEF Rising
<1> QED
  BY <1>1, <1>2, <1>7, <1>8, <1>9

LEMMA LettersRead ==
  ASSUME NEW w \in Seq(Message), w # <<>>, Rising(LettersOf(w))
  PROVE  /\ Rising(LettersOf(Tail(w)))
         /\ Head(w).type # "ENTERNODE" => Values(LettersOf(Tail(w))) = Values(LettersOf(w))
         /\ Head(w).type = "ENTERNODE" =>
              /\ Values(LettersOf(w)) = {Head(w).node} \cup Values(LettersOf(Tail(w)))
              /\ Below({Head(w).node}, Values(LettersOf(Tail(w))))
<1>1. PICK f, g : f = LettersOf(w) /\ g = LettersOf(Tail(w))
  OBVIOUS
<1>2. PICK n : n = Head(w).node
  OBVIOUS
<1>3. \A i \in DOMAIN g : i \in Nat /\ i + 1 \in DOMAIN f /\ i + 1 # 1 /\ g[i] = f[i + 1]
  BY <1>1, LettersLeft
<1>4. \A i \in DOMAIN f : i # 1 => i \in Nat /\ i - 1 \in DOMAIN g /\ g[i - 1] = f[i]
  BY <1>1, LettersLeft
<1>5. (1 \in DOMAIN f <=> Head(w).type = "ENTERNODE") /\ (1 \in DOMAIN f => f[1] = n)
  BY <1>1, <1>2, LettersLeft
<1>6. Rising(g)
  <2> SUFFICES ASSUME NEW i \in DOMAIN g, NEW j \in DOMAIN g, i < j PROVE g[i] < g[j]
    BY DEF Rising
  <2>1. i + 1 < j + 1
    BY <1>3
  <2> QED
    BY <2>1, <1>1, <1>3 DEF Rising
<1>7. Values(g) \subseteq Values(f)
  BY <1>3 DEF Values
<1>8. CASE Head(w).type # "ENTERNODE"
  <2>1. Values(f) \subseteq Values(g)
    BY <1>4, <1>5, <1>8 DEF Values
  <2> QED
    BY <2>1, <1>1, <1>6, <1>7, <1>8
<1>9. CASE Head(w).type = "ENTERNODE"
  <2>1. 1 \in DOMAIN f /\ f[1] = n
    BY <1>5, <1>9
  <2>2. Values(f) \subseteq {n} \cup Values(g)
    BY <2>1, <1>4 DEF Values
  <2>3. n \in Values(f)
    BY <2>1 DEF Values
  <2>4. Below({n}, Values(g))
    <3> SUFFICES ASSUME NEW i \in DOMAIN g PROVE n < g[i]
      BY DEF Below, Values
    <3>1. i + 1 \in DOMAIN f /\ 1 < i + 1 /\ g[i] = f[i + 1]
      <4>1. LettersOf(w) = f /\ DOMAIN f \subseteq 1 .. Len(w) /\ Len(w) \in Nat
        BY <1>1, LetterIs, LenProperties
      <4> QED
        BY <4>1, <1>3
    <3> QED
      BY <3>1, <2>1, <1>1 DEF Rising
  <2> QED
    BY <2>2, <2>3, <2>4, <1>1, <1>2, <1>6, <1>7, <1>9
<1> QED
  BY <1>8, <1>9

LEMMA LettersWritten ==
  ASSUME NEW w \in Seq(Message), NEW m \in Message, m.type = "ENTERNODE", Rising(LettersOf(w)),
         Below(Values(LettersOf(w)), {m.node})
  PROVE  /\ Rising(LettersOf(Append(w, m)))
         /\ Values(LettersOf(Append(w, m))) = Values(LettersOf(w)) \cup {m.node}
<1>1. PICK f, g : f = LettersOf(w) /\ g = LettersOf(Append(w, m))
  OBVIOUS
<1>2. PICK l : l = Len(w)
  OBVIOUS
<1>3. /\ DOMAIN g = DOMAIN f \cup {l + 1} /\ g[l + 1] = m.node
      /\ \A i \in DOMAIN f : g[i] = f[i]
  BY <1>1, <1>2, LettersGrow
<1>4. l \in Nat /\ DOMAIN f \subseteq 1 .. l
  BY <1>1, <1>2, LetterIs, LenProperties
<1>5. Rising(g)
  <2> SUFFICES ASSUME NEW i \in DOMAIN g, NEW j \in DOMAIN g, i < j PROVE g[i] < g[j]
    BY DEF Rising
  <2>1. i \in DOMAIN f
    BY <1>3, <1>4
  <2>2. CASE j \in DOMAIN f
    BY <2>1, <2>2, <1>1, <1>3 DEF Rising
  <2>3. CASE j = l + 1
    <3>1. f[i] \in Values(f)
      BY <2>1 DEF Values
    <3> QED
      BY <3>1, <2>1, <2>3, <1>1, <1>3 DEF Below
  <2> QED
    BY <2>2, <2>3, <1>3
<1>6. Values(g) = Values(f) \cup {m.node}
  <2>1. Values(g) \subseteq Values(f) \cup {m.node}
    BY <1>3 DEF Values
  <2>2. Values(f) \subseteq Values(g)
    BY <1>3 DEF Values
  <2>3. m.node \in Values(g)
    BY <1>3 DEF Values
  <2> QED
    BY <2>1, <2>2, <2>3
<1> QED
  BY <1>1, <1>5, <1>6

(* What the steps make of a way.                                           *)
LEMMA Published ==
  ASSUME NEW v, NEW q, NEW w \in Seq(Message), NEW m, NEW h \in Nat, Way(v, q, w, m, h),
         NEW l \in Message, l.type = "ENTERNODE", l.node = h + 1
  PROVE  Way(v, q, Append(w, l), m, h + 1)
<1>1. PICK V, Q, W : V = Values(v) /\ Q = Values(q) /\ W = Values(LettersOf(w))
  OBVIOUS
<1>2. m \subseteq 1 .. h /\ V \cup Q \cup W = (1 .. h) \ m
      /\ Below(V, Q) /\ Below(V, W) /\ Below(Q, W)
      /\ Rising(v) /\ Rising(q) /\ Rising(LettersOf(w))
  BY <1>1 DEF Way
<1>3. \A x \in V \cup Q \cup W : x \in 1 .. h
  BY <1>2
<1>4. Below(V, {h + 1}) /\ Below(Q, {h + 1}) /\ Below(W, {h + 1})
  BY <1>3 DEF Below
<1>5. Rising(LettersOf(Append(w, l))) /\ Values(LettersOf(Append(w, l))) = W \cup {h + 1}
  BY <1>1, <1>2, <1>4, LettersWritten
<1>6. m \subseteq 1 .. h + 1 /\ V \cup Q \cup (W \cup {h + 1}) = (1 .. h + 1) \ m
  <2>1. 1 .. h + 1 = (1 .. h) \cup {h + 1} /\ h + 1 \notin 1 .. h
    OBVIOUS
  <2> QED
    BY <2>1, <1>2
<1>7. Below(V, W \cup {h + 1}) /\ Below(Q, W \cup {h + 1})
  BY <1>2, <1>4 DEF Below
<1> QED
  BY <1>1, <1>2, <1>5, <1>6, <1>7 DEF Way

LEMMA Heard ==
  ASSUME NEW v, NEW q, NEW w \in Seq(Message), NEW m, NEW h, Way(v, q, w, m, h),
         w # <<>>, Head(w).type # "ENTERNODE"
  PROVE  Way(v, q, Tail(w), m, h)
<1>1. Rising(LettersOf(Tail(w))) /\ Values(LettersOf(Tail(w))) = Values(LettersOf(w))
  BY LettersRead DEF Way
<1> QED
  BY <1>1 DEF Way

LEMMA OneQueued ==
  ASSUME NEW v, NEW q \in Seq(Nat), NEW w \in Seq(Message), NEW m, NEW h \in Nat,
         Way(v, q, w, m, h), w # <<>>, Head(w).type = "ENTERNODE", NEW n, n = Head(w).node
  PROVE  Way(v, Append(q, n), Tail(w), m, h)
<1>1. PICK V, Q, W, X : /\ V = Values(v) /\ Q = Values(q) /\ W = Values(LettersOf(w))
                        /\ X = Values(LettersOf(Tail(w)))
  OBVIOUS
<1>2. m \subseteq 1 .. h /\ V \cup Q \cup W = (1 .. h) \ m
      /\ Below(V, Q) /\ Below(V, W) /\ Below(Q, W)
      /\ Rising(v) /\ Rising(q) /\ Rising(LettersOf(w))
  BY <1>1 DEF Way
<1>3. Rising(LettersOf(Tail(w))) /\ W = {n} \cup X /\ Below({n}, X)
  BY <1>1, <1>2, LettersRead
<1>4. n \in 1 .. h /\ n \in W /\ n \in Nat
  <2>1. n \in W
    BY <1>3
  <2>2. n \in 1 .. h
    BY <2>1, <1>2
  <2> QED
    BY <2>1, <2>2
<1>5. \A i \in DOMAIN q : q[i] < n
  BY <1>1, <1>2, <1>4 DEF Below, Values
<1>6. Rising(Append(q, n)) /\ Values(Append(q, n)) = Q \cup {n}
  BY <1>1, <1>2, <1>4, <1>5, AppendRising
<1>7. Below(V, Q \cup {n}) /\ Below(V, X) /\ Below(Q \cup {n}, X)
  BY <1>2, <1>3 DEF Below
<1>8. V \cup (Q \cup {n}) \cup X = (1 .. h) \ m
  BY <1>2, <1>3
<1> QED
  BY <1>1, <1>2, <1>3, <1>6, <1>7, <1>8 DEF Way

LEMMA OneRefused ==
  ASSUME NEW v, NEW q, NEW w \in Seq(Message), NEW m, NEW h \in Nat,
         Way(v, q, w, m, h), w # <<>>, Head(w).type = "ENTERNODE", NEW n, n = Head(w).node
  PROVE  Way(v, q, Tail(w), m \cup {n}, h)
<1>1. PICK V, Q, W, X : /\ V = Values(v) /\ Q = Values(q) /\ W = Values(LettersOf(w))
                        /\ X = Values(LettersOf(Tail(w)))
  OBVIOUS
<1>2. m \subseteq 1 .. h /\ V \cup Q \cup W = (1 .. h) \ m
      /\ Below(V, Q) /\ Below(V, W) /\ Below(Q, W)
      /\ Rising(v) /\ Rising(q) /\ Rising(LettersOf(w))
  BY <1>1 DEF Way
<1>3. Rising(LettersOf(Tail(w))) /\ W = {n} \cup X /\ Below({n}, X)
  BY <1>1, <1>2, LettersRead
<1>4. n \in 1 .. h /\ n \in W /\ n \in Nat
  BY <1>2, <1>3
<1>5. n \notin V /\ n \notin Q /\ n \notin X
  BY <1>2, <1>3, <1>4 DEF Below
<1>6. V \cup Q \cup X = (1 .. h) \ (m \cup {n})
  BY <1>2, <1>3, <1>5
<1>7. Below(V, X) /\ Below(Q, X) /\ m \cup {n} \subseteq 1 .. h
  BY <1>2, <1>3, <1>4 DEF Below
<1> QED
  BY <1>1, <1>2, <1>3, <1>6, <1>7 DEF Way

LEMMA OneGivenUp ==
  ASSUME NEW v, NEW q \in Seq(Nat), NEW w, NEW m, NEW h \in Nat, Way(v, q, w, m, h), q # <<>>,
         NEW n, n = Head(q)
  PROVE  Way(v, Tail(q), w, m \cup {n}, h)
<1>1. PICK V, Q, W, X : /\ V = Values(v) /\ Q = Values(q) /\ W = Values(LettersOf(w))
                        /\ X = Values(Tail(q))
  OBVIOUS
<1>2. m \subseteq 1 .. h /\ V \cup Q \cup W = (1 .. h) \ m
      /\ Below(V, Q) /\ Below(V, W) /\ Below(Q, W)
      /\ Rising(v) /\ Rising(q) /\ Rising(LettersOf(w))
  BY <1>1 DEF Way
<1>3. Rising(Tail(q)) /\ Q = {n} \cup X /\ Below({n}, X)
  BY <1>1, <1>2, ListRead
<1>4. n \in 1 .. h /\ n \in Q /\ n \in Nat
  BY <1>2, <1>3
<1>5. n \notin V /\ n \notin W /\ n \notin X
  BY <1>2, <1>3, <1>4 DEF Below
<1>6. V \cup X \cup W = (1 .. h) \ (m \cup {n})
  BY <1>2, <1>3, <1>5
<1>7. Below(V, X) /\ Below(X, W) /\ m \cup {n} \subseteq 1 .. h
  BY <1>2, <1>3, <1>4 DEF Below
<1> QED
  BY <1>1, <1>2, <1>3, <1>6, <1>7 DEF Way

LEMMA OneFollowed ==
  ASSUME NEW v \in Seq(Nat), NEW q \in Seq(Nat), NEW w, NEW m, NEW h \in Nat,
         Way(v, q, w, m, h), q # <<>>, NEW n, n = Head(q)
  PROVE  Way(Append(v, n), Tail(q), w, m, h)
<1>1. PICK V, Q, W, X : /\ V = Values(v) /\ Q = Values(q) /\ W = Values(LettersOf(w))
                        /\ X = Values(Tail(q))
  OBVIOUS
<1>2. m \subseteq 1 .. h /\ V \cup Q \cup W = (1 .. h) \ m
      /\ Below(V, Q) /\ Below(V, W) /\ Below(Q, W)
      /\ Rising(v) /\ Rising(q) /\ Rising(LettersOf(w))
  BY <1>1 DEF Way
<1>3. Rising(Tail(q)) /\ Q = {n} \cup X /\ Below({n}, X)
  BY <1>1, <1>2, ListRead
<1>4. n \in 1 .. h /\ n \in Q /\ n \in Nat
  BY <1>2, <1>3
<1>5. \A i \in DOMAIN v : v[i] < n
  BY <1>1, <1>2, <1>4 DEF Below, Values
<1>6. Rising(Append(v, n)) /\ Values(Append(v, n)) = V \cup {n}
  BY <1>1, <1>2, <1>4, <1>5, AppendRising
<1>7. Below(V \cup {n}, X) /\ Below(X, W) /\ Below(V \cup {n}, W)
  BY <1>2, <1>3 DEF Below
<1>8. (V \cup {n}) \cup X \cup W = (1 .. h) \ m
  BY <1>2, <1>3
<1> QED
  BY <1>1, <1>2, <1>3, <1>6, <1>7, <1>8 DEF Way

(* On its way, everything is where it should be: the property.  Entered is *)
(* what the host has entered.                                              *)
Entered(h) == [i \in 1 .. h |-> i]

LEMMA WayIsSame ==
  ASSUME NEW v \in Seq(Nat), NEW q \in Seq(Nat), NEW w \in Seq(Message), NEW m, NEW h \in Nat,
         Way(v, q, w, m, h), NEW u, u = Entered(h)
  PROVE  v \o (q \o Picked(LettersOf(w), Len(w))) = Without(u, m)
<1>1. Len(w) \in Nat
  BY LenProperties
<1>2. PICK p : p = Picked(LettersOf(w), Len(w))
  OBVIOUS
<1>3. p \in Seq(Nat) /\ Rising(p) /\ Values(p) = Values(LettersOf(w))
  <2>1. \A i \in DOMAIN LettersOf(w) : LettersOf(w)[i] \in Nat
    BY LetterIs, NodeIs
  <2> QED
    BY <2>1, <1>1, <1>2, LetterIs, PickedRising DEF Way
<1>4. Below(Values(q), Values(p)) /\ Below(Values(v), Values(q) \cup Values(p))
  BY <1>3 DEF Way, Below
<1>5. q \o p \in Seq(Nat) /\ Rising(q \o p) /\ Values(q \o p) = Values(q) \cup Values(p)
  BY <1>3, <1>4, ConcatRising DEF Way
<1>6. /\ v \o (q \o p) \in Seq(Nat) /\ Rising(v \o (q \o p))
      /\ Values(v \o (q \o p)) = (1 .. h) \ m
  <2>1. v \o (q \o p) \in Seq(Nat) /\ Rising(v \o (q \o p))
        /\ Values(v \o (q \o p)) = Values(v) \cup Values(q \o p)
    BY <1>4, <1>5, ConcatRising DEF Way
  <2> QED
    BY <2>1, <1>3, <1>5 DEF Way
<1>7. PICK f : f = [i \in {j \in DOMAIN u : u[j] \notin m} |-> u[i]]
  OBVIOUS
<1>8. DOMAIN u = 1 .. h /\ \A i \in DOMAIN u : u[i] = i
  BY DEF Entered
<1>9. DOMAIN f = (1 .. h) \ m /\ \A i \in DOMAIN f : f[i] = i
  BY <1>7, <1>8
<1>10. Rising(f) /\ Values(f) = (1 .. h) \ m /\ DOMAIN f \subseteq 1 .. h
       /\ \A i \in DOMAIN f : f[i] \in Nat
  BY <1>9 DEF Rising, Values
<1>11. Len(u) = h
  <2>1. u \in Seq(Nat)
    BY SeqDef DEF Entered
  <2> QED
    BY <2>1, <1>8, LenProperties
<1>12. Without(u, m) = Picked(f, h)
  BY <1>7, <1>11 DEF Without
<1>13. Picked(f, h) \in Seq(Nat) /\ Rising(Picked(f, h)) /\ Values(Picked(f, h)) = (1 .. h) \ m
  BY <1>10, PickedRising
<1> QED
  BY <1>2, <1>6, <1>12, <1>13, OneRising

-------------------------------------------------------------------------------
(* Every client is on its way, and the host has entered 1, 2, ... and is at*)
(* the last.                                                               *)
OnItsWay(c) == Way(visited[c], nodeQ[c], wire[Host][c], missed[c], Here(Host))

WayInv ==
  /\ StandInv
  /\ visited[Host] = Entered(Here(Host))
  /\ \A c \in Client : OnItsWay(c)

LEMMA NodesAreNumbers == Seq(Node) \subseteq Seq(Nat)
<1>1. ASSUME NEW s \in Seq(Node) PROVE s \in Seq(Nat)
  <2>1. Len(s) \in Nat /\ s = [i \in 1 .. Len(s) |-> s[i]] /\ \A i \in 1 .. Len(s) : s[i] \in Nat
    BY NodeIs, LenProperties, ElementOfSeq
  <2> QED
    BY <2>1, SeqDef
<1> QED
  BY <1>1

LEMMA WayIs ==
  ASSUME StandInv, NEW c \in Client
  PROVE  /\ visited[c] \in Seq(Nat) /\ nodeQ[c] \in Seq(Nat) /\ wire[Host][c] \in Seq(Message)
         /\ Here(Host) \in Nat /\ c \in Peer /\ Host \in Peer /\ c # Host
<1>1. TypeOK /\ c \in Peer /\ Host \in Peer /\ c # Host
  BY PeerAssumption DEF StandInv, Peer
<1>2. visited[c] \in Seq(Node) /\ nodeQ[c] \in Seq(Node) /\ wire[Host][c] \in Seq(Message)
  BY <1>1 DEF TypeOK
<1> QED
  BY <1>1, <1>2, NodesAreNumbers, HereIs

LEMMA WayKept ==
  ASSUME WayInv, StandInv', UNCHANGED <<visited, nodeQ, missed>>,
         \A c \in Client : OnItsWay(c) =>
           Way(visited[c], nodeQ[c], wire'[Host][c], missed[c], Here(Host))
  PROVE  WayInv'
BY DEF WayInv, OnItsWay, Here

LEMMA WayInit == Init => WayInv
<1> SUFFICES ASSUME Init PROVE WayInv
  OBVIOUS
<1>1. StandInv
  BY StandInit
<1>2. visited[Host] = <<>> /\ Here(Host) = 0
  BY DEF Init, Here, Peer
<1>3. Entered(0) = <<>>
  <2>1. Entered(0) \in Seq(Nat) /\ Len(Entered(0)) = 0
    BY SeqDef, LenProperties DEF Entered
  <2> QED
    BY <2>1, EmptySeq
<1>4. Values(<<>>) = {} /\ Rising(<<>>) /\ LettersOf(<<>>) = <<>>
  <2>1. DOMAIN <<>> = {}
    BY EmptySeq
  <2>2. LettersOf(<<>>) = [i \in {} |-> <<>>[i].node] /\ <<>> = [i \in {} |-> <<>>[i]]
    BY <2>1 DEF LettersOf
  <2> QED
    BY <2>1, <2>2 DEF Values, Rising
<1>5. ASSUME NEW c \in Client PROVE OnItsWay(c)
  <2>1. visited[c] = <<>> /\ nodeQ[c] = <<>> /\ wire[Host][c] = <<>> /\ missed[c] = {}
    BY DEF Init, Peer
  <2>2. (1 .. 0) \ {} = {}
    OBVIOUS
  <2> QED
    BY <2>1, <2>2, <1>2, <1>4 DEF OnItsWay, Way, Below
<1> QED
  BY <1>1, <1>2, <1>3, <1>5 DEF WayInv

LEMMA WayHostEnterNode ==
  ASSUME WayInv, HostEnterNode
  PROVE  WayInv'
<1>1. StandInv /\ StandInv' /\ Here(Host) \in Nat /\ Host \in Peer /\ Here(Host) + 1 \in Node
  BY StandHostEnterNode, HereIs DEF WayInv, StandInv, Peer
<1>2. PICK h \in Nat : h = Here(Host)
  BY <1>1
<1>3. PICK l : l = [type |-> "ENTERNODE", node |-> h + 1]
  OBVIOUS
<1>4. l \in Message /\ l.type = "ENTERNODE" /\ l.node = h + 1
  BY <1>1, <1>2, <1>3 DEF Message
<1>5. /\ visited' = [visited EXCEPT ![Host] = Append(@, h + 1)]
      /\ wire' = Sent(Host, l) /\ UNCHANGED <<nodeQ, missed>>
  BY <1>2, <1>3 DEF HostEnterNode, Enter
<1>6. visited[Host] \in Seq(Node) /\ visited[Host] = Entered(h)
  BY <1>1, <1>2 DEF WayInv, StandInv, TypeOK
<1>7. PICK s : s = Append(visited[Host], h + 1)
  OBVIOUS
<1>8. Len(visited[Host]) = h
  <2>1. DOMAIN visited[Host] = 1 .. h /\ DOMAIN visited[Host] = 1 .. Len(visited[Host])
        /\ Len(visited[Host]) \in Nat
    BY <1>6, LenProperties DEF Entered
  <2> QED
    BY <2>1, <1>6, LenProperties DEF Entered
<1>9. s \in Seq(Node) /\ Len(s) = h + 1 /\ s[h + 1] = h + 1 /\ \A i \in 1 .. h : s[i] = i
  BY <1>1, <1>2, <1>6, <1>7, <1>8, AppendProperties DEF Entered
<1>10. s = Entered(h + 1)
  <2>1. \A i \in 1 .. h + 1 : s[i] = i
    BY <1>9
  <2>2. s = [i \in 1 .. h + 1 |-> s[i]]
    BY <1>9, LenProperties
  <2> QED
    BY <2>1, <2>2 DEF Entered
<1>11. visited'[Host] = s /\ \A c \in Client : visited'[c] = visited[c]
  BY <1>1, <1>5, <1>7, PeerAssumption DEF StandInv, TypeOK, Peer
<1>12. s # <<>>
  BY <1>9, EmptySeq
<1>13. Here(Host)' = h + 1
  <2>1. Last(s) = h + 1
    BY <1>9, <1>12, LastOf
  <2> QED
    BY <2>1, <1>11, <1>12 DEF Here
<1>14. ASSUME NEW c \in Client PROVE OnItsWay(c)'
  <2>1. wire[Host][c] \in Seq(Message) /\ Way(visited[c], nodeQ[c], wire[Host][c], missed[c], h)
    BY <1>1, <1>2, WayIs DEF WayInv, OnItsWay
  <2>2. wire'[Host][c] = Append(wire[Host][c], l)
    BY <1>1, <1>5, WayIs DEF Sent, StandInv, TypeOK
  <2>3. Way(visited[c], nodeQ[c], wire'[Host][c], missed[c], h + 1)
    BY <2>1, <2>2, <1>4, Published
  <2> QED
    BY <2>3, <1>5, <1>11, <1>13 DEF OnItsWay
<1> QED
  BY <1>1, <1>10, <1>11, <1>13, <1>14 DEF WayInv

LEMMA WayOnEnterNode ==
  ASSUME WayInv, NEW c \in Client, OnEnterNode(c)
  PROVE  WayInv'
<1>1. StandInv /\ StandInv' /\ OnItsWay(c)
  BY StandOnEnterNode DEF WayInv
<1>2. PICK n : n = Head(wire[Host][c]).node
  OBVIOUS
<1>3. PICK h : h = Here(Host)
  OBVIOUS
<1>4. /\ visited[c] \in Seq(Nat) /\ nodeQ[c] \in Seq(Nat) /\ wire[Host][c] \in Seq(Message)
      /\ h \in Nat /\ c \in Peer /\ Host \in Peer
  BY <1>1, <1>3, WayIs
<1>5. /\ wire[Host][c] # <<>> /\ Head(wire[Host][c]).type = "ENTERNODE"
      /\ wire' = [wire EXCEPT ![Host][c] = Tail(@)] /\ visited' = visited
  BY DEF OnEnterNode, gameVars
<1>6. wire'[Host][c] = Tail(wire[Host][c])
      /\ \A d \in Client : d # c => wire'[Host][d] = wire[Host][d]
  BY <1>1, <1>4, <1>5 DEF StandInv, TypeOK, Peer
<1>7. Here(Host)' = h
  BY <1>3, <1>5 DEF Here
<1>8. \A d \in Client : d # c => nodeQ'[d] = nodeQ[d] /\ missed'[d] = missed[d]
  <2>1. nodeQ \in [Client -> Seq(Node)] /\ missed \in [Client -> SUBSET Node]
    BY <1>1 DEF StandInv, TypeOK
  <2>2. \/ nodeQ' = nodeQ /\ missed' = [missed EXCEPT ![c] = @ \cup {n}]
        \/ nodeQ' = [nodeQ EXCEPT ![c] = Queued(@, n)] /\ missed' = missed
    BY <1>2 DEF OnEnterNode
  <2> QED
    BY <2>1, <2>2
<1>9. OnItsWay(c)'
  <2>1. CASE Full(nodeQ[c])
    <3>1. nodeQ'[c] = nodeQ[c] /\ missed'[c] = missed[c] \cup {n}
      BY <2>1, <1>1, <1>2 DEF OnEnterNode, StandInv, TypeOK
    <3>2. Way(visited[c], nodeQ[c], Tail(wire[Host][c]), missed[c] \cup {n}, h)
      BY <1>1, <1>2, <1>3, <1>4, <1>5, OneRefused DEF OnItsWay
    <3> QED
      BY <3>1, <3>2, <1>5, <1>6, <1>7 DEF OnItsWay
  <2>2. CASE ~Full(nodeQ[c])
    <3>1. nodeQ'[c] = Append(nodeQ[c], n) /\ missed'[c] = missed[c]
      BY <2>2, <1>1, <1>2 DEF OnEnterNode, Queued, StandInv, TypeOK
    <3>2. Way(visited[c], Append(nodeQ[c], n), Tail(wire[Host][c]), missed[c], h)
      BY <1>1, <1>2, <1>3, <1>4, <1>5, OneQueued DEF OnItsWay
    <3> QED
      BY <3>1, <3>2, <1>5, <1>6, <1>7 DEF OnItsWay
  <2> QED
    BY <2>1, <2>2
<1>10. ASSUME NEW d \in Client, d # c PROVE OnItsWay(d)'
  BY <1>10, <1>3, <1>5, <1>6, <1>7, <1>8 DEF WayInv, OnItsWay
<1> QED
  BY <1>1, <1>3, <1>5, <1>7, <1>9, <1>10 DEF WayInv

LEMMA WayRefuseNode ==
  ASSUME WayInv, NEW c \in Client, RefuseNode(c)
  PROVE  WayInv'
<1>1. StandInv /\ StandInv' /\ OnItsWay(c)
  BY StandRefuseNode DEF WayInv
<1>2. PICK n : n = Head(nodeQ[c])
  OBVIOUS
<1>3. PICK h : h = Here(Host)
  OBVIOUS
<1>4. nodeQ[c] \in Seq(Nat) /\ h \in Nat
  BY <1>1, <1>3, WayIs
<1>5. /\ nodeQ[c] # <<>> /\ visited' = visited /\ wire' = wire
      /\ nodeQ' = [nodeQ EXCEPT ![c] = Tail(@)] /\ missed' = [missed EXCEPT ![c] = @ \cup {n}]
  BY <1>2 DEF RefuseNode, MapTicks, gameVars
<1>6. Here(Host)' = h
  BY <1>3, <1>5 DEF Here
<1>7. /\ nodeQ'[c] = Tail(nodeQ[c]) /\ missed'[c] = missed[c] \cup {n}
      /\ \A d \in Client : d # c => nodeQ'[d] = nodeQ[d] /\ missed'[d] = missed[d]
  BY <1>1, <1>5 DEF StandInv, TypeOK
<1>8. Way(visited[c], Tail(nodeQ[c]), wire[Host][c], missed[c] \cup {n}, h)
  BY <1>1, <1>2, <1>3, <1>4, <1>5, OneGivenUp DEF OnItsWay
<1>9. ASSUME NEW d \in Client PROVE OnItsWay(d)'
  <2>1. CASE d = c
    BY <2>1, <1>5, <1>6, <1>7, <1>8 DEF OnItsWay
  <2>2. CASE d # c
    BY <2>2, <1>3, <1>5, <1>6, <1>7 DEF WayInv, OnItsWay
  <2> QED
    BY <2>1, <2>2
<1> QED
  BY <1>1, <1>3, <1>5, <1>6, <1>9 DEF WayInv

LEMMA WayFollowNode ==
  ASSUME WayInv, NEW c \in Client, FollowNode(c)
  PROVE  WayInv'
<1>1. StandInv /\ StandInv' /\ OnItsWay(c)
  BY StandFollowNode DEF WayInv
<1>2. PICK n : n = Head(nodeQ[c])
  OBVIOUS
<1>3. PICK h : h = Here(Host)
  OBVIOUS
<1>4. /\ visited[c] \in Seq(Nat) /\ nodeQ[c] \in Seq(Nat) /\ h \in Nat
      /\ c \in Peer /\ Host \in Peer /\ c # Host
  BY <1>1, <1>3, WayIs
<1>5. /\ nodeQ[c] # <<>> /\ visited' = [visited EXCEPT ![c] = Append(@, n)] /\ wire' = wire
      /\ nodeQ' = [nodeQ EXCEPT ![c] = Tail(@)] /\ missed' = missed
  BY <1>2 DEF FollowNode, MapTicks, Enter
<1>6. /\ visited'[c] = Append(visited[c], n) /\ visited'[Host] = visited[Host]
      /\ \A d \in Client : d # c => visited'[d] = visited[d]
  BY <1>1, <1>4, <1>5 DEF StandInv, TypeOK, Peer
<1>7. Here(Host)' = h
  BY <1>3, <1>6 DEF Here
<1>8. nodeQ'[c] = Tail(nodeQ[c]) /\ \A d \in Client : d # c => nodeQ'[d] = nodeQ[d]
  BY <1>1, <1>5 DEF StandInv, TypeOK
<1>9. Way(Append(visited[c], n), Tail(nodeQ[c]), wire[Host][c], missed[c], h)
  BY <1>1, <1>2, <1>3, <1>4, <1>5, OneFollowed DEF OnItsWay
<1>10. ASSUME NEW d \in Client PROVE OnItsWay(d)'
  <2>1. CASE d = c
    BY <2>1, <1>5, <1>6, <1>7, <1>8, <1>9 DEF OnItsWay
  <2>2. CASE d # c
    BY <2>2, <1>3, <1>5, <1>6, <1>7, <1>8 DEF WayInv, OnItsWay
  <2> QED
    BY <2>1, <2>2
<1> QED
  BY <1>1, <1>3, <1>6, <1>7, <1>10 DEF WayInv

LEMMA WayChoose ==
  ASSUME WayInv, NEW p \in Peer, Choose(p)
  PROVE  WayInv'
<1>1. StandInv /\ StandInv'
  BY StandChoose DEF WayInv
<1>2. PICK l : l \in Message /\ l.type = "CHOICE" /\ wire' = Sent(p, l)
  <2>1. PICK o \in Nat :
          /\ [type |-> "CHOICE", choice |-> Said(p, o)] \in Message
          /\ wire' = Sent(p, [type |-> "CHOICE", choice |-> Said(p, o)])
    BY <1>1, ChooseIs
  <2> QED
    BY <2>1
<1>3. UNCHANGED <<visited, nodeQ, missed>>
  BY DEF Choose
<1>4. ASSUME NEW c \in Client, OnItsWay(c)
      PROVE  Way(visited[c], nodeQ[c], wire'[Host][c], missed[c], Here(Host))
  <2>1. wire[Host][c] \in Seq(Message) /\ c \in Peer /\ Host \in Peer
    BY <1>1, WayIs
  <2>2. wire'[Host][c] \in {wire[Host][c], Append(wire[Host][c], l)}
    BY <2>1, <1>1, <1>2 DEF Sent, StandInv, TypeOK
  <2>3. LettersOf(Append(wire[Host][c], l)) = LettersOf(wire[Host][c])
    BY <2>1, <1>2, LettersGrow
  <2>4. LettersOf(wire'[Host][c]) = LettersOf(wire[Host][c])
    BY <2>2, <2>3
  <2> QED
    BY <2>4, <1>4 DEF OnItsWay, Way
<1> QED
  BY <1>1, <1>3, <1>4, WayKept

LEMMA WayOnChoice ==
  ASSUME WayInv, NEW p \in Peer, NEW q \in Peer, OnChoice(p, q)
  PROVE  WayInv'
<1>1. StandInv /\ StandInv'
  BY StandOnChoice DEF WayInv
<1>2. /\ wire[q][p] # <<>> /\ Head(wire[q][p]).type = "CHOICE"
      /\ wire' = [wire EXCEPT ![q][p] = Tail(@)] /\ UNCHANGED <<visited, nodeQ, missed>>
  BY DEF OnChoice
<1>3. ASSUME NEW c \in Client, OnItsWay(c)
      PROVE  Way(visited[c], nodeQ[c], wire'[Host][c], missed[c], Here(Host))
  <2>1. wire[Host][c] \in Seq(Message) /\ c \in Peer /\ Host \in Peer
    BY <1>1, WayIs
  <2>2. CASE q = Host /\ p = c
    <3>1. wire'[Host][c] = Tail(wire[Host][c])
      BY <2>1, <2>2, <1>1, <1>2 DEF StandInv, TypeOK
    <3>2. Head(wire[Host][c]).type # "ENTERNODE" /\ wire[Host][c] # <<>>
      BY <2>2, <1>2
    <3> QED
      BY <3>1, <3>2, <2>1, <1>3, Heard DEF OnItsWay
  <2>3. CASE ~(q = Host /\ p = c)
    <3>1. wire'[Host][c] = wire[Host][c]
      BY <2>1, <2>3, <1>1, <1>2 DEF StandInv, TypeOK
    <3> QED
      BY <3>1, <1>3 DEF OnItsWay
  <2> QED
    BY <2>2, <2>3
<1> QED
  BY <1>1, <1>2, <1>3, WayKept

LEMMA WayStep == WayInv /\ [Next]_vars => WayInv'
<1> SUFFICES ASSUME WayInv, [Next]_vars PROVE WayInv'
  OBVIOUS
<1>1. StandInv'
  BY StandStep DEF WayInv
<1>2. ASSUME NEW c \in Client, OnEnterNode(c) \/ RefuseNode(c) \/ FollowNode(c) PROVE WayInv'
  BY <1>2, WayOnEnterNode, WayRefuseNode, WayFollowNode
<1>3. ASSUME UNCHANGED <<visited, nodeQ, missed, wire>> PROVE WayInv'
  BY <1>1, <1>3, WayKept DEF OnItsWay
<1>4. ASSUME NEW c \in Client, OpenModal(c) \/ CloseModal(c) \/ PlayerCloses(c) PROVE WayInv'
  BY <1>3, <1>4 DEF OpenModal, CloseModal, PlayerCloses
<1>5. ASSUME NEW p \in Peer, \/ ScreenUp(p) \/ Build(p) \/ ScreenTick(p)
                             \/ CloseScreen(p) \/ LeaveNode(p)
      PROVE  WayInv'
  BY <1>3, <1>5 DEF ScreenUp, Build, ScreenTick, CloseScreen, LeaveNode
<1>6. ASSUME NEW p \in Peer, Choose(p) PROVE WayInv'
  BY <1>6, WayChoose
<1>7. ASSUME NEW p \in Peer, NEW q \in Peer, OnChoice(p, q) PROVE WayInv'
  BY <1>7, WayOnChoice
<1>8. CASE UNCHANGED vars
  BY <1>3, <1>8 DEF vars, gameVars
<1> QED
  BY <1>2, <1>4, <1>5, <1>6, <1>7, <1>8, WayHostEnterNode DEF Next

LEMMA WaySame == WayInv => SameWay
<1> SUFFICES ASSUME WayInv, NEW c \in Client
             PROVE  visited[c] \o NodesComing(c) = Without(visited[Host], missed[c])
  BY DEF SameWay
<1>1. PICK v, q, w, m, h : /\ v = visited[c] /\ q = nodeQ[c] /\ w = wire[Host][c]
                           /\ m = missed[c] /\ h = Here(Host)
  OBVIOUS
<1>2. v \in Seq(Nat) /\ q \in Seq(Nat) /\ w \in Seq(Message) /\ h \in Nat /\ Way(v, q, w, m, h)
  BY <1>1, WayIs DEF WayInv, OnItsWay
<1>3. PICK u : u = visited[Host] /\ u = Entered(h)
  BY <1>1 DEF WayInv
<1>4. NodesComing(c) = q \o Picked(LettersOf(w), Len(w))
  BY <1>1 DEF NodesComing, LettersOf
<1>5. v \o (q \o Picked(LettersOf(w), Len(w))) = Without(u, m)
  BY <1>2, <1>3, WayIsSame
<1> QED
  BY <1>1, <1>3, <1>4, <1>5

(* A client enters the host's nodes in the host's order and none twice, but*)
(* for those it refused, and nothing is lost between the host's click and  *)
(* the client's map (follow_on_message, pending_q, follow_map_update), for *)
(* any run, number of clients and limit of the queue.                      *)
THEOREM OneWay == Spec => []SameWay
BY WayInit, WayStep, WaySame, PTL DEF Spec

-------------------------------------------------------------------------------
(* Choices.                                                                *)

(* A node has at most one screen of each kind: a choice, which names its   *)
(* node and its kind, is then about one screen.                            *)
OneOfAKind ==
  \A n \in Node : \A i, j \in DOMAIN Screens(n) :
    Screens(n)[i].kind = Screens(n)[j].kind => i = j

(* A decision is on a screen of the run; who decides it.                   *)
Known(d) ==
  d \in Decision /\ d.screen[1] \in Node /\ d.screen[2] \in DOMAIN Screens(d.screen[1])

Owner(d) == Screens(d.screen[1])[d.screen[2]].decider

About(ch, d) ==
  d.screen[1] = ch.node /\ Screens(d.screen[1])[d.screen[2]].kind = ch.kind

Same(a, b) == a.node = b.node /\ a.kind = b.kind

(* Player q, whose screen it was, decided so, and has carried it out.      *)
MadeBy(ch, q) ==
  \E d \in Values(taken[q]) : About(ch, d) /\ Owner(d) = q /\ d.option = ch.option

(* The choices among the letters w; no two of them are about one screen.   *)
Coming(w) == {w[i].choice : i \in {j \in DOMAIN w : w[j].type = "CHOICE"}}

Distinct(w) ==
  \A i, j \in DOMAIN w :
    w[i].type = "CHOICE" /\ w[j].type = "CHOICE" /\ Same(w[i].choice, w[j].choice) => i = j

(* Nothing else copy p has or had is about the screen ch is about.         *)
Unheld(p, ch) == \A k \in Kind : held[p][k] # NoChoice => ~Same(ch, held[p][k])
Uncarried(p, ch) == \A d \in Values(taken[p]) : ~About(ch, d)

Posted(p, q) ==
  /\ Distinct(wire[q][p])
  /\ \A ch \in Coming(wire[q][p]) :
       /\ ch \in Choice /\ p # q /\ MadeBy(ch, q)
       /\ Unheld(p, ch) /\ Uncarried(p, ch)

Held(p) ==
  \A k \in Kind :
    held[p][k] # NoChoice =>
      /\ held[p][k] \in Choice /\ held[p][k].kind = k
      /\ \E q \in Peer \ {p} : MadeBy(held[p][k], q)
      /\ Uncarried(p, held[p][k])

(* What copy p has carried out: as the owner did, and once a screen.       *)
Carried(p) ==
  /\ \A d \in Values(taken[p]) : Known(d) /\ Owner(d) \in Peer /\ d \in Values(taken[Owner(d)])
  /\ \A i, j \in DOMAIN taken[p] : taken[p][i].screen = taken[p][j].screen => i = j

(* What player p has decided: of a node it has been to, and of this one a  *)
(* screen that is closed, or about to be.                                  *)
Met(p) ==
  \A d \in Values(taken[p]) :
    Owner(d) = p =>
      /\ d.screen[1] \in Values(visited[p])
      /\ d.screen[1] = Here(p) =>
           d.screen[2] <= stage[p] \/ (d.screen[2] = stage[p] + 1 /\ shown[p] = "committed")

(* A screen copy p has cached is one of the node it is in, of its kind.    *)
InSight(p) ==
  \A k \in Kind :
    LET s == cached[p][k] IN
    s # NoScreen => /\ s[1] = Here(p) /\ s[1] \in Node /\ s[2] \in DOMAIN Screens(s[1])
                    /\ Screens(s[1])[s[2]].kind = k

Chosen == \A p \in Peer : Carried(p) /\ Held(p) /\ \A q \in Peer : Posted(p, q)
Placed == \A p \in Peer : Met(p) /\ InSight(p)

ChoiceInv == WayInv /\ Chosen /\ Placed

LEMMA KnownIs ==
  ASSUME NEW d, Known(d)
  PROVE  d.screen \in Screen /\ d.screen = <<d.screen[1], d.screen[2]>> /\ d.option \in Nat
         /\ d = [screen |-> d.screen, option |-> d.option]
BY DEF Known, Decision, Screen

(* With one screen of a kind, a choice is about one screen.                *)
LEMMA OneScreen ==
  ASSUME OneOfAKind, NEW a, NEW b, Same(a, b), NEW d, NEW e, Known(d), Known(e),
         About(a, d), About(b, e)
  PROVE  d.screen = e.screen /\ Owner(d) = Owner(e)
<1>1. d.screen[1] = e.screen[1] /\ d.screen[1] \in Node
  BY DEF About, Same, Known
<1>2. Screens(d.screen[1])[d.screen[2]].kind = Screens(d.screen[1])[e.screen[2]].kind
  BY <1>1 DEF About, Same
<1>3. d.screen[2] = e.screen[2]
  BY <1>1, <1>2 DEF OneOfAKind, Known
<1>4. d.screen = e.screen
  BY <1>1, <1>3, KnownIs
<1> QED
  BY <1>4 DEF Owner

LEMMA ComingIs ==
  ASSUME NEW w \in Seq(Message)
  PROVE  /\ \A i \in DOMAIN w : w[i].type = "CHOICE" => w[i].choice \in Coming(w)
         /\ \A ch \in Coming(w) :
              ch \in Choice /\ \E i \in DOMAIN w : w[i].type = "CHOICE" /\ w[i].choice = ch
<1>1. \A i \in DOMAIN w : w[i] \in Message
  BY ListIs
<1>2. \A m \in Message : m.type = "CHOICE" => m.choice \in Choice
  BY DEF Message
<1> QED
  BY <1>1, <1>2 DEF Coming

(* A letter more, and the first letter read.                               *)
LEMMA ChoicePosted ==
  ASSUME NEW w \in Seq(Message), NEW m \in Message, Distinct(w),
         m.type = "CHOICE" => \A ch \in Coming(w) : ~Same(m.choice, ch)
  PROVE  /\ Distinct(Append(w, m))
         /\ Coming(Append(w, m)) = Coming(w) \cup {c \in {m.choice} : m.type = "CHOICE"}
<1>1. PICK a : a = Append(w, m)
  OBVIOUS
<1>2. a \in Seq(Message) /\ Len(a) = Len(w) + 1 /\ Len(w) \in Nat /\ a[Len(w) + 1] = m
      /\ \A i \in 1 .. Len(w) : a[i] = w[i]
  BY <1>1, AppendProperties, LenProperties
<1>3. DOMAIN w = 1 .. Len(w) /\ DOMAIN a = 1 .. Len(w) + 1
  BY <1>2, ListIs
<1>4. PICK l : l = Len(w) + 1
  OBVIOUS
<1>5. \A i \in DOMAIN a : \/ i \in DOMAIN w /\ a[i] = w[i]
                          \/ i = l /\ a[i] = m
  BY <1>2, <1>3, <1>4
<1>6. \A i \in DOMAIN w : i \in DOMAIN a /\ a[i] = w[i]
  BY <1>2, <1>3
<1>7. l \in DOMAIN a /\ a[l] = m
  BY <1>2, <1>3, <1>4
<1>8. Distinct(a)
  <2> SUFFICES ASSUME NEW i \in DOMAIN a, NEW j \in DOMAIN a, a[i].type = "CHOICE",
                      a[j].type = "CHOICE", Same(a[i].choice, a[j].choice)
               PROVE  i = j
    BY DEF Distinct
  <2>1. CASE i \in DOMAIN w /\ a[i] = w[i] /\ j \in DOMAIN w /\ a[j] = w[j]
    BY <2>1 DEF Distinct
  <2>2. CASE i \in DOMAIN w /\ a[i] = w[i] /\ a[j] = m
    <3>1. w[i].choice \in Coming(w) /\ Same(m.choice, w[i].choice)
      BY <2>2, ComingIs DEF Same
    <3> QED
      BY <3>1, <2>2
  <2>3. CASE j \in DOMAIN w /\ a[j] = w[j] /\ a[i] = m
    <3>1. w[j].choice \in Coming(w) /\ Same(m.choice, w[j].choice)
      BY <2>3, ComingIs
    <3> QED
      BY <3>1, <2>3
  <2> QED
    BY <2>1, <2>2, <2>3, <1>5
<1>9. Coming(a) = Coming(w) \cup {c \in {m.choice} : m.type = "CHOICE"}
  <2>1. Coming(a) \subseteq Coming(w) \cup {c \in {m.choice} : m.type = "CHOICE"}
    BY <1>5 DEF Coming
  <2>2. Coming(w) \subseteq Coming(a)
    BY <1>6 DEF Coming
  <2>3. m.type = "CHOICE" => m.choice \in Coming(a)
    BY <1>7 DEF Coming
  <2> QED
    BY <2>1, <2>2, <2>3
<1> QED
  BY <1>1, <1>8, <1>9

LEMMA ChoiceRead ==
  ASSUME NEW w \in Seq(Message), w # <<>>, Distinct(w)
  PROVE  /\ Distinct(Tail(w)) /\ Coming(Tail(w)) \subseteq Coming(w)
         /\ Head(w).type = "CHOICE" =>
              /\ Head(w).choice \in Coming(w)
              /\ \A ch \in Coming(Tail(w)) : ~Same(Head(w).choice, ch)
<1>1. PICK t : t = Tail(w)
  OBVIOUS
<1>2. t \in Seq(Message) /\ Len(t) = Len(w) - 1 /\ Len(w) \in Nat /\ Head(w) = w[1]
      /\ \A i \in 1 .. Len(t) : t[i] = w[i + 1]
  BY <1>1, HeadTailProperties, LenProperties
<1>3. DOMAIN w = 1 .. Len(w) /\ DOMAIN t = 1 .. Len(w) - 1 /\ Len(w) # 0
  BY <1>2, ListIs, EmptySeq
<1>4. \A i \in DOMAIN t : i \in Nat /\ i + 1 \in DOMAIN w /\ i + 1 # 1 /\ t[i] = w[i + 1]
  BY <1>2, <1>3
<1>5. 1 \in DOMAIN w
  BY <1>2, <1>3
<1>6. Distinct(t)
  <2> SUFFICES ASSUME NEW i \in DOMAIN t, NEW j \in DOMAIN t, t[i].type = "CHOICE",
                      t[j].type = "CHOICE", Same(t[i].choice, t[j].choice)
               PROVE  i = j
    BY DEF Distinct
  <2>1. i + 1 = j + 1
    BY <1>4 DEF Distinct
  <2> QED
    BY <2>1, <1>4
<1>7. Coming(t) \subseteq Coming(w)
  BY <1>4 DEF Coming
<1>8. ASSUME w[1].type = "CHOICE", NEW ch \in Coming(t) PROVE ~Same(w[1].choice, ch)
  <2>1. PICK i \in DOMAIN t : t[i].type = "CHOICE" /\ t[i].choice = ch
    BY <1>2, ComingIs
  <2>2. i + 1 \in DOMAIN w /\ w[i + 1] = t[i] /\ i + 1 # 1
    BY <1>4
  <2> QED
    BY <2>1, <2>2, <1>5, <1>8 DEF Distinct
<1>9. w[1].type = "CHOICE" => w[1].choice \in Coming(w)
  BY <1>5 DEF Coming
<1> QED
  BY <1>1, <1>2, <1>6, <1>7, <1>8, <1>9

(* A decision more.                                                        *)
LEMMA OneMore ==
  ASSUME NEW s \in Seq(Decision), NEW d \in Decision
  PROVE  /\ Values(Append(s, d)) = Values(s) \cup {d}
         /\ (/\ \A i, j \in DOMAIN s : s[i].screen = s[j].screen => i = j
             /\ \A e \in Values(s) : e.screen # d.screen)
            => \A i, j \in DOMAIN Append(s, d) :
                 Append(s, d)[i].screen = Append(s, d)[j].screen => i = j
<1>1. PICK a : a = Append(s, d)
  OBVIOUS
<1>2. a \in Seq(Decision) /\ Len(a) = Len(s) + 1 /\ Len(s) \in Nat /\ a[Len(s) + 1] = d
      /\ \A i \in 1 .. Len(s) : a[i] = s[i]
  BY <1>1, AppendProperties, LenProperties
<1>3. DOMAIN s = 1 .. Len(s) /\ DOMAIN a = 1 .. Len(s) + 1
  BY <1>2, ListIs
<1>4. PICK l : l = Len(s) + 1
  OBVIOUS
<1>5. \A i \in DOMAIN a : \/ i \in DOMAIN s /\ a[i] = s[i]
                          \/ i = l /\ a[i] = d
  BY <1>2, <1>3, <1>4
<1>6. \A i \in DOMAIN s : i \in DOMAIN a /\ a[i] = s[i]
  BY <1>2, <1>3
<1>7. l \in DOMAIN a /\ a[l] = d
  BY <1>2, <1>3, <1>4
<1>8. Values(a) = Values(s) \cup {d}
  <2>1. Values(a) \subseteq Values(s) \cup {d}
    BY <1>5 DEF Values
  <2>2. Values(s) \subseteq Values(a)
    BY <1>6 DEF Values
  <2>3. d \in Values(a)
    BY <1>7 DEF Values
  <2> QED
    BY <2>1, <2>2, <2>3
<1>9. ASSUME \A i, j \in DOMAIN s : s[i].screen = s[j].screen => i = j,
             \A e \in Values(s) : e.screen # d.screen,
             NEW i \in DOMAIN a, NEW j \in DOMAIN a, a[i].screen = a[j].screen
      PROVE  i = j
  <2>1. \A k \in DOMAIN s : s[k].screen # d.screen
    BY <1>9 DEF Values
  <2> QED
    BY <2>1, <1>5, <1>9
<1> QED
  BY <1>1, <1>8, <1>9

LEMMA MadeStays ==
  ASSUME \A q \in Peer : Values(taken[q]) \subseteq Values(taken'[q]),
         NEW ch, NEW q \in Peer, MadeBy(ch, q)
  PROVE  MadeBy(ch, q)'
BY DEF MadeBy

(* What is dropped, read or cleared does no harm.                          *)
LEMMA ChosenLess ==
  ASSUME Chosen, taken' = taken,
         \A p \in Peer : \A k \in Kind : held'[p][k] \in {held[p][k], NoChoice},
         \A p, q \in Peer :
           Distinct(wire'[q][p]) /\ Coming(wire'[q][p]) \subseteq Coming(wire[q][p])
  PROVE  Chosen'
<1> SUFFICES ASSUME NEW p \in Peer
             PROVE  Carried(p)' /\ Held(p)' /\ \A q \in Peer : Posted(p, q)'
  BY DEF Chosen
<1>1. Carried(p)'
  BY DEF Chosen, Carried
<1>2. Held(p)'
  <2> SUFFICES ASSUME NEW k \in Kind, held'[p][k] # NoChoice
               PROVE  /\ held'[p][k] \in Choice /\ held'[p][k].kind = k
                      /\ \E q \in Peer \ {p} : MadeBy(held[p][k], q)'
                      /\ Uncarried(p, held[p][k])' /\ held'[p][k] = held[p][k]
    BY DEF Held, MadeBy, Uncarried
  <2>1. held'[p][k] = held[p][k] /\ held[p][k] # NoChoice
    OBVIOUS
  <2>2. PICK ch : ch = held[p][k]
    OBVIOUS
  <2>3. /\ ch \in Choice /\ ch.kind = k /\ \E q \in Peer \ {p} : MadeBy(ch, q)
        /\ Uncarried(p, ch)
    BY <2>1, <2>2 DEF Chosen, Held
  <2>4. PICK q \in Peer \ {p} : MadeBy(ch, q)
    BY <2>3
  <2>5. MadeBy(ch, q)' /\ Uncarried(p, ch)'
    BY <2>3, <2>4 DEF MadeBy, Uncarried
  <2> QED
    BY <2>1, <2>2, <2>3, <2>5 DEF MadeBy, Uncarried
<1>3. ASSUME NEW q \in Peer PROVE Posted(p, q)'
  <2> SUFFICES ASSUME NEW ch \in Coming(wire'[q][p])
               PROVE  ch \in Choice /\ p # q /\ MadeBy(ch, q)' /\ Unheld(p, ch)' /\ Uncarried(p, ch)'
    BY DEF Posted
  <2>1. ch \in Choice /\ p # q /\ MadeBy(ch, q) /\ Unheld(p, ch) /\ Uncarried(p, ch)
    BY DEF Chosen, Posted
  <2>2. Unheld(p, ch)'
    BY <2>1 DEF Unheld
  <2> QED
    BY <2>1, <2>2 DEF MadeBy, Uncarried
<1> QED
  BY <1>1, <1>2, <1>3

LEMMA Reading ==
  ASSUME StandInv, Chosen, NEW p \in Peer, NEW q \in Peer, wire[q][p] # <<>>,
         wire' = [wire EXCEPT ![q][p] = Tail(@)]
  PROVE  \A a, b \in Peer :
           Distinct(wire'[b][a]) /\ Coming(wire'[b][a]) \subseteq Coming(wire[b][a])
<1> SUFFICES ASSUME NEW a \in Peer, NEW b \in Peer
             PROVE  Distinct(wire'[b][a]) /\ Coming(wire'[b][a]) \subseteq Coming(wire[b][a])
  OBVIOUS
<1>1. Distinct(wire[b][a]) /\ wire[b][a] \in Seq(Message)
  BY DEF Chosen, Posted, StandInv, TypeOK
<1>2. wire'[b][a] = IF a = p /\ b = q THEN Tail(wire[b][a]) ELSE wire[b][a]
  BY DEF StandInv, TypeOK
<1> QED
  BY <1>1, <1>2, ChoiceRead

(* The choice that is read was the only one about its screen on its way.   *)
LEMMA ReadAlone ==
  ASSUME OneOfAKind, StandInv, Chosen, NEW p \in Peer, NEW q \in Peer, wire[q][p] # <<>>,
         wire' = [wire EXCEPT ![q][p] = Tail(@)], Head(wire[q][p]).type = "CHOICE",
         NEW ch, ch = Head(wire[q][p]).choice
  PROVE  /\ ch \in Choice /\ p # q /\ MadeBy(ch, q) /\ Unheld(p, ch) /\ Uncarried(p, ch)
         /\ \A b \in Peer : \A x \in Coming(wire'[b][p]) : ~Same(ch, x)
<1>1. wire[q][p] \in Seq(Message) /\ Distinct(wire[q][p])
  BY DEF Chosen, Posted, StandInv, TypeOK
<1>2. ch \in Coming(wire[q][p]) /\ \A x \in Coming(Tail(wire[q][p])) : ~Same(ch, x)
  BY <1>1, ChoiceRead
<1>3. ch \in Choice /\ p # q /\ MadeBy(ch, q) /\ Unheld(p, ch) /\ Uncarried(p, ch)
  BY <1>2 DEF Chosen, Posted
<1>4. ASSUME NEW b \in Peer, NEW x \in Coming(wire'[b][p]), Same(ch, x) PROVE FALSE
  <2>1. CASE b = q
    <3>1. wire'[b][p] = Tail(wire[q][p])
      BY <2>1 DEF StandInv, TypeOK
    <3> QED
      BY <3>1, <1>2, <1>4
  <2>2. CASE b # q
    <3>1. x \in Coming(wire[b][p])
      BY Reading
    <3>2. MadeBy(x, b)
      BY <3>1 DEF Chosen, Posted
    <3>3. PICK d \in Values(taken[q]) : About(ch, d) /\ Owner(d) = q
      BY <1>3 DEF MadeBy
    <3>4. PICK e \in Values(taken[b]) : About(x, e) /\ Owner(e) = b
      BY <3>2 DEF MadeBy
    <3>5. Known(d) /\ Known(e)
      BY DEF Chosen, Carried
    <3>6. Owner(d) = Owner(e)
      BY <3>3, <3>4, <3>5, <1>4, OneScreen
    <3> QED
      BY <3>3, <3>4, <3>6, <2>2
  <2> QED
    BY <2>1, <2>2
<1> QED
  BY <1>3, <1>4

(* Read and kept in its slot.                                              *)
LEMMA ChosenKept ==
  ASSUME OneOfAKind, StandInv, Chosen, NEW p \in Peer, NEW q \in Peer, wire[q][p] # <<>>,
         wire' = [wire EXCEPT ![q][p] = Tail(@)], Head(wire[q][p]).type = "CHOICE",
         NEW ch, ch = Head(wire[q][p]).choice, taken' = taken,
         held' = [held EXCEPT ![p][ch.kind] = ch]
  PROVE  Chosen'
<1>1. /\ ch \in Choice /\ p # q /\ MadeBy(ch, q) /\ Unheld(p, ch) /\ Uncarried(p, ch)
      /\ \A b \in Peer : \A x \in Coming(wire'[b][p]) : ~Same(ch, x)
  BY ReadAlone
<1>2. ch.kind \in Kind
  BY <1>1 DEF Choice
<1>3. \A a \in Peer : \A k \in Kind :
        held'[a][k] = IF a = p /\ k = ch.kind THEN ch ELSE held[a][k]
  BY <1>2 DEF StandInv, TypeOK
<1>4. \A a, b \in Peer :
        Distinct(wire'[b][a]) /\ Coming(wire'[b][a]) \subseteq Coming(wire[b][a])
  BY Reading
<1> SUFFICES ASSUME NEW a \in Peer
             PROVE  Carried(a)' /\ Held(a)' /\ \A b \in Peer : Posted(a, b)'
  BY DEF Chosen
<1>5. Carried(a)'
  BY DEF Chosen, Carried
<1>6. Held(a)'
  <2> SUFFICES ASSUME NEW k \in Kind, held'[a][k] # NoChoice
               PROVE  /\ held'[a][k] \in Choice /\ held'[a][k].kind = k
                      /\ \E r \in Peer \ {a} : MadeBy(held[a][k], r)'
                      /\ Uncarried(a, held[a][k])'
    BY DEF Held
  <2>1. PICK x : x = held'[a][k]
    OBVIOUS
  <2>2. x \in Choice /\ x.kind = k /\ (\E r \in Peer \ {a} : MadeBy(x, r)) /\ Uncarried(a, x)
    <3>1. CASE a = p /\ k = ch.kind
      <4>1. x = ch
        BY <3>1, <2>1, <1>3
      <4>2. q \in Peer \ {a} /\ MadeBy(ch, q) /\ ch \in Choice /\ ch.kind = k /\ Uncarried(a, ch)
        BY <3>1, <1>1
      <4> HIDE DEF Choice, MadeBy, Uncarried
      <4> QED
        BY <4>1, <4>2
    <3>2. CASE ~(a = p /\ k = ch.kind)
      BY <3>2, <2>1, <1>3 DEF Chosen, Held
    <3> QED
      BY <3>1, <3>2
  <2> QED
    BY <2>1, <2>2 DEF MadeBy, Uncarried
<1>7. ASSUME NEW b \in Peer PROVE Posted(a, b)'
  <2> SUFFICES ASSUME NEW x \in Coming(wire'[b][a])
               PROVE  x \in Choice /\ a # b /\ MadeBy(x, b)' /\ Unheld(a, x)' /\ Uncarried(a, x)'
    BY <1>4 DEF Posted
  <2>1. x \in Choice /\ a # b /\ MadeBy(x, b) /\ Unheld(a, x) /\ Uncarried(a, x)
    BY <1>4 DEF Chosen, Posted
  <2>2. a = p => ~Same(x, ch)
    BY <1>1 DEF Same
  <2>3. Unheld(a, x)'
    BY <2>1, <2>2, <1>3 DEF Unheld
  <2> QED
    BY <2>1, <2>3 DEF MadeBy, Uncarried
<1> QED
  BY <1>5, <1>6, <1>7

(* Carried out: the choice was made by q, and nothing else p has or is sent*)
(* is about that screen.                                                   *)
LEMMA ChosenCarried ==
  ASSUME OneOfAKind, StandInv, Chosen, NEW p \in Peer, NEW q \in Peer, p # q,
         NEW ch \in Choice, MadeBy(ch, q), Uncarried(p, ch),
         NEW d, Known(d), About(ch, d), d.option = ch.option,
         taken' = [taken EXCEPT ![p] = Append(@, d)],
         held' = [held EXCEPT ![p][ch.kind] = NoChoice],
         \A a, b \in Peer :
           Distinct(wire'[b][a]) /\ Coming(wire'[b][a]) \subseteq Coming(wire[b][a]),
         \A b \in Peer : \A x \in Coming(wire'[b][p]) : ~Same(ch, x)
  PROVE  Chosen' /\ Owner(d) = q
<1>1. ch.kind \in Kind /\ Same(ch, ch) /\ d \in Decision
  BY DEF Choice, Same, Known
<1>2. PICK e \in Values(taken[q]) : About(ch, e) /\ Owner(e) = q /\ e.option = ch.option
  BY DEF MadeBy
<1>3. Known(e)
  BY DEF Chosen, Carried
<1>4. d.screen = e.screen /\ Owner(d) = q
  BY <1>1, <1>2, <1>3, OneScreen
<1>5. d = e
  BY <1>2, <1>3, <1>4, KnownIs
<1>6. d \in Values(taken[q])
  BY <1>5
<1>7. taken[p] \in Seq(Decision) /\ taken'[p] = Append(taken[p], d)
      /\ \A a \in Peer : a # p => taken'[a] = taken[a]
  BY DEF StandInv, TypeOK
<1>8. Values(taken'[p]) = Values(taken[p]) \cup {d}
  BY <1>1, <1>7, OneMore
<1>9. \A a \in Peer : Values(taken[a]) \subseteq Values(taken'[a])
  BY <1>7, <1>8
<1>10. \A f \in Values(taken[p]) : f.screen # d.screen
  <2> SUFFICES ASSUME NEW f \in Values(taken[p]), f.screen = d.screen PROVE FALSE
    OBVIOUS
  <2>1. About(ch, f)
    BY DEF About
  <2> QED
    BY <2>1 DEF Uncarried
<1>11. \A a \in Peer : \A k \in Kind :
         held'[a][k] = IF a = p /\ k = ch.kind THEN NoChoice ELSE held[a][k]
  BY <1>1 DEF StandInv, TypeOK
<1> SUFFICES ASSUME NEW a \in Peer
             PROVE  Carried(a)' /\ Held(a)' /\ \A b \in Peer : Posted(a, b)'
  BY <1>4 DEF Chosen
<1>12. Carried(a)'
  <2>1. \A i, j \in DOMAIN taken'[a] : taken'[a][i].screen = taken'[a][j].screen => i = j
    <3>1. \A i, j \in DOMAIN taken[a] : taken[a][i].screen = taken[a][j].screen => i = j
      BY DEF Chosen, Carried
    <3>2. CASE a = p
      BY <3>1, <3>2, <1>1, <1>7, <1>10, OneMore
    <3>3. CASE a # p
      BY <3>1, <3>3, <1>7
    <3> QED
      BY <3>2, <3>3
  <2>2. ASSUME NEW f \in Values(taken'[a])
        PROVE  Known(f) /\ Owner(f) \in Peer /\ f \in Values(taken'[Owner(f)])
    <3>1. CASE f = d
      BY <3>1, <1>4, <1>6, <1>9
    <3>2. CASE f # d
      <4>1. f \in Values(taken[a])
        BY <3>2, <1>7, <1>8
      <4>2. Known(f) /\ Owner(f) \in Peer /\ f \in Values(taken[Owner(f)])
        BY <4>1 DEF Chosen, Carried
      <4> QED
        BY <4>2, <1>9
    <3> QED
      BY <3>1, <3>2
  <2> QED
    BY <2>1, <2>2 DEF Carried
<1>13. ASSUME NEW x, Uncarried(a, x), a = p => ~Same(ch, x) PROVE Uncarried(a, x)'
  <2> SUFFICES ASSUME NEW f \in Values(taken'[a]), About(x, f) PROVE FALSE
    BY DEF Uncarried
  <2>1. f \notin Values(taken[a])
    BY <1>13 DEF Uncarried
  <2>2. a = p /\ f = d
    BY <2>1, <1>7, <1>8
  <2>3. Same(ch, x)
    BY <2>2 DEF Same, About
  <2> QED
    BY <2>2, <2>3, <1>13
<1>14. Held(a)'
  <2> SUFFICES ASSUME NEW k \in Kind, held'[a][k] # NoChoice
               PROVE  /\ held'[a][k] \in Choice /\ held'[a][k].kind = k
                      /\ \E r \in Peer \ {a} : MadeBy(held[a][k], r)'
                      /\ Uncarried(a, held[a][k])'
    BY DEF Held
  <2>1. PICK x : x = held'[a][k]
    OBVIOUS
  <2>2. x = held[a][k] /\ ~(a = p /\ k = ch.kind) /\ x # NoChoice
    BY <2>1, <1>11
  <2>3. x \in Choice /\ x.kind = k /\ (\E r \in Peer \ {a} : MadeBy(x, r)) /\ Uncarried(a, x)
    BY <2>2 DEF Chosen, Held
  <2>4. \E r \in Peer \ {a} : MadeBy(x, r)'
    BY <2>3, <1>9, MadeStays
  <2>5. a = p => ~Same(ch, x)
    BY <2>2, <2>3 DEF Same
  <2>6. Uncarried(a, x)'
    BY <2>3, <2>5, <1>13
  <2> QED
    BY <2>1, <2>3, <2>4, <2>6 DEF MadeBy, Uncarried
<1>15. ASSUME NEW b \in Peer PROVE Posted(a, b)'
  <2> SUFFICES ASSUME NEW x \in Coming(wire'[b][a])
               PROVE  x \in Choice /\ a # b /\ MadeBy(x, b)' /\ Unheld(a, x)' /\ Uncarried(a, x)'
    BY DEF Posted
  <2>1. x \in Choice /\ a # b /\ MadeBy(x, b) /\ Unheld(a, x) /\ Uncarried(a, x)
    BY DEF Chosen, Posted
  <2>2. a = p => ~Same(ch, x)
    OBVIOUS
  <2>3. Unheld(a, x)'
    BY <2>1, <1>11 DEF Unheld
  <2>4. Uncarried(a, x)'
    BY <2>1, <2>2, <1>13
  <2> QED
    BY <2>1, <2>3, <2>4, <1>9, MadeStays
<1> QED
  BY <1>12, <1>14, <1>15

(* Decided: by p, who had not decided this screen.                         *)
LEMMA ChosenSaid ==
  ASSUME OneOfAKind, StandInv, Chosen, NEW p \in Peer,
         NEW ch \in Choice, NEW d, Known(d), About(ch, d), Owner(d) = p, d.option = ch.option,
         \A e \in Values(taken[p]) : Owner(e) = p => e.screen # d.screen,
         taken' = [taken EXCEPT ![p] = Append(@, d)], held' = held,
         wire' = Sent(p, [type |-> "CHOICE", choice |-> ch])
  PROVE  Chosen'
<1>1. d \in Decision /\ Same(ch, ch)
  BY DEF Known, Same
<1>2. PICK m : m = [type |-> "CHOICE", choice |-> ch]
  OBVIOUS
<1>3. m \in Message /\ m.type = "CHOICE" /\ m.choice = ch
  BY <1>2 DEF Message
<1>4. taken[p] \in Seq(Decision) /\ taken'[p] = Append(taken[p], d)
      /\ \A a \in Peer : a # p => taken'[a] = taken[a]
  BY DEF StandInv, TypeOK
<1>5. Values(taken'[p]) = Values(taken[p]) \cup {d}
  BY <1>1, <1>4, OneMore
<1>6. \A a \in Peer : Values(taken[a]) \subseteq Values(taken'[a])
  BY <1>4, <1>5
(* Nobody has, had or is sent anything about this screen.                  *)
<1>7. ASSUME NEW x, Same(ch, x), NEW q \in Peer, MadeBy(x, q) PROVE FALSE
  <2>1. PICK e \in Values(taken[q]) : About(x, e) /\ Owner(e) = q
    BY <1>7 DEF MadeBy
  <2>2. Known(e)
    BY DEF Chosen, Carried
  <2>3. d.screen = e.screen /\ q = p
    BY <1>7, <2>1, <2>2, OneScreen
  <2> QED
    BY <2>1, <2>3
<1>8. ASSUME NEW a \in Peer, NEW f \in Values(taken[a]) PROVE f.screen # d.screen
  <2> SUFFICES ASSUME f.screen = d.screen PROVE FALSE
    OBVIOUS
  <2>1. f \in Values(taken[Owner(f)]) /\ Owner(f) = p
    BY DEF Chosen, Carried, Owner
  <2> QED
    BY <2>1
<1>9. \A a, b \in Peer :
        wire'[b][a] = IF b = p /\ a # p /\ (p = Host \/ a = Host)
                      THEN Append(wire[b][a], m) ELSE wire[b][a]
  BY <1>2 DEF Sent, StandInv, TypeOK
<1> SUFFICES ASSUME NEW a \in Peer
             PROVE  Carried(a)' /\ Held(a)' /\ \A b \in Peer : Posted(a, b)'
  BY DEF Chosen
<1>10. Carried(a)'
  <2>1. \A i, j \in DOMAIN taken'[a] : taken'[a][i].screen = taken'[a][j].screen => i = j
    <3>1. \A i, j \in DOMAIN taken[a] : taken[a][i].screen = taken[a][j].screen => i = j
      BY DEF Chosen, Carried
    <3>2. CASE a = p
      BY <3>1, <3>2, <1>1, <1>4, <1>8, OneMore
    <3>3. CASE a # p
      BY <3>1, <3>3, <1>4
    <3> QED
      BY <3>2, <3>3
  <2>2. ASSUME NEW f \in Values(taken'[a])
        PROVE  Known(f) /\ Owner(f) \in Peer /\ f \in Values(taken'[Owner(f)])
    <3>1. CASE f = d
      BY <3>1, <1>5
    <3>2. CASE f # d
      <4>1. f \in Values(taken[a])
        BY <3>2, <1>4, <1>5
      <4>2. Known(f) /\ Owner(f) \in Peer /\ f \in Values(taken[Owner(f)])
        BY <4>1 DEF Chosen, Carried
      <4> QED
        BY <4>2, <1>6
    <3> QED
      BY <3>1, <3>2
  <2> QED
    BY <2>1, <2>2 DEF Carried
<1>11. ASSUME NEW x, NEW q \in Peer, MadeBy(x, q), Uncarried(a, x) PROVE Uncarried(a, x)'
  <2> SUFFICES ASSUME NEW f \in Values(taken'[a]), About(x, f) PROVE FALSE
    BY DEF Uncarried
  <2>1. f \notin Values(taken[a])
    BY <1>11 DEF Uncarried
  <2>2. f = d
    BY <2>1, <1>4, <1>5
  <2>3. Same(ch, x)
    BY <2>2 DEF Same, About
  <2> QED
    BY <2>3, <1>7, <1>11
<1>12. Held(a)'
  <2> SUFFICES ASSUME NEW k \in Kind, held'[a][k] # NoChoice
               PROVE  /\ held'[a][k] \in Choice /\ held'[a][k].kind = k
                      /\ \E r \in Peer \ {a} : MadeBy(held[a][k], r)'
                      /\ Uncarried(a, held[a][k])'
    BY DEF Held
  <2>1. PICK x : x = held[a][k]
    OBVIOUS
  <2>2. x \in Choice /\ x.kind = k /\ (\E r \in Peer \ {a} : MadeBy(x, r)) /\ Uncarried(a, x)
    BY <2>1 DEF Chosen, Held
  <2>3. \E r \in Peer \ {a} : MadeBy(x, r)'
    BY <2>2, <1>6, MadeStays
  <2>4. Uncarried(a, x)'
    BY <2>2, <1>11
  <2> QED
    BY <2>1, <2>2, <2>3, <2>4 DEF MadeBy, Uncarried
<1>13. MadeBy(ch, p)'
  BY <1>5 DEF MadeBy
<1>14. ASSUME NEW b \in Peer PROVE Posted(a, b)'
  <2>1. wire[b][a] \in Seq(Message) /\ Distinct(wire[b][a])
    BY DEF Chosen, Posted, StandInv, TypeOK
  <2>2. ASSUME NEW x \in Coming(wire[b][a])
        PROVE  x \in Choice /\ a # b /\ MadeBy(x, b)' /\ Unheld(a, x)' /\ Uncarried(a, x)'
               /\ ~Same(ch, x)
    <3>1. x \in Choice /\ a # b /\ MadeBy(x, b) /\ Unheld(a, x) /\ Uncarried(a, x)
      BY DEF Chosen, Posted
    <3>2. Unheld(a, x)'
      BY <3>1 DEF Unheld
    <3> QED
      BY <3>1, <3>2, <1>6, <1>7, <1>11, MadeStays
  <2>3. CASE b = p /\ a # p /\ (p = Host \/ a = Host)
    <3>1. wire'[b][a] = Append(wire[b][a], m)
      BY <2>3, <1>9
    <3>2. Distinct(wire'[b][a]) /\ Coming(wire'[b][a]) = Coming(wire[b][a]) \cup {ch}
      BY <3>1, <2>1, <2>2, <1>3, ChoicePosted
    <3>3. Unheld(a, ch)'
      <4> SUFFICES ASSUME NEW k \in Kind, held[a][k] # NoChoice, Same(ch, held[a][k]) PROVE FALSE
        BY DEF Unheld
      <4>1. PICK q \in Peer : MadeBy(held[a][k], q)
        BY DEF Chosen, Held
      <4> QED
        BY <4>1, <1>7
    <3>4. Uncarried(a, ch)'
      <4> SUFFICES ASSUME NEW f \in Values(taken[a]), About(ch, f) PROVE FALSE
        BY <2>3, <1>4 DEF Uncarried
      <4>1. Known(f)
        BY DEF Chosen, Carried
      <4>2. f.screen = d.screen
        BY <4>1, <1>1, OneScreen
      <4> QED
        BY <4>2, <1>8
    <3> QED
      BY <3>2, <3>3, <3>4, <2>2, <2>3, <1>13 DEF Posted
  <2>4. CASE ~(b = p /\ a # p /\ (p = Host \/ a = Host))
    <3>1. wire'[b][a] = wire[b][a]
      BY <2>4, <1>9
    <3> QED
      BY <3>1, <2>1, <2>2 DEF Posted
  <2> QED
    BY <2>3, <2>4
<1> QED
  BY <1>10, <1>12, <1>14

(* Where nothing is chosen, read or cleared.                               *)
LEMMA ChosenStill ==
  ASSUME Chosen, UNCHANGED <<taken, held, wire>>
  PROVE  Chosen'
BY ChosenLess DEF Chosen, Posted

LEMMA PlacedStill ==
  ASSUME Placed, UNCHANGED <<visited, stage, shown, taken, cached>>
  PROVE  Placed'
BY DEF Placed, Met, InSight, Here

(* A node is entered that the copy has not been to.                        *)
LEMMA PlacedEnter ==
  ASSUME StandInv, Placed, NEW p \in Peer, NEW n \in Node, Enter(p, n),
         n \notin Values(visited[p]), UNCHANGED <<shown, taken>>
  PROVE  Placed'
<1>1. TypeOK /\ visited[p] \in Seq(Node)
  BY DEF StandInv, TypeOK
<1>2. PICK s : s = Append(visited[p], n)
  OBVIOUS
<1>3. s \in Seq(Node) /\ Len(s) = Len(visited[p]) + 1 /\ Len(visited[p]) \in Nat
      /\ s[Len(visited[p]) + 1] = n /\ \A i \in 1 .. Len(visited[p]) : s[i] = visited[p][i]
  BY <1>1, <1>2, AppendProperties, LenProperties
<1>4. s # <<>> /\ Last(s) = n
  <2>1. Len(s) # 0
    BY <1>3
  <2>2. s # <<>>
    BY <2>1, EmptySeq
  <2> QED
    BY <2>2, <1>3, LastOf
<1>5. Values(visited[p]) \subseteq Values(s)
  <2>1. DOMAIN s = 1 .. Len(visited[p]) + 1 /\ DOMAIN visited[p] = 1 .. Len(visited[p])
    BY <1>1, <1>3, ListIs
  <2>2. \A i \in DOMAIN visited[p] : i \in DOMAIN s /\ s[i] = visited[p][i]
    BY <2>1, <1>3
  <2> QED
    BY <2>2 DEF Values
<1>6. /\ visited'[p] = s /\ stage'[p] = 0
      /\ \A q \in Peer : q # p => /\ visited'[q] = visited[q] /\ stage'[q] = stage[q]
                                  /\ cached'[q] = cached[q]
  BY <1>1, <1>2 DEF Enter, ScreensForgotten, TypeOK
<1>7. n # Here(p)
  <2>1. CASE visited[p] = <<>>
    BY <2>1, NodeIs DEF Here
  <2>2. CASE visited[p] # <<>>
    <3>1. Len(visited[p]) \in DOMAIN visited[p] /\ Here(p) = visited[p][Len(visited[p])]
      BY <2>2, <1>1, LastOf, ListIs DEF Here
    <3> QED
      BY <3>1 DEF Values
  <2> QED
    BY <2>1, <2>2
<1>8. \A k \in Kind : cached'[p][k] = NoScreen
  BY <1>1, <1>7 DEF Enter, ScreensForgotten, TypeOK
<1>9. Here(p)' = n /\ \A q \in Peer : q # p => Here(q)' = Here(q)
  BY <1>4, <1>6 DEF Here
<1>10. ASSUME NEW q \in Peer PROVE Met(q)'
  <2>1. CASE q = p
    <3> SUFFICES ASSUME NEW d \in Values(taken[p]), Owner(d) = p
                 PROVE  d.screen[1] \in Values(s) /\ d.screen[1] # n
      BY <2>1, <1>6, <1>9 DEF Met
    <3> QED
      BY <1>5 DEF Placed, Met
  <2>2. CASE q # p
    BY <2>2, <1>6, <1>9 DEF Placed, Met
  <2> QED
    BY <2>1, <2>2
<1>11. ASSUME NEW q \in Peer PROVE InSight(q)'
  BY <1>6, <1>8, <1>9 DEF Placed, InSight
<1> QED
  BY <1>10, <1>11 DEF Placed

LEMMA PlacedScreenUp ==
  ASSUME StandInv, Placed, NEW p \in Peer, ScreenUp(p)
  PROVE  Placed'
<1>1. inNode[p] /\ ScreensLeft(p) /\ TypeOK
  BY DEF ScreenUp, StandInv
<1>2. /\ Here(p) \in Node /\ stage[p] + 1 \in DOMAIN Screens(Here(p))
      /\ CurrentScreen(p) \in ScreenOf
  BY <1>1, CurrentIs
<1>3. CurrentScreen(p).kind \in Kind
  BY <1>2 DEF ScreenOf
<1>4. /\ shown[p] = "none" /\ shown' = [shown EXCEPT ![p] = "building"]
      /\ cached' = [cached EXCEPT ![p][CurrentScreen(p).kind] = Current(p)]
      /\ UNCHANGED <<visited, stage, taken>>
  BY DEF ScreenUp
<1>5. ASSUME NEW q \in Peer PROVE Met(q)'
  BY <1>1, <1>4 DEF Placed, Met, Here, TypeOK
<1>6. ASSUME NEW q \in Peer PROVE InSight(q)'
  <2> SUFFICES ASSUME NEW k \in Kind, NEW s, s = cached'[q][k], s # NoScreen
               PROVE  /\ s[1] = Here(q) /\ s[1] \in Node /\ s[2] \in DOMAIN Screens(s[1])
                      /\ Screens(s[1])[s[2]].kind = k
    BY <1>4 DEF InSight, Here
  <2>1. CASE q = p /\ k = CurrentScreen(p).kind
    <3>1. s = Current(p)
      BY <2>1, <1>1, <1>4 DEF TypeOK
    <3> QED
      BY <3>1, <2>1, <1>2 DEF Current, CurrentScreen
  <2>2. CASE ~(q = p /\ k = CurrentScreen(p).kind)
    <3>1. s = cached[q][k]
      BY <2>2, <1>1, <1>3, <1>4 DEF TypeOK
    <3> QED
      BY <3>1 DEF Placed, InSight
  <2> QED
    BY <2>1, <2>2
<1> QED
  BY <1>5, <1>6 DEF Placed

LEMMA PlacedShown ==
  ASSUME StandInv, Placed, NEW p \in Peer, Build(p) \/ CloseScreen(p)
  PROVE  Placed'
<1>1. TypeOK /\ UNCHANGED <<visited, taken, cached>>
  BY DEF StandInv, Build, CloseScreen
<1>2. CASE Build(p)
  BY <1>1, <1>2 DEF Build, Placed, Met, InSight, Here, TypeOK
<1>3. CASE CloseScreen(p)
  <2>1. shown[p] = "committed" /\ stage'[p] = stage[p] + 1 /\ stage[p] \in Nat
        /\ \A q \in Peer : q # p => stage'[q] = stage[q] /\ shown'[q] = shown[q]
    BY <1>1, <1>3 DEF CloseScreen, TypeOK
  <2>2. \A q \in Peer : Here(q)' = Here(q)
    BY <1>1 DEF Here
  <2>3. ASSUME NEW q \in Peer PROVE Met(q)'
    <3>1. CASE q = p
      <4> SUFFICES ASSUME NEW d \in Values(taken[p]), Owner(d) = p
                   PROVE  /\ d.screen[1] \in Values(visited[p])
                          /\ d.screen[1] = Here(p) => d.screen[2] <= stage'[p]
        BY <3>1, <1>1, <2>2 DEF Met
      <4>1. /\ d.screen[1] \in Values(visited[p])
            /\ d.screen[1] = Here(p) => d.screen[2] <= stage[p] \/ d.screen[2] = stage[p] + 1
        BY DEF Placed, Met
      <4>2. d.screen[2] \in Nat
        <5>1. taken[p] \in Seq(Decision)
          BY <1>1 DEF TypeOK
        <5>2. d \in Decision
          BY <5>1, ListIs DEF Values
        <5> QED
          BY <5>2 DEF Decision, Screen
      <4> QED
        BY <4>1, <4>2, <2>1
    <3>2. CASE q # p
      BY <3>2, <1>1, <2>1, <2>2 DEF Placed, Met
    <3> QED
      BY <3>1, <3>2
  <2>4. ASSUME NEW q \in Peer PROVE InSight(q)'
    BY <1>1, <2>2 DEF Placed, InSight
  <2> QED
    BY <2>3, <2>4 DEF Placed
<1> QED
  BY <1>2, <1>3

(* Another's decision is carried out, on whatever screen.                  *)
LEMMA PlacedCarried ==
  ASSUME StandInv, Placed, NEW p \in Peer, NEW d \in Decision, Owner(d) # p,
         taken' = [taken EXCEPT ![p] = Append(@, d)],
         shown' = shown \/ (shown[p] = "up" /\ shown' = [shown EXCEPT ![p] = "committed"]),
         UNCHANGED <<visited, stage, cached>>
  PROVE  Placed'
<1>1. \A q \in Peer : Here(q)' = Here(q)
  BY DEF Here
<1>2. taken[p] \in Seq(Decision) /\ taken'[p] = Append(taken[p], d)
      /\ \A a \in Peer : a # p => taken'[a] = taken[a]
  BY DEF StandInv, TypeOK
<1>3. Values(taken'[p]) = Values(taken[p]) \cup {d}
  BY <1>2, OneMore
<1>4. \A q \in Peer : shown[q] = "committed" => shown'[q] = "committed"
  BY DEF StandInv, TypeOK
<1>5. ASSUME NEW q \in Peer PROVE Met(q)'
  <2> SUFFICES ASSUME NEW e \in Values(taken'[q]), Owner(e) = q
               PROVE  /\ e.screen[1] \in Values(visited[q])
                      /\ e.screen[1] = Here(q) =>
                           \/ e.screen[2] <= stage[q]
                           \/ (e.screen[2] = stage[q] + 1 /\ shown'[q] = "committed")
    BY <1>1 DEF Met
  <2>1. e \in Values(taken[q])
    BY <1>2, <1>3
  <2> QED
    BY <2>1, <1>4 DEF Placed, Met
<1>6. ASSUME NEW q \in Peer PROVE InSight(q)'
  BY <1>1 DEF Placed, InSight
<1> QED
  BY <1>5, <1>6 DEF Placed

LEMMA ChoiceInit == Init => ChoiceInv
<1> SUFFICES ASSUME Init PROVE ChoiceInv
  OBVIOUS
<1>1. DOMAIN <<>> = {}
  BY EmptySeq
<1>2. Values(<<>>) = {} /\ Coming(<<>>) = {} /\ Distinct(<<>>)
  BY <1>1 DEF Values, Coming, Distinct
<1>3. /\ \A p \in Peer : taken[p] = <<>> /\ \A q \in Peer : wire[q][p] = <<>>
      /\ \A p \in Peer : \A k \in Kind : held[p][k] = NoChoice /\ cached[p][k] = NoScreen
  BY DEF Init
<1>4. Chosen
  <2>1. ASSUME NEW p \in Peer PROVE Carried(p)
    BY <1>1, <1>2, <1>3 DEF Carried
  <2>2. ASSUME NEW p \in Peer PROVE Held(p) /\ \A q \in Peer : Posted(p, q)
    BY <1>2, <1>3 DEF Held, Posted
  <2> QED
    BY <2>1, <2>2 DEF Chosen
<1>5. Placed
  BY <1>2, <1>3 DEF Placed, Met, InSight
<1> QED
  BY <1>4, <1>5, WayInit DEF ChoiceInv

(* A choice that is due on a screen of its kind is about this screen.      *)
LEMMA TheScreen ==
  ASSUME NEW p \in Peer, NEW s \in Screen, NEW ch \in Choice, Here(p) \in Node, s[1] = Here(p),
         s[2] \in DOMAIN Screens(s[1]), Screens(s[1])[s[2]].kind = ch.kind, ch.node = Here(p),
         NEW d, d = [screen |-> s, option |-> ch.option]
  PROVE  Known(d) /\ About(ch, d) /\ d.option = ch.option
<1>1. ch.option \in Nat
  BY DEF Choice
<1>2. d.screen = s /\ d.option = ch.option /\ d \in Decision
  BY <1>1 DEF Decision
<1> QED
  BY <1>2 DEF Known, About

(* Skipping a node only clears slots.                                      *)
LEMMA SkipClears ==
  ASSUME StandInv, NEW c \in Peer, NEW n, Skip(c, n)
  PROVE  \A p \in Peer : \A k \in Kind : held'[p][k] \in {held[p][k], NoChoice}
BY DEF Skip, StandInv, TypeOK

LEMMA DecideHostEnterNode ==
  ASSUME ChoiceInv, HostEnterNode
  PROVE  Chosen' /\ Placed'
<1>1. StandInv /\ WayInv /\ Chosen /\ Placed /\ Host \in Peer
  BY DEF ChoiceInv, WayInv, Peer
<1>2. PICK h : h = Here(Host)
  OBVIOUS
<1>3. h \in Nat /\ visited[Host] = Entered(h)
  BY <1>1, <1>2, HereIs DEF WayInv, StandInv
<1>4. h + 1 \in Node /\ h + 1 \notin Values(visited[Host])
  <2>1. Len(Visit) \in Nat /\ h < Len(Visit)
    BY <1>2, NodeIs DEF HostEnterNode
  <2>2. \A x \in Values(Entered(h)) : x \in 1 .. h
    BY <1>3 DEF Values, Entered
  <2> QED
    BY <2>1, <2>2, <1>3 DEF Node
<1>5. Enter(Host, h + 1) /\ UNCHANGED <<shown, taken, held>>
  BY <1>2 DEF HostEnterNode
<1>6. Placed'
  BY <1>1, <1>4, <1>5, PlacedEnter
<1>7. PICK l : l = [type |-> "ENTERNODE", node |-> h + 1]
  OBVIOUS
<1>8. l \in Message /\ l.type # "CHOICE"
  BY <1>4, <1>7 DEF Message
<1>9. wire' = Sent(Host, l)
  BY <1>2, <1>7 DEF HostEnterNode
<1>10. \A p, q \in Peer :
         Distinct(wire'[q][p]) /\ Coming(wire'[q][p]) \subseteq Coming(wire[q][p])
  <2> SUFFICES ASSUME NEW p \in Peer, NEW q \in Peer
               PROVE  Distinct(wire'[q][p]) /\ Coming(wire'[q][p]) \subseteq Coming(wire[q][p])
    OBVIOUS
  <2>1. wire[q][p] \in Seq(Message) /\ Distinct(wire[q][p])
    BY <1>1 DEF Chosen, Posted, StandInv, TypeOK
  <2>2. wire'[q][p] \in {wire[q][p], Append(wire[q][p], l)}
    BY <1>1, <1>9 DEF Sent, StandInv, TypeOK
  <2>3. Distinct(Append(wire[q][p], l)) /\ Coming(Append(wire[q][p], l)) \subseteq Coming(wire[q][p])
    BY <2>1, <1>8, ChoicePosted
  <2> QED
    BY <2>1, <2>2, <2>3
<1>11. Chosen'
  BY <1>1, <1>5, <1>10, ChosenLess
<1> QED
  BY <1>6, <1>11

LEMMA DecideOnEnterNode ==
  ASSUME ChoiceInv, NEW c \in Client, OnEnterNode(c)
  PROVE  Chosen' /\ Placed'
<1>1. StandInv /\ Chosen /\ Placed /\ Host \in Peer /\ c \in Peer
  BY DEF ChoiceInv, WayInv, Peer
<1>2. wire[Host][c] # <<>> /\ wire' = [wire EXCEPT ![Host][c] = Tail(@)]
      /\ UNCHANGED <<gameVars, cached>>
      /\ (held' = held \/ Skip(c, Head(wire[Host][c]).node))
  BY DEF OnEnterNode
<1>3. \A p \in Peer : \A k \in Kind : held'[p][k] \in {held[p][k], NoChoice}
  BY <1>1, <1>2, SkipClears
<1>4. \A a, b \in Peer :
        Distinct(wire'[b][a]) /\ Coming(wire'[b][a]) \subseteq Coming(wire[b][a])
  BY <1>1, <1>2, Reading
<1>5. UNCHANGED <<visited, stage, shown, taken, cached>>
  BY <1>2 DEF gameVars
<1> QED
  BY <1>1, <1>3, <1>4, <1>5, ChosenLess, PlacedStill

LEMMA DecideRefuseNode ==
  ASSUME ChoiceInv, NEW c \in Client, RefuseNode(c)
  PROVE  Chosen' /\ Placed'
<1>1. StandInv /\ Chosen /\ Placed /\ c \in Peer
  BY DEF ChoiceInv, WayInv, Peer
<1>2. Skip(c, Head(nodeQ[c])) /\ UNCHANGED <<visited, stage, shown, taken, cached, wire>>
  BY DEF RefuseNode, gameVars
<1>3. \A p \in Peer : \A k \in Kind : held'[p][k] \in {held[p][k], NoChoice}
  BY <1>1, <1>2, SkipClears
<1>4. \A a, b \in Peer :
        Distinct(wire'[b][a]) /\ Coming(wire'[b][a]) \subseteq Coming(wire[b][a])
  BY <1>1, <1>2 DEF Chosen, Posted
<1> QED
  BY <1>1, <1>2, <1>3, <1>4, ChosenLess, PlacedStill

LEMMA DecideFollowNode ==
  ASSUME ChoiceInv, NEW c \in Client, FollowNode(c)
  PROVE  Chosen' /\ Placed'
<1>1. StandInv /\ WayInv /\ Chosen /\ Placed /\ c \in Peer
  BY DEF ChoiceInv, WayInv, Peer
<1>2. PICK n : n = Head(nodeQ[c])
  OBVIOUS
<1>3. nodeQ[c] # <<>> /\ Enter(c, n) /\ UNCHANGED <<shown, taken, held, wire>>
  BY <1>2 DEF FollowNode, MapTicks
<1>4. n \in Node /\ nodeQ[c] \in Seq(Nat)
  BY <1>1, <1>2, <1>3, NodeAhead, WayIs
<1>5. n \in Values(nodeQ[c])
  <2>1. Rising(nodeQ[c])
    BY <1>1 DEF WayInv, OnItsWay, Way
  <2>2. Values(nodeQ[c]) = {Head(nodeQ[c])} \cup Values(Tail(nodeQ[c]))
    BY <2>1, <1>3, <1>4, ListRead
  <2> QED
    BY <2>2, <1>2
<1>6. n \notin Values(visited[c])
  <2>1. Below(Values(visited[c]), Values(nodeQ[c]))
    BY <1>1 DEF WayInv, OnItsWay, Way
  <2>2. n \in Nat
    BY <1>4, NodeIs
  <2> QED
    BY <2>1, <2>2, <1>5 DEF Below
<1>7. Placed'
  BY <1>1, <1>3, <1>4, <1>6, PlacedEnter
<1> QED
  BY <1>1, <1>3, <1>7, ChosenStill

LEMMA SlotSet ==
  ASSUME TypeOK, NEW p \in Peer, NEW k \in Kind, NEW x \in {held[p][k], NoChoice},
         held' = [held EXCEPT ![p][k] = x]
  PROVE  \A a \in Peer : \A l \in Kind : held'[a][l] \in {held[a][l], NoChoice}
BY DEF TypeOK

(* A player decides the screen before it.                                  *)
LEMMA DecideChoose ==
  ASSUME OneOfAKind, ChoiceInv, NEW p \in Peer, Choose(p)
  PROVE  Chosen' /\ Placed'
<1>1. TypeOK /\ StandInv /\ Chosen /\ Placed
  BY DEF ChoiceInv, WayInv, StandInv
<1>2. /\ inNode[p] /\ ScreensLeft(p) /\ shown[p] = "up" /\ IsMine(p)
      /\ shown' = [shown EXCEPT ![p] = "committed"]
      /\ UNCHANGED <<visited, stage, held, cached>>
  BY <1>1 DEF Choose, StandInv, Standing
<1>3. /\ Here(p) \in Node /\ stage[p] + 1 \in DOMAIN Screens(Here(p))
      /\ Current(p) \in Screen /\ stage[p] \in Nat
  BY <1>1, <1>2, CurrentIs DEF TypeOK
<1>4. PICK o \in Nat : /\ Said(p, o) \in Choice
                       /\ wire' = Sent(p, [type |-> "CHOICE", choice |-> Said(p, o)])
                       /\ Carry(p, Current(p), o)
  BY <1>1, ChooseIs
<1>5. PICK ch : ch = Said(p, o)
  OBVIOUS
<1>6. PICK d : d = [screen |-> Current(p), option |-> o]
  OBVIOUS
<1>7. /\ ch \in Choice /\ ch.node = Here(p) /\ ch.option = o
      /\ ch.kind = Screens(Here(p))[stage[p] + 1].kind
  BY <1>4, <1>5 DEF Said, CurrentScreen
<1>8. Current(p)[1] = Here(p) /\ Current(p)[2] = stage[p] + 1
  BY DEF Current
<1>9. Known(d) /\ About(ch, d) /\ d.option = ch.option
  BY <1>3, <1>6, <1>7, <1>8, TheScreen
<1>10. d.screen = Current(p) /\ Owner(d) = p /\ d \in Decision
  BY <1>2, <1>6, <1>8, <1>9 DEF IsMine, CurrentScreen, Owner, Known
<1>11. taken' = [taken EXCEPT ![p] = Append(@, d)]
  BY <1>4, <1>6 DEF Carry
<1>12. ASSUME NEW e \in Values(taken[p]), Owner(e) = p PROVE e.screen # d.screen
  <2> SUFFICES ASSUME e.screen = d.screen PROVE FALSE
    OBVIOUS
  <2>1. e.screen[1] = Here(p) /\ e.screen[2] = stage[p] + 1
    BY <1>8, <1>10
  <2>2. e.screen[2] <= stage[p]
    BY <2>1, <1>1, <1>2, <1>12 DEF Placed, Met
  <2> QED
    BY <2>1, <2>2, <1>3
<1>13. Chosen'
  BY <1>1, <1>2, <1>4, <1>5, <1>7, <1>9, <1>10, <1>11, <1>12, ChosenSaid
<1>14. \A q \in Peer : Here(q)' = Here(q)
  BY <1>2 DEF Here
<1>15. taken[p] \in Seq(Decision) /\ taken'[p] = Append(taken[p], d)
       /\ \A q \in Peer : q # p => taken'[q] = taken[q] /\ shown'[q] = shown[q]
  BY <1>1, <1>2, <1>11 DEF TypeOK
<1>16. Values(taken'[p]) = Values(taken[p]) \cup {d} /\ shown'[p] = "committed"
  BY <1>1, <1>2, <1>10, <1>15, OneMore DEF TypeOK
<1>17. Here(p) \in Values(visited[p])
  <2>1. visited[p] # <<>> /\ visited[p] \in Seq(Node)
    BY <1>1, <1>2 DEF StandInv, Standing, TypeOK
  <2>2. Len(visited[p]) \in DOMAIN visited[p] /\ Here(p) = visited[p][Len(visited[p])]
    BY <2>1, LastOf, ListIs DEF Here
  <2> QED
    BY <2>2 DEF Values
<1>18. ASSUME NEW q \in Peer PROVE Met(q)'
  <2>1. CASE q = p
    <3> SUFFICES ASSUME NEW e \in Values(taken'[p]), Owner(e) = p
                 PROVE  /\ e.screen[1] \in Values(visited[p])
                        /\ e.screen[1] = Here(p) =>
                             e.screen[2] <= stage[p] \/ e.screen[2] = stage[p] + 1
      BY <2>1, <1>2, <1>14, <1>16 DEF Met
    <3>1. CASE e = d
      BY <3>1, <1>8, <1>10, <1>17
    <3>2. CASE e # d
      BY <3>2, <1>1, <1>16 DEF Placed, Met
    <3> QED
      BY <3>1, <3>2
  <2>2. CASE q # p
    BY <2>2, <1>1, <1>2, <1>14, <1>15 DEF Placed, Met
  <2> QED
    BY <2>1, <2>2
<1>19. ASSUME NEW q \in Peer PROVE InSight(q)'
  BY <1>1, <1>2, <1>14 DEF Placed, InSight
<1> QED
  BY <1>13, <1>18, <1>19 DEF Placed

LEMMA DecideScreenTick ==
  ASSUME OneOfAKind, ChoiceInv, NEW p \in Peer, ScreenTick(p)
  PROVE  Chosen' /\ Placed'
<1>1. TypeOK /\ StandInv /\ Chosen /\ Placed
  BY DEF ChoiceInv, WayInv, StandInv
<1>2. inNode[p] /\ ScreensLeft(p) /\ UNCHANGED <<visited, stage, cached, wire>>
  BY <1>1 DEF ScreenTick, StandInv, Standing
<1>3. /\ Here(p) \in Node /\ stage[p] + 1 \in DOMAIN Screens(Here(p))
      /\ Current(p) \in Screen /\ CurrentScreen(p) \in ScreenOf
  BY <1>1, <1>2, CurrentIs
<1>4. PICK k : k = CurrentScreen(p).kind
  OBVIOUS
<1>5. k \in Kind
  BY <1>3, <1>4 DEF ScreenOf
<1>6. PICK ch : ch = held[p][k]
  OBVIOUS
<1>7. ch # NoChoice
  BY <1>4, <1>6 DEF ScreenTick
<1>8. /\ ch \in Choice /\ ch.kind = k /\ \E q \in Peer \ {p} : MadeBy(ch, q)
      /\ Uncarried(p, ch)
  BY <1>1, <1>5, <1>6, <1>7 DEF Chosen, Held
<1>9. \A a, b \in Peer :
        Distinct(wire'[b][a]) /\ Coming(wire'[b][a]) \subseteq Coming(wire[b][a])
  BY <1>1, <1>2 DEF Chosen, Posted
<1>10. CASE UNCHANGED <<taken, shown>>
  <2>1. \/ held' = [held EXCEPT ![p][k] = NoChoice]
        \/ held' = [held EXCEPT ![p][k] = ch]
    BY <1>4, <1>6, <1>8, Outcomes DEF ScreenTick
  <2>2. \A a \in Peer : \A l \in Kind : held'[a][l] \in {held[a][l], NoChoice}
    BY <2>1, <1>1, <1>5, <1>6, SlotSet
  <2> QED
    BY <2>2, <1>1, <1>2, <1>9, <1>10, ChosenLess, PlacedStill
<1>11. CASE ~UNCHANGED <<taken, shown>>
  <2>1. ApplyPending(p, Current(p), ch)
    BY <1>4, <1>6, <1>11 DEF ScreenTick
  <2>2. /\ held' = [held EXCEPT ![p][ch.kind] = NoChoice]
        /\ Due(p, Current(p), ch) /\ Carry(p, Current(p), ch.option)
        /\ shown' = shown \/ (shown[p] = "up" /\ shown' = [shown EXCEPT ![p] = "committed"])
    BY <2>1, <1>11, Outcomes
  <2>3. PICK d : d = [screen |-> Current(p), option |-> ch.option]
    OBVIOUS
  <2>4. Current(p)[1] = Here(p) /\ Current(p)[2] = stage[p] + 1 /\ ch.node = Here(p)
        /\ Screens(Here(p))[stage[p] + 1].kind = ch.kind
    BY <2>2, <1>4, <1>8 DEF Current, CurrentScreen, Due
  <2>5. Known(d) /\ About(ch, d) /\ d.option = ch.option
    BY <2>3, <2>4, <1>3, <1>8, TheScreen
  <2>6. taken' = [taken EXCEPT ![p] = Append(@, d)]
    BY <2>2, <2>3 DEF Carry
  <2>7. PICK q \in Peer : q # p /\ MadeBy(ch, q)
    BY <1>8
  <2>8. ASSUME NEW b \in Peer, NEW x \in Coming(wire'[b][p]) PROVE ~Same(ch, x)
    <3>1. Unheld(p, x)
      BY <1>1, <1>2 DEF Chosen, Posted
    <3>2. ~Same(x, held[p][k])
      BY <3>1, <1>5, <1>6, <1>7 DEF Unheld
    <3> QED
      BY <3>2, <1>6 DEF Same
  <2>9. Chosen' /\ Owner(d) = q
    BY <2>2, <2>5, <2>6, <2>7, <2>8, <1>1, <1>8, <1>9, ChosenCarried
  <2>10. Placed'
    BY <2>2, <2>5, <2>6, <2>7, <2>9, <1>1, <1>2, PlacedCarried DEF Known
  <2> QED
    BY <2>9, <2>10
<1> QED
  BY <1>10, <1>11

LEMMA DecideOnChoice ==
  ASSUME OneOfAKind, ChoiceInv, NEW p \in Peer, NEW q \in Peer, OnChoice(p, q)
  PROVE  Chosen' /\ Placed'
<1>1. TypeOK /\ StandInv /\ Chosen /\ Placed
  BY DEF ChoiceInv, WayInv, StandInv
<1>2. /\ wire[q][p] # <<>> /\ Head(wire[q][p]).type = "CHOICE"
      /\ wire' = [wire EXCEPT ![q][p] = Tail(@)] /\ UNCHANGED <<visited, stage, cached>>
  BY DEF OnChoice
<1>3. PICK ch : ch = Head(wire[q][p]).choice
  OBVIOUS
<1>4. PICK s : s = cached[p][ch.kind]
  OBVIOUS
<1>5. /\ ch \in Choice /\ p # q /\ MadeBy(ch, q) /\ Unheld(p, ch) /\ Uncarried(p, ch)
      /\ \A b \in Peer : \A x \in Coming(wire'[b][p]) : ~Same(ch, x)
  BY <1>1, <1>2, <1>3, ReadAlone
<1>6. \A a, b \in Peer :
        Distinct(wire'[b][a]) /\ Coming(wire'[b][a]) \subseteq Coming(wire[b][a])
  BY <1>1, <1>2, Reading
<1>7. ch.kind \in Kind
  BY <1>5 DEF Choice
<1>8. \/ held' = held /\ UNCHANGED <<taken, shown>>
      \/ held' = [held EXCEPT ![p][ch.kind] = ch] /\ UNCHANGED <<taken, shown>>
      \/ s # NoScreen /\ ApplyPending(p, s, ch)
  BY <1>3, <1>4 DEF OnChoice
<1>9. \/ held' = held /\ UNCHANGED <<taken, shown>>
      \/ held' = [held EXCEPT ![p][ch.kind] = ch] /\ UNCHANGED <<taken, shown>>
      \/ held' = [held EXCEPT ![p][ch.kind] = NoChoice] /\ UNCHANGED <<taken, shown>>
      \/ /\ s # NoScreen /\ held' = [held EXCEPT ![p][ch.kind] = NoChoice]
         /\ Due(p, s, ch) /\ Carry(p, s, ch.option)
         /\ shown' = shown \/ (shown[p] = "up" /\ shown' = [shown EXCEPT ![p] = "committed"])
  BY <1>8, Outcomes
<1>10. CASE /\ UNCHANGED <<taken, shown>>
            /\ held' = held \/ held' = [held EXCEPT ![p][ch.kind] = NoChoice]
  <2>1. CASE held' = held
    BY <2>1, <1>1, <1>2, <1>6, <1>10, ChosenLess, PlacedStill
  <2>2. CASE held' = [held EXCEPT ![p][ch.kind] = NoChoice]
    <3>1. \A a \in Peer : \A l \in Kind : held'[a][l] \in {held[a][l], NoChoice}
      BY <2>2, <1>1, <1>7, SlotSet
    <3> QED
      BY <3>1, <1>1, <1>2, <1>6, <1>10, ChosenLess, PlacedStill
  <2> QED
    BY <2>1, <2>2, <1>10
<1>11. CASE UNCHANGED <<taken, shown>> /\ held' = [held EXCEPT ![p][ch.kind] = ch]
  BY <1>1, <1>2, <1>3, <1>11, ChosenKept, PlacedStill
<1>12. CASE /\ s # NoScreen /\ held' = [held EXCEPT ![p][ch.kind] = NoChoice]
            /\ Due(p, s, ch) /\ Carry(p, s, ch.option)
            /\ shown' = shown \/ (shown[p] = "up" /\ shown' = [shown EXCEPT ![p] = "committed"])
  <2>1. /\ s[1] = Here(p) /\ Here(p) \in Node /\ s[2] \in DOMAIN Screens(s[1])
        /\ Screens(s[1])[s[2]].kind = ch.kind /\ ch.node = Here(p)
    BY <1>1, <1>4, <1>7, <1>12 DEF Placed, InSight, Due
  <2>2. s \in Screen
    BY <1>1, <1>4, <1>7, <1>12 DEF TypeOK
  <2>3. PICK d : d = [screen |-> s, option |-> ch.option]
    OBVIOUS
  <2>4. Known(d) /\ About(ch, d) /\ d.option = ch.option
    BY <2>1, <2>2, <2>3, <1>5, TheScreen
  <2>5. taken' = [taken EXCEPT ![p] = Append(@, d)]
    BY <2>3, <1>12 DEF Carry
  <2>6. Chosen' /\ Owner(d) = q
    BY <2>4, <2>5, <1>1, <1>5, <1>6, <1>12, ChosenCarried
  <2>7. Placed'
    BY <2>4, <2>5, <2>6, <1>1, <1>2, <1>5, <1>12, PlacedCarried DEF Known
  <2> QED
    BY <2>6, <2>7
<1> QED
  BY <1>9, <1>10, <1>11, <1>12

LEMMA ChoiceStep ==
  ASSUME OneOfAKind, ChoiceInv, [Next]_vars
  PROVE  ChoiceInv'
<1>1. WayInv' /\ StandInv /\ Chosen /\ Placed
  BY WayStep DEF ChoiceInv, WayInv
<1>2. ASSUME UNCHANGED <<visited, stage, shown, taken, held, cached, wire>> PROVE Chosen' /\ Placed'
  BY <1>1, <1>2, ChosenStill, PlacedStill
<1>3. ASSUME NEW c \in Client, OnEnterNode(c) \/ RefuseNode(c) \/ FollowNode(c)
      PROVE  Chosen' /\ Placed'
  BY <1>3, DecideOnEnterNode, DecideRefuseNode, DecideFollowNode
<1>4. ASSUME NEW c \in Client, OpenModal(c) \/ CloseModal(c) \/ PlayerCloses(c)
      PROVE  Chosen' /\ Placed'
  BY <1>2, <1>4 DEF OpenModal, CloseModal, PlayerCloses
<1>5. ASSUME NEW p \in Peer, ScreenUp(p) \/ Build(p) \/ CloseScreen(p) PROVE Chosen' /\ Placed'
  <2>1. UNCHANGED <<taken, held, wire>>
    BY <1>5 DEF ScreenUp, Build, CloseScreen
  <2> QED
    BY <2>1, <1>1, <1>5, ChosenStill, PlacedScreenUp, PlacedShown
<1>6. ASSUME NEW p \in Peer, LeaveNode(p) PROVE Chosen' /\ Placed'
  BY <1>2, <1>6 DEF LeaveNode
<1>7. ASSUME NEW p \in Peer, Choose(p) \/ ScreenTick(p) \/ \E q \in Peer : OnChoice(p, q)
      PROVE  Chosen' /\ Placed'
  BY <1>7, DecideChoose, DecideScreenTick, DecideOnChoice
<1>8. CASE UNCHANGED vars
  BY <1>1, <1>2, <1>8 DEF vars, gameVars, ChoiceInv
<1> QED
  BY <1>1, <1>3, <1>4, <1>5, <1>6, <1>7, <1>8, DecideHostEnterNode DEF Next, ChoiceInv

LEMMA ChoiceSame == ChoiceInv => SameDecisions
<1> SUFFICES ASSUME ChoiceInv, NEW p \in Peer, NEW i \in DOMAIN taken[p], NEW d, d = taken[p][i]
             PROVE  /\ Contains(taken[Owner(d)], d)
                    /\ \A j \in DOMAIN taken[p] : taken[p][j].screen = d.screen => j = i
  BY DEF SameDecisions, Owner
<1>1. Carried(p)
  BY DEF ChoiceInv, Chosen
<1>2. d \in Values(taken[p])
  BY DEF Values
<1>3. Owner(d) \in Peer /\ d \in Values(taken[Owner(d)])
  BY <1>1, <1>2 DEF Carried
<1>4. taken[Owner(d)] \in Seq(Decision)
  BY <1>3 DEF ChoiceInv, WayInv, StandInv, TypeOK
<1>5. Contains(taken[Owner(d)], d)
  BY <1>3, <1>4, ListIs DEF Contains, Values
<1> QED
  BY <1>1, <1>5 DEF Carried

(* Where no node has two screens of one kind, every decision a copy carries*)
(* out is the one the owner of the screen took there, and no copy carries  *)
(* out two on one screen (node_seed and kind of ChoiceMsg, apply_pending,  *)
(* choice_on_node_skipped), for any run and number of clients.             *)
THEOREM OneDecision == OneOfAKind /\ Spec => []SameDecisions
<1>1. OneOfAKind /\ ChoiceInv /\ [Next]_vars => ChoiceInv'
  BY ChoiceStep
<1>2. CASE OneOfAKind
  <2>1. ChoiceInv /\ [Next]_vars => ChoiceInv'
    BY <1>1, <1>2
  <2> QED
    BY <2>1, ChoiceInit, ChoiceSame, PTL DEF Spec
<1> QED
  BY <1>2

-------------------------------------------------------------------------------
(* What is bought in the other's copy too.                                 *)

Letters ==
  [type : {"SHOPBUY"}, ware : Ware] \cup [type : {"LEVELUPTARGET"}, cat : Kitten]
  \cup [type : {"CHOICE"}]
RedirectState == Kitten \cup {Unused, Untold}

(* A watch is armed while no level-up screen is in front.                  *)
MirrorTypeOK ==
  /\ browsing \in [Shopper -> BOOLEAN] /\ shelf \in [Shopper -> SUBSET Ware]
  /\ opening \in [Shopper -> Seq(Candy)]
  /\ screen \in [Shopper -> LevelUpScreen \cup {NoLevelUp}]
  /\ queued \in [Shopper -> Seq(Ware)] /\ watch \in [Shopper -> Seq({NoLevelUp})]
  /\ redirect \in [Shopper -> [1 .. MaxRedirects -> RedirectState]]
  /\ told \in [Shopper -> BOOLEAN] /\ mail \in [Shopper -> Seq(Letters)]
  /\ given \in [Shopper -> [Candy -> Kitten \cup {Nobody}]]
  /\ spoilt \in BOOLEAN

(* What was bought in a copy is off its shelf, and was or will be taken    *)
(* off all the others.                                                     *)
Purchases(ms, w) == {i \in DOMAIN ms : ms[i] = ShopBuy(w)}
Waiting(ws, w) == {i \in DOMAIN ws : ws[i] = w}
ToClick(q, w) == Purchases(mail[q], w) # {} \/ Waiting(queued[q], w) # {}

Sold ==
  /\ \A q \in Shopper, w \in Candy : given[q][w] # Nobody => w \notin shelf[q]
  /\ \A q \in Shopper : screen[q] # NoLevelUp => screen[q].ware \notin shelf[q]
  /\ \A q \in Shopper : \A i \in DOMAIN opening[q] : opening[q][i] \notin shelf[q]
Mirrored ==
  /\ \A p, q \in Shopper, w \in Ware :
       w \notin shelf[p] => w \notin shelf[q] \/ ToClick(q, w)
  /\ \A q \in Shopper, w \in Ware : ToClick(q, w) => \E r \in Shopper : w \notin shelf[r]

(* While nothing of it is unspoilt, at most one candy is under way: b has  *)
(* bought it, and k is the cat b's screen has rolled.                      *)
Tells(ms) == {i \in DOMAIN ms : ms[i].type = "LEVELUPTARGET"}
InOrder(ms, w, k) ==
  /\ \A i \in DOMAIN ms : ms[i].type = "SHOPBUY" /\ ms[i].ware \in Candy => ms[i].ware = w
  /\ \A i \in Tells(ms) : ms[i].cat = k
  /\ \A i \in Purchases(ms, w), j \in Tells(ms) : i < j
  /\ \A i, j \in Purchases(ms, w) : i = j
Single(ws, w) ==
  /\ \A i \in DOMAIN ws : ws[i] \in Candy => ws[i] = w
  /\ \A i, j \in Waiting(ws, w) : i = j

(* It is on its way, queued, to be opened or on the screen, and nowhere    *)
(* twice.                                                                  *)
Stage(q, w, k) ==
  /\ InOrder(mail[q], w, k) /\ Single(queued[q], w)
  /\ Purchases(mail[q], w) # {} => Waiting(queued[q], w) = {} /\ Targets(redirect[q]) = {}
  /\ opening[q] \in {<<>>, <<w>>}
  /\ ToClick(q, w) => opening[q] = <<>>
  /\ ToClick(q, w) \/ opening[q] # <<>> => screen[q] = NoLevelUp
  /\ screen[q] # NoLevelUp => screen[q].ware = w
  /\ \A i \in Targets(redirect[q]) : redirect[q][i] = k
  /\ given[q][w] \in {Nobody, k}

(* The buyer hears nothing; it announces before its screen is gone.        *)
Buyer(w, b, k) ==
  /\ ~ToClick(b, w) /\ Tells(mail[b]) = {} /\ Targets(redirect[b]) = {}
  /\ screen[b] # NoLevelUp => screen[b].cat = k
  /\ opening[b] # <<>> => watch[b] # <<>> /\ \A q \in Shopper : given[q][w] = Nobody

(* Anybody else has heard which cat it is, or will, and then has a click   *)
(* that waits for it.                                                      *)
WillHear(q, b) ==
  \/ watch[b] # <<>> /\ (opening[b] # <<>> \/ screen[b] # NoLevelUp)
  \/ Tells(mail[q]) # {}
Waits(q) == \E i \in 1 .. MaxRedirects : redirect[q][i] = Untold
Hears(q, w, b, k) ==
  /\ watch[q] = <<>>
  /\ opening[b] # <<>> => Tells(mail[q]) = {} /\ Targets(redirect[q]) = {}
  /\ ToClick(q, w) => WillHear(q, b) \/ Targets(redirect[q]) # {}
  /\ opening[q] # <<>> \/ Undecided(q) =>
       \/ Targets(redirect[q]) # {}
       \/ WillHear(q, b) /\ Waits(q)
       \/ screen[q] # NoLevelUp /\ screen[q].cat = k /\ opening[b] = <<>>

Round(w, b, k) ==
  /\ Buyer(w, b, k)
  /\ \A q \in Shopper : Stage(q, w, k)
  /\ \A q \in Shopper \ {b} : Hears(q, w, b, k)

(* No candy is under way in q's copy, and none is announced to it.         *)
CalmAt(q) ==
  /\ opening[q] = <<>> /\ screen[q] = NoLevelUp /\ Targets(redirect[q]) = {}
  /\ Tells(mail[q]) = {} /\ \A w \in Candy : ~ToClick(q, w)

Alike ==
  \A p, q \in Shopper, w \in Candy :
    given[p][w] # Nobody /\ given[q][w] # Nobody => given[p][w] = given[q][w]

HaulInv ==
  /\ MirrorTypeOK /\ Sold
  /\ ~spoilt =>
       /\ Mirrored /\ Alike
       /\ \/ \A q \in Shopper : CalmAt(q)
          \/ \E w \in Candy, b \in Shopper, k \in Kitten \cup {Nobody} : Round(w, b, k)

-------------------------------------------------------------------------------
(* Lists of it: what is among a list, read off it and written to it.       *)

LEMMA AmongNone == ASSUME NEW S PROVE Among(<<>>, S) = <<>>
BY PickedNone DEF Among

LEMMA AmongNext ==
  ASSUME NEW T, NEW s \in Seq(T), NEW e \in T, NEW S
  PROVE  Among(Append(s, e), S) = IF e \in S THEN Append(Among(s, S), e) ELSE Among(s, S)
<1> DEFINE r == Append(s, e)
           f == [i \in {j \in DOMAIN s : s[j] \in S} |-> s[i]]
           g == [i \in {j \in DOMAIN r : r[j] \in S} |-> r[i]]
           n == Len(s)
<1>1. n \in Nat /\ DOMAIN s = 1 .. n
  BY LenProperties
<1>2. r \in Seq(T) /\ Len(r) = n + 1 /\ \A i \in 1 .. n : r[i] = s[i]
  BY AppendProperties
<1>3. r[n + 1] = e /\ DOMAIN r = 1 .. (n + 1)
  BY <1>2, AppendProperties, LenProperties
<1> HIDE DEF r, n
<1>4. Picked(g, n) = Picked(f, n)
  <2>1. \A i \in 1 .. n : (i \in DOMAIN g <=> i \in DOMAIN f) /\ (i \in DOMAIN g => g[i] = f[i])
    BY <1>1, <1>2, <1>3
  <2> HIDE DEF f, g
  <2> QED
    BY <2>1, <1>1, PickedLocal
<1>5. /\ n + 1 \in DOMAIN g <=> e \in S
      /\ e \in S => g[n + 1] = e
  BY <1>1, <1>3
<1>6. Among(r, S) = Picked(g, n + 1) /\ Among(s, S) = Picked(f, n)
  BY <1>2 DEF Among, n
<1> HIDE DEF f, g
<1>7. Picked(g, n + 1) = IF n + 1 \in DOMAIN g THEN Append(Picked(g, n), g[n + 1]) ELSE Picked(g, n)
  BY <1>1, PickedNext
<1> QED
  BY <1>4, <1>5, <1>6, <1>7 DEF r

LEMMA AmongIs ==
  ASSUME NEW T, NEW S, NEW s \in Seq(T)
  PROVE  /\ Among(s, S) \in Seq(S \cap T)
         /\ (\A i \in DOMAIN s : s[i] \notin S) => Among(s, S) = <<>>
         /\ (\E i \in DOMAIN s : s[i] \in S) => Among(s, S) # <<>>
         /\ \A i \in DOMAIN s :
              s[i] \in S /\ (\A j \in DOMAIN s : s[j] \in S => j = i) => Among(s, S) = <<s[i]>>
<1> DEFINE Good(r) ==
             /\ Among(r, S) \in Seq(S \cap T)
             /\ (\A i \in DOMAIN r : r[i] \notin S) => Among(r, S) = <<>>
             /\ (\E i \in DOMAIN r : r[i] \in S) => Among(r, S) # <<>>
             /\ \A i \in DOMAIN r :
                  r[i] \in S /\ (\A j \in DOMAIN r : r[j] \in S => j = i) => Among(r, S) = <<r[i]>>
           G == {r \in Seq(T) : Good(r)}
<1>1. <<>> \in G
  <2>1. <<>> \in Seq(T) /\ <<>> \in Seq(S \cap T) /\ DOMAIN <<>> = {}
    BY EmptySeq
  <2> QED
    BY <2>1, AmongNone
<1>2. ASSUME NEW r \in Seq(T), NEW e \in T, r \in G PROVE Append(r, e) \in G
  <2> DEFINE a == Append(r, e)
             n == Len(r)
  <2>1. n \in Nat /\ DOMAIN r = 1 .. n /\ Good(r)
    BY <1>2, LenProperties
  <2>2. a \in Seq(T) /\ Len(a) = n + 1 /\ \A i \in 1 .. n : a[i] = r[i]
    BY AppendProperties
  <2>3. a[n + 1] = e /\ DOMAIN a = 1 .. (n + 1)
    BY <2>2, AppendProperties, LenProperties
  <2>4. Among(a, S) = IF e \in S THEN Append(Among(r, S), e) ELSE Among(r, S)
    BY AmongNext
  <2> HIDE DEF a, n
  <2>5. ASSUME e \in S PROVE a \in G
    <3>1. Among(a, S) \in Seq(S \cap T) /\ Among(a, S) # <<>>
      <4>1. Among(r, S) \in Seq(S \cap T)
        BY <2>1
      <4>2. Append(Among(r, S), e) \in Seq(S \cap T) /\ Append(Among(r, S), e) # <<>>
        BY <4>1, <2>5, AppendProperties
      <4> QED
        BY <4>2, <2>4, <2>5
    <3>2. ~ \A i \in DOMAIN a : a[i] \notin S
      BY <2>1, <2>3, <2>5
    <3>3. ASSUME NEW i \in DOMAIN a, a[i] \in S, \A j \in DOMAIN a : a[j] \in S => j = i
          PROVE  Among(a, S) = <<a[i]>>
      <4>1. i = n + 1
        <5>1. n + 1 \in DOMAIN a /\ a[n + 1] \in S
          BY <2>1, <2>3, <2>5
        <5> HIDE DEF G
        <5> QED
          BY <3>3, <5>1
      <4>2. \A j \in DOMAIN r : r[j] \notin S
        BY <4>1, <3>3, <2>1, <2>2, <2>3
      <4>3. Among(r, S) = <<>>
        BY <4>2, <2>1
      <4>4. Append(<<>>, e) = <<e>>
        OBVIOUS
      <4> QED
        BY <4>1, <4>3, <4>4, <2>3, <2>4, <2>5
    <3> QED
      BY <2>2, <3>1, <3>2, <3>3
  <2>6. ASSUME e \notin S PROVE a \in G
    <3>1. \A i \in DOMAIN a : a[i] \in S => i \in DOMAIN r /\ r[i] = a[i]
      BY <2>1, <2>2, <2>3, <2>6
    <3>2. \A i \in DOMAIN r : i \in DOMAIN a /\ r[i] = a[i]
      BY <2>1, <2>2, <2>3
    <3>3. Among(a, S) = Among(r, S)
      BY <2>4, <2>6
    <3>4. Good(a)
      BY <3>1, <3>2, <3>3, <2>1
    <3> QED
      BY <2>2, <3>4
  <2> QED
    BY <2>5, <2>6 DEF a
<1>3. Seq(T) \subseteq G
  <2> HIDE DEF G
  <2> QED
    BY <1>1, <1>2, EveryList
<1> QED
  BY <1>3

LEMMA OneRead ==
  ASSUME NEW ms \in Seq(Letters), ms # <<>>, NEW w, NEW k
  PROVE  /\ Tail(ms) \in Seq(Letters) /\ Head(ms) \in Letters
         /\ InOrder(ms, w, k) => InOrder(Tail(ms), w, k)
         /\ Purchases(Tail(ms), w) # {} => Purchases(ms, w) # {}
         /\ Purchases(ms, w) # {} => Head(ms) = ShopBuy(w) \/ Purchases(Tail(ms), w) # {}
         /\ Tells(Tail(ms)) # {} => Tells(ms) # {}
         /\ Tells(ms) # {} => Head(ms).type = "LEVELUPTARGET" \/ Tells(Tail(ms)) # {}
         /\ Head(ms).type = "LEVELUPTARGET" =>
              Tells(ms) # {} /\ (InOrder(ms, w, k) => Purchases(ms, w) = {} /\ Head(ms).cat = k)
         /\ Head(ms).type = "SHOPBUY" /\ InOrder(ms, w, k) /\ Head(ms).ware \in Candy =>
              Head(ms).ware = w
         /\ Head(ms) = ShopBuy(w) =>
              Purchases(ms, w) # {} /\ (InOrder(ms, w, k) => Purchases(Tail(ms), w) = {})
<1> DEFINE t == Tail(ms)
           n == Len(ms)
<1>1. n \in Nat /\ n > 0 /\ DOMAIN ms = 1 .. n /\ Head(ms) = ms[1] /\ Head(ms) \in Letters
  BY LenProperties, EmptySeq, HeadTailProperties
<1>2. t \in Seq(Letters) /\ Len(t) = n - 1 /\ \A i \in 1 .. (n - 1) : t[i] = ms[i + 1]
  BY HeadTailProperties
<1>3. DOMAIN t = 1 .. (n - 1)
  BY <1>2, LenProperties
<1> HIDE DEF t, n
<1>4. \A i \in DOMAIN t : i + 1 \in DOMAIN ms /\ t[i] = ms[i + 1]
  BY <1>1, <1>2, <1>3
<1>5. \A j \in DOMAIN ms : j = 1 \/ (j - 1 \in DOMAIN t /\ t[j - 1] = ms[j])
  BY <1>1, <1>2, <1>3
<1>6. 1 \in DOMAIN ms /\ DOMAIN ms \subseteq Nat /\ DOMAIN t \subseteq Nat
  BY <1>1, <1>3
<1>7. /\ \A i \in Purchases(t, w) : i + 1 \in Purchases(ms, w)
      /\ \A i \in Tells(t) : i + 1 \in Tells(ms)
  BY <1>4 DEF Purchases, Tells
<1>8. InOrder(ms, w, k) => InOrder(t, w, k)
  <2> SUFFICES ASSUME InOrder(ms, w, k) PROVE InOrder(t, w, k)
    OBVIOUS
  <2>1. \A i \in DOMAIN t : t[i].type = "SHOPBUY" /\ t[i].ware \in Candy => t[i].ware = w
    BY <1>4 DEF InOrder
  <2>2. \A i \in Tells(t) : t[i].cat = k
    BY <1>4, <1>7 DEF InOrder, Tells
  <2>3. \A i \in Purchases(t, w), j \in Tells(t) : i < j
    <3> TAKE i \in Purchases(t, w), j \in Tells(t)
    <3>1. i + 1 < j + 1
      BY <1>7 DEF InOrder
    <3>2. i \in Nat /\ j \in Nat
      BY <1>6 DEF Purchases, Tells
    <3> QED
      BY <3>1, <3>2
  <2>4. \A i, j \in Purchases(t, w) : i = j
    <3> TAKE i, j \in Purchases(t, w)
    <3>1. i + 1 = j + 1
      BY <1>7 DEF InOrder
    <3>2. i \in Nat /\ j \in Nat
      BY <1>6 DEF Purchases
    <3> QED
      BY <3>1, <3>2
  <2> QED
    BY <2>1, <2>2, <2>3, <2>4 DEF InOrder
<1>9. Purchases(ms, w) # {} => Head(ms) = ShopBuy(w) \/ Purchases(t, w) # {}
  BY <1>1, <1>5 DEF Purchases
<1>10. Tells(ms) # {} => Head(ms).type = "LEVELUPTARGET" \/ Tells(t) # {}
  BY <1>1, <1>5 DEF Tells
<1>11. Head(ms).type = "LEVELUPTARGET" =>
         Tells(ms) # {} /\ (InOrder(ms, w, k) => Purchases(ms, w) = {} /\ Head(ms).cat = k)
  <2> SUFFICES ASSUME Head(ms).type = "LEVELUPTARGET"
               PROVE  /\ Tells(ms) # {}
                      /\ InOrder(ms, w, k) => Purchases(ms, w) = {} /\ Head(ms).cat = k
    OBVIOUS
  <2>1. 1 \in Tells(ms)
    BY <1>1, <1>6 DEF Tells
  <2>2. \A i \in Purchases(ms, w) : ~ (i < 1)
    BY <1>1 DEF Purchases
  <2> QED
    BY <2>1, <2>2, <1>1 DEF InOrder
<1>12. Head(ms) = ShopBuy(w) =>
         Purchases(ms, w) # {} /\ (InOrder(ms, w, k) => Purchases(t, w) = {})
  <2> SUFFICES ASSUME Head(ms) = ShopBuy(w)
               PROVE  /\ Purchases(ms, w) # {}
                      /\ InOrder(ms, w, k) => Purchases(t, w) = {}
    OBVIOUS
  <2>1. 1 \in Purchases(ms, w)
    BY <1>1, <1>6 DEF Purchases
  <2>2. ASSUME InOrder(ms, w, k), NEW i \in Purchases(t, w) PROVE FALSE
    <3>1. i + 1 = 1
      BY <1>7, <2>1, <2>2 DEF InOrder
    <3>2. i \in 1 .. (n - 1)
      BY <1>3 DEF Purchases
    <3> QED
      BY <3>1, <3>2, <1>1
  <2> QED
    BY <2>1, <2>2
<1>13. Head(ms).type = "SHOPBUY" /\ InOrder(ms, w, k) /\ Head(ms).ware \in Candy => Head(ms).ware = w
  BY <1>1, <1>6 DEF InOrder
<1> QED
  BY <1>1, <1>2, <1>7, <1>8, <1>9, <1>10, <1>11, <1>12, <1>13 DEF t

LEMMA SomeWritten ==
  ASSUME NEW s \in Seq(Letters), NEW t \in Seq(Letters), NEW w, NEW k
  PROVE  /\ s \o t \in Seq(Letters)
         /\ \A v \in Ware : Purchases(s \o t, v) # {} <=> Purchases(s, v) # {} \/ Purchases(t, v) # {}
         /\ Tells(s \o t) # {} <=> Tells(s) # {} \/ Tells(t) # {}
         /\ InOrder(s, w, k) /\ InOrder(t, w, k) /\ Purchases(t, w) = {} => InOrder(s \o t, w, k)
         /\ InOrder(s, w, k) /\ InOrder(t, w, k) /\ Purchases(s, w) = {} /\ Tells(s) = {} =>
              InOrder(s \o t, w, k)
<1> DEFINE u == s \o t
           m == Len(s)
           n == Len(t)
<1>1. m \in Nat /\ n \in Nat /\ DOMAIN s = 1 .. m /\ DOMAIN t = 1 .. n
  BY LenProperties
<1>2. u \in Seq(Letters) /\ Len(u) = m + n
      /\ \A i \in 1 .. (m + n) : u[i] = IF i <= m THEN s[i] ELSE t[i - m]
  BY ConcatProperties
<1>3. DOMAIN u = 1 .. (m + n)
  BY <1>2, LenProperties
<1> HIDE DEF u, m, n
<1>4. /\ \A i \in DOMAIN s : i \in DOMAIN u /\ u[i] = s[i] /\ i <= m
      /\ \A i \in DOMAIN t : i + m \in DOMAIN u /\ u[i + m] = t[i]
      /\ \A i \in DOMAIN u : \/ i \in DOMAIN s /\ u[i] = s[i] /\ i <= m
                             \/ i > m /\ i - m \in DOMAIN t /\ u[i] = t[i - m]
  BY <1>1, <1>2, <1>3
<1>5. DOMAIN s \subseteq Nat /\ DOMAIN t \subseteq Nat /\ DOMAIN u \subseteq Nat
  BY <1>1, <1>3
<1>6. ASSUME NEW v PROVE Purchases(u, v) # {} <=> Purchases(s, v) # {} \/ Purchases(t, v) # {}
  BY <1>4 DEF Purchases
<1>7. Tells(u) # {} <=> Tells(s) # {} \/ Tells(t) # {}
  BY <1>4 DEF Tells
<1>8. \A i \in Purchases(u, w) : i \in Purchases(s, w) \/ (i > m /\ i - m \in Purchases(t, w))
  BY <1>4 DEF Purchases
<1>9. \A i \in Tells(u) : i \in Tells(s) \/ (i > m /\ i - m \in Tells(t))
  BY <1>4 DEF Tells
<1>10. /\ \A i \in Purchases(s, w) : i \in Nat /\ i <= m
       /\ \A i \in Tells(s) : i \in Nat /\ i <= m
       /\ \A i \in Purchases(u, w) \cup Tells(u) : i \in Nat
  BY <1>4, <1>5 DEF Purchases, Tells
<1>11. ASSUME InOrder(s, w, k), InOrder(t, w, k),
              Purchases(t, w) = {} \/ (Purchases(s, w) = {} /\ Tells(s) = {})
       PROVE  InOrder(u, w, k)
  <2>1. \A i \in DOMAIN u : u[i].type = "SHOPBUY" /\ u[i].ware \in Candy => u[i].ware = w
    BY <1>11, <1>4 DEF InOrder
  <2>2. \A i \in Tells(u) : u[i].cat = k
    <3> TAKE i \in Tells(u)
    <3>1. CASE i \in Tells(s)
      BY <3>1, <1>11, <1>4 DEF InOrder, Tells
    <3>2. CASE i > m /\ i - m \in Tells(t)
      <4>1. i \in DOMAIN u /\ i \notin DOMAIN s
        BY <3>2, <1>1, <1>5 DEF Tells
      <4>2. u[i] = t[i - m]
        BY <4>1, <1>4
      <4> QED
        BY <3>2, <4>2, <1>11 DEF InOrder
    <3> QED
      BY <3>1, <3>2, <1>9
  <2>3. \A i \in Purchases(u, w), j \in Tells(u) : i < j
    <3> TAKE i \in Purchases(u, w), j \in Tells(u)
    <3>1. CASE Purchases(t, w) = {}
      <4>1. i \in Purchases(s, w)
        BY <3>1, <1>8
      <4>2. CASE j \in Tells(s)
        BY <4>1, <4>2, <1>11 DEF InOrder
      <4>3. CASE j > m
        BY <4>1, <4>3, <1>10, <1>1
      <4> QED
        BY <4>2, <4>3, <1>9
    <3>2. CASE Purchases(s, w) = {} /\ Tells(s) = {}
      <4>1. i - m \in Purchases(t, w) /\ j - m \in Tells(t)
        BY <3>2, <1>8, <1>9
      <4>2. i - m < j - m
        BY <4>1, <1>11 DEF InOrder
      <4> QED
        BY <4>2, <1>10, <1>1
    <3> QED
      BY <3>1, <3>2, <1>11
  <2>4. \A i, j \in Purchases(u, w) : i = j
    <3> TAKE i, j \in Purchases(u, w)
    <3>1. CASE Purchases(t, w) = {}
      BY <3>1, <1>8, <1>11 DEF InOrder
    <3>2. CASE Purchases(s, w) = {}
      <4>1. i - m \in Purchases(t, w) /\ j - m \in Purchases(t, w)
        BY <3>2, <1>8
      <4>2. i - m = j - m
        BY <4>1, <1>11 DEF InOrder
      <4> QED
        BY <4>2, <1>10, <1>1
    <3> QED
      BY <3>1, <3>2, <1>11
  <2> QED
    BY <2>1, <2>2, <2>3, <2>4 DEF InOrder
<1> QED
  BY <1>2, <1>6, <1>7, <1>11 DEF u

LEMMA FirstOne ==
  ASSUME NEW T, NEW s \in Seq(T), s # <<>>
  PROVE  1 \in DOMAIN s /\ Head(s) = s[1] /\ s[1] \in T
<1>1. Len(s) \in Nat /\ DOMAIN s = 1 .. Len(s)
  BY LenProperties
<1>2. Len(s) # 0
  BY EmptySeq
<1>3. 1 \in DOMAIN s
  BY <1>1, <1>2
<1> QED
  BY <1>3, HeadTailProperties, ElementOfSeq, <1>1

LEMMA MinIs ==
  ASSUME NEW S \in SUBSET Nat, S # {}
  PROVE  Min(S) \in S
<1>1. PICK k \in S : \A j \in S : k <= j
  BY LeastOne
<1> QED
  BY <1>1 DEF Min

LEMMA MaxIs ==
  ASSUME NEW n \in Nat, NEW S \in SUBSET (1 .. n), S # {}
  PROVE  Max(S) \in S
<1> DEFINE T == {n - i : i \in S}
<1>1. T \in SUBSET Nat /\ T # {}
  <2>1. \A i \in S : n - i \in Nat
    OBVIOUS
  <2> QED
    BY <2>1
<1>2. PICK k \in T : \A j \in T : k <= j
  BY <1>1, LeastOne
<1>3. PICK m \in S : k = n - m
  BY <1>2
<1>4. \A j \in S : m >= j
  <2> TAKE j \in S
  <2>1. n - m <= n - j
    BY <1>2, <1>3
  <2> QED
    BY <2>1
<1> QED
  BY <1>4 DEF Max

LEMMA RedirectsAre == 1 .. MaxRedirects \subseteq Nat /\ 1 \in 1 .. MaxRedirects /\ MaxRedirects \in Nat
BY ShopParameters

(* A redirect that knows its cat is found.                                 *)
LEMMA TargetFound ==
  ASSUME NEW rs \in [1 .. MaxRedirects -> RedirectState], Targets(rs) # {}
  PROVE  /\ \E i \in Targets(rs) : KnownTarget(rs) = rs[i]
         /\ \A cat : \E i \in Targets(rs) : Redirected(rs, cat) = rs[i]
<1>1. Targets(rs) \in SUBSET (1 .. MaxRedirects) /\ Targets(rs) \in SUBSET Nat
  BY RedirectsAre DEF Targets
<1>2. Min(Targets(rs)) \in Targets(rs)
  BY <1>1, MinIs
<1>3. Max(Targets(rs)) \in Targets(rs)
  BY <1>1, RedirectsAre, MaxIs
<1> QED
  BY <1>2, <1>3 DEF KnownTarget, Redirected

(* Arming a redirect takes free ones only, and leaves one that waits.      *)
LEMMA ArmedIs ==
  ASSUME NEW rs \in [1 .. MaxRedirects -> RedirectState], NEW n
  PROVE  /\ Armed(rs, n) \in [1 .. MaxRedirects -> RedirectState]
         /\ \A i \in 1 .. MaxRedirects : rs[i] # Unused => Armed(rs, n)[i] = rs[i]
         /\ Targets(Armed(rs, n)) = Targets(rs)
         /\ \A i \in Targets(rs) : Armed(rs, n)[i] = rs[i]
<1> DEFINE free == {i \in DOMAIN rs : rs[i] = Unused}
           first == {i \in free : Cardinality({j \in free : j <= i}) <= n}
           a == Armed(rs, n)
<1>1. a = [i \in DOMAIN rs |-> IF i \in first THEN Untold ELSE rs[i]]
  BY DEF Armed
<1>2. \A i \in first : i \in 1 .. MaxRedirects /\ rs[i] = Unused
  OBVIOUS
<1> HIDE DEF first, a
<1>3. a \in [1 .. MaxRedirects -> RedirectState]
  BY <1>1 DEF RedirectState
<1>4. \A i \in 1 .. MaxRedirects : rs[i] # Unused => a[i] = rs[i]
  BY <1>1, <1>2
<1>5. \A i \in 1 .. MaxRedirects : a[i] \in Kitten <=> rs[i] \in Kitten
  BY <1>1, <1>2, ShopNothings
<1>6. Targets(a) = Targets(rs)
  BY <1>1, <1>5 DEF Targets
<1> QED
  BY <1>3, <1>4, <1>6, ShopNothings DEF a, Targets

LEMMA ArmedWaits ==
  ASSUME NEW rs \in [1 .. MaxRedirects -> RedirectState], NEW n \in Nat, n > 0,
         Targets(rs) = {}
  PROVE  \E i \in 1 .. MaxRedirects : Armed(rs, n)[i] = Untold
<1> DEFINE free == {i \in DOMAIN rs : rs[i] = Unused}
           first == {i \in free : Cardinality({j \in free : j <= i}) <= n}
<1>1. Armed(rs, n) = [i \in DOMAIN rs |-> IF i \in first THEN Untold ELSE rs[i]]
  BY DEF Armed
<1>2. CASE free = {}
  <2>1. rs[1] = Untold
    BY <1>2, RedirectsAre DEF RedirectState, Targets
  <2> QED
    BY <2>1, <1>1, RedirectsAre
<1>3. CASE free # {}
  <2>1. free \in SUBSET Nat
    BY RedirectsAre
  <2>2. PICK i \in free : \A j \in free : i <= j
    BY <2>1, <1>3, LeastOne
  <2>3. {j \in free : j <= i} = {i}
    BY <2>1, <2>2
  <2>4. Cardinality({i}) = 1
    BY FS_Singleton
  <2>5. i \in first
    <3> HIDE DEF free
    <3>1. Cardinality({j \in free : j <= i}) = 1
      BY <2>3, <2>4, Zenon
    <3>2. 1 <= n
      OBVIOUS
    <3> QED
      BY <3>1, <3>2
  <2>6. i \in 1 .. MaxRedirects
    BY <2>2
  <2> HIDE DEF first
  <2> QED
    BY <1>1, <2>5, <2>6
<1> QED
  BY <1>2, <1>3

-------------------------------------------------------------------------------
(* Types.                                                                  *)

LEMMA LettersAre ==
  /\ \A w \in Ware : ShopBuy(w) \in Letters
  /\ \A k \in Kitten : LevelUpTarget(k) \in Letters
  /\ LevelUpChoice \in Letters
  /\ \A m \in Letters : /\ m.type = "SHOPBUY" => m.ware \in Ware /\ m = ShopBuy(m.ware)
                        /\ m.type = "LEVELUPTARGET" => m.cat \in Kitten
BY DEF Letters, ShopBuy, LevelUpTarget, LevelUpChoice

LEMMA MailedIs ==
  ASSUME MirrorTypeOK, NEW p \in Shopper, NEW ms \in Seq(Letters), mail' = Mailed(p, ms)
  PROVE  /\ mail' \in [Shopper -> Seq(Letters)] /\ mail'[p] = mail[p]
         /\ \A q \in Shopper \ {p} : mail'[q] = mail[q] \o ms
<1>1. \A q \in Shopper : mail[q] \o ms \in Seq(Letters)
  BY SomeWritten DEF MirrorTypeOK
<1> QED
  BY <1>1 DEF Mailed, MirrorTypeOK

LEMMA MailRead ==
  ASSUME MirrorTypeOK, NEW p \in Shopper, mail[p] # <<>>, mail' = [mail EXCEPT ![p] = Tail(@)]
  PROVE  /\ mail' \in [Shopper -> Seq(Letters)] /\ mail'[p] = Tail(mail[p])
         /\ Head(mail[p]) \in Letters
         /\ \A q \in Shopper \ {p} : mail'[q] = mail[q]
<1>1. mail[p] \in Seq(Letters)
  BY DEF MirrorTypeOK
<1>2. Tail(mail[p]) \in Seq(Letters) /\ Head(mail[p]) \in Letters
  BY <1>1, OneRead
<1> QED
  BY <1>2 DEF MirrorTypeOK

LEMMA ScreensAre ==
  ASSUME MirrorTypeOK, NEW p \in Shopper, screen[p] # NoLevelUp
  PROVE  /\ screen[p] \in LevelUpScreen /\ Showing(p) = screen[p].ware
         /\ Showing(p) # NoLevelUp /\ screen[p].ware \in Candy /\ screen[p].cat \in Kitten
<1>1. screen[p] \in LevelUpScreen
  BY DEF MirrorTypeOK
<1>2. screen[p].ware \in Candy /\ screen[p].cat \in Kitten
  BY <1>1 DEF LevelUpScreen
<1> QED
  BY <1>1, <1>2, ShopNothings, ShopParameters DEF Showing

(* With a screen up every watch sees it.                                   *)
LEMMA WatchesSee ==
  ASSUME MirrorTypeOK, NEW p \in Shopper, screen[p] # NoLevelUp
  PROVE  /\ Among(watch[p], {Showing(p)}) = <<>>
         /\ Seeing(p) \in Seq({NoLevelUp})
         /\ Seeing(p) = <<>> => watch[p] = <<>>
         /\ watch[p] = <<>> => Seeing(p) = <<>>
<1>1. Showing(p) # NoLevelUp /\ watch[p] \in Seq({NoLevelUp})
  BY ScreensAre DEF MirrorTypeOK
<1>2. \A i \in DOMAIN watch[p] : watch[p][i] = NoLevelUp
  BY <1>1, LenProperties, ElementOfSeq
<1> DEFINE S == Range(watch[p]) \ {Showing(p)}
<1>3. S \subseteq {NoLevelUp} /\ \A i \in DOMAIN watch[p] : watch[p][i] \in S
  BY <1>1, <1>2 DEF Range
<1>4. Seeing(p) = Among(watch[p], S)
  BY DEF Seeing
<1> HIDE DEF S
<1>5. Among(watch[p], S) \in Seq(S \cap {NoLevelUp})
  BY <1>1, AmongIs
<1>6. (\E i \in DOMAIN watch[p] : watch[p][i] \in S) => Among(watch[p], S) # <<>>
  BY <1>1, AmongIs
<1>7. Among(watch[p], {Showing(p)}) = <<>>
  <2>1. \A i \in DOMAIN watch[p] : watch[p][i] \notin {Showing(p)}
    BY <1>1, <1>2
  <2> QED
    BY <2>1, <1>1, AmongIs
<1>8. Seeing(p) \in Seq({NoLevelUp})
  <2>1. Seq(S \cap {NoLevelUp}) \subseteq Seq({NoLevelUp})
    OBVIOUS
  <2> QED
    BY <2>1, <1>4, <1>5
<1>9. watch[p] # <<>> => DOMAIN watch[p] # {}
  BY <1>1, FirstOne
<1>10. watch[p] = <<>> => Seeing(p) = <<>>
  BY <1>4, AmongNone
<1> QED
  BY <1>3, <1>4, <1>6, <1>7, <1>8, <1>9, <1>10

(* What a frame tick announces.                                            *)
Told(p) == [i \in DOMAIN Seeing(p) |-> LevelUpTarget(screen[p].cat)]

LEMMA ToldIs ==
  ASSUME MirrorTypeOK, NEW p \in Shopper, screen[p] # NoLevelUp
  PROVE  /\ Told(p) \in Seq(Letters)
         /\ \A w \in Ware : Purchases(Told(p), w) = {}
         /\ watch[p] # <<>> => Tells(Told(p)) # {}
         /\ watch[p] = <<>> => Told(p) = <<>>
         /\ \A w : InOrder(Told(p), w, screen[p].cat)
<1>1. Seeing(p) \in Seq({NoLevelUp})
  BY WatchesSee
<1>2. PICK n \in Nat : DOMAIN Seeing(p) = 1 .. n /\ n = Len(Seeing(p))
  BY <1>1, LenProperties
<1>3. LevelUpTarget(screen[p].cat) \in Letters
  BY ScreensAre, LettersAre
<1>4. Told(p) = [i \in 1 .. n |-> LevelUpTarget(screen[p].cat)]
  BY <1>2 DEF Told
<1>5. Told(p) \in Seq(Letters)
  BY <1>3, <1>4
<1>6. DOMAIN Told(p) = 1 .. n /\ \A i \in 1 .. n : Told(p)[i] = LevelUpTarget(screen[p].cat)
  BY <1>4
<1>7. \A w : Purchases(Told(p), w) = {}
  BY <1>6 DEF Purchases, ShopBuy, LevelUpTarget
<1>8. watch[p] # <<>> => Tells(Told(p)) # {}
  <2> SUFFICES ASSUME watch[p] # <<>> PROVE Tells(Told(p)) # {}
    OBVIOUS
  <2>1. Seeing(p) # <<>>
    BY WatchesSee
  <2>2. n # 0
    BY <2>1, <1>1, <1>2, EmptySeq
  <2>3. 1 \in 1 .. n
    BY <2>2
  <2> QED
    BY <2>3, <1>6 DEF Tells, LevelUpTarget
<1>9. watch[p] = <<>> => Told(p) = <<>>
  <2> SUFFICES ASSUME watch[p] = <<>> PROVE Told(p) = <<>>
    OBVIOUS
  <2>1. n = 0
    BY WatchesSee, <1>2, EmptySeq
  <2>2. Len(Told(p)) = 0
    BY <2>1, <1>5, <1>6, LenProperties
  <2> QED
    BY <2>2, <1>5, EmptySeq
<1>10. \A w : InOrder(Told(p), w, screen[p].cat)
  BY <1>6, <1>7 DEF InOrder, Tells, LevelUpTarget
<1> QED
  BY <1>5, <1>7, <1>8, <1>9, <1>10

(* The clicks of the purchases in ws, in one copy.                         *)
LEMMA FiresIs ==
  ASSUME MirrorTypeOK, NEW p \in Shopper, NEW ws \in Seq(Ware), Fires(p, ws)
  PROVE  /\ shelf' \in [Shopper -> SUBSET Ware] /\ shelf'[p] = shelf[p] \ Range(ws)
         /\ opening' \in [Shopper -> Seq(Candy)] /\ Among(ws, Candy) \in Seq(Candy)
         /\ opening'[p] = opening[p] \o Among(ws, Candy)
         /\ \A i \in DOMAIN opening'[p] :
              \/ \E j \in DOMAIN opening[p] : opening'[p][i] = opening[p][j]
              \/ opening'[p][i] \in Range(ws)
         /\ redirect' \in [Shopper -> [1 .. MaxRedirects -> RedirectState]]
         /\ redirect'[p] = Armed(redirect[p], Len(ws))
         /\ \A q \in Shopper \ {p} : /\ shelf'[q] = shelf[q] /\ opening'[q] = opening[q]
                                     /\ redirect'[q] = redirect[q]
<1> DEFINE a == Among(ws, Candy)
<1>1. a \in Seq(Candy \cap Ware) /\ ws \in Seq(Range(ws))
  <2>1. ws \in Seq(Range(ws))
    <3>1. DOMAIN ws = 1 .. Len(ws) /\ Len(ws) \in Nat
      BY LenProperties
    <3>2. ws = [i \in DOMAIN ws |-> ws[i]]
      OBVIOUS
    <3> QED
      BY <3>1, <3>2 DEF Range
  <2> QED
    BY <2>1, AmongIs
<1>2. a \in Seq(Candy \cap Range(ws))
  BY <1>1, AmongIs
<1>3. a \in Seq(Candy) /\ a \in Seq(Range(ws))
  <2>1. Seq(Candy \cap Range(ws)) \subseteq Seq(Candy)
    OBVIOUS
  <2>2. Seq(Candy \cap Range(ws)) \subseteq Seq(Range(ws))
    OBVIOUS
  <2> QED
    BY <2>1, <2>2, <1>2
<1> HIDE DEF a
<1>4. opening[p] \in Seq(Candy) /\ redirect[p] \in [1 .. MaxRedirects -> RedirectState]
  BY DEF MirrorTypeOK
<1>5. opening[p] \o a \in Seq(Candy)
  BY <1>3, <1>4, ConcatProperties
<1>6. Armed(redirect[p], Len(ws)) \in [1 .. MaxRedirects -> RedirectState]
  BY <1>4, ArmedIs
<1>7. \A i \in DOMAIN (opening[p] \o a) :
        \/ \E j \in DOMAIN opening[p] : (opening[p] \o a)[i] = opening[p][j]
        \/ (opening[p] \o a)[i] \in Range(ws)
  <2> DEFINE s == opening[p]
             m == Len(s)
             n == Len(a)
             u == s \o a
  <2>1. m \in Nat /\ n \in Nat /\ DOMAIN s = 1 .. m /\ DOMAIN a = 1 .. n
    BY <1>3, <1>4, LenProperties
  <2>2. Len(u) = m + n /\ \A i \in 1 .. (m + n) : u[i] = IF i <= m THEN s[i] ELSE a[i - m]
    BY <1>3, <1>4, ConcatProperties
  <2>3. DOMAIN u = 1 .. (m + n)
    BY <2>2, <1>5, LenProperties
  <2>4. \A i \in DOMAIN a : a[i] \in Range(ws)
    BY <1>3, <2>1, ElementOfSeq
  <2> HIDE DEF s, m, n, u
  <2>5. ASSUME NEW i \in DOMAIN u PROVE (\E j \in DOMAIN s : u[i] = s[j]) \/ u[i] \in Range(ws)
    <3>1. CASE i <= m
      <4>1. i \in DOMAIN s /\ u[i] = s[i]
        BY <3>1, <2>1, <2>2, <2>3
      <4> QED
        BY <4>1
    <3>2. CASE ~ (i <= m)
      <4>1. i - m \in DOMAIN a /\ u[i] = a[i - m]
        BY <3>2, <2>1, <2>2, <2>3
      <4> QED
        BY <4>1, <2>4
    <3> QED
      BY <3>1, <3>2
  <2> QED
    BY <2>5 DEF s, u
<1>8. /\ shelf \in [Shopper -> SUBSET Ware] /\ opening \in [Shopper -> Seq(Candy)]
      /\ redirect \in [Shopper -> [1 .. MaxRedirects -> RedirectState]]
  BY DEF MirrorTypeOK
<1>9. /\ shelf' = [shelf EXCEPT ![p] = @ \ Range(ws)] /\ opening' = [opening EXCEPT ![p] = @ \o a]
      /\ redirect' = [redirect EXCEPT ![p] = Armed(@, Len(ws))]
  BY DEF Fires, a
<1>10. shelf' \in [Shopper -> SUBSET Ware] /\ shelf'[p] = shelf[p] \ Range(ws)
  BY <1>8, <1>9
<1>11. opening' \in [Shopper -> Seq(Candy)] /\ opening'[p] = opening[p] \o a
  BY <1>5, <1>8, <1>9
<1>12. /\ redirect' \in [Shopper -> [1 .. MaxRedirects -> RedirectState]]
       /\ redirect'[p] = Armed(redirect[p], Len(ws))
  BY <1>6, <1>8, <1>9
<1>13. \A q \in Shopper \ {p} : /\ shelf'[q] = shelf[q] /\ opening'[q] = opening[q]
                                /\ redirect'[q] = redirect[q]
  BY <1>8, <1>9
<1> QED
  BY <1>3, <1>7, <1>10, <1>11, <1>12, <1>13 DEF a

LEMMA MirrorInit == ShopInit => MirrorTypeOK /\ Sold
<1> SUFFICES ASSUME ShopInit PROVE MirrorTypeOK /\ Sold
  OBVIOUS
<1>1. NoRedirects \in [1 .. MaxRedirects -> RedirectState]
  BY DEF NoRedirects, RedirectState
<1>2. \A T : <<>> \in Seq(T)
  BY EmptySeq
<1>3. MirrorTypeOK
  BY <1>1, <1>2 DEF ShopInit, MirrorTypeOK
<1>4. DOMAIN <<>> = {}
  OBVIOUS
<1> QED
  BY <1>3, <1>4 DEF ShopInit, Sold

(* What of a copy must stay as it is, or a copy's screen, opened candies   *)
(* and gifts be off its shelf.                                             *)
SoldAt(q) ==
  /\ \A w \in Candy : given[q][w] # Nobody => w \notin shelf[q]
  /\ screen[q] # NoLevelUp => screen[q].ware \notin shelf[q]
  /\ \A i \in DOMAIN opening[q] : opening[q][i] \notin shelf[q]

LEMMA SoldIs == Sold <=> \A q \in Shopper : SoldAt(q)
BY DEF Sold, SoldAt

LEMMA SoldElsewhere ==
  ASSUME Sold, NEW p,
         \A q \in Shopper \ {p} : /\ shelf'[q] = shelf[q] /\ opening'[q] = opening[q]
                                  /\ screen'[q] = screen[q] /\ given'[q] = given[q],
         p \in Shopper => SoldAt(p)'
  PROVE  Sold'
BY DEF Sold, SoldAt

LEMMA TypedBuy ==
  ASSUME MirrorTypeOK, Sold, NEW p \in Shopper, NEW w \in Ware, Buy(p, w)
  PROVE  MirrorTypeOK' /\ Sold'
<1>1. <<ShopBuy(w)>> \in Seq(Letters)
  BY LettersAre
<1>2. mail' \in [Shopper -> Seq(Letters)]
  BY <1>1, MailedIs DEF Buy
<1>3. /\ opening[p] \in Seq(Candy) /\ watch[p] \in Seq({NoLevelUp}) /\ Showing(p) = NoLevelUp
      /\ Len(opening[p]) \in Nat /\ DOMAIN opening[p] = 1 .. Len(opening[p])
  BY LenProperties DEF MirrorTypeOK, Buy, Showing
<1>4. Append(watch[p], Showing(p)) \in Seq({NoLevelUp})
  BY <1>3, AppendProperties
<1>5. CASE w \in Candy
  <2>1. /\ Append(opening[p], w) \in Seq(Candy) /\ Len(Append(opening[p], w)) = Len(opening[p]) + 1
        /\ \A i \in 1 .. Len(opening[p]) : Append(opening[p], w)[i] = opening[p][i]
    BY <1>3, <1>5, AppendProperties
  <2>2. /\ DOMAIN Append(opening[p], w) = 1 .. (Len(opening[p]) + 1)
        /\ Append(opening[p], w)[Len(opening[p]) + 1] = w
    BY <1>3, <1>5, <2>1, LenProperties, AppendProperties
  <2>3. opening' = [opening EXCEPT ![p] = Append(opening[p], w)]
    BY <1>5 DEF Buy
  <2>4. opening' \in [Shopper -> Seq(Candy)] /\ opening'[p] = Append(opening[p], w)
    BY <2>1, <2>3 DEF MirrorTypeOK
  <2>5. MirrorTypeOK'
    BY <1>2, <1>4, <2>4 DEF MirrorTypeOK, Buy
  <2>6. \A i \in DOMAIN opening'[p] : opening'[p][i] \notin shelf'[p]
    <3>1. shelf'[p] = shelf[p] \ {w}
      BY DEF MirrorTypeOK, Buy
    <3>2. \A i \in 1 .. (Len(opening[p]) + 1) : i \in 1 .. Len(opening[p]) \/ i = Len(opening[p]) + 1
      BY <1>3
    <3> QED
      BY <3>1, <3>2, <1>3, <2>1, <2>2, <2>4 DEF Sold
  <2>7. SoldAt(p)'
    BY <2>6 DEF SoldAt, Sold, Buy, MirrorTypeOK
  <2> QED
    BY <2>3, <2>5, <2>7, SoldElsewhere DEF Buy, MirrorTypeOK
<1>6. CASE w \notin Candy
  <2>1. MirrorTypeOK'
    BY <1>2, <1>4, <1>6 DEF MirrorTypeOK, Buy
  <2>2. SoldAt(p)'
    BY <1>6 DEF SoldAt, Sold, Buy, MirrorTypeOK
  <2> QED
    BY <1>6, <2>1, <2>2, SoldElsewhere DEF Buy, MirrorTypeOK
<1> QED
  BY <1>5, <1>6

LEMMA SoldFires ==
  ASSUME MirrorTypeOK, Sold, NEW p \in Shopper, NEW ws \in Seq(Ware), Fires(p, ws),
         UNCHANGED <<screen, given>>
  PROVE  Sold'
<1>1. /\ shelf'[p] = shelf[p] \ Range(ws)
      /\ \A i \in DOMAIN opening'[p] :
           \/ \E j \in DOMAIN opening[p] : opening'[p][i] = opening[p][j]
           \/ opening'[p][i] \in Range(ws)
      /\ \A q \in Shopper \ {p} : shelf'[q] = shelf[q] /\ opening'[q] = opening[q]
  BY FiresIs
<1>2. SoldAt(p)'
  <2>1. \A i \in DOMAIN opening'[p] : opening'[p][i] \notin shelf'[p]
    BY <1>1 DEF Sold
  <2> QED
    BY <1>1, <2>1 DEF SoldAt, Sold
<1> QED
  BY <1>1, <1>2, SoldElsewhere

LEMMA TypedBrowse ==
  ASSUME MirrorTypeOK, Sold, NEW p \in Shopper, Browse(p)
  PROVE  MirrorTypeOK' /\ Sold'
<1>1. queued[p] \in Seq(Ware) /\ Fires(p, queued[p]) /\ <<>> \in Seq(Ware)
  BY EmptySeq DEF MirrorTypeOK, Browse
<1>2. /\ shelf' \in [Shopper -> SUBSET Ware] /\ opening' \in [Shopper -> Seq(Candy)]
      /\ redirect' \in [Shopper -> [1 .. MaxRedirects -> RedirectState]]
  BY <1>1, FiresIs
<1> QED
  BY <1>1, <1>2, SoldFires DEF MirrorTypeOK, Browse

LEMMA TypedOnShopBuy ==
  ASSUME MirrorTypeOK, Sold, NEW p \in Shopper, OnShopBuy(p)
  PROVE  MirrorTypeOK' /\ Sold'
<1> DEFINE w == Head(mail[p]).ware
<1>1. mail' \in [Shopper -> Seq(Letters)] /\ w \in Ware
  BY MailRead, LettersAre DEF OnShopBuy
<1> HIDE DEF w
<1>2. CASE Tracked(p)
  <2>1. Fires(p, <<w>>) /\ UNCHANGED <<queued, spoilt>>
    BY <1>2 DEF OnShopBuy, w
  <2>2. <<w>> \in Seq(Ware)
    BY <1>1
  <2>3. /\ shelf' \in [Shopper -> SUBSET Ware] /\ opening' \in [Shopper -> Seq(Candy)]
        /\ redirect' \in [Shopper -> [1 .. MaxRedirects -> RedirectState]]
    BY <2>1, <2>2, FiresIs
  <2>4. UNCHANGED <<browsing, screen, watch, told, given>>
    BY DEF OnShopBuy
  <2>5. MirrorTypeOK'
    BY <1>1, <2>1, <2>3, <2>4 DEF MirrorTypeOK
  <2> QED
    BY <2>1, <2>2, <2>4, <2>5, SoldFires
<1>3. CASE ~Tracked(p)
  <2>1. /\ UNCHANGED <<shelf, opening, redirect, browsing, screen, watch, told, given>>
        /\ \/ queued' = [queued EXCEPT ![p] = Append(@, w)] /\ UNCHANGED spoilt
           \/ spoilt' = TRUE /\ UNCHANGED queued
    BY <1>3 DEF OnShopBuy, w
  <2>2. Append(queued[p], w) \in Seq(Ware)
    BY <1>1, AppendProperties DEF MirrorTypeOK
  <2>3. MirrorTypeOK'
    BY <1>1, <2>1, <2>2 DEF MirrorTypeOK
  <2> QED
    BY <2>1, <2>3 DEF Sold
<1> QED
  BY <1>2, <1>3

LEMMA TypedOpenScreen ==
  ASSUME MirrorTypeOK, Sold, NEW p \in Shopper, OpenScreen(p)
  PROVE  MirrorTypeOK' /\ Sold'
<1>1. opening[p] \in Seq(Candy) /\ opening[p] # <<>> /\ redirect[p] \in [1 .. MaxRedirects -> RedirectState]
  BY DEF MirrorTypeOK, OpenScreen
<1>2. /\ Tail(opening[p]) \in Seq(Candy) /\ Head(opening[p]) \in Candy
      /\ 1 \in DOMAIN opening[p] /\ Head(opening[p]) = opening[p][1]
  BY <1>1, HeadTailProperties, FirstOne
<1>3. PICK rolled \in Kitten :
        screen' = [screen EXCEPT ![p] =
          [ware |-> Head(opening[p]),
           cat |-> IF Targets(redirect[p]) = {} THEN rolled ELSE KnownTarget(redirect[p]),
           committed |-> FALSE]]
  BY DEF OpenScreen
<1>4. Targets(redirect[p]) # {} => KnownTarget(redirect[p]) \in Kitten
  BY <1>1, TargetFound DEF Targets
<1>5. screen' \in [Shopper -> LevelUpScreen \cup {NoLevelUp}] /\ screen'[p].ware = Head(opening[p])
  BY <1>2, <1>3, <1>4 DEF MirrorTypeOK, LevelUpScreen
<1>6. MirrorTypeOK'
  BY <1>2, <1>5 DEF MirrorTypeOK, OpenScreen
<1>7. \A i \in DOMAIN Tail(opening[p]) : i + 1 \in DOMAIN opening[p] /\ Tail(opening[p])[i] = opening[p][i + 1]
  <2> DEFINE s == opening[p]
             t == Tail(s)
             n == Len(s)
  <2>1. n \in Nat /\ DOMAIN s = 1 .. n /\ t \in Seq(Candy) /\ Len(t) = n - 1
        /\ \A i \in 1 .. (n - 1) : t[i] = s[i + 1]
    BY <1>1, LenProperties, HeadTailProperties
  <2>2. DOMAIN t = 1 .. (n - 1)
    BY <2>1, LenProperties
  <2> HIDE DEF s, t, n
  <2>3. \A i \in DOMAIN t : i + 1 \in DOMAIN s /\ t[i] = s[i + 1]
    BY <2>1, <2>2
  <2> QED
    BY <2>3 DEF s, t
<1>8. SoldAt(p)'
  BY <1>2, <1>5, <1>7 DEF SoldAt, Sold, OpenScreen, MirrorTypeOK
<1> QED
  BY <1>3, <1>6, <1>8, SoldElsewhere DEF OpenScreen, MirrorTypeOK

LEMMA FrameTickIs ==
  ASSUME MirrorTypeOK, NEW p \in Shopper, FrameTick(p)
  PROVE  /\ screen[p] # NoLevelUp /\ mail' = Mailed(p, Told(p))
         /\ watch' = [watch EXCEPT ![p] = <<>>]
         /\ screen' = [screen EXCEPT ![p].cat = Redirected(redirect[p], screen[p].cat)]
         /\ redirect' = [redirect EXCEPT ![p] =
              [i \in 1 .. MaxRedirects |-> IF @[i] \in Kitten THEN Unused ELSE @[i]]]
         /\ Redirected(redirect[p], screen[p].cat) \in Kitten
         /\ UNCHANGED <<browsing, shelf, opening, queued, told, given, spoilt>>
<1>1. screen[p] # NoLevelUp
  BY DEF FrameTick
<1>2. Among(watch[p], {Showing(p)}) = <<>> /\ screen[p].cat \in Kitten
  BY <1>1, WatchesSee, ScreensAre
<1>3. redirect[p] \in [1 .. MaxRedirects -> RedirectState]
  BY DEF MirrorTypeOK
<1>4. Redirected(redirect[p], screen[p].cat) \in Kitten
  <2>1. CASE Targets(redirect[p]) = {}
    BY <1>2, <2>1 DEF Redirected
  <2>2. CASE Targets(redirect[p]) # {}
    BY <1>3, <2>2, TargetFound DEF Targets
  <2> QED
    BY <2>1, <2>2
<1>5. watch' = [watch EXCEPT ![p] = <<>>]
  BY <1>2 DEF FrameTick
<1>6. redirect' = [redirect EXCEPT ![p] =
              [i \in 1 .. MaxRedirects |-> IF @[i] \in Kitten THEN Unused ELSE @[i]]]
  BY <1>3 DEF FrameTick
<1> QED
  BY <1>1, <1>4, <1>5, <1>6 DEF FrameTick, Told

LEMMA TypedFrameTick ==
  ASSUME MirrorTypeOK, Sold, NEW p \in Shopper, FrameTick(p)
  PROVE  MirrorTypeOK' /\ Sold'
<1>1. /\ screen[p] # NoLevelUp /\ mail' = Mailed(p, Told(p))
      /\ watch' = [watch EXCEPT ![p] = <<>>]
      /\ screen' = [screen EXCEPT ![p].cat = Redirected(redirect[p], screen[p].cat)]
      /\ redirect' = [redirect EXCEPT ![p] =
              [i \in 1 .. MaxRedirects |-> IF @[i] \in Kitten THEN Unused ELSE @[i]]]
      /\ Redirected(redirect[p], screen[p].cat) \in Kitten
      /\ UNCHANGED <<browsing, shelf, opening, queued, told, given, spoilt>>
  BY FrameTickIs
<1>2. mail' \in [Shopper -> Seq(Letters)]
  BY <1>1, ToldIs, MailedIs
<1>3. /\ screen' \in [Shopper -> LevelUpScreen \cup {NoLevelUp}]
      /\ screen'[p].ware = screen[p].ware
  <2>1. screen[p] \in LevelUpScreen
    BY <1>1, ScreensAre
  <2>2. /\ [screen[p] EXCEPT !.cat = Redirected(redirect[p], screen[p].cat)] \in LevelUpScreen
        /\ [screen[p] EXCEPT !.cat = Redirected(redirect[p], screen[p].cat)].ware = screen[p].ware
    BY <1>1, <2>1 DEF LevelUpScreen
  <2> QED
    BY <1>1, <2>2 DEF MirrorTypeOK
<1>4. redirect' \in [Shopper -> [1 .. MaxRedirects -> RedirectState]]
  BY <1>1 DEF MirrorTypeOK, RedirectState
<1>5. watch' \in [Shopper -> Seq({NoLevelUp})]
  BY <1>1, EmptySeq DEF MirrorTypeOK
<1>6. MirrorTypeOK'
  BY <1>1, <1>2, <1>3, <1>4, <1>5 DEF MirrorTypeOK
<1>7. SoldAt(p)'
  BY <1>1, <1>3 DEF Sold, SoldAt
<1> QED
  BY <1>1, <1>6, <1>7, SoldElsewhere DEF MirrorTypeOK

(* An announcement goes to a click that waits, or to one to come.          *)
LEMMA TargetHeard ==
  ASSUME MirrorTypeOK, NEW p \in Shopper, OnLevelUpTarget(p)
  PROVE  /\ redirect' \in [Shopper -> [1 .. MaxRedirects -> RedirectState]]
         /\ Targets(redirect'[p]) # {}
         /\ \A i \in 1 .. MaxRedirects :
              redirect'[p][i] = redirect[p][i] \/ redirect'[p][i] = Head(mail[p]).cat
         /\ \A q \in Shopper \ {p} : redirect'[q] = redirect[q]
<1> DEFINE rs == redirect[p]
           waiting == {i \in DOMAIN rs : rs[i] = Untold}
           free == {i \in DOMAIN rs : rs[i] = Unused}
           i == IF waiting # {} THEN Min(waiting) ELSE Min(free)
           k == Head(mail[p]).cat
<1>1. redirect \in [Shopper -> [1 .. MaxRedirects -> RedirectState]] /\ k \in Kitten
  BY MailRead, LettersAre DEF MirrorTypeOK, OnLevelUpTarget
<1>2. rs \in [1 .. MaxRedirects -> RedirectState]
  BY <1>1
<1>3. redirect' = IF waiting \cup free = {} THEN redirect ELSE [redirect EXCEPT ![p][i] = k]
  BY DEF OnLevelUpTarget
<1>4. waiting \cup free # {} => i \in 1 .. MaxRedirects
  <2>1. waiting \in SUBSET Nat /\ free \in SUBSET Nat
    BY <1>2, RedirectsAre
  <2>2. /\ waiting # {} => Min(waiting) \in waiting
        /\ free # {} => Min(free) \in free
    <3> HIDE DEF waiting, free
    <3> QED
      BY <2>1, MinIs
  <2> QED
    BY <2>2, <1>2
<1>5. waiting \cup free = {} => Targets(rs) # {}
  BY <1>2, RedirectsAre DEF RedirectState, Targets
<1> HIDE DEF waiting, free, i, k
<1>6. CASE waiting \cup free = {}
  BY <1>1, <1>3, <1>5, <1>6
<1>7. CASE waiting \cup free # {}
  <2>1. redirect' = [redirect EXCEPT ![p] = [rs EXCEPT ![i] = k]] /\ i \in 1 .. MaxRedirects
    BY <1>3, <1>4, <1>7
  <2>2. /\ [rs EXCEPT ![i] = k] \in [1 .. MaxRedirects -> RedirectState]
        /\ [rs EXCEPT ![i] = k][i] = k
        /\ \A j \in 1 .. MaxRedirects : [rs EXCEPT ![i] = k][j] = rs[j] \/ [rs EXCEPT ![i] = k][j] = k
    BY <1>1, <1>2, <2>1 DEF RedirectState
  <2>3. i \in Targets([rs EXCEPT ![i] = k])
    BY <1>1, <1>2, <2>1, <2>2 DEF Targets
  <2>4. /\ redirect' \in [Shopper -> [1 .. MaxRedirects -> RedirectState]]
        /\ redirect'[p] = [rs EXCEPT ![i] = k]
        /\ \A q \in Shopper \ {p} : redirect'[q] = redirect[q]
    BY <1>1, <2>1, <2>2
  <2> HIDE DEF rs
  <2> QED
    BY <2>2, <2>3, <2>4 DEF k, rs
<1> QED
  BY <1>6, <1>7

LEMMA TypedOnTarget ==
  ASSUME MirrorTypeOK, Sold, NEW p \in Shopper, OnLevelUpTarget(p)
  PROVE  MirrorTypeOK' /\ Sold'
<1>1. mail' \in [Shopper -> Seq(Letters)]
  BY MailRead DEF OnLevelUpTarget
<1>2. redirect' \in [Shopper -> [1 .. MaxRedirects -> RedirectState]]
  BY TargetHeard
<1>3. UNCHANGED <<browsing, shelf, opening, screen, queued, watch, told, given, spoilt>>
  BY DEF OnLevelUpTarget
<1>4. MirrorTypeOK'
  BY <1>1, <1>2, <1>3 DEF MirrorTypeOK
<1> QED
  BY <1>3, <1>4 DEF Sold

LEMMA TypedOnChoice ==
  ASSUME MirrorTypeOK, Sold, NEW p \in Shopper, OnLevelUpChoice(p)
  PROVE  MirrorTypeOK' /\ Sold'
<1>1. mail' \in [Shopper -> Seq(Letters)]
  BY MailRead DEF OnLevelUpChoice
<1>2. MirrorTypeOK'
  BY <1>1 DEF MirrorTypeOK, OnLevelUpChoice
<1> QED
  BY <1>2 DEF Sold, OnLevelUpChoice

(* A screen that is decided gives its level.                               *)
LEMMA Committed ==
  ASSUME MirrorTypeOK, NEW p \in Shopper, screen[p] # NoLevelUp, Commits(p)
  PROVE  /\ screen' \in [Shopper -> LevelUpScreen \cup {NoLevelUp}]
         /\ screen'[p] # NoLevelUp /\ screen'[p].ware = screen[p].ware
         /\ screen'[p].cat = screen[p].cat /\ screen'[p].committed
         /\ given' \in [Shopper -> [Candy -> Kitten \cup {Nobody}]]
         /\ given'[p][screen[p].ware] = screen[p].cat
         /\ \A w \in Candy : w # screen[p].ware => given'[p][w] = given[p][w]
         /\ \A q \in Shopper \ {p} : screen'[q] = screen[q] /\ given'[q] = given[q]
<1>1. screen[p] \in LevelUpScreen /\ screen[p].ware \in Candy /\ screen[p].cat \in Kitten
  BY ScreensAre
<1>2. /\ [screen[p] EXCEPT !.committed = TRUE] \in LevelUpScreen
      /\ [screen[p] EXCEPT !.committed = TRUE].ware = screen[p].ware
      /\ [screen[p] EXCEPT !.committed = TRUE].cat = screen[p].cat
      /\ [screen[p] EXCEPT !.committed = TRUE].committed
  BY <1>1 DEF LevelUpScreen
<1>3. /\ screen' = [screen EXCEPT ![p] = [screen[p] EXCEPT !.committed = TRUE]]
      /\ given' = [given EXCEPT ![p] = [given[p] EXCEPT ![screen[p].ware] = screen[p].cat]]
  BY DEF Commits
<1>4. /\ screen \in [Shopper -> LevelUpScreen \cup {NoLevelUp}]
      /\ given \in [Shopper -> [Candy -> Kitten \cup {Nobody}]]
  BY DEF MirrorTypeOK
<1>5. /\ screen' \in [Shopper -> LevelUpScreen \cup {NoLevelUp}]
      /\ screen'[p] = [screen[p] EXCEPT !.committed = TRUE]
      /\ \A q \in Shopper \ {p} : screen'[q] = screen[q]
  BY <1>2, <1>3, <1>4
<1>6. screen'[p] # NoLevelUp
  BY <1>2, <1>5, ShopNothings
<1>7. /\ given' \in [Shopper -> [Candy -> Kitten \cup {Nobody}]]
      /\ given'[p][screen[p].ware] = screen[p].cat
      /\ \A w \in Candy : w # screen[p].ware => given'[p][w] = given[p][w]
      /\ \A q \in Shopper \ {p} : given'[q] = given[q]
  BY <1>1, <1>3, <1>4
<1> QED
  BY <1>2, <1>5, <1>6, <1>7

LEMMA SoldCommits ==
  ASSUME MirrorTypeOK, Sold, NEW p \in Shopper, screen[p] # NoLevelUp, Commits(p),
         UNCHANGED <<shelf, opening>>
  PROVE  Sold'
<1>1. /\ screen'[p].ware = screen[p].ware
      /\ \A w \in Candy : w # screen[p].ware => given'[p][w] = given[p][w]
      /\ \A q \in Shopper \ {p} : screen'[q] = screen[q] /\ given'[q] = given[q]
  BY Committed
<1>2. SoldAt(p)'
  BY <1>1 DEF SoldAt, Sold
<1> QED
  BY <1>1, <1>2, SoldElsewhere

LEMMA TypedSelect ==
  ASSUME MirrorTypeOK, Sold, NEW p \in Shopper, LevelSelect(p)
  PROVE  MirrorTypeOK' /\ Sold'
<1>1. screen[p] # NoLevelUp /\ Commits(p) /\ <<LevelUpChoice>> \in Seq(Letters)
  BY LettersAre DEF LevelSelect, Undecided
<1>2. mail' \in [Shopper -> Seq(Letters)]
  BY <1>1, MailedIs DEF LevelSelect
<1>3. /\ screen' \in [Shopper -> LevelUpScreen \cup {NoLevelUp}]
      /\ given' \in [Shopper -> [Candy -> Kitten \cup {Nobody}]]
  BY <1>1, Committed
<1>4. UNCHANGED <<browsing, shelf, opening, queued, watch, redirect, told, spoilt>>
  BY DEF LevelSelect
<1>5. MirrorTypeOK'
  BY <1>2, <1>3, <1>4 DEF MirrorTypeOK
<1> QED
  BY <1>1, <1>4, <1>5, SoldCommits

LEMMA TypedUpdate ==
  ASSUME MirrorTypeOK, Sold, NEW p \in Shopper, LevelUpdate(p)
  PROVE  MirrorTypeOK' /\ Sold'
<1>1. /\ UNCHANGED <<browsing, shelf, opening, queued, watch, redirect, mail, spoilt>>
      /\ told' = [told EXCEPT ![p] = FALSE] /\ screen[p] # NoLevelUp
  BY DEF LevelUpdate
<1>2. CASE screen[p].committed
  <2>1. UNCHANGED <<screen, given>>
    BY <1>2 DEF LevelUpdate
  <2>2. MirrorTypeOK'
    BY <1>1, <2>1 DEF MirrorTypeOK
  <2> QED
    BY <1>1, <2>1, <2>2 DEF Sold
<1>3. CASE ~screen[p].committed
  <2>1. Commits(p)
    BY <1>3 DEF LevelUpdate
  <2>2. /\ screen' \in [Shopper -> LevelUpScreen \cup {NoLevelUp}]
        /\ given' \in [Shopper -> [Candy -> Kitten \cup {Nobody}]]
    BY <1>1, <2>1, Committed
  <2>3. MirrorTypeOK'
    BY <1>1, <2>2 DEF MirrorTypeOK
  <2> QED
    BY <1>1, <2>1, <2>3, SoldCommits
<1> QED
  BY <1>2, <1>3

LEMMA TypedTimers ==
  ASSUME MirrorTypeOK, Sold, NEW p \in Shopper,
         ScreenGone(p) \/ GivesUp(p) \/ WatchExpires(p)
           \/ \E i \in 1 .. MaxRedirects : RedirectExpires(p, i)
  PROVE  MirrorTypeOK' /\ Sold'
<1>1. /\ queued[p] \in Seq(Ware) /\ watch[p] \in Seq({NoLevelUp})
      /\ queued[p] # <<>> => Tail(queued[p]) \in Seq(Ware)
      /\ watch[p] # <<>> => Tail(watch[p]) \in Seq({NoLevelUp})
  BY HeadTailProperties DEF MirrorTypeOK
<1>2. CASE ScreenGone(p)
  <2>1. MirrorTypeOK'
    BY <1>2 DEF ScreenGone, MirrorTypeOK
  <2> QED
    BY <1>2, <2>1 DEF ScreenGone, Sold, MirrorTypeOK
<1>3. CASE GivesUp(p)
  <2>1. MirrorTypeOK'
    BY <1>1, <1>3 DEF GivesUp, MirrorTypeOK
  <2> QED
    BY <1>3, <2>1 DEF GivesUp, Sold
<1>4. CASE WatchExpires(p)
  <2>1. MirrorTypeOK'
    BY <1>1, <1>4 DEF WatchExpires, MirrorTypeOK
  <2> QED
    BY <1>4, <2>1 DEF WatchExpires, Sold
<1>5. CASE \E i \in 1 .. MaxRedirects : RedirectExpires(p, i)
  <2>1. PICK i \in 1 .. MaxRedirects : RedirectExpires(p, i)
    BY <1>5
  <2>2. MirrorTypeOK'
    BY <2>1 DEF RedirectExpires, MirrorTypeOK, RedirectState
  <2> QED
    BY <2>1, <2>2 DEF RedirectExpires, Sold
<1> QED
  BY <1>2, <1>3, <1>4, <1>5

LEMMA MirrorTyped ==
  ASSUME MirrorTypeOK, Sold, [ShopNext]_shopVars
  PROVE  MirrorTypeOK' /\ Sold'
<1>1. CASE UNCHANGED shopVars
  <2>1. MirrorTypeOK'
    BY <1>1 DEF shopVars, MirrorTypeOK
  <2> QED
    BY <1>1, <2>1 DEF shopVars, Sold
<1>2. CASE ShopNext
  <2>1. PICK p \in Shopper :
          OwnShopStep(p) \/ ReadMail(p) \/ TimerRunsOut(p) \/ \E w \in Ware : Buy(p, w)
    BY <1>2 DEF ShopNext
  <2>2. CASE OwnShopStep(p)
    BY <2>2, TypedBrowse, TypedOpenScreen, TypedFrameTick, TypedSelect, TypedUpdate, TypedTimers
       DEF OwnShopStep
  <2>3. CASE ReadMail(p)
    BY <2>3, TypedOnShopBuy, TypedOnTarget, TypedOnChoice DEF ReadMail
  <2>4. CASE TimerRunsOut(p)
    BY <2>4, TypedTimers DEF TimerRunsOut
  <2>5. CASE \E w \in Ware : Buy(p, w)
    BY <2>5, TypedBuy
  <2> QED
    BY <2>1, <2>2, <2>3, <2>4, <2>5
<1> QED
  BY <1>1, <1>2

-------------------------------------------------------------------------------
(* Every purchase is on its way to every copy, or made there.              *)

LEMMA WaitingMore ==
  ASSUME NEW ws \in Seq(Ware), NEW w \in Ware, NEW v
  PROVE  Waiting(Append(ws, w), v) # {} <=> Waiting(ws, v) # {} \/ v = w
<1> DEFINE r == Append(ws, w)
           n == Len(ws)
<1>1. n \in Nat /\ DOMAIN ws = 1 .. n
  BY LenProperties
<1>2. r \in Seq(Ware) /\ Len(r) = n + 1 /\ \A i \in 1 .. n : r[i] = ws[i]
  BY AppendProperties
<1>3. r[n + 1] = w /\ DOMAIN r = 1 .. (n + 1)
  BY <1>2, AppendProperties, LenProperties
<1> HIDE DEF r, n
<1>4. /\ \A i \in DOMAIN ws : i \in DOMAIN r /\ r[i] = ws[i]
      /\ \A i \in DOMAIN r : (i \in DOMAIN ws /\ r[i] = ws[i]) \/ r[i] = w
      /\ n + 1 \in DOMAIN r
  BY <1>1, <1>2, <1>3
<1>5. Waiting(r, v) # {} <=> Waiting(ws, v) # {} \/ v = w
  BY <1>3, <1>4 DEF Waiting
<1> QED
  BY <1>5 DEF r

LEMMA OneLetter ==
  ASSUME NEW m \in Letters, NEW w, NEW k
  PROVE  /\ <<m>> \in Seq(Letters)
         /\ Purchases(<<m>>, w) # {} <=> m = ShopBuy(w)
         /\ Tells(<<m>>) # {} <=> m.type = "LEVELUPTARGET"
         /\ /\ m.type = "SHOPBUY" /\ m.ware \in Candy => m.ware = w
            /\ m.type = "LEVELUPTARGET" => m.cat = k
            => InOrder(<<m>>, w, k)
<1>1. DOMAIN <<m>> = {1} /\ <<m>>[1] = m /\ <<m>> \in Seq(Letters)
  OBVIOUS
<1>2. m = ShopBuy(w) => m.type = "SHOPBUY"
  BY DEF ShopBuy
<1> QED
  BY <1>1, <1>2 DEF Purchases, Tells, InOrder

(* Steps that neither take a ware off a shelf nor give one up.             *)
QuietStep(p) ==
  \/ OpenScreen(p) \/ FrameTick(p) \/ LevelSelect(p) \/ LevelUpdate(p) \/ ScreenGone(p)
  \/ OnLevelUpTarget(p) \/ OnLevelUpChoice(p)
  \/ WatchExpires(p) \/ \E i \in 1 .. MaxRedirects : RedirectExpires(p, i)

(* What these do to the mail.                                              *)
LEMMA QuietMail ==
  ASSUME MirrorTypeOK, NEW p \in Shopper, QuietStep(p)
  PROVE  /\ UNCHANGED <<shelf, queued>>
         /\ \/ UNCHANGED mail
            \/ mail' = Mailed(p, Told(p)) /\ FrameTick(p)
            \/ mail' = Mailed(p, <<LevelUpChoice>>)
            \/ /\ mail' = [mail EXCEPT ![p] = Tail(@)] /\ mail[p] # <<>>
               /\ Head(mail[p]).type \in {"LEVELUPTARGET", "CHOICE"}
BY DEF QuietStep, OpenScreen, FrameTick, LevelSelect, LevelUpdate, ScreenGone, OnLevelUpTarget,
   OnLevelUpChoice, WatchExpires, RedirectExpires, Told

LEMMA QuietClicks ==
  ASSUME MirrorTypeOK, NEW p \in Shopper, QuietStep(p)
  PROVE  /\ UNCHANGED <<shelf, queued>>
         /\ \A q \in Shopper, w \in Ware :
              /\ Purchases(mail'[q], w) # {} <=> Purchases(mail[q], w) # {}
              /\ ToClick(q, w)' <=> ToClick(q, w)
<1>1. UNCHANGED <<shelf, queued>>
  BY QuietMail
<1>2. ASSUME NEW q \in Shopper, NEW w \in Ware
      PROVE  Purchases(mail'[q], w) # {} <=> Purchases(mail[q], w) # {}
  <2>1. CASE UNCHANGED mail
    BY <2>1
  <2>2. ASSUME NEW t \in Seq(Letters), Purchases(t, w) = {}, mail' = Mailed(p, t)
        PROVE  Purchases(mail'[q], w) # {} <=> Purchases(mail[q], w) # {}
    <3>1. CASE q = p
      BY <2>2, <3>1, MailedIs
    <3>2. CASE q # p
      <4>1. mail'[q] = mail[q] \o t /\ mail[q] \in Seq(Letters)
        BY <2>2, <3>2, MailedIs DEF MirrorTypeOK
      <4> QED
        BY <2>2, <4>1, SomeWritten
    <3> QED
      BY <3>1, <3>2
  <2>3. CASE mail' = Mailed(p, Told(p)) /\ FrameTick(p)
    <3>1. Told(p) \in Seq(Letters) /\ Purchases(Told(p), w) = {}
      BY <2>3, ToldIs DEF FrameTick
    <3> QED
      BY <2>2, <2>3, <3>1
  <2>4. CASE mail' = Mailed(p, <<LevelUpChoice>>)
    <3>1. LevelUpChoice \in Letters /\ LevelUpChoice # ShopBuy(w)
      BY LettersAre DEF LevelUpChoice, ShopBuy
    <3>2. <<LevelUpChoice>> \in Seq(Letters) /\ Purchases(<<LevelUpChoice>>, w) = {}
      BY <3>1, OneLetter
    <3> QED
      BY <2>2, <2>4, <3>2
  <2>5. CASE /\ mail' = [mail EXCEPT ![p] = Tail(@)] /\ mail[p] # <<>>
             /\ Head(mail[p]).type \in {"LEVELUPTARGET", "CHOICE"}
    <3>1. CASE q = p
      <4>1. mail'[p] = Tail(mail[p]) /\ mail[p] \in Seq(Letters)
        BY <2>5, MailRead DEF MirrorTypeOK
      <4>2. Head(mail[p]) # ShopBuy(w)
        BY <2>5 DEF ShopBuy
      <4> QED
        BY <2>5, <3>1, <4>1, <4>2, OneRead
    <3>2. CASE q # p
      BY <2>5, <3>2, MailRead
    <3> QED
      BY <3>1, <3>2
  <2> QED
    BY <2>1, <2>3, <2>4, <2>5, QuietMail
<1> QED
  BY <1>1, <1>2 DEF ToClick

LEMMA MirroredQuiet ==
  ASSUME MirrorTypeOK, Mirrored, NEW p \in Shopper, QuietStep(p)
  PROVE  Mirrored'
BY QuietClicks DEF Mirrored

LEMMA BuyClicks ==
  ASSUME MirrorTypeOK, NEW p \in Shopper, NEW w \in Ware, Buy(p, w)
  PROVE  /\ \A q \in Shopper : queued'[q] = queued[q]
         /\ \A q \in Shopper \ {p}, v \in Ware :
              Purchases(mail'[q], v) # {} <=> Purchases(mail[q], v) # {} \/ v = w
         /\ mail'[p] = mail[p]
         /\ \A q \in Shopper \ {p} : mail'[q] = mail[q] \o <<ShopBuy(w)>>
<1>1. mail' = Mailed(p, <<ShopBuy(w)>>) /\ UNCHANGED queued /\ ShopBuy(w) \in Letters
  BY LettersAre DEF Buy
<1>2. <<ShopBuy(w)>> \in Seq(Letters)
  BY <1>1, OneLetter
<1>3. ASSUME NEW q \in Shopper \ {p}, NEW v \in Ware
      PROVE  Purchases(mail'[q], v) # {} <=> Purchases(mail[q], v) # {} \/ v = w
  <2>1. mail'[q] = mail[q] \o <<ShopBuy(w)>> /\ mail[q] \in Seq(Letters)
    BY <1>1, <1>2, MailedIs DEF MirrorTypeOK
  <2>2. Purchases(<<ShopBuy(w)>>, v) # {} <=> ShopBuy(w) = ShopBuy(v)
    BY <1>1, OneLetter
  <2>3. ShopBuy(w) = ShopBuy(v) <=> v = w
    BY DEF ShopBuy
  <2> QED
    BY <1>2, <2>1, <2>2, <2>3, SomeWritten
<1> QED
  BY <1>1, <1>2, <1>3, MailedIs

LEMMA MirroredBuy ==
  ASSUME MirrorTypeOK, Mirrored, NEW p \in Shopper, NEW w \in Ware, Buy(p, w)
  PROVE  Mirrored'
<1>1. /\ shelf'[p] = shelf[p] \ {w} /\ \A q \in Shopper \ {p} : shelf'[q] = shelf[q]
  BY DEF Buy, MirrorTypeOK
<1>2. \A q \in Shopper \ {p}, v \in Ware : ToClick(q, v)' <=> ToClick(q, v) \/ v = w
  <2> TAKE q \in Shopper \ {p}, v \in Ware
  <2>1. /\ Purchases(mail'[q], v) # {} <=> Purchases(mail[q], v) # {} \/ v = w
        /\ queued'[q] = queued[q]
    BY BuyClicks
  <2> QED
    BY <2>1 DEF ToClick
<1>3. \A v \in Ware : ToClick(p, v)' <=> ToClick(p, v)
  BY BuyClicks DEF ToClick
<1>4. \A q \in Shopper, v \in Ware : ToClick(q, v)' => \E r \in Shopper : v \notin shelf'[r]
  BY <1>1, <1>2, <1>3 DEF Mirrored
<1>5. ASSUME NEW r \in Shopper, NEW q \in Shopper, NEW v \in Ware, v \notin shelf'[r]
      PROVE  v \notin shelf'[q] \/ ToClick(q, v)'
  <2>1. CASE v = w
    BY <2>1, <1>1, <1>2
  <2>2. CASE v # w
    BY <1>5, <2>2, <1>1, <1>2, <1>3 DEF Mirrored
  <2> QED
    BY <2>1, <2>2
<1> QED
  BY <1>4, <1>5 DEF Mirrored

LEMMA MirroredFires ==
  ASSUME MirrorTypeOK, Mirrored, NEW p \in Shopper, NEW ws \in Seq(Ware), Fires(p, ws),
         \A v \in Ware : /\ v \in Range(ws) => ToClick(p, v)
                         /\ ToClick(p, v) => v \in Range(ws) \/ ToClick(p, v)'
                         /\ ToClick(p, v)' => ToClick(p, v),
         \A q \in Shopper \ {p} : mail'[q] = mail[q] /\ queued'[q] = queued[q]
  PROVE  Mirrored'
<1>1. shelf'[p] = shelf[p] \ Range(ws) /\ \A q \in Shopper \ {p} : shelf'[q] = shelf[q]
  BY FiresIs
<1>2. \A q \in Shopper \ {p}, v \in Ware : ToClick(q, v)' <=> ToClick(q, v)
  BY DEF ToClick
<1>3. \A q \in Shopper, v \in Ware : ToClick(q, v)' => \E r \in Shopper : v \notin shelf'[r]
  <2> TAKE q \in Shopper, v \in Ware
  <2>1. ToClick(q, v)' => ToClick(q, v)
    BY <1>2
  <2>2. ToClick(q, v) => \E r \in Shopper : v \notin shelf[r]
    BY DEF Mirrored
  <2> QED
    BY <2>1, <2>2, <1>1
<1>4. ASSUME NEW r \in Shopper, NEW q \in Shopper, NEW v \in Ware, v \notin shelf'[r]
      PROVE  v \notin shelf'[q] \/ ToClick(q, v)'
  <2>1. \E s \in Shopper : v \notin shelf[s]
    <3>1. CASE v \notin shelf[r]
      BY <3>1
    <3>2. CASE v \in shelf[r]
      <4>1. r = p /\ v \in Range(ws)
        BY <3>2, <1>1, <1>4
      <4> QED
        BY <4>1 DEF Mirrored
    <3> QED
      BY <3>1, <3>2
  <2>2. v \notin shelf[q] \/ ToClick(q, v)
    BY <2>1 DEF Mirrored
  <2> QED
    BY <2>2, <1>1, <1>2
<1> QED
  BY <1>3, <1>4 DEF Mirrored

LEMMA MirroredBrowse ==
  ASSUME MirrorTypeOK, Mirrored, NEW p \in Shopper, Browse(p)
  PROVE  Mirrored'
<1>1. queued[p] \in Seq(Ware) /\ Fires(p, queued[p]) /\ UNCHANGED mail
  BY DEF Browse, MirrorTypeOK
<1>2. queued'[p] = <<>> /\ \A q \in Shopper \ {p} : queued'[q] = queued[q]
  BY DEF Browse, MirrorTypeOK
<1>3. \A v \in Ware : /\ v \in Range(queued[p]) <=> Waiting(queued[p], v) # {}
                      /\ Waiting(queued'[p], v) = {}
  <2>1. DOMAIN <<>> = {}
    OBVIOUS
  <2> QED
    BY <1>2, <2>1 DEF Range, Waiting
<1>4. \A v \in Ware : /\ v \in Range(queued[p]) => ToClick(p, v)
                      /\ ToClick(p, v) => v \in Range(queued[p]) \/ ToClick(p, v)'
                      /\ ToClick(p, v)' => ToClick(p, v)
  BY <1>1, <1>3 DEF ToClick
<1> QED
  BY <1>1, <1>2, <1>4, MirroredFires

(* A purchase that is read: made at once, or queued, or lost.              *)
LEMMA PurchaseRead ==
  ASSUME MirrorTypeOK, NEW p \in Shopper, OnShopBuy(p), ~spoilt'
  PROVE  \E w \in Ware :
           /\ mail[p] # <<>> /\ Head(mail[p]) = ShopBuy(w) /\ mail'[p] = Tail(mail[p])
           /\ \A q \in Shopper \ {p} : mail'[q] = mail[q] /\ queued'[q] = queued[q]
           /\ \/ Fires(p, <<w>>) /\ UNCHANGED queued
              \/ UNCHANGED <<shelf, opening, redirect>> /\ queued'[p] = Append(queued[p], w)
           /\ UNCHANGED <<browsing, screen, watch, told, given, spoilt>>
<1> DEFINE w == Head(mail[p]).ware
<1>1. /\ w \in Ware /\ Head(mail[p]) = ShopBuy(w) /\ mail[p] # <<>> /\ mail'[p] = Tail(mail[p])
      /\ \A q \in Shopper \ {p} : mail'[q] = mail[q]
  BY MailRead, LettersAre DEF OnShopBuy
<1> HIDE DEF w
<1>2. CASE Tracked(p)
  <2>1. Fires(p, <<w>>) /\ UNCHANGED <<queued, spoilt>>
    BY <1>2 DEF OnShopBuy, w
  <2> QED
    BY <1>1, <2>1 DEF OnShopBuy
<1>3. CASE ~Tracked(p)
  <2>1. /\ UNCHANGED <<shelf, opening, redirect, spoilt>>
        /\ queued' = [queued EXCEPT ![p] = Append(@, w)]
    BY <1>3 DEF OnShopBuy, w
  <2>2. /\ queued'[p] = Append(queued[p], w)
        /\ \A q \in Shopper \ {p} : queued'[q] = queued[q]
    BY <2>1 DEF MirrorTypeOK
  <2> QED
    BY <1>1, <2>1, <2>2 DEF OnShopBuy
<1> QED
  BY <1>2, <1>3

LEMMA MirroredOnShopBuy ==
  ASSUME MirrorTypeOK, Mirrored, NEW p \in Shopper, OnShopBuy(p), ~spoilt'
  PROVE  Mirrored'
<1>1. PICK w \in Ware :
           /\ mail[p] # <<>> /\ Head(mail[p]) = ShopBuy(w) /\ mail'[p] = Tail(mail[p])
           /\ \A q \in Shopper \ {p} : mail'[q] = mail[q] /\ queued'[q] = queued[q]
           /\ \/ Fires(p, <<w>>) /\ UNCHANGED queued
              \/ UNCHANGED <<shelf, opening, redirect>> /\ queued'[p] = Append(queued[p], w)
           /\ UNCHANGED <<browsing, screen, watch, told, given, spoilt>>
  BY PurchaseRead
<1>2. ASSUME NEW v \in Ware
      PROVE  /\ Purchases(mail'[p], v) # {} => Purchases(mail[p], v) # {}
             /\ Purchases(mail[p], v) # {} => v = w \/ Purchases(mail'[p], v) # {}
             /\ Purchases(mail[p], w) # {}
  <2>1. mail[p] \in Seq(Letters)
    BY DEF MirrorTypeOK
  <2>2. ShopBuy(w) = ShopBuy(v) => w = v
    BY DEF ShopBuy
  <2>3. Purchases(Tail(mail[p]), v) # {} => Purchases(mail[p], v) # {}
    BY <1>1, <2>1, OneRead
  <2>4. Purchases(mail[p], v) # {} => Head(mail[p]) = ShopBuy(v) \/ Purchases(Tail(mail[p]), v) # {}
    BY <1>1, <2>1, OneRead
  <2>5. Purchases(mail[p], w) # {}
    BY <1>1, <2>1, OneRead
  <2> QED
    BY <1>1, <2>2, <2>3, <2>4, <2>5
<1>3. CASE Fires(p, <<w>>) /\ UNCHANGED queued
  <2>1. <<w>> \in Seq(Ware) /\ Range(<<w>>) = {w}
    BY DEF Range
  <2>2. \A v \in Ware : /\ v \in Range(<<w>>) => ToClick(p, v)
                        /\ ToClick(p, v) => v \in Range(<<w>>) \/ ToClick(p, v)'
                        /\ ToClick(p, v)' => ToClick(p, v)
    BY <1>2, <1>3, <2>1 DEF ToClick
  <2> QED
    BY <1>1, <1>3, <2>1, <2>2, MirroredFires
<1>4. CASE UNCHANGED <<shelf, opening, redirect>> /\ queued'[p] = Append(queued[p], w)
  <2>1. \A v \in Ware : Waiting(queued'[p], v) # {} <=> Waiting(queued[p], v) # {} \/ v = w
    <3>1. queued[p] \in Seq(Ware)
      BY DEF MirrorTypeOK
    <3>2. \A v \in Ware : Waiting(Append(queued[p], w), v) # {} <=> Waiting(queued[p], v) # {} \/ v = w
      BY <3>1, WaitingMore
    <3> QED
      BY <1>4, <3>2
  <2>2. \A v \in Ware : ToClick(p, v)' <=> ToClick(p, v)
    BY <1>2, <2>1 DEF ToClick
  <2>3. \A q \in Shopper, v \in Ware : ToClick(q, v)' <=> ToClick(q, v)
    BY <1>1, <2>2 DEF ToClick
  <2> QED
    BY <1>4, <2>3 DEF Mirrored
<1> QED
  BY <1>1, <1>3, <1>4

LEMMA MirroredStep ==
  ASSUME MirrorTypeOK, Mirrored, [ShopNext]_shopVars, ~spoilt'
  PROVE  Mirrored'
<1>1. CASE UNCHANGED shopVars
  BY <1>1 DEF shopVars, Mirrored, ToClick
<1>2. CASE ShopNext
  <2>1. PICK p \in Shopper :
          OwnShopStep(p) \/ ReadMail(p) \/ TimerRunsOut(p) \/ \E w \in Ware : Buy(p, w)
    BY <1>2 DEF ShopNext
  <2>2. CASE QuietStep(p)
    BY <2>2, MirroredQuiet
  <2>3. CASE GivesUp(p)
    BY <2>3 DEF GivesUp
  <2>4. CASE Browse(p) \/ OnShopBuy(p) \/ \E w \in Ware : Buy(p, w)
    BY <2>4, MirroredBrowse, MirroredOnShopBuy, MirroredBuy
  <2> QED
    BY <2>1, <2>2, <2>3, <2>4 DEF OwnShopStep, ReadMail, TimerRunsOut, QuietStep
<1> QED
  BY <1>1, <1>2

-------------------------------------------------------------------------------
(* One candy at a time.                                                    *)

(* What a step of p leaves of the other copies, but for what p says.       *)
Elsewhere(p, w, b, k) ==
  \A q \in Shopper \ {p} :
    /\ queued'[q] = queued[q] /\ opening'[q] = opening[q] /\ screen'[q] = screen[q]
    /\ watch'[q] = watch[q] /\ redirect'[q] = redirect[q] /\ given'[q] = given[q]
    /\ \/ mail'[q] = mail[q]
       \/ \E t \in Seq(Letters) :
            /\ mail'[q] = mail[q] \o t
            /\ InOrder(t, w, k) /\ Purchases(t, w) = {}
            /\ Tells(t) # {} => p = b /\ opening[b] = <<>>

MailKept(p, q, w, b, k) ==
  /\ InOrder(mail'[q], w, k)
  /\ Purchases(mail'[q], w) # {} <=> Purchases(mail[q], w) # {}
  /\ Tells(mail[q]) # {} => Tells(mail'[q]) # {}
  /\ Tells(mail'[q]) # {} => Tells(mail[q]) # {} \/ (p = b /\ opening[b] = <<>>)

LEMMA ElsewhereMail ==
  ASSUME MirrorTypeOK, NEW w \in Candy, NEW b, NEW k, NEW p, Elsewhere(p, w, b, k),
         NEW q \in Shopper \ {p}, InOrder(mail[q], w, k)
  PROVE  MailKept(p, q, w, b, k)
<1>1. CASE mail'[q] = mail[q]
  BY <1>1 DEF MailKept
<1>2. ASSUME NEW t \in Seq(Letters), mail'[q] = mail[q] \o t, InOrder(t, w, k),
             Purchases(t, w) = {}, Tells(t) # {} => p = b /\ opening[b] = <<>>
      PROVE  MailKept(p, q, w, b, k)
  <2>1. mail[q] \in Seq(Letters) /\ w \in Ware
    BY ShopParameters DEF MirrorTypeOK
  <2>2. InOrder(mail[q] \o t, w, k)
    BY <1>2, <2>1, SomeWritten
  <2>3. Purchases(mail[q] \o t, w) # {} <=> Purchases(mail[q], w) # {} \/ Purchases(t, w) # {}
    BY <2>1, SomeWritten
  <2>4. Tells(mail[q] \o t) # {} <=> Tells(mail[q]) # {} \/ Tells(t) # {}
    BY <2>1, SomeWritten
  <2> QED
    BY <1>2, <2>2, <2>3, <2>4 DEF MailKept
<1> QED
  BY <1>1, <1>2 DEF Elsewhere

LEMMA StageElsewhere ==
  ASSUME MirrorTypeOK, NEW w \in Candy, NEW b, NEW k, NEW p, Elsewhere(p, w, b, k),
         NEW q \in Shopper \ {p}, Stage(q, w, k)
  PROVE  Stage(q, w, k)'
<1>1. /\ InOrder(mail'[q], w, k)
      /\ Purchases(mail'[q], w) # {} <=> Purchases(mail[q], w) # {}
  <2>1. InOrder(mail[q], w, k)
    BY DEF Stage
  <2>2. MailKept(p, q, w, b, k)
    BY <2>1, ElsewhereMail
  <2> QED
    BY <2>2 DEF MailKept
<1>2. /\ queued'[q] = queued[q] /\ opening'[q] = opening[q] /\ screen'[q] = screen[q]
      /\ redirect'[q] = redirect[q] /\ given'[q] = given[q]
  BY DEF Elsewhere
<1>3. ToClick(q, w)' <=> ToClick(q, w)
  BY <1>1, <1>2 DEF ToClick
<1> QED
  BY <1>1, <1>2, <1>3 DEF Stage

LEMMA HearsElsewhere ==
  ASSUME MirrorTypeOK, NEW w \in Candy, NEW b, NEW k, NEW p, Elsewhere(p, w, b, k),
         NEW q \in Shopper \ {p}, Stage(q, w, k), Hears(q, w, b, k),
         opening'[b] # <<>> <=> opening[b] # <<>>,
         WillHear(q, b) => WillHear(q, b)'
  PROVE  Hears(q, w, b, k)'
<1>1. /\ Purchases(mail'[q], w) # {} <=> Purchases(mail[q], w) # {}
      /\ Tells(mail'[q]) # {} => Tells(mail[q]) # {} \/ opening[b] = <<>>
  <2>1. InOrder(mail[q], w, k)
    BY DEF Stage
  <2>2. MailKept(p, q, w, b, k)
    BY <2>1, ElsewhereMail
  <2> QED
    BY <2>2 DEF MailKept
<1>2. /\ queued'[q] = queued[q] /\ opening'[q] = opening[q] /\ screen'[q] = screen[q]
      /\ watch'[q] = watch[q] /\ redirect'[q] = redirect[q] /\ given'[q] = given[q]
  BY DEF Elsewhere
<1>3. (ToClick(q, w)' <=> ToClick(q, w)) /\ (Undecided(q)' <=> Undecided(q)) /\ (Waits(q)' <=> Waits(q))
  BY <1>1, <1>2 DEF ToClick, Undecided, Waits
<1> QED
  BY <1>1, <1>2, <1>3 DEF Hears

(* A step of p keeps the round if it keeps p's part of it.                 *)
LEMMA RoundKept ==
  ASSUME MirrorTypeOK, NEW w \in Candy, NEW b \in Shopper, NEW k, NEW p \in Shopper,
         Round(w, b, k), Elsewhere(p, w, b, k), Stage(p, w, k)',
         p # b => Hears(p, w, b, k)' /\ (opening[b] # <<>> => given'[p][w] = Nobody),
         p = b => /\ Buyer(w, b, k)'
                  /\ opening'[b] # <<>> <=> opening[b] # <<>>
                  /\ \A q \in Shopper \ {b} : WillHear(q, b) => WillHear(q, b)'
  PROVE  Round(w, b, k)'
<1>1. \A q \in Shopper : Stage(q, w, k)'
  BY StageElsewhere DEF Round
<1>2. CASE p = b
  <2>1. \A q \in Shopper \ {b} : Hears(q, w, b, k)'
    BY <1>2, HearsElsewhere DEF Round
  <2> QED
    BY <1>1, <1>2, <2>1 DEF Round
<1>3. CASE p # b
  <2>1. /\ queued'[b] = queued[b] /\ opening'[b] = opening[b] /\ screen'[b] = screen[b]
        /\ watch'[b] = watch[b] /\ redirect'[b] = redirect[b]
        /\ \A q \in Shopper \ {p} : given'[q] = given[q]
    BY <1>3 DEF Elsewhere
  <2>2. /\ Purchases(mail'[b], w) # {} <=> Purchases(mail[b], w) # {}
        /\ Tells(mail'[b]) # {} => Tells(mail[b]) # {}
    <3>1. b \in Shopper \ {p} /\ InOrder(mail[b], w, k)
      BY <1>3 DEF Round, Stage
    <3>2. MailKept(p, b, w, b, k)
      BY <3>1, ElsewhereMail
    <3> QED
      BY <1>3, <3>2 DEF MailKept
  <2>3. Buyer(w, b, k)'
    <3>1. ~ToClick(b, w)' /\ Tells(mail'[b]) = {} /\ Targets(redirect'[b]) = {}
      BY <2>1, <2>2 DEF Round, Buyer, ToClick
    <3>2. opening'[b] # <<>> => watch'[b] # <<>> /\ \A q \in Shopper : given'[q][w] = Nobody
      BY <1>3, <2>1 DEF Round, Buyer
    <3> QED
      BY <2>1, <3>1, <3>2 DEF Round, Buyer
  <2>4. \A q \in Shopper \ {b, p} : Hears(q, w, b, k)'
    <3> TAKE q \in Shopper \ {b, p}
    <3>1. Tells(mail[q]) # {} => Tells(mail'[q]) # {}
      <4>1. q \in Shopper \ {p} /\ InOrder(mail[q], w, k)
        BY DEF Round, Stage
      <4>2. MailKept(p, q, w, b, k)
        BY <4>1, ElsewhereMail
      <4> QED
        BY <4>2 DEF MailKept
    <3>2. WillHear(q, b) => WillHear(q, b)'
      BY <2>1, <3>1 DEF WillHear
    <3> QED
      BY <2>1, <3>2, HearsElsewhere DEF Round
  <2> QED
    BY <1>1, <1>3, <2>3, <2>4 DEF Round
<1> QED
  BY <1>2, <1>3

(* Clicks of the purchases in ws: of the candy the one that is to come.    *)
LEMMA RoundFires ==
  ASSUME MirrorTypeOK, NEW w \in Candy, NEW b \in Shopper, NEW k, NEW p \in Shopper,
         Round(w, b, k), NEW ws \in Seq(Ware), Fires(p, ws), Single(ws, w),
         Waiting(ws, w) # {} => ToClick(p, w) /\ ~ToClick(p, w)',
         ToClick(p, w)' => ToClick(p, w),
         InOrder(mail'[p], w, k), Single(queued'[p], w),
         Purchases(mail'[p], w) # {} => Purchases(mail[p], w) # {} /\ Waiting(queued'[p], w) = {},
         Tells(mail'[p]) # {} <=> Tells(mail[p]) # {},
         \A q \in Shopper \ {p} : mail'[q] = mail[q] /\ queued'[q] = queued[q],
         UNCHANGED <<screen, watch, given>>
  PROVE  Round(w, b, k)'
<1>1. /\ opening[p] \in Seq(Candy) /\ redirect[p] \in [1 .. MaxRedirects -> RedirectState]
      /\ Stage(p, w, k)
  BY DEF MirrorTypeOK, Round
<1>2. /\ opening'[p] = opening[p] \o Among(ws, Candy) /\ redirect'[p] = Armed(redirect[p], Len(ws))
      /\ \A q \in Shopper \ {p} : opening'[q] = opening[q] /\ redirect'[q] = redirect[q]
  BY FiresIs
<1>3. /\ Waiting(ws, w) = {} => Among(ws, Candy) = <<>>
      /\ Waiting(ws, w) # {} => Among(ws, Candy) = <<w>>
  <2>1. ASSUME Waiting(ws, w) = {} PROVE Among(ws, Candy) = <<>>
    <3>1. \A i \in DOMAIN ws : ws[i] \notin Candy
      BY <2>1 DEF Single, Waiting
    <3> QED
      BY <3>1, AmongIs
  <2>2. ASSUME Waiting(ws, w) # {} PROVE Among(ws, Candy) = <<w>>
    <3>1. PICK i \in DOMAIN ws : ws[i] = w
      BY <2>2 DEF Waiting
    <3>2. \A j \in DOMAIN ws : ws[j] \in Candy => j = i
      BY <3>1 DEF Single, Waiting
    <3> QED
      BY <3>1, <3>2, AmongIs
  <2> QED
    BY <2>1, <2>2
<1>4. /\ Waiting(ws, w) = {} => opening'[p] = opening[p]
      /\ Waiting(ws, w) # {} => opening'[p] = <<w>> /\ opening[p] = <<>>
  <2>1. opening[p] \o <<>> = opening[p] /\ <<>> \o <<w>> = <<w>>
    BY <1>1, ConcatEmptySeq
  <2> QED
    BY <1>1, <1>2, <1>3, <2>1 DEF Stage
<1>5. /\ Targets(redirect'[p]) = Targets(redirect[p])
      /\ \A i \in Targets(redirect[p]) : redirect'[p][i] = redirect[p][i]
      /\ \A i \in 1 .. MaxRedirects : redirect[p][i] # Unused => redirect'[p][i] = redirect[p][i]
  BY <1>1, <1>2, ArmedIs
<1>6. Waits(p) => Waits(p)'
  BY <1>5, ShopNothings DEF Waits
<1>7. Waiting(ws, w) # {} /\ Targets(redirect[p]) = {} => Waits(p)'
  <2> SUFFICES ASSUME Waiting(ws, w) # {}, Targets(redirect[p]) = {} PROVE Waits(p)'
    OBVIOUS
  <2>1. Len(ws) \in Nat /\ DOMAIN ws = 1 .. Len(ws)
    BY LenProperties
  <2>2. Len(ws) > 0
    BY <2>1 DEF Waiting
  <2>3. \E i \in 1 .. MaxRedirects : Armed(redirect[p], Len(ws))[i] = Untold
    BY <1>1, <2>1, <2>2, ArmedWaits
  <2> QED
    BY <1>2, <2>3 DEF Waits
<1>8. Stage(p, w, k)'
  <2>1. Purchases(mail'[p], w) # {} => Waiting(queued'[p], w) = {} /\ Targets(redirect'[p]) = {}
    BY <1>1, <1>5 DEF Stage
  <2>2. opening'[p] \in {<<>>, <<w>>} /\ (ToClick(p, w)' => opening'[p] = <<>>)
    BY <1>1, <1>4 DEF Stage
  <2>3. ToClick(p, w)' \/ opening'[p] # <<>> => screen'[p] = NoLevelUp
    BY <1>1, <1>4 DEF Stage
  <2>4. \A i \in Targets(redirect'[p]) : redirect'[p][i] = k
    BY <1>1, <1>5 DEF Stage
  <2> QED
    BY <1>1, <2>1, <2>2, <2>3, <2>4 DEF Stage
<1>9. Elsewhere(p, w, b, k)
  BY <1>2 DEF Elsewhere
<1>10. CASE p = b
  <2>1. opening'[b] = opening[b] /\ ~ToClick(b, w)'
    BY <1>4, <1>10 DEF Round, Buyer
  <2>2. Buyer(w, b, k)'
    BY <2>1, <1>5, <1>10 DEF Round, Buyer
  <2>3. \A q \in Shopper \ {b} : WillHear(q, b) => WillHear(q, b)'
    BY <2>1, <1>10 DEF WillHear
  <2> QED
    BY <1>8, <1>9, <1>10, <2>1, <2>2, <2>3, RoundKept
<1>11. CASE p # b
  <2>1. Hears(p, w, b, k) /\ opening'[b] = opening[b]
    BY <1>2, <1>11 DEF Round
  <2>2. WillHear(p, b)' <=> WillHear(p, b)
    BY <2>1 DEF WillHear
  <2>3. opening'[p] # <<>> \/ Undecided(p)' =>
          \/ Targets(redirect'[p]) # {}
          \/ WillHear(p, b)' /\ Waits(p)'
          \/ screen'[p] # NoLevelUp /\ screen'[p].cat = k /\ opening'[b] = <<>>
    <3>1. CASE Waiting(ws, w) # {}
      BY <3>1, <2>1, <2>2, <1>5, <1>7 DEF Hears
    <3>2. CASE Waiting(ws, w) = {}
      BY <3>2, <2>1, <2>2, <1>4, <1>5, <1>6 DEF Hears, Undecided
    <3> QED
      BY <3>1, <3>2
  <2>4. Hears(p, w, b, k)'
    BY <2>1, <2>2, <2>3, <1>5 DEF Hears
  <2>5. opening[b] # <<>> => given'[p][w] = Nobody
    BY DEF Round, Buyer
  <2> QED
    BY <1>8, <1>9, <1>11, <2>4, <2>5, RoundKept
<1> QED
  BY <1>10, <1>11

LEMMA RoundBrowse ==
  ASSUME MirrorTypeOK, NEW w \in Candy, NEW b \in Shopper, NEW k, NEW p \in Shopper,
         Round(w, b, k), Browse(p)
  PROVE  Round(w, b, k)'
<1> DEFINE ws == queued[p]
<1>1. /\ ws \in Seq(Ware) /\ Fires(p, ws) /\ UNCHANGED <<screen, watch, mail, given>>
      /\ queued'[p] = <<>> /\ \A q \in Shopper \ {p} : queued'[q] = queued[q]
  BY DEF Browse, MirrorTypeOK
<1>2. Single(ws, w) /\ InOrder(mail[p], w, k) /\ (Purchases(mail[p], w) # {} => Waiting(ws, w) = {})
  BY DEF Round, Stage
<1>3. Single(queued'[p], w) /\ Waiting(queued'[p], w) = {}
  <2>1. DOMAIN <<>> = {}
    OBVIOUS
  <2> QED
    BY <1>1, <2>1 DEF Single, Waiting
<1>4. ToClick(p, w)' <=> Purchases(mail[p], w) # {}
  BY <1>1, <1>3 DEF ToClick
<1>5. /\ Waiting(ws, w) # {} => ToClick(p, w) /\ ~ToClick(p, w)'
      /\ ToClick(p, w)' => ToClick(p, w)
  BY <1>2, <1>4 DEF ToClick
<1>6. /\ InOrder(mail'[p], w, k)
      /\ Purchases(mail'[p], w) # {} => Purchases(mail[p], w) # {} /\ Waiting(queued'[p], w) = {}
      /\ Tells(mail'[p]) # {} <=> Tells(mail[p]) # {}
      /\ \A q \in Shopper \ {p} : mail'[q] = mail[q] /\ queued'[q] = queued[q]
      /\ UNCHANGED <<screen, watch, given>>
  BY <1>1, <1>2, <1>3
<1> HIDE DEF ws
<1> QED
  BY <1>1, <1>2, <1>3, <1>5, <1>6, RoundFires

LEMMA SingleMore ==
  ASSUME NEW ws \in Seq(Ware), NEW v \in Ware, NEW w, Single(ws, w), v \in Candy => v = w,
         v = w => Waiting(ws, w) = {}
  PROVE  Single(Append(ws, v), w)
<1> DEFINE r == Append(ws, v)
           n == Len(ws)
<1>1. n \in Nat /\ DOMAIN ws = 1 .. n
  BY LenProperties
<1>2. r \in Seq(Ware) /\ Len(r) = n + 1 /\ \A i \in 1 .. n : r[i] = ws[i]
  BY AppendProperties
<1>3. r[n + 1] = v /\ DOMAIN r = 1 .. (n + 1)
  BY <1>2, AppendProperties, LenProperties
<1> HIDE DEF r, n
<1>4. \A i \in DOMAIN r : (i \in DOMAIN ws /\ r[i] = ws[i]) \/ i = n + 1
  BY <1>1, <1>2, <1>3
<1>5. \A i \in DOMAIN r : r[i] \in Candy => r[i] = w
  BY <1>3, <1>4 DEF Single
<1>6. \A i, j \in Waiting(r, w) : i = j
  BY <1>3, <1>4 DEF Single, Waiting
<1>7. Single(r, w)
  BY <1>5, <1>6 DEF Single
<1> QED
  BY <1>7 DEF r

(* The letter of a purchase, read while w is under way.                    *)
LEMMA RoundRead ==
  ASSUME NEW ms \in Seq(Letters), ms # <<>>, NEW w, NEW k, NEW v \in Ware, Head(ms) = ShopBuy(v),
         InOrder(ms, w, k)
  PROVE  /\ InOrder(Tail(ms), w, k)
         /\ v \in Candy => v = w
         /\ v = w => Purchases(ms, w) # {} /\ Purchases(Tail(ms), w) = {}
         /\ v # w => (Purchases(Tail(ms), w) # {} <=> Purchases(ms, w) # {})
         /\ Tells(Tail(ms)) # {} <=> Tells(ms) # {}
<1>1. /\ InOrder(Tail(ms), w, k)
      /\ Purchases(Tail(ms), w) # {} => Purchases(ms, w) # {}
      /\ Tells(Tail(ms)) # {} => Tells(ms) # {}
  BY OneRead
<1>2. Purchases(ms, w) # {} => Head(ms) = ShopBuy(w) \/ Purchases(Tail(ms), w) # {}
  BY OneRead
<1>3. Tells(ms) # {} => Head(ms).type = "LEVELUPTARGET" \/ Tells(Tail(ms)) # {}
  BY OneRead
<1>4. Head(ms).type = "SHOPBUY" /\ Head(ms).ware = v /\ (Head(ms) = ShopBuy(w) <=> v = w)
  BY DEF ShopBuy
<1>5. Head(ms).type = "SHOPBUY" /\ InOrder(ms, w, k) /\ Head(ms).ware \in Candy => Head(ms).ware = w
  BY OneRead
<1>6. Head(ms) = ShopBuy(w) =>
         Purchases(ms, w) # {} /\ (InOrder(ms, w, k) => Purchases(Tail(ms), w) = {})
  BY OneRead
<1> QED
  BY <1>1, <1>2, <1>3, <1>4, <1>5, <1>6

LEMMA RoundOnShopBuy ==
  ASSUME MirrorTypeOK, NEW w \in Candy, NEW b \in Shopper, NEW k, NEW p \in Shopper,
         Round(w, b, k), OnShopBuy(p), ~spoilt'
  PROVE  Round(w, b, k)'
<1>1. PICK v \in Ware :
           /\ mail[p] # <<>> /\ Head(mail[p]) = ShopBuy(v) /\ mail'[p] = Tail(mail[p])
           /\ \A q \in Shopper \ {p} : mail'[q] = mail[q] /\ queued'[q] = queued[q]
           /\ \/ Fires(p, <<v>>) /\ UNCHANGED queued
              \/ UNCHANGED <<shelf, opening, redirect>> /\ queued'[p] = Append(queued[p], v)
           /\ UNCHANGED <<browsing, screen, watch, told, given, spoilt>>
  BY PurchaseRead
<1>2. /\ Stage(p, w, k) /\ InOrder(mail[p], w, k) /\ Single(queued[p], w)
      /\ mail[p] \in Seq(Letters) /\ queued[p] \in Seq(Ware)
  BY DEF Round, Stage, MirrorTypeOK
<1>3. /\ InOrder(mail'[p], w, k)
      /\ v \in Candy => v = w
      /\ v = w => Purchases(mail[p], w) # {} /\ Purchases(mail'[p], w) = {}
      /\ v # w => (Purchases(mail'[p], w) # {} <=> Purchases(mail[p], w) # {})
      /\ Tells(mail'[p]) # {} <=> Tells(mail[p]) # {}
  <2>1. /\ InOrder(Tail(mail[p]), w, k)
        /\ v \in Candy => v = w
        /\ v = w => Purchases(mail[p], w) # {} /\ Purchases(Tail(mail[p]), w) = {}
        /\ v # w => (Purchases(Tail(mail[p]), w) # {} <=> Purchases(mail[p], w) # {})
        /\ Tells(Tail(mail[p])) # {} <=> Tells(mail[p]) # {}
    BY <1>1, <1>2, RoundRead
  <2> QED
    BY <1>1, <2>1
<1>4. Purchases(mail[p], w) # {} => Waiting(queued[p], w) = {} /\ Targets(redirect[p]) = {}
  BY <1>2 DEF Stage
<1>5. CASE Fires(p, <<v>>) /\ UNCHANGED queued
  <2> DEFINE ws == <<v>>
  <2>1. ws \in Seq(Ware) /\ DOMAIN ws = {1} /\ ws[1] = v
    OBVIOUS
  <2> HIDE DEF ws
  <2>2. (Waiting(ws, w) # {} <=> v = w) /\ Single(ws, w)
    BY <1>3, <2>1 DEF Waiting, Single
  <2>3. /\ Waiting(ws, w) # {} => ToClick(p, w) /\ ~ToClick(p, w)'
        /\ ToClick(p, w)' => ToClick(p, w)
    BY <1>3, <1>4, <1>5, <2>2 DEF ToClick
  <2>4. /\ Single(queued'[p], w)
        /\ Purchases(mail'[p], w) # {} => Purchases(mail[p], w) # {} /\ Waiting(queued'[p], w) = {}
        /\ \A q \in Shopper \ {p} : mail'[q] = mail[q] /\ queued'[q] = queued[q]
        /\ UNCHANGED <<screen, watch, given>>
    BY <1>1, <1>2, <1>3, <1>4, <1>5
  <2>5. Fires(p, ws)
    BY <1>5 DEF ws
  <2> QED
    BY <1>3, <2>1, <2>2, <2>3, <2>4, <2>5, RoundFires
<1>6. CASE UNCHANGED <<shelf, opening, redirect>> /\ queued'[p] = Append(queued[p], v)
  <2>1. Single(queued'[p], w)
    BY <1>2, <1>3, <1>4, <1>6, SingleMore
  <2>2. Waiting(queued'[p], w) # {} <=> Waiting(queued[p], w) # {} \/ v = w
    <3>1. w \in Ware
      BY ShopParameters
    <3>2. Waiting(Append(queued[p], v), w) # {} <=> Waiting(queued[p], w) # {} \/ w = v
      BY <1>2, <3>1, WaitingMore
    <3> QED
      BY <1>6, <3>2
  <2>3. ToClick(p, w)' <=> ToClick(p, w)
    BY <1>3, <2>2 DEF ToClick
  <2>4. Purchases(mail'[p], w) # {} => Waiting(queued'[p], w) = {} /\ Targets(redirect'[p]) = {}
    BY <1>3, <1>4, <1>6, <2>2
  <2>5. Stage(p, w, k)'
    BY <1>1, <1>2, <1>3, <1>6, <2>1, <2>3, <2>4 DEF Stage
  <2>6. Elsewhere(p, w, b, k)
    BY <1>1, <1>6 DEF Elsewhere
  <2>7. (Undecided(p)' <=> Undecided(p)) /\ (Waits(p)' <=> Waits(p))
    BY <1>1, <1>6 DEF Undecided, Waits
  <2>8. WillHear(p, b)' <=> WillHear(p, b)
    BY <1>1, <1>3, <1>6 DEF WillHear
  <2>9. p # b => Hears(p, w, b, k)' /\ (opening[b] # <<>> => given'[p][w] = Nobody)
    <3>1. p # b => Hears(p, w, b, k)'
      BY <1>1, <1>3, <1>6, <2>3, <2>7, <2>8 DEF Hears, Round
    <3>2. opening[b] # <<>> => given'[p][w] = Nobody
      BY <1>1 DEF Round, Buyer
    <3> QED
      BY <3>1, <3>2
  <2>10. p = b => /\ Buyer(w, b, k)'
                  /\ opening'[b] # <<>> <=> opening[b] # <<>>
                  /\ \A q \in Shopper \ {b} : WillHear(q, b) => WillHear(q, b)'
    <3>1. p = b => Buyer(w, b, k)'
      BY <1>1, <1>3, <1>6, <2>3 DEF Round, Buyer
    <3>2. p = b => \A q \in Shopper \ {b} : WillHear(q, b) => WillHear(q, b)'
      BY <1>1, <1>6 DEF WillHear
    <3> QED
      BY <3>1, <3>2, <1>6
  <2> QED
    BY <2>5, <2>6, <2>9, <2>10, RoundKept
<1> QED
  BY <1>1, <1>5, <1>6

(* What stands on the screen that opens.                                   *)
LEMMA ScreenOpens ==
  ASSUME MirrorTypeOK, Sold, NEW p \in Shopper, OpenScreen(p), NEW w, opening[p] = <<w>>
  PROVE  /\ \E cat \in Kitten : screen'[p] = [ware |-> w, cat |-> cat, committed |-> FALSE]
         /\ screen'[p] # NoLevelUp /\ opening'[p] = <<>>
         /\ \A q \in Shopper \ {p} : opening'[q] = opening[q] /\ screen'[q] = screen[q]
         /\ UNCHANGED <<browsing, shelf, queued, watch, redirect, told, mail, given, spoilt>>
<1>1. UNCHANGED <<browsing, shelf, queued, watch, redirect, told, mail, given, spoilt>>
  BY DEF OpenScreen
<1>2. Head(<<w>>) = w /\ Tail(<<w>>) = <<>>
  OBVIOUS
<1>3. PICK rolled \in Kitten :
        screen' = [screen EXCEPT ![p] =
          [ware |-> Head(opening[p]),
           cat |-> IF Targets(redirect[p]) = {} THEN rolled ELSE KnownTarget(redirect[p]),
           committed |-> FALSE]]
  BY DEF OpenScreen
<1> DEFINE c == IF Targets(redirect[p]) = {} THEN rolled ELSE KnownTarget(redirect[p])
<1>4. c \in Kitten
  <2>1. CASE Targets(redirect[p]) = {}
    BY <2>1
  <2>2. CASE Targets(redirect[p]) # {}
    <3>1. redirect[p] \in [1 .. MaxRedirects -> RedirectState]
      BY DEF MirrorTypeOK
    <3>2. \E i \in Targets(redirect[p]) : KnownTarget(redirect[p]) = redirect[p][i]
      BY <2>2, <3>1, TargetFound
    <3>3. KnownTarget(redirect[p]) \in Kitten
      BY <3>2 DEF Targets
    <3> QED
      BY <2>2, <3>3
  <2> QED
    BY <2>1, <2>2
<1> HIDE DEF c
<1>5. screen' = [screen EXCEPT ![p] = [ware |-> w, cat |-> c, committed |-> FALSE]]
  BY <1>2, <1>3 DEF c
<1>6. /\ screen'[p] = [ware |-> w, cat |-> c, committed |-> FALSE]
      /\ \A q \in Shopper \ {p} : screen'[q] = screen[q]
  BY <1>5 DEF MirrorTypeOK
<1>7. opening'[p] = <<>> /\ \A q \in Shopper \ {p} : opening'[q] = opening[q]
  BY <1>2 DEF OpenScreen, MirrorTypeOK
<1>8. screen'[p] # NoLevelUp
  <2>1. opening[p] \in Seq(Candy)
    BY DEF MirrorTypeOK
  <2>2. w \in Candy
    BY <2>1
  <2>3. screen'[p] \in LevelUpScreen
    BY <1>4, <1>6, <2>2 DEF LevelUpScreen
  <2> QED
    BY <2>3, ShopNothings
<1> QED
  BY <1>1, <1>4, <1>6, <1>7, <1>8

LEMMA RoundOpenScreen ==
  ASSUME MirrorTypeOK, Sold, NEW w \in Candy, NEW b \in Shopper, NEW k, NEW p \in Shopper,
         Round(w, b, k), OpenScreen(p), p # b
  PROVE  Round(w, b, k)'
<1>1. Stage(p, w, k) /\ Hears(p, w, b, k) /\ screen[p] = NoLevelUp /\ opening[p] = <<w>>
  BY DEF Round, Stage, OpenScreen
<1>2. PICK cat \in Kitten : screen'[p] = [ware |-> w, cat |-> cat, committed |-> FALSE]
  BY <1>1, ScreenOpens
<1>3. /\ screen'[p] # NoLevelUp /\ opening'[p] = <<>>
      /\ \A q \in Shopper \ {p} : opening'[q] = opening[q] /\ screen'[q] = screen[q]
      /\ UNCHANGED <<browsing, shelf, queued, watch, redirect, told, mail, given, spoilt>>
  BY <1>1, ScreenOpens
<1>4. <<w>> # <<>>
  OBVIOUS
<1>5. ~ToClick(p, w) /\ ~ToClick(p, w)'
  BY <1>1, <1>3, <1>4 DEF Stage, ToClick
<1>6. Stage(p, w, k)'
  BY <1>1, <1>2, <1>3, <1>5 DEF Stage
<1>7. Elsewhere(p, w, b, k)
  BY <1>3 DEF Elsewhere
<1>8. Hears(p, w, b, k)'
  <2>1. (WillHear(p, b)' <=> WillHear(p, b)) /\ (Waits(p)' <=> Waits(p))
    BY <1>3 DEF WillHear, Waits
  <2> QED
    BY <1>1, <1>3, <1>4, <1>5, <2>1 DEF Hears
<1>9. opening[b] # <<>> => given'[p][w] = Nobody
  BY <1>3 DEF Round, Buyer
<1> QED
  BY <1>6, <1>7, <1>8, <1>9, RoundKept

(* The buyer's screen: the cat is rolled.                                  *)
LEMMA RoundRolls ==
  ASSUME MirrorTypeOK, Sold, NEW w \in Candy, NEW b \in Shopper, NEW k,
         Round(w, b, k), OpenScreen(b)
  PROVE  \E cat \in Kitten : Round(w, b, cat)'
<1>1. Stage(b, w, k) /\ Buyer(w, b, k) /\ screen[b] = NoLevelUp /\ opening[b] = <<w>>
  BY DEF Round, Stage, OpenScreen
<1>2. PICK cat \in Kitten : screen'[b] = [ware |-> w, cat |-> cat, committed |-> FALSE]
  BY <1>1, ScreenOpens
<1>3. /\ screen'[b] # NoLevelUp /\ opening'[b] = <<>>
      /\ \A q \in Shopper \ {b} : opening'[q] = opening[q] /\ screen'[q] = screen[q]
      /\ UNCHANGED <<browsing, shelf, queued, watch, redirect, told, mail, given, spoilt>>
  BY <1>1, ScreenOpens
<1>4. opening[b] # <<>>
  BY <1>1
<1>5. \A q \in Shopper : /\ Tells(mail[q]) = {} /\ Targets(redirect[q]) = {}
                         /\ given[q][w] = Nobody
  BY <1>1, <1>4 DEF Round, Buyer, Hears
<1>6. watch[b] # <<>>
  BY <1>1, <1>4 DEF Buyer
<1>7. \A q \in Shopper : ToClick(q, w)' <=> ToClick(q, w)
  BY <1>3 DEF ToClick
<1>8. Buyer(w, b, cat)'
  BY <1>1, <1>2, <1>3, <1>7 DEF Buyer
<1>9. ASSUME NEW q \in Shopper PROVE Stage(q, w, cat)'
  <2>1. Stage(q, w, k) /\ InOrder(mail[q], w, cat)
    BY <1>5 DEF Round, Stage, InOrder
  <2>2. opening'[q] \in {<<>>, <<w>>} /\ (ToClick(q, w)' => opening'[q] = <<>>)
    BY <1>3, <1>7, <2>1 DEF Stage
  <2>3. ToClick(q, w)' \/ opening'[q] # <<>> => screen'[q] = NoLevelUp
    BY <1>1, <1>3, <1>7, <2>1 DEF Stage, Buyer
  <2>4. screen'[q] # NoLevelUp => screen'[q].ware = w
    BY <1>2, <1>3, <2>1 DEF Stage
  <2> QED
    BY <1>3, <1>5, <2>1, <2>2, <2>3, <2>4 DEF Stage
<1>10. ASSUME NEW q \in Shopper \ {b} PROVE Hears(q, w, b, cat)'
  <2>1. Hears(q, w, b, k)
    BY DEF Round
  <2>2. WillHear(q, b)' /\ (Waits(q)' <=> Waits(q)) /\ (Undecided(q)' <=> Undecided(q))
    BY <1>3, <1>6 DEF WillHear, Waits, Undecided
  <2>3. opening[q] # <<>> \/ Undecided(q) => Waits(q)
    BY <1>4, <1>5, <2>1 DEF Hears
  <2> QED
    BY <1>3, <2>1, <2>2, <2>3 DEF Hears
<1>11. Round(w, b, cat)'
  BY <1>8, <1>9, <1>10 DEF Round
<1> QED
  BY <1>11

LEMMA RoundScreenGone ==
  ASSUME MirrorTypeOK, NEW w \in Candy, NEW b \in Shopper, NEW k, NEW p \in Shopper,
         Round(w, b, k), ScreenGone(p)
  PROVE  Round(w, b, k)'
<1>1. /\ Stage(p, w, k) /\ screen[p] # NoLevelUp /\ screen'[p] = NoLevelUp
      /\ \A q \in Shopper \ {p} : screen'[q] = screen[q]
      /\ UNCHANGED <<browsing, shelf, opening, queued, watch, redirect, told, mail, given, spoilt>>
  BY DEF Round, ScreenGone, MirrorTypeOK
<1>2. watch[p] = <<>>
  BY <1>1, WatchesSee DEF ScreenGone
<1>3. opening[p] = <<>> /\ ~ToClick(p, w) /\ ~ToClick(p, w)'
  BY <1>1 DEF Stage, ToClick
<1>4. Stage(p, w, k)'
  BY <1>1, <1>3 DEF Stage
<1>5. Elsewhere(p, w, b, k)
  BY <1>1 DEF Elsewhere
<1>6. CASE p # b
  <2>1. ~Undecided(p)'
    BY <1>1 DEF Undecided
  <2>2. Hears(p, w, b, k)'
    BY <1>1, <1>3, <1>6, <2>1 DEF Round, Hears
  <2>3. opening[b] # <<>> => given'[p][w] = Nobody
    BY <1>1 DEF Round, Buyer
  <2> QED
    BY <1>4, <1>5, <1>6, <2>2, <2>3, RoundKept
<1>7. CASE p = b
  <2>1. Buyer(w, b, k)'
    BY <1>1, <1>3, <1>7 DEF Round, Buyer
  <2>2. \A q \in Shopper \ {b} : WillHear(q, b) => WillHear(q, b)'
    BY <1>1, <1>2, <1>7 DEF WillHear
  <2> QED
    BY <1>1, <1>4, <1>5, <1>7, <2>1, <2>2, RoundKept
<1> QED
  BY <1>6, <1>7

LEMMA RoundFrameTick ==
  ASSUME MirrorTypeOK, NEW w \in Candy, NEW b \in Shopper, NEW k, NEW p \in Shopper,
         Round(w, b, k), FrameTick(p)
  PROVE  Round(w, b, k)'
<1> DEFINE cat == Redirected(redirect[p], screen[p].cat)
<1>1. /\ Stage(p, w, k) /\ screen[p] # NoLevelUp /\ screen[p] \in LevelUpScreen
      /\ redirect[p] \in [1 .. MaxRedirects -> RedirectState]
  BY ScreensAre, FrameTickIs DEF Round, MirrorTypeOK
<1>2. /\ mail' = Mailed(p, Told(p)) /\ cat \in Kitten
      /\ UNCHANGED <<browsing, shelf, opening, queued, told, given, spoilt>>
  BY FrameTickIs
<1>3. watch'[p] = <<>> /\ \A q \in Shopper \ {p} : watch'[q] = watch[q]
  BY FrameTickIs DEF MirrorTypeOK
<1>4. screen'[p] = [screen[p] EXCEPT !.cat = cat] /\ \A q \in Shopper \ {p} : screen'[q] = screen[q]
  <2>1. screen' = [screen EXCEPT ![p].cat = Redirected(redirect[p], screen[p].cat)]
    BY FrameTickIs
  <2> QED
    BY <2>1 DEF MirrorTypeOK
<1>5. /\ redirect'[p] = [i \in 1 .. MaxRedirects |->
                           IF redirect[p][i] \in Kitten THEN Unused ELSE redirect[p][i]]
      /\ \A q \in Shopper \ {p} : redirect'[q] = redirect[q]
  <2>1. redirect' = [redirect EXCEPT ![p] =
          [i \in 1 .. MaxRedirects |-> IF @[i] \in Kitten THEN Unused ELSE @[i]]]
    BY FrameTickIs
  <2> QED
    BY <2>1 DEF MirrorTypeOK
<1>6. Targets(redirect'[p]) = {}
  BY <1>5, ShopNothings DEF Targets
<1> HIDE DEF cat
<1>7. /\ screen'[p] # NoLevelUp /\ screen'[p].ware = screen[p].ware
      /\ screen'[p].cat = cat /\ screen'[p].committed = screen[p].committed
  <2>1. screen'[p] \in LevelUpScreen
    BY <1>1, <1>2, <1>4 DEF LevelUpScreen
  <2> QED
    BY <1>1, <1>4, <2>1, ShopNothings DEF LevelUpScreen
<1>8. /\ mail'[p] = mail[p] /\ Told(p) \in Seq(Letters)
      /\ \A q \in Shopper \ {p} : mail'[q] = mail[q] \o Told(p)
  <2>1. Told(p) \in Seq(Letters)
    BY <1>1, ToldIs
  <2> QED
    BY <1>2, <2>1, MailedIs
<1>9. opening[p] = <<>> /\ ~ToClick(p, w) /\ ~ToClick(p, w)'
  BY <1>1, <1>2, <1>8 DEF Stage, ToClick
<1>10. Stage(p, w, k)'
  BY <1>1, <1>2, <1>6, <1>7, <1>8, <1>9 DEF Stage
<1>11. CASE p # b
  <2>1. Hears(p, w, b, k) /\ watch[p] = <<>>
    BY <1>11 DEF Round, Hears
  <2>2. Told(p) = <<>>
    BY <1>1, <2>1, ToldIs
  <2>3. \A q \in Shopper : mail'[q] = mail[q]
    <3> TAKE q \in Shopper
    <3>1. mail[q] \in Seq(Letters)
      BY DEF MirrorTypeOK
    <3>2. mail[q] \o <<>> = mail[q]
      BY <3>1, ConcatEmptySeq
    <3> QED
      BY <1>8, <2>2, <3>2
  <2>4. Elsewhere(p, w, b, k)
    BY <1>2, <1>3, <1>4, <1>5, <2>3 DEF Elsewhere
  <2>5. Seeing(p) = <<>>
    BY <1>1, <2>1, WatchesSee
  <2>6. Targets(redirect[p]) # {}
    BY <2>5 DEF FrameTick
  <2>7. cat = k
    <3>1. \E i \in Targets(redirect[p]) : cat = redirect[p][i]
      BY <1>1, <2>6, TargetFound DEF cat
    <3> QED
      BY <1>1, <3>1 DEF Stage
  <2>8. opening[b] = <<>>
    BY <2>1, <2>6 DEF Hears
  <2>9. Hears(p, w, b, k)'
    BY <1>2, <1>3, <1>7, <1>9, <2>7, <2>8 DEF Hears
  <2> QED
    BY <1>10, <1>11, <2>4, <2>8, <2>9, RoundKept
<1>12. CASE p = b
  <2>1. Targets(redirect[p]) = {} /\ screen[p].cat = k
    BY <1>1, <1>12 DEF Round, Buyer
  <2>2. cat = k
    BY <2>1 DEF cat, Redirected
  <2>3. /\ \A v \in Ware : Purchases(Told(p), v) = {}
        /\ watch[p] # <<>> => Tells(Told(p)) # {}
        /\ \A v : InOrder(Told(p), v, screen[p].cat)
    BY <1>1, ToldIs
  <2>4. w \in Ware
    BY ShopParameters
  <2>5. InOrder(Told(p), w, k) /\ Purchases(Told(p), w) = {}
    BY <2>1, <2>3, <2>4
  <2>6. Elsewhere(p, w, b, k)
    BY <1>2, <1>3, <1>4, <1>5, <1>8, <1>9, <1>12, <2>5 DEF Elsewhere
  <2>7. Buyer(w, b, k)'
    BY <1>2, <1>6, <1>7, <1>8, <1>9, <1>12, <2>2 DEF Round, Buyer
  <2>8. ASSUME NEW q \in Shopper \ {b}, WillHear(q, b) PROVE WillHear(q, b)'
    <3>1. mail[q] \in Seq(Letters) /\ mail'[q] = mail[q] \o Told(p)
      BY <1>8, <1>12 DEF MirrorTypeOK
    <3>2. Tells(mail[q] \o Told(p)) # {} <=> Tells(mail[q]) # {} \/ Tells(Told(p)) # {}
      BY <1>8, <3>1, SomeWritten
    <3>3. watch[b] # <<>> \/ Tells(mail[q]) # {}
      BY <2>8 DEF WillHear
    <3> QED
      BY <1>12, <2>3, <3>1, <3>2, <3>3 DEF WillHear
  <2> QED
    BY <1>2, <1>10, <1>12, <2>6, <2>7, <2>8, RoundKept
<1> QED
  BY <1>11, <1>12

LEMMA RoundTarget ==
  ASSUME MirrorTypeOK, NEW w \in Candy, NEW b \in Shopper, NEW k, NEW p \in Shopper,
         Round(w, b, k), OnLevelUpTarget(p)
  PROVE  Round(w, b, k)'
<1>1. /\ Stage(p, w, k) /\ InOrder(mail[p], w, k) /\ mail[p] \in Seq(Letters)
      /\ mail[p] # <<>> /\ Head(mail[p]).type = "LEVELUPTARGET"
  BY DEF Round, Stage, OnLevelUpTarget, MirrorTypeOK
<1>2. /\ mail'[p] = Tail(mail[p]) /\ \A q \in Shopper \ {p} : mail'[q] = mail[q]
      /\ UNCHANGED <<browsing, shelf, opening, screen, queued, watch, told, given, spoilt>>
  BY <1>1, MailRead DEF OnLevelUpTarget
<1>3. /\ Targets(redirect'[p]) # {}
      /\ \A i \in 1 .. MaxRedirects :
           redirect'[p][i] = redirect[p][i] \/ redirect'[p][i] = Head(mail[p]).cat
      /\ \A q \in Shopper \ {p} : redirect'[q] = redirect[q]
      /\ redirect'[p] \in [1 .. MaxRedirects -> RedirectState]
      /\ redirect[p] \in [1 .. MaxRedirects -> RedirectState]
  BY TargetHeard DEF MirrorTypeOK
<1>4. InOrder(Tail(mail[p]), w, k) /\ (Purchases(Tail(mail[p]), w) # {} => Purchases(mail[p], w) # {})
  BY <1>1, OneRead
<1>5. Tells(mail[p]) # {} /\ Purchases(mail[p], w) = {} /\ Head(mail[p]).cat = k
  <2>1. Head(mail[p]).type = "LEVELUPTARGET" =>
          Tells(mail[p]) # {}
            /\ (InOrder(mail[p], w, k) => Purchases(mail[p], w) = {} /\ Head(mail[p]).cat = k)
    BY <1>1, OneRead
  <2> QED
    BY <1>1, <2>1
<1>6. p # b
  BY <1>5 DEF Round, Buyer
<1>7. Purchases(mail'[p], w) = {} /\ (ToClick(p, w)' <=> ToClick(p, w))
  BY <1>2, <1>4, <1>5 DEF ToClick
<1>8. \A i \in Targets(redirect'[p]) : redirect'[p][i] = k
  <2> TAKE i \in Targets(redirect'[p])
  <2>1. i \in 1 .. MaxRedirects /\ redirect'[p][i] \in Kitten
    BY <1>3 DEF Targets
  <2>2. redirect'[p][i] = redirect[p][i] => i \in Targets(redirect[p])
    BY <1>3, <2>1 DEF Targets
  <2>3. i \in Targets(redirect[p]) => redirect[p][i] = k
    BY <1>1 DEF Stage
  <2> QED
    BY <1>3, <1>5, <2>1, <2>2, <2>3
<1>9. Stage(p, w, k)'
  BY <1>1, <1>2, <1>4, <1>7, <1>8 DEF Stage
<1>10. Elsewhere(p, w, b, k)
  BY <1>2, <1>3 DEF Elsewhere
<1>11. Hears(p, w, b, k) /\ opening[b] = <<>>
  BY <1>5, <1>6 DEF Round, Hears
<1>12. Hears(p, w, b, k)'
  BY <1>2, <1>3, <1>11 DEF Hears
<1> QED
  BY <1>6, <1>9, <1>10, <1>11, <1>12, RoundKept

LEMMA RoundChoice ==
  ASSUME MirrorTypeOK, NEW w \in Candy, NEW b \in Shopper, NEW k, NEW p \in Shopper,
         Round(w, b, k), OnLevelUpChoice(p)
  PROVE  Round(w, b, k)'
<1>1. /\ Stage(p, w, k) /\ InOrder(mail[p], w, k) /\ mail[p] \in Seq(Letters)
      /\ mail[p] # <<>> /\ Head(mail[p]).type = "CHOICE"
  BY DEF Round, Stage, OnLevelUpChoice, MirrorTypeOK
<1>2. /\ mail'[p] = Tail(mail[p]) /\ \A q \in Shopper \ {p} : mail'[q] = mail[q]
      /\ UNCHANGED <<browsing, shelf, opening, screen, queued, watch, redirect, given, spoilt>>
  BY <1>1, MailRead DEF OnLevelUpChoice
<1>3. Head(mail[p]) # ShopBuy(w)
  BY <1>1 DEF ShopBuy
<1>4. /\ InOrder(Tail(mail[p]), w, k)
      /\ Purchases(Tail(mail[p]), w) # {} => Purchases(mail[p], w) # {}
      /\ Tells(Tail(mail[p])) # {} => Tells(mail[p]) # {}
  BY <1>1, OneRead
<1>5. Purchases(mail[p], w) # {} => Head(mail[p]) = ShopBuy(w) \/ Purchases(Tail(mail[p]), w) # {}
  BY <1>1, OneRead
<1>6. Tells(mail[p]) # {} => Head(mail[p]).type = "LEVELUPTARGET" \/ Tells(Tail(mail[p])) # {}
  BY <1>1, OneRead
<1>7. /\ Purchases(mail'[p], w) # {} <=> Purchases(mail[p], w) # {}
      /\ Tells(mail'[p]) # {} <=> Tells(mail[p]) # {}
  BY <1>1, <1>2, <1>3, <1>4, <1>5, <1>6
<1>8. ToClick(p, w)' <=> ToClick(p, w)
  BY <1>2, <1>7 DEF ToClick
<1>9. Stage(p, w, k)'
  BY <1>1, <1>2, <1>4, <1>7, <1>8 DEF Stage
<1>10. Elsewhere(p, w, b, k)
  BY <1>2 DEF Elsewhere
<1>11. CASE p # b
  <2>1. /\ WillHear(p, b)' <=> WillHear(p, b)
        /\ (Waits(p)' <=> Waits(p)) /\ (Undecided(p)' <=> Undecided(p))
    BY <1>2, <1>7 DEF WillHear, Waits, Undecided
  <2>2. Hears(p, w, b, k)'
    BY <1>2, <1>7, <1>8, <1>11, <2>1 DEF Round, Hears
  <2>3. opening[b] # <<>> => given'[p][w] = Nobody
    BY <1>2 DEF Round, Buyer
  <2> QED
    BY <1>9, <1>10, <1>11, <2>2, <2>3, RoundKept
<1>12. CASE p = b
  <2>1. Buyer(w, b, k)'
    BY <1>2, <1>7, <1>8, <1>12 DEF Round, Buyer
  <2>2. \A q \in Shopper \ {b} : WillHear(q, b) => WillHear(q, b)'
    BY <1>2, <1>12 DEF WillHear
  <2> QED
    BY <1>2, <1>9, <1>10, <1>12, <2>1, <2>2, RoundKept
<1> QED
  BY <1>11, <1>12

(* A decision: nobody who waits to hear a cat decides.                     *)
LEMMA RoundCommits ==
  ASSUME MirrorTypeOK, NEW w \in Candy, NEW b \in Shopper, NEW k, NEW p \in Shopper,
         Round(w, b, k), Undecided(p), ~RedirectPending(p), Commits(p),
         UNCHANGED <<shelf, opening, queued, watch, redirect>>,
         UNCHANGED mail \/ mail' = Mailed(p, <<LevelUpChoice>>)
  PROVE  /\ Round(w, b, k)'
         /\ given'[p][w] = k /\ \A v \in Candy : v # w => given'[p][v] = given[p][v]
         /\ \A q \in Shopper \ {p} : given'[q] = given[q]
<1>1. Stage(p, w, k) /\ screen[p] # NoLevelUp /\ screen[p].ware = w
  BY DEF Round, Stage, Undecided
<1>2. /\ screen'[p] # NoLevelUp /\ screen'[p].ware = w
      /\ screen'[p].cat = screen[p].cat /\ screen'[p].committed
      /\ given'[p][w] = screen[p].cat
      /\ \A v \in Candy : v # w => given'[p][v] = given[p][v]
      /\ \A q \in Shopper \ {p} : screen'[q] = screen[q] /\ given'[q] = given[q]
  BY <1>1, Committed
<1>3. Targets(redirect[p]) = {} /\ ~Waits(p)
  <2>1. redirect[p] \in [1 .. MaxRedirects -> RedirectState]
    BY DEF MirrorTypeOK
  <2>2. \A i \in 1 .. MaxRedirects : redirect[p][i] = Unused
    BY DEF RedirectPending
  <2> QED
    BY <2>1, <2>2, ShopNothings DEF Targets, Waits
<1>4. screen[p].cat = k /\ opening[b] = <<>>
  <2>1. CASE p = b
    BY <1>1, <2>1 DEF Round, Buyer, Stage
  <2>2. CASE p # b
    BY <1>3, <2>2 DEF Round, Hears
  <2> QED
    BY <2>1, <2>2
<1>5. /\ <<LevelUpChoice>> \in Seq(Letters) /\ InOrder(<<LevelUpChoice>>, w, k)
      /\ Purchases(<<LevelUpChoice>>, w) = {} /\ Tells(<<LevelUpChoice>>) = {}
  <2>1. LevelUpChoice \in Letters /\ LevelUpChoice # ShopBuy(w) /\ LevelUpChoice.type = "CHOICE"
    BY LettersAre DEF LevelUpChoice, ShopBuy
  <2>2. InOrder(<<LevelUpChoice>>, w, k)
    <3>1. /\ LevelUpChoice.type = "SHOPBUY" /\ LevelUpChoice.ware \in Candy => LevelUpChoice.ware = w
          /\ LevelUpChoice.type = "LEVELUPTARGET" => LevelUpChoice.cat = k
      BY <2>1
    <3> QED
      BY <2>1, <3>1, OneLetter
  <2>3. Tells(<<LevelUpChoice>>) # {} <=> LevelUpChoice.type = "LEVELUPTARGET"
    BY <2>1, OneLetter
  <2>4. Purchases(<<LevelUpChoice>>, w) # {} <=> LevelUpChoice = ShopBuy(w)
    BY <2>1, OneLetter
  <2>5. <<LevelUpChoice>> \in Seq(Letters)
    BY <2>1, OneLetter
  <2> QED
    BY <2>1, <2>2, <2>3, <2>4, <2>5
<1>6. /\ mail'[p] = mail[p]
      /\ \A q \in Shopper \ {p} : mail'[q] = mail[q] \/ mail'[q] = mail[q] \o <<LevelUpChoice>>
  <2>1. CASE UNCHANGED mail
    BY <2>1
  <2>2. CASE mail' = Mailed(p, <<LevelUpChoice>>)
    <3>1. mail'[p] = mail[p] /\ \A q \in Shopper \ {p} : mail'[q] = mail[q] \o <<LevelUpChoice>>
      BY <1>5, <2>2, MailedIs
    <3> QED
      BY <3>1
  <2> QED
    BY <2>1, <2>2
<1>7. Elsewhere(p, w, b, k)
  BY <1>2, <1>5, <1>6 DEF Elsewhere
<1>8. ToClick(p, w)' <=> ToClick(p, w)
  BY <1>6 DEF ToClick
<1>9. Stage(p, w, k)'
  BY <1>1, <1>2, <1>4, <1>6, <1>8 DEF Stage
<1>10. CASE p # b
  <2>1. ~Undecided(p)' /\ opening'[p] = <<>> /\ ~ToClick(p, w)'
    BY <1>1, <1>2, <1>8 DEF Undecided, Stage
  <2>2. Hears(p, w, b, k)'
    BY <1>4, <1>6, <1>10, <2>1 DEF Round, Hears
  <2>3. Round(w, b, k)'
    BY <1>4, <1>7, <1>9, <1>10, <2>2, RoundKept
  <2> QED
    BY <1>2, <1>4, <2>3
<1>11. CASE p = b
  <2>1. Buyer(w, b, k)'
    BY <1>2, <1>4, <1>6, <1>8, <1>11 DEF Round, Buyer
  <2>2. ASSUME NEW q \in Shopper \ {b}, WillHear(q, b) PROVE WillHear(q, b)'
    <3>1. Tells(mail[q]) # {} => Tells(mail'[q]) # {}
      <4>1. q \in Shopper \ {p} /\ InOrder(mail[q], w, k)
        BY <1>11 DEF Round, Stage
      <4>2. MailKept(p, q, w, b, k)
        BY <1>7, <4>1, ElsewhereMail
      <4> QED
        BY <4>2 DEF MailKept
    <3>2. screen'[b] # NoLevelUp
      BY <1>2, <1>11
    <3> QED
      BY <2>2, <3>1, <3>2 DEF WillHear
  <2>3. Round(w, b, k)'
    BY <1>7, <1>9, <1>11, <2>1, <2>2, RoundKept
  <2> QED
    BY <1>2, <1>4, <2>3
<1> QED
  BY <1>10, <1>11

LEMMA RoundWatchExpires ==
  ASSUME MirrorTypeOK, NEW w \in Candy, NEW b \in Shopper, NEW k, NEW p \in Shopper,
         Round(w, b, k), WatchExpires(p), ~spoilt'
  PROVE  Round(w, b, k)'
<1>1. /\ watch[p] # <<>> /\ Head(watch[p]) = Showing(p) /\ opening[p] = <<>>
      /\ UNCHANGED <<browsing, shelf, opening, screen, queued, redirect, told, mail, given>>
      /\ \A q \in Shopper \ {p} : watch'[q] = watch[q]
  BY DEF WatchExpires, MirrorTypeOK
<1>2. screen[p] = NoLevelUp
  <2>1. watch[p] \in Seq({NoLevelUp})
    BY DEF MirrorTypeOK
  <2>2. Head(watch[p]) = NoLevelUp
    BY <1>1, <2>1, FirstOne
  <2> QED
    BY <1>1, <2>2, ScreensAre
<1>3. p = b
  BY <1>1 DEF Round, Hears
<1>4. Stage(p, w, k)'
  BY <1>1 DEF Round, Stage, ToClick
<1>5. Elsewhere(p, w, b, k)
  BY <1>1 DEF Elsewhere
<1>6. Buyer(w, b, k)'
  BY <1>1, <1>3 DEF Round, Buyer, ToClick
<1>7. \A q \in Shopper \ {b} : WillHear(q, b) => WillHear(q, b)'
  BY <1>1, <1>2, <1>3 DEF WillHear
<1> QED
  BY <1>1, <1>3, <1>4, <1>5, <1>6, <1>7, RoundKept

LEMMA HearingAnnounced ==
  ASSUME MirrorTypeOK, NEW p \in Shopper, NEW b \in Shopper \ {p}, WillHear(p, b)
  PROVE  Announcing(p)
<1>1. CASE watch[b] # <<>> /\ (opening[b] # <<>> \/ screen[b] # NoLevelUp)
  BY <1>1 DEF Announcing
<1>2. CASE Tells(mail[p]) # {}
  <2>1. PICK i \in DOMAIN mail[p] : mail[p][i].type = "LEVELUPTARGET"
    BY <1>2 DEF Tells
  <2>2. mail[p][i] \in Letters
    BY <2>1 DEF MirrorTypeOK
  <2>3. mail[p][i].cat \in Kitten /\ mail[p][i] = LevelUpTarget(mail[p][i].cat)
    BY <2>1, <2>2 DEF Letters, LevelUpTarget
  <2>4. DOMAIN mail[p] = 1 .. Len(mail[p])
    BY LenProperties DEF MirrorTypeOK
  <2>5. Contains(mail[p], LevelUpTarget(mail[p][i].cat))
    BY <2>1, <2>3, <2>4 DEF Contains
  <2> QED
    BY <2>3, <2>5 DEF Announcing
<1> QED
  BY <1>1, <1>2 DEF WillHear

LEMMA RoundRedirectExpires ==
  ASSUME MirrorTypeOK, NEW w \in Candy, NEW b \in Shopper, NEW k, NEW p \in Shopper,
         Round(w, b, k), NEW i \in 1 .. MaxRedirects, RedirectExpires(p, i), ~spoilt'
  PROVE  Round(w, b, k)'
<1>1. /\ UNCHANGED <<browsing, shelf, opening, screen, queued, watch, told, mail, given>>
      /\ ~(redirect[p][i] = Untold /\ Announcing(p))
      /\ ~(redirect[p][i] \in Kitten /\ (opening[p] # <<>> \/ queued[p] # <<>>))
      /\ redirect[p][i] # Unused /\ (screen[p] = NoLevelUp \/ redirect[p][i] = Untold)
  BY DEF RedirectExpires, MayExpire
<1>2. /\ redirect[p] \in [1 .. MaxRedirects -> RedirectState]
      /\ redirect'[p] = [redirect[p] EXCEPT ![i] = Unused]
      /\ \A q \in Shopper \ {p} : redirect'[q] = redirect[q]
  BY DEF RedirectExpires, MirrorTypeOK
<1>3. /\ Targets(redirect'[p]) = Targets(redirect[p]) \ {i}
      /\ \A j \in Targets(redirect'[p]) : redirect'[p][j] = redirect[p][j]
  BY <1>2, ShopNothings DEF Targets
<1>4. Stage(p, w, k)
  BY DEF Round
<1>5. ToClick(p, w)' <=> ToClick(p, w)
  BY <1>1 DEF ToClick
<1>6. Stage(p, w, k)'
  BY <1>1, <1>3, <1>4, <1>5 DEF Stage
<1>7. Elsewhere(p, w, b, k)
  BY <1>1, <1>2 DEF Elsewhere
<1>8. CASE p = b
  <2>1. Buyer(w, b, k)'
    BY <1>1, <1>3, <1>5, <1>8 DEF Round, Buyer
  <2>2. \A q \in Shopper \ {b} : WillHear(q, b) => WillHear(q, b)'
    BY <1>1 DEF WillHear
  <2> QED
    BY <1>1, <1>6, <1>7, <1>8, <2>1, <2>2, RoundKept
<1>9. CASE p # b
  <2>1. Hears(p, w, b, k) /\ (Undecided(p)' <=> Undecided(p)) /\ (WillHear(p, b)' <=> WillHear(p, b))
    BY <1>1, <1>9 DEF Round, Undecided, WillHear
  <2>2. opening[b] # <<>> => given'[p][w] = Nobody
    BY <1>1 DEF Round, Buyer
  <2>3. CASE redirect[p][i] = Untold
    <3>1. ~WillHear(p, b)
      BY <1>1, <1>9, <2>3, HearingAnnounced
    <3>2. Targets(redirect'[p]) = Targets(redirect[p])
      BY <1>3, <2>3, ShopNothings DEF Targets
    <3>3. Hears(p, w, b, k)'
      BY <1>1, <1>5, <2>1, <3>1, <3>2 DEF Hears
    <3> QED
      BY <1>6, <1>7, <1>9, <2>2, <3>3, RoundKept
  <2>4. CASE redirect[p][i] \in Kitten
    <3>1. screen[p] = NoLevelUp /\ opening[p] = <<>> /\ queued[p] = <<>>
      BY <1>1, <2>4, ShopNothings
    <3>2. i \in Targets(redirect[p])
      BY <1>2, <2>4 DEF Targets
    <3>3. ~ToClick(p, w)
      <4>1. DOMAIN <<>> = {}
        OBVIOUS
      <4> QED
        BY <1>4, <3>1, <3>2, <4>1 DEF Stage, ToClick, Waiting
    <3>4. ~Undecided(p)'
      BY <2>1, <3>1 DEF Undecided
    <3>5. Hears(p, w, b, k)'
      BY <1>1, <1>3, <1>5, <2>1, <3>1, <3>3, <3>4 DEF Hears
    <3> QED
      BY <1>6, <1>7, <1>9, <2>2, <3>5, RoundKept
  <2> QED
    BY <1>1, <1>2, <2>3, <2>4 DEF RedirectState
<1> QED
  BY <1>8, <1>9

-------------------------------------------------------------------------------
(* No candy at all, and the first one.                                     *)

LEMMA CalmIs ==
  ASSUME MirrorTypeOK, ~CandyUnderWay, NEW q \in Shopper
  PROVE  CalmAt(q)
<1>1. /\ opening[q] = <<>> /\ screen[q] = NoLevelUp /\ Targets(redirect[q]) = {}
      /\ \A k \in Kitten : ~Contains(mail[q], LevelUpTarget(k))
      /\ \A w \in Candy : ~Contains(queued[q], w) /\ ~Contains(mail[q], ShopBuy(w))
  BY DEF CandyUnderWay
<1>2. mail[q] \in Seq(Letters) /\ queued[q] \in Seq(Ware)
  BY DEF MirrorTypeOK
<1>3. DOMAIN mail[q] = 1 .. Len(mail[q]) /\ DOMAIN queued[q] = 1 .. Len(queued[q])
  BY <1>2, LenProperties
<1>4. Tells(mail[q]) = {}
  <2> SUFFICES ASSUME NEW i \in DOMAIN mail[q], mail[q][i].type = "LEVELUPTARGET" PROVE FALSE
    BY DEF Tells
  <2>1. mail[q][i] \in Letters
    BY <1>2
  <2>2. mail[q][i].cat \in Kitten /\ mail[q][i] = LevelUpTarget(mail[q][i].cat)
    BY <2>1 DEF Letters, LevelUpTarget
  <2> QED
    BY <1>1, <1>3, <2>2 DEF Contains
<1>5. \A w \in Candy : Purchases(mail[q], w) = {} /\ Waiting(queued[q], w) = {}
  BY <1>1, <1>3 DEF Contains, Purchases, Waiting
<1> QED
  BY <1>1, <1>4, <1>5 DEF CalmAt, ToClick

LEMMA CalmElsewhere ==
  ASSUME \A q \in Shopper : CalmAt(q), NEW p,
         \A q \in Shopper \ {p} : /\ opening'[q] = opening[q] /\ screen'[q] = screen[q]
                                  /\ redirect'[q] = redirect[q] /\ mail'[q] = mail[q]
                                  /\ queued'[q] = queued[q],
         CalmAt(p)'
  PROVE  \A q \in Shopper : CalmAt(q)'
<1> TAKE q \in Shopper
<1>1. CASE q = p
  BY <1>1
<1>2. CASE q # p
  <2>1. \A w \in Candy : ToClick(q, w)' <=> ToClick(q, w)
    BY <1>2 DEF ToClick
  <2> QED
    BY <1>2, <2>1 DEF CalmAt
<1> QED
  BY <1>1, <1>2

LEMMA CalmFires ==
  ASSUME MirrorTypeOK, \A q \in Shopper : CalmAt(q), NEW p \in Shopper,
         NEW ws \in Seq(Ware), Fires(p, ws), \A i \in DOMAIN ws : ws[i] \notin Candy,
         \A q \in Shopper \ {p} : mail'[q] = mail[q] /\ queued'[q] = queued[q],
         Tells(mail'[p]) = {}, \A w \in Candy : ToClick(p, w)' => ToClick(p, w),
         UNCHANGED screen
  PROVE  \A q \in Shopper : CalmAt(q)'
<1>1. /\ opening'[p] = opening[p] \o Among(ws, Candy)
      /\ redirect'[p] = Armed(redirect[p], Len(ws))
      /\ \A q \in Shopper \ {p} : opening'[q] = opening[q] /\ redirect'[q] = redirect[q]
  BY FiresIs
<1>2. redirect[p] \in [1 .. MaxRedirects -> RedirectState] /\ opening[p] \in Seq(Candy)
  BY DEF MirrorTypeOK
<1>3. Targets(redirect'[p]) = Targets(redirect[p])
  BY <1>1, <1>2, ArmedIs
<1>4. opening'[p] = opening[p]
  <2>1. Among(ws, Candy) = <<>>
    BY AmongIs
  <2>2. opening[p] \o <<>> = opening[p]
    BY <1>2, ConcatEmptySeq
  <2> QED
    BY <1>1, <2>1, <2>2
<1>5. CalmAt(p)'
  BY <1>3, <1>4 DEF CalmAt
<1> QED
  BY <1>1, <1>5, CalmElsewhere

LEMMA CalmOnShopBuy ==
  ASSUME MirrorTypeOK, \A q \in Shopper : CalmAt(q), NEW p \in Shopper, OnShopBuy(p), ~spoilt'
  PROVE  (\A q \in Shopper : CalmAt(q)') /\ UNCHANGED given
<1>1. PICK v \in Ware :
           /\ mail[p] # <<>> /\ Head(mail[p]) = ShopBuy(v) /\ mail'[p] = Tail(mail[p])
           /\ \A q \in Shopper \ {p} : mail'[q] = mail[q] /\ queued'[q] = queued[q]
           /\ \/ Fires(p, <<v>>) /\ UNCHANGED queued
              \/ UNCHANGED <<shelf, opening, redirect>> /\ queued'[p] = Append(queued[p], v)
           /\ UNCHANGED <<browsing, screen, watch, told, given, spoilt>>
  BY PurchaseRead
<1>2. mail[p] \in Seq(Letters) /\ queued[p] \in Seq(Ware) /\ Candy \subseteq Ware
  BY ShopParameters DEF MirrorTypeOK
<1>3. v \notin Candy
  <2>1. Head(mail[p]) = ShopBuy(v) => Purchases(mail[p], v) # {}
    BY <1>1, <1>2, OneRead
  <2> QED
    BY <1>1, <2>1 DEF CalmAt, ToClick
<1>4. Tells(mail'[p]) = {}
  <2>1. Tells(Tail(mail[p])) # {} => Tells(mail[p]) # {}
    BY <1>1, <1>2, OneRead
  <2> QED
    BY <1>1, <2>1 DEF CalmAt
<1>5. \A w \in Candy : Purchases(mail'[p], w) # {} => Purchases(mail[p], w) # {}
  <2> TAKE w \in Candy
  <2>1. Purchases(Tail(mail[p]), w) # {} => Purchases(mail[p], w) # {}
    BY <1>1, <1>2, OneRead
  <2> QED
    BY <1>1, <2>1
<1>6. CASE Fires(p, <<v>>) /\ UNCHANGED queued
  <2> DEFINE ws == <<v>>
  <2>1. ws \in Seq(Ware) /\ \A i \in DOMAIN ws : ws[i] \notin Candy
    BY <1>3
  <2>2. Fires(p, ws)
    BY <1>6
  <2> HIDE DEF ws
  <2>3. \A w \in Candy : ToClick(p, w)' => ToClick(p, w)
    BY <1>5, <1>6 DEF ToClick
  <2> QED
    BY <1>1, <1>4, <2>1, <2>2, <2>3, CalmFires
<1>7. CASE UNCHANGED <<shelf, opening, redirect>> /\ queued'[p] = Append(queued[p], v)
  <2>1. \A w \in Candy : Waiting(queued'[p], w) # {} => Waiting(queued[p], w) # {}
    <3> TAKE w \in Candy
    <3>1. Waiting(Append(queued[p], v), w) # {} <=> Waiting(queued[p], w) # {} \/ w = v
      BY <1>2, WaitingMore
    <3> QED
      BY <1>3, <1>7, <3>1
  <2>2. CalmAt(p)'
    BY <1>1, <1>4, <1>5, <1>7, <2>1 DEF CalmAt, ToClick
  <2> QED
    BY <1>1, <1>7, <2>2, CalmElsewhere
<1> QED
  BY <1>1, <1>6, <1>7

LEMMA CalmStep ==
  ASSUME MirrorTypeOK, \A q \in Shopper : CalmAt(q), NEW p \in Shopper,
         OwnShopStep(p) \/ ReadMail(p) \/ TimerRunsOut(p), ~spoilt'
  PROVE  (\A q \in Shopper : CalmAt(q)') /\ UNCHANGED given
<1>1. /\ opening[p] = <<>> /\ screen[p] = NoLevelUp /\ Targets(redirect[p]) = {}
      /\ Tells(mail[p]) = {} /\ mail[p] \in Seq(Letters) /\ queued[p] \in Seq(Ware)
  BY DEF CalmAt, MirrorTypeOK
<1>2. CASE Browse(p)
  <2> DEFINE ws == queued[p]
  <2>1. /\ Fires(p, ws) /\ UNCHANGED <<screen, mail, given>>
        /\ queued'[p] = <<>> /\ \A q \in Shopper \ {p} : queued'[q] = queued[q]
    BY <1>2 DEF Browse, MirrorTypeOK
  <2>2. \A i \in DOMAIN ws : ws[i] \notin Candy
    BY DEF CalmAt, ToClick, Waiting
  <2>3. \A w \in Candy : ToClick(p, w)' => ToClick(p, w)
    <3>1. DOMAIN <<>> = {}
      OBVIOUS
    <3> QED
      BY <2>1, <3>1 DEF ToClick, Waiting
  <2>4. ws \in Seq(Ware) /\ Tells(mail'[p]) = {}
    BY <1>1, <2>1
  <2> HIDE DEF ws
  <2> QED
    BY <2>1, <2>2, <2>3, <2>4, CalmFires
<1>3. CASE OnShopBuy(p)
  BY <1>3, CalmOnShopBuy
<1>4. CASE OnLevelUpChoice(p)
  <2>1. /\ mail[p] # <<>> /\ mail'[p] = Tail(mail[p]) /\ \A q \in Shopper \ {p} : mail'[q] = mail[q]
        /\ UNCHANGED <<browsing, shelf, opening, screen, queued, watch, redirect, given, spoilt>>
    BY <1>4, MailRead DEF OnLevelUpChoice
  <2>2. Tells(mail'[p]) = {}
    <3>1. Tells(Tail(mail[p])) # {} => Tells(mail[p]) # {}
      BY <1>1, <2>1, OneRead
    <3> QED
      BY <1>1, <2>1, <3>1
  <2>3. \A w \in Candy : ToClick(p, w)' => ToClick(p, w)
    <3> TAKE w \in Candy
    <3>1. Purchases(Tail(mail[p]), w) # {} => Purchases(mail[p], w) # {}
      BY <1>1, <2>1, OneRead
    <3> QED
      BY <2>1, <3>1 DEF ToClick
  <2>4. CalmAt(p)'
    BY <2>1, <2>2, <2>3 DEF CalmAt
  <2> QED
    BY <2>1, <2>4, CalmElsewhere
<1>5. ~OnLevelUpTarget(p)
  <2> SUFFICES ASSUME mail[p] # <<>>, Head(mail[p]).type = "LEVELUPTARGET" PROVE FALSE
    BY DEF OnLevelUpTarget
  <2>1. Head(mail[p]).type = "LEVELUPTARGET" =>
          Tells(mail[p]) # {} /\ (InOrder(mail[p], 1, 1) => Purchases(mail[p], 1) = {} /\ Head(mail[p]).cat = 1)
    BY <1>1, OneRead
  <2> QED
    BY <1>1, <2>1
<1>6. ~(OpenScreen(p) \/ FrameTick(p) \/ LevelSelect(p) \/ LevelUpdate(p) \/ ScreenGone(p) \/ GivesUp(p))
  BY <1>1 DEF OpenScreen, FrameTick, LevelSelect, LevelUpdate, ScreenGone, Undecided, GivesUp
<1>7. CASE WatchExpires(p)
  <2>1. UNCHANGED <<opening, screen, queued, redirect, mail, given>>
    BY <1>7 DEF WatchExpires
  <2> QED
    BY <2>1 DEF CalmAt, ToClick
<1>8. ASSUME NEW i \in 1 .. MaxRedirects, RedirectExpires(p, i)
      PROVE  (\A q \in Shopper : CalmAt(q)') /\ UNCHANGED given
  <2>1. /\ UNCHANGED <<opening, screen, queued, mail, given>>
        /\ redirect'[p] = [redirect[p] EXCEPT ![i] = Unused]
        /\ \A q \in Shopper \ {p} : redirect'[q] = redirect[q]
    BY <1>8 DEF RedirectExpires, MirrorTypeOK
  <2>2. Targets(redirect'[p]) = {}
    <3>1. redirect[p] \in [1 .. MaxRedirects -> RedirectState]
      BY DEF MirrorTypeOK
    <3> QED
      BY <1>1, <2>1, <3>1, ShopNothings DEF Targets
  <2>3. CalmAt(p)'
    BY <2>1, <2>2 DEF CalmAt, ToClick
  <2> QED
    BY <2>1, <2>3, CalmElsewhere
<1> QED
  BY <1>2, <1>3, <1>4, <1>5, <1>6, <1>7, <1>8 DEF OwnShopStep, ReadMail, TimerRunsOut

LEMMA BuyIs ==
  ASSUME MirrorTypeOK, NEW p \in Shopper, NEW v \in Ware, Buy(p, v), ~spoilt'
  PROVE  /\ ~CandyUnderWay /\ ~spoilt /\ screen[p] = NoLevelUp /\ \A q \in Shopper : v \in shelf[q]
         /\ \A q \in Shopper \ {p} : opening'[q] = opening[q] /\ watch'[q] = watch[q]
         /\ watch'[p] # <<>>
         /\ v \in Candy => /\ opening'[p] = Append(opening[p], v)
                           /\ \A q \in Shopper \ {p} : watch[q] = <<>>
         /\ v \notin Candy => opening'[p] = opening[p]
         /\ UNCHANGED <<browsing, screen, queued, redirect, told, given>>
<1>1. /\ ~CandyUnderWay /\ ~spoilt /\ screen[p] = NoLevelUp /\ \A q \in Shopper : v \in shelf[q]
      /\ v \in Candy => \A q \in Shopper \ {p} : watch[q] = <<>>
      /\ UNCHANGED <<browsing, screen, queued, redirect, told, given>>
  BY DEF Buy
<1>2. /\ \A q \in Shopper \ {p} : opening'[q] = opening[q]
      /\ v \in Candy => opening'[p] = Append(opening[p], v)
      /\ v \notin Candy => opening'[p] = opening[p]
  <2>1. opening' = IF v \in Candy THEN [opening EXCEPT ![p] = Append(@, v)] ELSE opening
    BY DEF Buy
  <2> QED
    BY <2>1 DEF MirrorTypeOK
<1>3. watch'[p] # <<>> /\ \A q \in Shopper \ {p} : watch'[q] = watch[q]
  <2>1. watch' = IF Len(watch[p]) < MaxWatches
                 THEN [watch EXCEPT ![p] = Append(@, Showing(p))] ELSE watch
    BY DEF Buy
  <2>2. watch[p] \in Seq({NoLevelUp})
    BY DEF MirrorTypeOK
  <2>3. CASE Len(watch[p]) < MaxWatches
    <3>1. Showing(p) \in {NoLevelUp}
      BY <1>1 DEF Showing
    <3>2. Append(watch[p], Showing(p)) # <<>>
      BY <2>2, <3>1, AppendProperties
    <3> QED
      BY <2>1, <2>3, <3>2 DEF MirrorTypeOK
  <2>4. CASE ~(Len(watch[p]) < MaxWatches)
    <3>1. watch[p] # <<>>
      <4>1. MaxWatches > 0 /\ Len(<<>>) = 0
        BY ShopParameters
      <4> QED
        BY <2>4, <4>1
    <3> QED
      BY <2>1, <2>4, <3>1
  <2> QED
    BY <2>3, <2>4
<1> QED
  BY <1>1, <1>2, <1>3

(* The candy bought when there is none: nobody knows its cat yet.          *)
LEMMA RoundBegins ==
  ASSUME MirrorTypeOK, Sold, \A q \in Shopper : CalmAt(q),
         NEW p \in Shopper, NEW v \in Candy, Buy(p, v), ~spoilt'
  PROVE  Round(v, p, Nobody)'
<1> USE DEF CalmAt
<1>1. /\ ~spoilt /\ \A q \in Shopper : v \in shelf[q]
      /\ \A q \in Shopper \ {p} : /\ opening'[q] = opening[q] /\ watch'[q] = watch[q]
                                  /\ watch[q] = <<>>
      /\ watch'[p] # <<>> /\ opening'[p] = Append(opening[p], v)
      /\ UNCHANGED <<browsing, screen, queued, redirect, told, given>>
      /\ v \in Ware
  <2>1. v \in Ware
    BY ShopParameters
  <2> QED
    BY <2>1, BuyIs
<1>2. opening'[p] = <<v>> /\ <<v>> # <<>>
  <2>1. Append(<<>>, v) = <<v>> /\ <<v>> # <<>>
    OBVIOUS
  <2>2. opening[p] = <<>>
    OBVIOUS
  <2> QED
    BY <1>1, <2>1, <2>2
<1>3. \A q \in Shopper : given[q][v] = Nobody
  BY <1>1 DEF Sold
<1>4. mail'[p] = mail[p] /\ \A q \in Shopper \ {p} : mail'[q] = mail[q] \o <<ShopBuy(v)>>
  BY <1>1, BuyClicks
<1>5. /\ ShopBuy(v) \in Letters /\ <<ShopBuy(v)>> \in Seq(Letters)
      /\ Tells(<<ShopBuy(v)>>) = {} /\ InOrder(<<ShopBuy(v)>>, v, Nobody)
  <2>1. ShopBuy(v) \in Letters /\ ShopBuy(v).type = "SHOPBUY" /\ ShopBuy(v).ware = v
    BY <1>1, LettersAre DEF ShopBuy
  <2>2. InOrder(<<ShopBuy(v)>>, v, Nobody)
    <3>1. /\ ShopBuy(v).type = "SHOPBUY" /\ ShopBuy(v).ware \in Candy => ShopBuy(v).ware = v
          /\ ShopBuy(v).type = "LEVELUPTARGET" => ShopBuy(v).cat = Nobody
      BY <2>1
    <3> QED
      BY <2>1, <3>1, OneLetter
  <2>3. Tells(<<ShopBuy(v)>>) # {} <=> ShopBuy(v).type = "LEVELUPTARGET"
    BY <2>1, OneLetter
  <2>4. <<ShopBuy(v)>> \in Seq(Letters)
    BY <2>1, OneLetter
  <2> QED
    BY <2>1, <2>2, <2>3, <2>4
<1>6. \A q \in Shopper : /\ Purchases(mail[q], v) = {} /\ Waiting(queued[q], v) = {}
                         /\ InOrder(mail[q], v, Nobody) /\ Single(queued[q], v)
  <2> TAKE q \in Shopper
  <2>1. \A w \in Candy : Purchases(mail[q], w) = {} /\ Waiting(queued[q], w) = {}
    BY DEF ToClick
  <2>2. mail[q] \in Seq(Letters)
    BY DEF MirrorTypeOK
  <2>3. \A i \in DOMAIN mail[q] : mail[q][i].type = "SHOPBUY" => mail[q][i] = ShopBuy(mail[q][i].ware)
    <3> TAKE i \in DOMAIN mail[q]
    <3>1. mail[q][i] \in Letters
      BY <2>2
    <3> QED
      BY <3>1, LettersAre
  <2>4. \A i \in DOMAIN mail[q] : mail[q][i].type = "SHOPBUY" => mail[q][i].ware \notin Candy
    BY <2>1, <2>3 DEF Purchases
  <2> QED
    BY <2>1, <2>4 DEF InOrder, Single, Waiting
<1>7. \A q \in Shopper : InOrder(mail'[q], v, Nobody) /\ Tells(mail'[q]) = {}
  <2> TAKE q \in Shopper
  <2>1. CASE q = p
    BY <1>4, <1>6, <2>1
  <2>2. CASE q # p
    <3>1. mail[q] \in Seq(Letters) /\ mail'[q] = mail[q] \o <<ShopBuy(v)>>
      BY <1>4, <2>2 DEF MirrorTypeOK
    <3>2. /\ InOrder(mail[q], v, Nobody) /\ InOrder(<<ShopBuy(v)>>, v, Nobody)
          /\ Purchases(mail[q], v) = {} /\ Tells(mail[q]) = {}
      BY <1>5, <1>6
    <3>3. InOrder(mail[q] \o <<ShopBuy(v)>>, v, Nobody)
      BY <1>5, <3>1, <3>2, SomeWritten
    <3>4. Tells(mail[q] \o <<ShopBuy(v)>>) # {}
            <=> Tells(mail[q]) # {} \/ Tells(<<ShopBuy(v)>>) # {}
      BY <1>5, <3>1, SomeWritten
    <3> QED
      BY <1>5, <3>1, <3>2, <3>3, <3>4
  <2> QED
    BY <2>1, <2>2
<1>8. ~ToClick(p, v)'
  BY <1>1, <1>4, <1>6 DEF ToClick
<1>9. Buyer(v, p, Nobody)'
  BY <1>1, <1>3, <1>7, <1>8 DEF Buyer
<1>10. ASSUME NEW q \in Shopper PROVE Stage(q, v, Nobody)'
  <2>1. CASE q = p
    BY <1>1, <1>2, <1>3, <1>6, <1>7, <1>8, <2>1 DEF Stage
  <2>2. CASE q # p
    BY <1>1, <1>3, <1>6, <1>7, <2>2 DEF Stage
  <2> QED
    BY <2>1, <2>2
<1>11. ASSUME NEW q \in Shopper \ {p} PROVE Hears(q, v, p, Nobody)'
  <2>1. WillHear(q, p)'
    BY <1>1, <1>2 DEF WillHear
  <2> QED
    BY <1>1, <1>7, <2>1 DEF Hears, Undecided
<1> QED
  BY <1>9, <1>10, <1>11 DEF Round

LEMMA CalmBuy ==
  ASSUME MirrorTypeOK, \A q \in Shopper : CalmAt(q),
         NEW p \in Shopper, NEW v \in Ware \ Candy, Buy(p, v), ~spoilt'
  PROVE  \A q \in Shopper : CalmAt(q)'
<1>1. /\ \A q \in Shopper : opening'[q] = opening[q]
      /\ UNCHANGED <<screen, queued, redirect>>
  BY BuyIs
<1>2. /\ mail'[p] = mail[p] /\ \A q \in Shopper \ {p} : mail'[q] = mail[q] \o <<ShopBuy(v)>>
      /\ \A q \in Shopper \ {p}, w \in Ware :
           Purchases(mail'[q], w) # {} <=> Purchases(mail[q], w) # {} \/ w = v
  BY BuyClicks
<1>3. <<ShopBuy(v)>> \in Seq(Letters) /\ Tells(<<ShopBuy(v)>>) = {}
  <2>1. ShopBuy(v) \in Letters /\ ShopBuy(v).type = "SHOPBUY"
    BY LettersAre DEF ShopBuy
  <2>2. Tells(<<ShopBuy(v)>>) # {} <=> ShopBuy(v).type = "LEVELUPTARGET"
    BY <2>1, OneLetter
  <2>3. <<ShopBuy(v)>> \in Seq(Letters)
    BY <2>1, OneLetter
  <2> QED
    BY <2>1, <2>2, <2>3
<1> TAKE q \in Shopper
<1>4. Tells(mail'[q]) = {}
  <2>1. CASE q = p
    BY <1>2, <2>1 DEF CalmAt
  <2>2. CASE q # p
    <3>1. mail[q] \in Seq(Letters) /\ mail'[q] = mail[q] \o <<ShopBuy(v)>>
      BY <1>2, <2>2 DEF MirrorTypeOK
    <3>2. Tells(mail[q] \o <<ShopBuy(v)>>) # {}
            <=> Tells(mail[q]) # {} \/ Tells(<<ShopBuy(v)>>) # {}
      BY <1>3, <3>1, SomeWritten
    <3> QED
      BY <1>3, <3>1, <3>2 DEF CalmAt
  <2> QED
    BY <2>1, <2>2
<1>5. \A w \in Candy : ToClick(q, w)' <=> ToClick(q, w)
  <2> TAKE w \in Candy
  <2>1. w \in Ware /\ w # v
    BY ShopParameters
  <2>2. Purchases(mail'[q], w) # {} <=> Purchases(mail[q], w) # {}
    BY <1>2, <2>1
  <2> QED
    BY <1>1, <2>2 DEF ToClick
<1> QED
  BY <1>1, <1>4, <1>5 DEF CalmAt

-------------------------------------------------------------------------------
(* The invariant.                                                          *)

LEMMA SpoiltStays ==
  ASSUME [ShopNext]_shopVars, ~spoilt'
  PROVE  ~spoilt
BY DEF ShopNext, shopVars, OwnShopStep, ReadMail, TimerRunsOut, Browse, OpenScreen, FrameTick,
   LevelSelect, LevelUpdate, ScreenGone, OnShopBuy, OnLevelUpTarget, OnLevelUpChoice, GivesUp,
   WatchExpires, RedirectExpires, Buy

LEMMA AlikeKept ==
  ASSUME Alike, UNCHANGED given
  PROVE  Alike'
BY DEF Alike

LEMMA RoundUnchanged ==
  ASSUME NEW w, NEW b, NEW k, Round(w, b, k), UNCHANGED shopVars
  PROVE  Round(w, b, k)'
<1>1. \A q \in Shopper : Stage(q, w, k)'
  BY DEF Round, Stage, ToClick, shopVars
<1>2. Buyer(w, b, k)'
  BY DEF Round, Buyer, ToClick, shopVars
<1>3. \A q \in Shopper \ {b} : Hears(q, w, b, k)'
  BY DEF Round, Hears, WillHear, Waits, Undecided, ToClick, shopVars
<1> QED
  BY <1>1, <1>2, <1>3 DEF Round

(* A round goes on.                                                        *)
LEMMA RoundStep ==
  ASSUME MirrorTypeOK, Sold, Alike, NEW w \in Candy, NEW b \in Shopper,
         NEW k \in Kitten \cup {Nobody}, Round(w, b, k), NEW p \in Shopper,
         OwnShopStep(p) \/ ReadMail(p) \/ TimerRunsOut(p), ~spoilt'
  PROVE  Alike' /\ \E cat \in Kitten \cup {Nobody} : Round(w, b, cat)'
<1>1. CASE Browse(p)
  <2>1. Round(w, b, k)' /\ UNCHANGED given
    BY <1>1, RoundBrowse DEF Browse
  <2> QED
    BY <2>1, AlikeKept
<1>2. CASE OpenScreen(p)
  <2>1. UNCHANGED given
    BY <1>2 DEF OpenScreen
  <2>2. CASE p = b
    BY <1>2, <2>1, <2>2, RoundRolls, AlikeKept
  <2>3. CASE p # b
    BY <1>2, <2>1, <2>3, RoundOpenScreen, AlikeKept
  <2> QED
    BY <2>2, <2>3
<1>3. CASE FrameTick(p)
  <2>1. Round(w, b, k)' /\ UNCHANGED given
    BY <1>3, RoundFrameTick DEF FrameTick
  <2> QED
    BY <2>1, AlikeKept
<1>4. ASSUME Undecided(p), ~RedirectPending(p), Commits(p),
             UNCHANGED <<shelf, opening, queued, watch, redirect>>,
             UNCHANGED mail \/ mail' = Mailed(p, <<LevelUpChoice>>)
      PROVE  Alike' /\ Round(w, b, k)'
  <2>1. /\ Round(w, b, k)'
        /\ given'[p][w] = k /\ \A v \in Candy : v # w => given'[p][v] = given[p][v]
        /\ \A q \in Shopper \ {p} : given'[q] = given[q]
    BY <1>4, RoundCommits
  <2>2. \A q \in Shopper : given'[q][w] \in {Nobody, k}
    BY <2>1 DEF Round, Stage
  <2>3. \A q \in Shopper, v \in Candy : v # w => given'[q][v] = given[q][v]
    BY <2>1
  <2>4. Alike'
    BY <2>2, <2>3 DEF Alike
  <2> QED
    BY <2>1, <2>4
<1>5. CASE LevelSelect(p)
  BY <1>4, <1>5 DEF LevelSelect, IsMyScreen
<1>6. CASE LevelUpdate(p)
  <2>1. CASE screen[p].committed
    <3>1. UNCHANGED <<browsing, shelf, opening, screen, queued, watch, redirect, mail, given, spoilt>>
      BY <1>6, <2>1 DEF LevelUpdate
    <3>2. \A q \in Shopper : Stage(q, w, k)'
      BY <3>1 DEF Round, Stage, ToClick
    <3>3. Buyer(w, b, k)'
      BY <3>1 DEF Round, Buyer, ToClick
    <3>4. \A q \in Shopper \ {b} : Hears(q, w, b, k)'
      BY <3>1 DEF Round, Hears, WillHear, Waits, Undecided, ToClick
    <3> QED
      BY <3>1, <3>2, <3>3, <3>4, AlikeKept DEF Round
  <2>2. CASE ~screen[p].committed
    BY <1>4, <1>6, <2>2 DEF LevelUpdate, Undecided
  <2> QED
    BY <2>1, <2>2
<1>7. CASE ScreenGone(p)
  <2>1. Round(w, b, k)' /\ UNCHANGED given
    BY <1>7, RoundScreenGone DEF ScreenGone
  <2> QED
    BY <2>1, AlikeKept
<1>8. CASE ReadMail(p)
  <2>1. Round(w, b, k)'
    BY <1>8, RoundOnShopBuy, RoundTarget, RoundChoice DEF ReadMail
  <2>2. UNCHANGED given
    BY <1>8 DEF ReadMail, OnShopBuy, OnLevelUpTarget, OnLevelUpChoice
  <2> QED
    BY <2>1, <2>2, AlikeKept
<1>9. CASE TimerRunsOut(p)
  <2>1. ~GivesUp(p)
    BY DEF GivesUp
  <2>2. Round(w, b, k)'
    BY <1>9, <2>1, RoundWatchExpires, RoundRedirectExpires DEF TimerRunsOut
  <2>3. UNCHANGED given
    BY <1>9, <2>1 DEF TimerRunsOut, WatchExpires, RedirectExpires
  <2> QED
    BY <2>2, <2>3, AlikeKept
<1> QED
  BY <1>1, <1>2, <1>3, <1>5, <1>6, <1>7, <1>8, <1>9 DEF OwnShopStep

LEMMA HaulStep == HaulInv /\ [ShopNext]_shopVars => HaulInv'
<1> SUFFICES ASSUME HaulInv, [ShopNext]_shopVars PROVE HaulInv'
  OBVIOUS
<1>1. MirrorTypeOK /\ Sold
  BY DEF HaulInv
<1>2. MirrorTypeOK' /\ Sold'
  BY <1>1, MirrorTyped
<1>3. ASSUME ~spoilt'
      PROVE  /\ Mirrored' /\ Alike'
             /\ \/ \A q \in Shopper : CalmAt(q)'
                \/ \E w \in Candy, b \in Shopper, k \in Kitten \cup {Nobody} : Round(w, b, k)'
  <2>1. /\ Mirrored /\ Alike
        /\ \/ \A q \in Shopper : CalmAt(q)
           \/ \E w \in Candy, b \in Shopper, k \in Kitten \cup {Nobody} : Round(w, b, k)
    BY <1>3, SpoiltStays DEF HaulInv
  <2>2. Mirrored'
    BY <1>1, <1>3, <2>1, MirroredStep
  <2>3. CASE UNCHANGED shopVars
    <3>1. Alike'
      BY <2>1, <2>3, AlikeKept DEF shopVars
    <3>2. (\A q \in Shopper : CalmAt(q)) => \A q \in Shopper : CalmAt(q)'
      BY <2>3 DEF CalmAt, ToClick, shopVars
    <3>3. \A w \in Candy, b \in Shopper, k \in Kitten \cup {Nobody} :
            Round(w, b, k) => Round(w, b, k)'
      BY <2>3, RoundUnchanged
    <3> QED
      BY <2>1, <2>2, <3>1, <3>2, <3>3
  <2>4. ASSUME NEW p \in Shopper, NEW v \in Ware, Buy(p, v)
        PROVE  /\ Alike'
               /\ \/ \A q \in Shopper : CalmAt(q)'
                  \/ \E w \in Candy, b \in Shopper, k \in Kitten \cup {Nobody} : Round(w, b, k)'
    <3>1. ~CandyUnderWay /\ UNCHANGED given
      BY <1>1, <1>3, <2>4, BuyIs
    <3>2. \A q \in Shopper : CalmAt(q)
      BY <1>1, <3>1, CalmIs
    <3>3. Alike'
      BY <2>1, <3>1, AlikeKept
    <3>4. CASE v \in Candy
      <4>1. Round(v, p, Nobody)'
        BY <1>1, <1>3, <2>4, <3>2, <3>4, RoundBegins
      <4> QED
        BY <3>3, <3>4, <4>1
    <3>5. CASE v \notin Candy
      BY <1>1, <1>3, <2>4, <3>2, <3>3, <3>5, CalmBuy
    <3> QED
      BY <3>4, <3>5
  <2>5. ASSUME NEW p \in Shopper, OwnShopStep(p) \/ ReadMail(p) \/ TimerRunsOut(p)
        PROVE  /\ Alike'
               /\ \/ \A q \in Shopper : CalmAt(q)'
                  \/ \E w \in Candy, b \in Shopper, k \in Kitten \cup {Nobody} : Round(w, b, k)'
    <3>1. CASE \A q \in Shopper : CalmAt(q)
      <4>1. (\A q \in Shopper : CalmAt(q)') /\ UNCHANGED given
        BY <1>1, <1>3, <2>5, <3>1, CalmStep
      <4> QED
        BY <2>1, <4>1, AlikeKept
    <3>2. ASSUME NEW w \in Candy, NEW b \in Shopper, NEW k \in Kitten \cup {Nobody}, Round(w, b, k)
          PROVE  Alike' /\ \E cat \in Kitten \cup {Nobody} : Round(w, b, cat)'
      BY <1>1, <1>3, <2>1, <2>5, <3>2, RoundStep
    <3> QED
      BY <2>1, <3>1, <3>2
  <2>6. CASE ShopNext
    BY <2>2, <2>4, <2>5, <2>6 DEF ShopNext
  <2> QED
    BY <2>2, <2>3, <2>6
<1> QED
  BY <1>2, <1>3 DEF HaulInv

LEMMA HaulInit == ShopInit => HaulInv
<1> SUFFICES ASSUME ShopInit PROVE HaulInv
  OBVIOUS
<1>1. MirrorTypeOK /\ Sold
  BY MirrorInit
<1>2. DOMAIN <<>> = {}
  OBVIOUS
<1>3. \A q \in Shopper, w \in Ware : ~ToClick(q, w)
  BY <1>2 DEF ShopInit, ToClick, Purchases, Waiting
<1>4. Mirrored
  BY <1>3 DEF Mirrored, ShopInit
<1>5. Alike
  BY DEF Alike, ShopInit
<1>6. \A q \in Shopper : CalmAt(q)
  <2> TAKE q \in Shopper
  <2>1. Targets(redirect[q]) = {}
    BY ShopNothings DEF Targets, ShopInit, NoRedirects
  <2>2. Tells(mail[q]) = {}
    BY <1>2 DEF Tells, ShopInit
  <2>3. \A w \in Candy : ~ToClick(q, w)
    BY <1>3, ShopParameters
  <2> QED
    BY <2>1, <2>2, <2>3 DEF CalmAt, ShopInit
<1> QED
  BY <1>1, <1>4, <1>5, <1>6 DEF HaulInv

(* Copies with nothing in the mail and nothing queued have sold what any   *)
(* other has.                                                              *)
LEMMA HaulIs == HaulInv => SameHaul
<1> SUFFICES ASSUME HaulInv, ~spoilt, NEW p \in Shopper, NEW q \in Shopper
             PROVE  /\ \A w \in Candy : given[p][w] # Nobody /\ given[q][w] # Nobody =>
                                          given[p][w] = given[q][w]
                    /\ mail[q] = <<>> /\ queued[q] = <<>> => shelf[q] \subseteq shelf[p]
  BY DEF SameHaul
<1>1. Mirrored /\ Alike /\ shelf[q] \subseteq Ware
  BY DEF HaulInv, MirrorTypeOK
<1>2. ASSUME mail[q] = <<>>, queued[q] = <<>> PROVE shelf[q] \subseteq shelf[p]
  <2>1. DOMAIN <<>> = {}
    OBVIOUS
  <2>2. \A w \in Ware : ~ToClick(q, w)
    BY <1>2, <2>1 DEF ToClick, Purchases, Waiting
  <2> QED
    BY <1>1, <2>2 DEF Mirrored
<1> QED
  BY <1>1, <1>2 DEF Alike

(* The state of the mirror is of its types: a watch sees no screen when it *)
(* is armed, and nothing but a purchase, an announcement or a choice is    *)
(* ever in the mail.                                                       *)
THEOREM MirrorSound == ShopSpec => []MirrorTypeOK
<1>1. ShopInit => MirrorTypeOK /\ Sold
  BY MirrorInit
<1>2. (MirrorTypeOK /\ Sold) /\ [ShopNext]_shopVars => (MirrorTypeOK /\ Sold)'
  BY MirrorTyped
<1> QED
  BY <1>1, <1>2, PTL DEF ShopSpec

(* A candy gives its level to one cat, on every copy that has come to      *)
(* decide, and what a shop has sold the others have sold once nothing is   *)
(* on its way (LevelUpTargetMsg, tick_redirects,                           *)
(* shopmirror_levelup_redirect_pending).                                   *)
THEOREM OneHaul == ShopSpec => []SameHaul
<1>1. ShopInit => HaulInv
  BY HaulInit
<1>2. HaulInv /\ [ShopNext]_shopVars => HaulInv'
  BY HaulStep
<1>3. HaulInv => SameHaul
  BY HaulIs
<1> QED
  BY <1>1, <1>2, <1>3, PTL DEF ShopSpec
=============================================================================
