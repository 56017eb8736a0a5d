-------------------------------- MODULE Journey --------------------------------
(***************************************************************************)
(* Walking the run: the clients follow the host from node to node          *)
(* (src/session/mgmp_follow.cpp), and on the decision screens of a node,   *)
(* events and level-ups, the owner of the cat decides and the others replay*)
(* the choice (src/session/mgmp_choice.cpp).                               *)
(*                                                                         *)
(* Nodes are named by their place in the host's run, which stands for the  *)
(* seed that names them on the wire.  What a node holds is a constant: the *)
(* screens the game opens in it, whether it is a battle, in which the join *)
(* barrier lets nobody act before all have come (BarrierHolds of           *)
(* LockstepProofs), and whether it is left by a vote of all (ByConsent of  *)
(* ScreenSync).  Membership is fixed and no link is lost.                  *)
(***************************************************************************)
EXTENDS Naturals, Sequences, SequencesExt, Lists

CONSTANTS
  Host, Client,
  Visit,       \* the host's run: a sequence of nodes
  Strange,     \* <<c, n>>: the map of client c has another count, range or seed for n
  MaxPending,  \* kMaxPendingNodes
  SkippedRing, \* State::kSkippedRing
  NoChoice

Peer == {Host} \cup Client
Node == 1 .. Len(Visit)
Kind == {"event", "levelUp"}
Shown == {"none", "building", "up", "committed"}

ScreenOf == [kind: Kind, decider: Peer, options: Nat \ {0}]
NodeInfo == [battle: BOOLEAN, vote: BOOLEAN, screens: Seq(ScreenOf)]

ASSUME PeerAssumption == Host \notin Client
ASSUME VisitAssumption == Visit \in Seq(NodeInfo)
ASSUME StrangeAssumption == Strange \subseteq Client \X Node
ASSUME JourneyBounds == MaxPending \in Nat /\ SkippedRing \in Nat \ {0}

VARIABLES
  visited,  \* the nodes a copy has entered; the last is State::here_seed
  inNode,   \* the copy is inside its last node, not on the map (external)
  modal,    \* the inventory covers the copy's map (external)
  stage,    \* screens of the last node already closed (external)
  shown,    \* the screen after those (external)
  taken,    \* the decisions a copy's game has carried out (external)
  nodeQ,    \* State::pending_q
  cached,   \* State::world_event, State::level_screen
  held,     \* State::pending, one slot per kind
  skipped,  \* State::skipped, newest last
  missed,   \* history: the nodes a client has refused
  wire      \* messages on their way, per sender and receiver

gameVars == <<visited, inNode, modal, stage, shown, taken>>
vars == <<gameVars, nodeQ, cached, held, skipped, missed, wire>>

(* A screen is named by its node and its place in it.                      *)
Screen == Node \X (Nat \ {0})
NoScreen == <<0, 0>>

Choice == [kind: Kind, node: Node, option: Nat, count: Nat \ {0}]
Decision == [screen: Screen, option: Nat]
Message == [type: {"ENTERNODE"}, node: Node] \cup [type: {"CHOICE"}, choice: Choice]

TypeOK ==
  /\ visited \in [Peer -> Seq(Node)]
  /\ inNode \in [Peer -> BOOLEAN]
  /\ modal \in [Client -> BOOLEAN]
  /\ stage \in [Peer -> Nat]
  /\ shown \in [Peer -> Shown]
  /\ taken \in [Peer -> Seq(Decision)]
  /\ nodeQ \in [Client -> Seq(Node)]
  /\ \A c \in Client : Len(nodeQ[c]) <= MaxPending
  /\ cached \in [Peer -> [Kind -> Screen \cup {NoScreen}]]
  /\ held \in [Peer -> [Kind -> Choice \cup {NoChoice}]]
  /\ skipped \in [Peer -> Seq(Node)]
  /\ \A p \in Peer : Len(skipped[p]) <= SkippedRing
  /\ missed \in [Client -> SUBSET Node]
  /\ wire \in [Peer -> [Peer -> Seq(Message)]]

Init ==
  /\ visited = [p \in Peer |-> <<>>]
  /\ inNode = [p \in Peer |-> FALSE]
  /\ modal = [c \in Client |-> FALSE]
  /\ stage = [p \in Peer |-> 0]
  /\ shown = [p \in Peer |-> "none"]
  /\ taken = [p \in Peer |-> <<>>]
  /\ nodeQ = [c \in Client |-> <<>>]
  /\ cached = [p \in Peer |-> [k \in Kind |-> NoScreen]]
  /\ held = [p \in Peer |-> [k \in Kind |-> NoChoice]]
  /\ skipped = [p \in Peer |-> <<>>]
  /\ missed = [c \in Client |-> {}]
  /\ wire = [p \in Peer |-> [q \in Peer |-> <<>>]]

-------------------------------------------------------------------------------
(* State::here_seed; 0 before the first node.                              *)
Here(p) == IF visited[p] = <<>> THEN 0 ELSE Last(visited[p])

Screens(n) == Visit[n].screens
Current(p) == <<Here(p), stage[p] + 1>>
CurrentScreen(p) == Screens(Here(p))[stage[p] + 1]
ScreensLeft(p) == stage[p] < Len(Screens(Here(p)))

(* level_screen_decider, event_screen_decider: the owner of the screen's   *)
(* cat, the host where that is not known.                                  *)
IsMine(p) == CurrentScreen(p).decider = p

(* The net layer: a client's links all end at the host, which does not     *)
(* relay a CHOICE.                                                         *)
Sent(p, m) ==
  [wire EXCEPT ![p] = [q \in Peer |-> IF q # p /\ (p = Host \/ q = Host)
                                      THEN Append(@[q], m) ELSE @[q]]]

(* remember_skipped.                                                       *)
Remembered(ring, n) ==
  IF Contains(ring, n) THEN ring
  ELSE LET r == Append(ring, n)
       IN IF Len(r) > SkippedRing THEN Tail(r) ELSE r

(* choice_on_node_skipped.                                                 *)
Skip(c, n) ==
  /\ skipped' = [skipped EXCEPT ![c] = Remembered(@, n)]
  /\ held' = [held EXCEPT ![c] = [k \in Kind |->
                IF @[k] # NoChoice /\ @[k].node = n THEN NoChoice ELSE @[k]]]

-------------------------------------------------------------------------------
(* Nodes.                                                                  *)

(* choice_on_node_entered: the screens of the node that is left are not    *)
(* to be written to.                                                       *)
ScreensForgotten(p, n) ==
  IF n = Here(p) THEN cached ELSE [cached EXCEPT ![p] = [k \in Kind |-> NoScreen]]

(* remember_node, on either side.                                          *)
Enter(p, n) ==
  /\ visited' = [visited EXCEPT ![p] = Append(@, n)]
  /\ inNode' = [inNode EXCEPT ![p] = TRUE]
  /\ stage' = [stage EXCEPT ![p] = 0]
  /\ cached' = ScreensForgotten(p, n)

(* follow_on_enter_node: the host's click enters and publishes; a client's *)
(* click on a node is swallowed and changes nothing.                       *)
HostEnterNode ==
  /\ ~inNode[Host]
  /\ Here(Host) < Len(Visit)
  /\ Enter(Host, Here(Host) + 1)
  /\ wire' = Sent(Host, [type |-> "ENTERNODE", node |-> Here(Host) + 1])
  /\ UNCHANGED <<modal, shown, taken, nodeQ, held, skipped, missed>>

(* Mutant: one slot instead of a queue, as it was until 2026-08-25.        *)
Replaced(q, n) == <<n>>

(* The newest node goes to the back of the queue.                          *)
Queued(q, n) == Append(q, n)

Full(q) == Len(q) >= MaxPending

(* follow_on_message: a client too far behind refuses the newest node.     *)
OnEnterNode(c) ==
  /\ wire[Host][c] # <<>> /\ Head(wire[Host][c]).type = "ENTERNODE"
  /\ wire' = [wire EXCEPT ![Host][c] = Tail(@)]
  /\ LET n == Head(wire[Host][c]).node IN
       IF Full(nodeQ[c])
       THEN /\ missed' = [missed EXCEPT ![c] = @ \cup {n}]
            /\ Skip(c, n)
            /\ UNCHANGED nodeQ
       ELSE /\ nodeQ' = [nodeQ EXCEPT ![c] = Queued(@, n)]
            /\ UNCHANGED <<missed, skipped, held>>
  /\ UNCHANGED <<gameVars, cached>>

(* The map of a client ticks, with a node to follow.                       *)
MapTicks(c) == ~inNode[c] /\ ~modal[c] /\ nodeQ[c] # <<>>

(* follow_map_update, refusing: count, range or seed differ from the host's*)
RefuseNode(c) ==
  /\ MapTicks(c)
  /\ <<c, Head(nodeQ[c])>> \in Strange
  /\ nodeQ' = [nodeQ EXCEPT ![c] = Tail(@)]
  /\ missed' = [missed EXCEPT ![c] = @ \cup {Head(nodeQ[c])}]
  /\ Skip(c, Head(nodeQ[c]))
  /\ UNCHANGED <<gameVars, cached, wire>>

(* follow_map_update, entering.  The test delay and the marker's walk only *)
(* put it off.                                                             *)
FollowNode(c) ==
  /\ MapTicks(c)
  /\ <<c, Head(nodeQ[c])>> \notin Strange
  /\ nodeQ' = [nodeQ EXCEPT ![c] = Tail(@)]
  /\ Enter(c, Head(nodeQ[c]))
  /\ UNCHANGED <<modal, shown, taken, held, skipped, missed, wire>>

(* A player opens the inventory on the map, which then does not tick.      *)
OpenModal(c) ==
  /\ ~inNode[c] /\ ~modal[c]
  /\ modal' = [modal EXCEPT ![c] = TRUE]
  /\ UNCHANGED <<visited, inNode, stage, shown, taken, nodeQ, cached, held, skipped,
                 missed, wire>>

(* Mutant: a screen is closed for its player only before there is reason.  *)
ClosesUnlessDue(c) == modal[c] /\ nodeQ[c] = <<>>

(* follow_on_button_update.                                                *)
Closes(c) == modal[c] /\ nodeQ[c] # <<>>

CloseModal(c) ==
  /\ Closes(c)
  /\ modal' = [modal EXCEPT ![c] = FALSE]
  /\ UNCHANGED <<visited, inNode, stage, shown, taken, nodeQ, cached, held, skipped,
                 missed, wire>>

(* The player's own click on the close button.                             *)
PlayerCloses(c) ==
  /\ modal[c]
  /\ modal' = [modal EXCEPT ![c] = FALSE]
  /\ UNCHANGED <<visited, inNode, stage, shown, taken, nodeQ, cached, held, skipped,
                 missed, wire>>

-------------------------------------------------------------------------------
(* Screens.                                                                *)

(* Nobody gets through a battle before all have come to it.                *)
Fought(p) == Visit[Here(p)].battle => \A q \in Peer : Contains(visited[q], Here(p))

(* The first update of a screen caches it (choice_on_event_update,         *)
(* choice_on_level_update); its options are not built yet.  In a battle it *)
(* comes at the end.                                                       *)
ScreenUp(p) ==
  /\ inNode[p] /\ shown[p] = "none" /\ ScreensLeft(p)
  /\ Fought(p)
  /\ shown' = [shown EXCEPT ![p] = "building"]
  /\ cached' = [cached EXCEPT ![p][CurrentScreen(p).kind] = Current(p)]
  /\ UNCHANGED <<visited, inNode, modal, stage, taken, nodeQ, held, skipped, missed, wire>>

Build(p) ==
  /\ shown[p] = "building"
  /\ shown' = [shown EXCEPT ![p] = "up"]
  /\ UNCHANGED <<visited, inNode, modal, stage, taken, nodeQ, cached, held, skipped,
                 missed, wire>>

(* The game carries out a decision on a screen.                            *)
Carry(p, s, o) == taken' = [taken EXCEPT ![p] = Append(@, [screen |-> s, option |-> o])]

(* choice_on_event_commit, choice_on_level_select, for the decider; the    *)
(* click of any other player is swallowed and changes nothing.             *)
Choose(p) ==
  /\ shown[p] = "up" /\ IsMine(p)
  /\ LET s == CurrentScreen(p) IN
       \E o \in 0 .. (s.options - 1) :
         /\ wire' = Sent(p, [type |-> "CHOICE",
                             choice |-> [kind |-> s.kind, node |-> Here(p),
                                         option |-> o, count |-> s.options]])
         /\ Carry(p, Current(p), o)
  /\ shown' = [shown EXCEPT ![p] = "committed"]
  /\ UNCHANGED <<visited, inNode, modal, stage, nodeQ, cached, held, skipped, missed>>

(* inject_event, inject_level: the game's own commit.  A level-up screen   *)
(* that has committed ignores it, an event does not.                       *)
Inject(p, s, k, o) ==
  IF s = Current(p) /\ shown[p] = "up"
  THEN /\ Carry(p, s, o)
       /\ shown' = [shown EXCEPT ![p] = "committed"]
  ELSE /\ IF k = "event" THEN Carry(p, s, o) ELSE UNCHANGED taken
       /\ UNCHANGED shown

(* Mutant: a choice is applied whatever node it was made in.               *)
DueAnywhere(p, s, ch) == ~(s = Current(p) /\ shown[p] = "building")

(* read_options, of a screen whose options may not be built yet.           *)
ReadOptions(p, s) == ~(s = Current(p) /\ shown[p] = "building")

(* apply_pending: a choice about another node, or for options that are not *)
(* built yet, is held.                                                     *)
Due(p, s, ch) == ch.node = Here(p) /\ ReadOptions(p, s)

(* apply_pending of choice ch to screen s: a list of another length is not *)
(* the same screen and the choice is dropped.                              *)
ApplyPending(p, s, ch) ==
  IF ~Due(p, s, ch)
  THEN held' = [held EXCEPT ![p][ch.kind] = ch] /\ UNCHANGED <<taken, shown>>
  ELSE /\ held' = [held EXCEPT ![p][ch.kind] = NoChoice]
       /\ IF ch.count # Screens(s[1])[s[2]].options THEN UNCHANGED <<taken, shown>>
          ELSE Inject(p, s, ch.kind, ch.option)

(* Every later update of a screen somebody else decides.                   *)
ScreenTick(p) ==
  /\ shown[p] # "none" /\ ~IsMine(p)
  /\ LET k == CurrentScreen(p).kind IN
       /\ held[p][k] # NoChoice
       /\ IF k = "levelUp" /\ shown[p] = "committed"
          THEN held' = [held EXCEPT ![p][k] = NoChoice] /\ UNCHANGED <<taken, shown>>
          ELSE ApplyPending(p, Current(p), held[p][k])
  /\ UNCHANGED <<visited, inNode, modal, stage, nodeQ, cached, skipped, missed, wire>>

(* choice_on_message: one that is still held is replaced; with a screen    *)
(* cached it is applied at once, whoever decides that screen.              *)
OnChoice(p, q) ==
  /\ wire[q][p] # <<>> /\ Head(wire[q][p]).type = "CHOICE"
  /\ wire' = [wire EXCEPT ![q][p] = Tail(@)]
  /\ LET ch == Head(wire[q][p]).choice
         s == cached[p][ch.kind]
     IN IF Contains(skipped[p], ch.node) THEN UNCHANGED <<held, taken, shown>>
        ELSE IF s = NoScreen
        THEN held' = [held EXCEPT ![p][ch.kind] = ch] /\ UNCHANGED <<taken, shown>>
        ELSE ApplyPending(p, s, ch)
  /\ UNCHANGED <<visited, inNode, modal, stage, nodeQ, cached, skipped, missed>>

(* The game closes a screen that has been decided.                         *)
CloseScreen(p) ==
  /\ shown[p] = "committed"
  /\ shown' = [shown EXCEPT ![p] = "none"]
  /\ stage' = [stage EXCEPT ![p] = @ + 1]
  /\ UNCHANGED <<visited, inNode, modal, taken, nodeQ, cached, held, skipped, missed, wire>>

(* All screens of a node have been decided on this copy.                   *)
Decided(q, n) ==
  /\ Contains(visited[q], n)
  /\ Here(q) = n => stage[q] + (IF shown[q] = "committed" THEN 1 ELSE 0) = Len(Screens(n))

(* Back to the map.  Where a vote is asked for, the button to vote with    *)
(* comes up when the screens before it have been decided.                  *)
LeaveNode(p) ==
  /\ inNode[p] /\ shown[p] = "none" /\ ~ScreensLeft(p)
  /\ Fought(p)
  /\ Visit[Here(p)].vote => \A q \in Peer : Decided(q, Here(p))
  /\ inNode' = [inNode EXCEPT ![p] = FALSE]
  /\ UNCHANGED <<visited, modal, stage, shown, taken, nodeQ, cached, held, skipped,
                 missed, wire>>

Next ==
  \/ HostEnterNode
  \/ \E c \in Client :
       \/ OnEnterNode(c) \/ RefuseNode(c) \/ FollowNode(c)
       \/ OpenModal(c) \/ CloseModal(c) \/ PlayerCloses(c)
  \/ \E p \in Peer :
       \/ ScreenUp(p) \/ Build(p) \/ Choose(p) \/ ScreenTick(p)
       \/ CloseScreen(p) \/ LeaveNode(p)
       \/ \E q \in Peer : OnChoice(p, q)

Spec == Init /\ [][Next]_vars

(* Frames run, messages are pumped, the game goes on and the players       *)
(* decide.  A map that has come back ticks before its player can cover it  *)
(* again, so following is strongly fair; nobody has to close an inventory. *)
FairSpec ==
  /\ Spec
  /\ WF_vars(HostEnterNode)
  /\ \A c \in Client :
       /\ WF_vars(OnEnterNode(c)) /\ WF_vars(CloseModal(c))
       /\ SF_vars(RefuseNode(c)) /\ SF_vars(FollowNode(c))
  /\ \A p \in Peer :
       /\ WF_vars(ScreenUp(p)) /\ WF_vars(Build(p)) /\ WF_vars(Choose(p))
       /\ WF_vars(ScreenTick(p)) /\ WF_vars(CloseScreen(p)) /\ WF_vars(LeaveNode(p))
       /\ \A q \in Peer : WF_vars(OnChoice(p, q))

-------------------------------------------------------------------------------
(* Properties.                                                             *)

(* Every decision a copy's game has carried out is the one the owner of    *)
(* that screen took there, and no screen is decided twice on one copy:     *)
(* whatever was early, late, held, dropped or passed over on the way       *)
(* (node_seed of ChoiceMsg, apply_pending).                                *)
SameDecisions ==
  \A p \in Peer : \A i \in DOMAIN taken[p] :
    LET d == taken[p][i]
        owner == Screens(d.screen[1])[d.screen[2]].decider
    IN /\ Contains(taken[owner], d)
       /\ \A j \in DOMAIN taken[p] : taken[p][j].screen = d.screen => j = i

(* The nodes on their way to client c, oldest first.                       *)
NodesComing(c) ==
  LET w == wire[Host][c] IN
  nodeQ[c] \o Picked([i \in {j \in DOMAIN w : w[j].type = "ENTERNODE"} |-> w[i].node], Len(w))

Without(s, left) == Picked([i \in {j \in DOMAIN s : s[j] \notin left} |-> s[i]], Len(s))

(* A client enters the host's nodes in the host's order and none twice;    *)
(* what it leaves out it has refused, and nothing else is lost between the *)
(* host's click and the client's map (follow_on_message, pending_q).       *)
SameWay ==
  \A c \in Client :
    visited[c] \o NodesComing(c) = Without(visited[Host], missed[c])

(* The run cannot go on without client c in node n.                        *)
Needs(n, c) ==
  \/ Visit[n].battle \/ Visit[n].vote
  \/ \E i \in DOMAIN Screens(n) : Screens(n)[i].decider = c

(* The copy has been through the whole run, except what it has refused.    *)
Done(p) ==
  /\ ~inNode[p]
  /\ \A n \in Node : Contains(visited[p], n) \/ (p \in Client /\ n \in missed[p])

(* Every copy comes through all its nodes, unless a client has refused one *)
(* the others need it in: nobody waits for ever on a screen or on the map, *)
(* even if no player ever closes the inventory.                            *)
NobodyStranded ==
  <>(\/ \A p \in Peer : Done(p)
     \/ \E c \in Client : \E n \in missed[c] : Needs(n, c))
==============================================================================
