------------------------------- MODULE Lockstep -------------------------------
(***************************************************************************)
(* The battle layer of the mod (src/session/mgmp_lockstep.cpp) between the *)
(* members of a session that is Ready, with the part of the map layer      *)
(* (mgmp_follow.cpp) that leads every peer into the same battles and the   *)
(* host's relay (mgmp_net.cpp) that carries their messages.                *)
(*                                                                         *)
(* Every peer runs its own copy of the game.  The copies are kept equal by *)
(* entering the same node seeds and applying the same human decisions:     *)
(* each human-driven cat is decided by the one peer that owns it, published*)
(* as an ACTION, and injected into the same cat's brain everywhere else.   *)
(* AI cats are re-derived by every copy.  The join barrier holds human     *)
(* brains until every member has announced its control split for the       *)
(* battle, and a hash of each copy is compared at every turn boundary.     *)
(*                                                                         *)
(* The game itself is external: it is modelled from the calls it makes to  *)
(* the hooks (src/core/mgmp_hooks.cpp).  A copy is its list of applied     *)
(* decisions plus a flag that says whether it has drifted (computed        *)
(* something its peers did not), so two copies are in the same state       *)
(* exactly when both are equal.  Membership is fixed and no link is lost.  *)
(***************************************************************************)
EXTENDS Naturals, Sequences, FiniteSets, BattleTracker, Lists

CONSTANTS
  Host,         \* the hosting peer
  Client,       \* the other members of the session
  Cat,          \* roster slots of a battle
  Human,        \* ... the ones a human brain drives
  Node,         \* map nodes, named by their seeds
  Combat,       \* ... the ones that are battles
  TurnOrder,    \* the order in which the game gives the cats their turns
  Turns,        \* turns after which a battle ends
  Ability,      \* decisions that do not end a turn
  MaxAbilities, \* bound: abilities a human uses in one battle
  NoPeer,       \* kNoPeer: an ownership slot that is nobody's
  Tables,       \* the ownership tables a peer may hold
  MayDrift,     \* bound: the peers whose simulation may diverge
  JoinBarrier,  \* mgmp.json debug.join_barrier
  DesyncHalt,   \* mgmp.json net_desync_halt
  RingSize,     \* kHashRing
  MaxPending,   \* kMaxPending
  MaxSentLog,   \* kMaxSentLog
  MaxFollow     \* the pending-node queue of mgmp_follow.cpp

EndTurn == "endturn"
Peer == {Host} \cup Client
Act == Ability \cup {EndTurn}

ASSUME HostAssumption == Host \notin Client
ASSUME CatAssumption ==
  /\ Human \subseteq Cat
  /\ TurnOrder \in Seq(Cat) \ {<<>>}
ASSUME NodeAssumption ==
  /\ NoBattle \notin Node
  /\ Combat \subseteq Node
ASSUME TablesAssumption == Tables \subseteq [Human -> Peer \cup {NoPeer}] /\ NoPeer \notin Peer
ASSUME BoundsAssumption ==
  /\ {Turns, MaxAbilities, RingSize, MaxPending, MaxSentLog, MaxFollow} \subseteq Nat
  /\ JoinBarrier \in BOOLEAN /\ DesyncHalt \in BOOLEAN
  /\ MayDrift \subseteq Peer

VARIABLES
  (* --- the game's copies (external) --- *)
  route,      \* the nodes the host has entered, in order
  phase,      \* "map", "boundary" (NextTurn is about to run) or "turn"
  node,       \* the battle whose character list the game holds
  clock,      \* turns the game has begun in that battle
  queued,     \* the decision the brain has released and the game not applied
  hist,       \* decisions applied, per battle
  drift,      \* the copy has computed something its peers did not
  (* --- mgmp_lockstep.cpp's State, per peer --- *)
  battles,    \* the BattleTracker
  roster,     \* the battle whose list is snapshotted (NoBattle: not snapped)
  joined,     \* history: battles whose roster this peer has snapshotted
  table,      \* the ownership table the split is read from
  turn,       \* turn number, the key of the hashes
  outstanding,    \* a local decision is sent but not applied
  pending,        \* remote decisions held, a FIFO per battle and cat
  sentLog,        \* every decision of the current battle, for a catch-up
  control,        \* the last control split of each member
  controlChecked, \* verify_control has seen every member's split
  myHash,         \* own hashes of this battle's turns
  peerHash,       \* hashes of turns not reached, per peer
  halted,
  (* --- mgmp_follow.cpp --- *)
  nodeQ,      \* nodes the host entered and this client has not
  (* --- transport --- *)
  up,         \* client -> host bytes not yet read by the host's link thread
  inq         \* messages a peer has yet to pump, in order

gameVars == <<route, phase, node, clock, queued, hist, drift>>
rosterVars == <<roster, joined, table, control, controlChecked>>
hashVars == <<turn, myHash, peerHash>>
actionVars == <<outstanding, pending, sentLog>>
netVars == <<up, inq>>
vars == <<gameVars, battles, rosterVars, hashVars, actionVars, halted, nodeQ, netVars>>

-------------------------------------------------------------------------------
(* Values *)

Decision == [cat: Cat, act: Act]
Digest == [node: Node, done: Seq(Decision), drift: SUBSET Peer]
Hash == [battle: Node, turn: Nat, digest: Digest]
Control == [battle: Node \cup {NoBattle}, cats: SUBSET Human]
NoControl == [battle |-> NoBattle, cats |-> {}]
Action == [battle: Node, turn: Nat, cat: Human, act: Act]

Message ==
  [type: {"ENTERNODE"}, from: Peer, seed: Node]
    \cup [type: {"CONTROL"}, from: Peer, control: Control]
    \cup [type: {"ACTION"}, from: Peer, action: Action]
    \cup [type: {"HASH"}, from: Peer, hash: Hash]
    \cup [type: {"HALT"}, from: Peer]

Tracker == [current: Node \cup {NoBattle}, retired: Seq(Node)]

TypeOK ==
  /\ route \in Seq(Node)
  /\ phase \in [Peer -> {"map", "boundary", "turn"}]
  /\ node \in [Peer -> Node \cup {NoBattle}]
  /\ clock \in [Peer -> Nat]
  /\ queued \in [Peer -> Seq(Decision)]
  /\ hist \in [Peer -> [Node -> Seq(Decision)]]
  /\ drift \in [Peer -> BOOLEAN]
  /\ battles \in [Peer -> Tracker]
  /\ roster \in [Peer -> Node \cup {NoBattle}]
  /\ joined \in [Peer -> SUBSET Node]
  /\ table \in [Peer -> Tables]
  /\ turn \in [Peer -> Nat]
  /\ outstanding \in [Peer -> BOOLEAN]
  /\ pending \in [Peer -> [Node -> [Human -> Seq(Action)]]]
  /\ sentLog \in [Peer -> Seq(Action)]
  /\ control \in [Peer -> [Peer -> Control]]
  /\ controlChecked \in [Peer -> BOOLEAN]
  /\ myHash \in [Peer -> SUBSET Hash]
  /\ peerHash \in [Peer -> [Peer -> SUBSET Hash]]
  /\ halted \in [Peer -> BOOLEAN]
  /\ nodeQ \in [Client -> Seq(Node)]
  /\ up \in [Client -> Seq(Message)]
  /\ inq \in [Peer -> Seq(Message)]

Init ==
  /\ route = <<>>
  /\ phase = [p \in Peer |-> "map"]
  /\ node = [p \in Peer |-> NoBattle]
  /\ clock = [p \in Peer |-> 0]
  /\ queued = [p \in Peer |-> <<>>]
  /\ hist = [p \in Peer |-> [n \in Node |-> <<>>]]
  /\ drift = [p \in Peer |-> FALSE]
  /\ battles = [p \in Peer |-> NewTracker]
  /\ roster = [p \in Peer |-> NoBattle]
  /\ joined = [p \in Peer |-> {}]
  /\ table \in [Peer -> Tables]
  /\ turn = [p \in Peer |-> 0]
  /\ outstanding = [p \in Peer |-> FALSE]
  /\ pending = [p \in Peer |-> [n \in Node |-> [c \in Human |-> <<>>]]]
  /\ sentLog = [p \in Peer |-> <<>>]
  /\ control = [p \in Peer |-> [q \in Peer |-> NoControl]]
  /\ controlChecked = [p \in Peer |-> FALSE]
  /\ myHash = [p \in Peer |-> {}]
  /\ peerHash = [p \in Peer |-> [q \in Peer |-> {}]]
  /\ halted = [p \in Peer |-> FALSE]
  /\ nodeQ = [c \in Client |-> <<>>]
  /\ up = [c \in Client |-> <<>>]
  /\ inq = [p \in Peer |-> <<>>]

-------------------------------------------------------------------------------
(* The transport: a star.  A client writes to the host only; the host's    *)
(* link thread forwards what another client needs before queueing it.      *)

(* Mutant: a host that does not pass decisions on.                         *)
RelayedWithoutActions == {"HASH", "CONTROL", "HALT"}

Relayed == {"ACTION", "HASH", "CONTROL", "HALT"}

(* net_send: ms to every live link; box is the inboxes it is added to.     *)
Transmit(p, box, ms) ==
  /\ inq' = [q \in Peer |-> IF p = Host /\ q # Host THEN box[q] \o ms ELSE box[q]]
  /\ up' = IF p = Host THEN up ELSE [up EXCEPT ![p] = @ \o ms]

(* recv_loop on the host: one message of client c, relayed, then queued.   *)
LinkReceive(c) ==
  /\ up[c] # <<>>
  /\ LET m == Head(up[c]) IN
       inq' = [q \in Peer |->
                 IF q = Host \/ (q # c /\ m.type \in Relayed)
                 THEN Append(inq[q], m) ELSE inq[q]]
  /\ up' = [up EXCEPT ![c] = Tail(@)]
  /\ UNCHANGED <<gameVars, battles, rosterVars, hashVars, actionVars, halted, nodeQ>>

(* net_poll: lockstep_pump takes m, the oldest message of p's queue.       *)
Polls(p, m) == inq[p] # <<>> /\ m = Head(inq[p])
Rest(p) == [inq EXCEPT ![p] = Tail(@)]

-------------------------------------------------------------------------------
(* Entering a node: the host by clicking it, a client by following.        *)

(* lockstep_enter_battle.  The catch-up log describes the battle left.     *)
EnterNode(p, n) ==
  /\ battles' = [battles EXCEPT ![p] = EnterBattle(@, n)]
  /\ sentLog' = [sentLog EXCEPT ![p] = IF n = battles[p].current THEN @ ELSE <<>>]
  /\ IF n \in Combat
     THEN /\ phase' = [phase EXCEPT ![p] = "boundary"]
          /\ node' = [node EXCEPT ![p] = n]
          /\ clock' = [clock EXCEPT ![p] = 0]
     ELSE UNCHANGED <<phase, node, clock>>

(* follow_on_enter_node: the host publishes the node it enters.  A run     *)
(* never returns to a node.                                                *)
HostEnterNode(n) ==
  /\ phase[Host] = "map"
  /\ \A i \in 1 .. Len(route) : route[i] # n
  /\ EnterNode(Host, n)
  /\ route' = Append(route, n)
  /\ Transmit(Host, inq, <<[type |-> "ENTERNODE", from |-> Host, seed |-> n]>>)
  /\ UNCHANGED <<queued, hist, drift, rosterVars, hashVars, outstanding, pending,
                 halted, nodeQ>>

(* follow_map_update: a client on its map follows into the oldest node.    *)
FollowNode(c) ==
  /\ phase[c] = "map"
  /\ nodeQ[c] # <<>>
  /\ EnterNode(c, Head(nodeQ[c]))
  /\ nodeQ' = [nodeQ EXCEPT ![c] = Tail(@)]
  /\ UNCHANGED <<route, queued, hist, drift, rosterVars, hashVars, outstanding,
                 pending, halted, netVars>>

(* follow_on_message: a full queue refuses the newest node; a host that    *)
(* receives one ignores it.                                                *)
OnEnterNode(p, m) ==
  /\ m.type = "ENTERNODE"
  /\ nodeQ' = IF p \in Client /\ Len(nodeQ[p]) < MaxFollow
              THEN [nodeQ EXCEPT ![p] = Append(@, m.seed)] ELSE nodeQ
  /\ Transmit(p, Rest(p), <<>>)
  /\ UNCHANGED <<gameVars, battles, rosterVars, hashVars, actionVars, halted>>

-------------------------------------------------------------------------------
(* Halting and the control split.                                          *)

Halt(p) == [type |-> "HALT", from |-> p]

(* Mutant: a peer that stops without a word.                               *)
HaltSilently(p, bad) == <<>>

(* halt(): once, and said to the others.  HaltIf is the message to send.   *)
HaltIf(p, bad) == IF bad /\ ~halted[p] THEN <<Halt(p)>> ELSE <<>>

(* snapshot_cats: the human cats whose owner in p's table is p itself.     *)
Claims(p) == {c \in Human : table[p][c] = p}

(* verify_control: every member has spoken for battle b.                   *)
AllReported(ctl, b) == \A q \in Peer : ctl[q].battle = b

(* Mutant: one half of the check.                                          *)
SplitDisjoint(ctl) ==
  \A c \in Human, q, r \in Peer : c \in ctl[q].cats /\ c \in ctl[r].cats => q = r

(* ... and every human cat is claimed by exactly one of them.              *)
SplitAgrees(ctl) ==
  \A c \in Human :
    /\ \E q \in Peer : c \in ctl[q].cats
    /\ \A q, r \in Peer : c \in ctl[q].cats /\ c \in ctl[r].cats => q = r

(* Mutant: no join barrier.                                                *)
NeverBlocks(p) == FALSE

(* barrier_decide: these two facts settle it.                              *)
BarrierDecide(enabled, checked) == enabled /\ ~checked

(* barrier_blocking: the other facts it gathers, whose splits are here and *)
(* of which battle, only choose the reason that is logged.                 *)
BarrierBlocks(p) == BarrierDecide(JoinBarrier, controlChecked[p])

(* stale_battle: what is about a battle p has left is dropped; a battle it *)
(* has not reached is not stale.                                           *)
Stale(p, battle) == IsRetired(battles[p], battle)

(* MSG_CONTROL: a split for a battle p has left is dropped, one for a      *)
(* battle it has not reached is kept until verify_control can use it.      *)
OnControl(p, m) ==
  /\ m.type = "CONTROL"
  /\ LET stale == Stale(p, m.control.battle)
         ctl == IF stale THEN control[p]
                ELSE [control[p] EXCEPT ![m.from] = m.control]
         checks == /\ ~stale /\ ~controlChecked[p] /\ roster[p] # NoBattle
                   /\ AllReported(ctl, battles[p].current)
         bad == checks /\ ~SplitAgrees(ctl)
     IN /\ control' = [control EXCEPT ![p] = ctl]
        /\ controlChecked' = [controlChecked EXCEPT ![p] = @ \/ checks]
        /\ halted' = [halted EXCEPT ![p] = @ \/ bad]
        /\ Transmit(p, Rest(p), HaltIf(p, bad))
  /\ UNCHANGED <<gameVars, battles, roster, joined, table, hashVars, actionVars, nodeQ>>

(* MSG_HALT: stop too, and tell nobody.                                    *)
OnHalt(p, m) ==
  /\ m.type = "HALT"
  /\ halted' = [halted EXCEPT ![p] = TRUE]
  /\ Transmit(p, Rest(p), <<>>)
  /\ UNCHANGED <<gameVars, battles, rosterVars, hashVars, actionVars, nodeQ>>

-------------------------------------------------------------------------------
(* Turn hashes.                                                            *)

(* Mutant: the queue of decisions is left out of the hash.                 *)
HashWithoutQueue(p, t) ==
  [battle |-> battles[p].current, turn |-> t,
   digest |-> [node |-> node[p], done |-> <<>>,
               drift |-> IF drift[p] THEN {p} ELSE {}]]

(* snapshot_membership, read_cat_state and fnv1a over rng, queue and cats  *)
(* tell two copies apart exactly when they are of different battles, have  *)
(* applied different decisions, or one has drifted.                        *)
Reading(p) ==
  [node |-> node[p], done |-> hist[p][node[p]], drift |-> IF drift[p] THEN {p} ELSE {}]

(* build_hash.                                                             *)
BuildHash(p, t) == [battle |-> battles[p].current, turn |-> t, digest |-> Reading(p)]

(* Mutant: hashes keyed by their turn number alone.                        *)
SameTurnNumber(g, h) == g.turn = h.turn

SameTurn(g, h) == g.battle = h.battle /\ g.turn = h.turn

(* Mutant: only the length of the decision queue is compared.              *)
DepthDisagrees(h, hs) ==
  \E g \in hs : SameTurn(g, h) /\ Len(g.digest.done) # Len(h.digest.done)

(* report_pair, compare_hash: some hash of hs is for h's turn and differs. *)
Disagrees(h, hs) == \E g \in hs : SameTurn(g, h) /\ g.digest # h.digest

(* HashRing::push_evicting and push_refusing on the set of held entries.   *)
PushEvicting(hs, h) ==
  LET oldest == {g \in hs : \A k \in hs : g.turn <= k.turn}
  IN {h} \cup IF Cardinality(hs) < RingSize THEN hs ELSE hs \ oldest

PushRefusing(hs, h) ==
  IF Cardinality(hs) < RingSize THEN hs \cup {h} ELSE hs

(* MSG_HASH: matched against a turn already passed, or held for later.     *)
OnHash(p, m) ==
  /\ m.type = "HASH"
  /\ LET h == m.hash
         dropped == halted[p] \/ Stale(p, h.battle)
         passed == \E g \in myHash[p] : SameTurn(g, h)
         bad == ~dropped /\ DesyncHalt /\ Disagrees(h, myHash[p])
     IN /\ peerHash' = IF dropped \/ passed THEN peerHash
                       ELSE [peerHash EXCEPT ![p][m.from] = PushRefusing(@, h)]
        /\ halted' = [halted EXCEPT ![p] = @ \/ bad]
        /\ Transmit(p, Rest(p), HaltIf(p, bad))
  /\ UNCHANGED <<gameVars, battles, rosterVars, turn, myHash, actionVars, nodeQ>>

-------------------------------------------------------------------------------
(* lockstep_turn_boundary, called by h_NextTurn before the game's own      *)
(* NextTurn, which then gives the turn to the next cat.                    *)

Compared(p, h, held) ==
  [q \in Peer |-> IF q = p THEN held[q] ELSE {g \in held[q] : ~SameTurn(g, h)}]

Mismatch(p, h, held) ==
  DesyncHalt /\ \E q \in Peer \ {p} : Disagrees(h, held[q])

(* The hash half of a boundary: own is the ring of own hashes, held those  *)
(* of the others, t the turn.  Nothing of it happens once p is stopped.    *)
HashTurn(p, t, own, held, stopped) ==
  LET h == BuildHash(p, t) IN
  IF stopped
  THEN /\ turn' = [turn EXCEPT ![p] = t]
       /\ myHash' = [myHash EXCEPT ![p] = own]
       /\ peerHash' = [peerHash EXCEPT ![p] = held]
  ELSE /\ turn' = [turn EXCEPT ![p] = t + 1]
       /\ myHash' = [myHash EXCEPT ![p] = PushEvicting(own, h)]
       /\ peerHash' = [peerHash EXCEPT ![p] = Compared(p, h, held)]

HashMessages(p, t, held, stopped) ==
  LET h == BuildHash(p, t) IN
  IF stopped THEN <<>>
  ELSE <<[type |-> "HASH", from |-> p, hash |-> h]>> \o HaltIf(p, Mismatch(p, h, held))

BeginTurn(p) ==
  /\ phase' = [phase EXCEPT ![p] = "turn"]
  /\ clock' = [clock EXCEPT ![p] = @ + 1]
  /\ UNCHANGED <<route, node, queued, hist, drift>>

(* pend_purge_retired: decisions held for battles p has left go, those for *)
(* this one and for battles it has not reached stay.                       *)
Purged(p) ==
  [n \in Node |-> IF Stale(p, n) THEN [c \in Human |-> <<>>] ELSE pending[p][n]]

(* A boundary at which the roster is snapshotted: the first of a battle.   *)
(* fresh is the reset of a peer that still holds the previous battle's.    *)
(* What its peers already sent for this battle survives the purge.         *)
TakeRoster(p) ==
  /\ phase[p] = "boundary"
  /\ roster[p] = NoBattle \/ (~halted[p] /\ roster[p] # node[p])
  /\ LET fresh == roster[p] # NoBattle
         drops(id) == fresh /\ Stale(p, id)
         mine == [battle |-> battles[p].current, cats |-> Claims(p)]
         ctl == [q \in Peer |-> IF q = p THEN mine
                                ELSE IF drops(control[p][q].battle) THEN NoControl
                                ELSE control[p][q]]
         checks == AllReported(ctl, battles[p].current)
         bad == checks /\ ~SplitAgrees(ctl)
         stopped == halted[p] \/ bad
         t == IF fresh THEN 0 ELSE turn[p]
         own == IF fresh THEN {} ELSE myHash[p]
         held == [q \in Peer |-> {g \in peerHash[p][q] : ~drops(g.battle)}]
         differs == ~stopped /\ Mismatch(p, BuildHash(p, t), held)
     IN /\ roster' = [roster EXCEPT ![p] = node[p]]
        /\ joined' = [joined EXCEPT ![p] = @ \cup {node[p]}]
        /\ control' = [control EXCEPT ![p] = ctl]
        /\ controlChecked' = [controlChecked EXCEPT ![p] = checks]
        /\ halted' = [halted EXCEPT ![p] = @ \/ bad \/ differs]
        /\ outstanding' = [outstanding EXCEPT ![p] = @ /\ ~fresh]
        /\ sentLog' = [sentLog EXCEPT ![p] = IF fresh THEN <<>> ELSE @]
        /\ pending' = [pending EXCEPT ![p] =
                         IF fresh THEN Purged(p) ELSE @]
        /\ HashTurn(p, t, own, held, stopped)
        /\ Transmit(p, inq,
             <<[type |-> "CONTROL", from |-> p, control |-> mine]>>
               \o HaltIf(p, bad) \o HashMessages(p, t, held, stopped))
  /\ BeginTurn(p)
  /\ UNCHANGED <<battles, table, nodeQ>>

(* Every later boundary of the battle; a halted peer exchanges nothing.    *)
NextTurn(p) ==
  /\ phase[p] = "boundary"
  /\ roster[p] # NoBattle
  /\ halted[p] \/ roster[p] = node[p]
  /\ HashTurn(p, turn[p], myHash[p], peerHash[p], halted[p])
  /\ halted' = [halted EXCEPT ![p] =
                  @ \/ Mismatch(p, BuildHash(p, turn[p]), peerHash[p])]
  /\ Transmit(p, inq, HashMessages(p, turn[p], peerHash[p], halted[p]))
  /\ BeginTurn(p)
  /\ UNCHANGED <<battles, rosterVars, actionVars, nodeQ>>

-------------------------------------------------------------------------------
(* lockstep_fill_choice: the game polls the brain of the cat whose turn it *)
(* is until the brain releases a decision.  Where the code answers "none   *)
(* yet" there is no step: a halted peer, a blocked barrier, a remote cat   *)
(* with nothing pending.                                                   *)

Actor(p) == TurnOrder[1 + ((clock[p] - 1) % Len(TurnOrder))]

Polled(p) == phase[p] = "turn" /\ queued[p] = <<>> /\ ~halted[p]

Release(p, d) ==
  /\ queued' = [queued EXCEPT ![p] = <<d>>]
  /\ UNCHANGED <<route, phase, node, clock, hist, drift>>

(* An AI cat, never held: every copy derives the same decision.            *)
DecideAI(p) ==
  /\ Polled(p)
  /\ Actor(p) \notin Human
  /\ Release(p, [cat |-> Actor(p), act |-> EndTurn])
  /\ UNCHANGED <<battles, rosterVars, hashVars, actionVars, halted, nodeQ, netVars>>

(* sent_log_push.                                                          *)
Logged(p, a) ==
  IF Len(sentLog[p]) < MaxSentLog THEN Append(sentLog[p], a) ELSE sentLog[p]

HumanPolled(p) ==
  /\ Polled(p)
  /\ Actor(p) \in Human
  /\ roster[p] # NoBattle
  /\ ~BarrierBlocks(p)

Offered(p) == pending[p][battles[p].current][Actor(p)]

(* A cat of this peer's own: the player's decision stands and is logged    *)
(* and published -- unless the last one sent is still to be applied, when  *)
(* it stands unpublished.                                                  *)
DecideLocal(p, act) ==
  /\ HumanPolled(p)
  /\ Actor(p) \in Claims(p)
  /\ Offered(p) = <<>>
  /\ act \in Ability => Len(hist[p][node[p]]) - (clock[p] - 1) < MaxAbilities
  /\ LET a == [battle |-> battles[p].current, turn |-> turn[p],
               cat |-> Actor(p), act |-> act]
     IN IF outstanding[p]
        THEN UNCHANGED <<outstanding, sentLog, netVars>>
        ELSE /\ sentLog' = [sentLog EXCEPT ![p] = Logged(p, a)]
             /\ outstanding' = [outstanding EXCEPT ![p] = TRUE]
             /\ Transmit(p, inq, <<[type |-> "ACTION", from |-> p, action |-> a]>>)
  /\ Release(p, [cat |-> Actor(p), act |-> act])
  /\ UNCHANGED <<battles, rosterVars, hashVars, pending, halted, nodeQ>>

(* Mutant: the decision taken stays in the queue.                          *)
ApplyRemoteAgain(p) ==
  /\ HumanPolled(p)
  /\ Offered(p) # <<>>
  /\ Release(p, [cat |-> Actor(p), act |-> Head(Offered(p)).act])
  /\ UNCHANGED <<battles, rosterVars, hashVars, actionVars, halted, nodeQ, netVars>>

(* The copy p is about to apply d to is the one the owner of d's cat took  *)
(* it on.                                                                  *)
OnSameCopy(p, d) ==
  LET mine == Append(hist[p][node[p]], d)
      theirs(o) == hist[o][node[p]] \o IF node[o] = node[p] THEN queued[o] ELSE <<>>
  IN \E o \in Peer :
       /\ d.cat \in Claims(o)
       /\ ~drift[p] /\ ~drift[o]
       /\ \A i \in DOMAIN mine : i \in DOMAIN theirs(o) /\ theirs(o)[i] = mine[i]

(* pend_take and apply_remote: the oldest decision held for this battle    *)
(* and cat replaces whatever the local brain said.  On another copy than   *)
(* its owner's the ability it names may be missing, which halts.           *)
ApplyRemote(p) ==
  /\ HumanPolled(p)
  /\ Offered(p) # <<>>
  /\ pending' = [pending EXCEPT ![p][battles[p].current][Actor(p)] = Tail(@)]
  /\ \/ /\ Release(p, [cat |-> Actor(p), act |-> Head(Offered(p)).act])
        /\ UNCHANGED <<halted, netVars>>
     \/ /\ Head(Offered(p)).act # EndTurn
        /\ ~OnSameCopy(p, [cat |-> Actor(p), act |-> Head(Offered(p)).act])
        /\ halted' = [halted EXCEPT ![p] = TRUE]
        /\ Transmit(p, inq, HaltIf(p, TRUE))
        /\ UNCHANGED gameVars
  /\ UNCHANGED <<battles, rosterVars, hashVars, outstanding, sentLog, nodeQ>>

(* pend_push: everything of the current battle is logged for a catch-up,   *)
(* a full queue drops the newcomer.                                        *)
Held(p) ==
  {e \in Node \X Human \X (1 .. MaxPending) : e[3] <= Len(pending[p][e[1]][e[2]])}

OnAction(p, m) ==
  /\ m.type = "ACTION"
  /\ LET a == m.action
         stale == Stale(p, a.battle)
     IN /\ sentLog' = IF ~stale /\ a.battle = battles[p].current
                      THEN [sentLog EXCEPT ![p] = Logged(p, a)] ELSE sentLog
        /\ pending' = IF ~stale /\ Cardinality(Held(p)) < MaxPending
                      THEN [pending EXCEPT ![p][a.battle][a.cat] = Append(@, a)]
                      ELSE pending
        /\ Transmit(p, Rest(p), <<>>)
  /\ UNCHANGED <<gameVars, battles, rosterVars, hashVars, outstanding, halted, nodeQ>>

(* ApplyTurnAction, after lockstep_on_applied: the decision takes effect.  *)
(* Ending the last turn ends the battle and returns to the map.            *)
Apply(p) ==
  /\ queued[p] # <<>>
  /\ outstanding' = [outstanding EXCEPT ![p] = FALSE]
  /\ hist' = [hist EXCEPT ![p][node[p]] = Append(@, Head(queued[p]))]
  /\ queued' = [queued EXCEPT ![p] = <<>>]
  /\ phase' = [phase EXCEPT ![p] =
                 IF Head(queued[p]).act # EndTurn THEN "turn"
                 ELSE IF clock[p] < Turns THEN "boundary" ELSE "map"]
  /\ UNCHANGED <<route, node, clock, drift, battles, rosterVars, hashVars, pending,
                 sentLog, halted, nodeQ, netVars>>

(* A copy computes something its peers did not.                            *)
Diverge(p) ==
  /\ p \in MayDrift
  /\ phase[p] = "turn"
  /\ drift' = [drift EXCEPT ![p] = TRUE]
  /\ UNCHANGED <<route, phase, node, clock, queued, hist, battles, rosterVars,
                 hashVars, actionVars, halted, nodeQ, netVars>>

-------------------------------------------------------------------------------
Pump(p, m) ==
  /\ Polls(p, m)
  /\ \/ OnEnterNode(p, m)
     \/ OnControl(p, m)
     \/ OnAction(p, m)
     \/ OnHash(p, m)
     \/ OnHalt(p, m)

PumpStep(p) == inq[p] # <<>> /\ Pump(p, Head(inq[p]))

Boundary(p) == TakeRoster(p) \/ NextTurn(p)

Decide(p) == DecideAI(p) \/ ApplyRemote(p) \/ \E act \in Act : DecideLocal(p, act)

Next ==
  \/ \E n \in Node : HostEnterNode(n)
  \/ \E c \in Client : FollowNode(c) \/ LinkReceive(c)
  \/ \E p \in Peer :
       PumpStep(p) \/ Boundary(p) \/ Decide(p) \/ Apply(p) \/ Diverge(p)

Spec == Init /\ [][Next]_vars

(* The threads run and the players play: every frame pumps the queue and   *)
(* polls the brain, the link threads read, clients follow, and a player    *)
(* whose turn it is eventually ends it.                                    *)
FairSpec ==
  /\ Spec
  /\ WF_vars(\E n \in Node : HostEnterNode(n))
  /\ \A c \in Client : WF_vars(FollowNode(c)) /\ WF_vars(LinkReceive(c))
  /\ \A p \in Peer :
       WF_vars(PumpStep(p)) /\ WF_vars(Boundary(p)) /\ WF_vars(Decide(p)) /\ WF_vars(Apply(p))

-------------------------------------------------------------------------------
(* Properties.                                                             *)

(* What the decisions of cat c among ds are.                               *)
ActsOf(ds, c) ==
  Picked([i \in {j \in DOMAIN ds : ds[j].cat = c} |-> ds[i].act], Len(ds))

(* ... and what the messages ms say of cat c in battle b.                  *)
Tells(m, b, c) == m.type = "ACTION" /\ m.action.battle = b /\ m.action.cat = c

Carried(ms, b, c) ==
  Picked([i \in {j \in DOMAIN ms : Tells(ms[j], b, c)} |-> ms[i].action.act], Len(ms))

(* What p has decided or accepted in battle b, and for its cat c.          *)
Taken(p, b) == hist[p][b] \o IF node[p] = b THEN queued[p] ELSE <<>>

Released(p, b, c) == ActsOf(Taken(p, b), c)

(* What is still on its way to q for cat c of battle b, from its owner o.  *)
InFlight(o, q, b, c) ==
  Carried(inq[q], b, c) \o IF o = Host THEN <<>> ELSE Carried(up[o], b, c)

(* The promise of the battle layer as a specification of its own.          *)
Promise == INSTANCE AgreedBattle WITH Battle <- Node, applied <- hist

(* Every step either applies, on one copy, the next decision of the battle *)
(* as the peers ahead of it have applied it, or applies nothing.           *)
KeepsPromise == Promise!Spec

(* No human decision of a battle is lost, repeated or reordered between    *)
(* the peer that took it and any other: what the owner has released is     *)
(* what the other has released, then what it holds, then what is in flight *)
(* (pend_push, pend_take, pend_purge_retired, the relay).                  *)
NothingLost ==
  \A o, q \in Peer, b \in Node, c \in Human :
    o # q /\ c \in Claims(o) =>
      Released(o, b, c) =
        Released(q, b, c) \o ActsOf(pending[q][b][c], c) \o InFlight(o, q, b, c)

(* No human decision is released in a battle that some member has not      *)
(* snapshotted: what the join barrier is for.                              *)
HumanActed(p, b) ==
  \/ \E i \in DOMAIN hist[p][b] : hist[p][b][i].cat \in Human
  \/ node[p] = b /\ \E i \in DOMAIN queued[p] : queued[p][i].cat \in Human

EveryoneHere ==
  \A p, q \in Peer, b \in Node : HumanActed(p, b) => b \in joined[q]

(* Past the barrier, every human cat is driven by exactly one member: a cat*)
(* claimed twice desyncs, a cat claimed by nobody stalls the battle        *)
(* (verify_control).                                                       *)
SoleDriver ==
  \A p \in Peer :
    controlChecked[p] /\ ~halted[p] =>
      \A c \in Human : \E o \in Peer : \A q \in Peer : c \in Claims(q) <=> q = o

(* The catch-up log a joiner would be sent holds every decision of the     *)
(* current battle this peer knows of, in each cat's order (sent_log_push). *)
LogComplete ==
  \A p \in Peer, c \in Human :
    battles[p].current \in Combat =>
      LET b == battles[p].current
      IN ActsOf(sentLog[p], c) = Released(p, b, c) \o ActsOf(pending[p][b][c], c)

(* A peer stops only over a real fault: a copy that drifted, or ownership  *)
(* tables that do not split the cats.  Lag, lateness and reordering between*)
(* peers are never taken for one (compare_hash, verify_control).           *)
TablesSplit ==
  \A c \in Human : \E o \in Peer : \A q \in Peer : table[q][c] = q <=> q = o

NoFalseHalt ==
  \A p \in Peer : halted[p] => ~TablesSplit \/ \E q \in Peer : drift[q]

(* Once nothing is in flight, two peers in the same battle that have both  *)
(* begun a turn with different copies -- other decisions applied before it *)
(* or another digest -- have stopped, and so has everyone                  *)
(* (lockstep_turn_boundary, compare_hash, halt).                           *)
Quiet == (\A p \in Peer : inq[p] = <<>>) /\ (\A c \in Client : up[c] = <<>>)

(* The decisions of ds that belong to its first t turns.                   *)
Before(ds, t) ==
  LET ended(i) == Cardinality({j \in 1 .. (i - 1) : ds[j].act = EndTurn})
  IN SubSeq(ds, 1, Cardinality({i \in DOMAIN ds : ended(i) < t}))

DivergenceCaught ==
  \A p, q \in Peer, b \in Node :
    /\ Quiet
    /\ battles[p].current = b /\ battles[q].current = b
    /\ \E h \in myHash[p], k \in myHash[q] :
         /\ h.battle = b /\ SameTurn(h, k)
         /\ \/ Before(hist[p][b], h.turn) # Before(hist[q][b], k.turn)
            \/ h.digest # k.digest
    => \A r \in Peer : halted[r]

(* One peer's halt stops the whole session.                                *)
HaltSpreads == (\E p \in Peer : halted[p]) ~> (\A p \in Peer : halted[p])

(* A split that leaves a cat to two members or to none is not played: the  *)
(* session stops at its first battle instead of stalling in it.            *)
BadSplitStops == ~TablesSplit => <>(\A p \in Peer : halted[p])

(* Nobody waits for nobody: with a split that covers the cats and copies   *)
(* that stay in step, every peer comes through every node.                 *)
RunCompletes ==
  TablesSplit =>
    <>(\A p \in Peer : /\ phase[p] = "map"
                       /\ \A n \in Combat : n \in joined[p]
                       /\ \A q \in Peer : hist[p] = hist[q])
==============================================================================
