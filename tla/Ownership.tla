------------------------------- MODULE Ownership -------------------------------
(***************************************************************************)
(* Who owns which cat, from the host's table to the split every battle is  *)
(* played with (src/session/mgmp_ownership.cpp): growth on the host,       *)
(* publication, loss and return of clients (handle_hello of                *)
(* mgmp_session.cpp), and the copy a client reads its split from.          *)
(*                                                                         *)
(* The host's frame tick publishes whenever there is something to say, so  *)
(* a recruit, a client's coming and a node all meet in any order.  Every   *)
(* node is a battle; a battle takes as long as it takes.                   *)
(***************************************************************************)
EXTENDS Naturals, Sequences, FiniteSets, OwnerTable, SequencesExt

CONSTANTS
  Host,       \* the hosting process, whose peer id is 0
  Client,     \* the other processes; an id is lent by the host's accept thread
  MaxClients, \* kMaxPeers - 1
  MaxPending, \* kMaxPendingNodes of mgmp_follow.cpp
  MaxCats,    \* bound: cats of the run
  MaxNodes,   \* bound: nodes of the run
  MaxDrops    \* bound: how often a client is lost

Process == {Host} \cup Client
NoTable == <<>>

ASSUME ProcessAssumption ==
  Host \notin Client /\ IsFiniteSet(Client) /\ Cardinality(Client) <= MaxClients
ASSUME OwnershipBounds == {MaxClients, MaxPending, MaxCats, MaxNodes, MaxDrops} \subseteq Nat

VARIABLES
  cats,      \* cats of the host's run (external)
  size,      \* cats the run had when the host entered a node, per node
  here,      \* the last node a process has entered, 0 for none
  phase,     \* "map", "entered" (no roster yet) or "battle"
  split,     \* the table a process read its split from, per node
  table,     \* State::table
  pend,      \* State::pend_table when pend_valid, as a sequence of at most one
  sentCount, \* table.count as of the last publish; none after a forget
  ready,     \* the host: some client's HELLO was accepted.  A client: welcomed
  snapped,   \* State::snapped of mgmp_lockstep.cpp
  id,        \* the id of a client's live link, 0 when it has none
  chan,      \* messages on their way to a client
  nodeQ,     \* nodes the client is to follow into
  drops      \* bound: clients lost so far

runVars == <<cats, size, here, phase>>
tableVars == <<table, sentCount>>
vars == <<runVars, split, snapped, tableVars, pend, ready, id, chan, nodeQ, drops>>

Node == 1 .. MaxNodes
Live == {c \in Client : id[c] # 0}
PeerCount == 1 + Cardinality(Live)

Table == Seq(0 .. MaxClients)

TypeOK ==
  /\ cats \in 0 .. MaxCats
  /\ size \in [Node -> 0 .. MaxCats]
  /\ here \in [Process -> 0 .. MaxNodes]
  /\ phase \in [Process -> {"map", "entered", "battle"}]
  /\ \A p \in Process : \A n \in DOMAIN split[p] : n \in Node /\ split[p][n] \in Table
  /\ table \in [Process -> Table]
  /\ \A c \in Client : pend[c] \in Seq(Table) /\ Len(pend[c]) <= 1
  /\ sentCount \in Seq(1 .. MaxOwnerSlots)
  /\ ready \in [Process -> BOOLEAN] /\ snapped \in [Process -> BOOLEAN]
  /\ id \in [Client -> 0 .. MaxClients]
  /\ \A c, d \in Live : id[c] = id[d] => c = d
  /\ \A c \in Client : nodeQ[c] \in Seq(Node) /\ Len(nodeQ[c]) <= MaxPending

Init ==
  /\ cats \in 0 .. MaxCats
  /\ size = [n \in Node |-> 0]
  /\ here = [p \in Process |-> 0]
  /\ phase = [p \in Process |-> "map"]
  /\ split = [p \in Process |-> <<>>]
  /\ table = [p \in Process |-> NoTable]
  /\ pend = [c \in Client |-> <<>>]
  /\ sentCount = <<>>
  /\ ready = [p \in Process |-> FALSE]
  /\ snapped = [p \in Process |-> FALSE]
  /\ id = [c \in Client |-> 0]
  /\ chan = [c \in Client |-> <<>>]
  /\ nodeQ = [c \in Client |-> <<>>]
  /\ drops = 0

-------------------------------------------------------------------------------
(* ownership_publish.                                                      *)

(* A table is first decided once a second player is in the session, and    *)
(* afterwards grows with the run.                                          *)
Grown ==
  IF table[Host] = NoTable
  THEN IF PeerCount >= 2 THEN Grow(NoTable, cats, PeerCount) ELSE NoTable
  ELSE Grow(table[Host], cats, PeerCount)

(* Mutant: a publish remembers what was sent whoever has come since.       *)
ForgetNothing(sent) == sent

(* ownership_forget.                                                       *)
Forget(sent) == <<>>

(* What a publish after sent leaves to send.                               *)
Unsent(sent) == Grown # NoTable /\ sent # <<Len(Grown)>>

(* net_send reaches every live link, which may be none.                    *)
PublishTable(sent) ==
  /\ table' = [table EXCEPT ![Host] = Grown]
  /\ sentCount' = IF Unsent(sent) /\ Live # {} THEN <<Len(Grown)>> ELSE sent

Tidings(sent) ==
  IF Unsent(sent) THEN <<[type |-> "OWNERSHIP", table |-> Grown]>> ELSE <<>>

ToLive(ms) == [c \in Client |-> IF c \in Live THEN chan[c] \o ms ELSE chan[c]]

FrameTick ==
  /\ Grown # table[Host] \/ (Unsent(sentCount) /\ Live # {})
  /\ PublishTable(sentCount)
  /\ chan' = ToLive(Tidings(sentCount))
  /\ UNCHANGED <<runVars, split, snapped, pend, ready, id, nodeQ, drops>>

(* The run gains a cat.                                                    *)
Recruit ==
  /\ cats < MaxCats
  /\ cats' = cats + 1
  /\ UNCHANGED <<size, here, phase, split, snapped, tableVars, pend, ready, id, chan,
                 nodeQ, drops>>

-------------------------------------------------------------------------------
(* Clients come and go.                                                    *)

(* accept_thread lends the lowest id no live link holds.                   *)
FreeIds == (1 .. MaxClients) \ {id[c] : c \in Live}

(* Mutant: an id that counts the players.                                  *)
CountAsId == PeerCount

LowestFree == CHOOSE i \in FreeIds : \A j \in FreeIds : i <= j

Connect(c) ==
  /\ id[c] = 0
  /\ FreeIds # {}
  /\ id' = [id EXCEPT ![c] = LowestFree]
  /\ UNCHANGED <<runVars, split, snapped, tableVars, pend, ready, chan, nodeQ, drops>>

(* handle_hello: welcome, the table to everyone, then the node the run     *)
(* stands in.                                                              *)
HandleHello(c) ==
  /\ id[c] # 0 /\ ~ready[c]
  /\ \A i \in DOMAIN chan[c] : chan[c][i].type # "WELCOME"
  /\ LET sent == Forget(sentCount)
         node == IF here[Host] = 0 THEN <<>>
                 ELSE <<[type |-> "ENTERNODE", node |-> here[Host]]>>
     IN /\ PublishTable(sent)
        /\ chan' = [ToLive(Tidings(sent)) EXCEPT
                      ![c] = chan[c] \o <<[type |-> "WELCOME"]>> \o Tidings(sent) \o node]
  /\ ready' = [ready EXCEPT ![Host] = TRUE]
  /\ UNCHANGED <<runVars, split, snapped, pend, id, nodeQ, drops>>

(* The link is lost and the player must join again.                        *)
Unlink(c) ==
  /\ id[c] # 0
  /\ drops < MaxDrops
  /\ drops' = drops + 1
  /\ id' = [id EXCEPT ![c] = 0]
  /\ chan' = [chan EXCEPT ![c] = <<>>]
  /\ ready' = [ready EXCEPT ![c] = FALSE]
  /\ nodeQ' = [nodeQ EXCEPT ![c] = <<>>]

(* Only the socket is gone: the process keeps its run and its table.       *)
LoseLink(c) ==
  /\ Unlink(c)
  /\ UNCHANGED <<runVars, split, snapped, tableVars, pend>>

(* The game is gone too.                                                   *)
Restart(c) ==
  /\ Unlink(c)
  /\ table' = [table EXCEPT ![c] = NoTable]
  /\ pend' = [pend EXCEPT ![c] = <<>>]
  /\ split' = [split EXCEPT ![c] = <<>>]
  /\ snapped' = [snapped EXCEPT ![c] = FALSE]
  /\ here' = [here EXCEPT ![c] = 0]
  /\ phase' = [phase EXCEPT ![c] = "map"]
  /\ UNCHANGED <<cats, size, sentCount>>

-------------------------------------------------------------------------------
(* A client reads its messages.                                            *)

(* apply_now: never shrinks.                                               *)
Adopted(c, t) == IF Len(t) < Len(table[c]) THEN table[c] ELSE t

Receive(c, m) ==
  /\ chan[c] # <<>> /\ m = Head(chan[c])
  /\ chan' = [chan EXCEPT ![c] = Tail(@)]
  /\ UNCHANGED <<runVars, split, snapped, sentCount, id, drops>>

(* go_ready; nothing else is understood before it.                         *)
OnWelcome(c, m) ==
  /\ Receive(c, m)
  /\ m.type = "WELCOME" \/ ~ready[c]
  /\ ready' = [ready EXCEPT ![c] = @ \/ m.type = "WELCOME"]
  /\ UNCHANGED <<table, pend, nodeQ>>

(* ownership_on_message: held from the first battle on, since a roster     *)
(* stays snapshotted until the next one's.                                 *)
OnOwnership(c, m) ==
  /\ Receive(c, m)
  /\ m.type = "OWNERSHIP" /\ ready[c]
  /\ IF snapped[c]
     THEN pend' = [pend EXCEPT ![c] = <<m.table>>] /\ UNCHANGED table
     ELSE table' = [table EXCEPT ![c] = Adopted(c, m.table)] /\ UNCHANGED pend
  /\ UNCHANGED <<ready, nodeQ>>

OnEnterNode(c, m) ==
  /\ Receive(c, m)
  /\ m.type = "ENTERNODE" /\ ready[c]
  /\ nodeQ' = IF Len(nodeQ[c]) < MaxPending THEN [nodeQ EXCEPT ![c] = Append(@, m.node)]
              ELSE nodeQ
  /\ UNCHANGED <<ready, table, pend>>

-------------------------------------------------------------------------------
(* Nodes and battles.                                                      *)

(* follow_on_enter_node: the table first, the node second.  The host does  *)
(* not set out while every other player is away.                           *)
HostEnterNode ==
  /\ phase[Host] = "map"
  /\ \E c \in Live : ready[c]
  /\ here[Host] < MaxNodes
  /\ cats > 0
  /\ LET n == here[Host] + 1 IN
       /\ here' = [here EXCEPT ![Host] = n]
       /\ size' = [size EXCEPT ![n] = cats]
       /\ chan' = ToLive(Tidings(sentCount) \o <<[type |-> "ENTERNODE", node |-> n]>>)
  /\ phase' = [phase EXCEPT ![Host] = "entered"]
  /\ PublishTable(sentCount)
  /\ UNCHANGED <<cats, split, snapped, pend, ready, id, nodeQ, drops>>

(* Mutant: the held table waits for the battle to end.                     *)
ApplyNothing(c) == table[c]

(* ownership_apply_pending.                                                *)
ApplyPending(c) == IF pend[c] = <<>> THEN table[c] ELSE Adopted(c, pend[c][1])

(* follow_map_update.                                                      *)
FollowNode(c) ==
  /\ phase[c] = "map"
  /\ nodeQ[c] # <<>>
  /\ here' = [here EXCEPT ![c] = Head(nodeQ[c])]
  /\ phase' = [phase EXCEPT ![c] = "entered"]
  /\ nodeQ' = [nodeQ EXCEPT ![c] = Tail(@)]
  /\ table' = [table EXCEPT ![c] = ApplyPending(c)]
  /\ pend' = [pend EXCEPT ![c] = <<>>]
  /\ UNCHANGED <<cats, size, split, snapped, sentCount, ready, id, chan, drops>>

(* snapshot_cats: the battle is split by the table of the moment.          *)
Snapshot(p) ==
  /\ phase[p] = "entered"
  /\ phase' = [phase EXCEPT ![p] = "battle"]
  /\ snapped' = [snapped EXCEPT ![p] = TRUE]
  /\ split' = [split EXCEPT ![p] =
                 [n \in (DOMAIN @) \cup {here[p]} |-> IF n = here[p] THEN table[p] ELSE @[n]]]
  /\ UNCHANGED <<cats, size, here, tableVars, pend, ready, id, chan, nodeQ, drops>>

(* Bound: nothing follows the last battle, and it is not left.             *)
EndBattle(p) ==
  /\ phase[p] = "battle"
  /\ here[p] < MaxNodes
  /\ phase' = [phase EXCEPT ![p] = "map"]
  /\ UNCHANGED <<cats, size, here, split, snapped, tableVars, pend, ready, id, chan,
                 nodeQ, drops>>

Next ==
  \/ FrameTick \/ Recruit \/ HostEnterNode
  \/ \E c \in Client :
       \/ Connect(c) \/ HandleHello(c) \/ LoseLink(c) \/ Restart(c)
       \/ FollowNode(c)
       \/ chan[c] # <<>> /\ LET m == Head(chan[c]) IN
            OnWelcome(c, m) \/ OnOwnership(c, m) \/ OnEnterNode(c, m)
  \/ \E p \in Process : Snapshot(p) \/ EndBattle(p)

Spec == Init /\ [][Next]_vars

-------------------------------------------------------------------------------
(* Two processes that snapshot the same battle read the same owner for     *)
(* every cat the run had when it was entered, and no cat is without one:   *)
(* whatever was recruited, lost, held back or resent meanwhile.            *)
SameSplit ==
  \A c \in Client : \A n \in (DOMAIN split[Host]) \cap (DOMAIN split[c]) :
    \A i \in 1 .. size[n] :
      /\ OwnerOf(split[Host][n], i) = OwnerOf(split[c][n], i)
      /\ i <= MaxOwnerSlots => OwnerOf(split[c][n], i) # NoOwner

(* A cat once given is never given to another player (F2's "no automatic   *)
(* recomputation"), on any copy, through growth, loss and return.          *)
NeverReassigned ==
  [][\A p \in Process :
       \/ IsPrefix(table[p], table'[p])
       \/ p # Host /\ table'[p] = NoTable /\ here'[p] = 0]_vars

(* A welcomed client that has read all its messages holds, applied or      *)
(* pending, the table the host last published: a joiner is not left with   *)
(* what it missed (ownership_forget).                                      *)
NothingMissed ==
  \A c \in Client :
    ready[c] /\ id[c] # 0 /\ (\A i \in DOMAIN chan[c] : chan[c][i].type # "OWNERSHIP")
      /\ sentCount = <<Len(table[Host])>>
    => table[Host] = IF pend[c] = <<>> THEN table[c] ELSE pend[c][1]

(* A recruit, a cat that joins a run whose table is decided, is given to a *)
(* player of the session (extend_round_robin).                             *)
OwnerIsMember ==
  [][table[Host] # NoTable =>
       \A i \in DOMAIN table'[Host] \ DOMAIN table[Host] :
         table'[Host][i] \in {0} \cup {id[c] : c \in Live}]_vars
==============================================================================
