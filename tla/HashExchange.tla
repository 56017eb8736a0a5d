----------------------------- MODULE HashExchange -----------------------------
(***************************************************************************)
(* The turn-hash exchange of two peers at the detail of its rings: own     *)
(* hashes in a ring that evicts, the other's in one that refuses, matched  *)
(* from whichever side comes second (HASH case of lockstep_pump, hash half *)
(* of lockstep_turn_boundary in src/session/mgmp_lockstep.cpp).            *)
(*                                                                         *)
(* Lockstep.tla sees the rings as sets and turns as far apart as the game  *)
(* lets them be; here only the rings matter, so turns pass freely and a    *)
(* hash is its key.                                                        *)
(***************************************************************************)
EXTENDS Naturals, Sequences, FiniteSets, BattleTracker, HashRing

CONSTANTS
  Leader,       \* the host
  Follower,     \* the client; enters no battle before the host
  LastBattle,   \* bound: battles of the run
  LastTurn      \* bound: turns of a battle

Peer == {Leader, Follower}
Battle == 1 .. LastBattle
Key == [battle: Battle, turn: 0 .. LastTurn]

ASSUME PeerAssumption == Leader # Follower
ASSUME BoundAssumption == LastBattle \in Nat /\ LastTurn \in Nat /\ NoBattle \notin Battle
ASSUME RingsAssumption == RingSize <= Slots

VARIABLES
  battles,    \* the BattleTracker of each peer
  snapped,    \* the battle whose roster the peer holds
  turn,
  myHash,     \* ring of own hashes
  peerHash,   \* ring of the other's, not reached yet
  net,        \* hashes on their way to the peer
  passed,     \* history: the keys the peer has passed
  read,       \* history: the keys of the hashes it has read
  compared,   \* history: the keys it has compared
  wide        \* history: a peer had more turns behind it unread from the other
              \* than a ring holds

historyVars == <<passed, read, compared, wide>>
vars == <<battles, snapped, turn, myHash, peerHash, net, historyVars>>

Other(p) == IF p = Leader THEN Follower ELSE Leader

TypeOK ==
  /\ battles \in [Peer -> [current: Battle \cup {NoBattle}, retired: Seq(Battle)]]
  /\ snapped \in [Peer -> Battle \cup {NoBattle}]
  /\ turn \in [Peer -> 0 .. LastTurn + 1]
  /\ {myHash, peerHash, net} \subseteq [Peer -> Seq(Key)]
  /\ \A p \in Peer : Len(myHash[p]) <= RingSize /\ Len(peerHash[p]) <= RingSize
  /\ passed \in [Peer -> SUBSET Key] /\ compared \in [Peer -> SUBSET Key]
  /\ read \in [Peer -> SUBSET Key]
  /\ wide \in BOOLEAN

Init ==
  /\ battles = [p \in Peer |-> NewTracker]
  /\ snapped = [p \in Peer |-> NoBattle]
  /\ turn = [p \in Peer |-> 0]
  /\ myHash = [p \in Peer |-> <<>>]
  /\ peerHash = [p \in Peer |-> <<>>]
  /\ net = [p \in Peer |-> <<>>]
  /\ passed = [p \in Peer |-> {}]
  /\ read = [p \in Peer |-> {}]
  /\ compared = [p \in Peer |-> {}]
  /\ wide = FALSE

Entered(p) == IF battles[p].current = NoBattle THEN 0 ELSE battles[p].current

(* lockstep_enter_battle, from the click or from following it; the battle  *)
(* left has had its first boundary.                                        *)
Enter(p) ==
  /\ Entered(p) < IF p = Leader THEN LastBattle ELSE Entered(Leader)
  /\ snapped[p] = battles[p].current
  /\ battles' = [battles EXCEPT ![p] = EnterBattle(@, Entered(p) + 1)]
  /\ UNCHANGED <<snapped, turn, myHash, peerHash, net, historyVars>>

(* lockstep_turn_boundary.  The first of a later battle resets the turn,   *)
(* clears the ring of own hashes and purges the other of what is retired.  *)
TurnBoundary(p) ==
  /\ battles[p].current # NoBattle
  /\ LET b == battles[p].current
         fresh == snapped[p] \notin {NoBattle, b}
         t == IF fresh THEN 0 ELSE turn[p]
         own == IF fresh THEN <<>> ELSE myHash[p]
         held == IF fresh THEN PurgeRetired(peerHash[p], {id \in Battle : IsRetired(battles[p], id)})
                 ELSE peerHash[p]
         h == [battle |-> b, turn |-> t]
     IN /\ t <= LastTurn
        /\ snapped' = [snapped EXCEPT ![p] = b]
        /\ turn' = [turn EXCEPT ![p] = t + 1]
        /\ myHash' = [myHash EXCEPT ![p] = PushEvicting(own, h)]
        /\ peerHash' = [peerHash EXCEPT ![p] = Taken(held, b, t)]
        /\ net' = [net EXCEPT ![Other(p)] = Append(@, h)]
        /\ passed' = [passed EXCEPT ![p] = @ \cup {h}]
        /\ compared' = [compared EXCEPT ![p] =
                          IF Holds(held, b, t) THEN @ \cup {h} ELSE @]
        /\ wide' = (wide \/ Cardinality(passed'[p] \ read[p]) > RingSize)
  /\ UNCHANGED <<battles, read>>

(* Mutant: hashes are compared at one's own boundaries only.               *)
MeetsLater(p, h) == FALSE

(* A hash for a turn p has passed.                                         *)
Meets(p, h) == Holds(myHash[p], h.battle, h.turn)

(* MSG_HASH: dropped for a battle left, compared for a turn passed, held   *)
(* otherwise.                                                              *)
OnHash(p) ==
  /\ net[p] # <<>>
  /\ LET h == Head(net[p]) IN
       \/ /\ IsRetired(battles[p], h.battle)
          /\ UNCHANGED <<peerHash, compared>>
       \/ /\ ~IsRetired(battles[p], h.battle) /\ Meets(p, h)
          /\ compared' = [compared EXCEPT ![p] = @ \cup {h}]
          /\ UNCHANGED peerHash
       \/ /\ ~IsRetired(battles[p], h.battle) /\ ~Meets(p, h)
          /\ peerHash' = [peerHash EXCEPT ![p] = PushRefusing(@, h)]
          /\ UNCHANGED compared
  /\ net' = [net EXCEPT ![p] = Tail(@)]
  /\ read' = [read EXCEPT ![p] = @ \cup {Head(net[p])}]
  /\ UNCHANGED <<battles, snapped, turn, myHash, passed, wide>>

Next == \E p \in Peer : Enter(p) \/ TurnBoundary(p) \/ OnHash(p)

Spec == Init /\ [][Next]_vars

-------------------------------------------------------------------------------
(* A turn both peers have passed does not go unchecked: once the hashes    *)
(* are read one of them has compared it, as long as someone is still in    *)
(* its battle -- a hash read after leaving is dropped as stale -- and      *)
(* neither had more turns unread from the other than a ring holds          *)
(* (push_evicting, push_refusing and matching in both directions).         *)
EveryTurnCompared ==
  (\A p \in Peer : net[p] = <<>>) /\ ~wide =>
    \A k \in passed[Leader] \cap passed[Follower] :
      (\E p \in Peer : k.battle = battles[p].current)
        => k \in compared[Leader] \cup compared[Follower]
==============================================================================
