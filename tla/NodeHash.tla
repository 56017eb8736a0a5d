-------------------------------- MODULE NodeHash --------------------------------
(***************************************************************************)
(* The hash of the meta layer, sampled by both peers at every node of the  *)
(* map and at its event, and compared from whichever side comes second     *)
(* (src/session/mgmp_nodehash.cpp).                                        *)
(*                                                                         *)
(* What a sample hashes -- the generator, the run's history, the cats, the *)
(* inventory and the event's name -- is one value, and 0 is a peer's state *)
(* when nothing has gone astray.  Nothing is read back from a comparison:  *)
(* it is reported, and the run goes on.                                    *)
(***************************************************************************)
EXTENDS Naturals, Sequences, FiniteSets, HashRing

CONSTANTS
  Ahead,       \* the host
  Behind,      \* the client, which follows it into every node
  Events       \* whether each node of the map has an event

ASSUME NodeParameters == Ahead # Behind /\ Events \in Seq(BOOLEAN)

Walker == {Ahead, Behind}
Points == {"Enter", "Event"}
Sample == [battle: 1 .. Len(Events), turn: Points]   \* the key: node_seed and point

VARIABLES
  node,     \* where each is, 0 before the first
  screen,   \* its event screen: none, without a name yet, sampled
  astray,   \* its meta layer is not the other's
  mine,     \* g.mine
  theirs,   \* g.theirs
  mail,     \* samples on their way to it
  taken,    \* history: the samples it took, with what they hashed
  heard,    \* history: the keys it has read
  verdict,  \* history: what it reported, by key
  late      \* history: a peer was more samples behind than a ring holds

nodeVars == <<node, screen, astray, mine, theirs, mail, taken, heard, verdict, late>>

Partner(p) == IF p = Ahead THEN Behind ELSE Ahead

NodesInit ==
  /\ node = [p \in Walker |-> 0]
  /\ screen = [p \in Walker |-> "none"]
  /\ astray = [p \in Walker |-> 0]
  /\ mine = [p \in Walker |-> <<>>] /\ theirs = [p \in Walker |-> <<>>]
  /\ mail = [p \in Walker |-> <<>>]
  /\ taken = [p \in Walker |-> {}]
  /\ heard = [p \in Walker |-> {}]
  /\ verdict = [p \in Walker |-> {}]
  /\ late = FALSE

KeyOf(s) == [battle |-> s.battle, turn |-> s.turn]

(* report.                                                                 *)
Report(p, a, b) ==
  verdict' = [verdict EXCEPT ![p] = @ \cup {[of |-> KeyOf(a), same |-> a.hash = b.hash]}]

(* Mutant: a sample the other took first is not looked for.                *)
HoldsNone(p, s) == FALSE

(* The other took this sample first and it has been read.                  *)
OtherWasFirst(p, s) == Holds(theirs[p], s.battle, s.turn)

(* publish.                                                                *)
Publish(p, s) ==
  /\ IF OtherWasFirst(p, s)
     THEN /\ Report(p, s, Find(theirs[p], s.battle, s.turn))
          /\ theirs' = [theirs EXCEPT ![p] = Taken(@, s.battle, s.turn)]
          /\ UNCHANGED mine
     ELSE /\ mine' = [mine EXCEPT ![p] = PushEvicting(@, s)]
          /\ UNCHANGED <<theirs, verdict>>
  /\ mail' = [mail EXCEPT ![Partner(p)] = Append(@, s)]
  /\ taken' = [taken EXCEPT ![p] = @ \cup {s}]
  /\ late' = (late \/ Cardinality({KeyOf(t) : t \in taken'[p]} \ heard[p]) > RingSize)

SampleAt(p, n, point) == [battle |-> n, turn |-> point, hash |-> astray[p]]

(* nodehash_on_node.                                                       *)
EnterTheNode(p) ==
  /\ node[p] < IF p = Ahead THEN Len(Events) ELSE node[Ahead]
  /\ LET n == node[p] + 1 IN
     /\ node' = [node EXCEPT ![p] = n]
     /\ screen' = [screen EXCEPT ![p] = IF Events[n] THEN "unnamed" ELSE "none"]
     /\ Publish(p, SampleAt(p, n, "Enter"))
  /\ UNCHANGED <<astray, heard>>

(* nodehash_on_event_screen: the screen is sampled once, at the first tick *)
(* at which its event has a name, which may be never.                      *)
SampleEvent(p) ==
  /\ screen[p] = "unnamed"
  /\ screen' = [screen EXCEPT ![p] = "sampled"]
  /\ Publish(p, SampleAt(p, node[p], "Event"))
  /\ UNCHANGED <<node, astray, heard>>

(* match, of a sample that is read.                                        *)
ReadSample(p) ==
  /\ mail[p] # <<>>
  /\ LET s == Head(mail[p]) IN
     /\ IF Holds(mine[p], s.battle, s.turn)
        THEN /\ Report(p, Find(mine[p], s.battle, s.turn), s)
             /\ mine' = [mine EXCEPT ![p] = Taken(@, s.battle, s.turn)]
             /\ UNCHANGED theirs
        ELSE /\ theirs' = [theirs EXCEPT ![p] = PushRefusing(@, s)]
             /\ UNCHANGED <<mine, verdict>>
     /\ heard' = [heard EXCEPT ![p] = @ \cup {KeyOf(s)}]
  /\ mail' = [mail EXCEPT ![p] = Tail(@)]
  /\ UNCHANGED <<node, screen, astray, taken, late>>

(* A copy's meta layer goes astray (a fault).                              *)
GoAstray(p) ==
  /\ node[p] < Len(Events) /\ astray[p] = 0
  /\ astray' = [astray EXCEPT ![p] = 1]
  /\ UNCHANGED <<node, screen, mine, theirs, mail, taken, heard, verdict, late>>

NodesNext ==
  \E p \in Walker :
    EnterTheNode(p) \/ SampleEvent(p) \/ ReadSample(p) \/ GoAstray(p)

NodesSpec == NodesInit /\ [][NodesNext]_nodeVars

-------------------------------------------------------------------------------
(* Of a sample both peers took each of them says whether it was the same,  *)
(* and says so truly, as long as neither was more samples ahead than a     *)
(* ring holds; nothing is said of the others (match and publish: what      *)
(* comes first is kept for what comes second).                             *)
NodesCompared ==
  (\A p \in Walker : mail[p] = <<>>) /\ ~late =>
    LET Sampled(p, k) == {t \in taken[p] : KeyOf(t) = k} IN
    \A p \in Walker : \A k \in Sample :
      {v.same : v \in {w \in verdict[p] : w.of = k}}
        = {r[1].hash = r[2].hash : r \in Sampled(Ahead, k) \X Sampled(Behind, k)}
===============================================================================
