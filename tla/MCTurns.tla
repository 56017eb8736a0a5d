-------------------------------- MODULE MCTurns --------------------------------
(***************************************************************************)
(* Instances for TLC of HashExchange, NodeHash, Trace and Delays: what     *)
(* shows that two copies of a game are no longer alike.  They share no     *)
(* state: part says which of them is played.  A ring holds two hashes, so  *)
(* that battles and nodes fill it, wrap it and overrun it.                 *)
(***************************************************************************)
EXTENDS HashExchange, NodeHash, Trace, Delays

CONSTANTS p0, p1, cat1, cat2, foe

VARIABLE part

EventsFirstAndLast == <<TRUE, FALSE, TRUE>>
FoeBetween == <<cat1, foe, cat2>>

turnsVars == <<part, vars, nodeVars, traceVars, delayVars>>

Plays(p) == part = p /\ UNCHANGED part

TurnsInit ==
  /\ part \in {"hashes", "nodes", "trace", "delays"}
  /\ Init /\ NodesInit /\ TraceInit /\ DelaysInit
  /\ part # "delays" => birth = [turn |-> 0, delay |-> 0]

TurnsNext ==
  \/ Plays("hashes") /\ Next /\ UNCHANGED <<nodeVars, traceVars, delayVars>>
  \/ Plays("nodes") /\ NodesNext /\ UNCHANGED <<vars, traceVars, delayVars>>
  \/ Plays("trace") /\ TraceNext /\ UNCHANGED <<vars, nodeVars, delayVars>>
  \/ Plays("delays") /\ DelaysNext /\ UNCHANGED <<vars, nodeVars, traceVars>>

TurnsSpec == TurnsInit /\ [][TurnsNext]_turnsVars
================================================================================
