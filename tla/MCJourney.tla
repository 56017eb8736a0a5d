------------------------------ MODULE MCJourney ------------------------------
(***************************************************************************)
(* Instances for TLC of Journey and ShopMirror, which share no state: part *)
(* says which of them is played.                                           *)
(***************************************************************************)
EXTENDS Journey, ShopMirror

CONSTANTS p0, p1, kit0, kit1

VARIABLE part

Decide(k, p) == [kind |-> k, decider |-> p, options |-> 2]
Quiet(screens) == [battle |-> FALSE, vote |-> FALSE, screens |-> screens]
Together(screens) == [battle |-> FALSE, vote |-> TRUE, screens |-> screens]
Battle(screens) == [battle |-> TRUE, vote |-> FALSE, screens |-> screens]

(* Events left together, battles with level-ups, nodes the host may hurry  *)
(* through; the first of those is not on the client's map.                 *)
Mixed ==
  <<Together(<<Decide("event", p1)>>),
    Quiet(<<Decide("event", p0)>>),
    Quiet(<<>>),
    Quiet(<<Decide("levelUp", p0)>>),
    Battle(<<Decide("levelUp", p1)>>),
    Together(<<Decide("event", p0), Decide("levelUp", p1)>>),
    Battle(<<Decide("levelUp", p0)>>),
    Battle(<<>>),
    Together(<<Decide("levelUp", p0), Decide("event", p1)>>)>>

OtherMap == {<<p1, 2>>}

(* Each of the two shoppers cares for one of the cats.                     *)
Carers == (kit0 :> p0) @@ (kit1 :> p1)

partVars == <<part, vars, shopVars>>

Walks(A) == part = "walk" /\ A /\ UNCHANGED <<part, shopVars>>
Shops(A) == part = "shop" /\ A /\ UNCHANGED <<part, vars>>

PartInit == part \in {"walk", "shop"} /\ Init /\ ShopInit

PartNext == Walks(Next) \/ Shops(ShopNext)

(* FairSpec and ShopFairness, each for its part: no more is assumed than   *)
(* there.                                                                  *)
PartFairness ==
  /\ WF_partVars(Walks(HostEnterNode))
  /\ \A c \in Client :
       /\ WF_partVars(Walks(OnEnterNode(c))) /\ WF_partVars(Walks(CloseModal(c)))
       /\ SF_partVars(Walks(RefuseNode(c))) /\ SF_partVars(Walks(FollowNode(c)))
  /\ \A p \in Peer :
       /\ WF_partVars(Walks(ScreenUp(p))) /\ WF_partVars(Walks(Build(p)))
       /\ WF_partVars(Walks(Choose(p))) /\ WF_partVars(Walks(ScreenTick(p)))
       /\ WF_partVars(Walks(CloseScreen(p))) /\ WF_partVars(Walks(LeaveNode(p)))
       /\ \A q \in Peer : WF_partVars(Walks(OnChoice(p, q)))
  /\ \A p \in Shopper :
       /\ WF_partVars(Shops(OwnShopStep(p))) /\ WF_partVars(Shops(ReadMail(p)))
       /\ WF_partVars(Shops(TimerRunsOut(p)))

PartSpec == PartInit /\ [][PartNext]_partVars /\ PartFairness

(* NobodyStranded, of behaviours in which a run is what is walked.         *)
NobodyStays == part = "walk" => NobodyStranded
==============================================================================
