------------------------------- MODULE MCScreens -------------------------------
(***************************************************************************)
(* Instances for TLC of ScreenSync and Facing, which share no state: part  *)
(* says which of them is played.  A treasure is the last node, so that     *)
(* votes cast in one screen can still reach a peer that is in the next; of *)
(* two battles the first has a decision, so that facings of it arrive in   *)
(* the second.                                                             *)
(***************************************************************************)
EXTENDS ScreenSync, Facing, TLC

CONSTANTS p0, p1, cat1, cat2

VARIABLE part

TreasureLast == <<"event", "shop", "shop", "event", "treasure">>
Keepers == (cat1 :> p0) @@ (cat2 :> p1)
TwoBattles == << <<[cat |-> cat1, to |-> "east"]>>, <<>> >>

screensVars == <<part, vars, facingVars>>

Votes(A) == part = "votes" /\ A /\ UNCHANGED <<part, facingVars>>
Faces(A) == part = "facings" /\ A /\ UNCHANGED <<part, vars>>

ScreensInit == part \in {"votes", "facings"} /\ Init /\ FacingInit

ScreensNext == Votes(Next) \/ Faces(FacingNext)

(* FairSpec and FrameFairness, each for its part: no more is assumed than  *)
(* there.                                                                  *)
ScreensFairness ==
  /\ \A p \in Peer :
       /\ WF_screensVars(Votes(Enter(p) \/ Close(p)))
       /\ \A k \in {"eventExit", "shopExit"} :
            WF_screensVars(Votes(ButtonUpdate(p, k))) /\ WF_screensVars(Votes(ButtonClick(p, k)))
       /\ \A q \in Peer \ {p} : WF_screensVars(Votes(OnMessage(p, q)))
  /\ \A p \in Player :
       /\ WF_screensVars(Faces(FaceFrame(p) \/ TimePasses(p)))
       /\ WF_screensVars(Faces(ReadPost(p)))

ScreensSpec == ScreensInit /\ [][ScreensNext]_screensVars /\ ScreensFairness

(* PromptVotesSuffice, of behaviours in which votes are what is played.    *)
VotesSuffice == part = "votes" => PromptVotesSuffice
================================================================================
