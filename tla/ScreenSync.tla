------------------------------ MODULE ScreenSync ------------------------------
(***************************************************************************)
(* Leaving a screen together (src/session/mgmp_screensync.cpp).  A click on*)
(* one of three buttons is swallowed and becomes a vote; every peer counts *)
(* the votes for the button it is tracking and presses its own copy when   *)
(* they suffice.  A vote says which kind of button, never which screen: a  *)
(* peer starts counting anew when it sees a new button object.             *)
(*                                                                         *)
(* The nodes are visited in the host's order (mgmp_follow.cpp); a button   *)
(* object is named by its node.  Membership is fixed.  Votes of one peer   *)
(* reach another in order, those of two peers in any order, which includes *)
(* what the host's relay does.                                             *)
(***************************************************************************)
EXTENDS Naturals, Sequences, FiniteSets

CONSTANTS
  Peer,    \* the members of the session
  Host,
  Visit    \* the nodes of the run: "event", "shop" or "treasure"

NodeType == {"event", "shop", "treasure"}
Kind == {"eventExit", "shopExit", "chestOpen"}
Node == 1 .. Len(Visit)

ASSUME PeerAssumption == Host \in Peer /\ IsFiniteSet(Peer)
ASSUME VisitAssumption == Visit \in Seq(NodeType)

VARIABLES
  at,        \* the node the run stands in, 0 before the first
  open,      \* that node's screen is up (external)
  pressed,   \* how often the game's own click has run, per button (external)
  kinds,     \* State::kind: the button tracked, its votes, whether it fired
  wire,      \* votes on their way, per sender and receiver
  clicked,   \* history: the buttons each player has voted for
  astray     \* history: a vote was read by a peer that did not have its button

vars == <<at, open, pressed, kinds, wire, clicked, astray>>

Button == Node \X Kind
KindState == [armed: Node \cup {0}, voted: SUBSET Peer, fired: BOOLEAN]

(* A vote in flight; its node is not sent, only the properties read it.    *)
Vote == [kind: Kind, node: Node]

TypeOK ==
  /\ at \in [Peer -> Node \cup {0}]
  /\ open \in [Peer -> BOOLEAN]
  /\ pressed \in [Peer -> [Button -> Nat]]
  /\ kinds \in [Peer -> [Kind -> KindState]]
  /\ wire \in [Peer -> [Peer -> Seq(Vote)]]
  /\ clicked \in [Peer -> SUBSET Button]
  /\ astray \in BOOLEAN

Init ==
  /\ at = [p \in Peer |-> 0]
  /\ open = [p \in Peer |-> FALSE]
  /\ pressed = [p \in Peer |-> [b \in Button |-> 0]]
  /\ kinds = [p \in Peer |->
                [k \in Kind |-> [armed |-> 0, voted |-> {}, fired |-> FALSE]]]
  /\ wire = [p \in Peer |-> [q \in Peer |-> <<>>]]
  /\ clicked = [p \in Peer |-> {}]
  /\ astray = FALSE

-------------------------------------------------------------------------------
ExitKind(n) == IF Visit[n] = "event" THEN "eventExit" ELSE "shopExit"

(* The tracked buttons of a node's screen.                                 *)
ButtonsOf(n) == {ExitKind(n)} \cup IF Visit[n] = "treasure" THEN {"chestOpen"} ELSE {}

Shown(p) == IF open[p] THEN ButtonsOf(at[p]) ELSE {}

InTreasure(p) == at[p] # 0 /\ Visit[at[p]] = "treasure"

(* Mutant: one vote too many.                                              *)
OneMore(p, k) == Cardinality(Peer) + 1

(* threshold_for: by the node the peer stands in when it counts.           *)
Threshold(p, k) ==
  IF k = "chestOpen" \/ (k = "shopExit" /\ InTreasure(p)) THEN 1 ELSE Cardinality(Peer)

(* Mutant: votes of the last screen are counted for this one.              *)
ArmedKeeping(s, n) == IF s.armed = n THEN s ELSE [s EXCEPT !.armed = n, !.fired = FALSE]

(* ensure_armed: a new button object starts without votes.                 *)
Armed(s, n) == IF s.armed = n THEN s ELSE [armed |-> n, voted |-> {}, fired |-> FALSE]

(* Mutant: a button presses again in every frame.                          *)
FiresAgain(p, k, s) == s.armed # 0 /\ Cardinality(s.voted) >= Threshold(p, k)

(* maybe_fire.                                                             *)
Fires(p, k, s) == ~s.fired /\ s.armed # 0 /\ Cardinality(s.voted) >= Threshold(p, k)

(* The state of kind k becomes s, after maybe_fire.                        *)
Settle(p, k, s) ==
  IF Fires(p, k, s)
  THEN /\ kinds' = [kinds EXCEPT ![p][k] = [s EXCEPT !.fired = TRUE]]
       /\ pressed' = [pressed EXCEPT ![p][<<s.armed, k>>] = @ + 1]
  ELSE /\ kinds' = [kinds EXCEPT ![p][k] = s]
       /\ UNCHANGED pressed

(* A node is entered and recorded (remember_node) and its screen comes up; *)
(* nobody is ahead of the host.                                            *)
Enter(p) ==
  /\ ~open[p]
  /\ at[p] < IF p = Host THEN Len(Visit) ELSE at[Host]
  /\ at' = [at EXCEPT ![p] = @ + 1]
  /\ open' = [open EXCEPT ![p] = TRUE]
  /\ UNCHANGED <<pressed, kinds, wire, clicked, astray>>

(* The game closes a screen whose exit button has been pressed.            *)
Close(p) ==
  /\ open[p]
  /\ pressed[p][<<at[p], ExitKind(at[p])>>] > 0
  /\ open' = [open EXCEPT ![p] = FALSE]
  /\ UNCHANGED <<at, pressed, kinds, wire, clicked, astray>>

(* screensync_on_button_update, every frame a button is up.                *)
ButtonUpdate(p, k) ==
  /\ k \in Shown(p)
  /\ Settle(p, k, Armed(kinds[p][k], at[p]))
  /\ UNCHANGED <<at, open, wire, clicked, astray>>

(* screensync_on_button_click: a click on a button that has fired, or that *)
(* this player has voted for, is swallowed and does nothing more.          *)
ButtonClick(p, k) ==
  /\ k \in Shown(p)
  /\ LET s == Armed(kinds[p][k], at[p]) IN
       IF s.fired \/ p \in s.voted
       THEN /\ kinds' = [kinds EXCEPT ![p][k] = s]
            /\ UNCHANGED <<pressed, wire, clicked>>
       ELSE /\ wire' = [wire EXCEPT ![p] =
                          [q \in Peer |-> IF q = p THEN @[q]
                                          ELSE Append(@[q], [kind |-> k, node |-> at[p]])]]
            /\ clicked' = [clicked EXCEPT ![p] = @ \cup {<<at[p], k>>}]
            /\ Settle(p, k, [s EXCEPT !.voted = @ \cup {p}])
  /\ UNCHANGED <<at, open, astray>>

(* screensync_on_message: p reads the oldest vote of q; a second vote of   *)
(* one peer is a duplicate.                                                *)
OnMessage(p, q) ==
  /\ wire[q][p] # <<>>
  /\ LET k == Head(wire[q][p]).kind
         s == kinds[p][k]
     IN IF q \in s.voted THEN UNCHANGED <<kinds, pressed>>
        ELSE Settle(p, k, [s EXCEPT !.voted = @ \cup {q}])
  /\ wire' = [wire EXCEPT ![q][p] = Tail(@)]
  /\ astray' = (astray \/ LET v == Head(wire[q][p]) IN kinds[p][v.kind].armed # v.node)
  /\ UNCHANGED <<at, open, clicked>>

Next ==
  \E p \in Peer :
    \/ Enter(p) \/ Close(p)
    \/ \E k \in Kind : ButtonUpdate(p, k) \/ ButtonClick(p, k)
    \/ \E q \in Peer : OnMessage(p, q)

Spec == Init /\ [][Next]_vars

(* Frames run, messages are pumped, and a player who can leave a screen    *)
(* eventually wants to.                                                    *)
FairSpec ==
  /\ Spec
  /\ \A p \in Peer :
       /\ WF_vars(Enter(p)) /\ WF_vars(Close(p))
       /\ \A k \in Kind : WF_vars(ButtonUpdate(p, k))
       /\ WF_vars(ButtonClick(p, "eventExit")) /\ WF_vars(ButtonClick(p, "shopExit"))
       /\ \A q \in Peer : WF_vars(OnMessage(p, q))

-------------------------------------------------------------------------------
(* Properties.                                                             *)

(* No screen is left, and no chest opened, against its rule: an event or a *)
(* shop is left on any copy only after every player has asked to leave that*)
(* very screen, a treasure's buttons are pressed only after some player    *)
(* has pressed that very button -- although a vote does not say which      *)
(* screen it is for (ensure_armed, threshold_for, maybe_fire).  It is true *)
(* of runs in which no shop comes after a treasure: a treasure is left     *)
(* without waiting, so votes for it may still arrive in a shop.            *)
ByConsent ==
  \A p \in Peer : \A n \in Node, k \in Kind :
    pressed[p][<<n, k>>] > 0 =>
      IF Visit[n] = "treasure" THEN \E q \in Peer : <<n, k>> \in clicked[q]
      ELSE \A q \in Peer : <<n, k>> \in clicked[q]

(* The game's own click runs once per button, however often the player     *)
(* clicks, the frame ticks or votes arrive (State::kind[k].fired).         *)
PressedOnce == \A p \in Peer, b \in Button : pressed[p][b] <= 1

Done == \A p \in Peer : at[p] = Len(Visit) /\ ~open[p]

(* As long as every vote is read by a peer that has its button in sight,   *)
(* every player comes through every screen: counting, pressing and arming  *)
(* strand nobody by themselves.                                            *)
PromptVotesSuffice == <>(astray \/ Done)
==============================================================================
