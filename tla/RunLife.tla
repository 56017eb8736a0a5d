------------------------------- MODULE RunLife -------------------------------
(***************************************************************************)
(* How a client gets into the host's run and out of it again: the host's   *)
(* save file is sent, held, declined or loaded (src/session/               *)
(* mgmp_savefile.cpp), the host's departure is noticed and announced       *)
(* (mgmp_leave.cpp), the client's Play button is the mod's alone           *)
(* (mgmp_mainmenulock.cpp), the client follows into the host's nodes       *)
(* (mgmp_follow.cpp), and a client whose link or process was lost joins    *)
(* again (mgmp_session.cpp).                                               *)
(*                                                                         *)
(* Nodes are numbered along a run, runs along the session.  What the run's *)
(* data are is left to the modules that extend this one: live is copied to *)
(* the file and from it.  Journey has the limits of following.             *)
(***************************************************************************)
EXTENDS Naturals, Sequences, SequencesExt

CONSTANTS
  Host, Client,
  Nodes,        \* number of nodes of a run
  Together,     \* nodes nobody gets through before all are in them
  MaxRuns,      \* bound: runs the host starts
  MaxWire,      \* bound: messages on their way when the host sends
  ConfirmPolls, \* kConfirmPolls
  MaxPresses,   \* kPlayMaxPresses
  MaxQuits,     \* kMaxPresses, of Escape and of Quit To Menu
  MaxFaults,    \* bound: faults, whims of a player and further runs
  Data,         \* what the data of a run may be
  Fresh,        \* the data of a run that has just begun
  NoBlob

Peer == {Host} \cup Client

ASSUME LifePeers == Host \notin Client
ASSUME LifeBounds ==
  /\ Nodes \in Nat /\ MaxRuns \in Nat /\ MaxWire \in Nat
  /\ MaxFaults \in Nat /\ ConfirmPolls \in Nat \ {0}
  /\ MaxPresses \in Nat \ {0} /\ MaxQuits \in Nat \ {0}
  /\ Together \subseteq 1 .. Nodes
ASSUME LifeData == Fresh \in Data

VARIABLES
  host,    \* where the host's game is: screen, run and node (external)
  here,    \* the host's follow State::here_seed: the last node it entered
  runs,    \* runs the host has started (external)
  disk,    \* the host's save file
  live,    \* the data of the run in each game
  save,    \* the host's savefile State
  leave,   \* the host's leave State; ready is session Phase::Ready
  game,    \* where each client's game is
  file,    \* a client's savefile State
  leaving, \* a client's leave State::pending
  quit,    \* how far the mod is in quitting: said_sidebar, escape_sent, presses
  nodeQ,   \* follow State::pending_q
  linked,  \* the client has a link and is Ready
  wire,    \* host to client, oldest first
  faults,  \* bound: what is left of MaxFaults
  snag     \* history: what has befallen a client that the code has no way out of

hostVars == <<host, here, runs, disk, save, leave>>
clientVars == <<game, file, leaving, quit, nodeQ, linked, faults, snag>>
lifeVars == <<hostVars, clientVars, live, wire>>

HostScreen == {"menu", "house", "setup", "map", "node"}
ClientScreen == {"menu", "saves", "house", "map", "node"}
Reading == {"Unknown", "InRun", "OutOfRun"}
Snag == {"quit", "staleFile", "leftBehind", "noCheckpoint", "heldUp", "gaveUp", "again",
         "staleReading", "declines", "oldNode", "unwritten"}

At(screens) == [at: screens, run: 0 .. MaxRuns, entered: 0 .. Nodes]

(* Scenes kScene_House, kScene_MainMenu, kScene_SaveSelect: out_scene.     *)
Out == {"menu", "saves", "house"}

(* where_are_we.  The screens on which a run is prepared read as the run.  *)
Here(screen) == IF screen \in Out THEN "OutOfRun" ELSE "InRun"

NoRun(screen) == [at |-> screen, run |-> 0, entered |-> 0]
NoNode == [run |-> 0, node |-> 0]
Unpressed == [key |-> "escape", presses |-> 0]
MenuSeen == [key |-> "quit", presses |-> 0]
GivenUp == [key |-> "none", presses |-> 0]

LifeInit ==
  /\ host = NoRun("menu")
  /\ here = NoNode
  /\ runs = 0
  /\ disk = [run |-> 0, entered |-> 0, live |-> Fresh]
  /\ live = [p \in Peer |-> Fresh]
  /\ save = [slot |-> FALSE, published |-> FALSE, waiting |-> FALSE]
  /\ leave = [ready |-> FALSE, where |-> "Unknown", wasInRun |-> FALSE, outPolls |-> 0,
              announced |-> FALSE, republish |-> FALSE]
  /\ game = [c \in Client |-> NoRun("menu")]
  /\ file = [c \in Client |-> [blob |-> NoBlob, applied |-> FALSE, presses |-> 0]]
  /\ leaving = [c \in Client |-> FALSE]
  /\ quit = [c \in Client |-> Unpressed]
  /\ nodeQ = [c \in Client |-> <<>>]
  /\ linked = [c \in Client |-> FALSE]
  /\ wire = [c \in Client |-> <<>>]
  /\ faults = MaxFaults
  /\ snag = [c \in Client |-> {}]

-------------------------------------------------------------------------------
(* The host.                                                               *)

Linked == {c \in Client : linked[c]}

(* net_send: to every live link; without one nothing is sent.              *)
Sent(messages) ==
  [c \in Client |-> IF linked[c] THEN wire[c] \o messages ELSE wire[c]]

(* Bound.                                                                  *)
Room == \A c \in Client : Len(wire[c]) < MaxWire

(* The game keeps a screen up longer than the mod takes to notice it: two  *)
(* polls of kPollFrames, a tick of the map and a pump.                     *)
Settled ==
  leave.ready =>
    /\ leave.where = Here(host.at)
    /\ leave.where = "OutOfRun" => ~leave.wasInRun \/ leave.announced
    /\ host.at = "map" => ~leave.republish /\ ~save.waiting
    /\ save.slot /\ Linked # {} => save.published

Moves(screens) == host.at \in screens /\ Settled

(* savefile_on_slot_click, and the game loads the file: into the run it    *)
(* holds or into the house.                                                *)
PickSlot ==
  /\ Moves({"menu"})
  /\ save' = [save EXCEPT !.slot = TRUE, !.published = FALSE]
  /\ IF disk.run = 0
     THEN host' = NoRun("house") /\ UNCHANGED live
     ELSE /\ host' = [at |-> "map", run |-> disk.run, entered |-> disk.entered]
          /\ live' = [live EXCEPT ![Host] = disk.live]
  /\ UNCHANGED <<here, runs, disk, leave, wire, clientVars>>

(* From the house, without a click on a save.                              *)
StartRun ==
  /\ Moves({"house"}) /\ runs < MaxRuns
  /\ runs = 0 \/ faults > 0
  /\ faults' = IF runs = 0 THEN faults ELSE faults - 1
  /\ runs' = runs + 1
  /\ host' = [at |-> "setup", run |-> runs + 1, entered |-> 0]
  /\ live' = [live EXCEPT ![Host] = Fresh]
  /\ UNCHANGED <<here, disk, save, leave, wire, game, file, leaving, quit, nodeQ,
                 linked, snag>>

ReachMap ==
  /\ Moves({"setup"})
  /\ host' = [host EXCEPT !.at = "map"]
  /\ UNCHANGED <<here, runs, disk, save, leave, live, wire, clientVars>>

(* The run is won, lost or abandoned, and the file is a house's again.     *)
EndRun ==
  /\ Moves({"map"}) /\ host.entered = Nodes
  /\ host' = NoRun("house")
  /\ disk' = [run |-> 0, entered |-> 0, live |-> Fresh]
  /\ UNCHANGED <<here, runs, save, leave, live, wire, clientVars>>

HostQuits ==
  /\ Moves({"map", "node"}) /\ faults > 0
  /\ faults' = faults - 1
  /\ host' = NoRun("menu")
  /\ UNCHANGED <<here, runs, disk, save, leave, live, wire, game, file, leaving, quit, nodeQ,
                 linked, snag>>

(* Mutant: only a departure makes the host publish again.                  *)
RepublishedIfDue ==
  [save EXCEPT !.published = @ /\ ~leave.republish, !.waiting = FALSE]

(* savefile_republish.                                                     *)
Republished == [save EXCEPT !.published = FALSE, !.waiting = FALSE]

(* leave_consume_republish_due and savefile_on_host_map_tick, the map's    *)
(* tick being the sign that the run has begun.                             *)
MapTick ==
  /\ host.at = "map" /\ save.slot
  /\ leave.republish \/ save.waiting
  /\ leave' = [leave EXCEPT !.republish = FALSE]
  /\ save' = Republished
  /\ UNCHANGED <<host, here, runs, disk, live, wire, clientVars>>

(* flush_live_run: only between nodes.                                     *)
Flushed ==
  IF host.at = "map"
  THEN [run |-> host.run, entered |-> host.entered, live |-> live[Host]]
  ELSE disk

(* SaveFileMsg::ready, as the last poll read it.                           *)
IsReady == leave.where = "InRun"

SaveFile(fresh) == [type |-> "SAVEFILE", fresh |-> fresh, ready |-> IsReady, blob |-> Flushed]

AfterPublish == [save EXCEPT !.waiting = @ \/ ~IsReady]

(* savefile_pump.  A failed send is tried again.                           *)
Publish ==
  /\ leave.ready /\ save.slot /\ ~save.published
  /\ Linked # {}
  /\ Room
  /\ disk' = Flushed
  /\ save' = [AfterPublish EXCEPT !.published = TRUE]
  /\ wire' = Sent(<<SaveFile(TRUE)>>)
  /\ UNCHANGED <<host, here, runs, leave, live, clientVars>>

(* Mutant: the departure is not armed again by the next run.               *)
SeenInRunOnce(l) == [l EXCEPT !.where = "InRun", !.wasInRun = TRUE, !.outPolls = 0]

SeenInRun(l) ==
  [l EXCEPT !.where = "InRun", !.wasInRun = TRUE, !.outPolls = 0, !.announced = FALSE]

(* A departure is still to be confirmed.                                   *)
AwaitsDeparture(l) == l.wasInRun /\ ~l.announced

SeenOut(l) ==
  IF ~AwaitsDeparture(l) THEN [l EXCEPT !.where = "OutOfRun"]
  ELSE [l EXCEPT !.where = "OutOfRun", !.outPolls = @ + 1]

(* leave_pump on the host.                                                 *)
HostPoll ==
  /\ leave.ready
  /\ LET seen == IF Here(host.at) = "InRun" THEN SeenInRun(leave) ELSE SeenOut(leave)
         gone == seen.outPolls >= ConfirmPolls /\ AwaitsDeparture(leave)
     IN IF gone
        THEN /\ leave' = [seen EXCEPT !.announced = TRUE, !.wasInRun = FALSE,
                                      !.republish = TRUE]
             /\ wire' = Sent(<<[type |-> "HOSTLEFT"]>>)
        ELSE leave' = seen /\ UNCHANGED wire
  /\ leave' # leave
  /\ UNCHANGED <<host, here, runs, disk, save, live, clientVars>>

EnterNode(n) == [type |-> "ENTERNODE", run |-> n.run, node |-> n.node]

(* follow_on_enter_node; pushes are what the stores publish first.         *)
HostEntersNode(pushes) ==
  /\ Moves({"map"}) /\ host.entered < Nodes /\ Room
  /\ host' = [host EXCEPT !.at = "node", !.entered = @ + 1]
  /\ here' = [run |-> host.run, node |-> host.entered + 1]
  /\ wire' = Sent(pushes \o <<EnterNode(here')>>)
  /\ UNCHANGED <<runs, disk, save, leave, live, clientVars>>

(* The others are through with node n, or in it.                           *)
AllIn(n) ==
  /\ host.run > 0 /\ host.entered >= n
  /\ \A c \in Linked : game[c].run = host.run /\ game[c].entered >= n

(* The node is over on the host and has done to the run's data what after  *)
(* says; the game saves whenever it returns to the map.                    *)
HostLeavesNode(after) ==
  /\ Moves({"node"})
  /\ host.entered \in Together => AllIn(host.entered)
  /\ host' = [host EXCEPT !.at = "map"]
  /\ live' = [live EXCEPT ![Host] = after]
  /\ disk' = [run |-> host.run, entered |-> host.entered, live |-> after]
  /\ UNCHANGED <<here, runs, save, leave, wire, clientVars>>

-------------------------------------------------------------------------------
(* A client.                                                               *)

Snagged(c, why) == snag' = [snag EXCEPT ![c] = @ \cup why]

Reads(c, type) ==
  /\ wire[c] # <<>> /\ Head(wire[c]).type = type
  /\ wire' = [wire EXCEPT ![c] = Tail(@)]

(* Mutant: whatever the host sends is a run to follow.                     *)
HeldFileAnyway(f, m) == [f EXCEPT !.blob = m.blob, !.applied = FALSE]

(* The file is kept only when the host is in a run.                        *)
HeldFile(f, m) == IF m.ready THEN [f EXCEPT !.blob = m.blob, !.applied = FALSE] ELSE f

(* savefile_on_message: a client that has loaded a file declines copies of *)
(* it, and drops it for a fresh one.  A held file makes up for a lost one. *)
OnSaveFile(c) ==
  /\ Reads(c, "SAVEFILE")
  /\ LET m == Head(wire[c])
         f == IF file[c].applied THEN [file[c] EXCEPT !.applied = FALSE, !.presses = 0]
              ELSE file[c]
     IN /\ file' = IF file[c].applied /\ ~m.fresh THEN file
                   ELSE [file EXCEPT ![c] = HeldFile(f, m)]
        /\ snag' = IF file'[c].blob = NoBlob THEN snag
                   ELSE [snag EXCEPT ![c] = @ \ {"unwritten"}]
  /\ UNCHANGED <<hostVars, live, game, leaving, quit, nodeQ, linked, faults>>

(* leave_on_message: nothing to do on a peer that is not in a run, another *)
(* begins to quit anew.  On any peer a file it holds stays, and is loaded  *)
(* although the host is out.                                               *)
OnHostLeft(c) ==
  /\ Reads(c, "HOSTLEFT")
  /\ IF game[c].at \in Out THEN UNCHANGED <<leaving, quit>>
     ELSE /\ leaving' = [leaving EXCEPT ![c] = TRUE]
          /\ quit' = [quit EXCEPT ![c] = Unpressed]
  /\ Snagged(c, IF file[c].blob # NoBlob THEN {"staleFile"} ELSE {})
  /\ UNCHANGED <<hostVars, live, game, file, nodeQ, linked, faults>>

(* savefile_on_button_update: presses Play as long as the main menu stays. *)
(* After the last press the player is asked to press it, whose click is    *)
(* swallowed (h_ButtonClick).                                              *)
PressPlay(c) ==
  /\ game[c].at = "menu" /\ file[c].blob # NoBlob /\ ~file[c].applied
  /\ file[c].presses < MaxPresses
  /\ file' = [file EXCEPT ![c].presses = @ + 1]
  /\ \/ game' = [game EXCEPT ![c] = NoRun("saves")] /\ UNCHANGED snag
     \/ /\ UNCHANGED game
        /\ Snagged(c, IF file[c].presses + 1 = MaxPresses THEN {"gaveUp"} ELSE {})
  /\ UNCHANGED <<hostVars, live, wire, leaving, quit, nodeQ, linked, faults>>

(* savefile_autoselect and savefile_redirect_load.  Loading outlasts a     *)
(* poll, so that a client that was leaving has noticed it is out.  The     *)
(* presses count for nothing until the next file, which clears them.       *)
AutoSelect(c) ==
  /\ game[c].at = "saves" /\ ~leaving[c]
  /\ file[c].blob # NoBlob /\ ~file[c].applied
  /\ LET b == file[c].blob IN
       /\ game' = [game EXCEPT ![c] =
                     IF b.run = 0 THEN NoRun("house")
                     ELSE [at |-> "map", run |-> b.run, entered |-> b.entered]]
       /\ live' = [live EXCEPT ![c] = b.live]
  /\ file' = [file EXCEPT ![c] = [blob |-> NoBlob, applied |-> TRUE, presses |-> 0]]
  /\ UNCHANGED <<hostVars, wire, leaving, quit, nodeQ, linked, faults, snag>>

(* savefile_autoselect, without its folder or unable to write the file:    *)
(* what was held is dropped.                                               *)
CannotWrite(c) ==
  /\ game[c].at = "saves" /\ ~leaving[c]
  /\ file[c].blob # NoBlob /\ ~file[c].applied
  /\ faults > 0
  /\ faults' = faults - 1
  /\ file' = [file EXCEPT ![c].blob = NoBlob]
  /\ Snagged(c, {"unwritten"})
  /\ UNCHANGED <<hostVars, live, wire, game, leaving, quit, nodeQ, linked>>

InGame(c) == game[c].at \in {"map", "node"}

(* A press that has not taken.                                             *)
Wasted(q) ==
  IF q.presses + 1 = MaxQuits THEN GivenUp ELSE [q EXCEPT !.presses = @ + 1]

(* leave_pump on a client: Escape, which opens the pause menu or does not. *)
(* Once the menu has been seen it is never pressed again.                  *)
PressEscape(c) ==
  /\ leaving[c] /\ InGame(c) /\ quit[c].key = "escape"
  /\ quit' \in {[quit EXCEPT ![c] = MenuSeen], [quit EXCEPT ![c] = Wasted(@)]}
  /\ UNCHANGED <<hostVars, live, wire, game, file, leaving, nodeQ, linked, faults, snag>>

(* leave_on_button_update: clicks Quit To Menu, which takes or does not.   *)
PressQuit(c) ==
  /\ leaving[c] /\ InGame(c) /\ quit[c].key = "quit"
  /\ quit' = [quit EXCEPT ![c] = Wasted(@)]
  /\ game' \in {game, [game EXCEPT ![c] = NoRun("menu")]}
  /\ UNCHANGED <<hostVars, live, wire, file, leaving, nodeQ, linked, faults, snag>>

(* The player closes the menu the mod has opened, and it waits in vain.    *)
ClosesMenu(c) ==
  /\ leaving[c] /\ InGame(c) /\ quit[c].key = "quit"
  /\ faults > 0
  /\ faults' = faults - 1
  /\ quit' = [quit EXCEPT ![c] = GivenUp]
  /\ UNCHANGED <<hostVars, live, wire, game, file, leaving, nodeQ, linked, snag>>

(* The mod has pressed as often as it will, or waits for a menu the player *)
(* has closed: it is up to the player to quit (QuitByHand).                *)
UpToPlayer(c) == leaving[c] /\ InGame(c) /\ quit[c] = GivenUp

(* leave_pump on a client; presses are counted again for the next run.     *)
ClientPoll(c) ==
  /\ leaving[c] /\ game[c].at \in Out
  /\ leaving' = [leaving EXCEPT ![c] = FALSE]
  /\ quit' = [quit EXCEPT ![c] = Unpressed]
  /\ UNCHANGED <<hostVars, live, wire, game, file, nodeQ, linked, faults, snag>>

(* The player's own Quit To Menu, which is not locked.  The file counts as *)
(* applied, so nothing presses Play again, unless the host leaves too.     *)
QuitByHand(c) ==
  /\ InGame(c)
  /\ game' = [game EXCEPT ![c] = NoRun("menu")]
  /\ IF leaving[c] THEN UNCHANGED <<faults, snag>>
     ELSE /\ faults > 0 /\ faults' = faults - 1
          /\ Snagged(c, {"quit"})
  /\ UNCHANGED <<hostVars, live, wire, file, leaving, quit, nodeQ, linked>>

(* follow_on_message.                                                      *)
OnEnterNode(c) ==
  /\ Reads(c, "ENTERNODE")
  /\ nodeQ' = [nodeQ EXCEPT ![c] = Append(@, [run |-> Head(wire[c]).run,
                                              node |-> Head(wire[c]).node])]
  /\ UNCHANGED <<hostVars, live, game, file, leaving, quit, linked, faults, snag>>

(* follow_map_update: the node of another run has another seed.            *)
RefusesNode(c) ==
  /\ game[c].at = "map" /\ nodeQ[c] # <<>>
  /\ Head(nodeQ[c]).run # game[c].run
  /\ nodeQ' = [nodeQ EXCEPT ![c] = Tail(@)]
  /\ UNCHANGED <<hostVars, live, wire, game, file, leaving, quit, linked, faults, snag>>

(* follow_map_update: into the host's node, whether or not this copy has   *)
(* been through it; before is what the pushes make of the run's data.      *)
FollowsIntoNode(c, before) ==
  /\ game[c].at = "map" /\ nodeQ[c] # <<>>
  /\ Head(nodeQ[c]).run = game[c].run
  /\ LET n == Head(nodeQ[c]).node IN
       /\ game' = [game EXCEPT ![c].at = "node", ![c].entered = n]
       /\ Snagged(c, IF n <= game[c].entered THEN {"again"} ELSE {})
  /\ nodeQ' = [nodeQ EXCEPT ![c] = Tail(@)]
  /\ live' = [live EXCEPT ![c] = before]
  /\ UNCHANGED <<hostVars, wire, file, leaving, quit, linked, faults>>

ClientLeavesNode(c, after) ==
  /\ game[c].at = "node"
  /\ game[c].entered \in Together => game[c].run = host.run /\ AllIn(game[c].entered)
  /\ game' = [game EXCEPT ![c].at = "map"]
  /\ live' = [live EXCEPT ![c] = after]
  /\ UNCHANGED <<hostVars, wire, file, leaving, quit, nodeQ, linked, faults, snag>>

-------------------------------------------------------------------------------
(* Links.                                                                  *)

LosesLink(c) ==
  /\ linked[c] /\ faults > 0
  /\ faults' = faults - 1
  /\ linked' = [linked EXCEPT ![c] = FALSE]
  /\ wire' = [wire EXCEPT ![c] = <<>>]
  /\ UNCHANGED <<hostVars, live, game, file, leaving, quit, nodeQ, snag>>

(* The client's game is closed and started again.                          *)
Restarts(c) ==
  /\ faults > 0
  /\ faults' = faults - 1
  /\ linked' = [linked EXCEPT ![c] = FALSE]
  /\ wire' = [wire EXCEPT ![c] = <<>>]
  /\ game' = [game EXCEPT ![c] = NoRun("menu")]
  /\ file' = [file EXCEPT ![c] = [blob |-> NoBlob, applied |-> FALSE, presses |-> 0]]
  /\ leaving' = [leaving EXCEPT ![c] = FALSE]
  /\ quit' = [quit EXCEPT ![c] = Unpressed]
  /\ nodeQ' = [nodeQ EXCEPT ![c] = <<>>]
  /\ snag' = [snag EXCEPT ![c] = {}]
  /\ UNCHANGED <<hostVars, live>>

(* leave_init, when the session has its first peer.                        *)
Readied ==
  IF leave.ready THEN leave
  ELSE [leave EXCEPT !.ready = TRUE, !.where = "Unknown", !.wasInRun = FALSE,
                     !.outPolls = 0, !.announced = FALSE]

(* Traps a joiner may run into: the host is, or was at the last poll, in a *)
(* run, but the file on disk is a house's; the host cannot leave the node  *)
(* without the joiner and will not send its file before it has; the run    *)
(* the joiner is in is over; the host left a run since the last poll; the  *)
(* joiner has loaded a file before, and will not take a copy; it is sent a *)
(* node the host gave up.                                                  *)
JoinSnags(c) ==
  (IF "InRun" \in {leave.where, Here(host.at)} /\ Flushed.run = 0
   THEN {"noCheckpoint"} ELSE {})
  \cup (IF host.at = "node" /\ host.entered \in Together /\ ~IsReady
        THEN {"heldUp"} ELSE {})
  \cup (IF game[c].run \notin {0, host.run} THEN {"leftBehind"} ELSE {})
  \cup (IF leave.where = "InRun" /\ host.run = 0 THEN {"staleReading"} ELSE {})
  \cup (IF file[c].applied /\ game[c].at \in Out THEN {"declines"} ELSE {})
  \cup (IF here.run > 0 /\ host.run \in {0, here.run} /\ host.entered < here.node
        THEN {"oldNode"} ELSE {})

(* session_shutdown on the client, then handle_hello on the host and       *)
(* go_ready on both: a copy of the file if one was published, what the     *)
(* stores publish, and the node the host entered last, whether or not it   *)
(* is still in it, or even in that run (savefile_catchup, follow_catchup). *)
Joins(c, pushes) ==
  /\ ~linked[c]
  /\ linked' = [linked EXCEPT ![c] = TRUE]
  /\ leave' = Readied
  /\ LET catchup == save.published /\ save.slot
         node == IF here = NoNode THEN <<>> ELSE <<EnterNode(here)>>
     IN /\ disk' = IF catchup THEN Flushed ELSE disk
        /\ save' = IF catchup THEN AfterPublish ELSE save
        /\ wire' = [d \in Client |->
                      IF d = c
                      THEN (IF catchup THEN <<SaveFile(FALSE)>> ELSE <<>>) \o pushes \o node
                      ELSE IF linked[d] THEN wire[d] \o pushes ELSE wire[d]]
  /\ file' = [file EXCEPT ![c].blob = NoBlob]
  /\ leaving' = [leaving EXCEPT ![c] = FALSE]
  /\ quit' = [quit EXCEPT ![c] = Unpressed]
  /\ nodeQ' = [nodeQ EXCEPT ![c] = <<>>]
  /\ Snagged(c, JoinSnags(c))
  /\ UNCHANGED <<host, here, runs, live, game, faults>>

-------------------------------------------------------------------------------
(* The life of the run by itself, without its data.                        *)

LifeTypeOK ==
  /\ host \in At(HostScreen) /\ runs \in 0 .. MaxRuns
  /\ here \in [run: 0 .. MaxRuns, node: 0 .. Nodes]
  /\ disk \in [run: 0 .. MaxRuns, entered: 0 .. Nodes, live: Data]
  /\ live \in [Peer -> Data]
  /\ save \in [slot: BOOLEAN, published: BOOLEAN, waiting: BOOLEAN]
  /\ leave \in [ready: BOOLEAN, where: Reading, wasInRun: BOOLEAN,
                outPolls: 0 .. ConfirmPolls, announced: BOOLEAN, republish: BOOLEAN]
  /\ game \in [Client -> At(ClientScreen)]
  /\ \A c \in Client :
       /\ file[c].applied \in BOOLEAN /\ file[c].presses \in 0 .. MaxPresses
       /\ file[c].blob # NoBlob =>
            file[c].blob \in [run: 0 .. MaxRuns, entered: 0 .. Nodes, live: Data]
  /\ leaving \in [Client -> BOOLEAN]
  /\ quit \in [Client -> [key: {"escape", "quit", "none"}, presses: 0 .. MaxQuits - 1]]
  /\ linked \in [Client -> BOOLEAN]
  /\ \A c \in Client : linked[c] \/ wire[c] = <<>>
  /\ faults \in 0 .. MaxFaults
  /\ snag \in [Client -> SUBSET Snag]

(* The host's game goes on by itself.                                      *)
HostGoesOn == ReachMap \/ MapTick \/ HostLeavesNode(Fresh)

HostAlone ==
  \/ HostGoesOn \/ PickSlot \/ StartRun \/ EndRun \/ HostQuits
  \/ Publish \/ HostPoll \/ HostEntersNode(<<>>)

ClientReads(c) == OnSaveFile(c) \/ OnHostLeft(c) \/ OnEnterNode(c)

(* What the mod does with the client's screens.                            *)
ClientScreens(c) ==
  PressPlay(c) \/ AutoSelect(c) \/ PressEscape(c) \/ PressQuit(c) \/ ClientPoll(c)

ClientNodes(c) ==
  RefusesNode(c) \/ FollowsIntoNode(c, Fresh) \/ ClientLeavesNode(c, Fresh)

ClientAlone(c) ==
  \/ ClientReads(c) \/ ClientScreens(c) \/ ClientNodes(c)
  \/ CannotWrite(c) \/ ClosesMenu(c) \/ QuitByHand(c)
  \/ LosesLink(c) \/ Restarts(c) \/ Joins(c, <<>>)

LifeNext == HostAlone \/ \E c \in Client : ClientAlone(c)

LifeSpec == LifeInit /\ [][LifeNext]_lifeVars

(* Frames run on both sides and messages are read; nodes come to an end.   *)
(* Nobody has to start, leave or end a run, to enter a node or to join.    *)
FairLifeSpec ==
  /\ LifeSpec
  /\ WF_lifeVars(HostGoesOn) /\ WF_lifeVars(Publish) /\ WF_lifeVars(HostPoll)
  /\ \A c \in Client :
       /\ WF_lifeVars(ClientReads(c))
       /\ WF_lifeVars(ClientScreens(c)) /\ WF_lifeVars(ClientNodes(c))

-------------------------------------------------------------------------------
(* Properties.                                                             *)

(* No client is ever taken into a house: what it loads is a run, although  *)
(* the host's file is a house's until the run's first checkpoint.  The one *)
(* way in is to join while the host prepares a run, or before its first    *)
(* checkpoint (SaveFileMsg::ready, savefile_republish).                    *)
NeverHome == \A c \in Client : game[c].at = "house" => "noCheckpoint" \in snag[c]

(* A client with a link comes into the run the host is in, for as long as  *)
(* the host stays in it, unless it is in one of the traps JoinSnags and    *)
(* Snag name, or the mod cannot get it out of the run it was in and has    *)
(* left that to the player (savefile_on_host_map_tick,                     *)
(* leave_consume_republish_due).                                           *)
Follows ==
  \A c \in Client :
    (host.run # 0 /\ linked[c])
      ~> (game[c].run = host.run \/ host.run = 0 \/ ~linked[c] \/ snag[c] # {}
          \/ UpToPlayer(c))

(* A client does not stay in a run the host has left, unless the mod has   *)
(* pressed Escape or Quit To Menu as often as it will, or has seen the     *)
(* pause menu closed (leave_pump, leave_on_button_update).                 *)
LeavesToo ==
  \A c \in Client :
    (game[c].run \notin {0, host.run} /\ linked[c])
      ~> (game[c].run \in {0, host.run} \/ ~linked[c] \/ snag[c] # {} \/ UpToPlayer(c))
==============================================================================
