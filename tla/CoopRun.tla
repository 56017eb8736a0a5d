------------------------------- MODULE CoopRun -------------------------------
(***************************************************************************)
(* The data of the run on the way from the host to the clients: cats       *)
(* (src/session/mgmp_catsync.cpp), inventory (mgmp_invsync.cpp) and run    *)
(* history (mgmp_runhist.cpp) are published before each node and held by a *)
(* client until its map ticks; equipment is the host's to change           *)
(* (mgmp_invlock.cpp).  All of it over the life of a run (RunLife).        *)
(*                                                                         *)
(* The data are what has happened to them: the nodes played and the items  *)
(* equipped, in order, so that a node that counts twice, or an edit that   *)
(* is lost, shows.                                                         *)
(***************************************************************************)
EXTENDS RunLife, Functions, FiniteSets

CONSTANTS
  MaxEdits,  \* bound: changes of the equipment by the host
  NoPush, NoValue

VARIABLES
  sent,    \* the last value sent of each store: sent_hash, last_hash
  settle,  \* invlock g_debounce.pending on the host
  held,    \* a client's pushes not yet applied: pend_*, one slot per store
  inBattle,\* lockstep_in_battle: a roster has been taken, and no node since
  base,    \* invlock's baseline of the equipment; invsync's last good bag
  correct, \* g_client_correction.pending
  edits,   \* bound: what is left of MaxEdits
  start,   \* history: the host's data when it entered a node
  skew     \* history: runs of which a push was applied out of its time

storeVars == <<sent, settle, held, inBattle, base, correct, edits, start, skew>>
vars == <<lifeVars, storeVars>>

Store == {"CATDATA", "INVENTORY", "RUNHIST"}
Datum == {"cats", "gear", "bag", "history"}
Holds == [CATDATA |-> {"cats", "gear"}, INVENTORY |-> {"bag"}, RUNHIST |-> {"history"}]
Played == {"cats", "bag", "history"}
Equipped == {"gear", "bag"}

NoData == [d \in Datum |-> <<>>]
Value(data, s) == Restrict(data, Holds[s])

Equip == <<0, 1>>
Meddled == <<0, 2>>

With(data, what, token) == [d \in Datum |-> IF d \in what THEN Append(data[d], token)
                                            ELSE data[d]]

Nothing == [s \in Store |-> NoPush]
Unknown == [gear |-> NoValue, bag |-> NoValue]

Init ==
  /\ LifeInit
  /\ sent = [s \in Store |-> NoValue]
  /\ settle = FALSE
  /\ held = [c \in Client |-> Nothing]
  /\ inBattle = [c \in Client |-> FALSE]
  /\ base = [c \in Client |-> Unknown]
  /\ correct = [c \in Client |-> FALSE]
  /\ edits = MaxEdits
  /\ start = [n \in (1 .. MaxRuns) \X (1 .. Nodes) |-> {}]
  /\ skew = [c \in Client |-> {}]

-------------------------------------------------------------------------------
(* Publishing.                                                             *)

(* The stores of which the host's data differ from what was sent last, in  *)
(* the order they are published: catsync_publish, invsync_publish,         *)
(* runhist_publish.  n is the node they are sent for.                      *)
Pushes(order, last, n) ==
  LET news == SelectSeq(order, LAMBDA s : last[s] # Value(live[Host], s))
  IN [i \in DOMAIN news |-> [type |-> news[i], value |-> Value(live[Host], news[i]),
                             run |-> host.run, node |-> n]]

(* What is sent is remembered, but only where it was sent.                 *)
Remembered(order, last) ==
  [s \in Store |-> IF Contains(order, s) /\ Linked # {} THEN Value(live[Host], s)
                   ELSE last[s]]

(* Mutant: what was sent stays remembered.                                 *)
StillSent == sent

(* catsync_forget, invsync_forget, runhist_forget.                         *)
Forgotten == [s \in Store |-> NoValue]

AllStores == <<"CATDATA", "INVENTORY", "RUNHIST">>

clientStores == <<held, inBattle, base, correct, skew>>
hostStores == <<sent, settle, start>>

(* The node the host's data are the ground of.                             *)
Ahead == IF host.at = "node" THEN host.entered ELSE host.entered + 1

-------------------------------------------------------------------------------
(* The host.                                                               *)

(* Screens that tell the stores nothing.                                   *)
HostMoves ==
  /\ StartRun \/ ReachMap \/ EndRun \/ HostQuits \/ Publish \/ HostPoll
  /\ UNCHANGED storeVars

(* A save is picked: savefile_on_slot_click.                               *)
SlotClick == PickSlot /\ sent' = Forgotten /\ UNCHANGED <<settle, start, edits, clientStores>>

(* The run has begun: savefile_republish.                                  *)
RunBegins == MapTick /\ sent' = Forgotten /\ UNCHANGED <<settle, start, edits, clientStores>>

(* The host equips an item on the map: invlock's check_cat arms the        *)
(* debounce.                                                               *)
HostEquips ==
  /\ host.at = "map" /\ edits > 0
  /\ edits' = edits - 1
  /\ live' = [live EXCEPT ![Host] = With(@, Equipped, Equip)]
  /\ settle' = TRUE
  /\ UNCHANGED <<hostVars, clientVars, wire, sent, start, clientStores>>

(* invlock_frame_tick on the host, kInvSyncDebounceFrames later.           *)
Settle ==
  /\ settle /\ Room
  /\ settle' = FALSE
  /\ LET order == IF host.run > 0 THEN <<"INVENTORY", "CATDATA">> ELSE <<>> IN
       /\ wire' = Sent(Pushes(order, sent, Ahead))
       /\ sent' = Remembered(order, sent)
  /\ UNCHANGED <<hostVars, clientVars, live, edits, start, clientStores>>

(* follow_on_enter_node.                                                   *)
HostEnters ==
  /\ HostEntersNode(Pushes(AllStores, sent, host.entered + 1))
  /\ sent' = Remembered(AllStores, sent)
  /\ start' = [start EXCEPT ![host.run, host.entered + 1] = @ \cup {live[Host]}]
  /\ UNCHANGED <<settle, edits, clientStores>>

(* A node outlasts the debounce (see Settled).                             *)
HostLeaves ==
  /\ ~settle
  /\ HostLeavesNode(With(live[Host], Played, <<host.run, host.entered>>))
  /\ UNCHANGED storeVars

-------------------------------------------------------------------------------
(* A client.                                                               *)

ClientMoves(c) ==
  /\ \/ OnSaveFile(c) \/ OnHostLeft(c) \/ PressPlay(c) \/ CannotWrite(c)
     \/ PressEscape(c) \/ PressQuit(c) \/ ClosesMenu(c) \/ ClientPoll(c)
     \/ QuitByHand(c) \/ OnEnterNode(c) \/ RefusesNode(c) \/ LosesLink(c)
  /\ UNCHANGED storeVars

(* The node client c will enter next.                                      *)
NextNode(c) ==
  LET coming == SelectSeq(nodeQ[c] \o SelectSeq(wire[c], LAMBDA m : m.type = "ENTERNODE"),
                          LAMBDA m : m.run = game[c].run)
  IN IF coming = <<>> THEN game[c].entered + 1 ELSE Head(coming).node

(* A push that was not made for the run client c is in and stays in, or    *)
(* not for the node it is to enter next, or that hides an edit from its    *)
(* correction.                                                             *)
Untimely(c, m) ==
  \/ m.run # game[c].run \/ leaving[c]
  \/ game[c].at = "node" \/ m.node # NextNode(c)
  \/ correct[c]

(* Of the stores in S, what client c holds takes the place of its data     *)
(* (apply_now, apply_pending).                                             *)
Overlaid(data, pushes, S) ==
  [d \in Datum |->
     IF \E s \in S : d \in Holds[s] /\ pushes[s] # NoPush
     THEN pushes[CHOOSE s \in S : d \in Holds[s]].value[d] ELSE data[d]]

(* invlock_note_authoritative_catdata and invsync's good_* follow.         *)
Based(b, pushes, S) ==
  [gear |-> IF "CATDATA" \in S /\ pushes["CATDATA"] # NoPush
            THEN pushes["CATDATA"].value["gear"] ELSE b.gear,
   bag  |-> IF "INVENTORY" \in S /\ pushes["INVENTORY"] # NoPush
            THEN pushes["INVENTORY"].value["bag"] ELSE b.bag]

(* Bookkeeping of an application of the stores in S out of pushes.         *)
Applies(c, pushes, S) ==
  /\ base' = [base EXCEPT ![c] = Based(@, pushes, S)]
  /\ LET untimely == {m \in {pushes[s] : s \in S} \ {NoPush} : Untimely(c, m)} IN
       skew' = [skew EXCEPT ![c] = @ \cup UNION {{m.run, game[c].run} : m \in untimely}]

Emptied(pushes, S) == [s \in Store |-> IF s \in S THEN NoPush ELSE pushes[s]]

OnTick == {"CATDATA", "INVENTORY"}

(* follow_on_map: the map has ticked, and that tick has drained what was   *)
(* held.  (It stays true for 250 ms in the node; that window is left out.) *)
OnMap(c) == game[c].at = "map" /\ \A s \in OnTick : held[c][s] = NoPush

(* catsync_on_message, invsync_on_message: a push waits while the map does *)
(* not tick, and from a battle to the next tick of the map.                *)
WaitsForMap(c) == ~OnMap(c) \/ inBattle[c]

(* stash_pending: the newest push of a store is held.                      *)
Stashed(c, m) == [held[c] EXCEPT ![m.type] = m]

(* runhist_on_message waits for a battle only; without a run it is lost.   *)
OnPush(c, s) ==
  /\ Reads(c, s)
  /\ LET m == Head(wire[c])
         now == [Nothing EXCEPT ![s] = m]
     IN IF (s = "RUNHIST" /\ inBattle[c]) \/ (s # "RUNHIST" /\ WaitsForMap(c))
        THEN held' = [held EXCEPT ![c] = Stashed(c, m)] /\ UNCHANGED <<live, base, skew>>
        ELSE IF game[c].run = 0 THEN UNCHANGED <<live, held, base, skew>>
        ELSE /\ live' = [live EXCEPT ![c] = Overlaid(@, now, {s})]
             /\ Applies(c, now, {s})
             /\ UNCHANGED held
  /\ UNCHANGED <<hostVars, clientVars, hostStores, inBattle, correct, edits>>

(* follow_map_update, on every tick.                                       *)
MapDrains(c) ==
  /\ game[c].at = "map" /\ \E s \in OnTick : held[c][s] # NoPush
  /\ live' = [live EXCEPT ![c] = Overlaid(@, held[c], OnTick)]
  /\ Applies(c, held[c], OnTick)
  /\ held' = [held EXCEPT ![c] = Emptied(@, OnTick)]
  /\ UNCHANGED <<hostVars, clientVars, wire, hostStores, inBattle, correct, edits>>

(* follow_map_update, with a node to follow into.                          *)
Follow(c) ==
  /\ FollowsIntoNode(c, Overlaid(live[c], held[c], Store))
  /\ Applies(c, held[c], Store)
  /\ held' = [held EXCEPT ![c] = Emptied(@, Store)]
  /\ inBattle' = [inBattle EXCEPT ![c] = Head(nodeQ[c]).node \in Together]
  /\ UNCHANGED <<hostStores, correct, edits>>

ClientLeaves(c) ==
  /\ ClientLeavesNode(c, With(live[c], Played, <<game[c].run, game[c].entered>>))
  /\ UNCHANGED storeVars

(* The game loads the run.  invlock takes the equipment it sees first for  *)
(* the right one, and one that differs from what it saw last for an edit.  *)
Loads(c) ==
  /\ AutoSelect(c)
  /\ LET gear == file[c].blob.live["gear"] IN
       /\ base' = [base EXCEPT ![c].gear = IF @ = NoValue THEN gear ELSE @]
       /\ correct' = [correct EXCEPT ![c] = @ \/ (base[c].gear # NoValue
                                                  /\ gear # live[c]["gear"])]
  /\ UNCHANGED <<hostStores, held, inBattle, edits, skew>>

(* A client's player drags an item onto a cat; clicks are swallowed        *)
(* (invlock_on_button_click).                                              *)
Meddles(c) ==
  /\ game[c].at = "map" /\ faults > 0
  /\ faults' = faults - 1
  /\ live' = [live EXCEPT ![c] = With(@, Equipped, Meddled)]
  /\ correct' = [correct EXCEPT ![c] = TRUE]
  /\ UNCHANGED <<hostVars, game, file, leaving, quit, nodeQ, linked, snag, wire, hostStores,
                 held, inBattle, base, edits, skew>>

(* run_client_correction and invsync_reapply_last_good.                    *)
Corrects(c) ==
  /\ correct[c]
  /\ correct' = [correct EXCEPT ![c] = FALSE]
  /\ live' = IF game[c].run = 0 \/ base[c].gear \in {NoValue, live[c]["gear"]} THEN live
             ELSE [live EXCEPT ![c].gear = base[c].gear,
                               ![c].bag = IF base[c].bag = NoValue THEN @ ELSE base[c].bag]
  /\ UNCHANGED <<hostVars, clientVars, wire, hostStores, held, inBattle, base, edits, skew>>

(* handle_hello forgets and publishes to all.  On the joiner's side        *)
(* catsync_shutdown, invsync_shutdown and runhist_shutdown drop what was   *)
(* held and the last good bag.                                             *)
Join(c) ==
  LET order == IF host.run > 0 THEN AllStores ELSE <<>> IN
  /\ Joins(c, Pushes(order, Forgotten, Ahead))
  /\ sent' = [s \in Store |-> IF order = <<>> THEN NoValue ELSE Value(live[Host], s)]
  /\ held' = [held EXCEPT ![c] = Nothing]
  /\ base' = [base EXCEPT ![c].bag = NoValue]
  /\ UNCHANGED <<settle, start, inBattle, correct, edits, skew>>

Restart(c) ==
  /\ Restarts(c)
  /\ held' = [held EXCEPT ![c] = Nothing]
  /\ inBattle' = [inBattle EXCEPT ![c] = FALSE]
  /\ base' = [base EXCEPT ![c] = Unknown]
  /\ correct' = [correct EXCEPT ![c] = FALSE]
  /\ UNCHANGED <<hostStores, edits, skew>>

Next ==
  \/ HostMoves \/ SlotClick \/ RunBegins
  \/ HostEquips \/ Settle \/ HostEnters \/ HostLeaves
  \/ \E c \in Client :
       \/ ClientMoves(c) \/ MapDrains(c) \/ Follow(c) \/ ClientLeaves(c) \/ Loads(c)
       \/ Meddles(c) \/ Corrects(c) \/ Join(c) \/ Restart(c)
       \/ \E s \in Store : OnPush(c, s)

Spec == Init /\ [][Next]_vars

-------------------------------------------------------------------------------
(* Properties.                                                             *)

(* A client comes to each new node with the cats, the inventory and the    *)
(* history the host entered it with, whatever happened in between:         *)
(* equipment changed by either, nodes still to follow, runs left and begun *)
(* again, a link or a process lost.  Excepted are a run of which the       *)
(* client has applied a push in another node's place, for a push does not  *)
(* say which it is for, or over an edit not yet corrected; such an edit    *)
(* itself; a node the host has given up, and not entered again or entered  *)
(* with other data; and a client that joined just after the host left a    *)
(* run, or was sent a node the host had given up (catsync_publish,         *)
(* invsync_publish, runhist_publish, follow_map_update).                   *)
SameStart ==
  [][\A c \in Client :
       LET entered == game'[c]
           then == start[entered.run, entered.entered]
       IN /\ entered.at = "node" /\ entered.entered > game[c].entered
          /\ entered.run \notin skew'[c] /\ ~correct[c]
          /\ snag[c] \cap {"staleReading", "oldNode"} = {}
          /\ host.run = entered.run => host.entered >= entered.entered
          /\ Cardinality(then) = 1
          => live'[c] \in then]_vars
==============================================================================
