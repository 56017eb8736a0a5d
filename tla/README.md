# Multicat (mgmp) in TLA+

mgmp is a DLL that turns the single-player game Mewgenics into a co-op game. Every player runs a
complete copy of the game; the mod makes the copies compute the same adventure by carrying between
them only what cannot be derived: which node the host entered, what each player decided for their own
cats, who owns which cat. There is no server that holds the truth, so correctness is agreement: the
copies must not drift apart, must notice when they do, and must not end up waiting for each other.

This directory holds TLA+ models of that machinery, TLC runs on small instances, and TLAPS proofs.
`PROJECT.json` lists the components, runs, mutants, hazards and theorems, and maps every definition to
the source lines it stands for.

## 1. Inventory

### How the parts interact

A session is a star: clients connect to the host over TCP, and the host forwards what other clients
need. Two kinds of threads touch the mod's state: the *network threads* of `mgmp_net.cpp` (one that
accepts, one per link) that read sockets, relay and queue; and the *game thread*, which in its hooks
calls the session layer once a frame (`session_update` empties the queue and hands every message to the
layer that owns its type), at every turn boundary (`lockstep_turn_boundary`), whenever a cat's brain is
polled (`lockstep_fill_choice`), when a decision is applied (`lockstep_on_applied`) and when a map node
is entered (`follow_on_enter_node`).

| component | source | state it keeps | operations |
|---|---|---|---|
| transport | `net/mgmp_net.cpp` | links (live, id, socket), roster of ids, receive queue | accept, receive and relay, send, poll, publish the roster, shut down |
| message encoding | `net/mgmp_proto.h` | none | write and read each of 25 message types, with limits |
| handshake | `session/mgmp_session.cpp` | phase, names, what was last sent | HELLO, WELCOME, refusal, version checks, dispatch, rejoin |
| battle identity | `session/mgmp_battleid.h` | current battle, ring of battles left | enter, leave, classify an id |
| battle layer | `session/mgmp_lockstep.cpp` | roster of cats, control split per peer, pending decisions, own and peer hashes, catch-up log, `halted`, facings last sent | enter a battle, turn boundary, fill a choice, applied, pump ACTION, HASH, CONTROL, HALT, FACE, catch a joiner up |
| join barrier | `session/mgmp_barrier.h` | none | decide whether a human brain must wait, and why |
| turn hashes | `net/mgmp_hashring.h` | two bounded rings | push evicting, push refusing, find, take, purge |
| ownership | `mgmp_ownertable.h`, `mgmp_ownership.cpp` | owner per cat slot, a held table, count last sent | split, extend, publish, hold, adopt, forget |
| map following | `session/mgmp_follow.cpp` | queue of nodes to follow, the node being walked to | publish a node, queue, check count, index and seed, walk, enter |
| decision screens | `session/mgmp_choice.cpp` | one pending choice per kind | publish, consume, skip |
| shared screens | `session/mgmp_screensync.cpp` | votes for the armed screen | vote, arm, fire together |
| shop mirror | `session/mgmp_shopmirror.cpp` | purchases to mirror, watches for one's own candies, redirects | buy, mirror, announce a recipient, redirect, expire |
| cats, inventory, history | `mgmp_catsync.cpp`, `mgmp_invsync.cpp`, `mgmp_runhist.cpp` | last sent, held message | publish when changed, hold while unsafe, apply |
| inventory lock | `session/mgmp_invlock.cpp` | a debounce, a baseline, a correction due | publish an edit, swallow a click, correct an edit |
| save file | `session/mgmp_savefile.cpp` | what was published, what is held, presses | flush, publish, hold, decline, press Play, load, catch up |
| leaving | `session/mgmp_leave.cpp` | departure confirmed, announced, armed | poll the screen, announce, follow out |
| main menu lock | `session/mgmp_mainmenulock.cpp` | what it tracks | swallow the client's own Play |
| node hash | `session/mgmp_nodehash.cpp` | two bounded rings | sample, publish, compare, report |
| determinism | `determinism/*`, hooks | capture buffer, steps read, position in them | record, flush, load, inject, check; count delays in turns |
| presentation, plumbing | overlay, cursor, aim, badge, config, log, loader | cosmetic or start-up | none that decide what a copy computes |

### What is hard in it

- *Nothing is synchronous.* A peer may be a whole battle ahead of or behind another. Messages are tagged
  with the battle they belong to, battles are named by node seeds that do not order, and turn numbers
  restart in every battle. Every layer has to tell early from late; some messages (a FACE, a push of the
  run's data, a screen vote) carry no tag at all.
- *A relay, then a queue, then a table.* A decision passes the owner's link, the host's relay, a queue
  pumped once a frame and a pending table keyed by battle and cat before a brain is polled for it.
- *State agreed implicitly.* The ownership table is sent, but each peer snapshots it when it happens to
  reach a battle; nothing waits for the others to have received it. The code checks afterwards, with the
  control split each member announces.
- *Everyone waits for everyone.* The barrier waits for every member's split and each copy waits for remote
  cats' decisions; a screen is left when all have voted. A peer that stops silently stalls the rest.
- *A game that does not know of it.* The mod acts through the game's own screens and buttons: what it
  wants done is pressed for it, refused for now, and pressed again. In between the game moves on.
- *Bounded containers*: hash rings (16), pending decisions, pending nodes (8), catch-up log, receive queue,
  retired battles (16), ownership slots (32), purchases, watches and redirects. Each has a policy for
  being full.
- *Coming and going.* Links die on their own threads, ids are lent again, clients rejoin with an old run
  in memory or with none, and the host may leave its run and begin another while they do.

### What makes it correct

- battle layer: copies apply the same decisions in the same order; no decision is lost, repeated or
  reordered; nobody acts in a battle somebody has not joined; exactly one driver per human cat; a
  difference is detected and stops everybody; lag is never taken for a difference; every run completes;
  facings, which nothing compares, come to agree.
- hashes: every turn and every node both have passed is compared by somebody, and truly.
- ownership: all copies of a battle read the same split; a cat never changes hands; a joiner is told what
  it missed.
- screens: a screen is left when everyone has asked to leave that one, its button is pressed once, and
  nobody is stranded; no choice is lost or taken twice; what one buys both have, and a candy's level goes
  to the same cat.
- the life of a run: a client is never taken into its own house, comes into the host's run, starts each
  node from the host's data and leaves when the host leaves.
- transport: the roster everyone holds is the membership; ids are not shared; a player of another build is
  not let in; everybody else is; a message is taken whole, unaltered and in order.
- determinism: what a crash leaves of a capture is a true beginning; a replay says of a battle that it was
  reproduced only when it was; a delay ends in the same turn on every machine.

## 2. Modules

| module | models | theorems in |
|---|---|---|
| `BattleTracker` | `mgmp_battleid.h` as operators on a record `[current, retired]` | used by those on `Lockstep` |
| `HashRing` | `mgmp_hashring.h` as operators on sequences | used by those on `HashExchange` |
| `OwnerTable` | `mgmp_ownertable.h`: the first split and round-robin growth | used by those on `Ownership` |
| `AgreedBattle` | abstract: per-peer copies of battles that may only agree | `AgreementProofs` |
| `Lockstep` | the battle layer, the queue of nodes, the star and its relay | `LockstepProofs`, `AgreementProofs` |
| `Lists` | what properties pick out of a list, in order | `ListProofs`, used by all the others but two |
| `HashExchange`, `NodeHash` | two peers exchanging hashes of turns and of nodes, rings entry by entry | `TurnsProofs` |
| `Trace` | a battle captured, cut by a crash and replayed | |
| `Delays` | a delayed status at two frame rates | `TurnsProofs` |
| `Ownership` | table growth, publication, loss and return of clients, holding and adopting, splits | `OwnershipProofs` |
| `ScreenSync` | votes to leave an event, a shop or a treasure together | `ScreenSyncProofs` |
| `Facing` | which way the cats look, in two copies | `ScreenSyncProofs` |
| `Journey` | following the host from node to node, and the choices on the decision screens | `JourneyProofs` |
| `ShopMirror` | purchases made on both copies, and the cat a candy gives its level to | `JourneyProofs` |
| `RunLife` | save file, Play, leaving, following and joining again, over several runs | `SessionProofs` |
| `CoopRun` | `RunLife` with the run's data: cats, inventory, history, equipment | |
| `Transport` | the host's threads, link table, ids, roster, queue, and the handshake | `SessionProofs` |
| `Messages` | every message's writer and reader | |
| `Wire` | one link part by part: writers, reader, queue, buffers | `OwnershipProofs` |
| `MC*` | instances for TLC | |

`Lockstep` composes `BattleTracker` with the network and implements `AgreedBattle`
(`Promise == INSTANCE AgreedBattle WITH applied <- hist`). `HashExchange` composes `BattleTracker` and
`HashRing`, `NodeHash` uses `HashRing`, `Ownership` uses `OwnerTable`, `CoopRun` extends `RunLife` and
`Wire` extends `Messages`. The components that meet at an interface are modelled on both sides of it:
`Lockstep` takes any ownership table a peer may hold (`Tables`) and shows what happens when they differ,
`Ownership` shows when they can; `Lockstep` takes the hash rings as sets of entries, and `HashExchange`
plays them entry by entry; `Transport` takes messages as whole, and `Wire` shows that they are;
`ScreenSync`, `Journey` and `ShopMirror` take the order the relay produces from the star of `Lockstep`.

Three of the MC modules put modules that share no state side by side and let a variable `part` choose
which is played, since each is small by itself: `MCTurns` (`HashExchange`, `NodeHash`, `Trace`,
`Delays`), `MCScreens` (`ScreenSync`, `Facing`) and `MCJourney` (`Journey`, `ShopMirror`). A property of
one says nothing while another is played, and fairness is stated of each part's own steps.

### Lockstep

*State.* `battles`, `roster`, `control`, `controlChecked`, `turn`, `outstanding`, `pending`, `sentLog`,
`myHash`, `peerHash`, `halted` are fields of `State` in `mgmp_lockstep.cpp`, one per peer. `nodeQ` is
the pending list of `mgmp_follow.cpp`. `up` and `inq` are the bytes a client has written and the
host's link thread not yet read, and the queue a peer has not yet pumped. The game is external: a copy is
`hist` (decisions applied, per battle), `clock`, `phase`, `queued` (a decision the brain released and the
game has not applied) and `drift`. `joined` is a history variable.

*Actions.* `HostEnterNode` and `FollowNode` (entering a node: `follow_on_enter_node`,
`follow_map_update`, `lockstep_enter_battle`); `LinkReceive` (`recv_loop` with the relay);
`OnEnterNode`, `OnControl`, `OnAction`, `OnHash`, `OnHalt` (the cases of `lockstep_pump`, each with the
verification, comparison and halt it may call); `TakeRoster` (the boundary that snapshots: reset, purge,
split, verify, publish, hash) and `NextTurn` (any later boundary); `DecideAI`, `DecideLocal`,
`ApplyRemote` (`lockstep_fill_choice`, by who drives the cat); `Apply` (`lockstep_on_applied` and the
game's `ApplyTurnAction`); `Diverge` (a copy computes something else, allowed only for `MayDrift`).

*Abstractions.* A digest stands for the rng, queue and state hashes together: it is the battle, the
decisions applied and whether the copy has drifted. An ACTION is its battle, turn, cat and decision; a
decision is an ability or the end of the turn. A drifted copy may lack the ability a decision names,
which halts (`ApplyRemote`). Rings are sets, `HashExchange` has them entry by entry. The receive queue is
unbounded, membership is fixed and no link is lost.

### HashExchange and NodeHash

`HashExchange`: two peers, turns that pass at any speed, a hash that is its own key. `passed`, `read`,
`compared` and `wide` are history. It asks which turns are compared, by whom, and what happens more than a
ring apart.

`NodeHash`: `mine` and `theirs` are the rings of `mgmp_nodehash.cpp`, `mail` what is on its way. Both
peers sample when they enter a node and when its event screen can be read (`EnterTheNode`,
`SampleEvent`), publish the sample and compare it with the other's, whichever comes second. What a sample
hashes is one value; `GoAstray` makes a copy's value another, once per copy. An event's name may never
become readable, and then nothing is sampled there. `late` marks a peer more than a ring ahead.

### Trace and Delays

`Trace` follows a battle through two runs of the game. In the first, every action is recorded with the
names it needs (`Record`, `Named`), draws of the generator and turns are too; the buffer is flushed at
the end of a turn or when full (`Flushing`); a `Crash` keeps what was flushed and perhaps part of a
flush, ending in a cut event. In the second, `Load` reads back what is whole and `FillChoice`,
`QueueDecision`, `Silenced` and `OnApplied` put the human decisions in, in order, ignore the human's own
clicks meanwhile and compare what is applied with what was recorded. Everything else the game finds anew,
and `Drift` is what may differ: what the AI does, whether an ability slot is empty or holds another
ability. A toss moves another cat than the actor, an invocation never passes through the queue. The disk
takes all it is given; `diverged` is a flag.

`Delays` follows one delayed status in two copies whose frames differ. The game counts its seconds down;
`td_decide` replaces them by `Managed` until `Wait` turns have passed. Assumed: a copy has at least one
frame in the turn in which the status is made or due. The fix is off by default (`kHookTimeDelay`); the
model has it on.

### Ownership

The host recruits, publishes (`FrameTick` is the per-frame call of `ownership_publish`), enters nodes;
clients connect, say HELLO, lose the socket (`LoseLink`) or the process (`Restart`), receive in order and
drop what they do not understand before WELCOME, follow nodes and snapshot a battle's split. Assumed: the
host does not set out while no other player is there; cats are only added, every node is a battle, and
`PeerCount` is read from the live links in one step (the code reads a roster the threads publish). The
host ends a battle only while a node is left to enter (bound).

### ScreenSync

*State.* `kinds` is `State::kind` of `mgmp_screensync.cpp`: for each of the three button names the button
tracked, who has voted and whether it has fired. A button object is named by the node whose screen it
belongs to, as the game makes a new one for each. `at` is the node `follow_current_node` returns. The
game is external: which screen is up (`open`), how often its own click ran (`pressed`), `Enter` and
`Close`; a screen closes once its exit has been pressed, and clients enter the host's nodes in order.
`wire` has one FIFO queue per sender and receiver, which allows every order the host's relay produces.

*Actions.* `ButtonUpdate` and `ButtonClick` arm, count and press in one step as their functions do;
`OnMessage` is `screensync_on_message`. `Settle` is `maybe_fire`, which all three end with. Membership is
fixed, so `net_peer_count` is the number of peers, and ids fit the eight-bit mask.

### Facing

A blow from behind hurts more, so which way a cat looks is part of the simulation; no hash has it and no
decision carries it. A copy sends FACE for its own cats with every decision, at every turn and from frame
to frame (at once at a change but not within `kFaceMinSendGapMs`, again at each heartbeat), and leaves out
a cat in the middle of an animation or an aim. Decisions are a `Script`. Time is `Gap` or `Heartbeat`
since the last send or nothing. The other player's aim is drawn on this copy by turning the cat, and
put back (`LeftAsAimed`, `PutBack`, `Fenced`). A FACE names its battle and no turn. One of a battle that
is over is dropped; one of a battle this copy has yet to reach turns the cat of that place in the battle it
still shows; one from before an action may arrive after it.

### Journey

*State.* `nodeQ` is `pending_q` of `mgmp_follow.cpp`; `cached`, `held` and `skipped` are `world_event` and
`level_screen`, `pending` and the ring of `mgmp_choice.cpp`; `here_seed` is the last node of `visited`. The
game is external: the node a copy is in, the screens it has closed there, the one it shows (`shown`:
options not built, up, or decided and not closed yet), the inventory over the map (`modal`), the
decisions it has carried out (`taken`). What a node holds is a constant: its screens in order, whether it is
a battle and whether it is left by a vote. `missed` is history.

*Actions.* `HostEnterNode`, `OnEnterNode`, `RefuseNode` and `FollowNode`, `CloseModal`
(`follow_on_button_update`); `ScreenUp` and `ScreenTick` (the update hooks of both screens), `Choose` (the
commit hooks), `OnChoice` (`choice_on_message`, which may apply at once). `ApplyPending` and `Inject` are
`apply_pending` and the game's commit it calls; an injected event commits whatever state it is in, a
level-up screen that has committed ignores it. A swallowed click changes nothing and is no action.

*What it takes from the other modules.* Nobody's screen after a battle comes up, and nobody leaves a battle,
before all have entered it (`BarrierHolds`). A node left by a vote is left when its screens have been
decided on every copy: a vote needs the exit button, which belongs to the screen and comes after its
choice (`ByConsent` for the rest). A screen's decider is the same on every copy (`SameSplit`).

*Abstractions.* A node is its place in the host's run, for the seed that names it. The reasons to
refuse a node are one (`Strange`). The test delay and the marker's walk postpone following and nothing
else, as does a map that does not tick. An option list is its length; the name that rides along is only
logged. A redirect of a level-up's recipient is `ShopMirror`.

### ShopMirror

Two players in one shop. A purchase is sent and its click mirrored once the other's shop is up
(`Buy`, `Fires`, `Browse`). A candy opens a level-up screen for a cat each copy rolls; the buyer watches
for its own screen and announces the cat (`OpenScreen`, `FrameTick`), the other redirects the screen of
the mirrored candy to that cat, and until it is told, or gives up, nobody may decide there
(`RedirectPending`, `LevelSelect`, `LevelUpdate`). A click on a ware of the quarantine list is
refused on every copy, the host's too. Every
timer (five seconds for a queued purchase, eight for a watch or redirect) may run out at any moment.

`spoilt` marks that one ran out too early, or that purchases crossed: bought while a candy is under way,
or a candy while the other watches for its own. Nobody buys after that (bound). Not modelled: two
players buying the same slot at once, and a level-up target known after its screen was built.

### RunLife

*State.* On the host: where its game is (`host`), the save file (`disk`), the `State`s of `mgmp_savefile.cpp`
and `mgmp_leave.cpp`. On a client: where its game is, the file it holds, whether one was applied and how
often Play was pressed, whether it is leaving, the nodes to follow, the link. `wire` is what is on its way.
Runs are numbered along the session and nodes along a run; `live` is the data of the run in each game,
copied to the file and from it.

*Actions.* `PickSlot`, `StartRun`, `ReachMap`, `EndRun`, `HostQuits`; `MapTick` (flush and publish);
`HostPoll` (`leave_pump`: a departure is one seen in `ConfirmPolls` polls); `EnterNode`,
`HostLeavesNode`; `OnSaveFile`, `OnHostLeft`, `OnEnterNode`; `PressPlay`, `AutoSelect`, `CannotWrite`;
`PressEscape`, `PressQuit`, `ClosesMenu`, `ClientPoll`, `QuitByHand`; `RefusesNode`, `FollowsIntoNode`; `LosesLink`, `Restarts`, `Joins` (what
`session.cpp` sends a joiner, in its order). Nodes of `Together` nobody gets through before all are in.

*Leaving.* A client that has read HOSTLEFT in a run presses Escape until it sees the pause menu, and then
Quit To Menu until it is out. Either press may fail (the window has no focus, the game refuses), and each
is tried `MaxQuits` times; once the menu has been seen Escape is never pressed again, even if the player
closes it. `quit` is which key the mod is at and how often it has pressed it in vain. When it has given up
(`UpToPlayer`) the player is told to quit by hand, and may at any time. A fresh HOSTLEFT starts it all
over. That `Button::Click` and the game's window are found is assumed.

*Abstractions.* The file moves whole. A menu the player opens after the mod has given up on Escape comes to
a quit by hand. `Settled` is an assumption: a screen outlasts two polls, a pump and a map tick. `Room` is a
bound on what is on its way when the host sends. `MaxFaults` is one budget for links and processes lost,
saves that cannot be written, menus closed and quits by hand against the mod, host quits and further runs.

*Snags.* `Snag` names the ways a client is known to miss a run (section 6). `Follows` and `LeavesToo`
except a client in one of them, or one the mod has given up on getting out of its run, and nothing else.

### CoopRun

`RunLife` with data: a `Datum` is the sequence of nodes played and items equipped, so that a node that
counts twice or an edit that is lost shows. `Store` is cats, inventory and history. The host publishes a
store before each node when it differs from what it last sent (`Pushes`, `StillSent`), a client holds what
it may not apply now, one slot per store (`OnPush`, `WaitsForMap`, `Stashed`), and applies it when its map
ticks (`OnMap`). `HostEquips`, `Settle` (the debounce), `Meddles` and `Corrects` are the inventory lock.
`start` records what the host entered each node with.

### Transport

*State.* The link table and thread of each connection, the roster, the queue of fixed size and the
handshake's phases. `pub` is the publication of the roster a thread is in the middle of: it tells one
link at a time (`Begins`, `TellLink`, `TellSelf`), so two may overlap.

*Actions.* `Accept` (slot, id, thread), `TurnAway` (no room), `Receive`, `LinkEnds`, `CloseSocket`,
`ClearSocket`, `Departure` (the end of a link thread, in the code's order), `SessionUpdate` and `Answer`
(`session_update` and `handle_hello`), `Leaves`. A connection is one dial; one may come from a game of
another build (`foreign`).

*Abstractions.* A client reads at once and without a queue; dialling, being accepted and saying HELLO are
one action; reading and storing the roster is one; dead links are passed over with the next. One session
of one host: no `net_shutdown`, no change of role. The overlap refusal of `net_control` is left out. Runs
begin with a fresh host or with one client settled (`Resident`).

*What a client does not take.* `After` closes the link of a client that reads a PEERS without its own id, as
`dec_peers` and `recv_loop` do. The host sends one when a departing thread has read the members, the
accept thread then brings a link live, and the departing thread walks the table again: the newcomer is put
out. It is the one message of these that the reader may refuse (`Decodes`); others are the subject of `Wire`.

### Messages and Wire

`Messages` writes out each message's writer and reader as two definitions over sequences of fields, a
field being a value and the octets it fills: widths, cuts of long texts, limits of lists and buffers are
the code's. The octets of a number are not taken apart. A save file of more than 1 MiB less 128 octets,
and a history or an inventory of more than 1 MiB less 64, is not sent at all (`net.cpp` 726, 767, 797),
though `kMaxSaveBytes` is 4 MiB.

`Wire` is one link. The game thread and, on a host, a link thread write frames in three parts; a lost
link leaves all, none, or all but the last part. The receiver reads length, author and payload
(`ReadLength`, `ReadBody`), overwrites the author with the link's id on a host, pushes what decodes and
closes the link otherwise (`ReadEnd`, or the link is lost, `LinkLost`): of all the program sends only a roster
read before its receiver came does not (`Stray`). `Welcomes` has lists of no, two and 32 cats, `Rosters` the
full roster, a shorter one, and one that lacks its receiver. The queue drops what finds it full
and frees its buffers. `Poll` hands a message's buffers to the game, `Release` frees them.

## 3. Runs

`SPECIFICATION Spec` is used for safety, one that states fairness where a run checks liveness. Every run
says `CHECK_DEADLOCK FALSE`: the models end (the run's nodes, turns, cats, dials, faults and purchases are
bounded, and a halted session really stops), and that nobody stops too early is what the liveness
properties and the properties at rest say.

| run | instance | what it shows |
|---|---|---|
| `lockstep_two` | host and client, 2 battles and a quiet node, 3 turns with an AI cat between the players', an ability each; each peer starts with any of three tables (agreed, outdated, a slot of nobody's) | `LogComplete`, `SoleDriver`; the model implements `AgreedBattle` (`KeepsPromise`); under fairness `RunCompletes` with tables that split the cats, `BadSplitStops` with the others |
| `lockstep_three` | host and two clients, 2 battles, 2 turns | the relay: `NothingLost` between clients, `EveryoneHere` for three, and `NoFalseHalt` |
| `lockstep_faults` | either copy may drift at any turn, a pending table of one entry | `DivergenceCaught`: no difference is passed over once messages are read; `HaltSpreads` |
| `turns` | rings of 2, 2 battles of 3 turns; 3 nodes, two with an event; a battle of 3 turns captured and replayed; delays of 0, 1 and 3 ticks | `EveryTurnCompared`, `NodesCompared`, `CrashKeepsTurns`, `Reproduced`, `DelaysAgree` |
| `ownership` | two clients, one loss, 2 cats, 2 nodes | `SameSplit`, `NothingMissed`, `NeverReassigned` |
| `ownership_gap` | as above, one node | a violation: see section 6 |
| `screens` | two players; event, shop, shop, event, treasure; two battles | `ByConsent`, `PressedOnce`, `FacingEarned`; under fairness `VotesSuffice`, `FacingSettles` |
| `journey` | two players; nine nodes, queue of 2, ring of 3; a shop of three wares | `SameDecisions`, `SameWay`, `SameHaul`; under fairness `NobodyStays`, `LevelUpsDecided` |
| `run_life` | host and client, two runs of two nodes, two faults | `NeverHome`; under fairness `Follows`, `LeavesToo` |
| `coop_run` | the same with the run's data, an edit, one fault | `SameStart` |
| `transport` | three dials, one foreign, one lost, a queue of 2, a session of 3 | `OneIdEach`, `KeptOut`, `RosterSettles`, `AllWelcome` |
| `wire` | any message then a small one from the game thread, a roster and a relayed FACE from a link thread, a link lost at any octet | `AsSent`, `Delivered`, `OneOwner` |

*Why the bounds are enough.* The interesting distances are "same battle", "one ahead" and "two ahead"
(a retired battle, an unknown one, and the ring of retired battles forgetting an entry with `Slots = 2`);
two battles and a quiet node reach the first two on either side in `Lockstep`, and the code's barrier
prevents more: `EveryoneHere` is why. Rings of 2 with battles of 3 turns wrap and overflow. Three peers
are the least for which the host relays. A pending table of one entry overflows with two decisions in
flight. One cat per player suffices because pending queues are keyed by cat; one ability per player
because it makes a cat decide twice in a turn, which is where `outstanding` and the order in a queue
matter.

In `screens` two nodes of each kind follow each other and other kinds, so that a late vote meets a new
button of its own kind and a kind that has none; the treasure is last (see `ByConsent` in section 4). The
theorems cover any number of players and nodes. Two battles with a decision in the first make facings of
it arrive in the second; one click by hand and one unread message are enough to cross a decision.

In `journey` three quiet nodes follow each other, the first unknown to the client, so that a queue of 2
overflows, choices arrive for nodes already refused and for nodes refused while the choice is held, and
a level-up and an event meet in one node with different deciders. `SkippedRing > MaxPending`, as 16 > 8.
The shop has one candy both may buy, one on the quarantine list and a ware that gives no level; each
player cares for one cat.

In `turns` the capture's buffer of four events is flushed both ways, and `MaxSteps` is reached by the
battle's longest capture. In `run_life` two polls confirm a departure, as `kConfirmPolls`, so that a
departure is seen once, twice and not at all; two runs suffice for a file, a node and a departure to be
of another run; the second node is a battle, and the first one the host may hurry through. Two presses of
Play stand for `kPlayMaxPresses`, and two of Escape and of Quit To Menu for `kMaxPresses` (one in
`coop_run`), so that a press fails, is repeated and is given up. TLC tells the states of `coop_run` apart
by everything but the bits of the history `snag` its property does not read (`View` of `MCCoopRun`). In
`transport` three dials fill a session of three and lend an id again, and a queue of 2 drops. In `wire` every field is tried at its shortest and its longest.

*What no run reaches.* In `Lockstep` the queue of nodes does not fill (it does in `journey`) and no link
is lost; decisions lost to a full receive queue are not modelled there (the queue is in `Wire`).

*Fairness.* `FairSpec` of `Lockstep` has weak fairness of: the host's click on a next node; a client's
following, its link thread on the host, every peer's pump, boundary and poll, and the game's applying of
a released decision. Each is a thread that loops or a hook called every frame, so once enabled it stays
enabled and is run. `Decide` being fair says that a player whose turn it is does something; as abilities
are bounded, eventually ends it. There is no fairness of `Diverge`. In `ScreenSync`, frames, pumping and
the game's opening and closing of screens are fair, and so is a player's click on an exit that is in front
of it: it claims that whoever wants to leave can, and nothing of a player who does not. Opening a chest is
not. In `Facing`, frames and reading are fair; nobody has to decide. In `Journey` frames, the pump, the
game's screens and the deciders' choices are fair; following is strongly fair, because a map that has come
back ticks before its player can cover it again; nobody has to close an inventory. In `ShopMirror`
frames, reading, timers and deciding are fair; nobody has to buy. In `RunLife` the frames of both sides
run, messages are read and nodes end; nobody has to start, leave or end a run, enter a node or join. The
mod goes on with the client's screens, a press at a time, but no press has to take.
`MCScreens` and `MCJourney` state the same fairness of the part that is played.

## 4. Properties worth a remark

- `NothingLost` equates what an owner has released with what another copy has released, plus what it holds
  pending, plus what is in flight to it, in order. It is what the ACTION path must conserve; the purge at
  a battle's start, the drop of retired battles and the relay can each break it.
- `EveryTurnCompared` is about *somebody*: a peer that trails finds the leader's hash in its held ring, and
  a peer that is ahead finds its own old hash when the other's arrives. With one direction only, the
  leader would never notice. `NodesCompared` asks more of the node hash, which both sides report: each says
  of every sample both took whether it was the same, and truly.
- A battle's last turns may still go unchecked: when the hash is read after its receiver has entered the
  next node the battle is retired and the hash dropped. The property says so in its hypothesis.
- A peer more than a ring ahead leaves turns or samples unchecked (`wide`, `late`); the entries kept are
  still correct.
- `DivergenceCaught` compares copies at turns both have begun; what differs after the last common boundary
  is found at the next one or, at the end of a battle, by the next battle.
- `BadSplitStops` is the promise of `verify_control`: a table nobody agreed on stops the session in its
  first battle; it is never played.
- `Reproduced` is about what the log of a replay may claim: everything reached so far was the same as
  recorded unless it has reported a difference. The match compares what is written in a step; what it
  ignores (the actor and three flags) is not in the model's steps, see section 6.
- `CrashKeepsTurns`: names are written before the action that needs them, so a capture cut anywhere
  never refers to a name it lacks.
- `ByConsent` is not obvious because a vote names no screen. It holds because a peer leaves a screen only
  after reading a vote of everybody, votes of a peer arrive in order, and nobody votes twice for one
  screen: what is unread is then for later ones. A treasure breaks the chain. It is left on one vote, so
  a player's own click in the treasure may reach a copy already in the next shop and count there:
  TLC finds `ByConsent` violated in nine steps for `<<"treasure", "shop">>`. The run and the theorem
  therefore exclude a shop after a treasure, and say so.
- `VotesSuffice` (`PromptVotesSuffice` where votes are played) has the way out `astray`, a vote read by a
  copy that does not track its button yet: see section 6.
- `FacingSettles`: copies that show a cat looking different ways agree again, or that cat is the one its
  owner is being asked about. The heartbeat is what earns it; without it the last facing sent before a
  crossing decision would stay wrong.
- `SameWay` equates what the host has entered, less what the client refused, with what the client has
  entered, has queued and has coming. The single slot the queue replaced breaks it.
- `SameDecisions` holds of nodes with at most one screen of each kind; with two it does not, see section 6.
- `NobodyStays` has one way out: a node refused by a client the others need there.
- `SameHaul` and `LevelUpsDecided` pull against each other: holding a level-up screen until its cat is
  known is what makes the cats agree, and is what could make a player wait for ever. Both except `spoilt`.
- `Follows` and `LeavesToo` except a client in a snag, and one whose mod has pressed Escape or Quit To Menu as
  often as it will, or waits for a menu the player has closed (`UpToPlayer`). Each is a way the code has
  into a state it has no way out of by itself; what the properties claim is that there is no other.
- `SameStart` names its exceptions in its comment; the first of them is that a push does not say which
  node it is for.
- `AllWelcome` and `RosterSettles` are stated at rest (nothing unread, no thread in the middle of
  something), so they need no fairness; what they except is `excused`, `crossed` and `missed`. Neither says
  anything, of anybody, while a link's socket has been closed or cleared by the thread that had its slot
  before and its own thread still waits for bytes of the old one: `AllTold` is not true until that thread
  has ended, which `excused` alone would not say.
- `Delivered` at every length is a statement about two pieces of code that share nothing but the protocol:
  what a writer can produce the reader accepts. It has one exception, a roster without its receiver: there
  it says that the reader closes the link.

## 5. Proofs

`tlapm` proves these with no bound on peers, cats, nodes, turns, dials or queue lengths.

- `TypeCorrect == Spec => []TypeOK`. `TypeOK` is not inductive: a boundary types its hash by the node
  it stands in. `TypeInv == TypeOK /\ InBattle` adds that a copy off the map holds the battle its
  tracker calls current, and that only a copy whose turn is under way has a decision queued. One lemma
  per action, put together in `TypeStep`.
- `OneDriver == Spec => []SoleDriver`: a peer past its barrier and not stopped knows that every human cat
  is claimed by exactly one member. The argument goes through the network, so the invariant must describe
  messages: `GateInv` is the conjunction of `Announced` (every split in any queue is what its sender
  claims, for a battle it has joined), `Filed` (so is every split on record), `OwnRoster` (a snapshot
  is announced in one's own record), `InStep` (an unhalted peer plays the battle it has snapshotted),
  `Checked` (past the barrier, everyone has joined) and `SoleDriver`. That claims do not change within
  the model (`table` is fixed) is what makes a recorded split true for ever; what the code has
  to earn of it is in `Ownership`, and proved there (`SplitsAgree`, `CatsKeepOwners`).
- `BarrierHolds == JoinBarrier /\ Spec => []EveryoneHere`, from `GateInv`: with the barrier on, no human
  decision is released or applied in a battle that some member has not snapshotted. This is the reason no
  decision can arrive at a peer without a roster for it.
- `PromiseKept` (`AgreementProofs`) `== JoinBarrier /\ Spec /\ []NeverFull => KeepsPromise`: the battle layer
  implements `AgreedBattle`, every `Apply` being an `Apply` there and every other step a stutter, even when
  copies drift and whatever the tables. `CopiesAgree` (same module) proves of the abstract
  specification that of any two copies of a battle one is a prefix of the other.
- `NothingIsLost == JoinBarrier /\ MayDrift = {} /\ Spec /\ []NeverFull => []NothingLost`. Both theorems
  are consequences of `CourseInv`, which adds to `TypeInv` and `GateInv`:
  - `CopyInv` (`LockstepProofs`): where a copy is in its battle (phase, clock, what its tracker has retired)
    is what it has decided there; each decision is of the cat whose turn the ones before it make it;
  - `RoadInv`: what a client has yet to read or follow is on the host's route and untouched by that client,
    so a node is entered once, and with nothing done in it;
  - `MailInv`: a decision in a queue or held is of a cat its receiver does not own, of a battle that every
    member has joined, and the tables are then a split. This is where the barrier is used;
  - `AgreeInv`: nothing is lost on the way (`NoneLost`), nobody is ahead of a cat's owner in what that cat
    does (`OwnerAhead`), and two copies agree as far as both go (`SameCourse`).

  The parts of `AgreeInv` hold each other up, and none is inductive alone. A peer that takes a decision
  off its queue takes the next one its owner took for that cat, because none is missing; it takes it at
  the same place, because up to there the copies agree and so does the cat whose turn it is; and what
  arrives for a battle already left, and is dropped, is never needed, because nobody can be further in a
  battle than one who has finished it. `NoneLost` excepts a peer stopped over a copy that drifted
  (`Stays`): `ApplyRemote` has then taken a decision that it does not apply.
- `HaltsAreReal == JoinBarrier /\ Spec /\ []NeverFull => []NoFalseHalt`. `HashInv` says
  what a hash is: `Marked` that `turn`, which keys it, counts the turns its copy has ended since the
  snapshot, although it is advanced by boundaries only and reset by some of them; `FairHash`, of every hash
  in a ring or on its way, that it read a copy at the end of that turn, unless somebody has drifted. Two
  fair hashes of one turn are of prefixes of agreeing copies that end the same number of turns with an
  end of turn, hence equal. A refused split or an unapplicable decision is traced to the tables or to a
  drift, and a HALT to whoever sent it.
- `DifferencesAreCaught == DesyncHalt /\ Spec => []DivergenceCaught`, with no condition on queues, rings or
  the barrier. `CatchInv` says of the ring of own hashes that it has what the copy was at the end of each of
  its turns, once (`Ringed`); of two hashes of one turn in the rings of two peers in its battle that they
  are equal, or one of them is on its way to the other peer (`Travels`: in its queue, or with its author for
  the host to pass on), or somebody has stopped; and that once somebody has, everybody has or has a HALT on
  its way (`Alarmed`). The second is why neither a refused push nor a full ring of the others' hashes can
  hide a difference while both own hashes are still held: of two peers that pass a turn, the one that
  passes it first reads the other's hash after. `BeforeTurn` makes the hash stand for the decisions: what
  it read is what its copy decided in the turns before.
- `LogIsComplete == JoinBarrier /\ MayDrift = {} /\ Spec /\ []NeverFull /\ []LogRoom => []LogComplete`:
  `LogInv` is `LogComplete` for a peer that `Stays`. It is inductive on top of `CourseInv` and `Marked`:
  the first boundary of a battle empties the log and purges what is held, and there must have been nothing
  in either.
- `TurnsAreCompared == Spec => []EveryTurnCompared` (`TurnsProofs`, of `HashExchange`). `ExchangeInv` is
  `TypeOK`; what holds always, of what is retired (`Retiring`: exactly the last battles left), passed
  (`Passing`), in the ring of own hashes (`Owned`: the last turns of the battle, in order), read or on its
  way (`Sent`: all that the other passed, in its order) and waiting (`Queued`); and, as long as neither
  peer has had more than a ring of turns unread by the other, `Few`, `Waits` and `Caught`: what was read of
  the battle or of a later one has been compared if it is passed, and waits in the ring if it is not. One
  count carries it: a hash evicted from its ring, or of a battle the tracker has forgotten, has more than
  a ring of own turns after it that were not read (`PassedIsMet`), and a hash refused by a full ring says
  the same of the other peer (`RoomInRing`). A peer forgets a battle after `Slots` more of them, and each
  has passed at least one turn: hence `RingsAssumption`, that a ring holds no more than the tracker
  does (both are 16: `kHashRing`, `mgmp_hashring.h:48`, and `Slots`, `mgmp_battleid.h:45`).
- `NodesAreCompared == NodesSpec => []NodesCompared`: `NodeInv` says of each peer that it took a sample once
  (`TakenOnce`), that what the other took is in the mail or was read (`MailHolds`), and, while neither is
  late, that its rings hold exactly what the other has not met (`MineHolds`, `TheirsHolds`) and that what it
  reports is what was met, and true (`Reported`). An eviction would need a ring of samples not met.
- `DelaysEndAlike == DelaysSpec => []DelaysAgree`: `DelayInv` says when a status taken over is due in each copy
  (`OnTime`), and that one that waits has either not been touched, in the turn of its making, or been taken
  over in it (`Waiting`).
- `SplitsAgree == Spec => []SameSplit`, `NothingIsMissed == Spec => []NothingMissed`, `CatsKeepOwners == Spec =>
  NeverReassigned` (`OwnershipProofs`). `SplitInv` says that every table there is, a client's, one it holds
  back, one on its way, one a battle was split by, is a beginning of the host's (`Growth`, `Sound`), and
  that whoever is in a node, or has it queued, has had the slots of every cat the run had when the host
  entered it (`Supplied`, `Queued`). The second half needs the letters on the way: of two OWNERSHIP
  letters the later has no shorter a table, and before an ENTERNODE that a client will heed comes the table
  its battle needs (`Sound`). What keeps this up is `Told`: whoever the host counts as told, having
  published to `sentCount`, has had that many slots or has them coming. `ownership_forget` is what makes it
  inductive when a link is lost or a client is welcomed; without it (the mutant of `NothingMissed`) a
  returning client is told nothing until the table grows. Below it lies the growth itself: `ExtendIs` says
  of `extend_round_robin`'s loop, a recursive function, that it keeps the table it was given and adds as
  many slots as were asked for, up to the cap.
- `BuffersOwned == WireSpec => []OneOwner` (`OwnershipProofs`), for a receive queue of any length. `HeapInv` says
  that a slot that is not queued points to no buffer, which is what lets `queue_push` overwrite one without
  freeing; that no two slots, and no slot and the message the game has taken, point to the same; and that
  the buffers in use are those pointed to. Which slots are queued is told by how far each is behind `head`
  (`Behind`, `InRing`), and the ring's modulo is taken apart once, in `WrapIs`. A newcomer's buffers are new
  (`FreshIs`), whatever the decoders make of a frame: the proof needs nothing of `Messages`. TLC checked
  `HeapInv` on the `wire` instance.
- `ScreensTyped`, `OnePress` (`ScreenSyncProofs`): `OnceInv` adds to `TypeOK` and `PressedOnce` that what a
  kind tracks and has pressed is no later than the node it stands in, and that a pressed button still
  tracked has fired; `ensure_armed` may then forget `fired` without forgetting a press.
- `LeavingTogether`: `NoTreasure` implies `Spec => []ByConsent`. `ConsentInv` is the argument above in six
  conjuncts: `Cast` (what a player has voted for), `Ascending` (votes travel in the order of nodes),
  `Passed` (a node left behind had its exit pressed), `Counted` and `Consumed` (whoever is counted, now or
  when a button was pressed, voted for that button and has nothing as old unread), `Fitting`.
  `ReadInOrder` is the heart: the oldest unread vote is never for a node before the one counted for, and
  if it is for a later one its author has voted for this one too.
- `FacingsEarned == FacingSpec => []FacingEarned` (`ScreenSyncProofs`): `EarnedInv` adds to it the types, that a
  copy is in a battle of its script at a turn of it (`Scripted`), and that the cat that acts is the one whose
  brain was polled (`ItsTurn`): what is midway is then ended by the step that ends its turn.
- `WalkTyped == Spec => []TypeOK` (`JourneyProofs`). `Standing` adds that a copy inside a node stands in one of
  the run's, and that what it shows is a screen of that node not closed yet.
- `OneWay == Spec => []SameWay` (`JourneyProofs`). The property equates lists; the invariant, `WayInv`, speaks of
  the nodes in them (`Way`): the host has entered 1, 2, ... up to where it stands; what a client has entered,
  has queued and has coming are rising lists, each below the next; and together they hold exactly what the
  host has entered less what the client refused. A rising list is known by its members (`OneRising`), and
  so the lists are the same.
- `OneDecision == OneOfAKind /\ Spec => []SameDecisions` (`JourneyProofs`). `Chosen` follows a choice: no two
  letters between the same two players are about one screen, and what is on its way to a copy, in a slot of
  it and carried out by it are about different screens; each is what its author decided and carried out.
  `Placed` keeps it up: of the node it stands in a player has decided only screens it has closed or is
  closing, and it enters a node once (`WayInv`), so it decides a screen once; and a cached screen is one of
  the node the copy stands in, which is what `node_seed` of a choice is compared with.
- `OneHaul == ShopSpec => []SameHaul` (`JourneyProofs`). `HaulInv` says, while nothing is `spoilt`, that what
  is off one shelf is off every other or its click is on the way (`Mirrored`), and that no candy is under way
  or the copies are in the round of one (`Round`): the buyer has announced the cat on its screen, or will
  before the screen is gone (`Buyer`); nowhere is the purchase twice, or behind its announcement (`Stage`);
  and a copy that clicks for it has a redirect that knows the cat, or has one that waits and an announcement
  to come, or shows that cat already (`Hears`). So whoever decides decides for that cat, for
  `RedirectPending` holds all others up. The cat of the round is settled when the buyer's screen opens
  (`RoundRolls`), before anybody can have heard of one; a redirect given up in a round was not needed, since
  `RedirectExpires` is `spoilt` while its announcement is coming (`HearingAnnounced`). TLC checked `HaulInv`
  on the shop of the `journey` run, on one where both candies are mirrored, and for three players.
- `IdsAreUnique`, `StrangersKeptOut` (`SessionProofs`), over `TransportTyped`. The least free id and the
  least free slot exist and are free (`LowestIsThere`, by well-foundedness of finite subsets: the library's
  induction theorems are out of reach); the accept thread is the only one that lends, and a dead link's id
  counts as free only with its link. A stranger stays out because nothing with a WELCOME in it is sent
  that does not begin with the host's HELLO (`StrangerStays`, `SendKeepsOut`): the refusal may reach the
  wrong player, the welcome never counts for the wrong build.
- `RostersSettle`, `EveryoneWelcome` (`SessionProofs`). Both speak of what holds at rest, and neither is
  inductive. `Owned` says who has which link: a thread that receives has a live link of its own, a live link
  its thread, and a socket read from stands in the link of its thread; the old thread of a slot may still
  close or clear what the new one has. Over it `NewsInv` follows a publication: unless two have overlapped
  there is one at a time, and unless a thread has left the table since, it carries those who are there,
  those behind it in the table know them, and when it has ended the last PEERS of the host's queue says
  so (`Latest`). `WelcomeInv` follows a HELLO: a client that is there, of the host's build and not excused,
  reads through its own link, and is in or its HELLO is on its way or in the queue under the id it still
  holds; ids being distinct, the answer reaches it. What the properties except is used where it bites, a
  full queue in `Receive`, another's socket in `CloseSocket` and `ClearSocket`, a refusal that is misread in
  `SessionUpdate`, a roster without its receiver in `TellLink`. TLC checked the invariants on the `transport` instance before they were proved.
- `NobodyGoesHome == LifeSpec => []NeverHome` (`SessionProofs`), over `LifeTyped`. The host's file is a house's
  until the run's first checkpoint, and says it is ready when the last poll saw a run. `HomeInv` says that no
  such file (`HouseFile`) is on its way to, or held by, a client the property does not except (`Clean`), and
  none can be sent to one (`Unsaved`): while the next file to be published would be one, whoever is linked
  has joined in that very time and is excepted. A step could break this by taking the host, or its last
  poll, into a run whose file is still due; `MovesSaved` shows that while anyone is linked whatever moves on
  has had its file published and its screen polled, and on the map a run is flushed into the file before
  it is published (`Flushed`). TLC checked `LifeInv` and `HomeInv` on the `run_life` instance.

*Hypotheses.* `JoinBarrier` is the setting of that name; without it `EveryoneHere` is false, and a decision
may arrive where nobody can say whose it is. `NeverFull` says that no peer's `pending` is full: `pend_push`
then drops the newcomer, which loses a decision for good, and `lockstep_faults` has such states.
`LogRoom` is the same of `sent_log_push`. Both are invariants of the instances of `lockstep_two` and
`lockstep_three`, in all their states, so the theorems speak of the behaviours those runs explore; the
code's own limit, `kMaxSentLog` and `kMaxPending`, is 512 for both. `MayDrift = {}` is part of what the two properties
mean: a copy that computes something else may lack the ability a decision names. `OneOfAKind` says that a
node has at most one screen of a kind, which the nodes of the `journey` run satisfy; a node where two cats
level up does not, and there the property is false (section 6).

*Lists.* What `Picked`, `ActsOf` and `Carried` yield for an empty list, for one more at the end or at the
front and for two lists in a row is proved in `ListProofs` by an induction over sets of numbers: a set that
holds 0 and with each number the next is all of them (`EveryNumber`), from the least element of a set, since
the library's induction theorems take an operator. The invariants were checked by TLC on the instances of
the `lockstep` runs before they were proved.

Assumptions used: `PeerAssumption` and `VisitAssumption` of `ScreenSync`; the named `ASSUME`s of `Lockstep`
(the host is not a client; human cats are cats; the null battle is no node; tables map human cats to
peers or nobody; bounds are naturals) and `SlotsAssumption`; `TransportBounds` and `NoneAssumption` of
`Transport`; `LifePeers`, `LifeBounds` and `LifeData` of `RunLife`; `PeerAssumption`, `BoundAssumption` and `RingsAssumption` of `HashExchange`, with
`RingSizeAssumption` and `SlotsAssumption`; `SlotCapAssumption`, `ProcessAssumption` and `OwnershipBounds` of `OwnerTable` and `Ownership`;
`NodeParameters`; `FacingParameters`; `PeerAssumption`, `VisitAssumption`, `StrangeAssumption` and
`JourneyBounds` of `Journey`; `ShopParameters` and `ShopNothings` of `ShopMirror` (candies are wares, tables
have room, and what stands for nothing is none of the things); `WireBounds` of `Wire`; `DelayParameters`, which says of `Never`
that it is no number. TLC evaluates all of them on every run that extends the module.

*Rings.* `SequenceTheorems` says nothing of `SelectSeq` or of the folds, so `HashRing` writes the purge of a
ring as a recursive function, and `TurnsProofs` proves by the same induction over numbers what taking from a
ring, purging and pushing leave (`TakenRing`, `PurgedRing`, `PushedRing`), and how many entries without
repetition fit (`RingCount`).

*Model-checked only:* of `Trace`, `CrashKeepsTurns` and `Reproduced`,
whose definitions fold and select over sequences; of `Wire`, `AsSent` and `Delivered`, which rest on
what the writers and readers of `Messages` compute, field after field; the invariants and action
properties of `CoopRun`; and all liveness, which needs fairness and `ENABLED` and is out of the
prover's reach.

## 6. Findings and known gaps

One run shows a disagreement between code and comment:

- `ownership_gap`: `extend_round_robin` takes the *number* of players for the *set of their ids*. Ids are
  lent lowest-free and are not renumbered when somebody leaves. In the trace the table is decided with one
  client and one cat, which is the host's; a cat is recruited, client 2 joins and client 1 leaves. The next
  growth counts two players and gives the recruit to id 1, which owns nothing and is nobody's;
  `mgmp_ownertable.h:46` promises it to a player. Nobody claims the cat and the next battle halts. The
  first split (`initial_split`, lines 78-91) counts in the same way; the property is about recruits only.

The following were met while modelling. The models contain those marked *(in)*, and the property named
excepts exactly them; the others are left out, and said to be.

*Screens.*
- A vote read before its screen is up is discarded when the screen's button is first seen
  (`mgmp_screensync.cpp:81`), and its author's further clicks are swallowed, so the screen is never left on
  this copy; the comment at line 152 says such a vote is not left unfired. *(in: `astray`)*
- A voter who left the session is still counted (`mgmp_screensync.cpp:113`).
- A choice names its node and kind but not its screen, with one slot per kind: of two level-ups in one
  node, both decided before the other copy has built the options of the first, the second choice replaces
  the first and is carried out on the first cat (`mgmp_choice.cpp:829`). `mgmp_proto.h:822` promises a
  visible stall rather than a wrong game.
- A client's CHOICE is not relayed (`mgmp_net.cpp:218`): of three players the third waits.
- Crossed candy purchases, within eight seconds of each other, swap recipients, contrary to what
  `mgmp_proto.h:684` says of correcting a roll; a full redirect table leaves a roll uncorrected. *(in:
  `spoilt`)*

*Battles.*
- A FACE names no turn, and is dropped only when its battle is over (`mgmp_lockstep.cpp:2096`): one of the
  next battle turns a cat of this one, and a player's free click may arrive after the attack it came
  before. *(in)*
- Rejoining inside a battle: the rings and the state hash are off until the next snapshot, the split is
  published once and never again, and every decision is sent, also to a peer that has applied it
  (`mgmp_lockstep.cpp` 942, 1765, 3079); `src/README.md:37` says players can rejoin even then.
- A new battle is recognised by the address of the game's list of characters (`mgmp_lockstep.cpp:2845`),
  which may be allocated again.

*The run.*
- A push of cats, bag or history carries no node, so one for the next node may be applied early and one
  held may be applied late. *(in: `skew`)*
- A client gives up after five Escapes or five clicks on Quit To Menu, and stays in the run the host has left
  until its player quits (`mgmp_leave.cpp` 385, 602, 788); once it has seen the pause menu it never presses
  Escape again, so a player who closes the menu ends it too. *(in: `UpToPlayer`)*
- A save that cannot be written, or has no folder, is dropped, not tried again (`mgmp_savefile.cpp` 1057,
  1075): the client waits on the saves screen for the host's next publication. *(in: `unwritten`)*
- A file held when HOSTLEFT is read stays and is loaded later (`mgmp_leave.cpp:683`). *(in: `staleFile`)*
- A client that quit by hand, or lost its link after leaving, counts its file as applied and declines the
  next copy (`mgmp_savefile.cpp:917`); its own Play is swallowed. *(in: `quit`, `declines`)*
- After the last press the player is asked to press Play (`mgmp_savefile.cpp:1129`), which
  `mgmp_mainmenulock.cpp:73` swallows. *(in: `gaveUp`)*
- Joining while the host prepares a run or before its first checkpoint sends a house's file. *(in:
  `noCheckpoint`)* Joining while it is in a battle node it has not yet been seen in makes both wait
  *(in: `heldUp`)*; joining within half a second of its leaving, or with a run since over in memory, or
  being sent a node again (`mgmp_follow.cpp:521`): *(in: `staleReading`, `leftBehind`, `again`, `oldNode`)*.
- A screen shorter than two polls is not seen at all. (assumption `Settled`)
- The inventory lock reverts equipment the game itself changed on a client; an edit overwritten by a push
  before its correction leaves the bag unreverted, one before the first push cannot be reverted
  (`mgmp_invlock.cpp` 125–162). *(in)*
- The sequence number of the inventory survives a host's restart on the clients.

*Transport.*
- A client of another build refuses too, and a host not yet Ready that reads its REFUSE counts itself
  refused, for everybody (`mgmp_session.cpp:610`, against its lines 187 and 219). *(in)*
- `live` is cleared before the socket is closed: a newcomer may be given the slot, and its socket is
  closed or its entry cleared by the old thread (`mgmp_net.cpp:356`). *(in: `excused`)*
- A departing thread reads the members (`mgmp_net.cpp:275`), and walks the links again to tell them (line
  289): a newcomer accepted in between is sent a PEERS without its id, which its `dec_peers` rejects, and
  its `recv_loop` puts it out of the session. *(in: `excused`, `Stray`)*
- An id is lent again at once, so the answer to one who has left goes to its successor; the comments at
  `mgmp_net.cpp:539` and `mgmp_proto.h:133` say an id is never reused within a session. *(in: `excused`)*
- Overlapping publications leave a stale roster; a full queue drops HELLO or PEERS like anything else. *(in:
  `crossed`, `missed`, `excused`)*
- A refused peer keeps its link and its place in the roster (`mgmp_session.cpp:191`), so the others' barrier
  waits for it.

*Determinism.*
- A failed write ends the flush but not the recording, which leaves a hole in the capture
  (`mgmp_record.cpp:114`).
- The reader ends at 4096 steps, and a replay reports everything recorded as reproduced all the same
  (`mgmp_replay.cpp` 185, 238). The match ignores the actor and three flags of an action.

## 7. Not modelled, and why

- Links lost inside a battle: the gaps above make it unclear what a rejoined copy is promised. Links
  are lost between battles in `Ownership`, `RunLife` and `CoopRun`, and anywhere in `Transport` and `Wire`.
- Three players in `Journey` and `ShopMirror`: a third would wait for choices that are not relayed.
- `net_shutdown`, changes of role, and restarts of the host.
- The combat lock: it greys buttons anew in every frame, from what `Lockstep` already decides by.
- Drawing and cosmetic messages, fonts, cutscenes, cursor, aim and badge: nothing in them decides what a
  copy computes (their messages are in `Messages`, the fence around the drawn aim in `Facing`).
- Address resolution, configuration, logging, the debug panel, the loader, scripts, vendored libraries.
- What the game computes between decisions, which is not in the repository: a copy is a deterministic
  function of its decisions, or it has drifted.
