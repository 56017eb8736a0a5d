-------------------------------- MODULE Facing --------------------------------
(***************************************************************************)
(* Which way the cats look, kept alike in two copies of a battle: the FACE *)
(* messages of src/session/mgmp_lockstep.cpp (at every action, at every    *)
(* turn, and from frame to frame), the aim preview that is put back, and   *)
(* the fence around what is drawn for the other player.                    *)
(*                                                                         *)
(* A blow from behind hurts more, so a facing is part of the simulation;   *)
(* it is in no hash, and no decision carries it.  Decisions and battles    *)
(* are those of Lockstep, here a script; time is what the code measures of *)
(* it: nothing, kFaceMinSendGapMs or kFaceHeartbeatMs since a cat's facing *)
(* was last sent.                                                          *)
(***************************************************************************)
EXTENDS Naturals, Sequences, SequencesExt

CONSTANTS
  Player,      \* the two players
  Pet,         \* the cats of human players
  Fighter,     \* all that has turns: AI cats as well
  KeeperOf,    \* whose cat each is
  Script,      \* the decisions of each battle: whose, and how it leaves that cat
  MaxClicks,   \* bound: cats turned by hand
  MaxUnread,   \* bound: messages unread when a frame sends
  Nobody

Way == {"west", "east"}

ASSUME FacingParameters ==
  /\ Pet \subseteq Fighter /\ IsFiniteSet(Pet) /\ Nobody \notin Fighter
  /\ KeeperOf \in [Pet -> Player]
  /\ Script \in Seq(Seq([cat : Fighter, to : Way]))
  /\ MaxClicks \in Nat /\ MaxUnread \in Nat

Midway == "midway"    \* of an animation or a preview: no action left it so
Gap == 1
Heartbeat == 2

VARIABLES
  bout,    \* the battle each copy is in, 0 before the first
  stage,   \* where its current turn is
  done,    \* the decisions it has applied in this battle
  polled,  \* g.current_actor_cat
  faces,   \* Character+0x388 of the cats
  cast,    \* g_facebc: what was last sent, and how long ago
  known,   \* decisions of the other that have been read
  post,    \* messages to each player
  clicks   \* bound: what is left of MaxClicks

facingVars == <<bout, stage, done, polled, faces, cast, known, post, clicks>>

Opponent(p) == CHOOSE q \in Player : q # p

NeverCast == [way |-> Nobody, since |-> Heartbeat]
FaceMsg(p, c) == [type |-> "FACE", battle |-> bout[p], cat |-> c, way |-> faces[p][c]]
ActionMsg(p) == [type |-> "ACTION", battle |-> bout[p]]

Kept(p) == {c \in Pet : KeeperOf[c] = p}

FacingInit ==
  /\ bout = [p \in Player |-> 0]
  /\ stage = [p \in Player |-> "over"]
  /\ done = [p \in Player |-> 0]
  /\ polled = [p \in Player |-> Nobody]
  /\ faces = [p \in Player |-> [c \in Pet |-> "west"]]
  /\ cast = [p \in Player |-> [c \in Pet |-> NeverCast]]
  /\ known = [p \in Player |-> 0]
  /\ post = [p \in Player |-> <<>>]
  /\ clicks = MaxClicks

-------------------------------------------------------------------------------
(* The turns of a battle.                                                  *)

NextDecision(p) == Script[bout[p]][done[p] + 1]

(* What a turn's boundary and the frames send: cs, one message each.       *)
Sent(p, cs) == [post EXCEPT ![Opponent(p)] = @ \o [i \in DOMAIN cs |-> FaceMsg(p, cs[i])]]
CastOf(p, cs) ==
  [cast EXCEPT ![p] = [c \in Pet |-> IF c \in Range(cs) THEN [way |-> faces[p][c], since |-> 0]
                                     ELSE @[c]]]

(* The roster is taken at the first boundary of a battle: a new one begins *)
(* with the cats as the game has put them, and with nothing sent.          *)
Snapshot(p) ==
  /\ stage[p] = "over" /\ bout[p] < Len(Script)
  /\ bout' = [bout EXCEPT ![p] = @ + 1]
  /\ stage' = [stage EXCEPT ![p] = "boundary"]
  /\ done' = [done EXCEPT ![p] = 0]
  /\ polled' = [polled EXCEPT ![p] = Nobody]
  /\ faces' = [faces EXCEPT ![p] = [c \in Pet |-> "west"]]
  /\ cast' = [cast EXCEPT ![p] = [c \in Pet |-> NeverCast]]
  /\ UNCHANGED <<known, post, clicks>>

(* lockstep_turn_boundary, lockstep_face_turn_tick: every cat one keeps.   *)
TurnTick(p) ==
  /\ stage[p] = "boundary"
  /\ LET cs == SetToSeq(Kept(p)) IN
     /\ post' = Sent(p, cs)
     /\ cast' = CastOf(p, cs)
  /\ stage' = [stage EXCEPT ![p] = IF done[p] < Len(Script[bout[p]]) THEN "turn" ELSE "over"]
  /\ UNCHANGED <<bout, done, polled, faces, known, clicks>>

(* lockstep_fill_choice, the first time the brain of the turn is polled.   *)
Poll(p) ==
  /\ stage[p] = "turn"
  /\ polled' = [polled EXCEPT ![p] = NextDecision(p).cat]
  /\ stage' = [stage EXCEPT ![p] = "deciding"]
  /\ UNCHANGED <<bout, done, faces, cast, known, post, clicks>>

(* A decision is there: an AI cat's by itself, one's own when both are in  *)
(* the battle (the join barrier), the other's when it has been read.       *)
Decided(p) ==
  LET c == NextDecision(p).cat IN
  \/ c \notin Pet
  \/ c \in Kept(p) /\ bout[Opponent(p)] >= bout[p]
  \/ c \in Pet \ Kept(p) /\ known[p] > 0

(* lockstep_on_applied, lockstep_on_action_applied: one's own decision has *)
(* been sent, and goes with the facing its cat has before the game acts on *)
(* it; then the cat's animation begins.                                    *)
ApplyDecision(p) ==
  /\ stage[p] = "deciding" /\ Decided(p)
  /\ LET c == NextDecision(p).cat IN
     /\ post' = IF c \in Kept(p)
                THEN [post EXCEPT ![Opponent(p)] = @ \o <<ActionMsg(p), FaceMsg(p, c)>>]
                ELSE post
     /\ known' = IF c \in Pet \ Kept(p) THEN [known EXCEPT ![p] = @ - 1] ELSE known
     /\ faces' = IF c \in Pet THEN [faces EXCEPT ![p][c] = Midway] ELSE faces
  /\ stage' = [stage EXCEPT ![p] = "acting"]
  /\ UNCHANGED <<bout, done, polled, cast, clicks>>

(* The animation leaves the cat as the decision says (the game's).         *)
AnimationEnds(p) ==
  /\ stage[p] = "acting"
  /\ LET d == NextDecision(p) IN
     faces' = IF d.cat \in Pet THEN [faces EXCEPT ![p][d.cat] = d.to] ELSE faces
  /\ done' = [done EXCEPT ![p] = @ + 1]
  /\ stage' = [stage EXCEPT ![p] = "boundary"]
  /\ UNCHANGED <<bout, polled, cast, known, post, clicks>>

-------------------------------------------------------------------------------
(* What turns a cat besides: a click, the aim preview, and the highlight   *)
(* that is drawn for the other player.                                     *)

Acting(p, c) == stage[p] = "acting" /\ polled[p] = c

(* A click turns a cat, one's own or not, in one's own copy only (the      *)
(* game's).                                                                *)
Click(p, c) ==
  /\ clicks > 0 /\ bout[p] > 0 /\ ~Acting(p, c)
  /\ \E w \in Way \ {faces[p][c]} : faces' = [faces EXCEPT ![p][c] = w]
  /\ clicks' = clicks - 1
  /\ UNCHANGED <<bout, stage, done, polled, cast, known, post>>

(* Mutant: the preview's turn stays.                                       *)
LeftAsAimed(before, aimed) == aimed

(* lockstep_preview_facing_begin and _end.                                 *)
PutBack(before, aimed) == before

(* Mutant: the fence only reports.                                         *)
OnlyReported(before, drawn) == drawn

(* lockstep_state_fence_begin and _end: facings are put back.              *)
Fenced(before, drawn) == before

(* h_UpdateDecision on the copy of the player who aims: the game turns the *)
(* cat toward its aim.                                                     *)
AimPreview(p) ==
  /\ stage[p] = "deciding" /\ polled[p] \in Kept(p)
  /\ LET c == polled[p] IN
     faces' = [faces EXCEPT ![p][c] = PutBack(faces[p][c], Midway)]
  /\ UNCHANGED <<bout, stage, done, polled, cast, known, post, clicks>>

(* highlight_fenced on the other's: any cat may move under it.             *)
DrawHighlight(p, c) ==
  /\ stage[p] = "deciding" /\ polled[p] \in Pet \ Kept(p)
  /\ faces' = [faces EXCEPT ![p][c] = Fenced(faces[p][c], Midway)]
  /\ UNCHANGED <<bout, stage, done, polled, cast, known, post, clicks>>

-------------------------------------------------------------------------------
(* The frames.                                                             *)

(* Mutant: the cat whose turn it is is sent as well.                       *)
AnyOfMine(p, c) == TRUE

(* Its animation is under way at another point in each copy.               *)
Quiescent(p, c) == c # polled[p]

(* Mutant: a facing is sent when it changes, and only then.                *)
DueOnChange(p, c) ==
  cast[p][c].way # faces[p][c] /\ cast[p][c].since >= Gap

(* A change after a gap, anything after a heartbeat.                       *)
FaceDue(p, c) ==
  \/ cast[p][c].way # faces[p][c] /\ cast[p][c].since >= Gap
  \/ cast[p][c].since >= Heartbeat

(* lockstep_face_frame_tick: the idle cats one keeps.                      *)
FaceFrame(p) ==
  /\ bout[p] > 0 /\ Len(post[Opponent(p)]) <= MaxUnread
  /\ LET due == {c \in Kept(p) : Quiescent(p, c) /\ FaceDue(p, c)}
         cs == SetToSeq(due)
     IN /\ due # {}
        /\ post' = Sent(p, cs)
        /\ cast' = CastOf(p, cs)
  /\ UNCHANGED <<bout, stage, done, polled, faces, known, clicks>>

TimePasses(p) ==
  /\ \E c \in Kept(p) : cast[p][c].since < Heartbeat
  /\ cast' = [cast EXCEPT ![p] = [c \in Pet |->
       IF c \in Kept(p) /\ @[c].since < Heartbeat THEN [@[c] EXCEPT !.since = @ + 1] ELSE @[c]]]
  /\ UNCHANGED <<bout, stage, done, polled, faces, known, post, clicks>>

(* lockstep_pump.  A facing of a battle that is over is stale; any other   *)
(* is applied to the cat of that place, in whatever battle this copy is.   *)
ReadPost(p) ==
  /\ post[p] # <<>>
  /\ LET m == Head(post[p]) IN
     /\ faces' = IF m.type = "FACE" /\ m.battle >= bout[p] /\ bout[p] > 0
                 THEN [faces EXCEPT ![p][m.cat] = m.way] ELSE faces
     /\ known' = IF m.type = "ACTION" THEN [known EXCEPT ![p] = @ + 1] ELSE known
  /\ post' = [post EXCEPT ![p] = Tail(@)]
  /\ UNCHANGED <<bout, stage, done, polled, cast, clicks>>

FacingNext ==
  \E p \in Player :
    \/ Snapshot(p) \/ TurnTick(p) \/ Poll(p) \/ ApplyDecision(p) \/ AnimationEnds(p)
    \/ AimPreview(p) \/ FaceFrame(p) \/ TimePasses(p) \/ ReadPost(p)
    \/ \E c \in Pet : Click(p, c) \/ DrawHighlight(p, c)

FacingSpec == FacingInit /\ [][FacingNext]_facingVars

(* Frames run and messages are read; nobody has to decide anything.        *)
FrameFairness ==
  \A p \in Player :
    /\ WF_facingVars(FaceFrame(p) \/ TimePasses(p))
    /\ WF_facingVars(ReadPost(p))

-------------------------------------------------------------------------------
(* Properties.                                                             *)

(* Every facing a copy has, and every one it sends, is one that an action, *)
(* a click or the battle's beginning left: what the game shows of an aim,  *)
(* of the other's aim, or of an animation in flight reaches neither the    *)
(* simulation nor the other copy (lockstep_preview_facing_end,             *)
(* lockstep_state_fence_end, and what lockstep_face_frame_tick leaves out).*)
FacingEarned ==
  \A p \in Player :
    /\ \A c \in Pet : faces[p][c] = Midway => Acting(p, c)
    /\ \A i \in DOMAIN post[p] : post[p][i].type = "FACE" => post[p][i].way # Midway

(* A cat that looks another way in the other's copy -- its keeper turned   *)
(* it, or the other did -- does so for a while only, unless it is that     *)
(* cat's own turn with its keeper or the battle is left                    *)
(* (lockstep_face_frame_tick, kFaceHeartbeatMs, lockstep_on_face_message). *)
Apart(c) == \E p, q \in Player : bout[p] = bout[q] /\ faces[p][c] # faces[q][c]

FacingSettles ==
  \A c \in Pet : Apart(c) ~> ~Apart(c) \/ polled[KeeperOf[c]] = c
===============================================================================
