--------------------------------- MODULE Trace ---------------------------------
(***************************************************************************)
(* A battle recorded, and the recording played again into another copy:    *)
(* src/determinism/mgmp_record.cpp, mgmp_replay.cpp, mgmp_ability.cpp and  *)
(* their hooks (h_GetChoice, h_ApplyAction, h_QueueDecision, h_NextTurn in *)
(* src/core/mgmp_hooks.cpp).                                               *)
(*                                                                         *)
(* The recorder buffers events and writes them out at the end of a turn    *)
(* or when the buffer is full; the game may crash at any point.  In the    *)
(* second run the decisions of the human player are put in from the file,  *)
(* and the game finds everything else anew: the same if nothing differs,   *)
(* and Drift is what may differ.                                           *)
(***************************************************************************)
EXTENDS Naturals, Sequences, SequencesExt

CONSTANTS
  Order,       \* who has each turn
  Cat,         \* the cats of the human player; the others have a brain of their own
  Target,
  Drift,       \* what may differ in the second run, besides nothing
  BufCap,      \* kBufCap, in events
  MaxSteps,    \* kMaxSteps
  MaxDraws,    \* bound: draws of other threads
  Null

ASSUME TraceParameters ==
  /\ BufCap \in Nat \ {0} /\ MaxSteps \in Nat \ {0} /\ MaxDraws \in Nat
  /\ Drift \subseteq {"ai", "empty", "other"}

VARIABLES
  run,       \* "record", "crashed" or "replay"
  ring,      \* decisions and what abilities queue, not yet applied
  applied,   \* the actions applied in this run
  buf,       \* g_buf
  file,      \* what the disk holds
  interned,  \* g_classes and g_names
  draws,     \* bound: what is left of MaxDraws
  flushed,   \* history: how many actions were applied when a turn was last written out
  recorded,  \* history: the actions of the first run
  drift,     \* what differs in this run
  steps,     \* g_steps
  at,        \* g_head
  waiting,   \* g_outstanding
  diverged   \* g_diverged, as far as that it is not 0

recordVars == <<buf, file, interned, draws, flushed>>
replayVars == <<steps, at, waiting, diverged>>
traceVars == <<run, ring, applied, recordVars, recorded, drift, replayVars>>

Brain(a) == IF a \in Cat THEN "PlayerBrain" ELSE "PatternBrain"

-------------------------------------------------------------------------------
(* The game.  A turn is an ability or none, and the turn's end; a toss     *)
(* moves another cat, by an action of its own.                             *)

End == [type |-> "end", actor |-> Null, slot |-> "none", target |-> Null]
Ability(s, t) == [type |-> "ability", actor |-> Null, slot |-> s, target |-> t]
Moved(t) == [type |-> "ability", actor |-> t, slot |-> "move", target |-> t]
Invoked(t) == [type |-> "invoke", actor |-> Null, slot |-> "none", target |-> t]

IsStep(a) == a.type \in {"ability", "end"}
Steps(s) == SelectSeq(s, IsStep)
TurnsOver == Len(SelectSeq(applied, LAMBDA a : a.type = "end"))
Over == TurnsOver = Len(Order)
Actor == Order[TurnsOver + 1]
HasActed == applied # <<>> /\ Last(applied).type # "end"

(* What is in the slots of the cats (ability_from_slot, ability_gon_name). *)
InSlot(s) == IF s = "none" \/ (drift = "empty" /\ s = "attack") THEN Null
           ELSE IF drift = "other" /\ s = "attack" THEN "other" ELSE s

(* A human may decide anything, a brain of the game's decides by what has  *)
(* happened.                                                               *)
FirstTarget == CHOOSE t \in Target : TRUE
Foe == IF \E i \in DOMAIN applied : applied[i].target # Null
       THEN SelectLastInSeq(applied, LAMBDA a : a.target # Null)
       ELSE 0
Struck == IF Foe = 0 THEN FirstTarget ELSE applied[Foe].target
Wishes ==
  IF HasActed THEN {End}
  ELSE IF Actor \in Cat
  THEN {End} \cup {a \in {Ability(s, t) : s \in {"attack", "toss"}, t \in Target} : InSlot(a.slot) # Null}
  ELSE {Ability("attack", IF drift = "ai" THEN CHOOSE t \in Target : t # Struck ELSE Struck)}

(* What applying a queues besides.                                         *)
Follows(a) == IF a.slot = "toss" THEN <<Moved(a.target)>>
              ELSE IF a.slot = "attack" THEN <<Invoked(a.target)>> ELSE <<>>

-------------------------------------------------------------------------------
(* The recorder.                                                           *)

(* emit_locked: a full buffer is written out first.                        *)
Emit(log, e) ==
  IF Len(log.buf) = BufCap
  THEN [buf |-> <<e>>, file |-> log.file \o log.buf]
  ELSE [log EXCEPT !.buf = Append(@, e)]
EmitAll(es) ==
  LET log == FoldLeft(Emit, [buf |-> buf, file |-> file], es)
  IN /\ buf' = log.buf /\ file' = log.file

Meta == [kind |-> "META"]
Name(n) == [kind |-> "NAME", of |-> n]
Draw == [kind |-> "RNG"]
TurnMark == [kind |-> "TURN"]
Queued(a) == [kind |-> "QUEUE", type |-> a.type]
Act(a) == [kind |-> "ACTION", type |-> a.type, slot |-> a.slot, target |-> a.target,
           gon |-> InSlot(a.slot), brain |-> Brain(IF a.actor # Null THEN a.actor ELSE Actor)]

(* What an action's record names: the ability and the brain of its actor.  *)
Named(a) == LET e == Act(a) IN <<e.gon, e.brain>>

(* Mutant: an action is written before the names it uses.                  *)
NamesAfter(a, new) == <<Act(a)>> \o [i \in DOMAIN new |-> Name(new[i])]

(* h_ApplyAction, record_intern_name, record_intern_class: names are       *)
(* written when they are first met, before the action.                     *)
Record(a, new) == [i \in DOMAIN new |-> Name(new[i])] \o <<Act(a)>>

(* record_turn holds the lock from the turn's event to the end of its      *)
(* flush.                                                                  *)
Flushing == buf # <<>> /\ Last(buf) = TurnMark

RecordTurn ==
  /\ Flushing
  /\ file' = file \o buf /\ buf' = <<>>
  /\ flushed' = Len(Steps(applied))
  /\ UNCHANGED <<run, ring, applied, interned, draws, recorded, drift, replayVars>>

(* Another thread draws (h_randint and its like, record_rng).              *)
RecordRng ==
  /\ run = "record" /\ ~Flushing /\ draws > 0
  /\ EmitAll(<<Draw>>)
  /\ draws' = draws - 1
  /\ UNCHANGED <<run, ring, applied, interned, flushed, recorded, drift, replayVars>>

(* The process ends: at once, with what is on the disk, or in the middle   *)
(* of a flush, with part of the buffer and perhaps of an event.            *)
Cut == [kind |-> "CUT"]
Crash ==
  /\ run = "record"
  /\ \E n \in IF Flushing \/ Len(buf) = BufCap THEN 0 .. Len(buf) ELSE {0} :
     \E tail \in IF n < Len(buf) /\ (Flushing \/ Len(buf) = BufCap) THEN {<<>>, <<Cut>>} ELSE {<<>>} :
       file' = file \o SubSeq(buf, 1, n) \o tail
  /\ buf' = <<>>
  /\ run' = "crashed"
  /\ recorded' = applied
  /\ UNCHANGED <<ring, applied, interned, draws, flushed, drift, replayVars>>

(* record_shutdown.                                                        *)
Shutdown ==
  /\ run = "record" /\ Over /\ ~Flushing
  /\ file' = file \o buf
  /\ buf' = <<>>
  /\ run' = "crashed"
  /\ recorded' = applied
  /\ flushed' = Len(Steps(applied))
  /\ UNCHANGED <<ring, applied, interned, draws, drift, replayVars>>

-------------------------------------------------------------------------------
(* replay_init.                                                            *)

(* A cut record ends the reading.                                          *)
Whole(i) == \A j \in 1 .. i : file[j].kind # "CUT"

Known(i, n) == IF n # Null /\ \E j \in 1 .. i : file[j] = Name(n) THEN n ELSE Null
StepAt(i) == LET e == file[i] IN
  [type |-> e.type, slot |-> e.slot, target |-> e.target,
   gon |-> Known(i, e.gon), brain |-> Known(i, e.brain)]

Load ==
  LET all == SelectSeq([i \in DOMAIN file |-> i],
                       LAMBDA i : Whole(i) /\ file[i].kind = "ACTION" /\ IsStep(file[i]))
  IN [k \in 1 .. (IF Len(all) < MaxSteps THEN Len(all) ELSE MaxSteps) |-> StepAt(all[k])]

(* A capture with nothing to put in is refused.                            *)
ReplayInit ==
  /\ run = "crashed" /\ Load # <<>>
  /\ run' = "replay"
  /\ steps' = Load /\ at' = 0 /\ waiting' = FALSE /\ diverged' = 0
  /\ drift' \in {"none"} \cup Drift
  /\ applied' = <<>> /\ ring' = <<>>
  /\ UNCHANGED <<recordVars, recorded>>

-------------------------------------------------------------------------------
(* Both runs: a brain is polled, a decision queued, an action applied.     *)

Step == steps[at + 1]
Replayable(s) == s.brain = "PlayerBrain"
Injected(s) == [type |-> s.type, actor |-> Null, slot |-> s.slot, target |-> s.target]

(* Mutant: a decision that is on its way is no obstacle.                   *)
NextOnPoll == at < Len(steps) /\ Replayable(Step) /\ Brain(Actor) = Step.brain

(* replay_fill_choice: the step at hand is the human's, and its brain is   *)
(* of the same class.                                                      *)
MayInject == ~waiting /\ at < Len(steps) /\ Replayable(Step) /\ Brain(Actor) = Step.brain

(* The slot holds nothing, or what the file has another name for.          *)
SlotEmpty(s) == s.type = "ability" /\ InSlot(s.slot) = Null
NameDiffers(s) == s.type = "ability" /\ s.gon # Null /\ InSlot(s.slot) \notin {Null, s.gon}
Injects == MayInject /\ ~SlotEmpty(Step) /\ ~NameDiffers(Step)

(* A brain is polled when the ring is empty, and may be polled again while *)
(* a decision that was put in is on its way.                               *)
Polled == run # "crashed" /\ ~Flushing /\ ~Over /\ (ring = <<>> \/ waiting)

(* h_QueueDecision.                                                        *)
QueueDecision(a) ==
  /\ ring' = Append(ring, a)
  /\ IF run = "record" THEN EmitAll(<<Queued(a)>>) ELSE UNCHANGED <<buf, file>>

Silenced == waiting

(* h_GetChoice, the game's own choice: in the second run it stands when    *)
(* nothing is put in and nothing is on its way.                            *)
GameChooses ==
  /\ Polled /\ ~Silenced /\ (run = "replay" => ~Injects)
  /\ \E a \in Wishes : QueueDecision(a)
  /\ diverged' = IF run = "replay" /\ MayInject /\ NameDiffers(Step) THEN 1 ELSE diverged
  /\ UNCHANGED <<run, applied, interned, draws, flushed, recorded, drift, steps, at, waiting>>

(* The choice from the file.                                               *)
FillChoice ==
  /\ Polled /\ run = "replay" /\ Injects
  /\ QueueDecision(Injected(Step))
  /\ waiting' = TRUE
  /\ UNCHANGED <<run, applied, interned, draws, flushed, recorded, drift, steps, at, diverged>>

(* Mutant: where an action goes is not compared.                           *)
SameAbility(a, s) == a.type = s.type /\ a.slot = s.slot

(* replay_on_applied.                                                      *)
AsRecorded(a, s) == a.type = s.type /\ a.target = s.target /\ (a.type = "ability" => a.slot = s.slot)

OnApplied(a) ==
  IF run = "replay" /\ IsStep(a) /\ at < Len(steps)
  THEN /\ diverged' = IF AsRecorded(a, Step) THEN diverged ELSE 1
       /\ at' = at + 1 /\ waiting' = FALSE
  ELSE UNCHANGED <<diverged, at, waiting>>

(* h_ApplyAction; then h_NextTurn, when the turn has ended.                *)
ApplyAction ==
  /\ run # "crashed" /\ ~Flushing /\ ring # <<>>
  /\ LET a == Head(ring)
         new == SelectSeq(Named(a), LAMBDA n : n # Null /\ n \notin interned)
     IN /\ applied' = Append(applied, a)
        /\ ring' = Tail(ring) \o Follows(a)
        /\ IF run = "record"
           THEN /\ EmitAll(Record(a, new) \o (IF a.type = "end" THEN <<TurnMark>> ELSE <<>>))
                /\ interned' = interned \cup Range(new)
           ELSE UNCHANGED <<buf, file, interned>>
        /\ OnApplied(a)
  /\ UNCHANGED <<run, draws, flushed, recorded, drift, steps>>

TraceInit ==
  /\ run = "record" /\ ring = <<>> /\ applied = <<>> /\ recorded = <<>> /\ drift = "none"
  /\ buf = <<Meta>> /\ file = <<>> /\ interned = {} /\ draws = MaxDraws /\ flushed = 0
  /\ steps = <<>> /\ at = 0 /\ waiting = FALSE /\ diverged = 0

TraceNext ==
  \/ RecordTurn \/ RecordRng \/ Crash \/ Shutdown
  \/ ReplayInit \/ GameChooses \/ FillChoice \/ ApplyAction

TraceSpec == TraceInit /\ [][TraceNext]_traceVars

-------------------------------------------------------------------------------
(* Properties.                                                             *)

Shape(a) == [type |-> a.type, slot |-> a.slot, target |-> a.target]

(* Whenever the process ended, what is read back is a beginning of what    *)
(* happened, with every name a step needs and everything up to the last    *)
(* turn written out, as far as the reader has room (record_turn's flush,   *)
(* the names before the action, the cut tail of replay_init).              *)
CrashKeepsTurns ==
  run = "replay" =>
    LET acts == Steps(recorded) IN
    /\ Len(steps) <= Len(acts)
    /\ Len(steps) >= flushed \/ Len(steps) = MaxSteps
    /\ \A i \in DOMAIN steps :
         /\ Shape(steps[i]) = Shape(acts[i])
         /\ steps[i].brain # Null
         /\ steps[i].type = "ability" => steps[i].gon # Null

(* In a copy in which nothing differs no divergence is reported, whatever  *)
(* the player clicks meanwhile; and a replay that reports none has had     *)
(* every recorded action again, in its order and once (g_outstanding,      *)
(* replay_on_applied, the name check of replay_fill_choice, and brains     *)
(* left to themselves).                                                    *)
Same(i) == Shape(Steps(applied)[i]) = Shape(Steps(recorded)[i])
Reached(i) == i \in DOMAIN Steps(applied) /\ i \in DOMAIN steps

Reproduced ==
  run = "replay" =>
    /\ drift = "none" => diverged = 0
    /\ diverged = 0 => \A i \in DOMAIN steps : Reached(i) => Same(i)
===============================================================================
