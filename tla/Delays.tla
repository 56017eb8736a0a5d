--------------------------------- MODULE Delays ---------------------------------
(***************************************************************************)
(* A delayed status in two copies of a battle: the game counts seconds,    *)
(* the frames of the copies are not equally long, and h_TimeDelay          *)
(* (src/core/mgmp_hooks.cpp, src/determinism/mgmp_timedelay.h) counts      *)
(* turns instead.                                                          *)
(***************************************************************************)
EXTENDS Naturals, Integers, FiniteSets

CONSTANTS
  Copy,
  Wait,          \* kTimeDelayTurns
  Delay,         \* what the game's data may say, in ticks; 0 is no delay
  Managed,       \* kTimeDelayManaged, more than any delay
  EndOfBattle,   \* bound: turns
  TurnTicks,     \* bound: ticks that pass in a turn of a copy
  Never

ASSUME DelayParameters ==
  /\ Delay \subseteq Nat /\ \A d \in Delay : d < Managed
  /\ {Wait, Managed, EndOfBattle, TurnTicks} \subseteq Nat
  /\ Never \notin Int

VARIABLES
  now,      \* log_turn: the turn of each copy
  lapsed,   \* bound: ticks of this turn
  birth,    \* the turn in which the status is made, in both, and its delay
  counter,    \* status+0xF8, in a copy that has it
  seen,     \* it has been updated in the turn in which it was made
  took      \* the turn in which it took effect

delayVars == <<now, lapsed, birth, counter, seen, took>>

DelaysInit ==
  /\ now = [c \in Copy |-> 0]
  /\ lapsed = [c \in Copy |-> 0]
  /\ birth \in [turn: 0 .. EndOfBattle, delay: Delay]
  /\ counter = [c \in Copy |-> Never]
  /\ seen = [c \in Copy |-> FALSE]
  /\ took = [c \in Copy |-> Never]

(* An action of the turn leaves the status on a cat.                       *)
MakeStatus(c) ==
  /\ counter[c] = Never /\ now[c] = birth.turn
  /\ counter' = [counter EXCEPT ![c] = birth.delay]
  /\ UNCHANGED <<now, lapsed, birth, seen, took>>

(* Mutant: the seconds are left to run.                                    *)
LeftToRun(v, turn) == "pass"

(* td_decide.                                                              *)
TdDecide(v, turn) ==
  IF v >= Managed THEN (IF turn < v - Managed THEN "wait" ELSE "fire")
  ELSE IF v <= 0 THEN "pass"
  ELSE IF Wait = 0 THEN "fire" ELSE "take over"

(* The original: it takes dt off, and acts when that leaves less than      *)
(* nothing.                                                                *)
Original(c, v, dt) ==
  /\ counter' = [counter EXCEPT ![c] = v - dt]
  /\ took' = IF v - dt < 0 /\ took[c] = Never THEN [took EXCEPT ![c] = now[c]] ELSE took

(* h_TimeDelay, on a frame of dt ticks, until the status has acted.        *)
Update(c, dt) ==
  /\ counter[c] # Never /\ took[c] = Never
  /\ lapsed[c] + dt <= TurnTicks
  /\ lapsed' = [lapsed EXCEPT ![c] = @ + dt]
  /\ LET d == TdDecide(counter[c], now[c]) IN
     \/ d = "wait" /\ UNCHANGED <<counter, took>>
     \/ d = "pass" /\ Original(c, counter[c], dt)
     \/ d = "take over" /\ counter' = [counter EXCEPT ![c] = Managed + now[c] + Wait]
                        /\ UNCHANGED took
     \/ d = "fire" /\ Original(c, -1, dt)
  /\ seen' = [seen EXCEPT ![c] = TRUE]
  /\ UNCHANGED <<now, birth>>

(* h_NextTurn, at the end of an action's animation: the turn in which the  *)
(* status was made has had a frame since, and so has the one in which it   *)
(* is due.                                                                 *)
TurnEnds(c) ==
  /\ now[c] < EndOfBattle
  /\ now[c] >= birth.turn => seen[c]
  /\ now' = [now EXCEPT ![c] = @ + 1]
  /\ lapsed' = [lapsed EXCEPT ![c] = 0]
  /\ seen' = [seen EXCEPT ![c] = took[c] # Never]
  /\ UNCHANGED <<birth, counter, took>>

DelaysNext ==
  \E c \in Copy :
    MakeStatus(c) \/ TurnEnds(c) \/ \E dt \in {1, TurnTicks} : Update(c, dt)

DelaysSpec == DelaysInit /\ [][DelaysNext]_delayVars

-------------------------------------------------------------------------------
(* A delay ends in the same turn in both copies, whatever their frames     *)
(* (td_decide; kTimeDelayManaged marks a status taken over).               *)
DelaysAgree ==
  \A c, d \in Copy : took[c] # Never /\ took[d] # Never /\ birth.delay > 0 => took[c] = took[d]
===============================================================================
