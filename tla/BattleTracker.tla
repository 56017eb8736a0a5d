---------------------------- MODULE BattleTracker ----------------------------
(***************************************************************************)
(* Which battle a message belongs to (src/session/mgmp_battleid.h).        *)
(*                                                                         *)
(* A battle is named by the seed of the map node it was entered from.      *)
(* Seeds do not order, so a peer remembers the last Slots battles it has   *)
(* left: a message for one of those is dropped, a message for any other    *)
(* battle that is not ours is held.                                        *)
(*                                                                         *)
(* A tracker is a record [current, retired]; retired is the ring of the    *)
(* code read from its oldest entry to its newest.                          *)
(***************************************************************************)
LOCAL INSTANCE Naturals
LOCAL INSTANCE Sequences

CONSTANTS
  NoBattle,   \* kNoBattle: on the map, in a menu
  Slots       \* how many battles the retired ring remembers (16 in the code)

ASSUME SlotsAssumption == Slots \in Nat \ {0}

NewTracker == [current |-> NoBattle, retired |-> <<>>]

Remembers(ring, id) == \E i \in 1 .. Len(ring) : ring[i] = id

(* push_retired: an id already in the ring keeps its place; a full ring    *)
(* forgets its oldest entry.                                               *)
PushRetired(ring, id) ==
  IF Remembers(ring, id) THEN ring
  ELSE Append(IF Len(ring) < Slots THEN ring ELSE Tail(ring), id)

(* BattleTracker::enter: re-entering the current battle is no transition. *)
EnterBattle(t, id) ==
  IF id = t.current THEN t
  ELSE [current |-> id,
        retired |-> IF t.current = NoBattle THEN t.retired
                    ELSE PushRetired(t.retired, t.current)]

LeaveBattle(t) ==
  IF t.current = NoBattle THEN t
  ELSE [current |-> NoBattle, retired |-> PushRetired(t.retired, t.current)]

(* BattleTracker::rel; the current battle is tested before the ring.       *)
BattleRel(t, id) ==
  CASE id # NoBattle /\ id = t.current -> "Ours"
    [] ~(id # NoBattle /\ id = t.current) /\ Remembers(t.retired, id) -> "Retired"
    [] OTHER -> "Unknown"

(* Mutant: what is not of the current battle is stale, a later one too.    *)
IsNotOurs(t, id) == BattleRel(t, id) # "Ours"

(* BattleTracker::is_retired.                                              *)
IsRetired(t, id) == BattleRel(t, id) = "Retired"
==============================================================================
