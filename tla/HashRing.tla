------------------------------- MODULE HashRing -------------------------------
(***************************************************************************)
(* The two rings of turn hashes (src/net/mgmp_hashring.h).  A ring is the  *)
(* sequence of its entries, oldest first; an entry is a record with a      *)
(* battle and a turn, which together are its key.                          *)
(***************************************************************************)
EXTENDS Naturals, Sequences, SequencesExt

CONSTANT RingSize   \* kHashRing: 16 in the code

ASSUME RingSizeAssumption == RingSize \in Nat \ {0}

(* push_evicting: our own hashes; a full ring loses its oldest entry.      *)
PushEvicting(ring, h) ==
  Append(IF Len(ring) = RingSize THEN Tail(ring) ELSE ring, h)

(* push_refusing: a peer's hashes; a full ring loses the newcomer.         *)
PushRefusing(ring, h) ==
  IF Len(ring) = RingSize THEN ring ELSE Append(ring, h)

HasKey(h, battle, turn) == h.battle = battle /\ h.turn = turn

Matches(ring, battle, turn) ==
  {i \in 1 .. Len(ring) : HasKey(ring[i], battle, turn)}

(* The index find and take stop at; only meaningful when there is one.     *)
FirstMatch(ring, battle, turn) ==
  CHOOSE i \in Matches(ring, battle, turn) :
    \A j \in Matches(ring, battle, turn) : i <= j

Holds(ring, battle, turn) == Matches(ring, battle, turn) # {}

(* HashRing::find.                                                         *)
Find(ring, battle, turn) == ring[FirstMatch(ring, battle, turn)]

(* HashRing::take, the ring left behind; the order of the rest is kept.    *)
Taken(ring, battle, turn) ==
  IF Holds(ring, battle, turn)
  THEN RemoveAt(ring, FirstMatch(ring, battle, turn))
  ELSE ring

(* HashRing::purge_retired: keeps this battle's entries and those of       *)
(* battles not reached yet.                                                *)
PurgeRetired(ring, retired) ==
  LET kept[k \in 0 .. Len(ring)] ==
        IF k = 0 THEN <<>>
        ELSE IF ring[k].battle \in retired THEN kept[k - 1]
        ELSE Append(kept[k - 1], ring[k])
  IN kept[Len(ring)]
==============================================================================
