------------------------------ MODULE OwnerTable ------------------------------
(***************************************************************************)
(* How cats are shared out (src/session/mgmp_ownertable.h).  A table is    *)
(* the sequence of the owners of its decided slots, as peer ids; slot 0 of *)
(* the code is position 1 here.                                            *)
(***************************************************************************)
LOCAL INSTANCE Naturals
LOCAL INSTANCE Sequences
LOCAL INSTANCE FiniteSets

CONSTANTS
  MaxOwnerSlots,   \* kMaxOwnerSlots: 32
  NoOwner          \* kNoOwner

ASSUME SlotCapAssumption == MaxOwnerSlots \in Nat \ {0} /\ NoOwner \notin Nat

OwnerOf(t, slot) == IF slot \in DOMAIN t THEN t[slot] ELSE NoOwner

Capped(total) == IF total < MaxOwnerSlots THEN total ELSE MaxOwnerSlots

AtLeastOne(peers) == IF peers = 0 THEN 1 ELSE peers

(* initial_split: contiguous shares in id order; the first total % n of    *)
(* them are one larger.                                                    *)
InitialSplit(total, peers) ==
  LET n == AtLeastOne(peers)
      base == Capped(total) \div n
      extra == Capped(total) % n
      large == extra * (base + 1)
  IN [i \in 1 .. Capped(total) |->
        IF i <= large THEN (i - 1) \div (base + 1)
        ELSE extra + ((i - 1) - large) \div base]

Share(t, p) == Cardinality({i \in DOMAIN t : t[i] = p})

(* The id below n with the fewest slots, the lowest such id.               *)
Neediest(t, n) ==
  CHOOSE p \in 0 .. (n - 1) :
    \A q \in 0 .. (n - 1) :
      Share(t, p) < Share(t, q) \/ (Share(t, p) = Share(t, q) /\ p <= q)

(* Mutant: every growth divides all the cats anew.                         *)
Redivide(t, total, peers) == InitialSplit(total, peers)

(* extend_round_robin: the missing slots one at a time, each to whoever    *)
(* has the fewest by then.                                                 *)
ExtendRoundRobin(t, total, peers) ==
  LET n == AtLeastOne(peers)
      more == IF Capped(total) < Len(t) THEN 0 ELSE Capped(total) - Len(t)
      ext[k \in 0 .. more] ==
        IF k = 0 THEN t ELSE Append(ext[k - 1], Neediest(ext[k - 1], n))
  IN ext[more]

(* grow.                                                                   *)
Grow(t, total, peers) ==
  IF t = <<>> THEN InitialSplit(total, peers) ELSE ExtendRoundRobin(t, total, peers)
==============================================================================
