------------------------------ MODULE MCLockstep ------------------------------
(***************************************************************************)
(* Instances of Lockstep for TLC: the values the .cfg files give to its    *)
(* constants.  The host p0 drives cat1, client p1 cat2, a third player p2  *)
(* only follows along; foe is a cat of the AI's.                           *)
(***************************************************************************)
EXTENDS Lockstep, TLC

CONSTANTS p0, p1, p2, cat1, cat2, foe, n1, n2

PlayerThenAI == <<cat1, foe, cat2>>
PlayersOnly == <<cat1, cat2>>

(* The table of mgmp_ownership.cpp, once every peer has the latest.        *)
Owner == (cat1 :> p0) @@ (cat2 :> p1)
Owned == [c \in Human |-> Owner[c]]
Agreed == {Owned}

(* A peer may still hold the table from before cat2 was handed over, or    *)
(* one in which the slot of cat1 is nobody's.                              *)
Outdated == {Owned, [Owned EXCEPT ![cat2] = p0], [Owned EXCEPT ![cat1] = NoPeer]}

(* Nothing orders nodes: a run may enter them in any order.                *)
Interchangeable == Permutations(Node)
==============================================================================
