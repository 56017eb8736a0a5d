------------------------------ MODULE MCOwnership ------------------------------
(***************************************************************************)
(* Instances of Ownership for TLC.                                         *)
(***************************************************************************)
EXTENDS Ownership, TLC

CONSTANTS p0, p1, p2

(* Nothing orders the client processes.                                    *)
Interchangeable == Permutations(Client)
==============================================================================
