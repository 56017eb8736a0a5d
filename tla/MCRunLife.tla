------------------------------ MODULE MCRunLife ------------------------------
(***************************************************************************)
(* An instance of RunLife for TLC.                                         *)
(***************************************************************************)
EXTENDS RunLife

CONSTANT c1

(* The host may hurry through the first node; the second is a battle.      *)
SecondIsBattle == {2}

NoData == {Fresh}
==============================================================================
