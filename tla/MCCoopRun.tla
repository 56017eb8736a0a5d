------------------------------ MODULE MCCoopRun ------------------------------
(***************************************************************************)
(* An instance of CoopRun for TLC.                                         *)
(***************************************************************************)
EXTENDS CoopRun

CONSTANT c1

(* The host may hurry through the first node; the second is a battle.      *)
SecondIsBattle == {2}

(* States are told apart by everything but those bits of the history snag  *)
(* that SameStart does not read; no guard reads snag.                      *)
SnagsRead == [c \in Client |-> snag[c] \cap {"staleReading", "oldNode"}]
View == <<hostVars, game, file, leaving, quit, nodeQ, linked, faults, live, wire,
          SnagsRead, storeVars>>

RunData == [Datum -> Seq(Nat \X Nat)]
==============================================================================
