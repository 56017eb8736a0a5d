-------------------------------- MODULE MCWire --------------------------------
(***************************************************************************)
(* An instance of Wire for TLC.                                            *)
(***************************************************************************)
EXTENDS Wire

OneCat == {m \in MessagesOf("CATDATA") : m[2].size = 1}
===============================================================================
