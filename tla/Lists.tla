-------------------------------- MODULE Lists --------------------------------
(***************************************************************************)
(* What the properties of several modules pick out of a list.              *)
(***************************************************************************)
EXTENDS Naturals, Sequences

(* The values of f, a function on some of 1 .. n, in the order of 1 .. n.  *)
Picked(f, n) ==
  LET first[k \in 0 .. n] ==
        IF k = 0 THEN <<>>
        ELSE IF k \in DOMAIN f THEN Append(first[k - 1], f[k]) ELSE first[k - 1]
  IN first[n]
==============================================================================
