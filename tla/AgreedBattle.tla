----------------------------- MODULE AgreedBattle -----------------------------
(***************************************************************************)
(* What the battle layer promises the players, and nothing of how: every   *)
(* peer plays its own copy of each battle at its own pace, and all of them *)
(* play the same one.  A copy is the sequence of decisions applied to it;  *)
(* it grows by any decision when it is the furthest, and otherwise only by *)
(* the decision that the copies ahead of it applied at that point.         *)
(***************************************************************************)
EXTENDS Naturals, Sequences

CONSTANTS Peer, Battle, Decision

VARIABLE applied   \* per peer and battle, the decisions applied

TypeOK == applied \in [Peer -> [Battle -> Seq(Decision)]]

Init == applied = [p \in Peer |-> [b \in Battle |-> <<>>]]

Next1(p, b) == Len(applied[p][b]) + 1

Apply(p, b, d) ==
  /\ \A q \in Peer : Next1(p, b) \in DOMAIN applied[q][b] => applied[q][b][Next1(p, b)] = d
  /\ applied' = [applied EXCEPT ![p][b] = Append(@, d)]

Next == \E p \in Peer, b \in Battle, d \in Decision : Apply(p, b, d)

Spec == Init /\ [][Next]_applied

(* One of any two copies of a battle is a prefix of the other.             *)
Agreement ==
  \A p, q \in Peer, b \in Battle :
    \A i \in (DOMAIN applied[p][b]) \cap (DOMAIN applied[q][b]) :
      applied[p][b][i] = applied[q][b][i]
==============================================================================
