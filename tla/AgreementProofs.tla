--------------------------- MODULE AgreementProofs ---------------------------
(***************************************************************************)
(* Why the members of a session play the same battles.  With the join      *)
(* barrier on and no queue of held decisions ever full, whatever the       *)
(* ownership tables, the pace of the copies and the order their messages   *)
(* cross in:                                                               *)
(*                                                                         *)
(*   - a copy takes each decision of a battle at the place its owner took  *)
(*     it, so that any two copies of a battle agree as far as both go      *)
(*     (SameCourse), and the battle layer implements AgreedBattle;         *)
(*   - no human decision is lost, repeated or reordered on its way         *)
(*     (NoneLost).                                                         *)
(*                                                                         *)
(* The two hold each other up.  A decision is applied where its owner      *)
(* applied it because none before it is missing; and none is missing, when *)
(* a peer that has left a battle drops what comes late for it, because     *)
(* nobody can be further in a battle than one who has finished it.         *)
(*                                                                         *)
(* Then, what the agreement is worth: a peer stops over a real fault only, *)
(* no difference between two copies is passed over, and the catch-up log   *)
(* is complete.  The numbers that key the hashes count the turns a copy has*)
(* ended (Marked), so what a hash of a turn reads is a copy at the end of  *)
(* that turn (FairHash), and two peers that have not drifted read the same *)
(* there.  A hash is compared by whoever reads it after passing its turn,  *)
(* and of two peers that pass a turn the one that passes it first reads the*)
(* other's later (CatchInv).  The log holds what the peer has released and *)
(* then what it holds (LogInv): a step changes them together, except where *)
(* the peer halts.                                                         *)
(***************************************************************************)
EXTENDS LockstepProofs

(* What the theorems assume of a behaviour: pend_push never finds the queue*)
(* full.  lockstep_faults shows what a full one does.                      *)
NeverFull == \A p \in Peer : Cardinality(Held(p)) < MaxPending

-------------------------------------------------------------------------------
(* The mail: a decision in flight or held is of a cat somebody else owns,  *)
(* for a battle that every member has snapshotted.                         *)

EveryoneIn(b) == \A q \in Peer : b \in joined[q]

ToPeer(q) ==
  {m \in Message : m.type = "ACTION" =>
     TablesSplit /\ m.action.cat \notin Claims(q) /\ EveryoneIn(m.action.battle)}

Posted(p) ==
  {m \in Message : m.type = "ACTION" =>
     TablesSplit /\ m.action.cat \in Claims(p) /\ EveryoneIn(m.action.battle)}

Filing(b, c) == {a \in Action : a.battle = b /\ a.cat = c}

Mailed ==
  /\ \A q \in Peer : inq[q] \in Seq(ToPeer(q))
  /\ \A c \in Client : up[c] \in Seq(Posted(c))

OnFile ==
  \A q \in Peer, b \in Node, c \in Human :
    /\ pending[q][b][c] \in Seq(Filing(b, c))
    /\ pending[q][b][c] # <<>> => TablesSplit /\ c \notin Claims(q) /\ EveryoneIn(b)

MailInv ==
  /\ Mailed
  /\ OnFile
  /\ \A p \in Peer, b \in Node : HumanActed(p, b) => TablesSplit

-------------------------------------------------------------------------------
(* Agreement.  Stays(q): q has not stopped over a copy that drifted, the   *)
(* one case in which a decision taken off the queue is not applied.        *)

Stays(q) == ~halted[q] \/ \A r \in Peer : ~drift[r]

NoneLost ==
  \A o, q \in Peer, b \in Node, c \in Human :
    o # q /\ c \in Claims(o) /\ Stays(q) =>
      Released(o, b, c) =
        Released(q, b, c) \o ActsOf(pending[q][b][c], c) \o InFlight(o, q, b, c)

OwnerAhead ==
  \A o, q \in Peer, b \in Node, c \in Human :
    c \in Claims(o) => Begins(Released(q, b, c), Released(o, b, c))

SameCourse == \A p, q \in Peer, b \in Node : Agree(Taken(p, b), Taken(q, b))

AgreeInv == NoneLost /\ OwnerAhead /\ SameCourse

-------------------------------------------------------------------------------
(* What no step undoes, of the split and of who is in a battle.            *)
LEMMA SteadyFacts ==
  ASSUME TypeInv, [Next]_vars
  PROVE  /\ \A q \in Peer : Claims(q)' = Claims(q)
         /\ TablesSplit' <=> TablesSplit
         /\ \A q \in Peer : Stays(q)' => Stays(q)
         /\ \A b : EveryoneIn(b) => EveryoneIn(b)'
BY Steady DEF Claims, TablesSplit, Stays, EveryoneIn

-------------------------------------------------------------------------------
(* The mail.                                                               *)

(* Past the barrier the tables split the cats.                             *)
LEMMA PolledSplit ==
  ASSUME TypeInv, GateInv, JoinBarrier, NEW p \in Peer, HumanPolled(p)
  PROVE  TablesSplit /\ EveryoneIn(battles[p].current) /\ battles[p].current \in Node
         /\ node[p] = battles[p].current /\ Actor(p) \in Human
<1>1. controlChecked[p] /\ phase[p] = "turn" /\ ~halted[p] /\ Actor(p) \in Human
  BY DEF HumanPolled, Polled, BarrierBlocks, BarrierDecide
<1>2. node[p] = battles[p].current /\ node[p] \in Node
  BY <1>1 DEF TypeInv, InBattle
<1>3. EveryoneIn(node[p])
  BY PolledTogether DEF EveryoneIn
<1>4. TablesSplit
  <2>1. \A c \in Human : \E o \in Peer : \A q \in Peer : c \in Claims(q) <=> q = o
    BY <1>1 DEF GateInv, SoleDriver
  <2>2. \A c \in Human, q \in Peer : c \in Claims(q) <=> table[q][c] = q
    BY DEF Claims
  <2> QED
    BY <2>1, <2>2 DEF TablesSplit
<1> QED
  BY <1>1, <1>2, <1>3, <1>4

(* With split tables, a cat one member claims is claimed by no other.      *)
LEMMA SplitOwner ==
  ASSUME TablesSplit, NEW o \in Peer, NEW q \in Peer, o # q, NEW c \in Claims(o)
  PROVE  c \notin Claims(q) /\ c \in Human
BY DEF TablesSplit, Claims

LEMMA MoveType ==
  ASSUME TypeInv, NEW p \in Peer, NEW act \in Act, HumanPolled(p)
  PROVE  /\ Move(p, act) \in Action /\ MoveOf(p, act) \in Message
         /\ MoveOf(p, act).type = "ACTION" /\ MoveOf(p, act).action = Move(p, act)
         /\ Move(p, act).battle = battles[p].current /\ Move(p, act).cat = Actor(p)
         /\ Move(p, act).act = act
<1>0. PICK a : a = Move(p, act)
  OBVIOUS
<1>1. a \in Action /\ a.battle = battles[p].current /\ a.cat = Actor(p) /\ a.act = act
  BY <1>0 DEF Move, HumanPolled, Polled, Action, TypeInv, TypeOK, InBattle
<1>2. MoveOf(p, act) = [type |-> "ACTION", from |-> p, action |-> a]
  BY <1>0 DEF MoveOf
<1> QED
  BY <1>0, <1>1, <1>2 DEF Message

LEMMA MailGrows ==
  ASSUME TypeInv, [Next]_vars, NEW p \in Peer
  PROVE  ToPeer(p) \subseteq ToPeer(p)' /\ Posted(p) \subseteq Posted(p)'
BY SteadyFacts DEF ToPeer, Posted

LEMMA ChatterPosted == \A p \in Peer : Chatter \subseteq Posted(p)' /\ Chatter \subseteq ToPeer(p)'
BY DEF Chatter, Posted, ToPeer

LEMMA MailedStep ==
  ASSUME JoinBarrier, TypeInv, GateInv, Mailed, [Next]_vars
  PROVE  Mailed'
<1>0. PICK In, Out, Said :
        /\ In = [q \in Peer |-> ToPeer(q)'] /\ Out = [c \in Client |-> Posted(c)']
        /\ Said = [p \in Peer |-> Posted(p)']
  OBVIOUS
<1>1. \A q \in Peer : inq[q] \in Seq(In[q])
  <2> SUFFICES ASSUME NEW q \in Peer PROVE inq[q] \in Seq(ToPeer(q)')
    BY <1>0
  <2>1. inq[q] \in Seq(ToPeer(q)) /\ ToPeer(q) \subseteq ToPeer(q)'
    BY MailGrows DEF Mailed
  <2> QED
    BY <2>1, SeqMonotonic
<1>2. \A c \in Client : up[c] \in Seq(Out[c])
  <2> SUFFICES ASSUME NEW c \in Client PROVE up[c] \in Seq(Posted(c)')
    BY <1>0
  <2>1. up[c] \in Seq(Posted(c)) /\ Posted(c) \subseteq Posted(c)'
    BY HostIsPeer, MailGrows DEF Mailed
  <2> QED
    BY <2>1, SeqMonotonic
<1>3. \A o, q \in Peer : o # q => Posted(o)' \subseteq ToPeer(q)'
  <2>1. TablesSplit' <=> TablesSplit
    BY SteadyFacts
  <2>2. \A o, q \in Peer : TablesSplit /\ o # q => \A c \in Claims(o) : c \notin Claims(q)
    BY SplitOwner
  <2>3. \A q \in Peer : Claims(q)' = Claims(q)
    BY SteadyFacts
  <2> QED
    BY <2>1, <2>2, <2>3 DEF Posted, ToPeer
<1>4. \A c \in Client : LinkReceive(c) => \A q \in Peer : q # c => Head(up[c]) \in In[q]
  <2> SUFFICES ASSUME NEW c \in Client, LinkReceive(c), NEW q \in Peer, q # c
               PROVE  Head(up[c]) \in ToPeer(q)'
    BY <1>0
  <2>1. Head(up[c]) \in Posted(c) /\ Posted(c) \subseteq Posted(c)'
    BY HostIsPeer, MailGrows, HeadTailProperties DEF Mailed, LinkReceive
  <2> QED
    BY <2>1, <1>3, HostIsPeer
<1>5. /\ \A q \in Client : Said[Host] \subseteq In[q]
      /\ \A c \in Client : Said[c] \subseteq Out[c]
  BY <1>0, <1>3, HostIsPeer
<1>6. \A n \in Node : HostEnterNode(n) => NodeOf(n) \in Said[Host]
  BY <1>0, HostIsPeer DEF NodeOf, Posted, Message
<1>7. ASSUME NEW p \in Peer, Boundary(p) PROVE SplitOf(p) \in Said[p] /\ HashOf(p) \in Said[p]
  <2>1. node[p] \in Node /\ battles[p].current \in Node
    BY <1>7 DEF Boundary, TakeRoster, NextTurn, TypeInv, TypeOK, InBattle
  <2>2. SplitOf(p) \in Chatter /\ HashOf(p) \in Chatter
    BY <2>1, KeyType, ChatterSaid DEF SplitOf, HashOf
  <2> QED
    BY <2>2, <1>0, ChatterPosted
<1>8. \A p \in Peer : Halt(p) \in Said[p]
  BY <1>0, ChatterSaid, ChatterPosted
<1>9. ASSUME NEW p \in Peer, NEW act \in Act, DecideLocal(p, act) PROVE MoveOf(p, act) \in Said[p]
  <2>1. HumanPolled(p) /\ Actor(p) \in Claims(p)
    BY <1>9 DEF DecideLocal
  <2>2. TablesSplit'
    BY <2>1, PolledSplit, SteadyFacts
  <2>3. \E b, k : b = battles[p].current /\ k = Actor(p) /\ EveryoneIn(b)' /\ k \in Claims(p)'
    <3>1. PICK b, k : b = battles[p].current /\ k = Actor(p)
      OBVIOUS
    <3>2. EveryoneIn(b) /\ k \in Claims(p)
      BY <2>1, <3>1, PolledSplit
    <3> QED
      BY <3>1, <3>2, SteadyFacts
  <2>4. MoveOf(p, act) \in Posted(p)'
    BY <2>1, <2>2, <2>3, MoveType DEF Posted
  <2> QED
    BY <2>4, <1>0
<1>10. \A p \in Peer :
         /\ halted'[p] /\ ~halted[p] => Halt(p) \in Said[p]
         /\ TakeRoster(p) => SplitOf(p) \in Said[p]
         /\ Boundary(p) /\ ~halted[p] => HashOf(p) \in Said[p]
         /\ \A act \in Act : DecideLocal(p, act) /\ ~outstanding[p] => MoveOf(p, act) \in Said[p]
  BY <1>7, <1>8, <1>9 DEF Boundary
<1>11. /\ \A q \in Peer : inq'[q] \in Seq(In[q])
       /\ \A c \in Client : up'[c] \in Seq(Out[c])
  BY <1>1, <1>2, <1>4, <1>5, <1>6, <1>10, LinksStep
<1> QED
  BY <1>0, <1>11 DEF Mailed

(* What happens to the decisions a peer holds for one cat of one battle.   *)
LEMMA PendingStep ==
  ASSUME TypeInv, [Next]_vars, NEW q \in Peer, NEW b \in Node, NEW c \in Human
  PROVE  \/ pending'[q][b][c] = pending[q][b][c]
         \/ TakeRoster(q) /\ Stale(q, b) /\ pending'[q][b][c] = <<>>
         \/ /\ ApplyRemote(q) /\ b = battles[q].current /\ c = Actor(q)
            /\ pending[q][b][c] # <<>> /\ pending'[q][b][c] = Tail(pending[q][b][c])
         \/ /\ PumpStep(q) /\ OnAction(q, Head(inq[q])) /\ ~Stale(q, b)
            /\ Head(inq[q]).action.battle = b /\ Head(inq[q]).action.cat = c
            /\ pending'[q][b][c] = Append(pending[q][b][c], Head(inq[q]).action)
<1> DEFINE Goal == \/ pending'[q][b][c] = pending[q][b][c]
                   \/ TakeRoster(q) /\ Stale(q, b) /\ pending'[q][b][c] = <<>>
                   \/ /\ ApplyRemote(q) /\ b = battles[q].current /\ c = Actor(q)
                      /\ pending[q][b][c] # <<>> /\ pending'[q][b][c] = Tail(pending[q][b][c])
                   \/ /\ PumpStep(q) /\ OnAction(q, Head(inq[q])) /\ ~Stale(q, b)
                      /\ Head(inq[q]).action.battle = b /\ Head(inq[q]).action.cat = c
                      /\ pending'[q][b][c] = Append(pending[q][b][c], Head(inq[q]).action)
<1>1. pending \in [Peer -> [Node -> [Human -> Seq(Action)]]]
  BY DEF TypeInv, TypeOK
<1>2. ASSUME pending' = pending PROVE Goal
  BY <1>2
<1>3. ASSUME NEW p \in Peer, TakeRoster(p) PROVE Goal
  <2>1. pending' = pending \/ pending' = [pending EXCEPT ![p] = Purged(p)]
    BY <1>3, <1>1 DEF TakeRoster
  <2>2. ASSUME pending' = [pending EXCEPT ![p] = Purged(p)] PROVE Goal
    <3>1. CASE p = q
      <4>1. pending'[q] = Purged(q)
        BY <2>2, <3>1, <1>1
      <4>2. pending'[q][b][c] = IF Stale(q, b) THEN <<>> ELSE pending[q][b][c]
        BY <4>1 DEF Purged
      <4> QED
        BY <4>2, <3>1, <1>3
    <3>2. CASE p # q
      BY <2>2, <3>2, <1>1
    <3> QED
      BY <3>1, <3>2
  <2> QED
    BY <2>1, <2>2, <1>2
<1>4. ASSUME NEW p \in Peer, ApplyRemote(p) PROVE Goal
  <2>0. PICK n, k : n = battles[p].current /\ k = Actor(p)
    OBVIOUS
  <2>1. /\ n \in Node /\ k \in Human /\ pending[p][n][k] # <<>>
        /\ pending' = [pending EXCEPT ![p][n][k] = Tail(pending[p][n][k])]
    BY <2>0, <1>4, OfferedParts DEF ApplyRemote
  <2>2. CASE p = q /\ n = b /\ k = c
    <3>1. pending'[q][b][c] = Tail(pending[q][b][c])
      BY <2>1, <2>2, <1>1
    <3> QED
      BY <2>0, <2>1, <2>2, <3>1, <1>4
  <2>3. CASE ~(p = q /\ n = b /\ k = c)
    BY <2>1, <2>3, <1>1
  <2> QED
    BY <2>2, <2>3
<1>5. ASSUME NEW p \in Peer, PumpStep(p) PROVE Goal
  <2>0. PICK m, a : m = Head(inq[p]) /\ a = m.action
    OBVIOUS
  <2>1. CASE OnAction(p, m)
    <3>1. \/ pending' = pending
          \/ /\ ~Stale(p, a.battle)
             /\ pending' = [pending EXCEPT ![p][a.battle][a.cat] = Append(pending[p][a.battle][a.cat], a)]
      BY <2>0, <2>1 DEF OnAction
    <3>2. a.battle \in Node /\ a.cat \in Human
      <4>1. m \in Message
        BY <2>0, <1>5, HeadTailProperties DEF PumpStep, TypeInv, TypeOK
      <4> QED
        BY <2>0, <2>1, <4>1, MessageParts DEF OnAction, Action
    <3>3. ASSUME ~Stale(p, a.battle),
                 pending' = [pending EXCEPT ![p][a.battle][a.cat] = Append(pending[p][a.battle][a.cat], a)]
          PROVE  Goal
      <4>1. CASE p = q /\ a.battle = b /\ a.cat = c
        <5>1. pending'[q][b][c] = Append(pending[q][b][c], a)
          BY <3>2, <3>3, <4>1, <1>1
        <5> QED
          BY <2>0, <2>1, <3>3, <4>1, <5>1, <1>5
      <4>2. CASE ~(p = q /\ a.battle = b /\ a.cat = c)
        BY <3>2, <3>3, <4>2, <1>1
      <4> QED
        BY <4>1, <4>2
    <3> QED
      BY <3>1, <3>3, <1>2
  <2>2. CASE ~OnAction(p, m)
    <3>1. pending' = pending
      BY <2>0, <2>2, <1>5 DEF PumpStep, Pump, OnEnterNode, OnControl, OnHash, OnHalt, actionVars
    <3> QED
      BY <3>1, <1>2
  <2> QED
    BY <2>1, <2>2
<1>6. ASSUME NEW n \in Node, HostEnterNode(n) PROVE pending' = pending
  BY <1>6 DEF HostEnterNode
<1>7. ASSUME NEW d \in Client, FollowNode(d) \/ LinkReceive(d) PROVE pending' = pending
  BY <1>7 DEF FollowNode, LinkReceive, actionVars
<1>8. ASSUME NEW p \in Peer, NextTurn(p) \/ DecideAI(p) \/ Apply(p) \/ Diverge(p) PROVE pending' = pending
  BY <1>8 DEF NextTurn, DecideAI, Apply, Diverge, actionVars
<1>9. ASSUME NEW p \in Peer, NEW act \in Act, DecideLocal(p, act) PROVE pending' = pending
  BY <1>9 DEF DecideLocal
<1>10. ASSUME UNCHANGED vars PROVE Goal
  BY <1>2, <1>10 DEF vars, actionVars
<1> HIDE DEF Goal
<1>11. Goal
  BY <1>2, <1>3, <1>4, <1>5, <1>6, <1>7, <1>8, <1>9, <1>10 DEF Next, Boundary, Decide
<1> QED
  BY <1>11 DEF Goal

LEMMA OnFileStep ==
  ASSUME TypeInv, MailInv, [Next]_vars
  PROVE  OnFile'
<1> SUFFICES ASSUME NEW q \in Peer, NEW b \in Node, NEW c \in Human
             PROVE  /\ pending'[q][b][c] \in Seq(Filing(b, c))
                    /\ pending'[q][b][c] # <<>> => TablesSplit' /\ c \notin Claims(q)' /\ EveryoneIn(b)'
  BY DEF OnFile
<1>0. PICK f, g : f = pending[q][b][c] /\ g = pending'[q][b][c]
  OBVIOUS
<1>1. /\ f \in Seq(Filing(b, c))
      /\ f # <<>> => TablesSplit /\ c \notin Claims(q) /\ EveryoneIn(b)
  BY <1>0 DEF MailInv, OnFile
<1>2. TablesSplit /\ c \notin Claims(q) /\ EveryoneIn(b) =>
        TablesSplit' /\ c \notin Claims(q)' /\ EveryoneIn(b)'
  BY SteadyFacts
<1>3. CASE g = f
  BY <1>0, <1>1, <1>2, <1>3
<1>4. CASE g = <<>>
  BY <1>0, <1>4, EmptyFits
<1>5. CASE f # <<>> /\ g = Tail(f)
  <2>1. Tail(f) \in Seq(Filing(b, c))
    BY <1>1, <1>5, HeadTailProperties
  <2> QED
    BY <2>1, <1>0, <1>1, <1>2, <1>5
<1>6. ASSUME PumpStep(q), OnAction(q, Head(inq[q])), Head(inq[q]).action.battle = b,
             Head(inq[q]).action.cat = c, g = Append(f, Head(inq[q]).action)
      PROVE  /\ g \in Seq(Filing(b, c))
             /\ TablesSplit /\ c \notin Claims(q) /\ EveryoneIn(b)
  <2>1. PICK m : m = Head(inq[q])
    OBVIOUS
  <2>2. m \in ToPeer(q) /\ m \in Message /\ m.type = "ACTION"
    <3>1. m \in ToPeer(q)
      BY <1>6, <2>1, HeadTailProperties DEF PumpStep, MailInv, Mailed
    <3> QED
      BY <1>6, <2>1, <3>1 DEF ToPeer, OnAction
  <2>3. m.action \in Filing(b, c)
    BY <1>6, <2>1, <2>2, MessageParts DEF Filing
  <2>4. g \in Seq(Filing(b, c))
    BY <1>1, <1>6, <2>1, <2>3, AppendFits
  <2> QED
    BY <1>6, <2>1, <2>2, <2>4 DEF ToPeer
<1> QED
  BY <1>0, <1>2, <1>3, <1>4, <1>5, <1>6, PendingStep

LEMMA ActedStep ==
  ASSUME JoinBarrier, TypeInv, GateInv, CopyInv, MailInv, [Next]_vars,
         NEW p \in Peer, NEW b \in Node, HumanActed(p, b)'
  PROVE  TablesSplit'
<1>0. TypeInv' /\ (TablesSplit => TablesSplit')
  BY TypeStep, SteadyFacts
<1>1. ASSUME Taken(p, b)' = Taken(p, b) PROVE TablesSplit'
  <2>1. HumanActed(p, b)
    <3>1. PICK r : r = Taken(p, b)
      OBVIOUS
    <3>2. Taken(p, b)' = r
      BY <1>1, <3>1
    <3>3. HumanActed(p, b)' <=> \E i \in 1 .. Len(Taken(p, b)') : Taken(p, b)'[i].cat \in Human
      BY <1>0, ActedTakenNext
    <3>4. \E i \in 1 .. Len(r) : r[i].cat \in Human
      BY <3>2, <3>3
    <3> QED
      BY <3>1, <3>4, ActedTaken
  <2> QED
    BY <2>1, <1>0 DEF MailInv
<1>2. CASE ~\E q \in Peer : Decide(q)
  BY <1>1, <1>2, TakenSame
<1>3. ASSUME NEW q \in Peer, HumanPolled(q) PROVE TablesSplit'
  BY <1>0, <1>3, PolledSplit
<1>4. ASSUME NEW q \in Peer, DecideAI(q) PROVE TablesSplit'
  <2>0. PICK d : d = [cat |-> Actor(q), act |-> EndTurn]
    OBVIOUS
  <2>1. /\ Release(q, d) /\ queued[q] = <<>> /\ d.cat \notin Human /\ d \in Decision
    BY <2>0, <1>4, ActorIsCat DEF DecideAI, Polled, Decision, Act, TypeInv
  <2>2. CASE p = q /\ b = node[q]
    <3>0. PICK r : r = Taken(p, b)
      OBVIOUS
    <3>1. Taken(p, b)' = Append(r, d) /\ r \in Seq(Decision)
      BY <3>0, <2>1, <2>2, TakenNext, TakenType DEF TypeInv
    <3>2. HumanActed(p, b)' <=> \E i \in 1 .. Len(Taken(p, b)') : Taken(p, b)'[i].cat \in Human
      BY <1>0, ActedTakenNext
    <3>3. PICK i \in 1 .. Len(Append(r, d)) : Append(r, d)[i].cat \in Human
      BY <3>1, <3>2
    <3>4. /\ Len(r) \in Nat /\ Len(Append(r, d)) = Len(r) + 1 /\ Append(r, d)[Len(r) + 1] = d
          /\ \A j \in 1 .. Len(r) : Append(r, d)[j] = r[j]
      BY <3>1, <2>1, AppendProperties, LenProperties
    <3>5. i \in 1 .. Len(r) /\ r[i].cat \in Human
      <4>1. i # Len(r) + 1
        BY <3>3, <3>4, <2>1
      <4>2. i \in 1 .. Len(r)
        BY <4>1, <3>4
      <4> QED
        BY <4>2, <3>3, <3>4
    <3>6. HumanActed(p, b)
      BY <3>0, <3>5, ActedTaken
    <3> QED
      BY <3>6, <1>0 DEF MailInv
  <2>3. CASE ~(p = q /\ b = node[q])
    BY <2>1, <2>3, <1>1, TakenNext
  <2> QED
    BY <2>2, <2>3
<1>5. ASSUME NEW q \in Peer, Decide(q) PROVE TablesSplit'
  BY <1>3, <1>4, <1>5 DEF Decide, DecideLocal, ApplyRemote
<1> QED
  BY <1>2, <1>5

LEMMA MailStep ==
  ASSUME JoinBarrier, TypeInv, GateInv, CopyInv, MailInv, [Next]_vars
  PROVE  MailInv'
<1>1. Mailed'
  BY MailedStep DEF MailInv
<1>2. OnFile'
  BY OnFileStep
<1>3. \A p \in Peer, b \in Node : HumanActed(p, b)' => TablesSplit'
  BY ActedStep
<1> QED
  BY <1>1, <1>2, <1>3 DEF MailInv

-------------------------------------------------------------------------------
(* What is in flight.                                                      *)

LEMMA ChatterTells ==
  ASSUME NEW ms \in Seq(Chatter), NEW b, NEW c
  PROVE  ms \in Seq(Message) /\ Carried(ms, b, c) = <<>>
<1>1. \A i \in 1 .. Len(ms) : ~Tells(ms[i], b, c)
  BY ElementOfSeq DEF Chatter, Tells
<1>2. ms \in Seq(Message)
  <2>1. Chatter \subseteq Message
    BY DEF Chatter
  <2> QED
    BY <2>1, SeqMonotonic
<1> QED
  BY <1>1, <1>2, CarriedOfOthers

LEMMA CarriedRest ==
  ASSUME NEW s \in Seq(Message), NEW ms \in Seq(Message), NEW b, NEW c
  PROVE  Carried(ms, b, c) = <<>> => Carried(s \o ms, b, c) = Carried(s, b, c)
<1>1. Carried(s \o ms, b, c) = Carried(s, b, c) \o Carried(ms, b, c)
  BY CarriedInARow
<1>2. Carried(s, b, c) \in Seq(Act)
  BY CarriedTyped
<1>3. Carried(s, b, c) \o <<>> = Carried(s, b, c)
  BY <1>2, ConcatEmptySeq
<1> QED
  BY <1>1, <1>3

(* Messages that say nothing of a cat leave what is in flight for it alone.*)
LEMMA CarriedSent ==
  ASSUME TypeInv, NEW p \in Peer, NEW box, NEW ms \in Seq(Message), Transmit(p, box, ms),
         \A q \in Peer : box[q] \in Seq(Message),
         NEW b, NEW c, Carried(ms, b, c) = <<>>
  PROVE  /\ \A q \in Peer : Carried(inq'[q], b, c) = Carried(box[q], b, c)
         /\ \A o \in Client : Carried(up'[o], b, c) = Carried(up[o], b, c)
<1>1. ASSUME NEW s \in Seq(Message) PROVE Carried(s \o ms, b, c) = Carried(s, b, c)
  BY CarriedRest
<1>2. \A q \in Peer : inq'[q] = box[q] \/ inq'[q] = box[q] \o ms
  BY DEF Transmit
<1>3. \A o \in Client : up'[o] = up[o] \/ up'[o] = up[o] \o ms
  BY DEF Transmit, TypeInv, TypeOK
<1>4. \A o \in Client : up[o] \in Seq(Message)
  BY DEF TypeInv, TypeOK
<1> QED
  BY <1>1, <1>2, <1>3, <1>4

(* No step but a decision of one's own, a relay and the filing of a remote *)
(* decision touches a decision in flight.                                  *)
LEMMA FlightRests ==
  ASSUME TypeInv, [Next]_vars, NEW b, NEW c,
         ~\E d \in Client : LinkReceive(d),
         ~\E p \in Peer : PumpStep(p) /\ OnAction(p, Head(inq[p])),
         ~\E p \in Peer, act \in Act : DecideLocal(p, act)
  PROVE  /\ \A q \in Peer : Carried(inq'[q], b, c) = Carried(inq[q], b, c)
         /\ \A o \in Client : Carried(up'[o], b, c) = Carried(up[o], b, c)
<1> DEFINE Rests == /\ \A q \in Peer : Carried(inq'[q], b, c) = Carried(inq[q], b, c)
                    /\ \A o \in Client : Carried(up'[o], b, c) = Carried(up[o], b, c)
<1>1. \A q \in Peer : inq[q] \in Seq(Message)
  BY DEF TypeInv, TypeOK
<1>2. ASSUME UNCHANGED netVars PROVE Rests
  BY <1>2 DEF netVars
<1>3. ASSUME NEW p \in Peer, NEW ms \in Seq(Chatter), Transmit(p, inq, ms) PROVE Rests
  BY <1>1, <1>3, ChatterTells, CarriedSent
<1> HIDE DEF Rests
<1>4. ASSUME NEW n \in Node, HostEnterNode(n) PROVE Rests
  <2>0. PICK m : m = NodeOf(n)
    OBVIOUS
  <2>1. m \in Message /\ m.type = "ENTERNODE"
    BY <2>0, HostIsPeer DEF NodeOf, Message
  <2>2. <<m>> \in Seq(Message) /\ Carried(<<m>>, b, c) = <<>>
    BY <2>1, OneFits, CarriedOfOne DEF Told, Tells
  <2>3. Transmit(Host, inq, <<m>>)
    BY <2>0, <1>4 DEF HostEnterNode, NodeOf
  <2>4. PICK ms : ms = <<m>>
    OBVIOUS
  <2>5. ms \in Seq(Message) /\ Carried(ms, b, c) = <<>> /\ Transmit(Host, inq, ms)
    BY <2>2, <2>3, <2>4
  <2> QED
    BY <1>1, <2>5, HostIsPeer, CarriedSent DEF Rests
<1>5. ASSUME NEW p \in Peer, PumpStep(p), ~OnAction(p, Head(inq[p])) PROVE Rests
  <2>0. PICK m : m = Head(inq[p])
    OBVIOUS
  <2>1. inq[p] # <<>> /\ m.type # "ACTION"
    BY <1>5, <2>0 DEF PumpStep, Pump, OnEnterNode, OnControl, OnHash, OnHalt
  <2>2. PICK ms \in Seq(Chatter) : Transmit(p, Rest(p), ms)
    BY <1>5, PumpSays, ChatterSaid
  <2>3. ASSUME NEW q \in Peer
        PROVE  Rest(p)[q] \in Seq(Message) /\ Carried(Rest(p)[q], b, c) = Carried(inq[q], b, c)
    <3>1. Rest(p)[q] = IF q = p THEN Tail(inq[p]) ELSE inq[q]
      BY DEF Rest, TypeInv, TypeOK
    <3>2. Tail(inq[p]) \in Seq(Message)
      BY <2>1, <1>1, HeadTailProperties
    <3>3. Carried(inq[p], b, c) = Carried(Tail(inq[p]), b, c)
      <4>0. PICK t : t = Carried(Tail(inq[p]), b, c)
        OBVIOUS
      <4>1. Carried(inq[p], b, c) = Told(m, b, c) \o t
        BY <4>0, <2>0, <2>1, <1>1, CarriedFirst
      <4>2. Told(m, b, c) = <<>>
        BY <2>1 DEF Told, Tells
      <4>3. t \in Seq(Act)
        BY <4>0, <3>2, CarriedTyped
      <4>4. <<>> \o t = t
        BY <4>3, ConcatEmptySeq
      <4> QED
        BY <4>0, <4>1, <4>2, <4>4
    <3> QED
      BY <3>1, <3>2, <3>3, <1>1
  <2>4. ms \in Seq(Message) /\ Carried(ms, b, c) = <<>>
    BY ChatterTells
  <2>5. /\ \A q \in Peer : Carried(inq'[q], b, c) = Carried(Rest(p)[q], b, c)
        /\ \A o \in Client : Carried(up'[o], b, c) = Carried(up[o], b, c)
    BY <2>2, <2>3, <2>4, CarriedSent
  <2> QED
    BY <2>3, <2>5 DEF Rests
<1>6. ASSUME NEW p \in Peer, Boundary(p) PROVE Rests
  BY <1>3, <1>6, BoundarySays
<1>7. ASSUME NEW p \in Peer, ApplyRemote(p) PROVE Rests
  <2>1. UNCHANGED netVars \/ Transmit(p, inq, HaltIf(p, TRUE))
    BY <1>7 DEF ApplyRemote
  <2>2. HaltIf(p, TRUE) \in Seq(Chatter)
    BY ChatterSaid, HaltIn
  <2> QED
    BY <2>1, <2>2, <1>2, <1>3
<1>8. ASSUME NEW p \in Peer, DecideAI(p) \/ Apply(p) \/ Diverge(p) PROVE Rests
  BY <1>2, <1>8 DEF DecideAI, Apply, Diverge
<1>9. ASSUME NEW d \in Client, FollowNode(d) PROVE Rests
  BY <1>2, <1>9 DEF FollowNode
<1>10. ASSUME UNCHANGED vars PROVE Rests
  BY <1>2, <1>10 DEF vars
<1>11. Rests
  BY <1>4, <1>5, <1>6, <1>7, <1>8, <1>9, <1>10 DEF Next, Decide
<1> QED
  BY <1>11 DEF Rests

LEMMA ToldTyped ==
  ASSUME NEW m \in Message, NEW b, NEW c
  PROVE  Told(m, b, c) \in Seq(Act)
<1>1. Tells(m, b, c) => m.action.act \in Act
  BY MessageParts DEF Tells, Action
<1> QED
  BY <1>1, OneFits, EmptyFits DEF Told

LEMMA CarriedOneMore ==
  ASSUME NEW s \in Seq(Message), NEW m \in Message, NEW b, NEW c
  PROVE  /\ Carried(s \o <<m>>, b, c) = Carried(s, b, c) \o Told(m, b, c)
         /\ Carried(Append(s, m), b, c) = Carried(s, b, c) \o Told(m, b, c)
<1>0. PICK t : t = <<m>>
  OBVIOUS
<1>1. t \in Seq(Message) /\ Carried(t, b, c) = Told(m, b, c)
  BY <1>0, OneFits, CarriedOfOne
<1>2. Carried(s \o t, b, c) = Carried(s, b, c) \o Carried(t, b, c)
  BY <1>1, CarriedInARow
<1>3. Append(s, m) = s \o t
  BY <1>0, AppendIsConcat
<1> QED
  BY <1>0, <1>1, <1>2, <1>3

(* A message says nothing of the cats of others than its sender.           *)
LEMMA PostedTells ==
  ASSUME NEW p \in Peer, NEW o \in Peer, o # p, NEW m \in Posted(p), NEW b, NEW c \in Claims(o)
  PROVE  Told(m, b, c) = <<>>
BY SplitOwner DEF Posted, Tells, Told

LEMMA FlightTyped ==
  ASSUME TypeInv, NEW o \in Peer, NEW q \in Peer, NEW b, NEW c
  PROVE  /\ Carried(inq[q], b, c) \in Seq(Act)
         /\ o # Host => Carried(up[o], b, c) \in Seq(Act)
         /\ InFlight(o, q, b, c) \in Seq(Act)
<1>1. inq[q] \in Seq(Message) /\ (o # Host => up[o] \in Seq(Message))
  BY DEF TypeInv, TypeOK, Peer
<1>2. Carried(inq[q], b, c) \in Seq(Act) /\ (o # Host => Carried(up[o], b, c) \in Seq(Act))
  BY <1>1, CarriedTyped
<1>3. (IF o = Host THEN <<>> ELSE Carried(up[o], b, c)) \in Seq(Act)
  BY <1>2, EmptyFits
<1> QED
  BY <1>2, <1>3, ConcatProperties DEF InFlight

(* The host's link thread moves a decision on its way, and loses none.     *)
LEMMA FlightRelayed ==
  ASSUME TypeInv, Mailed, NEW d \in Client, LinkReceive(d),
         NEW o \in Peer, NEW q \in Peer, o # q, NEW b, NEW c \in Claims(o)
  PROVE  InFlight(o, q, b, c)' = InFlight(o, q, b, c)
<1>0. PICK m, x, y, z : /\ m = Head(up[d]) /\ x = Carried(inq[q], b, c)
                        /\ y = Told(m, b, c) /\ z = Carried(Tail(up[d]), b, c)
  OBVIOUS
<1>1. up[d] # <<>> /\ up[d] \in Seq(Message) /\ inq[q] \in Seq(Message) /\ d \in Peer /\ d # Host
  BY HostIsPeer DEF LinkReceive, TypeInv, TypeOK
<1>2. m \in Posted(d) /\ m \in Message /\ Tail(up[d]) \in Seq(Message)
  <2>1. m \in Posted(d)
    BY <1>0, <1>1, HeadTailProperties DEF Mailed
  <2> QED
    BY <2>1, <1>1, HeadTailProperties DEF Posted
<1>3. x \in Seq(Act) /\ y \in Seq(Act) /\ z \in Seq(Act)
  BY <1>0, <1>1, <1>2, CarriedTyped, ToldTyped
<1>4. Carried(up[d], b, c) = y \o z
  BY <1>0, <1>1, CarriedFirst
<1>5. \/ inq'[q] = Append(inq[q], m)
      \/ inq'[q] = inq[q] /\ (q = d \/ m.type # "ACTION")
  BY <1>0, <1>1 DEF LinkReceive, Relayed
<1>6. Carried(Append(inq[q], m), b, c) = x \o y
  <2>0. PICK s \in Seq(Message) : s = inq[q]
    BY <1>1
  <2>1. Carried(Append(s, m), b, c) = Carried(s, b, c) \o Told(m, b, c)
    BY <1>2, CarriedOneMore
  <2> QED
    BY <2>0, <2>1, <1>0
<1>7. up'[d] = Tail(up[d]) /\ \A e \in Client : e # d => up'[e] = up[e]
  BY DEF LinkReceive, TypeInv, TypeOK
<1>8. CASE o = d
  <2>1. Carried(inq'[q], b, c) = x \o y
    <3>1. CASE inq'[q] = Append(inq[q], m)
      BY <3>1, <1>6
    <3>2. CASE inq'[q] = inq[q] /\ m.type # "ACTION"
      <4>1. y = <<>>
        BY <3>2, <1>0 DEF Told, Tells
      <4>2. x \o <<>> = x
        BY <1>3, ConcatEmptySeq
      <4> QED
        BY <3>2, <4>1, <4>2, <1>0
    <3> QED
      BY <3>1, <3>2, <1>5, <1>8
  <2>2. (x \o y) \o z = x \o (y \o z)
    BY <1>3, ConcatAssociative
  <2>3. InFlight(o, q, b, c) = x \o (y \o z)
    BY <1>0, <1>1, <1>4, <1>8 DEF InFlight
  <2>4. InFlight(o, q, b, c)' = (x \o y) \o z
    BY <2>1, <1>0, <1>1, <1>7, <1>8 DEF InFlight
  <2> QED
    BY <2>2, <2>3, <2>4
<1>9. CASE o # d
  <2>1. y = <<>>
    BY <1>0, <1>1, <1>2, <1>9, PostedTells
  <2>2. Carried(inq'[q], b, c) = x
    <3>1. x \o <<>> = x
      BY <1>3, ConcatEmptySeq
    <3> QED
      BY <2>1, <3>1, <1>0, <1>5, <1>6
  <2>3. o # Host => up'[o] = up[o]
    BY <1>7, <1>9 DEF Peer
  <2> QED
    BY <2>2, <2>3, <1>0 DEF InFlight
<1> QED
  BY <1>8, <1>9

(* Filing a message takes it off what is in flight to the filing peer.     *)
LEMMA FlightFiled ==
  ASSUME TypeInv, NEW p \in Peer, NEW m, Polls(p, m), OnAction(p, m),
         NEW o \in Peer, NEW q \in Peer, NEW b, NEW c
  PROVE  /\ q # p => InFlight(o, q, b, c)' = InFlight(o, q, b, c)
         /\ q = p => InFlight(o, q, b, c) = Told(m, b, c) \o InFlight(o, q, b, c)'
<1>1. inq[p] \in Seq(Message) /\ inq[p] # <<>> /\ m = Head(inq[p])
  BY DEF Polls, TypeInv, TypeOK
<1>2. /\ inq'[p] = Tail(inq[p]) /\ \A r \in Peer : r # p => inq'[r] = inq[r]
      /\ \A e \in Client : up'[e] = up[e]
  <2>1. Transmit(p, Rest(p), <<>>)
    BY DEF OnAction
  <2>2. \A r \in Peer : Rest(p)[r] = IF r = p THEN Tail(inq[p]) ELSE inq[r]
    BY DEF Rest, TypeInv, TypeOK
  <2>3. /\ \A r \in Peer : inq'[r] = IF p = Host /\ r # Host THEN Rest(p)[r] \o <<>> ELSE Rest(p)[r]
        /\ \A e \in Client : up'[e] = IF p = e THEN up[e] \o <<>> ELSE up[e]
    BY <2>1, HostIsPeer DEF Transmit, TypeInv, TypeOK
  <2>4. \A s \in Seq(Message) : s \o <<>> = s
    BY ConcatEmptySeq
  <2>5. Tail(inq[p]) \in Seq(Message) /\ (\A r \in Peer : inq[r] \in Seq(Message))
        /\ \A e \in Client : up[e] \in Seq(Message)
    BY <1>1, HeadTailProperties DEF TypeInv, TypeOK
  <2> QED
    BY <2>2, <2>3, <2>4, <2>5
<1>3. o # Host => up'[o] = up[o]
  BY <1>2 DEF Peer
<1>4. CASE q # p
  BY <1>2, <1>3, <1>4 DEF InFlight
<1>5. CASE q = p
  <2>0. PICK y, t, z : /\ y = Told(m, b, c) /\ t = Carried(Tail(inq[p]), b, c)
                       /\ z = IF o = Host THEN <<>> ELSE Carried(up[o], b, c)
    OBVIOUS
  <2>1. Carried(inq[p], b, c) = y \o t
    BY <2>0, <1>1, CarriedFirst
  <2>2. y \in Seq(Act) /\ t \in Seq(Act) /\ z \in Seq(Act)
    <3>1. m \in Message /\ Tail(inq[p]) \in Seq(Message)
      BY <1>1, HeadTailProperties
    <3>2. o # Host => Carried(up[o], b, c) \in Seq(Act)
      BY FlightTyped
    <3> QED
      BY <2>0, <3>1, <3>2, ToldTyped, CarriedTyped, EmptyFits
  <2>3. (y \o t) \o z = y \o (t \o z)
    BY <2>2, ConcatAssociative
  <2>4. InFlight(o, q, b, c) = (y \o t) \o z
    BY <2>0, <2>1, <1>5 DEF InFlight
  <2>5. InFlight(o, q, b, c)' = t \o z
    BY <2>0, <1>2, <1>3, <1>5 DEF InFlight
  <2> QED
    BY <2>0, <2>3, <2>4, <2>5, <1>5
<1> QED
  BY <1>4, <1>5

(* Publishing a decision puts it last of what is in flight from its owner. *)
LEMMA FlightSaid ==
  ASSUME TypeInv, NEW p \in Peer, NEW m \in Posted(p), Transmit(p, inq, <<m>>),
         NEW o \in Peer, NEW q \in Peer, o # q, NEW b, NEW c \in Claims(o)
  PROVE  /\ o # p => InFlight(o, q, b, c)' = InFlight(o, q, b, c)
         /\ o = p => InFlight(o, q, b, c)' = InFlight(o, q, b, c) \o Told(m, b, c)
<1>0. PICK x, y : x = Carried(inq[q], b, c) /\ y = Told(m, b, c)
  OBVIOUS
<1>1. m \in Message /\ inq[q] \in Seq(Message) /\ (o # Host => o \in Client /\ up[o] \in Seq(Message))
  BY DEF Posted, TypeInv, TypeOK, Peer
<1>2. x \in Seq(Act) /\ y \in Seq(Act) /\ x \o <<>> = x
  <2>1. x \in Seq(Act) /\ y \in Seq(Act)
    BY <1>0, <1>1, CarriedTyped, ToldTyped
  <2> QED
    BY <2>1, ConcatEmptySeq
<1>3. /\ inq'[q] = IF p = Host /\ q # Host THEN inq[q] \o <<m>> ELSE inq[q]
      /\ o # Host => up'[o] = IF p = o THEN up[o] \o <<m>> ELSE up[o]
  <2>1. inq'[q] = IF p = Host /\ q # Host THEN inq[q] \o <<m>> ELSE inq[q]
    BY DEF Transmit
  <2>2. o # Host => up'[o] = IF p = o THEN up[o] \o <<m>> ELSE up[o]
    BY <1>1 DEF Transmit, TypeInv, TypeOK
  <2> QED
    BY <2>1, <2>2
<1>4. Carried(inq[q] \o <<m>>, b, c) = x \o y
  BY <1>0, <1>1, CarriedOneMore
<1>5. CASE o # p
  <2>1. y = <<>>
    BY <1>0, <1>5, PostedTells
  <2>2. Carried(inq'[q], b, c) = x
    BY <2>1, <1>0, <1>2, <1>3, <1>4
  <2> QED
    BY <2>2, <1>0, <1>3, <1>5 DEF InFlight
<1>6. CASE o = p /\ p = Host
  <2>1. InFlight(o, q, b, c)' = (x \o y) \o <<>>
    BY <1>3, <1>4, <1>6 DEF InFlight
  <2>2. InFlight(o, q, b, c) = x \o <<>>
    BY <1>0, <1>6 DEF InFlight
  <2>3. x \o y \in Seq(Act)
    BY <1>2, ConcatProperties
  <2>4. (x \o y) \o <<>> = x \o y
    BY <2>3, ConcatEmptySeq
  <2> QED
    BY <2>1, <2>2, <2>4, <1>0, <1>2, <1>6
<1>7. CASE o = p /\ p # Host
  <2>0. PICK z : z = Carried(up[o], b, c)
    OBVIOUS
  <2>1. Carried(up'[o], b, c) = z \o y /\ z \in Seq(Act)
    <3>0. PICK s \in Seq(Message) : s = up[o]
      BY <1>1, <1>7
    <3>1. Carried(s \o <<m>>, b, c) = Carried(s, b, c) \o Told(m, b, c)
      <4>1. m \in Message
        BY <1>1
      <4> QED
        BY <4>1, CarriedOneMore
    <3>2. Carried(s, b, c) \in Seq(Act)
      BY CarriedTyped
    <3>3. up'[o] = s \o <<m>>
      BY <3>0, <1>3, <1>7
    <3> QED
      BY <3>0, <3>1, <3>2, <3>3, <2>0, <1>0
  <2>2. InFlight(o, q, b, c)' = x \o (z \o y)
    BY <2>1, <1>0, <1>3, <1>7 DEF InFlight
  <2>3. InFlight(o, q, b, c) = x \o z
    BY <2>0, <1>0, <1>7 DEF InFlight
  <2>4. (x \o z) \o y = x \o (z \o y)
    BY <2>1, <1>2, ConcatAssociative
  <2> QED
    BY <2>2, <2>3, <2>4, <1>0, <1>7
<1> QED
  BY <1>5, <1>6, <1>7

LEMMA OwnFlight ==
  ASSUME TypeInv, NEW p \in Peer, NEW m \in Posted(p), Transmit(p, inq, <<m>>),
         NEW q \in Peer, p # q, NEW b, NEW c \in Claims(p)
  PROVE  InFlight(p, q, b, c)' = InFlight(p, q, b, c) \o Told(m, b, c)
BY FlightSaid

-------------------------------------------------------------------------------
(* Agreement.                                                              *)

LEMMA ReleasedTyped ==
  ASSUME TypeInv, NEW q \in Peer, NEW b \in Node, NEW c
  PROVE  /\ Released(q, b, c) \in Seq(Act)
         /\ c \in Human => ActsOf(pending[q][b][c], c) \in Seq(Act)
<1>1. Taken(q, b) \in Seq(Decision)
  BY TakenType DEF TypeInv
<1>2. c \in Human => pending[q][b][c] \in Seq(Action)
  BY DEF TypeInv, TypeOK
<1> QED
  BY <1>1, <1>2, Decisions, ActsTyped DEF Released

LEMMA NothingBetween ==
  ASSUME NEW S, NEW s \in Seq(S), NEW t \in Seq(S), NEW u \in Seq(S), NEW v \in Seq(S),
         s = (t \o u) \o v, Len(s) <= Len(t)
  PROVE  u = <<>> /\ v = <<>>
<1>1. t \o u \in Seq(S) /\ Len(t \o u) = Len(t) + Len(u)
  BY ConcatProperties
<1>2. Len(s) = Len(t \o u) + Len(v)
  BY <1>1, ConcatProperties
<1>3. Len(s) \in Nat /\ Len(t) \in Nat /\ Len(u) \in Nat /\ Len(v) \in Nat
  BY LenProperties
<1>4. Len(u) = 0 /\ Len(v) = 0
  BY <1>1, <1>2, <1>3
<1> QED
  BY <1>4, EmptySeq

(* A copy that has finished a battle has nothing more coming for it: nobody*)
(* can be further in it.                                                   *)
LEMMA NoneLate ==
  ASSUME TypeInv, CopyInv, AgreeInv, NEW o \in Peer, NEW q \in Peer, o # q,
         NEW b \in Node, NEW c \in Human, c \in Claims(o), Stays(q), Stale(q, b)
  PROVE  ActsOf(pending[q][b][c], c) = <<>> /\ InFlight(o, q, b, c) = <<>>
<1>0. PICK r, s, x, y : /\ r = Taken(o, b) /\ s = Taken(q, b)
                        /\ x = ActsOf(pending[q][b][c], c) /\ y = InFlight(o, q, b, c)
  OBVIOUS
<1>1. /\ r \in Seq(Decision) /\ s \in Seq(Decision) /\ x \in Seq(Act) /\ y \in Seq(Act)
      /\ ActsOf(r, c) \in Seq(Act) /\ ActsOf(s, c) \in Seq(Act)
  BY <1>0, TakenType, ReleasedTyped, FlightTyped DEF TypeInv, Released
<1>2. ActsOf(r, c) = (ActsOf(s, c) \o x) \o y
  BY <1>0 DEF AgreeInv, NoneLost, Released
<1>3. Len(ActsOf(r, c)) <= Len(ActsOf(s, c))
  <2>1. CASE r = <<>>
    <3>1. Len(ActsOf(r, c)) = 0
      BY <2>1, ActsNone, EmptySeq
    <3> QED
      BY <3>1, <1>1, LenProperties
  <2>2. CASE r # <<>>
    <3>1. b \in Combat
      <4>1. CASE hist[o][b] # <<>>
        BY <4>1 DEF CopyInv, Copy, Placed
      <4>2. CASE hist[o][b] = <<>>
        <5>1. node[o] = b
          BY <4>2, <2>2, <1>0, TakenIdle DEF TypeInv
        <5> QED
          BY <5>1, NoneIsNoNode DEF CopyInv, Copy, Placed
      <4> QED
        BY <4>1, <4>2
    <3>2. Finished(q, b)
      BY <3>1 DEF CopyInv, Copy, Behind
    <3>3. s = hist[q][b]
      <4>1. ASSUME node[q] = b, queued[q] # <<>> PROVE FALSE
        <5>1. Over(q, b) = clock[q] - 1 /\ clock[q] \in 1 .. LastTurn
          BY <4>1 DEF CopyInv, Copy, Paced, TypeInv, InBattle
        <5> QED
          BY <5>1, <3>2, LastTurnType DEF Finished
      <4> QED
        BY <4>1, <1>0, TakenIdle DEF TypeInv
    <3>4. Ends(s, Len(s)) = LastTurn
      BY <3>2, <3>3 DEF Finished, Over
    <3>5. Agree(r, s) /\ Seated(r) /\ Len(r) \in Nat /\ Len(s) \in Nat
      BY <1>0, <1>1, LenProperties DEF AgreeInv, SameCourse, CopyInv, Copy
    <3>6. Len(r) <= Len(s)
      <4>1. ASSUME Len(s) < Len(r) PROVE FALSE
        <5>1. Len(s) + 1 \in 1 .. Len(r) /\ (Len(s) + 1) - 1 = Len(s)
          BY <4>1, <3>5
        <5>2. Ends(r, Len(s)) < LastTurn
          BY <5>1, <3>5 DEF Seated
        <5>3. \A j \in 1 .. Len(s) : s[j] = r[j]
          BY <3>5, <4>1, <1>1, LenProperties DEF Agree
        <5>4. Ends(s, Len(s)) = Ends(r, Len(s))
          BY <5>3, <3>5, EndsSame
        <5> QED
          BY <5>2, <5>4, <3>4, LastTurnType
      <4> QED
        BY <4>1, <3>5
    <3>7. Begins(r, s)
      BY <3>5, <3>6, <1>1, AgreeBegins DEF Agree
    <3> QED
      BY <3>7, <1>1, Decisions, BeginsActs DEF Begins
  <2> QED
    BY <2>1, <2>2
<1>4. x = <<>> /\ y = <<>>
  BY <1>1, <1>2, <1>3, NothingBetween
<1> QED
  BY <1>0, <1>4

(* A copy about to decide, and another that is further in its battle: the  *)
(* next decision there is of the cat whose turn it is here.                *)
LEMMA NextThere ==
  ASSUME TypeInv, CopyInv, SameCourse, NEW p \in Peer, phase[p] = "turn", queued[p] = <<>>,
         NEW q \in Peer, NEW k, k = Len(Taken(p, node[p])) + 1, k \in 1 .. Len(Taken(q, node[p]))
  PROVE  /\ Begins(Taken(p, node[p]), Taken(q, node[p]))
         /\ Taken(q, node[p])[k] \in Decision /\ Taken(q, node[p])[k].cat = Actor(p)
         /\ Actor(p) \notin Human => Taken(q, node[p])[k].act = EndTurn
<1>0. PICK b, r, s : b = node[p] /\ r = Taken(q, b) /\ s = Taken(p, b)
  OBVIOUS
<1>1. b \in Node
  BY <1>0 DEF TypeInv, InBattle
<1>2. /\ r \in Seq(Decision) /\ s \in Seq(Decision) /\ Len(r) \in Nat /\ Len(s) \in Nat
      /\ Agree(s, r) /\ Agree(r, s) /\ Seated(r) /\ k = Len(s) + 1 /\ k \in 1 .. Len(r) /\ k - 1 = Len(s)
  <2>1. r \in Seq(Decision) /\ s \in Seq(Decision)
    BY <1>0, <1>1, TakenType DEF TypeInv
  <2>2. Agree(s, r) /\ Agree(r, s) /\ Seated(r)
    BY <1>0, <1>1 DEF SameCourse, CopyInv, Copy
  <2> QED
    BY <2>1, <2>2, <1>0, LenProperties
<1>3. Begins(s, r)
  BY <1>2, AgreeBegins
<1>4. Ends(r, k - 1) = Ends(s, Len(s))
  <2>1. \A j \in 1 .. Len(s) : r[j] = s[j]
    BY <1>3 DEF Begins
  <2> QED
    BY <2>1, <1>2, EndsSame
<1>5. Ends(s, Len(s)) = clock[p] - 1
  <2>1. s = hist[p][b]
    BY <1>0, <1>1, TakenIdle DEF TypeInv
  <2> QED
    BY <2>1, <1>0 DEF CopyInv, Copy, Paced, Over
<1>6. r[k].cat = Seat(clock[p] - 1) /\ (r[k].cat \notin Human => r[k].act = EndTurn)
  BY <1>2, <1>4, <1>5 DEF Seated
<1>7. r[k] \in Decision
  BY <1>2, ElementOfSeq
<1> QED
  BY <1>0, <1>3, <1>6, <1>7 DEF Actor, Seat

(* A decision taken off the queue is the one its cat's owner has taken at  *)
(* this very place.                                                        *)
LEMMA OwnerNext ==
  ASSUME TypeInv, CopyInv, MailInv, AgreeInv, NEW p \in Peer, HumanPolled(p), Offered(p) # <<>>
  PROVE  \E o \in Peer :
           /\ o # p /\ Actor(p) \in Claims(o)
           /\ Begins(Taken(p, node[p]), Taken(o, node[p]))
           /\ Len(Taken(p, node[p])) + 1 \in 1 .. Len(Taken(o, node[p]))
           /\ Taken(o, node[p])[Len(Taken(p, node[p])) + 1] =
                [cat |-> Actor(p), act |-> Head(Offered(p)).act]
<1>0. PICK b, c, f, s : /\ b = node[p] /\ c = Actor(p) /\ f = pending[p][b][c]
                        /\ s = Taken(p, b)
  OBVIOUS
<1>1. /\ phase[p] = "turn" /\ queued[p] = <<>> /\ ~halted[p] /\ c \in Human
      /\ b \in Node /\ b = battles[p].current
  BY <1>0 DEF HumanPolled, Polled, TypeInv, InBattle
<1>2. f = Offered(p) /\ f # <<>> /\ f \in Seq(Action) /\ f \in Seq(Filing(b, c))
      /\ TablesSplit /\ c \notin Claims(p)
  BY <1>0, <1>1 DEF Offered, MailInv, OnFile, TypeInv, TypeOK
<1>3. PICK o \in Peer : c \in Claims(o) /\ o # p
  <2>1. PICK o \in Peer : table[o][c] = o
    BY <1>1, <1>2 DEF TablesSplit
  <2> QED
    BY <2>1, <1>1, <1>2 DEF Claims
<1>4. PICK r, a, x, y : /\ r = Taken(o, b) /\ a = Head(f).act
                        /\ x = ActsOf(Tail(f), c) /\ y = InFlight(o, p, b, c)
  OBVIOUS
<1>5. /\ r \in Seq(Decision) /\ s \in Seq(Decision)
      /\ ActsOf(r, c) \in Seq(Act) /\ ActsOf(s, c) \in Seq(Act)
  BY <1>0, <1>1, <1>4, TakenType, ReleasedTyped DEF TypeInv, Released
<1>6. ActsOf(f, c) = <<a>> \o x /\ x \in Seq(Act) /\ a \in Act
  <2>1. Head(f) \in Filing(b, c) /\ Head(f) \in Action /\ Tail(f) \in Seq(Action)
    BY <1>2, FirstAndRest
  <2>2. Does(Head(f), c) = <<a>>
    BY <2>1, <1>4 DEF Does, Filing
  <2> QED
    BY <2>1, <2>2, <1>2, <1>4, Decisions, ActsFirst, ActsTyped DEF Decisive
<1>7. ActsOf(r, c) = (ActsOf(s, c) \o (<<a>> \o x)) \o y /\ y \in Seq(Act)
  <2>1. Stays(p)
    BY <1>1 DEF Stays
  <2>2. ActsOf(r, c) = (ActsOf(s, c) \o ActsOf(f, c)) \o y
    BY <2>1, <1>0, <1>1, <1>3, <1>4 DEF AgreeInv, NoneLost, Released
  <2> QED
    BY <2>2, <1>1, <1>4, <1>6, FlightTyped
<1>8. Len(ActsOf(r, c)) > Len(ActsOf(s, c)) /\ ActsOf(r, c)[Len(ActsOf(s, c)) + 1] = a
  <2> DEFINE t == ActsOf(s, c)
             u == <<a>> \o x
  <2>1. u \in Seq(Act) /\ Len(u) = 1 + Len(x) /\ u[1] = a /\ Len(x) \in Nat
    <3>1. <<a>> \in Seq(Act) /\ Len(<<a>>) = 1 /\ <<a>>[1] = a
      BY <1>6
    <3> QED
      BY <3>1, <1>6, ConcatProperties, LenProperties
  <2>2. t \in Seq(Act) /\ Len(t) \in Nat
    BY <1>5, LenProperties
  <2> HIDE DEF t, u
  <2>3. /\ t \o u \in Seq(Act) /\ Len(t \o u) = Len(t) + Len(u)
        /\ (t \o u)[Len(t) + 1] = u[1]
    <3>1. /\ t \o u \in Seq(Act) /\ Len(t \o u) = Len(t) + Len(u)
          /\ \A i \in 1 .. Len(t) + Len(u) :
               (t \o u)[i] = IF i <= Len(t) THEN t[i] ELSE u[i - Len(t)]
      <4>1. t \in Seq(Act) /\ u \in Seq(Act)
        BY <2>1, <2>2
      <4> QED
        BY <4>1, ConcatProperties
    <3>2. Len(t) + 1 \in 1 .. Len(t) + Len(u) /\ ~(Len(t) + 1 <= Len(t)) /\ (Len(t) + 1) - Len(t) = 1
      BY <2>1, <2>2
    <3> QED
      BY <3>1, <3>2
  <2>4. /\ Len((t \o u) \o y) = Len(t \o u) + Len(y) /\ Len(y) \in Nat
        /\ \A i \in 1 .. Len(t \o u) : ((t \o u) \o y)[i] = (t \o u)[i]
    <3>1. \A i \in 1 .. Len(t \o u) + Len(y) :
            ((t \o u) \o y)[i] = IF i <= Len(t \o u) THEN (t \o u)[i] ELSE y[i - Len(t \o u)]
      BY <2>3, <1>7, ConcatProperties
    <3>2. Len((t \o u) \o y) = Len(t \o u) + Len(y) /\ Len(y) \in Nat /\ Len(t \o u) \in Nat
      BY <2>3, <1>7, ConcatProperties, LenProperties
    <3>3. \A i \in 1 .. Len(t \o u) : i \in 1 .. Len(t \o u) + Len(y) /\ i <= Len(t \o u)
      BY <3>2
    <3> QED
      BY <3>1, <3>2, <3>3
  <2>5. Len(t) + 1 \in 1 .. Len(t \o u)
    BY <2>1, <2>2, <2>3
  <2>6. ((t \o u) \o y)[Len(t) + 1] = a
    BY <2>1, <2>3, <2>4, <2>5
  <2>7. Len((t \o u) \o y) > Len(t)
    BY <2>1, <2>2, <2>3, <2>4
  <2> QED
    BY <2>6, <2>7, <1>7 DEF t, u
<1>9. Len(s) + 1 \in 1 .. Len(r)
  <2>1. Len(s) \in Nat /\ Len(r) \in Nat
    BY <1>5, LenProperties
  <2>2. ASSUME Len(r) <= Len(s) PROVE FALSE
    <3>1. Agree(s, r)
      BY <1>0, <1>1, <1>4 DEF AgreeInv, SameCourse
    <3>2. Begins(r, s)
      BY <3>1, <2>2, <1>5, AgreeBegins
    <3>3. Len(ActsOf(r, c)) <= Len(ActsOf(s, c))
      BY <3>2, <1>5, Decisions, BeginsActs DEF Begins
    <3>4. Len(ActsOf(r, c)) \in Nat /\ Len(ActsOf(s, c)) \in Nat
      BY <1>5, LenProperties
    <3> QED
      BY <3>3, <3>4, <1>8
  <2> QED
    BY <2>1, <2>2
<1>10. Begins(s, r) /\ r[Len(s) + 1] \in Decision /\ r[Len(s) + 1].cat = c
  BY <1>0, <1>1, <1>4, <1>9, NextThere DEF AgreeInv
<1>11. r[Len(s) + 1].act = a
  <2>1. ActsOf(r, c)[Len(ActsOf(s, c)) + 1] = r[Len(s) + 1].act
    BY <1>5, <1>9, <1>10, Decisions, AheadActs
  <2> QED
    BY <2>1, <1>8
<1>12. r[Len(s) + 1] = [cat |-> c, act |-> a]
  BY <1>10, <1>11 DEF Decision
<1> QED
  BY <1>0, <1>2, <1>3, <1>4, <1>9, <1>10, <1>12

(* On a copy that has not drifted it is therefore there to be applied.     *)
LEMMA OwnerSameCopy ==
  ASSUME TypeInv, CopyInv, MailInv, AgreeInv, NEW p \in Peer, HumanPolled(p), Offered(p) # <<>>,
         \A r \in Peer : ~drift[r]
  PROVE  OnSameCopy(p, [cat |-> Actor(p), act |-> Head(Offered(p)).act])
<1>0. PICK b, s, d : /\ b = node[p] /\ s = Taken(p, b)
                     /\ d = [cat |-> Actor(p), act |-> Head(Offered(p)).act]
  OBVIOUS
<1>1. b \in Node /\ queued[p] = <<>>
  BY <1>0 DEF HumanPolled, Polled, TypeInv, InBattle
<1>2. PICK o \in Peer : /\ Actor(p) \in Claims(o) /\ Begins(s, Taken(o, b))
                        /\ Len(s) + 1 \in 1 .. Len(Taken(o, b)) /\ Taken(o, b)[Len(s) + 1] = d
  BY <1>0, OwnerNext
<1>3. PICK r : r = Taken(o, b)
  OBVIOUS
<1>4. s \in Seq(Decision) /\ r \in Seq(Decision) /\ s = hist[p][b]
  BY <1>0, <1>1, <1>3, TakenType, TakenIdle DEF TypeInv
<1>5. d.cat = Actor(p) /\ d \in Decision
  BY <1>0, <1>2, <1>3, <1>4, ElementOfSeq
<1>6. PICK t : t = Append(s, d)
  OBVIOUS
<1>7. /\ DOMAIN t = 1 .. Len(s) + 1 /\ t[Len(s) + 1] = d /\ \A i \in 1 .. Len(s) : t[i] = s[i]
      /\ DOMAIN r = 1 .. Len(r) /\ Len(s) \in Nat /\ Len(r) \in Nat
  <2>1. t \in Seq(Decision) /\ Len(t) = Len(s) + 1 /\ t[Len(s) + 1] = d
        /\ \A i \in 1 .. Len(s) : t[i] = s[i]
    BY <1>4, <1>5, <1>6, AppendProperties
  <2> QED
    BY <2>1, <1>4, LenProperties
<1>8. \A i \in DOMAIN t : i \in DOMAIN r /\ r[i] = t[i]
  <2> TAKE i \in DOMAIN t
  <2>1. CASE i = Len(s) + 1
    BY <2>1, <1>2, <1>3, <1>7
  <2>2. CASE i # Len(s) + 1
    <3>1. i \in 1 .. Len(s) /\ i \in 1 .. Len(r)
      BY <2>2, <1>2, <1>3, <1>7
    <3> QED
      BY <3>1, <1>2, <1>3, <1>7 DEF Begins
  <2> QED
    BY <2>1, <2>2
<1>9. t = Append(hist[p][node[p]], d)
  BY <1>0, <1>4, <1>6
<1>10. r = hist[o][node[p]] \o IF node[o] = node[p] THEN queued[o] ELSE <<>>
  BY <1>0, <1>3 DEF Taken
<1>11. d.cat \in Claims(o) /\ ~drift[p] /\ ~drift[o]
  BY <1>2, <1>5
<1> QED
  BY <1>0, <1>8, <1>9, <1>10, <1>11 DEF OnSameCopy

LEMMA ReleasedStill ==
  ASSUME UNCHANGED gameVars, NEW q, NEW b, NEW c
  PROVE  Released(q, b, c)' = Released(q, b, c)
BY DEF gameVars, Released, Taken

LEMMA ReleasedNext ==
  ASSUME TypeInv, NEW p \in Peer, queued[p] = <<>>, NEW d \in Decision, Release(p, d),
         NEW q \in Peer, NEW b \in Node, NEW c
  PROVE  Released(q, b, c)' = IF q = p /\ b = node[p] /\ c = d.cat
                              THEN Append(Released(q, b, c), d.act) ELSE Released(q, b, c)
<1>0. PICK r : r = Taken(q, b)
  OBVIOUS
<1>1. r \in Seq(Decision)
  BY <1>0, TakenType DEF TypeInv
<1>2. Taken(q, b)' = IF q = p /\ b = node[p] THEN Append(r, d) ELSE r
  BY <1>0, TakenNext
<1>3. ActsOf(Append(r, d), c) = IF d.cat = c THEN Append(ActsOf(r, c), d.act) ELSE ActsOf(r, c)
  BY <1>1, ActsNext
<1> QED
  BY <1>0, <1>2, <1>3 DEF Released

LEMMA ReleasedOwn ==
  ASSUME TypeInv, NEW p \in Peer, queued[p] = <<>>, NEW d \in Decision, Release(p, d),
         NEW b \in Node, node[p] = b, NEW c
  PROVE  Released(p, b, c)' = IF c = d.cat THEN Append(Released(p, b, c), d.act)
                              ELSE Released(p, b, c)
<1>0. PICK r : r = Taken(p, b)
  OBVIOUS
<1>1. r \in Seq(Decision) /\ Taken(p, b)' = Append(r, d)
  BY <1>0, TakenType, TakenNext DEF TypeInv
<1>2. ActsOf(Append(r, d), c) = IF d.cat = c THEN Append(ActsOf(r, c), d.act) ELSE ActsOf(r, c)
  BY <1>1, ActsNext
<1> QED
  BY <1>0, <1>1, <1>2 DEF Released

(* What a peer that goes on has released stays or grows.                   *)
LEMMA ReleasedStep ==
  ASSUME TypeInv, CopyInv, [Next]_vars, NEW q \in Peer, NEW b \in Node, NEW c
  PROVE  \/ Released(q, b, c)' = Released(q, b, c)
         \/ ~halted'[q] /\ \E a \in Act : Released(q, b, c)' = Append(Released(q, b, c), a)
<1>1. CASE ~\E p \in Peer : Decide(p)
  BY <1>1, TakenSame DEF Released
<1>2. ASSUME NEW p \in Peer, Decide(p)
      PROVE  \/ Released(q, b, c)' = Released(q, b, c)
             \/ ~halted'[q] /\ \E a \in Act : Released(q, b, c)' = Append(Released(q, b, c), a)
  <2>1. queued[p] = <<>> /\ ~halted[p]
    BY <1>2, DecideReleases
  <2>2. CASE UNCHANGED gameVars
    BY <2>2, ReleasedStill
  <2>3. ASSUME NEW d \in Decision, Release(p, d), q = p, b = node[p], c = d.cat
        PROVE  ~halted'[q] /\ \E a \in Act : Released(q, b, c)' = Append(Released(q, b, c), a)
    <3>1. ~(UNCHANGED gameVars)
      BY <2>1, <2>3 DEF Release, gameVars, TypeInv, TypeOK
    <3>2. halted' = halted
      BY <1>2, <3>1 DEF Decide, DecideAI, DecideLocal, ApplyRemote
    <3>3. Released(q, b, c)' = Append(Released(q, b, c), d.act) /\ d.act \in Act
      BY <2>1, <2>3, ReleasedNext DEF Decision
    <3> QED
      BY <2>1, <2>3, <3>2, <3>3
  <2>4. ASSUME NEW d \in Decision, Release(p, d), ~(q = p /\ b = node[p] /\ c = d.cat)
        PROVE  Released(q, b, c)' = Released(q, b, c)
    BY <2>1, <2>4, ReleasedNext
  <2> QED
    BY <1>2, <2>2, <2>3, <2>4, DecideReleases
<1> QED
  BY <1>1, <1>2

(* A purge finds nothing to drop of what a cat has still to do.            *)
LEMMA PendingQuiet ==
  ASSUME TypeInv, CopyInv, AgreeInv, [Next]_vars, NEW o \in Peer, NEW q \in Peer, o # q,
         NEW b \in Node, NEW c \in Human, c \in Claims(o), Stays(q),
         ~ApplyRemote(q), ~(PumpStep(q) /\ OnAction(q, Head(inq[q])))
  PROVE  ActsOf(pending'[q][b][c], c) = ActsOf(pending[q][b][c], c)
<1>1. CASE pending'[q][b][c] = pending[q][b][c]
  BY <1>1
<1>2. CASE Stale(q, b) /\ pending'[q][b][c] = <<>>
  BY <1>2, NoneLate, ActsNone
<1> QED
  BY <1>1, <1>2, PendingStep

(* NoneLost, by what the step does to the decisions in flight.             *)
Kept(o, q, b, c) ==
  Released(o, b, c) =
    (Released(q, b, c) \o ActsOf(pending[q][b][c], c)) \o InFlight(o, q, b, c)

LEMMA KeptStill ==
  ASSUME TypeInv, NEW o \in Peer, NEW q \in Peer, NEW b \in Node, NEW c \in Human, Kept(o, q, b, c),
         Released(o, b, c)' = Released(o, b, c), Released(q, b, c)' = Released(q, b, c),
         ActsOf(pending'[q][b][c], c) = ActsOf(pending[q][b][c], c),
         InFlight(o, q, b, c)' = InFlight(o, q, b, c)
  PROVE  Kept(o, q, b, c)'
BY DEF Kept

LEMMA KeptQuiet ==
  ASSUME TypeInv, CopyInv, AgreeInv, [Next]_vars, NEW o \in Peer, NEW q \in Peer, o # q,
         NEW b \in Node, NEW c \in Human, c \in Claims(o), Stays(q),
         ~\E d \in Client : LinkReceive(d),
         ~\E p \in Peer : PumpStep(p) /\ OnAction(p, Head(inq[p])),
         ~\E p \in Peer, act \in Act : DecideLocal(p, act),
         ~\E p \in Peer : ApplyRemote(p)
  PROVE  Kept(o, q, b, c)'
<1>1. Kept(o, q, b, c)
  BY DEF AgreeInv, NoneLost, Kept
<1>2. \A r \in Peer : Released(r, b, c)' = Released(r, b, c)
  <2>1. CASE ~\E p \in Peer : Decide(p)
    BY <2>1, TakenSame DEF Released
  <2>2. ASSUME NEW p \in Peer, Decide(p), NEW r \in Peer
        PROVE  Released(r, b, c)' = Released(r, b, c)
    <3>0. PICK d : d = [cat |-> Actor(p), act |-> EndTurn]
      OBVIOUS
    <3>1. queued[p] = <<>> /\ Release(p, d) /\ d \in Decision /\ d.cat # c
      BY <2>2, <3>0, ActorIsCat DEF Decide, DecideAI, Polled, Decision, Act, TypeInv
    <3> QED
      BY <3>1, ReleasedNext
  <2> QED
    BY <2>1, <2>2
<1>3. ActsOf(pending'[q][b][c], c) = ActsOf(pending[q][b][c], c)
  BY PendingQuiet
<1>4. InFlight(o, q, b, c)' = InFlight(o, q, b, c)
  <2>1. Carried(inq'[q], b, c) = Carried(inq[q], b, c)
        /\ (o # Host => Carried(up'[o], b, c) = Carried(up[o], b, c))
    BY FlightRests DEF Peer
  <2> QED
    BY <2>1 DEF InFlight
<1> QED
  BY <1>1, <1>2, <1>3, <1>4, KeptStill

LEMMA KeptRelayed ==
  ASSUME TypeInv, MailInv, AgreeInv, NEW o \in Peer, NEW q \in Peer, o # q,
         NEW b \in Node, NEW c \in Human, c \in Claims(o), Stays(q),
         NEW d \in Client, LinkReceive(d)
  PROVE  Kept(o, q, b, c)'
<1>1. Kept(o, q, b, c)
  BY DEF AgreeInv, NoneLost, Kept
<1>2. UNCHANGED gameVars /\ pending' = pending
  BY DEF LinkReceive, actionVars
<1>3. InFlight(o, q, b, c)' = InFlight(o, q, b, c)
  BY FlightRelayed DEF MailInv
<1> QED
  BY <1>1, <1>2, <1>3, ReleasedStill, KeptStill

LEMMA SomethingFirst ==
  ASSUME NEW S, NEW e \in S, NEW s \in Seq(S)
  PROVE  <<e>> \o s # <<>>
<1>1. <<e>> \in Seq(S) /\ Len(<<e>>) = 1
  OBVIOUS
<1>2. Len(<<e>> \o s) = 1 + Len(s) /\ Len(s) \in Nat
  BY <1>1, ConcatProperties, LenProperties
<1>3. Len(<<e>> \o s) # 0
  BY <1>2
<1> QED
  BY <1>3, EmptySeq

LEMMA FlightTypedNext ==
  TypeInv' => \A o, q \in Peer, b \in Node, c \in Human : InFlight(o, q, b, c)' \in Seq(Act)
<1> DEFINE Fits == \A o, q \in Peer, b \in Node, c \in Human : InFlight(o, q, b, c) \in Seq(Act)
<1>1. TypeInv => Fits
  BY FlightTyped
<1> HIDE DEF Fits
<1>2. TypeInv' => Fits'
  BY <1>1, PTL
<1> QED
  BY <1>2 DEF Fits

(* Filing a decision moves it from what is in flight to what is held.      *)
LEMMA KeptFiled ==
  ASSUME NeverFull, TypeInv, CopyInv, AgreeInv, NEW o \in Peer, NEW q \in Peer, o # q,
         NEW b \in Node, NEW c \in Human, c \in Claims(o), Stays(q),
         NEW p \in Peer, NEW m, Polls(p, m), OnAction(p, m)
  PROVE  Kept(o, q, b, c)'
<1>0. PICK y, u, t, v, w : /\ y = Released(q, b, c) /\ u = ActsOf(pending[q][b][c], c)
                           /\ t = Told(m, b, c) /\ v = InFlight(o, q, b, c)
                           /\ w = InFlight(o, q, b, c)'
  OBVIOUS
<1>1. UNCHANGED gameVars
  BY DEF OnAction
<1>2. \A r \in Peer : Released(r, b, c)' = Released(r, b, c)
  BY <1>1, ReleasedStill
<1>3. Released(o, b, c) = (y \o u) \o v
  BY <1>0 DEF AgreeInv, NoneLost
<1>4. m \in Message /\ m.type = "ACTION" /\ m.action \in Action
  <2>1. m \in Message
    BY PumpedMessage DEF TypeInv
  <2> QED
    BY <2>1, MessageParts DEF OnAction
<1>5. y \in Seq(Act) /\ u \in Seq(Act) /\ t \in Seq(Act) /\ v \in Seq(Act) /\ pending[q][b][c] \in Seq(Action)
  <2>1. y \in Seq(Act) /\ u \in Seq(Act)
    BY <1>0, ReleasedTyped
  <2>2. t \in Seq(Act)
    <3>1. m \in Message
      BY <1>4
    <3>2. Told(m, b, c) \in Seq(Act)
      BY <3>1, ToldTyped
    <3> QED
      BY <3>2, <1>0
  <2>3. v \in Seq(Act)
    BY <1>0, FlightTyped
  <2>4. pending[q][b][c] \in Seq(Action)
    BY DEF TypeInv, TypeOK
  <2> QED
    BY <2>1, <2>2, <2>3, <2>4
<1>6. \/ pending' = pending /\ Stale(p, m.action.battle)
      \/ pending' = [pending EXCEPT ![p][m.action.battle][m.action.cat] = Append(@, m.action)]
  BY DEF OnAction, NeverFull
<1>7. CASE q # p
  <2>1. pending'[q][b][c] = pending[q][b][c]
    BY <1>6, <1>7 DEF TypeInv, TypeOK
  <2>2. InFlight(o, q, b, c)' = InFlight(o, q, b, c)
    BY <1>7, FlightFiled
  <2>3. Kept(o, q, b, c)
    BY DEF AgreeInv, NoneLost, Kept
  <2> QED
    BY <1>2, <2>1, <2>2, <2>3, KeptStill
<1>8. w \in Seq(Act)
  <2>1. PumpStep(p) => [Next]_vars
    BY DEF Next
  <2>2. m = Head(inq[p]) /\ inq[p] # <<>>
    BY DEF Polls
  <2>3. PumpStep(p)
    BY <2>2 DEF PumpStep, Pump
  <2>4. TypeInv'
    BY <2>1, <2>3, TypeStep
  <2> QED
    BY <2>4, <1>0, FlightTypedNext
<1>9. q = p => v = t \o w
  <2>1. q = p => InFlight(o, q, b, c) = Told(m, b, c) \o InFlight(o, q, b, c)'
    BY FlightFiled
  <2> QED
    BY <2>1, <1>0
<1>10. CASE q = p /\ ~Tells(m, b, c)
  <2>1. pending'[q][b][c] = pending[q][b][c]
    <3>1. ~(m.action.battle = b /\ m.action.cat = c)
      BY <1>4, <1>10 DEF Tells
    <3>2. PICK e, f, a : /\ e = m.action.battle /\ f = m.action.cat
                         /\ a = Append(pending[p][e][f], m.action)
      OBVIOUS
    <3>3. e \in Node /\ f \in Human /\ ~(e = b /\ f = c)
      BY <1>4, <3>1, <3>2 DEF Action
    <3>4. PICK g, h : /\ g = [pending[p][e] EXCEPT ![f] = a] /\ h = [pending[p] EXCEPT ![e] = g]
                      /\ pending' = pending \/ pending' = [pending EXCEPT ![p] = h]
      BY <1>6, <3>2
    <3>5. pending \in [Peer -> [Node -> [Human -> Seq(Action)]]]
      BY DEF TypeInv, TypeOK
    <3>6. pending' = pending \/ pending'[p] = h
      BY <3>4, <3>5
    <3>7. h[b] = IF e = b THEN g ELSE pending[p][b]
      BY <3>3, <3>4, <3>5
    <3>8. f # c => g[c] = pending[p][e][c]
      BY <3>3, <3>4, <3>5
    <3> QED
      BY <3>3, <3>6, <3>7, <3>8, <1>10
  <2>2. t = <<>>
    BY <1>0, <1>10 DEF Told
  <2>3. <<>> \o w = w
    BY <1>8, ConcatEmptySeq
  <2>4. w = v
    BY <2>2, <2>3, <1>9, <1>10
  <2>5. Kept(o, q, b, c)
    BY DEF AgreeInv, NoneLost, Kept
  <2> QED
    BY <1>0, <1>2, <2>1, <2>4, <2>5, KeptStill
<1>11. CASE q = p /\ Tells(m, b, c)
  <2>0. PICK a, f : a = m.action /\ f = pending[q][b][c]
    OBVIOUS
  <2>1. a \in Action /\ a.battle = b /\ a.cat = c /\ a.act \in Act /\ f \in Seq(Action)
    BY <2>0, <1>4, <1>5, <1>11 DEF Tells, Action
  <2>2. t = <<a.act>>
    BY <2>0, <1>0, <1>11 DEF Told
  <2>3. ~Stale(q, b)
    <3>1. ASSUME Stale(q, b) PROVE FALSE
      <4>1. v = <<>>
        BY <3>1, <1>0, NoneLate
      <4>2. <<a.act>> \o w # <<>>
        BY <2>1, <1>8, SomethingFirst
      <4> QED
        BY <4>1, <4>2, <2>2, <1>9, <1>11
    <3> QED
      BY <3>1
  <2>4. pending'[q][b][c] = Append(f, a)
    <3>1. pending \in [Peer -> [Node -> [Human -> Seq(Action)]]]
      BY DEF TypeInv, TypeOK
    <3>2. pending' = [pending EXCEPT ![q][b][c] = Append(pending[q][b][c], a)]
      BY <1>6, <1>11, <2>0, <2>1, <2>3
    <3> QED
      BY <3>1, <3>2, <2>0
  <2>5. ActsOf(Append(f, a), c) = Append(u, a.act)
    BY <2>0, <2>1, <1>0, ActsNext
  <2>6. Append(u, a.act) = u \o t
    BY <2>1, <2>2, <1>5, AppendIsConcat
  <2>7. (y \o u) \o (t \o w) = (y \o (u \o t)) \o w
    <3>0. PICK z, r : z = y \o u /\ r = u \o t
      OBVIOUS
    <3>1. z \in Seq(Act) /\ t \in Seq(Act) /\ w \in Seq(Act)
      BY <3>0, <1>5, <1>8, ConcatProperties
    <3>2. (z \o t) \o w = z \o (t \o w)
      BY <3>1, ConcatAssociative
    <3>3. z \o t = y \o r
      BY <3>0, <1>5, ConcatAssociative
    <3> QED
      BY <3>0, <3>2, <3>3
  <2>8. Released(o, b, c) = (y \o (u \o t)) \o w
    BY <1>3, <1>9, <1>11, <2>7
  <2>9. ActsOf(pending'[q][b][c], c) = u \o t
    BY <2>4, <2>5, <2>6
  <2> QED
    BY <1>0, <1>2, <2>8, <2>9 DEF Kept
<1> QED
  BY <1>7, <1>10, <1>11

(* Publishing a decision puts it last of what is on its way.               *)
LEMMA KeptSaid ==
  ASSUME JoinBarrier, TypeInv, GateInv, CopyInv, AgreeInv, NEW o \in Peer, NEW q \in Peer, o # q,
         NEW b \in Node, NEW c \in Human, c \in Claims(o), Stays(q),
         NEW p \in Peer, NEW act \in Act, DecideLocal(p, act)
  PROVE  Kept(o, q, b, c)'
<1>0. PICK m, d : m = MoveOf(p, act) /\ d = [cat |-> Actor(p), act |-> act]
  OBVIOUS
<1>1. /\ HumanPolled(p) /\ queued[p] = <<>> /\ Actor(p) \in Claims(p) /\ pending' = pending
      /\ Release(p, d) /\ TablesSplit /\ EveryoneIn(battles[p].current)
      /\ node[p] = battles[p].current
  BY <1>0, PolledSplit DEF DecideLocal, HumanPolled, Polled
<1>2. d \in Decision /\ d.cat = Actor(p) /\ d.act = act
  BY <1>0, <1>1, CatAssumption DEF HumanPolled, Decision
<1>3. Transmit(p, inq, <<m>>)
  <2>1. ~outstanding[p]
    BY <1>1 DEF CopyInv, Copy
  <2> QED
    BY <2>1, <1>0 DEF DecideLocal, MoveOf, Move
<1>4. /\ m \in Message /\ m.type = "ACTION" /\ m.action.battle = node[p] /\ m.action.cat = Actor(p)
      /\ m.action.act = act
  BY <1>0, <1>1, MoveType
<1>5. m \in Posted(p)
  BY <1>1, <1>4 DEF Posted
<1>6. \A r \in Peer : Released(r, b, c)' =
        IF r = p /\ b = node[p] /\ c = Actor(p)
        THEN Append(Released(r, b, c), act) ELSE Released(r, b, c)
  BY <1>1, <1>2, ReleasedNext
<1>7. Told(m, b, c) = IF b = node[p] /\ c = Actor(p) THEN <<act>> ELSE <<>>
  BY <1>4 DEF Told, Tells
<1>8. Kept(o, q, b, c)
  BY DEF AgreeInv, NoneLost, Kept
<1>9. CASE o # p
  <2>1. InFlight(o, q, b, c)' = InFlight(o, q, b, c)
    BY <1>3, <1>5, <1>9, FlightSaid
  <2>2. Released(o, b, c)' = Released(o, b, c)
    BY <1>6, <1>9
  <2>3. Released(q, b, c)' = Released(q, b, c)
    <3>1. c # Actor(p)
      BY <1>1, <1>9, SplitOwner
    <3> QED
      BY <3>1, <1>6
  <2> QED
    BY <2>1, <2>2, <2>3, <1>1, <1>8, KeptStill
<1>10. CASE o = p
  <2>0. PICK x, y, u, t, v : /\ x = Released(o, b, c) /\ y = Released(q, b, c)
                             /\ u = ActsOf(pending[q][b][c], c)
                             /\ t = Told(m, b, c) /\ v = InFlight(o, q, b, c)
    OBVIOUS
  <2>1. /\ x \in Seq(Act) /\ y \in Seq(Act) /\ u \in Seq(Act) /\ t \in Seq(Act) /\ v \in Seq(Act)
        /\ x = (y \o u) \o v
    BY <2>0, <1>4, <1>8, ReleasedTyped, ToldTyped, FlightTyped DEF Kept
  <2>2. InFlight(o, q, b, c)' = v \o t
    <3>1. InFlight(p, q, b, c)' = InFlight(p, q, b, c) \o Told(m, b, c)
      BY <1>3, <1>5, <1>10, OwnFlight, SMTT(30)
    <3> QED
      BY <2>0, <3>1, <1>10
  <2>3. Released(q, b, c)' = y
    BY <2>0, <1>6, <1>10
  <2>4. Released(o, b, c)' = x \o t
    <3>1. CASE b = node[p] /\ c = Actor(p)
      <4>1. Released(o, b, c)' = Append(x, act) /\ t = <<act>>
        BY <3>1, <2>0, <1>6, <1>7, <1>10
      <4>2. Append(x, act) = x \o <<act>>
        BY <2>1, AppendIsConcat
      <4> QED
        BY <4>1, <4>2
    <3>2. CASE ~(b = node[p] /\ c = Actor(p))
      <4>1. Released(o, b, c)' = x /\ t = <<>>
        BY <3>2, <2>0, <1>6, <1>7
      <4>2. x \o <<>> = x
        BY <2>1, ConcatEmptySeq
      <4> QED
        BY <4>1, <4>2
    <3> QED
      BY <3>1, <3>2
  <2>5. x \o t = (y \o u) \o (v \o t)
    <3>0. PICK z : z = y \o u
      OBVIOUS
    <3>1. z \in Seq(Act) /\ t \in Seq(Act) /\ v \in Seq(Act)
      BY <3>0, <2>1, ConcatProperties
    <3>2. (z \o v) \o t = z \o (v \o t)
      BY <3>1, ConcatAssociative
    <3> QED
      BY <2>1, <3>0, <3>2
  <2> QED
    BY <2>0, <2>2, <2>3, <2>4, <2>5, <1>1 DEF Kept
<1> QED
  BY <1>9, <1>10

(* Taking a decision off the queue releases it, and a copy that has not    *)
(* drifted always does.                                                    *)
LEMMA KeptTaken ==
  ASSUME TypeInv, CopyInv, MailInv, AgreeInv, [Next]_vars, NEW o \in Peer, NEW q \in Peer, o # q,
         NEW b \in Node, NEW c \in Human, c \in Claims(o), Stays(q)',
         NEW p \in Peer, ApplyRemote(p)
  PROVE  Kept(o, q, b, c)'
<1>0. PICK d : d = [cat |-> Actor(p), act |-> Head(Offered(p)).act]
  OBVIOUS
<1>1. /\ HumanPolled(p) /\ Offered(p) # <<>> /\ queued[p] = <<>> /\ Actor(p) \in Human
      /\ d \in Decision /\ d.cat = Actor(p) /\ d.act = Head(Offered(p)).act
      /\ Offered(p) = pending[p][node[p]][Actor(p)] /\ node[p] = battles[p].current
      /\ node[p] \in Node /\ drift' = drift
      /\ pending' = [pending EXCEPT ![p][node[p]][Actor(p)] = Tail(Offered(p))]
  <2>1. HumanPolled(p) /\ Offered(p) # <<>> /\ queued[p] = <<>> /\ drift' = drift
    BY DEF ApplyRemote, HumanPolled, Polled, Release, gameVars
  <2>2. d \in Decision /\ d.cat = Actor(p) /\ d.act = Head(Offered(p)).act
    BY <2>1, <1>0, OfferedParts
  <2>3. Offered(p) = pending[p][node[p]][Actor(p)] /\ node[p] = battles[p].current
        /\ node[p] \in Node /\ Actor(p) \in Human
    BY <2>1, OfferedParts
  <2>4. pending' = [pending EXCEPT ![p][node[p]][Actor(p)] = Tail(Offered(p))]
    BY <2>3 DEF ApplyRemote
  <2> QED
    BY <2>1, <2>2, <2>3, <2>4
<1>2. Kept(o, q, b, c)
  <2>1. Stays(q)
    BY SteadyFacts
  <2> QED
    BY <2>1 DEF AgreeInv, NoneLost, Kept
<1>3. InFlight(o, q, b, c)' = InFlight(o, q, b, c)
  <2>2. UNCHANGED netVars \/ Transmit(p, inq, HaltIf(p, TRUE))
    BY DEF ApplyRemote
  <2>4. ASSUME Transmit(p, inq, HaltIf(p, TRUE))
        PROVE  /\ \A r \in Peer : Carried(inq'[r], b, c) = Carried(inq[r], b, c)
               /\ \A e \in Client : Carried(up'[e], b, c) = Carried(up[e], b, c)
    <3>0. PICK ms : ms = HaltIf(p, TRUE)
      OBVIOUS
    <3>1. ms \in Seq(Chatter)
      BY <3>0, ChatterSaid, HaltIn
    <3>2. ms \in Seq(Message) /\ Carried(ms, b, c) = <<>>
      BY <3>1, ChatterTells
    <3>3. \A r \in Peer : inq[r] \in Seq(Message)
      BY DEF TypeInv, TypeOK
    <3>4. Transmit(p, inq, ms)
      BY <2>4, <3>0
    <3> QED
      BY <3>2, <3>3, <3>4, CarriedSent
  <2>5. Carried(inq'[q], b, c) = Carried(inq[q], b, c)
        /\ (o # Host => Carried(up'[o], b, c) = Carried(up[o], b, c))
    BY <2>2, <2>4 DEF netVars, Peer
  <2> QED
    BY <2>5 DEF InFlight
<1>4. Actor(p) \notin Claims(p)
  BY <1>1 DEF MailInv, OnFile
<1>5. ASSUME ~(q = p /\ b = node[p] /\ c = Actor(p))
      PROVE  Kept(o, q, b, c)'
  <2>1. pending'[q][b][c] = pending[q][b][c]
    <3>1. pending \in [Peer -> [Node -> [Human -> Seq(Action)]]]
      BY DEF TypeInv, TypeOK
    <3> QED
      BY <3>1, <1>1, <1>5
  <2>2. \A r \in {o, q} : Released(r, b, c)' = Released(r, b, c)
    <3>1. CASE UNCHANGED gameVars
      BY <3>1, ReleasedStill
    <3>2. CASE Release(p, d)
      BY <3>2, <1>1, <1>4, <1>5, ReleasedNext
    <3> QED
      BY <3>1, <3>2, <1>0 DEF ApplyRemote
  <2> QED
    BY <2>1, <2>2, <1>2, <1>3, KeptStill
<1>6. CASE q = p /\ b = node[p] /\ c = Actor(p)
  <2>1. Release(p, d)
    <3>1. ASSUME ~Release(p, d) PROVE FALSE
      <4>1. ~OnSameCopy(p, d) /\ halted' = [halted EXCEPT ![p] = TRUE]
        BY <3>1, <1>0 DEF ApplyRemote
      <4>2. halted'[p]
        BY <4>1 DEF TypeInv, TypeOK
      <4>3. \A r \in Peer : ~drift[r]
        BY <4>2, <1>1, <1>6 DEF Stays
      <4>4. OnSameCopy(p, d)
        BY <4>3, <1>0, <1>1, OwnerSameCopy
      <4> QED
        BY <4>1, <4>4
    <3> QED
      BY <3>1
  <2>0. PICK x, y, f, u, a, v : /\ x = Released(o, b, c) /\ y = Released(q, b, c)
                                /\ f = pending[q][b][c] /\ u = ActsOf(Tail(f), c)
                                /\ a = Head(f).act /\ v = InFlight(o, q, b, c)
    OBVIOUS
  <2>2. f = Offered(p) /\ f # <<>> /\ f \in Seq(Action) /\ f \in Seq(Filing(b, c))
    BY <2>0, <1>1, <1>6 DEF MailInv, OnFile, TypeInv, TypeOK
  <2>3. ActsOf(f, c) = <<a>> \o u /\ u \in Seq(Act) /\ a \in Act
    <3>1. Head(f) \in Filing(b, c) /\ Head(f) \in Action /\ Tail(f) \in Seq(Action)
      BY <2>2, FirstAndRest
    <3>2. Does(Head(f), c) = <<a>>
      BY <3>1, <2>0 DEF Does, Filing
    <3> QED
      BY <3>1, <3>2, <2>0, <2>2, Decisions, ActsFirst, ActsTyped DEF Decisive
  <2>4. x = (y \o (<<a>> \o u)) \o v
    BY <2>0, <2>3, <1>2 DEF Kept
  <2>5. x \in Seq(Act) /\ y \in Seq(Act) /\ v \in Seq(Act) /\ <<a>> \in Seq(Act)
    BY <2>0, <2>3, ReleasedTyped, FlightTyped, OneFits
  <2>6. (y \o (<<a>> \o u)) \o v = ((y \o <<a>>) \o u) \o v
    <3>0. PICK t : t = <<a>>
      OBVIOUS
    <3>1. y \in Seq(Act) /\ u \in Seq(Act) /\ t \in Seq(Act) /\ v \in Seq(Act)
      BY <3>0, <2>3, <2>5
    <3>2. (y \o t) \o u = y \o (t \o u)
      BY <3>1, ConcatAssociative
    <3> QED
      BY <3>0, <3>2
  <2>7. Released(q, b, c)' = y \o <<a>>
    <3>1. Released(q, b, c)' = Append(y, a)
      <4>0. PICK r : r = Taken(q, b)
        OBVIOUS
      <4>1. r \in Seq(Decision) /\ Taken(q, b)' = Append(r, d)
        BY <4>0, <2>1, <1>1, <1>6, TakenType, TakenNext DEF TypeInv
      <4>2. ActsOf(Append(r, d), c) = IF d.cat = c THEN Append(ActsOf(r, c), d.act) ELSE ActsOf(r, c)
        BY <4>1, <1>1, ActsNext
      <4>3. d.act = a /\ d.cat = c /\ ActsOf(r, c) = y
        BY <4>0, <2>0, <2>2, <1>1, <1>6 DEF Released
      <4> QED
        BY <4>1, <4>2, <4>3 DEF Released
    <3>2. Append(y, a) = y \o <<a>>
      BY <2>3, <2>5, AppendIsConcat
    <3> QED
      BY <3>1, <3>2
  <2>8. Released(o, b, c)' = x
    <3>1. Taken(o, b)' = Taken(o, b)
      BY <2>1, <1>1, <1>6, TakenNext
    <3> QED
      BY <3>1, <2>0 DEF Released
  <2>9. ActsOf(pending'[q][b][c], c) = u
    <3>1. pending \in [Peer -> [Node -> [Human -> Seq(Action)]]]
      BY DEF TypeInv, TypeOK
    <3>2. pending'[q][b][c] = Tail(f)
      BY <3>1, <2>2, <1>1, <1>6
    <3> QED
      BY <3>2, <2>0
  <2> QED
    BY <2>0, <2>4, <2>6, <2>7, <2>8, <2>9, <1>3 DEF Kept
<1> QED
  BY <1>5, <1>6

LEMMA NoneLostStep ==
  ASSUME JoinBarrier, NeverFull, TypeInv, GateInv, CopyInv, MailInv, AgreeInv, [Next]_vars
  PROVE  NoneLost'
<1>1. SUFFICES ASSUME NEW o \in Peer, NEW q \in Peer, NEW b \in Node, NEW c \in Human,
                      o # q, c \in Claims(o)', Stays(q)'
               PROVE  Kept(o, q, b, c)'
  BY DEF NoneLost, Kept
<1>2. c \in Claims(o) /\ Stays(q)
  BY <1>1, SteadyFacts
<1>3. ASSUME NEW d \in Client, LinkReceive(d) PROVE Kept(o, q, b, c)'
  BY <1>1, <1>2, <1>3, KeptRelayed
<1>4. ASSUME NEW p \in Peer, PumpStep(p), OnAction(p, Head(inq[p])) PROVE Kept(o, q, b, c)'
  <2>1. PICK m : m = Head(inq[p])
    OBVIOUS
  <2>2. Polls(p, m) /\ OnAction(p, m)
    BY <2>1, <1>4 DEF PumpStep, Pump
  <2> QED
    BY <2>2, <1>1, <1>2, KeptFiled
<1>5. ASSUME NEW p \in Peer, NEW act \in Act, DecideLocal(p, act) PROVE Kept(o, q, b, c)'
  BY <1>1, <1>2, <1>5, KeptSaid
<1>6. ASSUME NEW p \in Peer, ApplyRemote(p) PROVE Kept(o, q, b, c)'
  BY <1>1, <1>2, <1>6, KeptTaken
<1>7. CASE /\ ~\E d \in Client : LinkReceive(d)
           /\ ~\E p \in Peer : PumpStep(p) /\ OnAction(p, Head(inq[p]))
           /\ ~\E p \in Peer, act \in Act : DecideLocal(p, act)
           /\ ~\E p \in Peer : ApplyRemote(p)
  BY <1>1, <1>2, <1>7, KeptQuiet
<1> QED
  BY <1>3, <1>4, <1>5, <1>6, <1>7

LEMMA ReleasedTypedNext ==
  TypeInv' => \A q \in Peer, b \in Node, c \in Human :
                /\ Released(q, b, c)' \in Seq(Act)
                /\ ActsOf(pending'[q][b][c], c) \in Seq(Act)
<1> DEFINE Fits == \A q \in Peer, b \in Node, c \in Human :
                     Released(q, b, c) \in Seq(Act) /\ ActsOf(pending[q][b][c], c) \in Seq(Act)
<1>1. TypeInv => Fits
  BY ReleasedTyped
<1> HIDE DEF Fits
<1>2. TypeInv' => Fits'
  BY <1>1, PTL
<1> QED
  BY <1>2 DEF Fits

LEMMA BeginsGrown ==
  ASSUME NEW S, NEW s \in Seq(S), NEW t \in Seq(S), NEW e \in S, Begins(t, s)
  PROVE  Begins(t, Append(s, e))
<1>1. Len(s) \in Nat /\ Len(t) \in Nat
  BY LenProperties
<1>2. Len(Append(s, e)) = Len(s) + 1 /\ \A i \in 1 .. Len(s) : Append(s, e)[i] = s[i]
  BY AppendProperties
<1> QED
  BY <1>1, <1>2 DEF Begins

LEMMA OwnerAheadStep ==
  ASSUME TypeInv, CopyInv, AgreeInv, [Next]_vars, NoneLost'
  PROVE  OwnerAhead'
<1>1. SUFFICES ASSUME NEW o \in Peer, NEW q \in Peer, NEW b \in Node, NEW c \in Human,
                      c \in Claims(o)'
               PROVE  Begins(Released(q, b, c)', Released(o, b, c)')
  BY DEF OwnerAhead, Begins
<1>2. TypeInv' /\ c \in Claims(o)
  BY <1>1, TypeStep, SteadyFacts
<1>3. CASE o = q
  <2>1. PICK r : r = Released(q, b, c)'
    OBVIOUS
  <2>2. r \in Seq(Act)
    BY <2>1, <1>2, ReleasedTypedNext
  <2> QED
    BY <2>1, <2>2, <1>3, LenProperties DEF Begins
<1>4. CASE o # q /\ Stays(q)'
  <2>0. PICK x, y, u, v : /\ x = Released(o, b, c)' /\ y = Released(q, b, c)'
                          /\ u = ActsOf(pending'[q][b][c], c) /\ v = InFlight(o, q, b, c)'
    OBVIOUS
  <2>1. x \in Seq(Act) /\ y \in Seq(Act) /\ u \in Seq(Act) /\ v \in Seq(Act)
    BY <2>0, <1>2, ReleasedTypedNext, FlightTypedNext
  <2>2. x = (y \o u) \o v
    BY <2>0, <1>1, <1>4 DEF NoneLost
  <2>3. (y \o u) \o v = y \o (u \o v) /\ u \o v \in Seq(Act)
    BY <2>1, ConcatAssociative, ConcatProperties
  <2>4. Begins(y, x)
    BY <2>1, <2>2, <2>3, ConcatBegins
  <2> QED
    BY <2>0, <2>4
<1>5. CASE ~(Stays(q)')
  <2>0. PICK x, y : x = Released(o, b, c) /\ y = Released(q, b, c)
    OBVIOUS
  <2>1. x \in Seq(Act) /\ y \in Seq(Act) /\ Begins(y, x)
    BY <2>0, <1>2, ReleasedTyped DEF AgreeInv, OwnerAhead
  <2>2. Released(q, b, c)' = y
    BY <2>0, <1>5, ReleasedStep DEF Stays
  <2>3. Released(o, b, c)' = x \/ \E a \in Act : Released(o, b, c)' = Append(x, a)
    BY <2>0, ReleasedStep
  <2> QED
    BY <2>1, <2>2, <2>3, BeginsGrown
<1> QED
  BY <1>3, <1>4, <1>5

(* A decision is released where every copy that is further has it.         *)
LEMMA DecidedThere ==
  ASSUME JoinBarrier, TypeInv, GateInv, CopyInv, MailInv, AgreeInv,
         NEW p \in Peer, Decide(p), NEW d \in Decision, Release(p, d),
         NEW q \in Peer, NEW k, k = Len(Taken(p, node[p])) + 1, k \in 1 .. Len(Taken(q, node[p]))
  PROVE  Taken(q, node[p])[k] = d
<1>0. PICK b, r, s : b = node[p] /\ r = Taken(q, b) /\ s = Taken(p, b)
  OBVIOUS
<1>1. phase[p] = "turn" /\ queued[p] = <<>> /\ b \in Node /\ queued'[p] = <<d>>
  BY <1>0, DecideReleases DEF TypeInv, TypeOK, InBattle, Release
<1>2. /\ Begins(s, r) /\ r[k] \in Decision /\ r[k].cat = Actor(p)
      /\ Actor(p) \notin Human => r[k].act = EndTurn
  BY <1>0, <1>1, NextThere DEF AgreeInv
<1>3. r \in Seq(Decision) /\ s \in Seq(Decision)
  BY <1>0, <1>1, TakenType DEF TypeInv
<1>4. \A e : <<d>> = <<e>> => d = e
  OBVIOUS
<1>5. CASE DecideAI(p)
  <2>1. d = [cat |-> Actor(p), act |-> EndTurn] /\ Actor(p) \notin Human
    <3>1. queued'[p] = <<[cat |-> Actor(p), act |-> EndTurn]>>
      BY <1>5 DEF DecideAI, Release, TypeInv, TypeOK
    <3> QED
      BY <3>1, <1>1, <1>4, <1>5 DEF DecideAI
  <2>2. r[k] = [cat |-> Actor(p), act |-> EndTurn]
    BY <2>1, <1>2 DEF Decision
  <2> QED
    BY <2>1, <2>2, <1>0
<1>6. CASE ApplyRemote(p)
  <2>1. HumanPolled(p) /\ Offered(p) # <<>>
    BY <1>6 DEF ApplyRemote
  <2>2. d = [cat |-> Actor(p), act |-> Head(Offered(p)).act]
    <3>0. PICK e : e = [cat |-> Actor(p), act |-> Head(Offered(p)).act]
      OBVIOUS
    <3>1. Release(p, e)
      <4>1. ~(UNCHANGED gameVars)
        BY <1>1 DEF gameVars
      <4> QED
        BY <4>1, <3>0, <1>6 DEF ApplyRemote
    <3>2. queued'[p] = <<e>>
      BY <3>1 DEF Release, TypeInv, TypeOK
    <3> QED
      BY <3>0, <3>2, <1>1, <1>4
  <2>3. PICK o \in Peer : k \in 1 .. Len(Taken(o, b)) /\ Taken(o, b)[k] = d
    BY <2>1, <2>2, <1>0, OwnerNext
  <2>4. Taken(o, b) \in Seq(Decision) /\ Agree(r, Taken(o, b))
    BY <1>0, <1>1, TakenType DEF AgreeInv, SameCourse, TypeInv
  <2>5. k \in DOMAIN r /\ k \in DOMAIN Taken(o, b)
    BY <2>3, <2>4, <1>0, <1>3, LenProperties
  <2> QED
    BY <2>3, <2>4, <2>5, <1>0 DEF Agree
<1>7. ASSUME NEW act \in Act, DecideLocal(p, act) PROVE FALSE
  <2>1. Actor(p) \in Claims(p) /\ Actor(p) \in Human
    BY <1>7 DEF DecideLocal, HumanPolled
  <2>2. Begins(ActsOf(r, Actor(p)), ActsOf(s, Actor(p)))
    BY <2>1, <1>0, <1>1 DEF AgreeInv, OwnerAhead, Released
  <2>3. Len(ActsOf(r, Actor(p))) > Len(ActsOf(s, Actor(p)))
    BY <1>0, <1>2, <1>3, Decisions, AheadActs
  <2>4. ActsOf(r, Actor(p)) \in Seq(Act) /\ ActsOf(s, Actor(p)) \in Seq(Act)
    BY <1>3, Decisions, ActsTyped
  <2> QED
    BY <2>2, <2>3, <2>4, LenProperties DEF Begins
<1> QED
  BY <1>5, <1>6, <1>7 DEF Decide

LEMMA SameCourseStep ==
  ASSUME JoinBarrier, TypeInv, GateInv, CopyInv, MailInv, AgreeInv, [Next]_vars
  PROVE  SameCourse'
<1>1. SUFFICES ASSUME NEW p \in Peer, NEW q \in Peer, NEW b \in Node
               PROVE  Agree(Taken(p, b)', Taken(q, b)')
  BY DEF SameCourse, Agree
<1>2. ASSUME Taken(p, b)' = Taken(p, b), Taken(q, b)' = Taken(q, b)
      PROVE  Agree(Taken(p, b)', Taken(q, b)')
  BY <1>2 DEF AgreeInv, SameCourse
<1>3. CASE ~\E r \in Peer : Decide(r)
  BY <1>2, <1>3, TakenSame
<1>4. CASE p = q
  BY <1>4 DEF Agree
<1>5. ASSUME NEW r \in Peer, Decide(r), p # q PROVE Agree(Taken(p, b)', Taken(q, b)')
  <2>1. queued[r] = <<>>
    BY <1>5, DecideReleases
  <2>2. CASE UNCHANGED gameVars
    BY <2>2, <1>2 DEF gameVars, Taken
  <2>3. ASSUME NEW d \in Decision, Release(r, d) PROVE Agree(Taken(p, b)', Taken(q, b)')
    <3>1. /\ \A e \in Peer : e = r /\ b = node[r] => Taken(e, b)' = Append(Taken(e, b), d)
          /\ \A e \in Peer : ~(e = r /\ b = node[r]) => Taken(e, b)' = Taken(e, b)
      BY <2>1, <2>3, TakenNext
    <3>2. ASSUME NEW e \in Peer, e # r, b = node[r]
          PROVE  Agree(Append(Taken(r, b), d), Taken(e, b))
      <4>0. PICK s, t, u : s = Taken(r, b) /\ t = Taken(e, b) /\ u = Append(s, d)
        OBVIOUS
      <4>1. s \in Seq(Decision) /\ t \in Seq(Decision) /\ Agree(s, t)
        BY <4>0, TakenType DEF TypeInv, AgreeInv, SameCourse
      <4>2. /\ DOMAIN u = 1 .. Len(s) + 1 /\ u[Len(s) + 1] = d
            /\ \A i \in 1 .. Len(s) : u[i] = s[i]
            /\ DOMAIN s = 1 .. Len(s) /\ DOMAIN t = 1 .. Len(t) /\ Len(s) \in Nat
        <5>1. /\ u \in Seq(Decision) /\ Len(u) = Len(s) + 1 /\ u[Len(s) + 1] = d
              /\ \A i \in 1 .. Len(s) : u[i] = s[i]
          BY <4>0, <4>1, AppendProperties
        <5> QED
          BY <5>1, <4>1, LenProperties
      <4>3. Len(s) + 1 \in 1 .. Len(t) => t[Len(s) + 1] = d
        BY <4>0, <1>5, <2>3, <3>2, DecidedThere
      <4>4. Agree(u, t)
        <5> SUFFICES ASSUME NEW i \in (DOMAIN u) \cap (DOMAIN t) PROVE u[i] = t[i]
          BY DEF Agree
        <5>1. CASE i = Len(s) + 1
          BY <5>1, <4>2, <4>3
        <5>2. CASE i # Len(s) + 1
          <6>1. i \in DOMAIN s /\ i \in DOMAIN t /\ u[i] = s[i]
            BY <5>2, <4>2
          <6> QED
            BY <6>1, <4>1 DEF Agree
        <5> QED
          BY <5>1, <5>2
      <4> QED
        BY <4>0, <4>4
    <3>3. ASSUME NEW s, NEW t, Agree(s, t) PROVE Agree(t, s)
      BY <3>3 DEF Agree
    <3>4. CASE p = r /\ b = node[r]
      BY <3>1, <3>2, <3>4, <1>5
    <3>5. CASE q = r /\ b = node[r]
      BY <3>1, <3>2, <3>3, <3>5, <1>5
    <3>6. CASE ~(p = r /\ b = node[r]) /\ ~(q = r /\ b = node[r])
      BY <3>1, <3>6, <1>2
    <3> QED
      BY <3>4, <3>5, <3>6
  <2> QED
    BY <1>5, <2>2, <2>3, DecideReleases
<1> QED
  BY <1>3, <1>4, <1>5

LEMMA AgreeStep ==
  ASSUME JoinBarrier, NeverFull, TypeInv, GateInv, CopyInv, MailInv, AgreeInv, [Next]_vars
  PROVE  AgreeInv'
<1>1. NoneLost'
  BY NoneLostStep
<1>2. OwnerAhead'
  BY <1>1, OwnerAheadStep
<1>3. SameCourse'
  BY SameCourseStep
<1> QED
  BY <1>1, <1>2, <1>3 DEF AgreeInv

-------------------------------------------------------------------------------
(* A run starts in agreement, and stays in it.                             *)

CourseInv == TypeInv /\ GateInv /\ CopyInv /\ RoadInv /\ MailInv /\ AgreeInv

LEMMA CourseInit == Init => CourseInv
<1> SUFFICES ASSUME Init PROVE CourseInv
  OBVIOUS
<1>1. TypeInv /\ GateInv
  BY TypeInit, GateInit
<1>2. /\ \A p \in Peer : /\ node[p] = NoBattle /\ phase[p] = "map" /\ queued[p] = <<>>
                         /\ ~outstanding[p] /\ ~halted[p] /\ inq[p] = <<>>
                         /\ battles[p] = NewTracker /\ joined[p] = {}
      /\ \A p \in Peer, b \in Node : hist[p][b] = <<>> /\ Taken(p, b) = <<>>
      /\ \A p \in Peer, b \in Node, c \in Human : pending[p][b][c] = <<>>
      /\ \A c \in Client : up[c] = <<>> /\ nodeQ[c] = <<>>
      /\ route = <<>>
  <2>1. \A p \in Peer, b \in Node : hist[p][b] = <<>> /\ node[p] # b
    BY NoneIsNoNode DEF Init
  <2>2. \A p \in Peer, b \in Node : Taken(p, b) = <<>>
    <3> TAKE p \in Peer, b \in Node
    <3>1. Taken(p, b) = hist[p][b]
      BY <1>1, <2>1, TakenIdle DEF TypeInv
    <3> QED
      BY <2>1, <3>1
  <2> QED
    BY <2>1, <2>2 DEF Init
<1>3. CopyInv
  <2>1. ASSUME NEW p \in Peer PROVE Copy(p)
    <3>1. Placed(p) /\ Paced(p)
      BY <1>2, NoneIsNoNode, NodeAssumption DEF Placed, Paced, NewTracker
    <3>2. Behind(p)
      <4>1. ASSUME NEW b \in Node PROVE ~Stale(p, b)
        <5>1. Len(battles[p].retired) = 0
          BY <1>2, EmptySeq DEF NewTracker
        <5>2. ~Remembers(battles[p].retired, b)
          BY <5>1 DEF Remembers
        <5> QED
          BY <5>2 DEF Stale, IsRetired, BattleRel
      <4> QED
        BY <4>1, <1>2 DEF Behind
    <3>3. \A b \in Node : Seated(Taken(p, b))
      <4>1. Seated(<<>>)
        BY EmptySeq DEF Seated
      <4> QED
        BY <4>1, <1>2
    <3>4. Len(queued[p]) <= 1 /\ ~outstanding[p]
      BY <1>2, EmptySeq
    <3> QED
      BY <3>1, <3>2, <3>3, <3>4 DEF Copy
  <2> QED
    BY <2>1 DEF CopyInv
<1>4. RoadInv
  <2>1. Len(route) = 0 /\ (\A c \in Client : Len(nodeQ[c]) = 0) /\ \A p \in Peer : Len(inq[p]) = 0
    BY <1>2, EmptySeq
  <2>2. \A p \in Peer, n \in Node : Untouched(p, n)
    BY <1>2, NoneIsNoNode DEF Untouched, NewTracker
  <2>3. \A c \in Client : Follows(c) /\ Expects(c, inq[c])
    BY <2>1, HostIsPeer DEF Follows, Expects
  <2> QED
    BY <2>2, <2>3 DEF RoadInv
<1>5. MailInv
  <2>1. Mailed /\ OnFile
    BY <1>2, EmptyFits DEF Mailed, OnFile
  <2>2. \A p \in Peer, b \in Node : ~HumanActed(p, b)
    BY <1>2 DEF HumanActed
  <2> QED
    BY <2>1, <2>2 DEF MailInv
<1>6. AgreeInv
  <2>1. \A p \in Peer, b \in Node, c \in Human : Released(p, b, c) = <<>>
    BY <1>2, ActsNone DEF Released
  <2>2. \A p, q \in Peer, b \in Node, c \in Human :
          ActsOf(pending[q][b][c], c) = <<>> /\ InFlight(p, q, b, c) = <<>>
    <3> TAKE p, q \in Peer, b \in Node, c \in Human
    <3>1. ActsOf(pending[q][b][c], c) = <<>>
      BY <1>2, ActsNone
    <3>2. Carried(inq[q], b, c) = <<>> /\ (p # Host => Carried(up[p], b, c) = <<>>)
      BY <1>2, CarriedNone DEF Peer
    <3>3. <<>> \o <<>> = <<>>
      OBVIOUS
    <3> QED
      BY <3>1, <3>2, <3>3 DEF InFlight
  <2>3. NoneLost
    <3>1. (<<>> \o <<>>) \o <<>> = <<>>
      OBVIOUS
    <3> QED
      BY <2>1, <2>2, <3>1 DEF NoneLost
  <2>4. OwnerAhead
    BY <2>1, EmptySeq DEF OwnerAhead, Begins
  <2>5. SameCourse
    BY <1>2 DEF SameCourse, Agree
  <2> QED
    BY <2>3, <2>4, <2>5 DEF AgreeInv
<1> QED
  BY <1>1, <1>3, <1>4, <1>5, <1>6 DEF CourseInv

LEMMA CourseStep == JoinBarrier /\ NeverFull /\ CourseInv /\ [Next]_vars => CourseInv'
<1> SUFFICES ASSUME JoinBarrier, NeverFull, CourseInv, [Next]_vars PROVE CourseInv'
  OBVIOUS
<1>1. TypeInv /\ GateInv /\ CopyInv /\ RoadInv /\ MailInv /\ AgreeInv
  BY DEF CourseInv
<1>2. TypeInv' /\ GateInv'
  BY <1>1, TypeStep, GateStep
<1>3. CopyInv' /\ RoadInv' /\ MailInv' /\ AgreeInv'
  BY <1>1, CopyStep, RoadStep, MailStep, AgreeStep
<1> QED
  BY <1>2, <1>3 DEF CourseInv

(* Only Apply changes what a copy has applied.                             *)
LEMMA HistoryStep ==
  ASSUME [Next]_vars
  PROVE  hist' = hist \/ \E p \in Peer : Apply(p)
<1>1. ASSUME NEW n \in Node, HostEnterNode(n) PROVE hist' = hist
  BY <1>1 DEF HostEnterNode
<1>2. ASSUME NEW c \in Client, FollowNode(c) \/ LinkReceive(c) PROVE hist' = hist
  BY <1>2 DEF FollowNode, LinkReceive, gameVars
<1>3. ASSUME NEW p \in Peer, PumpStep(p) PROVE hist' = hist
  BY <1>3 DEF PumpStep, Pump, OnEnterNode, OnControl, OnAction, OnHash, OnHalt, gameVars
<1>4. ASSUME NEW p \in Peer, Boundary(p) PROVE hist' = hist
  BY <1>4 DEF Boundary, TakeRoster, NextTurn, BeginTurn
<1>5. ASSUME NEW p \in Peer, Decide(p) PROVE hist' = hist
  BY <1>5 DEF Decide, DecideAI, DecideLocal, ApplyRemote, Release, gameVars
<1>6. ASSUME NEW p \in Peer, Diverge(p) PROVE hist' = hist
  BY <1>6 DEF Diverge
<1>7. CASE UNCHANGED vars
  BY <1>7 DEF vars, gameVars
<1> QED
  BY <1>1, <1>2, <1>3, <1>4, <1>5, <1>6, <1>7 DEF Next

(* The peer a copy applies a decision on finds every copy ahead of it to   *)
(* have applied the same one there; no other step applies any.             *)
LEMMA PromiseStep == CourseInv /\ [Next]_vars => [Promise!Next]_hist
<1> SUFFICES ASSUME CourseInv, [Next]_vars PROVE [Promise!Next]_hist
  OBVIOUS
<1>1. TypeInv /\ CopyInv /\ SameCourse
  BY DEF CourseInv, AgreeInv
<1>2. ASSUME NEW p \in Peer, Apply(p) PROVE Promise!Next
  <2>0. PICK b, d, s : b = node[p] /\ d = Head(queued[p]) /\ s = hist[p][b]
    OBVIOUS
  <2>1. b \in Node /\ d \in Decision /\ Taken(p, b) = Append(s, d) /\ s \in Seq(Decision)
    BY <1>1, <1>2, <2>0, TakenApplied, TakenType DEF CopyInv, TypeInv
  <2>2. hist' = [hist EXCEPT ![p][b] = Append(@, d)]
    BY <1>2, <2>0 DEF Apply
  <2>3. ASSUME NEW q \in Peer, Len(s) + 1 \in DOMAIN hist[q][b]
        PROVE  hist[q][b][Len(s) + 1] = d
    <3>0. PICK r, h, k, u : /\ r = Taken(q, b) /\ h = hist[q][b] /\ k = Len(s) + 1
                            /\ u = IF node[q] = b THEN queued[q] ELSE <<>>
      OBVIOUS
    <3>1. /\ r \in Seq(Decision) /\ h \in Seq(Decision) /\ u \in Seq(Decision) /\ r = h \o u
          /\ Agree(Append(s, d), r)
      BY <1>1, <2>1, <3>0, TakenType, EmptyFits DEF TypeInv, Taken, SameCourse
    <3>2. k \in 1 .. Len(h) /\ k \in 1 .. Len(r) /\ r[k] = h[k]
      <4>1. k \in 1 .. Len(h) /\ Len(h) \in Nat /\ Len(u) \in Nat
        BY <2>3, <3>0, <3>1, LenProperties
      <4>2. Len(r) = Len(h) + Len(u)
            /\ \A i \in 1 .. Len(h) + Len(u) : r[i] = IF i <= Len(h) THEN h[i] ELSE u[i - Len(h)]
        BY <3>1, ConcatProperties
      <4>3. k \in 1 .. Len(h) + Len(u) /\ k <= Len(h)
        BY <4>1
      <4> QED
        BY <4>1, <4>2, <4>3
    <3>3. k \in DOMAIN Append(s, d) /\ Append(s, d)[k] = d
      <4>1. Append(s, d) \in Seq(Decision) /\ Len(Append(s, d)) = Len(s) + 1 /\ Append(s, d)[Len(s) + 1] = d
        BY <2>1, AppendProperties
      <4>2. Len(s) \in Nat
        BY <2>1, LenProperties
      <4> QED
        BY <3>0, <4>1, <4>2, LenProperties
    <3>4. k \in DOMAIN r
      BY <3>1, <3>2, LenProperties
    <3> QED
      BY <3>0, <3>1, <3>2, <3>3, <3>4 DEF Agree
  <2>4. Promise!Apply(p, b, d)
    BY <2>0, <2>2, <2>3 DEF Promise!Apply, Promise!Next1
  <2> QED
    BY <2>1, <2>4 DEF Promise!Next
<1>3. ASSUME ~\E p \in Peer : Apply(p) PROVE hist' = hist
  BY <1>3, HistoryStep
<1> QED
  BY <1>2, <1>3

(* The battle layer implements AgreedBattle: whatever the tables, the pace *)
(* of the copies and the order of the messages, and even when copies       *)
(* drift, no copy applies a decision other than the one the copies ahead of*)
(* it applied at that point.                                               *)
THEOREM PromiseKept == JoinBarrier /\ Spec /\ []NeverFull => KeepsPromise
<1>1. JoinBarrier /\ NeverFull /\ CourseInv /\ [Next]_vars => CourseInv'
  BY CourseStep
<1>2. Init => Promise!Init
  BY DEF Init, Promise!Init
<1>3. CASE JoinBarrier
  <2>1. NeverFull /\ CourseInv /\ [Next]_vars => CourseInv'
    BY <1>1, <1>3
  <2> QED
    BY <2>1, <1>2, CourseInit, PromiseStep, PTL DEF Spec, KeepsPromise, Promise!Spec
<1>4. CASE ~JoinBarrier
  BY <1>4
<1> QED
  BY <1>3, <1>4

(* A copy drifts only where the instance lets it.                          *)
NoDrift == \A p \in Peer : ~drift[p]

LEMMA DriftStep == MayDrift = {} /\ TypeInv /\ NoDrift /\ [Next]_vars => NoDrift'
<1> SUFFICES ASSUME MayDrift = {}, TypeInv, NoDrift, [Next]_vars PROVE NoDrift'
  OBVIOUS
<1>1. drift' = drift
  <2>1. ASSUME NEW n \in Node, HostEnterNode(n) PROVE drift' = drift
    BY <2>1 DEF HostEnterNode
  <2>2. ASSUME NEW c \in Client, FollowNode(c) \/ LinkReceive(c) PROVE drift' = drift
    BY <2>2 DEF FollowNode, LinkReceive, gameVars
  <2>3. ASSUME NEW p \in Peer, PumpStep(p) PROVE drift' = drift
    BY <2>3 DEF PumpStep, Pump, OnEnterNode, OnControl, OnAction, OnHash, OnHalt, gameVars
  <2>4. ASSUME NEW p \in Peer, Boundary(p) PROVE drift' = drift
    BY <2>4 DEF Boundary, TakeRoster, NextTurn, BeginTurn
  <2>5. ASSUME NEW p \in Peer, Decide(p) PROVE drift' = drift
    BY <2>5 DEF Decide, DecideAI, DecideLocal, ApplyRemote, Release, gameVars
  <2>6. ASSUME NEW p \in Peer, Apply(p) \/ Diverge(p) PROVE drift' = drift
    BY <2>6 DEF Apply, Diverge
  <2>7. CASE UNCHANGED vars
    BY <2>7 DEF vars, gameVars
  <2> QED
    BY <2>1, <2>2, <2>3, <2>4, <2>5, <2>6, <2>7 DEF Next
<1> QED
  BY <1>1 DEF NoDrift

(* No human decision is lost, repeated or reordered between the peer that  *)
(* took it and any other, through the relay, the queue of held decisions   *)
(* and its purges, whatever the ownership tables, as long as no copy drifts*)
(* and no queue is full.                                                   *)
THEOREM NothingIsLost == JoinBarrier /\ MayDrift = {} /\ Spec /\ []NeverFull => []NothingLost
<1>1. JoinBarrier /\ NeverFull /\ CourseInv /\ [Next]_vars => CourseInv'
  BY CourseStep
<1>2. MayDrift = {} /\ CourseInv /\ NoDrift /\ [Next]_vars => NoDrift'
  BY DriftStep DEF CourseInv
<1>3. CourseInv /\ NoDrift => NothingLost
  BY DEF CourseInv, AgreeInv, NoneLost, NoDrift, Stays, NothingLost
<1>4. Init => NoDrift
  BY DEF Init, NoDrift
<1>5. CASE JoinBarrier /\ MayDrift = {}
  <2>1. NeverFull /\ CourseInv /\ [Next]_vars => CourseInv'
    BY <1>1, <1>5
  <2>2. CourseInv /\ NoDrift /\ [Next]_vars => NoDrift'
    BY <1>2, <1>5
  <2> QED
    BY <2>1, <2>2, <1>3, <1>4, CourseInit, PTL DEF Spec
<1>6. CASE ~(JoinBarrier /\ MayDrift = {})
  BY <1>6
<1> QED
  BY <1>5, <1>6


-------------------------------------------------------------------------------
(* What the promise is worth.                                              *)

PromiseInv == Promise!TypeOK /\ Promise!Agreement

LEMMA PromiseInit == Promise!Init => PromiseInv
<1> SUFFICES ASSUME Promise!Init PROVE PromiseInv
  OBVIOUS
<1>1. Promise!TypeOK
  BY EmptySeq DEF Promise!Init, Promise!TypeOK
<1>2. Promise!Agreement
  BY DEF Promise!Init, Promise!Agreement
<1> QED
  BY <1>1, <1>2 DEF PromiseInv

LEMMA PromiseApply ==
  ASSUME PromiseInv, NEW p \in Peer, NEW b \in Node, NEW d \in Decision, Promise!Apply(p, b, d)
  PROVE  PromiseInv'
<1> DEFINE s == hist[p][b]
           n == Len(s) + 1
<1>1. s \in Seq(Decision) /\ hist \in [Peer -> [Node -> Seq(Decision)]]
  BY DEF PromiseInv, Promise!TypeOK
<1>2. /\ hist' = [hist EXCEPT ![p][b] = Append(s, d)]
      /\ \A q \in Peer : n \in DOMAIN hist[q][b] => hist[q][b][n] = d
  BY DEF Promise!Apply, Promise!Next1
<1>3. /\ hist'[p][b] = Append(s, d)
      /\ \A q \in Peer, c \in Node :
           q # p \/ c # b => hist'[q][c] = hist[q][c]
  BY <1>1, <1>2
<1>4. Promise!TypeOK'
  <2>1. Append(s, d) \in Seq(Decision)
    BY <1>1
  <2>2. [hist[p] EXCEPT ![b] = Append(s, d)] \in [Node -> Seq(Decision)]
    BY <1>1, <2>1
  <2>3. hist' = [hist EXCEPT ![p] = [hist[p] EXCEPT ![b] = Append(s, d)]]
    BY <1>1, <1>2
  <2> QED
    BY <1>1, <2>2, <2>3 DEF Promise!TypeOK
<1>5. DOMAIN Append(s, d) = (DOMAIN s) \cup {n} /\ Append(s, d)[n] = d
      /\ \A i \in DOMAIN s : Append(s, d)[i] = s[i]
  BY <1>1
<1>6. \A q \in Peer, i \in Nat :
        i \in DOMAIN s /\ i \in DOMAIN hist[q][b] => s[i] = hist[q][b][i]
  BY DEF PromiseInv, Promise!Agreement
<1>7. ASSUME NEW q \in Peer, q # p, NEW i \in (DOMAIN Append(s, d)) \cap (DOMAIN hist[q][b])
      PROVE  Append(s, d)[i] = hist[q][b][i]
  <2>1. CASE i = n
    BY <2>1, <1>2, <1>5, <1>7
  <2>2. CASE i # n
    <3>1. i \in DOMAIN s
      BY <2>2, <1>5, <1>7
    <3> QED
      BY <3>1, <1>5, <1>7 DEF PromiseInv, Promise!Agreement
  <2> QED
    BY <2>1, <2>2
<1> HIDE DEF s, n
<1>8. Promise!Agreement'
  <2> SUFFICES ASSUME NEW q \in Peer, NEW r \in Peer, NEW c \in Node,
                      NEW i \in (DOMAIN hist'[q][c]) \cap (DOMAIN hist'[r][c])
               PROVE  hist'[q][c][i] = hist'[r][c][i]
    BY DEF Promise!Agreement
  <2>1. CASE q = r
    BY <2>1
  <2>2. CASE q # r /\ q = p /\ c = b
    BY <2>2, <1>3, <1>7
  <2>3. CASE q # r /\ r = p /\ c = b
    BY <2>3, <1>3, <1>7
  <2>4. CASE (q # p /\ r # p) \/ c # b
    BY <2>4, <1>3 DEF PromiseInv, Promise!Agreement
  <2> QED
    BY <2>1, <2>2, <2>3, <2>4
<1> QED
  BY <1>4, <1>8 DEF PromiseInv

(* The abstract battle is worth implementing: of any two copies of a battle*)
(* that follows it, whatever they decide, one is a prefix of the other.    *)
THEOREM CopiesAgree == Promise!Spec => []Promise!Agreement
<1>1. PromiseInv /\ [Promise!Next]_hist => PromiseInv'
  <2> SUFFICES ASSUME PromiseInv, [Promise!Next]_hist PROVE PromiseInv'
    OBVIOUS
  <2>1. ASSUME NEW p \in Peer, NEW b \in Node, NEW d \in Decision, Promise!Apply(p, b, d)
        PROVE  PromiseInv'
    BY <2>1, PromiseApply
  <2>2. CASE UNCHANGED hist
    BY <2>2 DEF PromiseInv, Promise!TypeOK, Promise!Agreement
  <2> QED
    BY <2>1, <2>2 DEF Promise!Next
<1>2. PromiseInv => Promise!Agreement
  BY DEF PromiseInv
<1> QED
  BY <1>1, <1>2, PromiseInit, PTL DEF Promise!Spec

-------------------------------------------------------------------------------
(* Hashes are keyed by the turns a copy has ended, so that two copies that *)
(* have not drifted have equal hashes of a turn.                           *)

Drifted == \E r \in Peer : drift[r]

Marked(p) ==
  /\ roster[p] = NoBattle => turn[p] = 0
  /\ node[p] \in joined[p] => roster[p] = node[p]
  /\ phase[p] = "boundary" /\ clock[p] = 0 => node[p] \notin joined[p]
  /\ phase[p] # "map" /\ clock[p] > 0 /\ ~halted[p] => roster[p] = node[p] /\ turn[p] = clock[p]
  /\ phase[p] = "boundary" /\ hist[p][node[p]] # <<>> =>
       hist[p][node[p]][Len(hist[p][node[p]])].act = EndTurn

(* What is hashed is a copy at the end of turn h.turn.                     *)
AtTurn(done, t) ==
  /\ Ends(done, Len(done)) = t
  /\ done # <<>> => done[Len(done)].act = EndTurn

FairHash(h) ==
  \/ Drifted
  \/ /\ h.digest.node = h.battle
     /\ h.digest.drift = {}
     /\ AtTurn(h.digest.done, h.turn)
     /\ \E p \in Peer : Begins(h.digest.done, hist[p][h.battle])

Founded == ~TablesSplit \/ Drifted

FairMessage(m) ==
  /\ m.type = "HASH" => FairHash(m.hash)
  /\ m.type = "HALT" => Founded

HashInv ==
  /\ \A p \in Peer : Marked(p)
  /\ \A p \in Peer : \A h \in myHash[p] : FairHash(h)
  /\ \A p, q \in Peer : \A h \in peerHash[p][q] : FairHash(h)
  /\ \A q \in Peer : inq[q] \in Seq({m \in Message : FairMessage(m)})
  /\ \A c \in Client : up[c] \in Seq({m \in Message : FairMessage(m)})
  /\ NoFalseHalt

-------------------------------------------------------------------------------
(* The catch-up log.  What the theorem assumes of a behaviour, besides     *)
(* NeverFull: sent_log_push always has room.                               *)
LogRoom == \A p \in Peer : Len(sentLog[p]) < MaxSentLog

LogInv ==
  \A p \in Peer, c \in Human :
    Stays(p) /\ battles[p].current \in Combat =>
      LET b == battles[p].current
      IN ActsOf(sentLog[p], c) = Released(p, b, c) \o ActsOf(pending[p][b][c], c)

-------------------------------------------------------------------------------
(* Hashes: what a copy has applied only grows.                             *)

LEMMA DriftStays ==
  ASSUME TypeInv, [Next]_vars
  PROVE  Drifted => Drifted'
BY Steady DEF Drifted

LEMMA BeginsOn ==
  ASSUME NEW S, NEW s \in Seq(S), NEW t \in Seq(S), NEW d \in S, Begins(s, t)
  PROVE  Begins(s, t) /\ Begins(s, Append(t, d))
<1>0. PICK r : r = Append(t, d)
  OBVIOUS
<1>1. /\ Len(r) = Len(t) + 1 /\ \A i \in 1 .. Len(t) : r[i] = t[i]
      /\ Len(s) \in Nat /\ Len(t) \in Nat
  BY <1>0, AppendProperties, LenProperties
<1>2. Begins(s, r)
  BY <1>1 DEF Begins
<1> QED
  BY <1>0, <1>2

LEMMA HistoryGrows ==
  ASSUME TypeInv, CopyInv, [Next]_vars, NEW p \in Peer, NEW b \in Node,
         NEW s \in Seq(Decision), Begins(s, hist[p][b])
  PROVE  Begins(s, hist'[p][b])
<1>1. CASE hist' = hist
  BY <1>1
<1>2. ASSUME NEW r \in Peer, Apply(r) PROVE Begins(s, hist'[p][b])
  <2>0. PICK t, d : t = hist[p][b] /\ d = Head(queued[r])
    OBVIOUS
  <2>1. t \in Seq(Decision) /\ d \in Decision
    BY <1>2, <2>0, TakenApplied, TakenType DEF TypeInv, CopyInv
  <2>2. hist'[p][b] = t \/ hist'[p][b] = Append(t, d)
    <3>1. /\ hist'[r][node[r]] = Append(hist[r][node[r]], Head(queued[r]))
          /\ ~(p = r /\ b = node[r]) => hist'[p][b] = hist[p][b]
      BY <1>2, TakenApplied DEF CopyInv
    <3> QED
      BY <2>0, <3>1
  <2>3. Begins(s, t) /\ Begins(s, Append(t, d))
    BY <2>0, <2>1, BeginsOn
  <2> QED
    BY <2>2, <2>3
<1> QED
  BY <1>1, <1>2, HistoryStep

-------------------------------------------------------------------------------
(* Two fair hashes of a turn are equal.                                    *)

(* A list that ends a turn more than another it agrees with is not of the  *)
(* same turn.                                                              *)
LEMMA SameEnd ==
  ASSUME NEW s \in Seq(Decision), NEW t \in Seq(Decision), NEW n \in Nat,
         Agree(s, t), AtTurn(s, n), AtTurn(t, n)
  PROVE  ~(Len(s) < Len(t))
<1> SUFFICES ASSUME Len(s) < Len(t) PROVE FALSE
  OBVIOUS
<1>1. Len(s) \in Nat /\ Len(t) \in Nat /\ DOMAIN s = 1 .. Len(s) /\ DOMAIN t = 1 .. Len(t)
  BY LenProperties
<1>2. t # <<>>
  BY <1>1, EmptySeq
<1>3. t[Len(t)].act = EndTurn
  BY <1>2 DEF AtTurn
<1>4. Ends(t, Len(s)) < Ends(t, Len(t))
  BY <1>1, <1>3, EndsPast
<1>5. \A i \in 1 .. Len(s) : t[i] = s[i]
  BY <1>1 DEF Agree
<1>6. Ends(t, Len(s)) = Ends(s, Len(s))
  BY <1>1, <1>5, EndsSame
<1>7. Ends(t, Len(s)) = n /\ Ends(t, Len(t)) = n
  BY <1>6 DEF AtTurn
<1> QED
  BY <1>4, <1>7

LEMMA BeginsAgree ==
  ASSUME NEW S, NEW s \in Seq(S), NEW t \in Seq(S), NEW u \in Seq(S), NEW v \in Seq(S),
         Begins(s, u), Begins(t, v), Agree(u, v)
  PROVE  Agree(s, t)
<1>1. /\ DOMAIN s = 1 .. Len(s) /\ DOMAIN t = 1 .. Len(t) /\ DOMAIN u = 1 .. Len(u)
      /\ DOMAIN v = 1 .. Len(v)
      /\ Len(s) \in Nat /\ Len(t) \in Nat /\ Len(u) \in Nat /\ Len(v) \in Nat
  BY LenProperties
<1> QED
  BY <1>1 DEF Begins, Agree

LEMMA HistoriesAgree ==
  ASSUME TypeInv, SameCourse, NEW p \in Peer, NEW q \in Peer, NEW b \in Node
  PROVE  Agree(hist[p][b], hist[q][b])
<1>1. \A r \in Peer : Begins(hist[r][b], Taken(r, b))
  <2> SUFFICES ASSUME NEW r \in Peer PROVE Begins(hist[r][b], Taken(r, b))
    OBVIOUS
  <2>0. PICK s, t, u : s = Taken(r, b) /\ t = hist[r][b] /\ u = IF node[r] = b THEN queued[r] ELSE <<>>
    OBVIOUS
  <2>1. s \in Seq(Decision) /\ t \in Seq(Decision) /\ u \in Seq(Decision) /\ s = t \o u
    BY <2>0, TakenType, EmptyFits DEF TypeInv, Taken
  <2> QED
    BY <2>0, <2>1, ConcatBegins
<1>2. Agree(Taken(p, b), Taken(q, b))
  BY DEF SameCourse
<1>3. /\ hist[p][b] \in Seq(Decision) /\ hist[q][b] \in Seq(Decision)
      /\ Taken(p, b) \in Seq(Decision) /\ Taken(q, b) \in Seq(Decision)
  BY TakenType DEF TypeInv
<1> QED
  BY <1>1, <1>2, <1>3, BeginsAgree

LEMMA FairEqual ==
  ASSUME TypeInv, SameCourse, ~Drifted, NEW g \in Hash, NEW h \in Hash,
         FairHash(g), FairHash(h), SameTurn(g, h)
  PROVE  g.digest = h.digest
<1>0. PICK b, n, x, y, s, t : /\ b = g.battle /\ n = g.turn /\ x = g.digest /\ y = h.digest
                              /\ s = x.done /\ t = y.done
  OBVIOUS
<1>1. /\ b \in Node /\ n \in Nat /\ x \in Digest /\ y \in Digest
      /\ s \in Seq(Decision) /\ t \in Seq(Decision)
  BY <1>0 DEF Hash, Digest
<1>2. h.battle = b /\ h.turn = n
  BY <1>0 DEF SameTurn
<1>3. /\ x.node = b /\ x.drift = {} /\ AtTurn(s, n) /\ \E p \in Peer : Begins(s, hist[p][b])
      /\ y.node = b /\ y.drift = {} /\ AtTurn(t, n) /\ \E p \in Peer : Begins(t, hist[p][b])
  BY <1>0, <1>2 DEF FairHash
<1>4. Agree(s, t) /\ Agree(t, s)
  <2>1. PICK p \in Peer, q \in Peer : Begins(s, hist[p][b]) /\ Begins(t, hist[q][b])
    BY <1>3
  <2>2. Agree(hist[p][b], hist[q][b]) /\ hist[p][b] \in Seq(Decision) /\ hist[q][b] \in Seq(Decision)
    BY <1>1, HistoriesAgree, TakenType DEF TypeInv
  <2>3. Agree(s, t)
    BY <1>1, <2>1, <2>2, BeginsAgree
  <2> QED
    BY <2>3 DEF Agree
<1>5. ~(Len(s) < Len(t)) /\ ~(Len(t) < Len(s))
  BY <1>1, <1>3, <1>4, SameEnd
<1>6. Len(s) = Len(t) /\ DOMAIN s = 1 .. Len(s) /\ DOMAIN t = 1 .. Len(t)
  BY <1>1, <1>5, LenProperties
<1>7. s = t
  BY <1>1, <1>4, <1>6, SeqEqual DEF Agree
<1>8. x = y
  <2>1. x.node = y.node /\ x.done = y.done /\ x.drift = y.drift
    BY <1>0, <1>3, <1>7
  <2>2. x \in Digest /\ y \in Digest
    BY <1>1
  <2> QED
    BY <2>1, <2>2 DEF Digest
<1> QED
  BY <1>0, <1>8

LEMMA FairStays ==
  ASSUME TypeInv, CopyInv, [Next]_vars, NEW h \in Hash, FairHash(h)
  PROVE  FairHash(h)'
<1>1. CASE Drifted
  BY <1>1, DriftStays DEF FairHash
<1>2. CASE ~Drifted
  <2>1. /\ h.digest.node = h.battle /\ h.digest.drift = {} /\ AtTurn(h.digest.done, h.turn)
        /\ h.battle \in Node /\ h.digest.done \in Seq(Decision)
    BY <1>2 DEF FairHash, Hash, Digest
  <2>2. PICK p \in Peer : Begins(h.digest.done, hist[p][h.battle])
    BY <1>2 DEF FairHash
  <2>3. Begins(h.digest.done, hist'[p][h.battle])
    BY <2>1, <2>2, HistoryGrows
  <2> QED
    BY <2>1, <2>3 DEF FairHash
<1> QED
  BY <1>1, <1>2

LEMMA FairMessageStays ==
  ASSUME TypeInv, CopyInv, [Next]_vars, NEW m \in Message, FairMessage(m)
  PROVE  FairMessage(m)'
<1>1. m.type = "HASH" => m.hash \in Hash
  BY MessageParts
<1>2. Founded => Founded'
  BY SteadyFacts, DriftStays DEF Founded
<1> QED
  BY <1>1, <1>2, FairStays DEF FairMessage

-------------------------------------------------------------------------------
(* Where a copy is when it takes a hash.                                   *)

LEMMA SplitTrue ==
  ASSUME NEW ctl, TablesSplit, \A q \in Peer : ctl[q].cats = Claims(q)
  PROVE  SplitAgrees(ctl)
BY DEF SplitAgrees, TablesSplit, Claims

(* A hash is keyed by the turns its copy has ended, unless the peer has    *)
(* stopped.                                                                *)
LEMMA KeyIsClock ==
  ASSUME TypeInv, GateInv, NEW p \in Peer, Marked(p), Boundary(p), ~halted[p]
  PROVE  Key(p) = clock[p]
<1>1. phase[p] = "boundary" /\ node[p] \in Node /\ clock[p] \in Nat
  BY DEF Boundary, TakeRoster, NextTurn, TypeInv, TypeOK, InBattle
<1>2. CASE TakeRoster(p)
  <2>1. roster[p] # node[p]
    BY <1>1, <1>2, NoneIsNoNode DEF TakeRoster
  <2>2. clock[p] = 0
    BY <1>1, <2>1 DEF Marked
  <2>3. roster[p] = NoBattle => turn[p] = 0
    BY DEF Marked
  <2> QED
    BY <2>1, <2>2, <2>3 DEF Key
<1>3. CASE NextTurn(p)
  <2>1. roster[p] = node[p] /\ roster[p] # NoBattle
    BY <1>3 DEF NextTurn
  <2>2. node[p] \in joined[p]
    BY <2>1 DEF GateInv, OwnRoster
  <2>3. turn[p] = clock[p]
    BY <1>1, <2>2 DEF Marked
  <2> QED
    BY <2>1, <2>3 DEF Key
<1> QED
  BY <1>2, <1>3 DEF Boundary

(* It reads a copy at the end of that turn.                                *)
LEMMA BuiltAt ==
  ASSUME TypeInv, GateInv, CopyInv, NEW p \in Peer, Marked(p), Boundary(p), ~halted[p],
         NEW h, h = BuildHash(p, Key(p))
  PROVE  /\ h.battle = node[p] /\ h.turn = Key(p) /\ h.digest.node = h.battle
         /\ h.digest.drift = IF drift[p] THEN {p} ELSE {}
         /\ AtTurn(h.digest.done, h.turn)
         /\ Begins(h.digest.done, hist[p][h.battle])
<1>1. phase[p] = "boundary" /\ node[p] \in Node /\ node[p] = battles[p].current
  BY DEF Boundary, TakeRoster, NextTurn, TypeInv, InBattle
<1>2. PICK b, k, s : b = node[p] /\ k = clock[p] /\ s = hist[p][b]
  OBVIOUS
<1>3. /\ h.battle = b /\ h.turn = k /\ k = Key(p) /\ h.digest.node = b /\ h.digest.done = s
      /\ h.digest.drift = IF drift[p] THEN {p} ELSE {}
  BY <1>1, <1>2, KeyIsClock DEF BuildHash, Reading
<1>4. AtTurn(s, k)
  <2>1. Ends(s, Len(s)) = k
    BY <1>1, <1>2 DEF CopyInv, Copy, Paced, Over
  <2>2. s # <<>> => s[Len(s)].act = EndTurn
    BY <1>1, <1>2 DEF Marked
  <2> QED
    BY <2>1, <2>2 DEF AtTurn
<1>5. Begins(s, s)
  <2>1. s \in Seq(Decision)
    BY <1>1, <1>2, TakenType DEF TypeInv
  <2>2. Len(s) \in Nat
    BY <2>1, LenProperties
  <2> QED
    BY <2>2 DEF Begins
<1> QED
  BY <1>2, <1>3, <1>4, <1>5

LEMMA BuiltFair ==
  ASSUME TypeInv, GateInv, CopyInv, NEW p \in Peer, Marked(p), Boundary(p), ~halted[p]
  PROVE  FairHash(BuildHash(p, Key(p)))
<1>0. PICK h : h = BuildHash(p, Key(p))
  OBVIOUS
<1>1. /\ h.digest.node = h.battle /\ (drift[p] \/ h.digest.drift = {})
      /\ AtTurn(h.digest.done, h.turn) /\ Begins(h.digest.done, hist[p][h.battle])
  BY <1>0, BuiltAt
<1>2. FairHash(h)
  BY <1>1 DEF FairHash, Drifted
<1> QED
  BY <1>0, <1>2

(* What a boundary does to the roster, the turn and the rings, and why it  *)
(* may stop the peer.                                                      *)
Clashes(p, h) ==
  \E q \in Peer : \E g \in peerHash[p][q] : SameTurn(g, h) /\ g.digest # h.digest

Counted(p) ==
  LET h == BuildHash(p, Key(p)) IN
  /\ roster'[p] # NoBattle
  /\ halted[p] \/ roster'[p] = node[p]
  /\ ~halted'[p] => turn'[p] = Key(p) + 1
  /\ \A g \in myHash'[p] : g \in myHash[p] \/ (~halted[p] /\ g = h)
  /\ \A q \in Peer : peerHash'[p][q] \subseteq peerHash[p][q]
  /\ halted'[p] /\ ~halted[p] => ~TablesSplit \/ Clashes(p, h)

LEMMA HashTurnCounts ==
  ASSUME TypeInv, NEW p \in Peer, NEW t \in Nat, NEW own, NEW held \in [Peer -> SUBSET Hash],
         NEW stopped, HashTurn(p, t, own, held, stopped)
  PROVE  /\ ~stopped => turn'[p] = t + 1
         /\ \A g \in myHash'[p] : g \in own \/ (~stopped /\ g = BuildHash(p, t))
         /\ \A q \in Peer : peerHash'[p][q] \subseteq held[q]
         /\ \A r \in Peer : r # p => turn'[r] = turn[r] /\ myHash'[r] = myHash[r]
                                     /\ peerHash'[r] = peerHash[r]
<1>0. PICK h : h = BuildHash(p, t)
  OBVIOUS
<1>1. TypeOK
  BY DEF TypeInv
<1>2. CASE stopped
  <2>1. /\ turn' = [turn EXCEPT ![p] = t] /\ myHash' = [myHash EXCEPT ![p] = own]
        /\ peerHash' = [peerHash EXCEPT ![p] = held]
    BY <1>2 DEF HashTurn
  <2> QED
    BY <1>1, <1>2, <2>1 DEF TypeOK
<1>3. CASE ~stopped
  <2>1. /\ turn' = [turn EXCEPT ![p] = t + 1]
        /\ myHash' = [myHash EXCEPT ![p] = PushEvicting(own, h)]
        /\ peerHash' = [peerHash EXCEPT ![p] = Compared(p, h, held)]
    BY <1>0, <1>3 DEF HashTurn
  <2>2. \A g \in PushEvicting(own, h) : g \in own \/ g = h
    BY DEF PushEvicting
  <2>3. \A q \in Peer : Compared(p, h, held)[q] \subseteq held[q]
    BY DEF Compared
  <2> QED
    BY <1>0, <1>1, <1>3, <2>1, <2>2, <2>3 DEF TypeOK
<1> QED
  BY <1>2, <1>3

LEMMA TakeRosterCounts ==
  ASSUME TypeInv, GateInv, NEW p \in Peer, TakeRoster(p)
  PROVE  Counted(p)
<1> DEFINE fresh == roster[p] # NoBattle
           drops(id) == fresh /\ Stale(p, id)
           mine == [battle |-> battles[p].current, cats |-> Claims(p)]
           ctl == [q \in Peer |-> IF q = p THEN mine
                                  ELSE IF drops(control[p][q].battle) THEN NoControl
                                  ELSE control[p][q]]
           checks == AllReported(ctl, battles[p].current)
           bad == checks /\ ~SplitAgrees(ctl)
           stopped == halted[p] \/ bad
           t == IF fresh THEN 0 ELSE turn[p]
           own == IF fresh THEN {} ELSE myHash[p]
           held == [q \in Peer |-> {g \in peerHash[p][q] : ~drops(g.battle)}]
           differs == ~stopped /\ Mismatch(p, BuildHash(p, t), held)
           h == BuildHash(p, t)
<1>1. /\ phase[p] = "boundary"
      /\ roster[p] = NoBattle \/ (~halted[p] /\ roster[p] # node[p])
      /\ roster' = [roster EXCEPT ![p] = node[p]]
      /\ halted' = [halted EXCEPT ![p] = halted[p] \/ bad \/ differs]
      /\ HashTurn(p, t, own, held, stopped)
  BY DEF TakeRoster
<1>2. node[p] \in Node /\ battles[p].current = node[p] /\ node[p] # NoBattle
  BY <1>1, NoneIsNoNode DEF TypeInv, InBattle
<1>3. bad => ~TablesSplit
  <2> SUFFICES ASSUME checks, TablesSplit PROVE SplitAgrees(ctl)
    OBVIOUS
  <2>1. ASSUME NEW q \in Peer PROVE ctl[q].cats = Claims(q)
    <3>1. CASE q = p
      BY <3>1
    <3>2. CASE q # p
      <4>1. ctl[q].battle = node[p]
        BY <1>2 DEF AllReported
      <4>2. ctl[q] = control[p][q]
        BY <3>2, <4>1, <1>2 DEF NoControl
      <4> QED
        BY <4>1, <4>2, <1>2 DEF GateInv, Filed
    <3> QED
      BY <3>1, <3>2
  <2> HIDE DEF ctl
  <2> QED
    BY <2>1, SplitTrue
<1>4. stopped = (halted[p] \/ bad) /\ (differs => ~stopped /\ Mismatch(p, h, held))
      /\ (~stopped /\ Mismatch(p, h, held) => differs)
  OBVIOUS
<1>5. ~stopped => t = Key(p) /\ ~halted[p]
  <2> HIDE DEF bad
  <2> QED
    BY <1>1, <1>2 DEF Key
<1>6. t \in Nat
  BY DEF TypeInv, TypeOK
<1>7. \A g \in own : g \in myHash[p]
  OBVIOUS
<1>8. held \in [Peer -> SUBSET Hash] /\ \A q \in Peer : held[q] \subseteq peerHash[p][q]
  BY DEF TypeInv, TypeOK
<1> HIDE DEF fresh, drops, mine, ctl, checks, bad, stopped, t, own, held, differs, h
<1>9. /\ ~stopped => turn'[p] = t + 1
      /\ \A g \in myHash'[p] : g \in own \/ (~stopped /\ g = BuildHash(p, t))
      /\ \A q \in Peer : peerHash'[p][q] \subseteq held[q]
  BY <1>1, <1>6, <1>8, HashTurnCounts
<1>10. Mismatch(p, h, held) => Clashes(p, h)
  BY <1>8 DEF Mismatch, Disagrees, Clashes
<1>11. roster'[p] = node[p] /\ (halted'[p] <=> halted[p] \/ bad \/ differs)
  BY <1>1 DEF TypeInv, TypeOK
<1>12. ~halted'[p] => ~stopped
  BY <1>4, <1>11
<1>13. ~stopped => h = BuildHash(p, Key(p))
  BY <1>5 DEF h
<1> QED
  BY <1>2, <1>3, <1>4, <1>5, <1>7, <1>8, <1>9, <1>10, <1>11, <1>12, <1>13 DEF Counted, h

LEMMA NextTurnCounts ==
  ASSUME TypeInv, GateInv, NEW p \in Peer, NextTurn(p)
  PROVE  Counted(p)
<1>0. PICK t, h, held : t = turn[p] /\ h = BuildHash(p, t) /\ held = peerHash[p]
  OBVIOUS
<1>1. /\ roster[p] # NoBattle /\ roster' = roster
      /\ halted[p] \/ roster[p] = node[p]
      /\ HashTurn(p, t, myHash[p], held, halted[p])
      /\ halted' = [halted EXCEPT ![p] = halted[p] \/ Mismatch(p, h, held)]
  BY <1>0 DEF NextTurn, rosterVars
<1>2. t \in Nat /\ held \in [Peer -> SUBSET Hash]
  BY <1>0 DEF TypeInv, TypeOK
<1>3. /\ ~halted[p] => turn'[p] = t + 1
      /\ \A g \in myHash'[p] : g \in myHash[p] \/ (~halted[p] /\ g = BuildHash(p, t))
      /\ \A q \in Peer : peerHash'[p][q] \subseteq held[q]
  BY <1>1, <1>2, HashTurnCounts
<1>4. Mismatch(p, h, held) => Clashes(p, h)
  BY <1>0 DEF Mismatch, Disagrees, Clashes
<1>5. ~halted[p] => t = Key(p)
  BY <1>0, <1>1 DEF Key
<1>6. halted'[p] <=> halted[p] \/ Mismatch(p, h, held)
  BY <1>1 DEF TypeInv, TypeOK
<1> QED
  BY <1>0, <1>1, <1>3, <1>4, <1>5, <1>6 DEF Counted

(* Nothing of another peer's changes at a boundary of p's.                 *)
LEMMA BoundaryAlone ==
  ASSUME TypeInv, NEW p \in Peer, Boundary(p), NEW q \in Peer, q # p
  PROVE  /\ roster'[q] = roster[q] /\ joined'[q] = joined[q] /\ turn'[q] = turn[q]
         /\ myHash'[q] = myHash[q] /\ peerHash'[q] = peerHash[q] /\ halted'[q] = halted[q]
<1>1. TypeOK
  BY DEF TypeInv
<1>2. PICK t, own, held, stopped : HashTurn(p, t, own, held, stopped)
  BY DEF Boundary, TakeRoster, NextTurn
<1>3. PICK x, y, z : turn' = [turn EXCEPT ![p] = x] /\ myHash' = [myHash EXCEPT ![p] = y]
                     /\ peerHash' = [peerHash EXCEPT ![p] = z]
  BY <1>2 DEF HashTurn
<1>4. turn'[q] = turn[q] /\ myHash'[q] = myHash[q] /\ peerHash'[q] = peerHash[q]
  BY <1>1, <1>3 DEF TypeOK
<1>5. roster'[q] = roster[q] /\ joined'[q] = joined[q] /\ halted'[q] = halted[q]
  BY <1>1 DEF Boundary, TakeRoster, NextTurn, rosterVars, TypeOK
<1> QED
  BY <1>4, <1>5

LEMMA BoundaryCounts ==
  ASSUME TypeInv, GateInv, NEW p \in Peer, Boundary(p)
  PROVE  Counted(p)
BY TakeRosterCounts, NextTurnCounts DEF Boundary

-------------------------------------------------------------------------------
(* Marked: the turn, the roster and the clock of a peer go together.       *)

LEMMA MarkedFrame ==
  ASSUME NEW p \in Peer, Marked(p), Idle(p), roster'[p] = roster[p], joined'[p] = joined[p],
         turn'[p] = turn[p], halted[p] => halted'[p]
  PROVE  Marked(p)'
BY DEF Marked, Idle

LEMMA MarkedEnter ==
  ASSUME TypeInv, NEW p \in Peer, NEW n \in Node, Marked(p), Untouched(p, n),
         phase[p] = "map", EnterNode(p, n),
         hist' = hist, roster' = roster, joined' = joined, turn' = turn, halted' = halted
  PROVE  Marked(p)'
<1>1. CASE n \in Combat
  <2>1. node'[p] = n /\ phase'[p] = "boundary" /\ clock'[p] = 0
    BY <1>1 DEF EnterNode, TypeInv, TypeOK
  <2>2. hist[p][n] = <<>> /\ n \notin joined[p]
    BY DEF Untouched
  <2> QED
    BY <2>1, <2>2 DEF Marked
<1>2. CASE n \notin Combat
  BY <1>2 DEF EnterNode, Marked
<1> QED
  BY <1>1, <1>2

LEMMA MarkedBoundary ==
  ASSUME TypeInv, GateInv, NEW p \in Peer, Marked(p), Boundary(p)
  PROVE  Marked(p)'
<1>1. /\ phase'[p] = "turn" /\ clock'[p] = clock[p] + 1 /\ clock[p] \in Nat
      /\ node' = node /\ hist' = hist
      /\ joined'[p] = joined[p] \/ roster'[p] = node[p]
      /\ roster'[p] = roster[p] \/ roster'[p] = node[p]
      /\ halted[p] => halted'[p]
  BY DEF Boundary, TakeRoster, NextTurn, BeginTurn, rosterVars, TypeInv, TypeOK
<1>2. /\ roster'[p] # NoBattle /\ (halted[p] \/ roster'[p] = node[p])
      /\ ~halted'[p] => turn'[p] = Key(p) + 1
  BY BoundaryCounts DEF Counted
<1>3. ~halted'[p] => turn'[p] = clock'[p]
  BY <1>1, <1>2, KeyIsClock
<1>4. node[p] \in joined'[p] => roster'[p] = node[p]
  BY <1>1 DEF Marked
<1> QED
  BY <1>1, <1>2, <1>3, <1>4 DEF Marked

LEMMA MarkedApply ==
  ASSUME TypeInv, CopyInv, NEW p \in Peer, Marked(p), Apply(p)
  PROVE  Marked(p)'
<1>1. /\ phase[p] = "turn" /\ node' = node /\ clock' = clock /\ roster' = roster
      /\ joined' = joined /\ turn' = turn /\ halted' = halted
      /\ phase'[p] = "boundary" => Head(queued[p]).act = EndTurn
  BY DEF Apply, rosterVars, hashVars, TypeInv, TypeOK, InBattle
<1>2. clock[p] \in 1 .. LastTurn
  BY <1>1 DEF CopyInv, Copy, Paced
<1>3. PICK s, d : s = hist[p][node[p]] /\ d = Head(queued[p])
  OBVIOUS
<1>4. /\ hist'[p][node[p]] = Append(s, d) /\ s \in Seq(Decision) /\ d \in Decision
  BY <1>3, TakenApplied, TakenType DEF CopyInv, TypeInv
<1>5. Len(Append(s, d)) = Len(s) + 1 /\ Append(s, d)[Len(s) + 1] = d
  BY <1>4, AppendProperties
<1>6. phase'[p] = "boundary" => hist'[p][node[p]][Len(hist'[p][node[p]])].act = EndTurn
  BY <1>1, <1>3, <1>4, <1>5
<1>7. clock[p] > 0
  BY <1>2, LastTurnType
<1> QED
  BY <1>1, <1>6, <1>7 DEF Marked

LEMMA MarkedStep ==
  ASSUME TypeInv, GateInv, CopyInv, RoadInv, \A p \in Peer : Marked(p), [Next]_vars,
         NEW q \in Peer
  PROVE  Marked(q)'
<1>0. Marked(q) /\ (halted[q] => halted'[q])
  BY Steady
<1>1. ASSUME NEW n \in Node, HostEnterNode(n) PROVE Marked(q)'
  <2>1. /\ roster' = roster /\ joined' = joined /\ turn' = turn /\ halted' = halted /\ hist' = hist
        /\ phase[Host] = "map" /\ EnterNode(Host, n) /\ Host \in Peer
    BY <1>1, HostIsPeer DEF HostEnterNode, rosterVars, hashVars
  <2>2. CASE q = Host
    BY <2>1, <2>2, <1>0, <1>1, EntersUntouched, MarkedEnter
  <2>3. CASE q # Host
    <3>1. Idle(q)
      BY <1>1, <2>1, <2>3, OthersIdle
    <3> QED
      BY <3>1, <2>1, <1>0, MarkedFrame
  <2> QED
    BY <2>2, <2>3
<1>2. ASSUME NEW c \in Client, FollowNode(c) PROVE Marked(q)'
  <2>1. /\ roster' = roster /\ joined' = joined /\ turn' = turn /\ halted' = halted /\ hist' = hist
        /\ phase[c] = "map" /\ EnterNode(c, Head(nodeQ[c])) /\ c \in Peer
    BY <1>2, HostIsPeer DEF FollowNode, rosterVars, hashVars
  <2>2. CASE q = c
    BY <2>1, <2>2, <1>0, <1>2, EntersUntouched, MarkedEnter
  <2>3. CASE q # c
    <3>1. Idle(q)
      BY <1>2, <2>1, <2>3, OthersIdle
    <3> QED
      BY <3>1, <2>1, <1>0, MarkedFrame
  <2> QED
    BY <2>2, <2>3
<1>3. ASSUME NEW p \in Peer, Boundary(p) PROVE Marked(q)'
  <2>1. CASE q = p
    BY <2>1, <1>0, <1>3, MarkedBoundary
  <2>2. CASE q # p
    BY <2>2, <1>0, <1>3, OthersIdle, BoundaryAlone, MarkedFrame
  <2> QED
    BY <2>1, <2>2
<1>4. ASSUME NEW p \in Peer, Decide(p) PROVE Marked(q)'
  <2>1. /\ roster' = roster /\ joined' = joined /\ turn' = turn
        /\ phase[p] = "turn" /\ queued[p] = <<>>
    BY <1>4, DecideReleases DEF Decide, DecideAI, DecideLocal, ApplyRemote, hashVars
  <2>2. CASE q # p
    BY <2>1, <2>2, <1>0, <1>4, OthersIdle, MarkedFrame
  <2>3. CASE q = p
    <3>1. phase'[p] = phase[p] /\ node' = node /\ clock' = clock /\ hist' = hist
      BY <1>4, DecideReleases DEF Release, gameVars
    <3> QED
      BY <2>1, <2>3, <3>1, <1>0 DEF Marked
  <2> QED
    BY <2>2, <2>3
<1>5. ASSUME NEW p \in Peer, Apply(p) PROVE Marked(q)'
  <2>1. CASE q = p
    BY <2>1, <1>0, <1>5, MarkedApply
  <2>2. CASE q # p
    <3>1. roster' = roster /\ joined' = joined /\ turn' = turn
      BY <1>5 DEF Apply, rosterVars, hashVars
    <3> QED
      BY <2>2, <3>1, <1>0, <1>5, OthersIdle, MarkedFrame
  <2> QED
    BY <2>1, <2>2
<1>6. CASE \/ \E c \in Client : LinkReceive(c)
           \/ \E p \in Peer : PumpStep(p) \/ Diverge(p)
           \/ UNCHANGED vars
  <2>1. Idle(q)
    BY <1>6, AllIdle
  <2>2. roster' = roster /\ joined' = joined /\ turn' = turn
    <3>1. ASSUME NEW c \in Client, LinkReceive(c) PROVE roster' = roster /\ joined' = joined /\ turn' = turn
      BY <3>1 DEF LinkReceive, rosterVars, hashVars
    <3>2. ASSUME NEW p \in Peer, PumpStep(p) PROVE roster' = roster /\ joined' = joined /\ turn' = turn
      BY <3>2 DEF PumpStep, Pump, OnEnterNode, OnControl, OnAction, OnHash, OnHalt,
                  rosterVars, hashVars
    <3>3. ASSUME NEW p \in Peer, Diverge(p) PROVE roster' = roster /\ joined' = joined /\ turn' = turn
      BY <3>3 DEF Diverge, rosterVars, hashVars
    <3>4. CASE UNCHANGED vars
      BY <3>4 DEF vars, rosterVars, hashVars
    <3> QED
      BY <1>6, <3>1, <3>2, <3>3, <3>4
  <2> QED
    BY <2>1, <2>2, <1>0, MarkedFrame
<1> QED
  BY <1>1, <1>2, <1>3, <1>4, <1>5, <1>6 DEF Next

-------------------------------------------------------------------------------
(* A peer stops over a real fault.                                         *)

LEMMA HeardFair ==
  ASSUME TypeInv, HashInv, NEW p \in Peer, PumpStep(p)
  PROVE  Head(inq[p]) \in Message /\ FairMessage(Head(inq[p]))
<1>1. inq[p] \in Seq({m \in Message : FairMessage(m)}) /\ inq[p] # <<>>
  BY DEF HashInv, PumpStep
<1>2. Head(inq[p]) \in {m \in Message : FairMessage(m)}
  BY <1>1, HeadTailProperties
<1> QED
  BY <1>2

LEMMA ControlHalts ==
  ASSUME TypeInv, GateInv, NEW p \in Peer, NEW m, Polls(p, m), OnControl(p, m),
         halted'[p], ~halted[p]
  PROVE  ~TablesSplit
<1> SUFFICES ASSUME TablesSplit PROVE FALSE
  OBVIOUS
<1> DEFINE stale == Stale(p, m.control.battle)
           ctl == IF stale THEN control[p]
                  ELSE [control[p] EXCEPT ![m.from] = m.control]
           checks == /\ ~stale /\ ~controlChecked[p] /\ roster[p] # NoBattle
                     /\ AllReported(ctl, battles[p].current)
           bad == checks /\ ~SplitAgrees(ctl)
<1>1. halted' = [halted EXCEPT ![p] = halted[p] \/ bad]
  BY DEF OnControl
<1>2. bad
  <2> HIDE DEF bad
  <2> QED
    BY <1>1 DEF TypeInv, TypeOK
<1>3. /\ ctl = control[p] \/ ctl = [control[p] EXCEPT ![m.from] = m.control]
      /\ roster[p] # NoBattle /\ AllReported(ctl, battles[p].current) /\ ~SplitAgrees(ctl)
  BY <1>2
<1> HIDE DEF ctl, checks, stale, bad
<1>4. Grows
  BY DEF OnControl, Grows
<1>5. m \in Message /\ m.from \in Peer /\ m.from # p /\ Truthful(m) /\ m.type = "CONTROL"
  BY <1>4, PumpKeeps, MessageParts DEF Inbox, OnControl, GateInv, TypeInv
<1>6. control[p] \in [Peer -> Control]
  BY DEF TypeInv, TypeOK
<1>7. ctl[p] = control[p][p]
  BY <1>3, <1>5, <1>6
<1>8. battles[p].current # NoBattle
  BY <1>3, <1>7 DEF AllReported, GateInv, OwnRoster
<1>9. \A q \in Peer : ctl[q].cats = Claims(q)
  BY <1>3, <1>5, <1>6, <1>8 DEF AllReported, GateInv, Filed, Truthful
<1> QED
  BY <1>3, <1>9, SplitTrue

LEMMA HashHalts ==
  ASSUME TypeInv, SameCourse, HashInv, NEW p \in Peer, PumpStep(p), OnHash(p, Head(inq[p])),
         halted'[p], ~halted[p]
  PROVE  Drifted
<1> SUFFICES ASSUME ~Drifted PROVE FALSE
  OBVIOUS
<1>0. PICK m, h : m = Head(inq[p]) /\ h = m.hash
  OBVIOUS
<1>1. m \in Message /\ FairMessage(m) /\ m.type = "HASH"
  BY <1>0, HeardFair DEF OnHash
<1>2. h \in Hash /\ FairHash(h)
  BY <1>0, <1>1, MessageParts DEF FairMessage
<1>3. Disagrees(h, myHash[p])
  BY <1>0 DEF OnHash, TypeInv, TypeOK
<1>4. PICK g \in myHash[p] : SameTurn(g, h) /\ g.digest # h.digest
  BY <1>3 DEF Disagrees
<1>5. g \in Hash /\ FairHash(g)
  BY DEF TypeInv, TypeOK, HashInv
<1> QED
  BY <1>2, <1>4, <1>5, FairEqual

LEMMA BoundaryHalts ==
  ASSUME TypeInv, GateInv, CopyInv, SameCourse, HashInv, NEW p \in Peer, Boundary(p),
         halted'[p], ~halted[p]
  PROVE  Founded
<1>0. PICK h : h = BuildHash(p, Key(p))
  OBVIOUS
<1>1. Marked(p)
  BY DEF HashInv
<1>2. FairHash(h)
  BY <1>0, <1>1, BuiltFair
<1>3. node[p] \in Node /\ battles[p].current \in Node
  BY DEF Boundary, TakeRoster, NextTurn, TypeInv, TypeOK, InBattle
<1>4. h \in Hash
  BY <1>0, <1>3, KeyType, HashType DEF TypeInv
<1>5. Clashes(p, h) => Drifted
  <2> SUFFICES ASSUME ~Drifted, NEW q \in Peer, NEW g \in peerHash[p][q],
                      SameTurn(g, h), g.digest # h.digest
               PROVE  FALSE
    BY DEF Clashes
  <2>1. g \in Hash /\ FairHash(g)
    BY DEF TypeInv, TypeOK, HashInv
  <2> QED
    BY <1>2, <1>4, <2>1, FairEqual
<1>6. ~TablesSplit \/ Clashes(p, h)
  BY <1>0, BoundaryCounts DEF Counted
<1> QED
  BY <1>5, <1>6 DEF Founded

LEMMA HaltFounded ==
  ASSUME TypeInv, GateInv, CopyInv, MailInv, AgreeInv, HashInv, [Next]_vars, NEW p \in Peer,
         halted'[p], ~halted[p]
  PROVE  Founded
<1>1. TypeOK /\ SameCourse
  BY DEF TypeInv, AgreeInv
<1>2. ASSUME halted' = halted PROVE FALSE
  BY <1>2
<1>3. ASSUME NEW r \in Peer, NEW x, halted' = [halted EXCEPT ![r] = x] PROVE r = p
  BY <1>1, <1>3 DEF TypeOK
<1>4. ASSUME NEW r \in Peer, PumpStep(r) PROVE Founded
  <2>0. PICK m : m = Head(inq[r])
    OBVIOUS
  <2>1. Polls(r, m)
    BY <1>4, <2>0 DEF PumpStep, Pump
  <2>2. CASE OnEnterNode(r, m) \/ OnAction(r, m)
    BY <2>2, <1>2 DEF OnEnterNode, OnAction
  <2>3. CASE OnControl(r, m)
    <3>1. r = p
      BY <2>3, <1>3 DEF OnControl
    <3> QED
      BY <2>1, <2>3, <3>1, ControlHalts DEF Founded
  <2>4. CASE OnHash(r, m)
    <3>1. r = p
      BY <2>4, <1>3 DEF OnHash
    <3> QED
      BY <1>1, <1>4, <2>0, <2>4, <3>1, HashHalts DEF Founded
  <2>5. CASE OnHalt(r, m)
    BY <1>4, <2>0, <2>5, HeardFair DEF OnHalt, FairMessage
  <2> QED
    BY <1>4, <2>0, <2>2, <2>3, <2>4, <2>5 DEF PumpStep, Pump
<1>5. ASSUME NEW r \in Peer, Boundary(r) PROVE Founded
  <2>1. r = p
    BY <1>5, BoundaryAlone
  <2> QED
    BY <1>1, <1>5, <2>1, BoundaryHalts
<1>6. ASSUME NEW r \in Peer, ApplyRemote(r) PROVE Founded
  <2>1. /\ HumanPolled(r) /\ Offered(r) # <<>>
        /\ ~OnSameCopy(r, [cat |-> Actor(r), act |-> Head(Offered(r)).act])
    BY <1>6, <1>2 DEF ApplyRemote
  <2> QED
    BY <2>1, OwnerSameCopy DEF Founded, Drifted
<1>7. ASSUME NEW r \in Peer, DecideAI(r) \/ (\E act \in Act : DecideLocal(r, act)) \/ Apply(r) \/ Diverge(r)
      PROVE  FALSE
  BY <1>2, <1>7 DEF DecideAI, DecideLocal, Apply, Diverge
<1>8. ASSUME NEW n \in Node, HostEnterNode(n) PROVE FALSE
  BY <1>2, <1>8 DEF HostEnterNode
<1>9. ASSUME NEW c \in Client, FollowNode(c) \/ LinkReceive(c) PROVE FALSE
  BY <1>2, <1>9 DEF FollowNode, LinkReceive
<1>10. CASE UNCHANGED vars
  BY <1>2, <1>10 DEF vars
<1> QED
  BY <1>4, <1>5, <1>6, <1>7, <1>8, <1>9, <1>10 DEF Next, Decide

-------------------------------------------------------------------------------
(* The rings and the links hold fair hashes only.                          *)

LEMMA RingsStep ==
  ASSUME TypeInv, GateInv, CopyInv, HashInv, [Next]_vars
  PROVE  /\ \A p \in Peer : \A h \in myHash'[p] : FairHash(h)
         /\ \A p, q \in Peer : \A h \in peerHash'[p][q] : FairHash(h)
<1>1. CASE myHash' = myHash /\ peerHash' = peerHash
  BY <1>1 DEF HashInv
<1>2. ASSUME NEW p \in Peer, Boundary(p)
      PROVE  /\ \A r \in Peer : \A h \in myHash'[r] : FairHash(h)
             /\ \A r, q \in Peer : \A h \in peerHash'[r][q] : FairHash(h)
  <2>1. Counted(p) /\ Marked(p)
    BY <1>2, BoundaryCounts DEF HashInv
  <2>2. \A h \in myHash'[p] : FairHash(h)
    BY <1>2, <2>1, BuiltFair DEF Counted, HashInv
  <2>3. \A q \in Peer : \A h \in peerHash'[p][q] : FairHash(h)
    BY <2>1 DEF Counted, HashInv
  <2>4. \A r \in Peer : r # p => myHash'[r] = myHash[r] /\ peerHash'[r] = peerHash[r]
    BY <1>2, BoundaryAlone
  <2> QED
    BY <2>2, <2>3, <2>4 DEF HashInv
<1>3. ASSUME NEW p \in Peer, PumpStep(p)
      PROVE  /\ \A r \in Peer : \A h \in myHash'[r] : FairHash(h)
             /\ \A r, q \in Peer : \A h \in peerHash'[r][q] : FairHash(h)
  <2>0. PICK m : m = Head(inq[p])
    OBVIOUS
  <2>1. CASE OnHash(p, m)
    <3>1. m \in Message /\ m.type = "HASH" /\ m.from \in Peer /\ FairHash(m.hash)
      BY <1>3, <2>0, <2>1, HeardFair, MessageParts DEF OnHash, FairMessage
    <3>2. /\ myHash' = myHash
          /\ peerHash' = peerHash \/ peerHash' = [peerHash EXCEPT ![p][m.from] = PushRefusing(peerHash[p][m.from], m.hash)]
      BY <2>1 DEF OnHash
    <3>3. \A g \in PushRefusing(peerHash[p][m.from], m.hash) : g \in peerHash[p][m.from] \/ g = m.hash
      BY DEF PushRefusing
    <3>4. \A r, q \in Peer : \A h \in peerHash'[r][q] : h \in peerHash[r][q] \/ h = m.hash
      <4>0. PICK u, o : u = PushRefusing(peerHash[p][m.from], m.hash) /\ o = m.from
        OBVIOUS
      <4>1. peerHash \in [Peer -> [Peer -> SUBSET Hash]] /\ o \in Peer
        BY <3>1, <4>0 DEF TypeInv, TypeOK
      <4>2. peerHash' = peerHash \/ peerHash' = [peerHash EXCEPT ![p][o] = u]
        BY <3>2, <4>0
      <4>3. \A g \in u : g \in peerHash[p][o] \/ g = m.hash
        BY <3>3, <4>0
      <4>4. ASSUME NEW r \in Peer, NEW q \in Peer
            PROVE  peerHash'[r][q] = peerHash[r][q] \/ (r = p /\ q = o /\ peerHash'[r][q] = u)
        BY <4>1, <4>2
      <4> QED
        BY <4>3, <4>4
    <3> QED
      BY <3>1, <3>2, <3>4 DEF HashInv
  <2>2. CASE OnEnterNode(p, m) \/ OnControl(p, m) \/ OnAction(p, m) \/ OnHalt(p, m)
    BY <2>2, <1>1 DEF OnEnterNode, OnControl, OnAction, OnHalt, hashVars
  <2> QED
    BY <1>3, <2>0, <2>1, <2>2 DEF PumpStep, Pump
<1>4. ASSUME NEW p \in Peer, Decide(p) \/ Apply(p) \/ Diverge(p)
      PROVE  myHash' = myHash /\ peerHash' = peerHash
  BY <1>4 DEF Decide, DecideAI, DecideLocal, ApplyRemote, Apply, Diverge, hashVars
<1>5. ASSUME NEW n \in Node, HostEnterNode(n) PROVE myHash' = myHash /\ peerHash' = peerHash
  BY <1>5 DEF HostEnterNode, hashVars
<1>6. ASSUME NEW c \in Client, FollowNode(c) \/ LinkReceive(c)
      PROVE  myHash' = myHash /\ peerHash' = peerHash
  BY <1>6 DEF FollowNode, LinkReceive, hashVars
<1>7. CASE UNCHANGED vars
  BY <1>1, <1>7 DEF vars, hashVars
<1> QED
  BY <1>1, <1>2, <1>3, <1>4, <1>5, <1>6, <1>7 DEF Next

LEMMA FairLinksStep ==
  ASSUME TypeInv, GateInv, CopyInv, MailInv, AgreeInv, HashInv, [Next]_vars
  PROVE  /\ \A q \in Peer : inq'[q] \in Seq({m \in Message : FairMessage(m)'})
         /\ \A c \in Client : up'[c] \in Seq({m \in Message : FairMessage(m)'})
<1>0. PICK Fair, In, Out, Said :
        /\ Fair = {m \in Message : FairMessage(m)'}
        /\ In = [q \in Peer |-> Fair] /\ Out = [c \in Client |-> Fair] /\ Said = [p \in Peer |-> Fair]
  OBVIOUS
<1>1. {m \in Message : FairMessage(m)} \subseteq Fair
  BY <1>0, FairMessageStays
<1>2. \A q \in Peer : inq[q] \in Seq(In[q])
  <2> SUFFICES ASSUME NEW q \in Peer PROVE inq[q] \in Seq(Fair)
    BY <1>0
  <2>1. inq[q] \in Seq({m \in Message : FairMessage(m)})
    BY DEF HashInv
  <2> QED
    BY <1>1, <2>1, SeqMonotonic
<1>3. ASSUME NEW c \in Client PROVE up[c] \in Seq(Fair)
  <2>1. up[c] \in Seq({m \in Message : FairMessage(m)})
    BY DEF HashInv
  <2> QED
    BY <1>1, <2>1, SeqMonotonic
<1>4. \A c \in Client : up[c] \in Seq(Out[c])
  BY <1>0, <1>3
<1>5. \A c \in Client : LinkReceive(c) => \A q \in Peer : q # c => Head(up[c]) \in In[q]
  <2> SUFFICES ASSUME NEW c \in Client, LinkReceive(c) PROVE Head(up[c]) \in Fair
    BY <1>0
  <2>1. up[c] # <<>> /\ up[c] \in Seq(Fair)
    BY <1>3 DEF LinkReceive
  <2> QED
    BY <2>1, HeadTailProperties
<1>6. /\ \A q \in Client : Said[Host] \subseteq In[q]
      /\ \A c \in Client : Said[c] \subseteq Out[c]
  BY <1>0, HostIsPeer
<1>7. \A n \in Node : HostEnterNode(n) => NodeOf(n) \in Said[Host]
  <2> SUFFICES ASSUME NEW n \in Node PROVE NodeOf(n) \in Fair
    BY <1>0, HostIsPeer
  <2>1. NodeOf(n) \in Message /\ NodeOf(n).type = "ENTERNODE"
    BY HostIsPeer DEF NodeOf, Message
  <2> QED
    BY <1>0, <2>1 DEF FairMessage
<1>8. ASSUME NEW p \in Peer, halted'[p], ~halted[p] PROVE Halt(p) \in Said[p]
  <2>1. Halt(p) \in Message /\ Halt(p).type = "HALT"
    BY DEF Halt, Message
  <2>2. Founded'
    BY <1>8, HaltFounded, SteadyFacts, DriftStays DEF Founded
  <2> QED
    BY <1>0, <2>1, <2>2 DEF FairMessage
<1>9. ASSUME NEW p \in Peer, TakeRoster(p) PROVE SplitOf(p) \in Said[p]
  <2>1. battles[p].current \in Node
    BY <1>9 DEF TakeRoster, TypeInv, TypeOK, InBattle
  <2>2. SplitOf(p) \in Message /\ SplitOf(p).type = "CONTROL"
    BY <2>1, ChatterSaid DEF SplitOf, Chatter
  <2> QED
    BY <1>0, <2>2 DEF FairMessage
<1>10. ASSUME NEW p \in Peer, Boundary(p), ~halted[p] PROVE HashOf(p) \in Said[p]
  <2>0. PICK h : h = BuildHash(p, Key(p))
    OBVIOUS
  <2>1. node[p] \in Node /\ battles[p].current \in Node
    BY <1>10 DEF Boundary, TakeRoster, NextTurn, TypeInv, TypeOK, InBattle
  <2>2. h \in Hash
    BY <2>0, <2>1, KeyType, HashType DEF TypeInv
  <2>3. FairHash(h)'
    <3>1. FairHash(h)
      BY <1>10, <2>0, BuiltFair DEF HashInv
    <3> QED
      BY <2>2, <3>1, FairStays
  <2>4. HashOf(p) = [type |-> "HASH", from |-> p, hash |-> h]
    BY <2>0 DEF HashOf
  <2>5. HashOf(p) \in Message /\ HashOf(p).type = "HASH" /\ HashOf(p).hash = h
    BY <2>2, <2>4 DEF Message
  <2> QED
    BY <1>0, <2>3, <2>5 DEF FairMessage
<1>11. ASSUME NEW p \in Peer, NEW act \in Act, DecideLocal(p, act) PROVE MoveOf(p, act) \in Said[p]
  <2>1. HumanPolled(p)
    BY <1>11 DEF DecideLocal
  <2>2. MoveOf(p, act) \in Message /\ MoveOf(p, act).type = "ACTION"
    BY <2>1, MoveType
  <2> QED
    BY <1>0, <2>2 DEF FairMessage
<1>12. /\ \A q \in Peer : inq'[q] \in Seq(In[q])
       /\ \A c \in Client : up'[c] \in Seq(Out[c])
  BY <1>2, <1>4, <1>5, <1>6, <1>7, <1>8, <1>9, <1>10, <1>11, LinksStep
<1> QED
  BY <1>0, <1>12

LEMMA HashInit == Init => HashInv
<1> SUFFICES ASSUME Init PROVE HashInv
  OBVIOUS
<1>1. \A p \in Peer : Marked(p)
  <2> SUFFICES ASSUME NEW p \in Peer PROVE Marked(p)
    OBVIOUS
  <2>1. phase[p] = "map" /\ joined[p] = {} /\ turn[p] = 0
    BY DEF Init
  <2> QED
    BY <2>1 DEF Marked
<1>2. \A X : <<>> \in Seq(X)
  BY EmptyFits
<1> QED
  BY <1>1, <1>2 DEF Init, HashInv, NoFalseHalt

LEMMA HashStep ==
  ASSUME TypeInv, GateInv, CopyInv, RoadInv, MailInv, AgreeInv, HashInv, [Next]_vars
  PROVE  HashInv'
<1>1. \A p \in Peer : Marked(p)'
  BY MarkedStep DEF HashInv
<1>2. ASSUME NEW p \in Peer, halted'[p] PROVE Founded'
  <2>1. Founded
    BY <1>2, HaltFounded DEF HashInv, NoFalseHalt, Founded, Drifted
  <2> QED
    BY <2>1, SteadyFacts, DriftStays DEF Founded
<1>3. NoFalseHalt'
  BY <1>2 DEF NoFalseHalt, Founded, Drifted
<1>4. /\ \A p \in Peer : \A h \in myHash'[p] : FairHash(h)'
      /\ \A p, q \in Peer : \A h \in peerHash'[p][q] : FairHash(h)'
  <2>1. myHash' \in [Peer -> SUBSET Hash] /\ peerHash' \in [Peer -> [Peer -> SUBSET Hash]]
    BY TypeStep DEF TypeInv, TypeOK
  <2>2. \A p, q \in Peer : myHash'[p] \subseteq Hash /\ peerHash'[p][q] \subseteq Hash
    BY <2>1
  <2>3. \A h \in Hash : FairHash(h) => FairHash(h)'
    BY FairStays
  <2> QED
    BY <2>2, <2>3, RingsStep
<1> QED
  BY <1>1, <1>3, <1>4, FairLinksStep DEF HashInv

(* A peer stops over a real fault only: whatever the pace of the copies    *)
(* and the order of the messages, as long as the tables split the cats and *)
(* no copy drifts, nobody takes lag, lateness or reordering for a desync.  *)
THEOREM HaltsAreReal == JoinBarrier /\ Spec /\ []NeverFull => []NoFalseHalt
<1>1. JoinBarrier /\ NeverFull /\ CourseInv /\ [Next]_vars => CourseInv'
  BY CourseStep
<1>2. CourseInv /\ HashInv /\ [Next]_vars => HashInv'
  BY HashStep DEF CourseInv
<1>3. HashInv => NoFalseHalt
  BY DEF HashInv
<1>4. CASE JoinBarrier
  <2>1. NeverFull /\ CourseInv /\ [Next]_vars => CourseInv'
    BY <1>1, <1>4
  <2> QED
    BY <2>1, <1>2, <1>3, CourseInit, HashInit, PTL DEF Spec
<1>5. CASE ~JoinBarrier
  BY <1>5
<1> QED
  BY <1>4, <1>5

-------------------------------------------------------------------------------
(* The catch-up log.                                                       *)

Logs(p, b, c) == ActsOf(sentLog[p], c) = Released(p, b, c) \o ActsOf(pending[p][b][c], c)

(* A battle the peer has not snapshotted holds nothing.                    *)
LEMMA NothingYet ==
  ASSUME TypeInv, MailInv, NEW p \in Peer, NEW b \in Node, b \notin joined[p],
         hist[p][b] = <<>>, queued[p] = <<>>, NEW c \in Human
  PROVE  pending[p][b][c] = <<>> /\ Released(p, b, c) = <<>>
<1>1. Taken(p, b) = <<>>
  BY TakenIdle DEF TypeInv
<1>2. ~EveryoneIn(b)
  BY DEF EveryoneIn
<1> QED
  BY <1>1, <1>2, ActsNone DEF Released, MailInv, OnFile

LEMMA LogEnter ==
  ASSUME TypeInv, MailInv, NEW p \in Peer, NEW n \in Node, Untouched(p, n), phase[p] = "map",
         EnterNode(p, n), queued' = queued, hist' = hist, pending' = pending, NEW c \in Human
  PROVE  Logs(p, n, c)' /\ battles'[p].current = n
<1>1. battles[p] \in Tracker /\ battles'[p] = EnterBattle(battles[p], n)
  BY DEF EnterNode, TypeInv, TypeOK
<1>2. battles'[p].current = n
  BY <1>1, TrackerType
<1>3. sentLog'[p] = <<>>
  BY DEF EnterNode, Untouched, TypeInv, TypeOK
<1>4. queued[p] = <<>> /\ n \notin joined[p] /\ hist[p][n] = <<>>
  BY DEF TypeInv, InBattle, Untouched
<1>5. pending[p][n][c] = <<>> /\ Released(p, n, c) = <<>>
  BY <1>4, NothingYet
<1>6. Released(p, n, c)' = <<>>
  BY <1>5, TakenEnter DEF Released
<1>7. Logs(p, n, c)'
  <2>1. <<>> \o <<>> = <<>>
    OBVIOUS
  <2> QED
    BY <1>3, <1>5, <1>6, <2>1, ActsNone DEF Logs
<1> QED
  BY <1>2, <1>7

(* A copy that begins the first turn of a battle has decided nothing in it.*)
LEMMA FirstTurn ==
  ASSUME TypeInv, CopyInv, NEW p \in Peer, Marked(p), phase[p] = "boundary", clock[p] = 0
  PROVE  hist[p][node[p]] = <<>> /\ node[p] \notin joined[p]
<1>0. PICK s : s = hist[p][node[p]]
  OBVIOUS
<1>1. s \in Seq(Decision) /\ Ends(s, Len(s)) = 0
  <2>1. node[p] \in Node
    BY DEF TypeInv, InBattle
  <2> QED
    BY <1>0, <2>1, TakenType DEF TypeInv, CopyInv, Copy, Paced, Over
<1>2. ASSUME s # <<>> PROVE FALSE
  <2>1. s[Len(s)].act = EndTurn
    BY <1>0, <1>2 DEF Marked
  <2>2. Len(s) \in Nat /\ 0 < Len(s)
    BY <1>1, <1>2, LenProperties, EmptySeq
  <2>3. Ends(s, 0) < Ends(s, Len(s))
    BY <2>1, <2>2, EndsPast
  <2> QED
    BY <2>3, <1>1, EndsNone
<1> QED
  BY <1>0, <1>2 DEF Marked

LEMMA LogTakeRoster ==
  ASSUME TypeInv, CopyInv, MailInv, NEW p \in Peer, Marked(p), TakeRoster(p), NEW c \in Human,
         Logs(p, battles[p].current, c)
  PROVE  \E b \in Node : b = battles[p].current /\ Logs(p, b, c)'
<1>0. PICK b : b = battles[p].current
  OBVIOUS
<1>1. /\ phase[p] = "boundary" /\ b \in Node /\ node[p] = b /\ queued[p] = <<>>
      /\ hist' = hist /\ node' = node /\ queued' = queued
      /\ roster[p] = NoBattle \/ (~halted[p] /\ roster[p] # node[p])
      /\ sentLog' = [sentLog EXCEPT ![p] = IF roster[p] # NoBattle THEN <<>> ELSE sentLog[p]]
      /\ pending' = [pending EXCEPT ![p] = IF roster[p] # NoBattle THEN Purged(p) ELSE pending[p]]
  BY <1>0 DEF TakeRoster, BeginTurn, TypeInv, InBattle
<1>2. Released(p, b, c)' = Released(p, b, c)
  BY <1>1 DEF Released, Taken
<1>3. CASE roster[p] = NoBattle
  <2>1. sentLog'[p] = sentLog[p] /\ pending'[p] = pending[p]
    BY <1>1, <1>3 DEF TypeInv, TypeOK
  <2> QED
    BY <2>1, <1>0, <1>1, <1>2 DEF Logs
<1>4. CASE roster[p] # NoBattle
  <2>1. clock[p] = 0
    <3>1. clock[p] \in Nat
      BY DEF TypeInv, TypeOK
    <3> QED
      BY <3>1, <1>1, <1>4 DEF Marked
  <2>2. pending[p][b][c] = <<>> /\ Released(p, b, c) = <<>>
    BY <2>1, <1>1, FirstTurn, NothingYet
  <2>3. sentLog'[p] = <<>> /\ pending'[p] = Purged(p)
    BY <1>1, <1>4 DEF TypeInv, TypeOK
  <2>4. pending'[p][b][c] = <<>>
    BY <2>2, <2>3, <1>1 DEF Purged
  <2>5. <<>> \o <<>> = <<>>
    OBVIOUS
  <2> QED
    BY <1>0, <1>1, <1>2, <2>2, <2>3, <2>4, <2>5, ActsNone DEF Logs
<1> QED
  BY <1>3, <1>4

LEMMA LoggedOne ==
  ASSUME NEW s \in Seq(Action), NEW a \in Action, NEW c
  PROVE  /\ a.cat = c => ActsOf(Append(s, a), c) = Append(ActsOf(s, c), a.act)
         /\ a.cat # c => ActsOf(Append(s, a), c) = ActsOf(s, c)
<1>1. ActsOf(Append(s, a), c) = IF a.cat = c THEN Append(ActsOf(s, c), a.act) ELSE ActsOf(s, c)
  BY ActsNext
<1> QED
  BY <1>1

LEMMA LogLocal ==
  ASSUME LogRoom, TypeInv, CopyInv, NEW p \in Peer, NEW act \in Act, DecideLocal(p, act),
         NEW c \in Human, NEW b \in Node, b = battles[p].current, Logs(p, b, c)
  PROVE  Logs(p, b, c)'
<1>0. PICK a, d, y : a = Move(p, act) /\ d = [cat |-> Actor(p), act |-> act] /\ y = ActsOf(sentLog[p], c)
  OBVIOUS
<1>1. /\ HumanPolled(p) /\ queued[p] = <<>> /\ Offered(p) = <<>> /\ Release(p, d) /\ pending' = pending
      /\ node[p] = b /\ Actor(p) \in Human
  BY <1>0 DEF DecideLocal, HumanPolled, Polled, TypeInv, InBattle
<1>2. d \in Decision /\ d.cat = Actor(p) /\ d.act = act
  BY <1>0, <1>1, CatAssumption DEF Decision
<1>3. ~outstanding[p]
  BY <1>1 DEF CopyInv, Copy
<1>4. sentLog'[p] = Append(sentLog[p], a)
  BY <1>0, <1>3 DEF DecideLocal, Logged, LogRoom, Move, TypeInv, TypeOK
<1>5. a \in Action /\ a.cat = Actor(p) /\ a.act = act /\ sentLog[p] \in Seq(Action)
  BY <1>0, <1>1, MoveType DEF TypeInv, TypeOK
<1>6. /\ a.cat = c => ActsOf(Append(sentLog[p], a), c) = Append(ActsOf(sentLog[p], c), a.act)
      /\ a.cat # c => ActsOf(Append(sentLog[p], a), c) = ActsOf(sentLog[p], c)
  BY <1>5, LoggedOne
<1>7. /\ c = d.cat => Released(p, b, c)' = Append(Released(p, b, c), d.act)
      /\ c # d.cat => Released(p, b, c)' = Released(p, b, c)
  BY <1>1, <1>2, ReleasedOwn
<1>8. CASE c # Actor(p)
  BY <1>0, <1>1, <1>2, <1>4, <1>5, <1>6, <1>7, <1>8 DEF Logs
<1>9. CASE c = Actor(p)
  <2>1. ActsOf(pending[p][b][c], c) = <<>>
    BY <1>1, <1>9, ActsNone DEF Offered
  <2>2. Released(p, b, c) \in Seq(Act) /\ Released(p, b, c)' \in Seq(Act)
    <3>1. Released(p, b, c) \in Seq(Act)
      BY ReleasedTyped
    <3> QED
      BY <3>1, <1>2, <1>7, AppendFits
  <2>3. y = Released(p, b, c)
    <3>1. y = Released(p, b, c) \o <<>>
      BY <1>0, <2>1 DEF Logs
    <3> QED
      BY <3>1, <2>2, ConcatEmptySeq
  <2>4. Released(p, b, c)' \o <<>> = Released(p, b, c)'
    BY <2>2, ConcatEmptySeq
  <2>5. ActsOf(sentLog'[p], c) = Released(p, b, c)'
    <3>1. ActsOf(sentLog'[p], c) = Append(y, act)
      BY <1>0, <1>4, <1>5, <1>6, <1>9
    <3>2. Released(p, b, c)' = Append(Released(p, b, c), act)
      BY <1>2, <1>7, <1>9
    <3> QED
      BY <3>1, <3>2, <2>3
  <2> QED
    BY <2>1, <2>4, <2>5, <1>1 DEF Logs
<1> QED
  BY <1>8, <1>9

LEMMA LogFiled ==
  ASSUME NeverFull, LogRoom, TypeInv, NEW p \in Peer, NEW m, Polls(p, m), OnAction(p, m),
         NEW c \in Human, NEW b \in Node, b = battles[p].current, Logs(p, b, c)
  PROVE  Logs(p, b, c)'
<1>0. PICK a, x, y, f : /\ a = m.action /\ x = Released(p, b, c) /\ f = pending[p][b][c]
                        /\ y = ActsOf(f, c)
  OBVIOUS
<1>1. a \in Action /\ a.battle \in Node /\ a.cat \in Human /\ a.act \in Act
  <2>1. m \in Message
    BY PumpedMessage DEF TypeInv
  <2> QED
    BY <2>1, <1>0, MessageParts DEF OnAction, Action
<1>2. Released(p, b, c)' = x
  BY <1>0, ReleasedStill DEF OnAction
<1>3. TypeOK /\ x \in Seq(Act) /\ f \in Seq(Action) /\ y \in Seq(Act) /\ sentLog[p] \in Seq(Action)
  <2>1. TypeOK /\ pending[p][b][c] \in Seq(Action) /\ sentLog[p] \in Seq(Action)
    BY DEF TypeInv, TypeOK
  <2>2. ActsOf(pending[p][b][c], c) \in Seq(Act)
    BY <2>1, Decisions, ActsTyped
  <2>3. Released(p, b, c) \in Seq(Act)
    BY ReleasedTyped
  <2> QED
    BY <1>0, <2>1, <2>2, <2>3
<1>4. ActsOf(sentLog[p], c) = x \o y
  BY <1>0 DEF Logs
<1>5. CASE a.battle # b
  <2>1. sentLog' = sentLog
    BY <1>0, <1>5 DEF OnAction
  <2>2. pending'[p][b][c] = f
    <3>0. PICK u : u = Append(pending[p][a.battle][a.cat], a)
      OBVIOUS
    <3>1. pending' = pending \/ pending' = [pending EXCEPT ![p][a.battle][a.cat] = u]
      BY <1>0, <3>0 DEF OnAction
    <3>2. pending \in [Peer -> [Node -> [Human -> Seq(Action)]]]
      BY <1>3 DEF TypeOK
    <3> QED
      BY <3>1, <3>2, <1>0, <1>1, <1>5
  <2> QED
    BY <2>1, <2>2, <1>0, <1>2, <1>4 DEF Logs
<1>6. CASE a.battle = b
  <2>1. ~Stale(p, a.battle)
    BY <1>6, NoneIsNoNode DEF Stale, IsRetired, BattleRel
  <2>2. sentLog'[p] = Append(sentLog[p], a)
    BY <2>1, <1>0, <1>3, <1>6 DEF OnAction, Logged, LogRoom, TypeOK
  <2>3. pending'[p][b][c] = IF a.cat = c THEN Append(f, a) ELSE f
    <3>0. PICK u, k : u = Append(pending[p][b][k], a) /\ k = a.cat
      OBVIOUS
    <3>1. pending' = [pending EXCEPT ![p][b][k] = u]
      BY <2>1, <1>0, <1>6, <3>0 DEF OnAction, NeverFull
    <3>2. pending \in [Peer -> [Node -> [Human -> Seq(Action)]]]
      BY <1>3 DEF TypeOK
    <3>3. k \in Human
      BY <1>1, <3>0
    <3>4. k = c => pending'[p][b][c] = u
      BY <3>1, <3>2, <3>3
    <3>5. k # c => pending'[p][b][c] = pending[p][b][c]
      BY <3>1, <3>2, <3>3
    <3> QED
      BY <3>0, <3>4, <3>5, <1>0
  <2>4. /\ a.cat = c => ActsOf(Append(sentLog[p], a), c) = Append(ActsOf(sentLog[p], c), a.act)
        /\ a.cat # c => ActsOf(Append(sentLog[p], a), c) = ActsOf(sentLog[p], c)
    BY <1>1, <1>3, LoggedOne
  <2>5. a.cat = c => ActsOf(Append(f, a), c) = Append(y, a.act)
    <3>1. a.cat = c => ActsOf(Append(f, a), c) = Append(ActsOf(f, c), a.act)
      BY <1>1, <1>3, LoggedOne
    <3> QED
      BY <3>1, <1>0
  <2>6. Append(x \o y, a.act) = x \o Append(y, a.act)
    <3>1. PICK t, z : t = <<a.act>> /\ z = x \o y
      OBVIOUS
    <3>2. x \in Seq(Act) /\ y \in Seq(Act) /\ t \in Seq(Act) /\ z \in Seq(Act)
      BY <3>1, <1>1, <1>3, OneFits, ConcatProperties
    <3>3. (x \o y) \o t = x \o (y \o t)
      BY <3>2, ConcatAssociative
    <3>4. Append(z, a.act) = z \o t
      BY <3>1, <3>2, <1>1, AppendIsConcat
    <3>5. Append(y, a.act) = y \o t
      BY <3>1, <3>2, <1>1, AppendIsConcat
    <3> QED
      BY <3>1, <3>3, <3>4, <3>5
  <2>7. CASE a.cat = c
    BY <2>2, <2>3, <2>4, <2>5, <2>6, <2>7, <1>2, <1>4 DEF Logs
  <2>8. CASE a.cat # c
    BY <2>2, <2>3, <2>4, <2>8, <1>0, <1>2, <1>4 DEF Logs
  <2> QED
    BY <2>7, <2>8
<1> QED
  BY <1>5, <1>6

(* Taking a decision from the queue moves it from what is held to what is  *)
(* released: the log stays as it is.  A peer that halts instead has not    *)
(* stayed.                                                                 *)
LEMMA LogTaken ==
  ASSUME TypeInv, CopyInv, MailInv, AgreeInv, NEW p \in Peer, ApplyRemote(p), Stays(p)',
         NEW c \in Human, NEW b \in Node, b = battles[p].current, Logs(p, b, c)
  PROVE  Logs(p, b, c)'
<1>0. PICK d : d = [cat |-> Actor(p), act |-> Head(Offered(p)).act]
  OBVIOUS
<1>1. /\ HumanPolled(p) /\ Offered(p) # <<>> /\ queued[p] = <<>> /\ Actor(p) \in Human
      /\ d \in Decision /\ d.cat = Actor(p) /\ d.act = Head(Offered(p)).act
      /\ Offered(p) = pending[p][b][Actor(p)] /\ node[p] = b /\ drift' = drift
      /\ pending' = [pending EXCEPT ![p][b][Actor(p)] = Tail(Offered(p))]
      /\ sentLog' = sentLog
  <2>1. HumanPolled(p) /\ Offered(p) # <<>> /\ queued[p] = <<>> /\ drift' = drift /\ sentLog' = sentLog
    BY DEF ApplyRemote, HumanPolled, Polled, Release, gameVars
  <2>2. d \in Decision /\ d.cat = Actor(p) /\ d.act = Head(Offered(p)).act
    BY <2>1, <1>0, OfferedParts
  <2>3. Offered(p) = pending[p][b][Actor(p)] /\ node[p] = b /\ Actor(p) \in Human
    BY <2>1, OfferedParts
  <2>4. pending' = [pending EXCEPT ![p][b][Actor(p)] = Tail(Offered(p))]
    BY <2>3 DEF ApplyRemote
  <2> QED
    BY <2>1, <2>2, <2>3, <2>4
<1>2. Release(p, d)
  <2>1. ASSUME ~Release(p, d) PROVE FALSE
    <3>1. ~OnSameCopy(p, d) /\ halted' = [halted EXCEPT ![p] = TRUE]
      BY <2>1, <1>0 DEF ApplyRemote
    <3>2. halted'[p]
      BY <3>1 DEF TypeInv, TypeOK
    <3>3. \A r \in Peer : ~drift[r]
      BY <3>2, <1>1 DEF Stays
    <3>4. OnSameCopy(p, d)
      BY <3>3, <1>0, <1>1, OwnerSameCopy
    <3> QED
      BY <3>1, <3>4
  <2> QED
    BY <2>1
<1>3. pending \in [Peer -> [Node -> [Human -> Seq(Action)]]]
  BY DEF TypeInv, TypeOK
<1>4. CASE c # Actor(p)
  <2>1. pending'[p][b][c] = pending[p][b][c]
    BY <1>1, <1>3, <1>4
  <2>2. Released(p, b, c)' = Released(p, b, c)
    BY <1>1, <1>2, <1>4, ReleasedOwn
  <2> QED
    BY <2>1, <2>2, <1>1 DEF Logs
<1>5. CASE c = Actor(p)
  <2>0. PICK x, f, u, a, t : /\ x = Released(p, b, c) /\ f = pending[p][b][c]
                             /\ u = ActsOf(Tail(f), c) /\ a = Head(f).act /\ t = <<a>>
    OBVIOUS
  <2>1. f = Offered(p) /\ f # <<>> /\ f \in Seq(Action) /\ f \in Seq(Filing(b, c))
    BY <2>0, <1>1, <1>3, <1>5 DEF MailInv, OnFile
  <2>2. ActsOf(f, c) = t \o u /\ u \in Seq(Act) /\ a \in Act
    <3>1. Head(f) \in Filing(b, c) /\ Head(f) \in Action /\ Tail(f) \in Seq(Action)
      BY <2>1, FirstAndRest
    <3>2. Does(Head(f), c) = t
      BY <3>1, <2>0 DEF Does, Filing
    <3> QED
      BY <3>1, <3>2, <2>0, <2>1, Decisions, ActsFirst, ActsTyped DEF Decisive
  <2>3. x \in Seq(Act) /\ t \in Seq(Act)
    BY <2>0, <2>2, ReleasedTyped, OneFits
  <2>4. (x \o t) \o u = x \o (t \o u)
    BY <2>2, <2>3, ConcatAssociative
  <2>5. Released(p, b, c)' = x \o t
    <3>1. Released(p, b, c)' = Append(x, a)
      <4>1. Released(p, b, c)' = Append(Released(p, b, c), d.act)
        BY <1>1, <1>2, <1>5, ReleasedOwn
      <4> QED
        BY <4>1, <2>0, <2>1, <1>1
    <3>2. Append(x, a) = x \o <<a>>
      BY <2>2, <2>3, AppendIsConcat
    <3> QED
      BY <3>1, <3>2, <2>0
  <2>6. ActsOf(pending'[p][b][c], c) = u
    <3>1. pending'[p][b][c] = Tail(f)
      BY <1>1, <1>3, <1>5, <2>1
    <3> QED
      BY <3>1, <2>0
  <2>7. ActsOf(sentLog'[p], c) = x \o (t \o u)
    BY <2>0, <2>2, <1>1 DEF Logs
  <2> QED
    BY <2>4, <2>5, <2>6, <2>7 DEF Logs
<1> QED
  BY <1>4, <1>5

(* In any other step of a peer, and in every step of the others, its log,  *)
(* what it holds and what it has released stay.                            *)
LEMMA LogRests ==
  ASSUME TypeInv, CopyInv, [Next]_vars, NEW p \in Peer, NEW b \in Node, NEW c \in Human,
         ~(p = Host /\ \E n \in Node : HostEnterNode(n)), ~(p \in Client /\ FollowNode(p)),
         ~TakeRoster(p), ~ApplyRemote(p), ~\E act \in Act : DecideLocal(p, act),
         ~(PumpStep(p) /\ OnAction(p, Head(inq[p])))
  PROVE  /\ sentLog'[p] = sentLog[p] /\ battles'[p] = battles[p]
         /\ Released(p, b, c)' = Released(p, b, c) /\ pending'[p][b][c] = pending[p][b][c]
<1>1. pending'[p][b][c] = pending[p][b][c]
  BY PendingStep
<1>2. sentLog'[p] = sentLog[p] /\ battles'[p] = battles[p]
  <2>0. p \in Peer /\ sentLog \in [Peer -> Seq(Action)] /\ battles \in [Peer -> Tracker]
    BY DEF TypeInv, TypeOK
  <2>1. ASSUME NEW n \in Node, HostEnterNode(n) PROVE sentLog'[p] = sentLog[p] /\ battles'[p] = battles[p]
    BY <2>0, <2>1 DEF HostEnterNode, EnterNode
  <2>2. ASSUME NEW r \in Client, FollowNode(r) PROVE sentLog'[p] = sentLog[p] /\ battles'[p] = battles[p]
    BY <2>0, <2>2 DEF FollowNode, EnterNode
  <2>3. ASSUME NEW r \in Client, LinkReceive(r) PROVE sentLog'[p] = sentLog[p] /\ battles'[p] = battles[p]
    BY <2>3 DEF LinkReceive, actionVars
  <2>4. ASSUME NEW r \in Peer, PumpStep(r) PROVE sentLog'[p] = sentLog[p] /\ battles'[p] = battles[p]
    BY <2>0, <2>4 DEF PumpStep, Pump, OnEnterNode, OnControl, OnAction, OnHash, OnHalt, actionVars
  <2>5. ASSUME NEW r \in Peer, Boundary(r) PROVE sentLog'[p] = sentLog[p] /\ battles'[p] = battles[p]
    <3>1. CASE NextTurn(r)
      BY <3>1 DEF NextTurn, actionVars
    <3>2. CASE TakeRoster(r)
      <4>1. r # p
        BY <3>2
      <4>0. battles' = battles
        BY <3>2 DEF TakeRoster
      <4>2. sentLog' = [sentLog EXCEPT ![r] = IF roster[r] # NoBattle THEN <<>> ELSE sentLog[r]]
        BY <3>2 DEF TakeRoster
      <4> QED
        BY <4>0, <4>1, <4>2, <2>0
    <3> QED
      BY <2>5, <3>1, <3>2 DEF Boundary
  <2>6. ASSUME NEW r \in Peer, Decide(r) PROVE sentLog'[p] = sentLog[p] /\ battles'[p] = battles[p]
    BY <2>0, <2>6 DEF Decide, DecideAI, DecideLocal, ApplyRemote, actionVars
  <2>7. ASSUME NEW r \in Peer, Apply(r) \/ Diverge(r)
        PROVE  sentLog'[p] = sentLog[p] /\ battles'[p] = battles[p]
    BY <2>7 DEF Apply, Diverge, actionVars
  <2>8. CASE UNCHANGED vars
    BY <2>8 DEF vars, actionVars
  <2> QED
    BY <2>1, <2>2, <2>3, <2>4, <2>5, <2>6, <2>7, <2>8 DEF Next
<1>3. Released(p, b, c)' = Released(p, b, c)
  <2>1. CASE ~\E r \in Peer : Decide(r)
    BY <2>1, TakenSame DEF Released
  <2>2. ASSUME NEW r \in Peer, Decide(r) PROVE Released(p, b, c)' = Released(p, b, c)
    <3>1. queued[r] = <<>>
      BY <2>2, DecideReleases
    <3>2. CASE UNCHANGED gameVars
      BY <3>2, ReleasedStill
    <3>3. ASSUME NEW d \in Decision, Release(r, d), ~(p = r /\ b = node[r] /\ c = d.cat)
          PROVE  Released(p, b, c)' = Released(p, b, c)
      BY <3>1, <3>3, ReleasedNext
    <3>4. CASE p = r
      <4>1. DecideAI(p)
        BY <2>2, <3>4 DEF Decide
      <4>2. Actor(p) \in Cat /\ Actor(p) \notin Human /\ Release(p, [cat |-> Actor(p), act |-> EndTurn])
        BY <4>1, ActorIsCat DEF DecideAI, TypeInv
      <4>3. [cat |-> Actor(p), act |-> EndTurn] \in Decision
        BY <4>2 DEF Decision, Act
      <4> QED
        BY <4>2, <4>3, <3>3, <3>4
    <3>5. CASE p # r
      BY <2>2, <3>2, <3>3, <3>5, DecideReleases
    <3> QED
      BY <3>4, <3>5
  <2> QED
    BY <2>1, <2>2
<1> QED
  BY <1>1, <1>2, <1>3

LEMMA LogStep ==
  ASSUME NeverFull, LogRoom, CourseInv, HashInv, LogInv, [Next]_vars
  PROVE  LogInv'
<1>0. TypeInv /\ CopyInv /\ RoadInv /\ MailInv /\ AgreeInv /\ \A p \in Peer : Marked(p)
  BY DEF CourseInv, HashInv
<1> SUFFICES ASSUME NEW p \in Peer, NEW c \in Human, Stays(p)', battles'[p].current \in Combat
             PROVE  \E n \in Node : n = battles'[p].current /\ Logs(p, n, c)'
  BY DEF LogInv, Logs
<1>1. Stays(p)
  BY <1>0, SteadyFacts
<1> DEFINE Logged1 == \E n \in Node : n = battles'[p].current /\ Logs(p, n, c)'
<1>2. ASSUME NEW n \in Node, p = Host, HostEnterNode(n) PROVE Logged1
  <2>1. phase[p] = "map" /\ EnterNode(p, n) /\ queued' = queued /\ hist' = hist /\ pending' = pending
    BY <1>2 DEF HostEnterNode
  <2>2. Untouched(p, n)
    BY <1>0, <1>2, EntersUntouched
  <2> QED
    BY <2>1, <2>2, <1>0, LogEnter
<1>3. ASSUME p \in Client, FollowNode(p) PROVE Logged1
  <2>1. PICK n : n = Head(nodeQ[p])
    OBVIOUS
  <2>2. n \in Node /\ Untouched(p, n)
    BY <2>1, <1>0, <1>3, EntersUntouched
  <2>3. phase[p] = "map" /\ EnterNode(p, n) /\ queued' = queued /\ hist' = hist /\ pending' = pending
    BY <2>1, <1>3 DEF FollowNode
  <2> QED
    BY <2>2, <2>3, <1>0, LogEnter
<1>4. CASE \/ p = Host /\ \E n \in Node : HostEnterNode(n)
           \/ p \in Client /\ FollowNode(p)
  BY <1>2, <1>3, <1>4
<1>5. ASSUME ~(p = Host /\ \E n \in Node : HostEnterNode(n)), ~(p \in Client /\ FollowNode(p))
      PROVE  Logged1
  <2>1. battles'[p] = battles[p]
    <3>1. TakeRoster(p) \/ ApplyRemote(p) \/ (\E act \in Act : DecideLocal(p, act)) \/ PumpStep(p)
          => battles' = battles
      BY DEF TakeRoster, ApplyRemote, DecideLocal, PumpStep, Pump, OnEnterNode, OnControl,
             OnAction, OnHash, OnHalt
    <3>2. PICK n \in Node : n = battles'[p].current
      BY NodeAssumption
    <3> QED
      BY <3>1, <3>2, <1>0, <1>5, LogRests
  <2>2. PICK b : b = battles[p].current
    OBVIOUS
  <2>3. b \in Node /\ b = battles[p].current /\ Logs(p, b, c)
    BY <2>1, <2>2, <1>1, NodeAssumption DEF LogInv, Logs
  <2>4. SUFFICES Logs(p, b, c)'
    BY <2>1, <2>3
  <2>5. CASE TakeRoster(p)
    BY <2>3, <2>5, <1>0, LogTakeRoster
  <2>6. CASE ApplyRemote(p)
    BY <2>3, <2>6, <1>0, LogTaken
  <2>7. ASSUME NEW act \in Act, DecideLocal(p, act) PROVE Logs(p, b, c)'
    BY <2>3, <2>7, <1>0, LogLocal
  <2>8. ASSUME PumpStep(p), OnAction(p, Head(inq[p])) PROVE Logs(p, b, c)'
    <3>1. PICK m : m = Head(inq[p])
      OBVIOUS
    <3>2. Polls(p, m) /\ OnAction(p, m)
      BY <3>1, <2>8 DEF PumpStep, Pump
    <3> QED
      BY <3>2, <2>3, <1>0, LogFiled
  <2>9. CASE /\ ~TakeRoster(p) /\ ~ApplyRemote(p)
             /\ ~\E act \in Act : DecideLocal(p, act)
             /\ ~(PumpStep(p) /\ OnAction(p, Head(inq[p])))
    <3>1. /\ sentLog'[p] = sentLog[p] /\ Released(p, b, c)' = Released(p, b, c)
          /\ pending'[p][b][c] = pending[p][b][c]
      BY <2>3, <2>9, <1>0, <1>5, LogRests
    <3> QED
      BY <3>1, <2>3 DEF Logs
  <2> QED
    BY <2>5, <2>6, <2>7, <2>8, <2>9
<1> QED
  BY <1>4, <1>5

LEMMA LogInit == Init => LogInv
<1> SUFFICES ASSUME Init, NEW p \in Peer PROVE battles[p].current \notin Combat
  BY DEF LogInv
<1>1. battles[p].current = NoBattle
  BY DEF Init, NewTracker
<1> QED
  BY <1>1, NoneIsNoNode, NodeAssumption

(* The catch-up log holds every decision of the current battle its peer    *)
(* knows of, each cat's in their order, as long as no copy drifts and      *)
(* neither the log nor a queue is full.                                    *)
THEOREM LogIsComplete ==
  JoinBarrier /\ MayDrift = {} /\ Spec /\ []NeverFull /\ []LogRoom => []LogComplete
<1>1. JoinBarrier /\ NeverFull /\ CourseInv /\ [Next]_vars => CourseInv'
  BY CourseStep
<1>2. MayDrift = {} /\ CourseInv /\ NoDrift /\ [Next]_vars => NoDrift'
  BY DriftStep DEF CourseInv
<1>3. CourseInv /\ HashInv /\ [Next]_vars => HashInv'
  BY HashStep DEF CourseInv
<1>4. NeverFull /\ LogRoom /\ CourseInv /\ HashInv /\ LogInv /\ [Next]_vars => LogInv'
  BY LogStep
<1>5. NoDrift /\ LogInv => LogComplete
  BY DEF NoDrift, Stays, LogInv, LogComplete
<1>6. Init => NoDrift
  BY DEF Init, NoDrift
<1>7. CASE JoinBarrier /\ MayDrift = {}
  <2>1. NeverFull /\ CourseInv /\ [Next]_vars => CourseInv'
    BY <1>1, <1>7
  <2>2. CourseInv /\ NoDrift /\ [Next]_vars => NoDrift'
    BY <1>2, <1>7
  <2> QED
    BY <2>1, <2>2, <1>3, <1>4, <1>5, <1>6, CourseInit, HashInit, LogInit, PTL DEF Spec
<1>8. CASE ~(JoinBarrier /\ MayDrift = {})
  BY <1>8
<1> QED
  BY <1>7, <1>8

-------------------------------------------------------------------------------
(* A difference between two copies is caught.  None of what follows needs  *)
(* the barrier or room in a queue: a hash is compared by whoever reads it  *)
(* after passing its turn, and of two peers that pass a turn the one that  *)
(* passes it first reads the other's later.                                *)

(* m is in q's queue, or with its author, for the host to pass on.         *)
Says(ms, m) == \E i \in 1 .. Len(ms) : ms[i] = m

Travels(q, m) ==
  \/ Says(inq[q], m)
  \/ m.from \in Client \ {q} /\ Says(up[m.from], m)

HashMessage(p, h) == [type |-> "HASH", from |-> p, hash |-> h]

Stopped == \E r \in Peer : halted[r]

(* Nobody says that it has stopped before somebody has.                    *)
HaltMeant(m) == m.type = "HALT" => Stopped

(* Who has not stopped with the others is going to hear of it.             *)
Alarmed(s) == halted[s] \/ \E r \in Peer \ {s} : Travels(s, Halt(r))

(* The ring of own hashes: what the copy was at the end of a turn of a     *)
(* battle it has joined, once for each turn.                               *)
Ringed(p) ==
  /\ roster[p] = NoBattle => myHash[p] = {}
  /\ \A h \in myHash[p] :
       /\ h.battle \in joined[p] /\ h.turn < turn[p]
       /\ AtTurn(h.digest.done, h.turn)
       /\ Begins(h.digest.done, hist[p][h.battle])
  /\ \A h, k \in myHash[p] : SameTurn(h, k) => h = k

(* Two peers in a battle have hashes of one turn of it that differ.        *)
Apart(p, q, h, k) ==
  /\ SameTurn(h, k) /\ h.digest # k.digest
  /\ battles[p].current = h.battle /\ battles[q].current = h.battle

CatchInv ==
  /\ \A q \in Peer : inq[q] \in Seq({m \in Message : HaltMeant(m)})
  /\ \A c \in Client : up[c] \in Seq({m \in Message : HaltMeant(m)})
  /\ Stopped => \A s \in Peer : Alarmed(s)
  /\ \A p \in Peer : Ringed(p)
  /\ \A p, q \in Peer : \A h \in myHash[p], k \in myHash[q] :
       p # q /\ Apart(p, q, h, k) =>
         Stopped \/ Travels(q, HashMessage(p, h)) \/ Travels(p, HashMessage(q, k))

-------------------------------------------------------------------------------
(* What is said reaches everyone.                                          *)

LEMMA SaysCat ==
  ASSUME NEW S, NEW s \in Seq(S), NEW t \in Seq(S), NEW m
  PROVE  Says(s, m) \/ Says(t, m) => Says(s \o t, m)
<1>0. PICK r : r = s \o t
  OBVIOUS
<1>1. /\ Len(s) \in Nat /\ Len(t) \in Nat /\ Len(r) = Len(s) + Len(t)
      /\ \A i \in 1 .. Len(s) + Len(t) : r[i] = IF i <= Len(s) THEN s[i] ELSE t[i - Len(s)]
  BY <1>0, ConcatProperties, LenProperties
<1>2. ASSUME NEW i \in 1 .. Len(s), s[i] = m PROVE Says(r, m)
  <2>1. i \in 1 .. Len(r) /\ r[i] = m
    BY <1>1, <1>2
  <2> QED
    BY <2>1 DEF Says
<1>3. ASSUME NEW i \in 1 .. Len(t), t[i] = m PROVE Says(r, m)
  <2>0. PICK j : j = Len(s) + i
    OBVIOUS
  <2>1. j \in 1 .. Len(s) + Len(t) /\ ~(j <= Len(s)) /\ j - Len(s) = i
    BY <1>1, <2>0
  <2>2. j \in 1 .. Len(r) /\ r[j] = m
    BY <1>1, <1>3, <2>1
  <2> QED
    BY <2>2 DEF Says
<1> QED
  BY <1>0, <1>2, <1>3 DEF Says

LEMMA SaysOne == ASSUME NEW m PROVE Says(<<m>>, m)
<1>1. 1 \in 1 .. Len(<<m>>) /\ <<m>>[1] = m
  OBVIOUS
<1> QED
  BY <1>1 DEF Says

LEMMA SaysTail ==
  ASSUME NEW S, NEW s \in Seq(S), NEW m, Says(s, m), m # Head(s)
  PROVE  Says(Tail(s), m)
<1>1. PICK i \in 1 .. Len(s) : s[i] = m
  BY DEF Says
<1>2. Len(s) \in Nat /\ s # <<>>
  BY <1>1, LenProperties, EmptySeq
<1>3. Head(s) = s[1]
  BY <1>2, HeadTailProperties
<1>4. /\ Len(Tail(s)) = Len(s) - 1
      /\ \A j \in 1 .. Len(Tail(s)) : Tail(s)[j] = s[j + 1]
  BY <1>2, HeadTailProperties
<1>5. i # 1
  BY <1>1, <1>3
<1>6. i - 1 \in 1 .. Len(s) - 1 /\ (i - 1) + 1 = i
  BY <1>2, <1>5
<1>7. Tail(s)[i - 1] = m
  BY <1>1, <1>4, <1>6
<1> QED
  BY <1>4, <1>6, <1>7 DEF Says

LEMMA SaysAppend ==
  ASSUME NEW S, NEW s \in Seq(S), NEW d \in S, NEW m
  PROVE  Says(s, m) \/ m = d => Says(Append(s, d), m)
<1>0. PICK r : r = Append(s, d)
  OBVIOUS
<1>1. /\ Len(s) \in Nat /\ Len(r) = Len(s) + 1
      /\ \A i \in 1 .. Len(s) : r[i] = s[i]
      /\ r[Len(s) + 1] = d
  BY <1>0, AppendProperties, LenProperties
<1>2. \A i \in 1 .. Len(s) + 1 : i \in 1 .. Len(r)
  BY <1>1
<1>3. Len(s) + 1 \in 1 .. Len(s) + 1 /\ \A i \in 1 .. Len(s) : i \in 1 .. Len(s) + 1
  BY <1>1
<1> QED
  BY <1>0, <1>1, <1>2, <1>3 DEF Says

LEMMA Transmitted ==
  ASSUME TypeInv, NEW p \in Peer, NEW box, NEW ms \in Seq(Message), Transmit(p, box, ms),
         \A r \in Peer : box[r] \in Seq(Message),
         NEW m, Says(ms, m), m.from = p, NEW q \in Peer, q # p
  PROVE  Travels(q, m)'
<1>1. CASE p = Host
  <2>1. inq'[q] = box[q] \o ms
    BY <1>1 DEF Transmit
  <2>2. Says(box[q] \o ms, m)
    BY SaysCat
  <2> QED
    BY <2>1, <2>2 DEF Travels
<1>2. CASE p # Host
  <2>1. p \in Client
    BY <1>2 DEF Peer
  <2>2. up \in [Client -> Seq(Message)]
    BY DEF TypeInv, TypeOK
  <2>3. up'[p] = up[p] \o ms
    BY <1>2, <2>1, <2>2 DEF Transmit
  <2>4. Says(up[p] \o ms, m)
    BY <2>1, <2>2, SaysCat
  <2> QED
    BY <2>1, <2>3, <2>4 DEF Travels
<1> QED
  BY <1>1, <1>2

(* What else a step does to the links.                                     *)
LEMMA LinksAre ==
  ASSUME TypeInv, [Next]_vars
  PROVE  \/ UNCHANGED netVars
         \/ \E p \in Peer, ms \in Seq(Message) : Transmit(p, inq, ms)
         \/ \E p \in Peer, ms \in Seq(Message) : PumpStep(p) /\ Transmit(p, Rest(p), ms)
         \/ \E c \in Client : LinkReceive(c)
<1>0. \A p \in Peer : Halt(p) \in Message
  BY DEF Halt, Message
<1>1. ASSUME NEW n \in Node, HostEnterNode(n)
      PROVE  \E ms \in Seq(Message) : Transmit(Host, inq, ms)
  <2>1. NodeOf(n) \in Message
    BY HostIsPeer DEF NodeOf, Message
  <2>2. <<NodeOf(n)>> \in Seq(Message)
    BY <2>1, OneFits
  <2> QED
    BY <1>1, <2>2 DEF HostEnterNode, NodeOf
<1>2. ASSUME NEW p \in Peer, PumpStep(p)
      PROVE  \E ms \in Seq(Message) : Transmit(p, Rest(p), ms)
  BY <1>0, <1>2, PumpSays
<1>3. ASSUME NEW p \in Peer, Boundary(p)
      PROVE  \E ms \in Seq(Message) : Transmit(p, inq, ms)
  <2>1. PICK ms \in Seq(Chatter) : Transmit(p, inq, ms)
    BY <1>3, BoundarySays
  <2>2. Chatter \subseteq Message
    BY DEF Chatter
  <2>3. ms \in Seq(Message)
    BY <2>1, <2>2, SeqMonotonic
  <2> QED
    BY <2>1, <2>3
<1>4. ASSUME NEW p \in Peer, NEW act \in Act, DecideLocal(p, act)
      PROVE  UNCHANGED netVars \/ \E ms \in Seq(Message) : Transmit(p, inq, ms)
  <2>1. CASE outstanding[p]
    BY <2>1, <1>4 DEF DecideLocal
  <2>2. CASE ~outstanding[p]
    <3>1. Transmit(p, inq, <<MoveOf(p, act)>>)
      BY <2>2, <1>4 DEF DecideLocal, MoveOf, Move
    <3>2. MoveOf(p, act) \in Message
      BY <1>4, MoveType DEF DecideLocal
    <3>3. <<MoveOf(p, act)>> \in Seq(Message)
      BY <3>2, OneFits
    <3> QED
      BY <3>1, <3>3
  <2> QED
    BY <2>1, <2>2
<1>5. ASSUME NEW p \in Peer, ApplyRemote(p)
      PROVE  UNCHANGED netVars \/ \E ms \in Seq(Message) : Transmit(p, inq, ms)
  <2>1. HaltIf(p, TRUE) \in Seq(Message)
    BY <1>0, HaltIn
  <2> QED
    BY <1>5, <2>1 DEF ApplyRemote
<1>6. ASSUME NEW p \in Peer, DecideAI(p) \/ Apply(p) \/ Diverge(p) PROVE UNCHANGED netVars
  BY <1>6 DEF DecideAI, Apply, Diverge
<1>7. ASSUME NEW c \in Client, FollowNode(c) PROVE UNCHANGED netVars
  BY <1>7 DEF FollowNode
<1>8. CASE UNCHANGED vars
  BY <1>8 DEF vars
<1> QED
  BY <1>1, <1>2, <1>3, <1>4, <1>5, <1>6, <1>7, <1>8, HostIsPeer DEF Next, Decide

(* What is on its way to q stays so until q reads it.                      *)
LEMMA TravelsOn ==
  ASSUME TypeInv, [Next]_vars, NEW q \in Peer, NEW m, m.type \in Relayed, Travels(q, m)
  PROVE  Travels(q, m)' \/ (PumpStep(q) /\ m = Head(inq[q]))
<1>1. /\ inq \in [Peer -> Seq(Message)] /\ up \in [Client -> Seq(Message)]
  BY DEF TypeInv, TypeOK
<1>2. CASE UNCHANGED netVars
  BY <1>2 DEF netVars, Travels
<1>3. ASSUME NEW p \in Peer, NEW ms \in Seq(Message), NEW box, Transmit(p, box, ms),
             box[q] \in Seq(Message), Says(inq[q], m) => Says(box[q], m)
      PROVE  Travels(q, m)'
  <2>1. CASE Says(inq[q], m)
    <3>1. inq'[q] = box[q] \/ inq'[q] = box[q] \o ms
      BY <1>3 DEF Transmit
    <3>2. Says(box[q] \o ms, m)
      BY <1>3, <2>1, SaysCat
    <3> QED
      BY <1>3, <2>1, <3>1, <3>2 DEF Travels
  <2>2. CASE m.from \in Client \ {q} /\ Says(up[m.from], m)
    <3>1. up'[m.from] = up[m.from] \/ up'[m.from] = up[m.from] \o ms
      BY <1>1, <1>3, <2>2 DEF Transmit
    <3>2. Says(up[m.from] \o ms, m)
      BY <1>1, <2>2, SaysCat
    <3> QED
      BY <2>2, <3>1, <3>2 DEF Travels
  <2> QED
    BY <2>1, <2>2 DEF Travels
<1>4. ASSUME NEW p \in Peer, NEW ms \in Seq(Message), Transmit(p, inq, ms)
      PROVE  Travels(q, m)'
  BY <1>1, <1>3, <1>4
<1>5. ASSUME NEW p \in Peer, NEW ms \in Seq(Message), PumpStep(p), Transmit(p, Rest(p), ms),
             ~(p = q /\ m = Head(inq[q]))
      PROVE  Travels(q, m)'
  <2>1. inq[p] # <<>>
    BY <1>5 DEF PumpStep
  <2>2. Tail(inq[p]) \in Seq(Message)
    BY <1>1, <2>1, HeadTailProperties
  <2>3. Rest(p)[q] = IF p = q THEN Tail(inq[q]) ELSE inq[q]
    BY <1>1 DEF Rest
  <2>4. Says(inq[q], m) => Says(Rest(p)[q], m)
    BY <1>1, <1>5, <2>3, SaysTail
  <2>5. Rest(p)[q] \in Seq(Message)
    BY <1>1, <2>2, <2>3
  <2> QED
    BY <1>3, <1>5, <2>4, <2>5
<1>6. ASSUME NEW c \in Client, LinkReceive(c) PROVE Travels(q, m)'
  <2>0. PICK d : d = Head(up[c])
    OBVIOUS
  <2>1. /\ up[c] # <<>> /\ up' = [up EXCEPT ![c] = Tail(up[c])]
        /\ inq'[q] = IF q = Host \/ (q # c /\ d.type \in Relayed)
                     THEN Append(inq[q], d) ELSE inq[q]
    BY <1>6, <2>0 DEF LinkReceive
  <2>2. d \in Message
    BY <1>1, <2>0, <2>1, HeadTailProperties
  <2>3. CASE Says(inq[q], m)
    <3>1. Says(Append(inq[q], d), m)
      BY <1>1, <2>2, <2>3, SaysAppend
    <3> QED
      BY <2>1, <2>3, <3>1 DEF Travels
  <2>4. CASE m.from \in Client \ {q} /\ Says(up[m.from], m) /\ m.from = c /\ m = d
    <3>1. inq'[q] = Append(inq[q], d)
      BY <2>1, <2>4
    <3>2. Says(Append(inq[q], d), m)
      BY <1>1, <2>2, <2>4, SaysAppend
    <3> QED
      BY <3>1, <3>2 DEF Travels
  <2>5. CASE m.from \in Client \ {q} /\ Says(up[m.from], m) /\ ~(m.from = c /\ m = d)
    <3>1. up'[m.from] = IF m.from = c THEN Tail(up[c]) ELSE up[m.from]
      BY <1>1, <2>1, <2>5
    <3>2. m.from = c => Says(Tail(up[c]), m)
      BY <1>1, <2>0, <2>5, SaysTail
    <3> QED
      BY <2>5, <3>1, <3>2 DEF Travels
  <2> QED
    BY <2>3, <2>4, <2>5 DEF Travels
<1> QED
  BY <1>2, <1>4, <1>5, <1>6, LinksAre

-------------------------------------------------------------------------------
(* Who stops says so, and who passes a turn sends its hash.                *)

LEMMA SaysHalt ==
  ASSUME NEW p \in Peer, NEW bad, bad, ~halted[p]
  PROVE  Says(HaltIf(p, bad), Halt(p))
BY SaysOne DEF HaltIf

LEMMA SaysHash ==
  ASSUME TypeInv, NEW p \in Peer, NEW t \in Nat, NEW held, NEW stopped, ~halted[p], ~stopped,
         node[p] \in Node, battles[p].current \in Node
  PROVE  /\ HashMessages(p, t, held, stopped) \in Seq(Message)
         /\ Says(HashMessages(p, t, held, stopped), HashMessage(p, BuildHash(p, t)))
         /\ Mismatch(p, BuildHash(p, t), held) =>
              Says(HashMessages(p, t, held, stopped), Halt(p))
<1>0. PICK h, m, halts : /\ h = BuildHash(p, t) /\ m = HashMessage(p, h)
                         /\ halts = HaltIf(p, Mismatch(p, h, held))
  OBVIOUS
<1>1. m \in Message /\ Halt(p) \in Message
  BY <1>0, ChatterSaid DEF Chatter, HashMessage
<1>2. HashMessages(p, t, held, stopped) = <<m>> \o halts
  BY <1>0 DEF HashMessages, HashMessage
<1>3. <<m>> \in Seq(Message) /\ halts \in Seq(Message)
  BY <1>0, <1>1, OneFits, HaltIn
<1>4. Mismatch(p, h, held) => Says(halts, Halt(p))
  BY <1>0, SaysHalt
<1>5. <<m>> \o halts \in Seq(Message)
  BY <1>3, ConcatProperties
<1>6. Says(<<m>> \o halts, m) /\ (Says(halts, Halt(p)) => Says(<<m>> \o halts, Halt(p)))
  BY <1>3, SaysOne, SaysCat
<1> QED
  BY <1>0, <1>2, <1>4, <1>5, <1>6

(* What a boundary says, and what it leaves in the ring.                   *)
Passes(p) ==
  /\ roster'[p] # NoBattle
  /\ \A g \in myHash'[p] :
       \/ g \in myHash[p] /\ turn[p] <= turn'[p] /\ (~halted[p] => Key(p) = turn[p])
       \/ ~halted[p] /\ g = BuildHash(p, Key(p)) /\ turn'[p] = Key(p) + 1
  /\ \E ms \in Seq(Message) :
       /\ Transmit(p, inq, ms)
       /\ \A g \in myHash'[p] :
            g \in myHash[p] \/ Says(ms, HashMessage(p, g))
       /\ halted'[p] /\ ~halted[p] => Says(ms, Halt(p))

LEMMA HashTurnKeeps ==
  ASSUME TypeInv, NEW p \in Peer, NEW t \in Nat, NEW own, NEW held, NEW stopped,
         HashTurn(p, t, own, held, stopped)
  PROVE  /\ turn'[p] = IF stopped THEN t ELSE t + 1
         /\ stopped => myHash'[p] = own
         /\ ~stopped => \A g \in myHash'[p] : g \in own \/ g = BuildHash(p, t)
<1>0. PICK h : h = BuildHash(p, t)
  OBVIOUS
<1>1. TypeOK
  BY DEF TypeInv
<1>2. CASE stopped
  BY <1>1, <1>2 DEF HashTurn, TypeOK
<1>3. CASE ~stopped
  <2>1. /\ turn' = [turn EXCEPT ![p] = t + 1]
        /\ myHash' = [myHash EXCEPT ![p] = PushEvicting(own, h)]
    BY <1>0, <1>3 DEF HashTurn
  <2>2. \A g \in PushEvicting(own, h) : g \in own \/ g = h
    BY DEF PushEvicting
  <2> QED
    BY <1>0, <1>1, <1>3, <2>1, <2>2 DEF TypeOK
<1> QED
  BY <1>2, <1>3

LEMMA NextTurnPasses ==
  ASSUME TypeInv, NEW p \in Peer, NextTurn(p)
  PROVE  Passes(p)
<1>0. PICK t, h, held, ms :
        /\ t = turn[p] /\ h = BuildHash(p, t) /\ held = peerHash[p]
        /\ ms = HashMessages(p, t, held, halted[p])
  OBVIOUS
<1>1. /\ roster[p] # NoBattle /\ roster' = roster
      /\ halted[p] \/ roster[p] = node[p]
      /\ HashTurn(p, t, myHash[p], held, halted[p])
      /\ halted' = [halted EXCEPT ![p] = halted[p] \/ Mismatch(p, h, held)]
      /\ Transmit(p, inq, ms)
  BY <1>0 DEF NextTurn, rosterVars
<1>2. t \in Nat /\ node[p] \in Node /\ battles[p].current \in Node
  BY <1>0 DEF NextTurn, TypeInv, TypeOK, InBattle
<1>3. ~halted[p] => t = Key(p)
  BY <1>0, <1>1 DEF Key
<1>4. halted'[p] <=> halted[p] \/ Mismatch(p, h, held)
  BY <1>1 DEF TypeInv, TypeOK
<1>5. /\ turn'[p] = IF halted[p] THEN t ELSE t + 1
      /\ halted[p] => myHash'[p] = myHash[p]
      /\ ~halted[p] => \A g \in myHash'[p] : g \in myHash[p] \/ g = h
  BY <1>0, <1>1, <1>2, HashTurnKeeps
<1>6. CASE halted[p]
  <2>1. ms \in Seq(Message)
    BY <1>0, <1>6, EmptyFits DEF HashMessages
  <2>2. turn[p] <= turn'[p]
    BY <1>0, <1>2, <1>5, <1>6
  <2>3. /\ \A g \in myHash'[p] : g \in myHash[p] /\ turn[p] <= turn'[p] /\ (~halted[p] => Key(p) = turn[p])
        /\ Transmit(p, inq, ms) /\ ms \in Seq(Message) /\ ~(halted'[p] /\ ~halted[p])
        /\ roster'[p] # NoBattle
    BY <1>1, <1>5, <1>6, <2>1, <2>2
  <2> QED
    BY <2>3 DEF Passes
<1>7. CASE ~halted[p]
  <2>1. /\ ms \in Seq(Message) /\ Says(ms, HashMessage(p, h))
        /\ Mismatch(p, h, held) => Says(ms, Halt(p))
    BY <1>0, <1>2, <1>7, SaysHash
  <2>2. t <= t + 1
    BY <1>2
  <2> QED
    BY <1>0, <1>1, <1>3, <1>4, <1>5, <1>7, <2>1, <2>2 DEF Passes
<1> QED
  BY <1>6, <1>7

LEMMA TakeRosterPasses ==
  ASSUME TypeInv, NEW p \in Peer, Ringed(p), TakeRoster(p)
  PROVE  Passes(p)
<1> DEFINE fresh == roster[p] # NoBattle
           drops(id) == fresh /\ Stale(p, id)
           mine == [battle |-> battles[p].current, cats |-> Claims(p)]
           ctl == [q \in Peer |-> IF q = p THEN mine
                                  ELSE IF drops(control[p][q].battle) THEN NoControl
                                  ELSE control[p][q]]
           checks == AllReported(ctl, battles[p].current)
           bad == checks /\ ~SplitAgrees(ctl)
           stopped == halted[p] \/ bad
           t == IF fresh THEN 0 ELSE turn[p]
           own == IF fresh THEN {} ELSE myHash[p]
           held == [q \in Peer |-> {g \in peerHash[p][q] : ~drops(g.battle)}]
           differs == ~stopped /\ Mismatch(p, BuildHash(p, t), held)
           h == BuildHash(p, t)
           split == <<[type |-> "CONTROL", from |-> p, control |-> mine]>>
           warns == HaltIf(p, bad)
           hashes == HashMessages(p, t, held, stopped)
           ms == split \o warns \o hashes
<1>1. /\ roster[p] = NoBattle \/ (~halted[p] /\ roster[p] # node[p])
      /\ roster' = [roster EXCEPT ![p] = node[p]]
      /\ halted' = [halted EXCEPT ![p] = halted[p] \/ bad \/ differs]
      /\ HashTurn(p, t, own, held, stopped)
      /\ Transmit(p, inq, ms)
  BY DEF TakeRoster
<1>2. node[p] \in Node /\ battles[p].current \in Node /\ node[p] # NoBattle
  BY NoneIsNoNode DEF TakeRoster, TypeInv, TypeOK, InBattle
<1>3. /\ stopped = (halted[p] \/ bad)
      /\ (differs => ~stopped /\ Mismatch(p, h, held))
      /\ (~stopped /\ Mismatch(p, h, held) => differs)
  OBVIOUS
<1>4. t \in Nat
  BY DEF TypeInv, TypeOK
<1>5. own = {}
  BY DEF Ringed
<1>6. split \in Seq(Message)
  <2>1. [type |-> "CONTROL", from |-> p, control |-> mine] \in Message
    BY <1>2, ChatterSaid DEF Chatter
  <2> QED
    BY <2>1, OneFits
<1>7. fresh => ~halted[p] /\ roster[p] # node[p] /\ t = 0
  BY <1>1
<1>8. ~fresh => roster[p] = NoBattle /\ t = turn[p]
  OBVIOUS
<1>9. Halt(p) \in Message
  BY DEF Halt, Message
<1> HIDE DEF fresh, drops, mine, ctl, checks, bad, stopped, t, own, held, differs, h, split, warns, hashes
<1>10. warns \in Seq(Message)
  BY <1>9, HaltIn DEF warns
<1>11. bad /\ ~halted[p] => Says(warns, Halt(p))
  BY SaysHalt DEF warns
<1>12. /\ hashes \in Seq(Message)
       /\ ~stopped => Says(hashes, HashMessage(p, h))
       /\ ~stopped /\ Mismatch(p, h, held) => Says(hashes, Halt(p))
  <2>1. CASE stopped
    BY <2>1, EmptyFits DEF hashes, HashMessages
  <2>2. CASE ~stopped
    <3>1. ~halted[p]
      BY <1>3, <2>2
    <3> QED
      BY <1>2, <1>4, <2>2, <3>1, SaysHash DEF hashes, h
  <2> QED
    BY <2>1, <2>2
<1>13. split \o warns \in Seq(Message)
  BY <1>6, <1>10, ConcatProperties
<1>14. ms \in Seq(Message)
  BY <1>12, <1>13, ConcatProperties
<1>15. \A m : Says(warns, m) \/ Says(hashes, m) => Says(ms, m)
  BY <1>6, <1>10, <1>12, <1>13, SaysCat
<1> HIDE DEF ms
<1>16. /\ turn'[p] = IF stopped THEN t ELSE t + 1
       /\ stopped => myHash'[p] = own
       /\ ~stopped => \A g \in myHash'[p] : g \in own \/ g = BuildHash(p, t)
  BY <1>1, <1>4, HashTurnKeeps
<1>17. roster'[p] = node[p] /\ (halted'[p] <=> halted[p] \/ bad \/ differs)
  BY <1>1 DEF TypeInv, TypeOK
<1>18. t = Key(p)
  <2>1. fresh <=> roster[p] # NoBattle
    BY DEF fresh
  <2> QED
    BY <1>7, <1>8, <2>1 DEF Key
<1>19. \A g \in myHash'[p] : ~stopped /\ g = h /\ turn'[p] = t + 1
  BY <1>5, <1>16 DEF h
<1>20. halted'[p] /\ ~halted[p] => Says(ms, Halt(p))
  BY <1>3, <1>11, <1>12, <1>15, <1>17
<1>21. ~stopped => ~halted[p]
  BY <1>3
<1>22. \A g \in myHash'[p] : ~halted[p] /\ g = BuildHash(p, Key(p)) /\ turn'[p] = Key(p) + 1
  BY <1>18, <1>19, <1>21 DEF h
<1>23. \A g \in myHash'[p] : Says(ms, HashMessage(p, g))
  BY <1>12, <1>15, <1>19
<1> QED
  BY <1>1, <1>2, <1>14, <1>17, <1>20, <1>22, <1>23 DEF Passes

LEMMA BoundaryPasses ==
  ASSUME TypeInv, NEW p \in Peer, Ringed(p), Boundary(p)
  PROVE  Passes(p)
BY NextTurnPasses, TakeRosterPasses DEF Boundary

(* Whoever stops tells everyone, or was told itself.                       *)
LEMMA StopsAloud ==
  ASSUME TypeInv, [Next]_vars, NEW p \in Peer, Ringed(p), halted'[p], ~halted[p]
  PROVE  \/ \A q \in Peer \ {p} : Travels(q, Halt(p))'
         \/ PumpStep(p) /\ Head(inq[p]).type = "HALT"
<1>1. TypeOK /\ Halt(p) \in Message /\ Halt(p).from = p
  BY DEF TypeInv, Halt, Message
<1>2. ASSUME halted' = halted PROVE FALSE
  BY <1>2
<1>3. ASSUME NEW r \in Peer, NEW x, halted' = [halted EXCEPT ![r] = x] PROVE r = p
  BY <1>1, <1>3 DEF TypeOK
<1>4. ASSUME NEW box, NEW ms \in Seq(Message), Transmit(p, box, ms),
             \A r \in Peer : box[r] \in Seq(Message), Says(ms, Halt(p))
      PROVE  \A q \in Peer \ {p} : Travels(q, Halt(p))'
  BY <1>1, <1>4, Transmitted
<1>5. \A r \in Peer : inq[r] \in Seq(Message)
  BY DEF TypeInv, TypeOK
<1>6. ASSUME NEW r \in Peer, PumpStep(r), ~(r = p /\ Head(inq[p]).type = "HALT")
      PROVE  \A q \in Peer \ {p} : Travels(q, Halt(p))'
  <2>0. PICK m : m = Head(inq[r])
    OBVIOUS
  <2>1. CASE OnEnterNode(r, m) \/ OnAction(r, m)
    BY <2>1, <1>2 DEF OnEnterNode, OnAction
  <2>2. CASE OnHalt(r, m)
    BY <2>0, <2>2, <1>3, <1>6 DEF OnHalt
  <2>3. CASE OnControl(r, m) \/ OnHash(r, m)
    <3>1. PICK bad : Transmit(r, Rest(r), HaltIf(r, bad))
                     /\ halted' = [halted EXCEPT ![r] = halted[r] \/ bad]
      BY <2>3 DEF OnControl, OnHash
    <3>2. r = p
      BY <3>1, <1>3
    <3>3. bad
      BY <1>1, <3>1, <3>2 DEF TypeOK
    <3>4. HaltIf(p, bad) \in Seq(Message) /\ Says(HaltIf(p, bad), Halt(p))
      BY <1>1, <3>3, HaltIn, SaysHalt
    <3>5. \A x \in Peer : Rest(p)[x] \in Seq(Message)
      <4>1. Tail(inq[p]) \in Seq(Message)
        BY <1>5, <1>6, <3>2, HeadTailProperties DEF PumpStep
      <4> QED
        BY <1>1, <1>5, <4>1 DEF Rest, TypeOK
    <3> QED
      BY <3>1, <3>2, <3>4, <3>5, <1>4
  <2> QED
    BY <1>6, <2>0, <2>1, <2>2, <2>3 DEF PumpStep, Pump
<1>7. ASSUME NEW r \in Peer, Boundary(r)
      PROVE  \A q \in Peer \ {p} : Travels(q, Halt(p))'
  <2>1. r = p
    BY <1>7, BoundaryAlone
  <2>2. PICK ms \in Seq(Message) : Transmit(p, inq, ms) /\ Says(ms, Halt(p))
    BY <1>7, <2>1, BoundaryPasses DEF Passes
  <2> QED
    BY <1>4, <1>5, <2>2
<1>8. ASSUME NEW r \in Peer, ApplyRemote(r)
      PROVE  \A q \in Peer \ {p} : Travels(q, Halt(p))'
  <2>1. halted' = [halted EXCEPT ![r] = TRUE] /\ Transmit(r, inq, HaltIf(r, TRUE))
    BY <1>2, <1>8 DEF ApplyRemote
  <2>2. r = p
    BY <2>1, <1>3
  <2>3. HaltIf(p, TRUE) \in Seq(Message) /\ Says(HaltIf(p, TRUE), Halt(p))
    BY <1>1, HaltIn, SaysHalt
  <2> QED
    BY <1>4, <1>5, <2>1, <2>2, <2>3
<1>9. ASSUME NEW r \in Peer, DecideAI(r) \/ (\E act \in Act : DecideLocal(r, act)) \/ Apply(r) \/ Diverge(r)
      PROVE  FALSE
  BY <1>2, <1>9 DEF DecideAI, DecideLocal, Apply, Diverge
<1>10. ASSUME NEW n \in Node, HostEnterNode(n) PROVE FALSE
  BY <1>2, <1>10 DEF HostEnterNode
<1>11. ASSUME NEW c \in Client, FollowNode(c) \/ LinkReceive(c) PROVE FALSE
  BY <1>2, <1>11 DEF FollowNode, LinkReceive
<1>12. CASE UNCHANGED vars
  BY <1>2, <1>12 DEF vars
<1> QED
  BY <1>6, <1>7, <1>8, <1>9, <1>10, <1>11, <1>12 DEF Next, Decide

-------------------------------------------------------------------------------
(* The ring of own hashes.                                                 *)

LEMMA AtBoundary ==
  ASSUME TypeInv, [Next]_vars, NEW q \in Peer
  PROVE  \/ Boundary(q)
         \/ roster'[q] = roster[q] /\ myHash'[q] = myHash[q] /\ turn'[q] = turn[q]
<1>1. ASSUME NEW p \in Peer, Boundary(p)
      PROVE  q = p \/ (roster'[q] = roster[q] /\ myHash'[q] = myHash[q] /\ turn'[q] = turn[q])
  BY <1>1, BoundaryAlone
<1>2. ASSUME NEW n \in Node, HostEnterNode(n)
      PROVE  roster' = roster /\ myHash' = myHash /\ turn' = turn
  BY <1>2 DEF HostEnterNode, rosterVars, hashVars
<1>3. ASSUME NEW c \in Client, FollowNode(c) \/ LinkReceive(c)
      PROVE  roster' = roster /\ myHash' = myHash /\ turn' = turn
  BY <1>3 DEF FollowNode, LinkReceive, rosterVars, hashVars
<1>4. ASSUME NEW p \in Peer, PumpStep(p)
      PROVE  roster' = roster /\ myHash' = myHash /\ turn' = turn
  BY <1>4 DEF PumpStep, Pump, OnEnterNode, OnControl, OnAction, OnHash, OnHalt,
              rosterVars, hashVars
<1>5. ASSUME NEW p \in Peer, Decide(p) \/ Apply(p) \/ Diverge(p)
      PROVE  roster' = roster /\ myHash' = myHash /\ turn' = turn
  BY <1>5 DEF Decide, DecideAI, DecideLocal, ApplyRemote, Apply, Diverge, rosterVars, hashVars
<1>6. CASE UNCHANGED vars
  BY <1>6 DEF vars, rosterVars, hashVars
<1> QED
  BY <1>1, <1>2, <1>3, <1>4, <1>5, <1>6 DEF Next

LEMMA RingedBoundary ==
  ASSUME TypeInv, GateInv, CopyInv, NEW p \in Peer, Marked(p), Ringed(p), Boundary(p)
  PROVE  Ringed(p)'
<1>0. PICK h, k : h = BuildHash(p, Key(p)) /\ k = Key(p)
  OBVIOUS
<1>1. Passes(p)
  BY BoundaryPasses
<1>2. /\ hist' = hist /\ joined[p] \subseteq joined'[p]
      /\ ~halted[p] => node[p] \in joined'[p]
  <2>1. hist' = hist /\ joined[p] \subseteq joined'[p]
    BY DEF Boundary, TakeRoster, NextTurn, BeginTurn, rosterVars, TypeInv, TypeOK
  <2>2. CASE TakeRoster(p)
    BY <2>1, <2>2 DEF TakeRoster, TypeInv, TypeOK
  <2>3. CASE NextTurn(p)
    BY <2>1, <2>3 DEF NextTurn, GateInv, OwnRoster
  <2> QED
    BY <2>1, <2>2, <2>3 DEF Boundary
<1>3. ~halted[p] =>
        /\ h.battle = node[p] /\ h.turn = k
        /\ AtTurn(h.digest.done, h.turn) /\ Begins(h.digest.done, hist[p][h.battle])
  BY <1>0, BuiltAt
<1>4. turn[p] \in Nat /\ turn'[p] \in Nat /\ k \in Nat /\ myHash[p] \subseteq Hash
  <2>1. turn' \in [Peer -> Nat]
    BY TypeStep DEF Next, TypeInv, TypeOK
  <2> QED
    BY <1>0, <2>1, KeyType DEF TypeInv, TypeOK
<1>5. ASSUME NEW g \in myHash'[p]
      PROVE  /\ \/ g \in myHash[p] /\ turn[p] <= turn'[p] /\ (~halted[p] => k = turn[p])
                \/ ~halted[p] /\ g = h /\ turn'[p] = k + 1
             /\ g.battle \in joined'[p] /\ g.turn < turn'[p]
             /\ AtTurn(g.digest.done, g.turn) /\ Begins(g.digest.done, hist'[p][g.battle])
  <2>1. CASE g \in myHash[p] /\ turn[p] <= turn'[p] /\ (~halted[p] => k = turn[p])
    <3>1. g.battle \in joined[p] /\ g.turn < turn[p]
          /\ AtTurn(g.digest.done, g.turn) /\ Begins(g.digest.done, hist[p][g.battle])
      BY <2>1 DEF Ringed
    <3>2. g.turn \in Nat
      BY <1>4, <2>1 DEF Hash
    <3>3. g.turn < turn'[p]
      BY <1>4, <2>1, <3>1, <3>2
    <3> QED
      BY <1>2, <2>1, <3>1, <3>3
  <2>2. CASE ~halted[p] /\ g = h /\ turn'[p] = k + 1
    BY <1>2, <1>3, <1>4, <2>2
  <2> QED
    BY <1>0, <1>1, <2>1, <2>2 DEF Passes
<1>6. ASSUME NEW g \in myHash'[p], NEW i \in myHash'[p], SameTurn(g, i) PROVE g = i
  <2>1. ASSUME NEW x \in myHash[p], k = turn[p], h.turn = k PROVE x.turn # h.turn
    <3>1. x.turn < turn[p] /\ x.turn \in Nat
      BY <1>4 DEF Ringed, Hash
    <3> QED
      BY <1>4, <2>1, <3>1
  <2>2. g.turn = i.turn
    BY <1>6 DEF SameTurn
  <2>3. CASE g \in myHash[p] /\ i \in myHash[p]
    BY <1>6, <2>3 DEF Ringed
  <2> QED
    BY <1>3, <1>5, <2>1, <2>2, <2>3
<1>7. roster'[p] # NoBattle
  BY <1>1 DEF Passes
<1> QED
  BY <1>5, <1>6, <1>7 DEF Ringed

LEMMA RingedStep ==
  ASSUME TypeInv, GateInv, CopyInv, [Next]_vars, NEW q \in Peer, Marked(q), Ringed(q)
  PROVE  Ringed(q)'
<1>1. CASE Boundary(q)
  BY <1>1, RingedBoundary
<1>2. CASE roster'[q] = roster[q] /\ myHash'[q] = myHash[q] /\ turn'[q] = turn[q]
  <2>1. joined[q] \subseteq joined'[q]
    BY Steady
  <2>2. ASSUME NEW h \in myHash[q] PROVE Begins(h.digest.done, hist'[q][h.battle])
    <3>1. h \in Hash
      BY DEF TypeInv, TypeOK
    <3>2. h.battle \in Node /\ h.digest.done \in Seq(Decision)
      BY <3>1 DEF Hash, Digest
    <3> QED
      BY <3>2, HistoryGrows DEF Ringed
  <2>3. \A h \in myHash[q] :
          /\ h.battle \in joined[q] /\ h.turn < turn[q]
          /\ AtTurn(h.digest.done, h.turn)
    BY DEF Ringed
  <2> QED
    BY <1>2, <2>1, <2>2, <2>3 DEF Ringed
<1> QED
  BY <1>1, <1>2, AtBoundary

-------------------------------------------------------------------------------
(* Two hashes of a turn.                                                   *)

(* Who is in a battle whose hashes it has was in it before.                *)
LEMMA CurrentThen ==
  ASSUME TypeInv, RoadInv, [Next]_vars, NEW q \in Peer, NEW b \in joined[q],
         battles'[q].current = b
  PROVE  battles[q].current = b
<1>0. b \in Node
  BY DEF TypeInv, TypeOK
<1>1. ASSUME NEW n \in Node, EnterNode(q, n), Untouched(q, n) PROVE FALSE
  <2>1. battles[q] \in Tracker /\ battles'[q] = EnterBattle(battles[q], n)
    BY <1>1 DEF EnterNode, TypeInv, TypeOK
  <2>2. battles'[q].current = n
    BY <1>1, <2>1, TrackerType
  <2> QED
    BY <1>1, <2>2 DEF Untouched
<1>2. ASSUME NEW n \in Node, HostEnterNode(n) PROVE battles[q].current = b
  <2>1. q # Host
    BY <1>1, <1>2, EntersUntouched DEF HostEnterNode
  <2>2. Idle(q)
    BY <1>2, <2>1, HostIsPeer, OthersIdle
  <2> QED
    BY <2>2 DEF Idle
<1>3. ASSUME NEW c \in Client, FollowNode(c) PROVE battles[q].current = b
  <2>1. q # c
    BY <1>1, <1>3, EntersUntouched DEF FollowNode
  <2>2. Idle(q)
    BY <1>3, <2>1, HostIsPeer, OthersIdle
  <2> QED
    BY <2>2 DEF Idle
<1>4. ASSUME NEW p \in Peer, Boundary(p) \/ Decide(p) \/ Apply(p) PROVE battles' = battles
  BY <1>4 DEF Boundary, TakeRoster, NextTurn, Decide, DecideAI, DecideLocal, ApplyRemote, Apply
<1>5. CASE \/ \E c \in Client : LinkReceive(c)
           \/ \E p \in Peer : PumpStep(p) \/ Diverge(p)
           \/ UNCHANGED vars
  BY <1>5, AllIdle DEF Idle
<1> QED
  BY <1>2, <1>3, <1>4, <1>5 DEF Next

(* A hash that differs from one's own of the turn stops its reader.        *)
LEMMA CaughtOnReading ==
  ASSUME DesyncHalt, TypeInv, NEW p \in Peer, NEW q \in Peer, NEW h \in myHash[p], NEW k \in myHash[q],
         PumpStep(q), Head(inq[q]) = HashMessage(p, h), Apart(p, q, h, k)
  PROVE  halted'[q]
<1>0. PICK m : m = Head(inq[q])
  OBVIOUS
<1>1. m.type = "HASH" /\ m.hash = h
  BY <1>0 DEF HashMessage
<1>2. OnHash(q, m)
  BY <1>0, <1>1 DEF PumpStep, Pump, OnEnterNode, OnControl, OnAction, OnHalt
<1>3. h \in Hash /\ h.battle \in Node
  <2>1. h \in Hash
    BY DEF TypeInv, TypeOK
  <2> QED
    BY <2>1 DEF Hash
<1>4. ~Stale(q, h.battle)
  <2>1. h.battle = battles[q].current /\ h.battle # NoBattle
    BY <1>3, NoneIsNoNode DEF Apart
  <2> QED
    BY <2>1 DEF Stale, IsRetired, BattleRel
<1>5. Disagrees(h, myHash[q])
  BY DEF Disagrees, Apart, SameTurn
<1>6. PICK bad : /\ bad = (~(halted[q] \/ Stale(q, m.hash.battle)) /\ DesyncHalt /\ Disagrees(m.hash, myHash[q]))
                 /\ halted' = [halted EXCEPT ![q] = halted[q] \/ bad]
  BY <1>2 DEF OnHash
<1>7. halted[q] \/ bad
  BY <1>1, <1>4, <1>5, <1>6
<1>8. halted \in [Peer -> BOOLEAN]
  BY DEF TypeInv, TypeOK
<1> HIDE DEF Apart
<1> QED
  BY <1>6, <1>7, <1>8, Zenon

(* A hash that is new is on its way to all others.                         *)
LEMMA PassedAloud ==
  ASSUME TypeInv, [Next]_vars, NEW p \in Peer, Ringed(p), NEW h \in myHash'[p], h \notin myHash[p],
         NEW q \in Peer, q # p
  PROVE  Travels(q, HashMessage(p, h))'
<1>1. Boundary(p)
  BY AtBoundary
<1>2. PICK ms \in Seq(Message) : Transmit(p, inq, ms) /\ Says(ms, HashMessage(p, h))
  BY <1>1, BoundaryPasses DEF Passes
<1>3. \A r \in Peer : inq[r] \in Seq(Message)
  BY DEF TypeInv, TypeOK
<1>4. HashMessage(p, h).from = p
  BY DEF HashMessage
<1> QED
  BY <1>2, <1>3, <1>4, Transmitted

LEMMA ApartStep ==
  ASSUME DesyncHalt, TypeInv, RoadInv, CatchInv, [Next]_vars, ~Stopped',
         NEW p \in Peer, NEW q \in Peer, p # q, NEW h \in myHash'[p], NEW k \in myHash'[q],
         Apart(p, q, h, k)'
  PROVE  Travels(q, HashMessage(p, h))' \/ Travels(p, HashMessage(q, k))'
<1>1. Ringed(p) /\ Ringed(q)
  BY DEF CatchInv
<1>2. CASE h \notin myHash[p] \/ k \notin myHash[q]
  BY <1>1, <1>2, PassedAloud
<1>3. CASE h \in myHash[p] /\ k \in myHash[q]
  <2>1. Apart(p, q, h, k) /\ Apart(q, p, k, h)
    <3>1. h.battle \in joined[p] /\ k.battle \in joined[q]
      BY <1>1, <1>3 DEF Ringed
    <3>2. /\ SameTurn(h, k) /\ h.digest # k.digest
          /\ battles'[p].current = h.battle /\ battles'[q].current = h.battle
      BY DEF Apart
    <3>3. h.battle = k.battle /\ SameTurn(k, h)
      BY <3>2 DEF SameTurn
    <3>4. battles[p].current = h.battle /\ battles[q].current = h.battle
      BY <3>1, <3>2, <3>3, CurrentThen
    <3> QED
      BY <3>2, <3>3, <3>4 DEF Apart
  <2>2. ~Stopped
    BY Steady DEF Stopped
  <2>3. Travels(q, HashMessage(p, h)) \/ Travels(p, HashMessage(q, k))
    BY <1>3, <2>1, <2>2 DEF CatchInv
  <2>4. HashMessage(p, h).type \in Relayed /\ HashMessage(q, k).type \in Relayed
    BY DEF HashMessage, Relayed
  <2>5. ~(PumpStep(q) /\ Head(inq[q]) = HashMessage(p, h))
    BY <1>3, <2>1, CaughtOnReading DEF Stopped
  <2>6. ~(PumpStep(p) /\ Head(inq[p]) = HashMessage(q, k))
    BY <1>3, <2>1, CaughtOnReading DEF Stopped
  <2> QED
    BY <2>3, <2>4, <2>5, <2>6, TravelsOn
<1> QED
  BY <1>2, <1>3

(* Nobody says that it has stopped before somebody has.                    *)
LEMMA HaltsMeantStep ==
  ASSUME TypeInv, CatchInv, [Next]_vars
  PROVE  /\ \A q \in Peer : inq'[q] \in Seq({m \in Message : HaltMeant(m)'})
         /\ \A c \in Client : up'[c] \in Seq({m \in Message : HaltMeant(m)'})
<1>0. PICK Meant, In, Out, Said :
        /\ Meant = {m \in Message : HaltMeant(m)'}
        /\ In = [q \in Peer |-> Meant] /\ Out = [c \in Client |-> Meant] /\ Said = [p \in Peer |-> Meant]
  OBVIOUS
<1>1. {m \in Message : HaltMeant(m)} \subseteq Meant
  BY <1>0, Steady DEF HaltMeant, Stopped
<1>2. \A q \in Peer : inq[q] \in Seq(In[q])
  <2> SUFFICES ASSUME NEW q \in Peer PROVE inq[q] \in Seq(Meant)
    BY <1>0
  <2>1. inq[q] \in Seq({m \in Message : HaltMeant(m)})
    BY DEF CatchInv
  <2> QED
    BY <1>1, <2>1, SeqMonotonic
<1>3. ASSUME NEW c \in Client PROVE up[c] \in Seq(Meant)
  <2>1. up[c] \in Seq({m \in Message : HaltMeant(m)})
    BY DEF CatchInv
  <2> QED
    BY <1>1, <2>1, SeqMonotonic
<1>4. \A c \in Client : up[c] \in Seq(Out[c])
  BY <1>0, <1>3
<1>5. \A c \in Client : LinkReceive(c) => \A q \in Peer : q # c => Head(up[c]) \in In[q]
  <2> SUFFICES ASSUME NEW c \in Client, LinkReceive(c) PROVE Head(up[c]) \in Meant
    BY <1>0
  <2>1. up[c] # <<>> /\ up[c] \in Seq(Meant)
    BY <1>3 DEF LinkReceive
  <2> QED
    BY <2>1, HeadTailProperties
<1>6. /\ \A q \in Client : Said[Host] \subseteq In[q]
      /\ \A c \in Client : Said[c] \subseteq Out[c]
  BY <1>0, HostIsPeer
<1>7. \A n \in Node : HostEnterNode(n) => NodeOf(n) \in Said[Host]
  <2> SUFFICES ASSUME NEW n \in Node PROVE NodeOf(n) \in Meant
    BY <1>0, HostIsPeer
  <2>1. NodeOf(n) \in Message /\ NodeOf(n).type = "ENTERNODE"
    BY HostIsPeer DEF NodeOf, Message
  <2> QED
    BY <1>0, <2>1 DEF HaltMeant
<1>8. ASSUME NEW p \in Peer, halted'[p], ~halted[p] PROVE Halt(p) \in Said[p]
  <2>1. Halt(p) \in Message
    BY DEF Halt, Message
  <2>2. Stopped'
    BY <1>8 DEF Stopped
  <2> QED
    BY <1>0, <2>1, <2>2 DEF HaltMeant
<1>9. ASSUME NEW p \in Peer, TakeRoster(p) PROVE SplitOf(p) \in Said[p]
  <2>1. battles[p].current \in Node
    BY <1>9 DEF TakeRoster, TypeInv, TypeOK, InBattle
  <2>2. SplitOf(p) \in Message /\ SplitOf(p).type = "CONTROL"
    BY <2>1, ChatterSaid DEF SplitOf, Chatter
  <2> QED
    BY <1>0, <2>2 DEF HaltMeant
<1>10. ASSUME NEW p \in Peer, Boundary(p), ~halted[p] PROVE HashOf(p) \in Said[p]
  <2>1. node[p] \in Node /\ battles[p].current \in Node
    BY <1>10 DEF Boundary, TakeRoster, NextTurn, TypeInv, TypeOK, InBattle
  <2>2. HashOf(p) \in Chatter /\ HashOf(p).type = "HASH"
    BY <2>1, KeyType, ChatterSaid DEF HashOf
  <2> QED
    BY <1>0, <2>2 DEF HaltMeant, Chatter
<1>11. ASSUME NEW p \in Peer, NEW act \in Act, DecideLocal(p, act) PROVE MoveOf(p, act) \in Said[p]
  <2>1. HumanPolled(p)
    BY <1>11 DEF DecideLocal
  <2>2. MoveOf(p, act) \in Message /\ MoveOf(p, act).type = "ACTION"
    BY <2>1, MoveType
  <2> QED
    BY <1>0, <2>2 DEF HaltMeant
<1>12. /\ \A q \in Peer : inq'[q] \in Seq(In[q])
       /\ \A c \in Client : up'[c] \in Seq(Out[c])
  BY <1>2, <1>4, <1>5, <1>6, <1>7, <1>8, <1>9, <1>10, <1>11, LinksStep
<1> QED
  BY <1>0, <1>12

(* Once somebody has stopped, all have or are going to hear of it.         *)
LEMMA AlarmStep ==
  ASSUME TypeInv, CatchInv, [Next]_vars, Stopped', NEW s \in Peer
  PROVE  Alarmed(s)'
<1>1. ASSUME NEW r \in Peer, PumpStep(r), Head(inq[r]).type = "HALT"
      PROVE  halted'[r] /\ Stopped
  <2>0. PICK m : m = Head(inq[r])
    OBVIOUS
  <2>1. OnHalt(r, m)
    BY <1>1, <2>0 DEF PumpStep, Pump, OnEnterNode, OnControl, OnAction, OnHash
  <2>2. inq[r] # <<>> /\ inq[r] \in Seq({x \in Message : HaltMeant(x)})
    BY <1>1 DEF PumpStep, CatchInv
  <2>3. m \in {x \in Message : HaltMeant(x)}
    BY <2>0, <2>2, HeadTailProperties
  <2> QED
    BY <1>1, <2>0, <2>1, <2>3 DEF OnHalt, HaltMeant, TypeInv, TypeOK
<1>2. CASE Stopped
  <2>1. Alarmed(s)
    BY <1>2 DEF CatchInv
  <2>2. CASE halted[s]
    BY <2>2, Steady DEF Alarmed
  <2>3. ASSUME NEW r \in Peer \ {s}, Travels(s, Halt(r)) PROVE Alarmed(s)'
    <3>1. Halt(r).type = "HALT" /\ Halt(r).type \in Relayed
      BY DEF Halt, Relayed
    <3>2. Travels(s, Halt(r))' \/ (PumpStep(s) /\ Halt(r) = Head(inq[s]))
      BY <2>3, <3>1, TravelsOn
    <3>3. CASE PumpStep(s) /\ Halt(r) = Head(inq[s])
      BY <1>1, <3>1, <3>3 DEF Alarmed
    <3>4. CASE Travels(s, Halt(r))'
      BY <3>4 DEF Alarmed, Halt
    <3> QED
      BY <3>2, <3>3, <3>4
  <2> QED
    BY <2>1, <2>2, <2>3 DEF Alarmed
<1>3. CASE ~Stopped
  <2>1. PICK p \in Peer : halted'[p] /\ ~halted[p]
    BY <1>3 DEF Stopped
  <2>2. Ringed(p)
    BY DEF CatchInv
  <2>3. \A q \in Peer \ {p} : Travels(q, Halt(p))'
    BY <1>1, <1>3, <2>1, <2>2, StopsAloud
  <2>4. CASE s = p
    BY <2>1, <2>4 DEF Alarmed
  <2>5. CASE s # p
    BY <2>3, <2>5 DEF Alarmed, Halt
  <2> QED
    BY <2>4, <2>5
<1> QED
  BY <1>2, <1>3

LEMMA CatchStep ==
  ASSUME DesyncHalt, TypeInv, GateInv, CopyInv, RoadInv, \A p \in Peer : Marked(p), CatchInv,
         [Next]_vars
  PROVE  CatchInv'
<1>1. \A p \in Peer : Ringed(p)'
  BY RingedStep DEF CatchInv
<1>2. \A p, q \in Peer : \A h \in myHash'[p], k \in myHash'[q] :
        p # q /\ Apart(p, q, h, k)' =>
          Stopped' \/ Travels(q, HashMessage(p, h))' \/ Travels(p, HashMessage(q, k))'
  BY ApartStep
<1>3. Stopped' => \A s \in Peer : Alarmed(s)'
  BY AlarmStep
<1> QED
  BY <1>1, <1>2, <1>3, HaltsMeantStep DEF CatchInv, HashMessage

LEMMA CatchInit == Init => CatchInv
<1> SUFFICES ASSUME Init PROVE CatchInv
  OBVIOUS
<1>1. /\ \A p \in Peer : myHash[p] = {} /\ inq[p] = <<>> /\ ~halted[p]
      /\ \A c \in Client : up[c] = <<>>
  BY DEF Init
<1>2. \A p \in Peer : Ringed(p)
  BY <1>1 DEF Ringed
<1>3. ~Stopped
  BY <1>1 DEF Stopped
<1> QED
  BY <1>1, <1>2, <1>3, EmptyFits DEF CatchInv

-------------------------------------------------------------------------------
(* What is hashed of a turn is what was decided before it.                 *)

LEMMA BeforeTurn ==
  ASSUME NEW ds \in Seq(Decision), NEW done \in Seq(Decision), NEW t \in Nat,
         AtTurn(done, t), Begins(done, ds)
  PROVE  Before(ds, t) = done
<1> DEFINE n == Len(done)
<1>1. /\ n \in Nat /\ Len(ds) \in Nat /\ DOMAIN ds = 1 .. Len(ds) /\ DOMAIN done = 1 .. n
      /\ n <= Len(ds) /\ \A i \in 1 .. n : ds[i] = done[i]
  BY LenProperties DEF Begins
<1>2. Ends(ds, n) = t
  BY <1>1, EndsSame DEF AtTurn
<1> HIDE DEF n
<1>3. ASSUME NEW i \in 1 .. Len(ds) PROVE Ends(ds, i - 1) < t <=> i <= n
  <2>1. i - 1 \in Nat /\ Ends(ds, i - 1) \in Nat
    <3>1. i - 1 \in Nat
      BY <1>1
    <3> QED
      BY <3>1, EndsType
  <2>2. CASE i <= n
    <3>1. done # <<>> /\ n \in 1 .. n
      BY <1>1, <2>2 DEF n
    <3>2. ds[n].act = EndTurn
      BY <1>1, <3>1 DEF AtTurn, n
    <3>3. i - 1 < n
      BY <1>1, <2>1, <2>2
    <3> QED
      BY <1>1, <1>2, <2>1, <2>2, <3>2, <3>3, EndsPast
  <2>3. CASE ~(i <= n)
    <3>1. n <= i - 1
      BY <1>1, <2>3
    <3>2. t <= Ends(ds, i - 1)
      BY <1>1, <1>2, <2>1, <3>1, EndsGrow
    <3> QED
      BY <2>1, <2>3, <3>2
  <2> QED
    BY <2>2, <2>3
<1>4. {i \in DOMAIN ds : Ends(ds, i - 1) < t} = 1 .. n
  BY <1>1, <1>3
<1>5. Cardinality(1 .. n) = n
  <2>1. 1 \in Int /\ n \in Int /\ (IF 1 > n THEN 0 ELSE n - 1 + 1) = n
    BY <1>1
  <2> QED
    BY <2>1, FS_Interval, Zenon
<1>6. Before(ds, t) = SubSeq(ds, 1, Cardinality({i \in DOMAIN ds : Ends(ds, i - 1) < t}))
  BY DEF Before, Ends
<1>7. Before(ds, t) = SubSeq(ds, 1, n)
  BY <1>4, <1>5, <1>6
<1>8. SubSeq(ds, 1, n) = done
  <2>1. n = 0 => SubSeq(ds, 1, n) = <<>> /\ done = <<>>
    <3>1. n = 0 => done = <<>>
      BY EmptySeq DEF n
    <3>2. n = 0 => SubSeq(ds, 1, n) = <<>>
      BY SubSeqEmpty
    <3> QED
      BY <3>1, <3>2
  <2>2. CASE n # 0
    <3> DEFINE u == SubSeq(ds, 1, n)
    <3>1. /\ u \in Seq(Decision) /\ Len(u) = n
          /\ \A i \in 1 .. n : u[i] = ds[i]
      <4>1. \A i \in 1 .. n : i \in 1 .. n - 1 + 1 /\ 1 + i - 1 = i
        BY <1>1
      <4>2. 1 \in 1 .. Len(ds) + 1 /\ n \in 0 .. Len(ds) /\ 1 <= n /\ n - 1 + 1 = n
        BY <1>1, <2>2
      <4> QED
        BY <1>1, <4>1, <4>2, SubSeqProperties
    <3> HIDE DEF u
    <3>2. u = done
      BY <1>1, <3>1, SeqEqual DEF n
    <3> QED
      BY <3>2 DEF u
  <2> QED
    BY <2>1, <2>2
<1> QED
  BY <1>7, <1>8

LEMMA CatchCaught == TypeInv /\ CatchInv => DivergenceCaught
<1> SUFFICES ASSUME TypeInv, CatchInv, NEW p \in Peer, NEW q \in Peer, NEW b \in Node, Quiet,
                    battles[p].current = b, battles[q].current = b,
                    NEW h \in myHash[p], NEW k \in myHash[q], h.battle = b, SameTurn(h, k),
                    \/ Before(hist[p][b], h.turn) # Before(hist[q][b], k.turn)
                    \/ h.digest # k.digest,
                    NEW r \in Peer
             PROVE  halted[r]
  BY DEF DivergenceCaught
<1>1. /\ h \in Hash /\ k \in Hash
      /\ hist[p][b] \in Seq(Decision) /\ hist[q][b] \in Seq(Decision)
  BY DEF TypeInv, TypeOK
<1>2. /\ h.turn \in Nat /\ h.digest.done \in Seq(Decision)
      /\ k.turn \in Nat /\ k.digest.done \in Seq(Decision)
  BY <1>1 DEF Hash, Digest
<1>3. k.battle = b /\ k.turn = h.turn
  BY DEF SameTurn
<1>4. Ringed(p) /\ Ringed(q)
  BY DEF CatchInv
<1>5. Before(hist[p][b], h.turn) = h.digest.done
  BY <1>1, <1>2, <1>4, BeforeTurn DEF Ringed
<1>6. Before(hist[q][b], k.turn) = k.digest.done
  BY <1>1, <1>2, <1>3, <1>4, BeforeTurn DEF Ringed
<1>7. h.digest # k.digest
  BY <1>5, <1>6
<1>8. p # q
  BY <1>4, <1>7 DEF Ringed
<1>9. Apart(p, q, h, k)
  BY <1>7 DEF Apart
<1>10. \A s \in Peer : \A m : ~Travels(s, m)
  <2>1. \A m : ~Says(<<>>, m)
    BY DEF Says
  <2> QED
    BY <2>1 DEF Quiet, Travels
<1>11. Stopped
  BY <1>8, <1>9, <1>10 DEF CatchInv
<1> QED
  BY <1>10, <1>11 DEF CatchInv, Alarmed

(* A difference between two copies is never passed over: once everything   *)
(* is read, two peers that have begun a turn of their battle differently   *)
(* have stopped, and so has everyone, with any queues and rings, with the  *)
(* barrier or without (compare_hash, halt and the relay).                  *)
THEOREM DifferencesAreCaught == DesyncHalt /\ Spec => []DivergenceCaught
<1> DEFINE All == /\ TypeInv /\ GateInv /\ CopyInv /\ RoadInv
                  /\ (\A p \in Peer : Marked(p)) /\ CatchInv
<1>1. Init => All
  BY CourseInit, HashInit, CatchInit DEF CourseInv, HashInv
<1>2. DesyncHalt /\ All /\ [Next]_vars => All'
  <2> SUFFICES ASSUME DesyncHalt, All, [Next]_vars PROVE All'
    OBVIOUS
  <2>1. TypeInv' /\ GateInv' /\ CopyInv' /\ RoadInv'
    BY TypeStep, GateStep, CopyStep, RoadStep
  <2>2. \A p \in Peer : Marked(p)'
    BY MarkedStep
  <2>3. CatchInv'
    BY CatchStep
  <2> QED
    BY <2>1, <2>2, <2>3
<1>3. All => DivergenceCaught
  BY CatchCaught
<1>4. CASE DesyncHalt
  <2>1. All /\ [Next]_vars => All'
    BY <1>2, <1>4
  <2> HIDE DEF All
  <2> QED
    BY <1>1, <1>3, <2>1, PTL DEF Spec
<1>5. CASE ~DesyncHalt
  BY <1>5
<1> QED
  BY <1>4, <1>5
==============================================================================
