---------------------------- MODULE SessionProofs -----------------------------
(***************************************************************************)
(* Proofs about coming to a session (Transport) and into its run           *)
(* (RunLife), for any number of players, connections, runs and losses and  *)
(* any size of the queue.                                                  *)
(*                                                                         *)
(* Strangers are kept out by an order: nothing with a WELCOME in it is     *)
(* sent that does not begin with the host's HELLO, so that a client of     *)
(* another build has refused by the time it reads the WELCOME.             *)
(*                                                                         *)
(* What settles once nothing is under way rests on who has which link: a   *)
(* thread that receives has one of its own (Owned).  The roster follows    *)
(* each publication through the links and into the host's queue (NewsInv), *)
(* and a HELLO from the client to its answer (WelcomeInv).                 *)
(*                                                                         *)
(* Nobody is taken into a house because whoever moves on has published     *)
(* what was due: a file that says it is ready and is a house's can be sent *)
(* only while the host prepares a run, to one who has just come (HomeInv). *)
(***************************************************************************)
EXTENDS Transport, RunLife, SequenceTheorems, FiniteSetTheorems, TLAPS

(* The least element the link table and the ids are searched for is there, *)
(* and least (free_link_slot, accept_thread): the elements below it are    *)
(* the smallest of the finite sets of elements below one.                  *)
Below(S, k) == {j \in S : j < k}

LEMMA BelowFinite ==
  ASSUME NEW S \in SUBSET Nat, NEW k \in S
  PROVE  Below(S, k) \in FiniteSubsetsOf(Nat)
<1>1. k \in Nat /\ Below(S, k) \in SUBSET Nat
  BY DEF Below
<1>2. \A j \in Below(S, k) : j <= k
  <2> TAKE j \in Below(S, k)
  <2> j \in Nat /\ j < k
    BY <1>1 DEF Below
  <2> QED
    BY <1>1
<1>3. IsFiniteSet(Below(S, k))
  BY <1>1, <1>2, FS_BoundedSetOfNaturals
<1> QED
  BY <1>1, <1>3 DEF FiniteSubsetsOf

LEMMA BelowShrinks ==
  ASSUME NEW S \in SUBSET Nat, NEW j \in S, NEW k \in S, j < k
  PROVE  <<Below(S, j), Below(S, k)>> \in StrictSubsetOrdering(Nat)
<1>1. j \in Nat /\ k \in Nat
  OBVIOUS
<1>2. ASSUME NEW l \in Below(S, j) PROVE l \in Below(S, k)
  <2> l \in Nat /\ l \in S /\ l < j
    BY DEF Below
  <2> QED
    BY <1>1 DEF Below
<1>3. j \in Below(S, k) /\ j \notin Below(S, j)
  BY <1>1 DEF Below
<1>4. Below(S, j) \in SUBSET Nat /\ Below(S, k) \in SUBSET Nat
  BY DEF Below
<1> QED
  BY <1>2, <1>3, <1>4 DEF StrictSubsetOrdering

LEMMA LowestIsThere ==
  ASSUME NEW S \in SUBSET Nat, S # {}
  PROVE  Lowest(S) \in S /\ \A j \in S : Lowest(S) <= j
<1> DEFINE T == {Below(S, k) : k \in S}
<1>1. T \subseteq FiniteSubsetsOf(Nat) /\ T # {}
  BY BelowFinite
<1>2. PICK B \in T : \A A \in T : <<A, B>> \notin StrictSubsetOrdering(Nat)
  <2> HIDE DEF T
  <2> QED
    BY <1>1, FS_StrictSubsetOrderingWellFounded, WFMin
<1>3. PICK k \in S : B = Below(S, k)
  OBVIOUS
<1>4. ASSUME NEW j \in S PROVE k <= j
  <2>1. ~ (j < k)
    BY <1>2, <1>3, BelowShrinks
  <2>2. j \in Nat /\ k \in Nat
    OBVIOUS
  <2> QED
    BY <2>1, <2>2
<1> QED
  BY <1>4 DEF Lowest

LEMMA Kinds ==
  /\ Id \subseteq Nat /\ Slot \subseteq Nat /\ Conn \subseteq Nat
  /\ HostId \in Id
  /\ None \notin Conn /\ None \notin Slot /\ None \notin Id
  BY TransportBounds, NoneAssumption DEF Id, Slot, Conn, HostId

(* What travels to a client.                                               *)
Down == [type : {"HELLO", "WELCOME", "REFUSE"}]
        \cup [type : {"PEERS"}, from : {HostId}, ids : SUBSET Id, you : Id]
ClientState == [phase : Phase, self : Id \cup {None}, roster : SUBSET Id]
Upward == [type : {"HELLO", "REFUSE"}, from : {None}, by : Conn]

LEMMA AfterTyped ==
  ASSUME NEW c, NEW me \in ClientState, NEW m \in Down
  PROVE  After(c, me, m) \in ClientState
  BY DEF After, Decodes, ClientState, Down, Phase, Gone

(* One or two messages.                                                    *)
Batch(ms) ==
  \/ \E m \in Down : ms = <<m>>
  \/ \E m, n \in Down : ms = <<m, n>>

LEMMA ReadsTyped ==
  ASSUME NEW c \in Conn, client[c] \in ClientState, NEW ms, Batch(ms)
  PROVE  HasRead(c, ms) \in ClientState
<1>1. CASE \E m \in Down : ms = <<m>>
  BY <1>1, AfterTyped DEF HasRead
<1>2. CASE \E m, n \in Down : ms = <<m, n>>
  <2>1. PICK m \in Down, n \in Down : ms = <<m, n>>
    BY <1>2
  <2>2. After(c, client[c], m) \in ClientState
    BY AfterTyped
  <2>3. After(c, After(c, client[c], m), n) \in ClientState
    BY <2>2, AfterTyped
  <2> QED
    BY <2>1, <2>3 DEF HasRead
<1> QED
  BY <1>1, <1>2 DEF Batch

LEMMA SendTyped ==
  ASSUME TypeOK, NEW S, NEW ms, Batch(ms), SendTo(S, ms)
  PROVE  /\ client' \in [Conn -> ClientState]
         /\ up' \in [Conn -> Seq(Upward)]
<1> DEFINE reached == {c \in open : \E s \in S : link[s].sock = c}
<1>1. client \in [Conn -> ClientState] /\ up \in [Conn -> Seq(Upward)]
  BY DEF TypeOK, ClientState, Upward
<1>2. \A c \in Conn : HasRead(c, ms) \in ClientState
  BY <1>1, ReadsTyped
<1>3. client' \in [Conn -> ClientState]
  <2>1. client' = [c \in Conn |-> IF c \in reached THEN HasRead(c, ms) ELSE client[c]]
    BY DEF SendTo
  <2> QED
    BY <2>1, <1>1, <1>2
<1>4. \A c \in Conn : Message("REFUSE", c) \in Upward
  BY DEF Message, Upward
<1>5. \A c \in Conn : Append(up[c], Message("REFUSE", c)) \in Seq(Upward)
  BY <1>1, <1>4, AppendProperties
<1>6. up' \in [Conn -> Seq(Upward)]
  <2>1. up' = [c \in Conn |-> IF c \in reached /\ Objects(c, ms)
                              THEN Append(up[c], Message("REFUSE", c)) ELSE up[c]]
    BY DEF SendTo
  <2> QED
    BY <2>1, <1>1, <1>5
<1> QED
  BY <1>3, <1>6

(* What the host's queue takes, it holds within its bound (queue_push).    *)
LEMMA PushTyped ==
  ASSUME TypeOK, NEW m \in Received
  PROVE  Pushed(m) \in Seq(Received) /\ Len(Pushed(m)) <= QueueCap
<1>1. queue \in Seq(Received) /\ Len(queue) <= QueueCap
  BY DEF TypeOK
<1>2. CASE Full
  BY <1>1, <1>2 DEF Pushed
<1>3. CASE ~Full
  <2>1. Append(queue, m) \in Seq(Received) /\ Len(Append(queue, m)) = Len(queue) + 1
    BY <1>1, AppendProperties
  <2>2. Len(queue) \in Nat /\ QueueCap \in Nat
    BY <1>1, TransportBounds, LenProperties
  <2> QED
    BY <2>1, <2>2, <1>3 DEF Full, Pushed
<1> QED
  BY <1>2, <1>3

-------------------------------------------------------------------------------
(* Each step keeps TypeOK.                                                 *)

Links == [Slot -> [sock : Conn \cup {None}, id : Id, live : BOOLEAN]]
Publication == [left : SUBSET Slot, ids : SUBSET Id]

LEMMA MembersTyped ==
  ASSUME NEW links \in Links
  PROVE  Members(links) \in Publication
  BY Kinds DEF Members, Links, Publication

LEMMA InitTyped == Init => TypeOK
<1> SUFFICES ASSUME Init PROVE TypeOK
  OBVIOUS
<1>1. /\ 1 \in Slot /\ 1 \in Id /\ 0 \in Id /\ Resident \in Conn
      /\ Slot \subseteq Nat /\ QueueCap \in Nat
  BY TransportBounds DEF Slot, Id, Conn, Resident
<1>2. LiveSlots = IF connected THEN {1} ELSE {}
  BY <1>1 DEF Init, LiveSlots
<1>3. /\ link \in Links
      /\ \A s, t \in LiveSlots : link[s].id = link[t].id => s = t
      /\ HostId \notin LiveIds
  BY <1>1, <1>2 DEF Init, Links, LiveIds, HostId
<1>4. /\ at \in [Conn -> {"dials", "receives", "closes", "clears", "publishes", "ended"}]
      /\ slot \in [Conn -> Slot \cup {None}]
      /\ \A c \in Conn : at[c] \in {"receives", "closes", "clears"} => slot[c] \in Slot
  BY <1>1 DEF Init
<1>5. client \in [Conn -> ClientState]
  BY <1>1 DEF Init, ClientState, Welcome, NotThere, Phase, Gone, HostId
<1>6. pub \in [Thread -> {Idle} \cup Publication]
  BY DEF Init
<1>7. queue \in Seq(Received) /\ Len(queue) <= QueueCap
  <2>1. queue = <<>>
    BY DEF Init
  <2> QED
    BY <2>1, <1>1, EmptySeq
<1>8. up \in [Conn -> Seq(Upward)]
  BY EmptySeq DEF Init
<1>9. /\ foreign \subseteq Conn /\ open \subseteq Conn
      /\ roster \subseteq Id /\ hostPhase \in Phase \ Gone
  BY <1>1 DEF Init, HostId, Phase, Gone
<1> QED
  BY <1>3, <1>4, <1>5, <1>6, <1>7, <1>8, <1>9 DEF TypeOK, Links, ClientState, Publication, Upward

(* TypeOK in two halves: the host's threads, and what is said.             *)
Threads ==
  /\ open \subseteq Conn
  /\ link \in Links
  /\ \A s, t \in LiveSlots : link[s].id = link[t].id => s = t
  /\ HostId \notin LiveIds
  /\ at \in [Conn -> {"dials", "receives", "closes", "clears", "publishes", "ended"}]
  /\ slot \in [Conn -> Slot \cup {None}]
  /\ \A c \in Conn : at[c] \in {"receives", "closes", "clears"} => slot[c] \in Slot
  /\ pub \in [Thread -> {Idle} \cup Publication]

Talk ==
  /\ queue \in Seq(Received) /\ Len(queue) <= QueueCap
  /\ roster \subseteq Id
  /\ hostPhase \in Phase \ Gone
  /\ client \in [Conn -> ClientState]
  /\ up \in [Conn -> Seq(Upward)]

LEMMA Halves == TypeOK <=> Threads /\ Talk /\ foreign \subseteq Conn
  BY DEF TypeOK, Threads, Talk, Links, Publication, ClientState, Upward

LEMMA HalvesNext == Threads' /\ Talk' /\ foreign' \subseteq Conn => TypeOK'
  BY DEF TypeOK, Threads, Talk, Links, Publication, ClientState, Upward

(* A link that only dies, or loses its socket, leaves the ids distinct.    *)
LEMMA FewerLive ==
  ASSUME Threads, link' \in Links,
         \A s \in Slot : link'[s].live => link[s].live /\ link'[s].id = link[s].id
  PROVE  /\ \A s, t \in LiveSlots' : link'[s].id = link'[t].id => s = t
         /\ HostId \notin LiveIds'
  BY DEF Threads, LiveSlots, LiveIds

LEMMA BeginsTyped ==
  ASSUME Threads, NEW t \in Thread, NEW links \in Links, Begins(t, links)
  PROVE  pub' \in [Thread -> {Idle} \cup Publication] /\ roster' \subseteq Id
  BY MembersTyped DEF Begins, Threads, Publication

LEMMA TellLinkTyped ==
  ASSUME TypeOK, NEW t \in Thread, TellLink(t)
  PROVE  TypeOK'
<1> DEFINE s == Lowest(pub[t].left \cap LiveSlots)
           told == <<Peers(pub[t], link[s].id)>>
<1> USE Halves, HalvesNext
<1>1. pub[t] \in Publication
  BY DEF TellLink, Publishing, Threads
<1>2. s \in pub[t].left \cap LiveSlots
  <2>1. pub[t].left \cap LiveSlots \in SUBSET Nat
    BY <1>1, Kinds DEF Publication
  <2>2. pub[t].left \cap LiveSlots # {}
    BY DEF TellLink
  <2> QED
    BY <2>1, <2>2, LowestIsThere
<1>3. Batch(told)
  <2>1. link[s].id \in Id
    BY <1>2 DEF Threads, Links, LiveSlots
  <2>2. Peers(pub[t], link[s].id) \in Down
    BY <1>1, <2>1 DEF Peers, Down, Publication
  <2> QED
    BY <2>2 DEF Batch
<1>4. SendTo({s}, told) /\ pub' = [pub EXCEPT ![t].left = {u \in @ : u > s}]
  BY DEF TellLink
<1>5. Talk'
  <2>1. client' \in [Conn -> ClientState] /\ up' \in [Conn -> Seq(Upward)]
    BY <1>3, <1>4, SendTyped
  <2> QED
    BY <2>1 DEF TellLink, gameVars, Talk
<1>6. Threads'
  <2>1. [pub[t] EXCEPT !.left = {u \in @ : u > s}] \in Publication
    BY <1>1 DEF Publication
  <2>2. pub' \in [Thread -> {Idle} \cup Publication]
    BY <1>4, <2>1 DEF Threads
  <2> QED
    BY <2>2 DEF TellLink, Threads, LiveSlots, LiveIds
<1> QED
  BY <1>5, <1>6 DEF TellLink, boundVars

LEMMA TellSelfTyped ==
  ASSUME TypeOK, NEW t \in Thread, TellSelf(t)
  PROVE  TypeOK'
<1> USE Halves, HalvesNext
<1>1. pub[t] \in Publication
  BY DEF TellSelf, Publishing, Threads
<1>2. Peers(pub[t], HostId) \in Received
  BY <1>1 DEF Peers, Received, Publication
<1>3. queue' \in Seq(Received) /\ Len(queue') <= QueueCap
  BY <1>2, PushTyped DEF TellSelf
<1>4. Talk'
  BY <1>3 DEF TellSelf, Talk, endVars
<1>5. pub' \in [Thread -> {Idle} \cup Publication]
  BY DEF TellSelf, Threads
<1>6. CASE t = Accepter
  BY <1>4, <1>5, <1>6 DEF TellSelf, Threads, LiveSlots, LiveIds, boundVars
<1>7. CASE t # Accepter
  <2>1. at' = [at EXCEPT ![t] = "ended"] /\ slot' = [slot EXCEPT ![t] = None]
    BY <1>7 DEF TellSelf
  <2> QED
    BY <2>1, <1>4, <1>5 DEF TellSelf, Threads, LiveSlots, LiveIds, boundVars
<1> QED
  BY <1>6, <1>7

LEMMA AcceptTyped ==
  ASSUME TypeOK, NEW c \in Conn, Accept(c)
  PROVE  TypeOK'
<1> DEFINE s == Lowest(FreeSlots)
           i == Lent(FreeIds)
           links == [link EXCEPT ![s] = [sock |-> c, id |-> i, live |-> TRUE]]
<1> USE Halves, HalvesNext
<1>1. s \in Slot /\ s \notin LiveSlots
  <2>1. FreeSlots \in SUBSET Nat /\ FreeSlots # {}
    BY Kinds DEF FreeSlots, Accept, Vacancy
  <2> QED
    BY <2>1, LowestIsThere DEF FreeSlots
<1>2. i \in Id /\ i # HostId /\ i \notin LiveIds
  <2>1. FreeIds \in SUBSET Nat /\ FreeIds # {}
    BY Kinds DEF FreeIds, Accept, Vacancy
  <2> QED
    BY <2>1, LowestIsThere DEF FreeIds, Lent
<1> HIDE DEF s, i
<1>3. links \in Links
  BY <1>1, <1>2 DEF Threads, Links
<1>4. link' = links /\ slot' = [slot EXCEPT ![c] = s] /\ Begins(Accepter, links)
  BY DEF Accept, s, i
<1>5. LiveSlots' = LiveSlots \cup {s} /\ \A t \in LiveSlots : link'[t] = link[t] /\ t # s
  BY <1>1, <1>4 DEF LiveSlots, Threads, Links
<1>6. link'[s].id = i
  BY <1>1, <1>4 DEF Threads, Links
<1>7. /\ \A t, u \in LiveSlots' : link'[t].id = link'[u].id => t = u
      /\ HostId \notin LiveIds'
  BY <1>2, <1>5, <1>6 DEF Threads, LiveIds
<1>8. pub' \in [Thread -> {Idle} \cup Publication] /\ roster' \subseteq Id
  BY <1>3, <1>4, BeginsTyped DEF Thread
<1>9. Threads'
  <2>1. open' \subseteq Conn /\ link' \in Links
    BY <1>3, <1>4 DEF Accept, Threads
  <2>2. at' = [at EXCEPT ![c] = "receives"]
    BY DEF Accept
  <2>3. /\ at' \in [Conn -> {"dials", "receives", "closes", "clears", "publishes", "ended"}]
        /\ slot' \in [Conn -> Slot \cup {None}]
        /\ \A d \in Conn : at'[d] \in {"receives", "closes", "clears"} => slot'[d] \in Slot
    BY <1>1, <1>4, <2>2 DEF Threads
  <2> QED
    BY <1>7, <1>8, <2>1, <2>3 DEF Threads
<1>10. Talk'
  <2>1. client' \in [Conn -> ClientState]
    BY DEF Accept, Talk, ClientState, Phase
  <2>2. <<Message("HELLO", c)>> \in Seq(Upward)
    BY DEF Message, Upward
  <2> QED
    BY <2>1, <2>2, <1>8 DEF Accept, Talk
<1> QED
  BY <1>9, <1>10 DEF Accept, boundVars

LEMMA TurnAwayTyped ==
  ASSUME TypeOK, NEW c \in Conn, TurnAway(c)
  PROVE  TypeOK'
<1> USE Halves, HalvesNext
<1>1. client' \in [Conn -> ClientState]
  BY DEF TurnAway, Talk, ClientState, Phase
<1>2. Talk'
  BY <1>1 DEF TurnAway, Talk, gameVars
<1>3. Threads'
  BY DEF TurnAway, Threads, LiveSlots, LiveIds
<1> QED
  BY <1>2, <1>3 DEF TurnAway, boundVars

LEMMA ReceiveTyped ==
  ASSUME TypeOK, NEW c \in Conn, Receive(c)
  PROVE  TypeOK'
<1> DEFINE m == [Head(up[c]) EXCEPT !.from = Link(c).id]
<1> USE Halves, HalvesNext
<1>1. up[c] \in Seq(Upward) /\ up[c] # <<>>
  BY DEF Receive, Talk
<1>2. Head(up[c]) \in Upward /\ Tail(up[c]) \in Seq(Upward)
  BY <1>1, HeadTailProperties
<1>3. Link(c).id \in Id
  BY DEF Receive, Link, Threads, Links
<1>4. m \in Received
  BY <1>2, <1>3 DEF Upward, Received
<1>5. queue' \in Seq(Received) /\ Len(queue') <= QueueCap
  BY <1>4, PushTyped DEF Receive
<1>6. up' \in [Conn -> Seq(Upward)]
  BY <1>2 DEF Receive, Talk
<1> QED
  BY <1>5, <1>6 DEF Receive, Talk, Threads, threadVars, LiveSlots, LiveIds, boundVars

LEMMA LinkEndsTyped ==
  ASSUME TypeOK, NEW c \in Conn, LinkEnds(c)
  PROVE  TypeOK'
<1> USE Halves, HalvesNext
<1>1. slot[c] \in Slot /\ link' = [link EXCEPT ![slot[c]].live = FALSE]
  BY DEF LinkEnds, Threads
<1>2. /\ link' \in Links
      /\ \A s \in Slot : link'[s].live => link[s].live /\ link'[s].id = link[s].id
  BY <1>1 DEF Threads, Links
<1>3. Threads'
  BY <1>1, <1>2, FewerLive DEF LinkEnds, Threads
<1> QED
  BY <1>3 DEF LinkEnds, Talk, gameVars, endVars, boundVars

LEMMA CloseSocketTyped ==
  ASSUME TypeOK, NEW c \in Conn, CloseSocket(c)
  PROVE  TypeOK'
<1> USE Halves, HalvesNext
<1>1. Threads'
  BY DEF CloseSocket, Threads, LiveSlots, LiveIds
<1> QED
  BY <1>1 DEF CloseSocket, Talk, gameVars, endVars, boundVars

LEMMA ClearSocketTyped ==
  ASSUME TypeOK, NEW c \in Conn, ClearSocket(c)
  PROVE  TypeOK'
<1> USE Halves, HalvesNext
<1>1. slot[c] \in Slot /\ link' = [link EXCEPT ![slot[c]].sock = None]
  BY DEF ClearSocket, Threads
<1>2. /\ link' \in Links
      /\ \A s \in Slot : link'[s].live => link[s].live /\ link'[s].id = link[s].id
  BY <1>1 DEF Threads, Links
<1>3. Threads'
  BY <1>1, <1>2, FewerLive DEF ClearSocket, Threads
<1> QED
  BY <1>3 DEF ClearSocket, Talk, gameVars, endVars, boundVars

LEMMA DepartureTyped ==
  ASSUME TypeOK, NEW c \in Conn, Departure(c)
  PROVE  TypeOK'
<1> USE Halves, HalvesNext
<1>1. pub' \in [Thread -> {Idle} \cup Publication] /\ roster' \subseteq Id
  BY BeginsTyped DEF Departure, Threads, Thread
<1>2. Threads'
  BY <1>1 DEF Departure, Threads, LiveSlots, LiveIds
<1>3. Talk'
  BY <1>1 DEF Departure, Talk, endVars
<1> QED
  BY <1>2, <1>3 DEF Departure, boundVars

LEMMA HostHelloTyped ==
  ASSUME TypeOK, HostHello
  PROVE  TypeOK'
<1> USE Halves, HalvesNext
<1>1. Batch(<<FromHost("HELLO")>>)
  BY DEF Batch, FromHost, Down
<1>2. client' \in [Conn -> ClientState] /\ up' \in [Conn -> Seq(Upward)]
  BY <1>1, SendTyped DEF HostHello
<1>3. Talk'
  BY <1>2 DEF HostHello, Talk, Phase, Gone
<1> QED
  BY <1>3 DEF HostHello, Threads, threadVars, LiveSlots, LiveIds, boundVars

LEMMA AnswerBatch ==
  ASSUME NEW m PROVE Batch(Answer(m))
  BY DEF Batch, Answer, FromHost, Down

LEMMA SessionUpdateTyped ==
  ASSUME TypeOK, SessionUpdate
  PROVE  TypeOK'
<1> DEFINE m == Head(queue)
<1> USE Halves, HalvesNext
<1>1. m \in Received /\ Tail(queue) \in Seq(Received) /\ Len(Tail(queue)) <= QueueCap
  <2>1. queue \in Seq(Received) /\ queue # <<>> /\ Len(queue) <= QueueCap
    BY DEF SessionUpdate, Talk
  <2>2. Len(queue) \in Nat /\ QueueCap \in Nat /\ Len(Tail(queue)) = Len(queue) - 1
    BY <2>1, HeadTailProperties, LenProperties, TransportBounds
  <2> QED
    BY <2>1, <2>2, HeadTailProperties
<1>2. client' \in [Conn -> ClientState] /\ up' \in [Conn -> Seq(Upward)]
  <2>1. CASE Answers(m)
    BY <2>1, AnswerBatch, SendTyped DEF SessionUpdate
  <2>2. CASE ~Answers(m)
    BY <2>2 DEF SessionUpdate, endVars, Talk
  <2> QED
    BY <2>1, <2>2
<1>3. hostPhase' \in Phase \ Gone
  BY DEF SessionUpdate, Talk, Phase, Gone
<1>4. roster' \subseteq Id
  BY <1>1 DEF SessionUpdate, Talk, Received
<1>5. Talk'
  BY <1>1, <1>2, <1>3, <1>4 DEF SessionUpdate, Talk
<1> QED
  BY <1>5 DEF SessionUpdate, Threads, threadVars, LiveSlots, LiveIds, boundVars

LEMMA LeavesTyped ==
  ASSUME TypeOK, NEW c \in Conn, Leaves(c)
  PROVE  TypeOK'
<1> USE Halves, HalvesNext
<1>1. client' \in [Conn -> ClientState]
  BY DEF Leaves, Talk, ClientState, NotThere, Phase, Gone
<1>2. up' \in [Conn -> Seq(Upward)]
  BY DEF Leaves, Talk
<1> QED
  BY <1>1, <1>2 DEF Leaves, Talk, Threads, threadVars, gameVars, LiveSlots, LiveIds

(* The host's threads and messages have their types, its links ids that    *)
(* are distinct and not the host's: a thread goes by the slot it was given *)
(* whatever the others have done to the table (accept_thread, recv_loop).  *)
THEOREM TransportTyped == Spec => []TypeOK
<1>1. ASSUME TypeOK, [Next]_vars PROVE TypeOK'
  <2>1. CASE HostHello \/ SessionUpdate
    BY <1>1, <2>1, HostHelloTyped, SessionUpdateTyped
  <2>2. ASSUME NEW t \in Thread, PublishRoster(t) PROVE TypeOK'
    BY <1>1, <2>2, TellLinkTyped, TellSelfTyped DEF PublishRoster
  <2>3. ASSUME NEW c \in Conn, Accept(c) \/ TurnAway(c) \/ Leaves(c) PROVE TypeOK'
    BY <1>1, <2>3, AcceptTyped, TurnAwayTyped, LeavesTyped
  <2>4. ASSUME NEW c \in Conn, Receiver(c) PROVE TypeOK'
    BY <1>1, <2>4, ReceiveTyped, LinkEndsTyped, CloseSocketTyped, ClearSocketTyped,
       DepartureTyped DEF Receiver
  <2>5. CASE UNCHANGED vars
    BY <1>1, <2>5 DEF TypeOK, vars, threadVars, gameVars, endVars, boundVars,
       LiveSlots, LiveIds
  <2> QED
    BY <1>1, <2>1, <2>2, <2>3, <2>4, <2>5 DEF Next
<1> QED
  BY InitTyped, <1>1, PTL DEF Spec

-------------------------------------------------------------------------------
(* Who is on another build.                                                *)

(* A message that makes nobody Ready, and one that a stranger objects to.  *)
Harmless(m) == m.type \in {"HELLO", "REFUSE", "PEERS"}
Telling(m) == m.type = "HELLO"

(* Who reads no roster any more.                                           *)
Silent == Gone \cup {"Refused"}

(* Nothing comes with a WELCOME that does not begin with a HELLO.          *)
Warned(ms) ==
  \/ \E m : ms = <<m>> /\ Harmless(m)
  \/ \E m, n : ms = <<m, n>> /\ Telling(m)

LEMMA StrangerStays ==
  ASSUME NEW c \in foreign, NEW ms, Warned(ms),
         client[c] \in ClientState, client[c].phase # "Ready"
  PROVE  HasRead(c, ms).phase # "Ready"
<1>1. ASSUME NEW m, Harmless(m), NEW me \in ClientState, me.phase # "Ready"
      PROVE  After(c, me, m).phase # "Ready"
  BY <1>1 DEF Harmless, After, Decodes, Gone, ClientState
<1>2. CASE \E m : ms = <<m>> /\ Harmless(m)
  BY <1>1, <1>2 DEF HasRead
<1>3. ASSUME NEW m, NEW n, ms = <<m, n>>, Telling(m)
      PROVE  HasRead(c, ms).phase # "Ready"
  <2> DEFINE a == After(c, client[c], m)
  <2>1. a \in ClientState /\ a.phase \in Silent
    BY <1>3 DEF Telling, After, Decodes, ClientState, Phase, Gone, Silent
  <2>2. ASSUME NEW me \in ClientState, me.phase \in Silent
        PROVE  After(c, me, n).phase # "Ready"
    BY <2>2 DEF After, Gone, Silent, ClientState
  <2>3. HasRead(c, ms) = After(c, a, n)
    BY <1>3 DEF HasRead
  <2> HIDE DEF a
  <2> QED
    BY <2>1, <2>2, <2>3
<1> QED
  BY <1>2, <1>3 DEF Warned

LEMMA SendKeepsOut ==
  ASSUME TypeOK, KeptOut, NEW S, NEW ms, Warned(ms), SendTo(S, ms), foreign' = foreign
  PROVE  KeptOut'
<1>1. client \in [Conn -> ClientState] /\ foreign \subseteq Conn
  BY Halves DEF Talk
<1>2. \A c \in foreign : HasRead(c, ms).phase # "Ready"
  BY <1>1, StrangerStays DEF KeptOut
<1> QED
  BY <1>1, <1>2 DEF SendTo, KeptOut

(* No two links have one id at a time, for any number of dials and losses  *)
(* and whatever the order of the threads (accept_thread).                  *)
THEOREM IdsAreUnique == Spec => []OneIdEach
<1>1. TypeOK => OneIdEach
  BY DEF TypeOK, OneIdEach
<1> QED
  BY <1>1, TransportTyped, PTL

(* A player of another build is never let in, though an id is lent again   *)
(* and a HELLO may be answered to the next who holds the id of its author  *)
(* (handle_hello, accept_thread).                                          *)
THEOREM StrangersKeptOut == Spec => []KeptOut
<1>1. Init => KeptOut
  BY DEF Init, KeptOut, NotThere, Resident
<1>2. ASSUME TypeOK, KeptOut, [Next]_vars PROVE KeptOut'
  <2> USE <1>2
  <2>1. client \in [Conn -> ClientState] /\ foreign \subseteq Conn
    BY Halves DEF Talk
  <2>2. CASE HostHello
    <3>1. Harmless(FromHost("HELLO"))
      BY DEF Harmless, FromHost
    <3>2. Warned(<<FromHost("HELLO")>>)
      BY <3>1 DEF Warned
    <3> QED
      BY <2>2, <3>2, SendKeepsOut DEF HostHello, boundVars
  <2>3. CASE SessionUpdate
    <3> DEFINE m == Head(queue)
    <3>1. Warned(Answer(m))
      BY DEF Warned, Harmless, Telling, Answer, FromHost
    <3>2. foreign' = foreign
      BY <2>3 DEF SessionUpdate, boundVars
    <3>3. CASE Answers(m)
      BY <2>3, <3>1, <3>2, <3>3, SendKeepsOut DEF SessionUpdate
    <3>4. CASE ~Answers(m)
      BY <2>3, <3>2, <3>4 DEF SessionUpdate, endVars, KeptOut
    <3> QED
      BY <3>3, <3>4
  <2>4. ASSUME NEW t \in Thread, TellLink(t) PROVE KeptOut'
    <3> DEFINE s == Lowest(pub[t].left \cap LiveSlots)
               told == <<Peers(pub[t], link[s].id)>>
    <3>1. Harmless(Peers(pub[t], link[s].id))
      BY DEF Harmless, Peers
    <3>2. SendTo({s}, told) /\ foreign' = foreign
      BY <2>4 DEF TellLink, boundVars
    <3>3. Warned(told)
      BY <3>1 DEF Warned
    <3> QED
      BY <3>2, <3>3, SendKeepsOut
  <2>5. ASSUME NEW t \in Thread, TellSelf(t) PROVE KeptOut'
    BY <2>5 DEF TellSelf, endVars, boundVars, KeptOut
  <2>6. ASSUME NEW c \in Conn, Accept(c) \/ TurnAway(c) \/ Leaves(c) PROVE KeptOut'
    <3>1. foreign' = foreign
      BY <2>6 DEF Accept, TurnAway, Leaves, boundVars
    <3>2. \A d \in Conn : client'[d] = client[d] \/ client'[d].phase # "Ready"
      BY <2>1, <2>6 DEF Accept, TurnAway, Leaves, NotThere, ClientState
    <3> QED
      BY <2>1, <3>1, <3>2 DEF KeptOut
  <2>7. ASSUME NEW c \in Conn, Receiver(c) PROVE KeptOut'
    BY <2>7 DEF Receiver, Receive, LinkEnds, CloseSocket, ClearSocket, Departure,
       endVars, boundVars, KeptOut
  <2>8. CASE UNCHANGED vars
    BY <2>8 DEF vars, endVars, boundVars, KeptOut
  <2> QED
    BY <2>2, <2>3, <2>4, <2>5, <2>6, <2>7, <2>8 DEF Next, PublishRoster
<1> QED
  BY <1>1, <1>2, TransportTyped, PTL DEF Spec

-------------------------------------------------------------------------------
(* Who has which link.                                                     *)

(* A thread that receives has a live link of its own, and every live link  *)
(* its thread; a socket that is received from is in the link of its thread.*)
(* Only a thread that is leaving publishes, besides the accept thread.     *)
Owned ==
  /\ \A c \in Conn : at[c] = "receives" => slot[c] \in LiveSlots
  /\ \A c, d \in Conn : at[c] = "receives" /\ at[d] = "receives" /\ slot[c] = slot[d] => c = d
  /\ \A s \in LiveSlots : \E c \in Conn : at[c] = "receives" /\ slot[c] = s
  /\ \A c \in Conn : Publishing(c) => at[c] = "publishes"
  /\ \A s \in Slot : \A c \in Conn :
       link[s].sock = c => at[c] # "dials" /\ (at[c] = "receives" => slot[c] = s)

LEMMA ThreadIs ==
  /\ Conn \subseteq Thread /\ Accepter \in Thread /\ Accepter \notin Conn
  /\ \A t \in Thread : t # Accepter => t \in Conn
BY TransportBounds DEF Thread, Accepter, Conn

LEMMA NotIdle ==
  ASSUME NEW p \in Publication
  PROVE  p # Idle
<1>1. DOMAIN p = {"left", "ids"} /\ DOMAIN Idle = {"ids"}
  BY DEF Publication, Idle
<1> QED
  BY <1>1

LEMMA OwnedInit == Init => Owned
<1> SUFFICES ASSUME Init PROVE Owned
  OBVIOUS
<1>1. 1 \in Slot /\ Resident \in Conn
  BY TransportBounds DEF Slot, Conn, Resident
<1>2. LiveSlots = IF connected THEN {1} ELSE {}
  BY <1>1 DEF Init, LiveSlots
<1>3. \A c \in Conn : at[c] = "receives" <=> c = Resident /\ connected
  BY DEF Init
<1>4. \A t \in Thread : ~Publishing(t)
  BY DEF Init, Publishing
<1>5. connected => slot[Resident] = 1
  BY <1>1 DEF Init
<1>6. \A s \in Slot : \A c \in Conn : link[s].sock = c => connected /\ s = 1 /\ c = Resident
  BY Kinds DEF Init
<1>7. connected => at[Resident] # "dials"
  BY <1>1 DEF Init
<1> QED
  BY <1>1, <1>2, <1>3, <1>4, <1>5, <1>6, <1>7, ThreadIs DEF Owned

LEMMA OwnedStill ==
  ASSUME Owned, UNCHANGED <<link, at, slot>>, \A t \in Thread : Publishing(t)' => Publishing(t)
  PROVE  Owned'
BY ThreadIs DEF Owned, LiveSlots

(* Where the thread of c alone goes on, and was and is not receiving.      *)
LEMMA OwnedPast ==
  ASSUME Threads, Owned, NEW c \in Conn, NEW a, at[c] # "receives", a \notin {"receives", "dials"},
         at' = [at EXCEPT ![c] = a], \A d \in Conn : d # c => slot'[d] = slot[d],
         \A s \in Slot : link'[s].live = link[s].live /\ link'[s].sock \in {link[s].sock, None},
         \A d \in Conn : Publishing(d)' => Publishing(d) /\ (d = c => a = "publishes")
  PROVE  Owned'
<1>1. LiveSlots' = LiveSlots
  BY DEF LiveSlots
<1>2. \A d \in Conn : at'[d] = IF d = c THEN a ELSE at[d]
  BY DEF Threads
<1>3. \A s \in Slot : \A d \in Conn : link'[s].sock = d => link[s].sock = d
  BY Kinds
<1>4. /\ \A d \in Conn : at'[d] = "receives" => slot'[d] \in LiveSlots
      /\ \A d, e \in Conn : at'[d] = "receives" /\ at'[e] = "receives" /\ slot'[d] = slot'[e] => d = e
  BY <1>2 DEF Owned
<1>5. \A s \in LiveSlots : \E d \in Conn : at'[d] = "receives" /\ slot'[d] = s
  <2> TAKE s \in LiveSlots
  <2>1. PICK d \in Conn : at[d] = "receives" /\ slot[d] = s
    BY DEF Owned
  <2>2. d # c
    BY <2>1
  <2> QED
    BY <2>1, <2>2, <1>2
<1>6. \A d \in Conn : Publishing(d)' => at'[d] = "publishes"
  BY <1>2 DEF Owned
<1>7. ASSUME NEW s \in Slot, NEW d \in Conn, link'[s].sock = d
      PROVE  at'[d] # "dials" /\ (at'[d] = "receives" => slot'[d] = s)
  <2>1. at[d] # "dials" /\ (at[d] = "receives" => slot[d] = s)
    BY <1>3, <1>7 DEF Owned
  <2> QED
    BY <2>1, <1>2
<1> QED
  BY <1>1, <1>4, <1>5, <1>6, <1>7 DEF Owned

LEMMA AcceptIs ==
  ASSUME TypeOK, NEW c \in Conn, Accept(c)
  PROVE  \E s \in FreeSlots : \E i \in Id :
           /\ link' = [link EXCEPT ![s] = [sock |-> c, id |-> i, live |-> TRUE]]
           /\ slot' = [slot EXCEPT ![c] = s]
           /\ Begins(Accepter, link')
<1>1. Lowest(FreeSlots) \in FreeSlots
  BY Kinds, LowestIsThere DEF FreeSlots, Accept, Vacancy
<1>2. Lent(FreeIds) \in Id
  <2>1. FreeIds \in SUBSET Nat /\ FreeIds # {}
    BY Kinds DEF FreeIds, Accept, Vacancy
  <2> QED
    BY <2>1, LowestIsThere DEF FreeIds, Lent
<1> QED
  BY <1>1, <1>2 DEF Accept

LEMMA OwnedAccept ==
  ASSUME TypeOK, Owned, NEW c \in Conn, Accept(c)
  PROVE  Owned'
<1>1. PICK s \in FreeSlots, i \in Id :
        /\ link' = [link EXCEPT ![s] = [sock |-> c, id |-> i, live |-> TRUE]]
        /\ slot' = [slot EXCEPT ![c] = s]
        /\ Begins(Accepter, link')
  BY AcceptIs
<1>2. Threads /\ s \in Slot /\ s \notin LiveSlots
  BY Halves DEF FreeSlots
<1>3. LiveSlots' = LiveSlots \cup {s}
  BY <1>1, <1>2 DEF LiveSlots, Threads, Links
<1>4. at[c] = "dials" /\ \A d \in Conn : at'[d] = IF d = c THEN "receives" ELSE at[d]
  BY <1>2 DEF Accept, Dialled, Threads
<1>5. \A d \in Conn : slot'[d] = IF d = c THEN s ELSE slot[d]
  BY <1>1, <1>2 DEF Threads
<1>6. \A d \in Conn : Publishing(d)' => Publishing(d)
  BY <1>1, <1>2, ThreadIs DEF Begins, Publishing, Threads
<1>7. \A u \in Slot : link'[u].sock = IF u = s THEN c ELSE link[u].sock
  BY <1>1, <1>2 DEF Threads, Links
<1>8. \A d \in Conn : at[d] = "receives" => slot[d] # s
  BY <1>2 DEF Owned
<1>9. /\ \A d \in Conn : at'[d] = "receives" => slot'[d] \in LiveSlots'
      /\ \A d, e \in Conn : at'[d] = "receives" /\ at'[e] = "receives" /\ slot'[d] = slot'[e] => d = e
  BY <1>3, <1>4, <1>5, <1>8 DEF Owned
<1>10. \A u \in LiveSlots' : \E d \in Conn : at'[d] = "receives" /\ slot'[d] = u
  <2> TAKE u \in LiveSlots'
  <2>1. CASE u = s
    BY <2>1, <1>4, <1>5
  <2>2. CASE u # s
    <3>1. PICK d \in Conn : at[d] = "receives" /\ slot[d] = u
      BY <2>2, <1>3 DEF Owned
    <3> QED
      BY <3>1, <1>4, <1>5
  <2> QED
    BY <2>1, <2>2
<1>11. \A d \in Conn : Publishing(d)' => at'[d] = "publishes"
  BY <1>4, <1>6 DEF Owned
<1>12. ASSUME NEW u \in Slot, NEW d \in Conn, link'[u].sock = d
       PROVE  at'[d] # "dials" /\ (at'[d] = "receives" => slot'[d] = u)
  <2>1. CASE u = s
    BY <2>1, <1>4, <1>5, <1>7, <1>12
  <2>2. CASE u # s
    <3>1. at[d] # "dials" /\ (at[d] = "receives" => slot[d] = u)
      BY <2>2, <1>7, <1>12 DEF Owned
    <3> QED
      BY <3>1, <1>4, <1>5
  <2> QED
    BY <2>1, <2>2
<1> QED
  BY <1>9, <1>10, <1>11, <1>12 DEF Owned

LEMMA OwnedLinkEnds ==
  ASSUME TypeOK, Owned, NEW c \in Conn, LinkEnds(c)
  PROVE  Owned'
<1>1. /\ Threads /\ at[c] = "receives" /\ slot[c] \in Slot /\ UNCHANGED <<slot, pub>>
      /\ link' = [link EXCEPT ![slot[c]].live = FALSE]
  BY Halves DEF LinkEnds, Threads
<1>2. LiveSlots' = LiveSlots \ {slot[c]} /\ \A s \in Slot : link'[s].sock = link[s].sock
  BY <1>1 DEF LiveSlots, Threads, Links
<1>3. \A d \in Conn : at'[d] = IF d = c THEN "closes" ELSE at[d]
  BY <1>1 DEF LinkEnds, Threads
<1>4. \A d \in Conn : at'[d] = "receives" => slot[d] \in LiveSlots' /\ d # c
  BY <1>1, <1>2, <1>3 DEF Owned
<1>5. \A s \in LiveSlots' : \E d \in Conn : at'[d] = "receives" /\ slot[d] = s
  <2> TAKE s \in LiveSlots'
  <2>1. PICK d \in Conn : at[d] = "receives" /\ slot[d] = s
    BY <1>2 DEF Owned
  <2> QED
    BY <2>1, <1>2, <1>3
<1>6. \A d \in Conn : Publishing(d)' => at'[d] = "publishes"
  BY <1>1, <1>3 DEF Owned, Publishing
<1>7. /\ \A d, e \in Conn : at'[d] = "receives" /\ at'[e] = "receives" /\ slot[d] = slot[e] => d = e
      /\ \A s \in Slot : \A d \in Conn :
           link'[s].sock = d => at'[d] # "dials" /\ (at'[d] = "receives" => slot[d] = s)
  BY <1>2, <1>3 DEF Owned
<1> QED
  BY <1>1, <1>4, <1>5, <1>6, <1>7 DEF Owned

LEMMA OwnedTellSelf ==
  ASSUME TypeOK, Owned, NEW t \in Thread, TellSelf(t)
  PROVE  Owned'
<1>1. Threads /\ Publishing(t) /\ pub' = [pub EXCEPT ![t] = Idle] /\ UNCHANGED link
  BY Halves DEF TellSelf
<1>2. \A u \in Thread : Publishing(u)' => Publishing(u) /\ u # t
  BY <1>1 DEF Threads, Publishing
<1>3. CASE t = Accepter
  BY <1>1, <1>2, <1>3, OwnedStill DEF TellSelf
<1>4. CASE t # Accepter
  <2>1. t \in Conn /\ at[t] = "publishes"
    BY <1>1, <1>4, ThreadIs DEF Owned
  <2>2. at' = [at EXCEPT ![t] = "ended"] /\ \A d \in Conn : d # t => slot'[d] = slot[d]
    BY <1>1, <1>4 DEF TellSelf, Threads
  <2> QED
    BY <2>1, <2>2, <1>1, <1>2, ThreadIs, OwnedPast
<1> QED
  BY <1>3, <1>4

LEMMA OwnedStep ==
  ASSUME TypeOK, Owned, [Next]_vars
  PROVE  Owned'
<1>1. Threads
  BY Halves
<1>2. ASSUME UNCHANGED <<link, at, slot, pub>> PROVE Owned'
  BY <1>2, OwnedStill DEF Publishing
<1>3. CASE HostHello \/ SessionUpdate \/ UNCHANGED vars
  BY <1>2, <1>3 DEF HostHello, SessionUpdate, vars, threadVars
<1>4. ASSUME NEW t \in Thread, TellLink(t) PROVE Owned'
  <2>1. \A u \in Thread : Publishing(u)' => Publishing(u)
    BY <1>1, <1>4 DEF TellLink, Publishing, Threads
  <2> QED
    BY <2>1, <1>4, OwnedStill DEF TellLink
<1>5. ASSUME NEW c \in Conn, TurnAway(c) PROVE Owned'
  BY <1>1, <1>5, OwnedPast DEF TurnAway, Dialled, Publishing, Owned
<1>6. ASSUME NEW c \in Conn, Receive(c) \/ Leaves(c) PROVE Owned'
  BY <1>2, <1>6 DEF Receive, Leaves, threadVars
<1>7. ASSUME NEW c \in Conn, CloseSocket(c) PROVE Owned'
  <2>1. PICK a : a \in {"publishes", "clears"} /\ at' = [at EXCEPT ![c] = a]
    BY <1>7 DEF CloseSocket
  <2>2. ~Publishing(c) /\ UNCHANGED <<link, slot, pub>> /\ at[c] = "closes"
    BY <1>7 DEF CloseSocket, Owned
  <2> QED
    BY <2>1, <2>2, <1>1, OwnedPast DEF Publishing
<1>8. ASSUME NEW c \in Conn, ClearSocket(c) PROVE Owned'
  <2>1. slot[c] \in Slot /\ UNCHANGED <<slot, pub>> /\ at[c] = "clears" /\ ~Publishing(c)
    BY <1>1, <1>8 DEF ClearSocket, Threads, Owned
  <2>2. \A s \in Slot : link'[s].live = link[s].live /\ link'[s].sock \in {link[s].sock, None}
    BY <2>1, <1>1, <1>8 DEF ClearSocket, Threads, Links
  <2> QED
    BY <2>1, <2>2, <1>1, <1>8, OwnedPast DEF ClearSocket, Publishing
<1>9. ASSUME NEW c \in Conn, Departure(c) PROVE Owned'
  <2>1. at[c] = "publishes" /\ UNCHANGED <<link, at, slot>>
        /\ \A d \in Conn : d # c => pub'[d] = pub[d]
    BY <1>1, <1>9, ThreadIs DEF Departure, Begins, Threads
  <2> QED
    BY <2>1 DEF Owned, Publishing, LiveSlots
<1> QED
  BY <1>3, <1>4, <1>5, <1>6, <1>7, <1>8, <1>9, OwnedTellSelf, OwnedAccept, OwnedLinkEnds
     DEF Next, PublishRoster, Receiver

-------------------------------------------------------------------------------
(* Who has heard what.                                                     *)

(* A thread that has left the table and has yet to tell it; who is there.  *)
Leaving(c) == at[c] \in {"closes", "clears"} \/ (at[c] = "publishes" /\ ~Publishing(c))
Stale == \E c \in Conn : Leaving(c)
Present == {HostId} \cup LiveIds

(* The client on the link has the roster and its id, if it still reads.    *)
Told(s) ==
  \A c \in Conn :
    at[c] = "receives" /\ slot[c] = s /\ CanRead(c) /\ client[c].phase \notin Silent =>
      client[c].roster = Present /\ client[c].self = link[s].id

(* P is what r will be once the queue q is read.                           *)
Latest(q, r, P) ==
  /\ (\A i \in DOMAIN q : q[i].type # "PEERS") => r = P
  /\ \A i \in DOMAIN q :
       q[i].type = "PEERS" /\ (\A j \in DOMAIN q : j > i => q[j].type # "PEERS") => q[i].ids = P

(* Unless publications have overlapped there is one at a time; unless a    *)
(* thread has left the table since, it carries those who are there, those  *)
(* behind it know them, and when it is over so will the host.              *)
NewsInv ==
  ~crossed =>
    /\ \A t, u \in Thread : Publishing(t) /\ Publishing(u) => t = u
    /\ ~Stale =>
         /\ \A s \in LiveSlots : (\A t \in Thread : Publishing(t) => s \notin pub[t].left) => Told(s)
         /\ \A t \in Thread : Publishing(t) => pub[t].ids = Present
         /\ (\A t \in Thread : ~Publishing(t)) /\ ~missed => Latest(queue, roster, Present)

LEMMA LatestRead ==
  ASSUME NEW q \in Seq(Received), q # <<>>, NEW r, NEW P, Latest(q, r, P)
  PROVE  Latest(Tail(q), IF Head(q).type = "PEERS" THEN Head(q).ids ELSE r, P)
<1> DEFINE n == Len(q)
           w == IF Head(q).type = "PEERS" THEN Head(q).ids ELSE r
<1>1. /\ n \in Nat /\ n >= 1 /\ DOMAIN q = 1 .. n /\ DOMAIN Tail(q) = 1 .. (n - 1)
      /\ Head(q) = q[1] /\ \A i \in 1 .. (n - 1) : Tail(q)[i] = q[i + 1]
  <2>1. n \in Nat /\ DOMAIN q = 1 .. n /\ n # 0
    BY LenProperties, EmptySeq
  <2>2. /\ Tail(q) \in Seq(Received) /\ Len(Tail(q)) = n - 1
        /\ Head(q) = q[1] /\ \A i \in 1 .. Len(Tail(q)) : Tail(q)[i] = q[i + 1]
    BY HeadTailProperties
  <2>3. DOMAIN Tail(q) = 1 .. (n - 1)
    BY <2>2, LenProperties
  <2> QED
    BY <2>1, <2>2, <2>3
<1> DEFINE v == Tail(q)
<1> HIDE DEF n, v
<1>2. \A i \in 1 .. (n - 1) : i + 1 \in 1 .. n /\ v[i] = q[i + 1]
  BY <1>1 DEF v
<1>3. ASSUME NEW i \in DOMAIN v, v[i].type = "PEERS", \A j \in DOMAIN v : j > i => v[j].type # "PEERS"
      PROVE  v[i].ids = P
  <2>1. i \in 1 .. (n - 1) /\ i + 1 \in DOMAIN q /\ q[i + 1] = v[i]
    BY <1>1, <1>2 DEF v
  <2>2. ASSUME NEW j \in DOMAIN q, j > i + 1 PROVE q[j].type # "PEERS"
    <3>1. j - 1 \in 1 .. (n - 1) /\ j - 1 > i /\ (j - 1) + 1 = j
      BY <1>1, <2>1, <2>2
    <3>2. v[j - 1] = q[j] /\ j - 1 \in DOMAIN v
      BY <1>1, <1>2, <3>1 DEF v
    <3> QED
      BY <3>1, <3>2, <1>3
  <2> QED
    BY <2>1, <2>2, <1>3 DEF Latest
<1>4. ASSUME \A i \in DOMAIN v : v[i].type # "PEERS"
      PROVE  w = P
  <2>1. ASSUME NEW j \in DOMAIN q, j > 1 PROVE q[j].type # "PEERS"
    <3>1. j - 1 \in 1 .. (n - 1) /\ (j - 1) + 1 = j
      BY <1>1, <2>1
    <3>2. v[j - 1] = q[j] /\ j - 1 \in DOMAIN v
      BY <1>1, <1>2, <3>1 DEF v
    <3> QED
      BY <3>2, <1>4
  <2>2. 1 \in DOMAIN q
    BY <1>1
  <2>3. CASE q[1].type = "PEERS"
    BY <1>1, <2>1, <2>2, <2>3 DEF Latest
  <2>4. CASE q[1].type # "PEERS"
    <3>1. \A j \in DOMAIN q : q[j].type # "PEERS"
      <4> TAKE j \in DOMAIN q
      <4>1. j = 1 \/ j > 1
        BY <1>1
      <4> QED
        BY <4>1, <2>1, <2>4
    <3> QED
      BY <1>1, <2>4, <3>1 DEF Latest
  <2> QED
    BY <2>3, <2>4
<1> QED
  BY <1>3, <1>4 DEF Latest, v

LEMMA LatestHeard ==
  ASSUME NEW q \in Seq(Received), NEW m, m.type # "PEERS", NEW r, NEW P, Latest(q, r, P)
  PROVE  Latest(Append(q, m), r, P)
<1> DEFINE n == Len(q)
           v == Append(q, m)
<1>1. n \in Nat /\ DOMAIN q = 1 .. n /\ DOMAIN v = 1 .. (n + 1)
      /\ v[n + 1] = m /\ \A i \in 1 .. n : v[i] = q[i]
  BY LenProperties
<1> HIDE DEF n, v
<1>2. \A i \in DOMAIN v : v[i].type = "PEERS" => i \in DOMAIN q /\ v[i] = q[i]
  BY <1>1
<1>3. \A j \in DOMAIN q : j \in DOMAIN v /\ v[j] = q[j]
  BY <1>1
<1> QED
  BY <1>2, <1>3 DEF Latest, v

LEMMA LatestTold ==
  ASSUME NEW q \in Seq(Received), NEW m, m.type = "PEERS", NEW r
  PROVE  Latest(Append(q, m), r, m.ids)
<1> DEFINE n == Len(q)
           v == Append(q, m)
<1>1. n \in Nat /\ DOMAIN v = 1 .. (n + 1) /\ v[n + 1] = m
  BY LenProperties
<1> HIDE DEF n, v
<1>2. ASSUME NEW i \in DOMAIN v, \A j \in DOMAIN v : j > i => v[j].type # "PEERS"
      PROVE  v[i].ids = m.ids
  <2>1. n + 1 \in DOMAIN v /\ ~ (n + 1 > i)
    BY <1>1, <1>2
  <2>2. i = n + 1
    BY <1>1, <2>1
  <2> QED
    BY <1>1, <2>2
<1>3. n + 1 \in DOMAIN v /\ v[n + 1].type = "PEERS"
  BY <1>1
<1> QED
  BY <1>2, <1>3 DEF Latest, v

(* What a client keeps of the roster when it reads anything else.          *)
Keeps(me, you) ==
  \/ you.phase \in Silent
  \/ me.phase \notin Silent /\ you.roster = me.roster /\ you.self = me.self
Plain(m) == m.type \in {"HELLO", "WELCOME", "REFUSE"}
AllPlain(ms) ==
  \/ \E m \in Down : ms = <<m>> /\ Plain(m)
  \/ \E m, n \in Down : ms = <<m, n>> /\ Plain(m) /\ Plain(n)

LEMMA KeepsSame ==
  ASSUME NEW me PROVE Keeps(me, me)
BY DEF Keeps

LEMMA AfterKeeps ==
  ASSUME NEW c, NEW me \in ClientState, NEW m \in Down, Plain(m)
  PROVE  Keeps(me, After(c, me, m))
BY DEF Keeps, After, Decodes, ClientState, Plain, Gone, Silent

LEMMA ReadsKeep ==
  ASSUME NEW c \in Conn, client[c] \in ClientState, NEW ms, AllPlain(ms)
  PROVE  Keeps(client[c], HasRead(c, ms))
<1>1. ASSUME NEW m \in Down, ms = <<m>>, Plain(m) PROVE Keeps(client[c], HasRead(c, ms))
  BY <1>1, AfterKeeps DEF HasRead
<1>2. ASSUME NEW m \in Down, NEW n \in Down, ms = <<m, n>>, Plain(m), Plain(n)
      PROVE  Keeps(client[c], HasRead(c, ms))
  <2> DEFINE a == After(c, client[c], m)
             b == After(c, a, n)
  <2>1. a \in ClientState /\ Keeps(client[c], a)
    BY <1>2, AfterTyped, AfterKeeps
  <2>2. Keeps(a, b)
    BY <1>2, <2>1, AfterKeeps
  <2>3. HasRead(c, ms) = b
    BY <1>2 DEF HasRead
  <2> HIDE DEF a, b
  <2> QED
    BY <2>1, <2>2, <2>3 DEF Keeps
<1> QED
  BY <1>1, <1>2 DEF AllPlain

LEMMA SendKeeps ==
  ASSUME TypeOK, NEW S, NEW ms, AllPlain(ms), SendTo(S, ms)
  PROVE  \A c \in Conn : Keeps(client[c], client'[c])
<1> DEFINE reached == {c \in open : \E s \in S : link[s].sock = c}
<1> TAKE c \in Conn
<1>1. client[c] \in ClientState
  BY Halves DEF Talk
<1>2. client'[c] = IF c \in reached THEN HasRead(c, ms) ELSE client[c]
  BY DEF SendTo
<1> QED
  BY <1>1, <1>2, ReadsKeep, KeepsSame

(* A step that lets the table and its threads be.                          *)
LEMMA NewsStill ==
  ASSUME NewsInv, UNCHANGED <<link, at, slot, pub, open, crossed>>,
         \A c \in Conn : Keeps(client[c], client'[c]),
         ~missed' => ~missed,
         Latest(queue, roster, Present) /\ ~missed' => Latest(queue', roster', Present)
  PROVE  NewsInv'
<1>1. /\ LiveSlots' = LiveSlots /\ Present' = Present /\ Stale' = Stale
      /\ \A t \in Thread : Publishing(t)' = Publishing(t)
      /\ \A c \in Conn : CanRead(c)' = CanRead(c)
  BY DEF LiveSlots, LiveIds, Present, Stale, Leaving, Publishing, CanRead, Link
<1>2. ASSUME NEW s \in Slot, Told(s) PROVE Told(s)'
  BY <1>1, <1>2 DEF Told, Keeps
<1>3. LiveSlots \subseteq Slot
  BY DEF LiveSlots
<1> QED
  BY <1>1, <1>2, <1>3 DEF NewsInv

(* Who begins to publish is alone, or overlaps another.                    *)
LEMMA NewsBegins ==
  ASSUME Threads, NEW t \in Thread, link' \in Links, Begins(t, link')
  PROVE  NewsInv'
<1>1. Members(link') \in Publication /\ Members(link') # Idle
  BY MembersTyped, NotIdle
<1>2. /\ pub'[t] = Members(link') /\ \A u \in Thread : u # t => pub'[u] = pub[u]
      /\ crossed' = \E u \in Thread \ {t} : Publishing(u)
  BY DEF Begins, Threads
<1>3. Publishing(t)' /\ (~crossed' => \A u \in Thread : Publishing(u)' => u = t)
  BY <1>1, <1>2 DEF Publishing
<1>4. pub'[t].left = Slot /\ pub'[t].ids = Present'
  BY <1>2 DEF Members, Present, LiveIds, LiveSlots
<1>5. LiveSlots' \subseteq Slot
  BY DEF LiveSlots
<1> QED
  BY <1>3, <1>4, <1>5 DEF NewsInv

(* A thread that has left the table has yet to say so.                     *)
LEMMA NewsStale ==
  ASSUME NewsInv, NEW c \in Conn, Leaving(c)', UNCHANGED <<pub, crossed>>
  PROVE  NewsInv'
BY DEF NewsInv, Stale, Publishing

LEMMA NewsInit == Init => NewsInv
<1> SUFFICES ASSUME Init PROVE NewsInv
  OBVIOUS
<1>1. 1 \in Slot /\ Resident \in Conn
  BY TransportBounds DEF Slot, Conn, Resident
<1>2. LiveSlots = IF connected THEN {1} ELSE {}
  BY <1>1 DEF Init, LiveSlots
<1>3. \A t \in Thread : ~Publishing(t)
  BY DEF Init, Publishing
<1>4. Present = roster
  BY <1>1, <1>2 DEF Init, Present, LiveIds
<1>5. \A s \in LiveSlots : Told(s)
  <2>1. ASSUME NEW s \in LiveSlots, NEW c \in Conn, at[c] = "receives"
        PROVE  client[c].roster = Present /\ client[c].self = link[s].id
    <3>1. connected /\ c = Resident /\ s = 1
      BY <1>2, <2>1 DEF Init
    <3> QED
      BY <1>1, <1>4, <3>1 DEF Init, Welcome
  <2> QED
    BY <2>1 DEF Told
<1>6. Latest(queue, roster, Present)
  BY <1>4 DEF Init, Latest
<1> QED
  BY <1>3, <1>5, <1>6 DEF NewsInv

LEMMA NewsTellLink ==
  ASSUME TypeOK, Owned, NewsInv, NEW t \in Thread, TellLink(t)
  PROVE  NewsInv'
<1> DEFINE there == pub[t].left \cap LiveSlots
           s == Lowest(there)
           told == Peers(pub[t], link[s].id)
<1>1. /\ Threads /\ client \in [Conn -> ClientState] /\ Publishing(t)
      /\ UNCHANGED <<link, at, slot, open, crossed, missed>>
      /\ pub' = [pub EXCEPT ![t].left = {u \in @ : u > s}]
      /\ SendTo({s}, <<told>>)
  BY Halves DEF TellLink, Talk, gameVars
<1>2. pub[t] \in Publication
  BY <1>1 DEF Publishing, Threads
<1>3. s \in there /\ \A u \in there : s <= u
  <2>1. there \in SUBSET Nat /\ there # {}
    BY <1>2, Kinds DEF Publication, TellLink
  <2> HIDE DEF there
  <2> QED
    BY <2>1, LowestIsThere
<1> HIDE DEF s, there
<1>4. /\ pub'[t].left = {u \in pub[t].left : u > s} /\ pub'[t].ids = pub[t].ids
      /\ pub'[t] \in Publication
      /\ \A u \in Thread : u # t => pub'[u] = pub[u]
  <2>1. pub'[t] = [pub[t] EXCEPT !.left = {u \in @ : u > s}] /\ \A u \in Thread : u # t => pub'[u] = pub[u]
    BY <1>1 DEF Threads
  <2> QED
    BY <2>1, <1>2 DEF Publication
<1>5. /\ LiveSlots' = LiveSlots /\ Present' = Present
      /\ \A u \in Thread : Publishing(u)' = Publishing(u)
      /\ \A c \in Conn : CanRead(c)' = CanRead(c)
  BY <1>1, <1>4, NotIdle DEF LiveSlots, LiveIds, Present, Publishing, CanRead, Link
<1>6. Stale' = Stale
  BY <1>1, <1>5, ThreadIs DEF Stale, Leaving
<1>7. SUFFICES ASSUME ~crossed', ~Stale', NEW u \in LiveSlots,
                      \A v \in Thread : Publishing(v) => u \notin pub'[v].left
               PROVE  Told(u)'
  BY <1>1, <1>4, <1>5, <1>6, <1>7 DEF NewsInv
<1>8. pub[t].ids = Present /\ \A v \in Thread : Publishing(v) => v = t
  BY <1>1, <1>6, <1>7 DEF NewsInv
<1>9. SUFFICES ASSUME NEW c \in Conn, at[c] = "receives", slot[c] = u, CanRead(c),
                      client'[c].phase \notin Silent
               PROVE  client'[c].roster = Present /\ client'[c].self = link[u].id
  BY <1>1, <1>5 DEF Told
<1>10. c \in open /\ link[u].sock = c /\ s \in Slot /\ u \in Slot
  BY <1>3, <1>9 DEF CanRead, Link, LiveSlots, there
<1>11. client'[c] = IF link[s].sock = c THEN After(c, client[c], told) ELSE client[c]
  BY <1>1, <1>10 DEF SendTo, HasRead
<1>12. CASE u = s
  <2>1. told.type = "PEERS" /\ told.ids = Present /\ told.you = link[u].id
    BY <1>8, <1>12 DEF Peers
  <2>2. client[c] \in ClientState /\ client'[c] = After(c, client[c], told)
    BY <1>1, <1>10, <1>11, <1>12
  <2> HIDE DEF told
  <2> QED
    BY <2>1, <2>2, <1>9 DEF After, Decodes, ClientState, Gone, Silent
<1>13. CASE u # s
  <2>1. client'[c] = client[c]
    BY <1>9, <1>10, <1>11, <1>13 DEF Owned
  <2>2. u \notin pub[t].left
    <3>1. u \in pub[t].left => u > s
      <4>1. s \in Nat /\ u \in Nat
        BY <1>10, Kinds
      <4> QED
        BY <4>1, <1>3, <1>13 DEF there
    <3> QED
      BY <3>1, <1>1, <1>4, <1>7
  <2>3. Told(u)
    BY <2>2, <1>1, <1>6, <1>7, <1>8 DEF NewsInv
  <2> QED
    BY <2>1, <2>3, <1>9 DEF Told
<1> QED
  BY <1>12, <1>13

LEMMA NewsTellSelf ==
  ASSUME TypeOK, Owned, NewsInv, NEW t \in Thread, TellSelf(t)
  PROVE  NewsInv'
<1> DEFINE m == Peers(pub[t], HostId)
<1>1. /\ Threads /\ queue \in Seq(Received) /\ Publishing(t)
      /\ pub' = [pub EXCEPT ![t] = Idle] /\ pub[t].left \cap LiveSlots = {}
      /\ queue' = Pushed(m) /\ missed' = Full
      /\ UNCHANGED <<link, open, crossed, client, roster>>
  BY Halves DEF TellSelf, Talk, endVars
<1>2. \A u \in Thread : pub'[u] = IF u = t THEN Idle ELSE pub[u]
  BY <1>1 DEF Threads
<1>3. t \in Conn => at[t] = "publishes"
  BY <1>1 DEF Owned
<1>4. /\ \A c \in Conn : at'[c] = IF c = t THEN "ended" ELSE at[c]
      /\ \A c \in Conn : c # t => slot'[c] = slot[c]
  BY <1>1, ThreadIs DEF TellSelf, Threads
<1>5. LiveSlots' = LiveSlots /\ Present' = Present
  BY <1>1 DEF LiveSlots, LiveIds, Present
<1>6. Stale => Stale'
  <2> SUFFICES ASSUME NEW c \in Conn, Leaving(c) PROVE Stale'
    BY DEF Stale
  <2>1. c # t
    BY <1>1, <1>3 DEF Leaving
  <2>2. at'[c] = at[c] /\ (Publishing(c)' = Publishing(c))
    BY <2>1, <1>2, <1>4, ThreadIs DEF Publishing
  <2> QED
    BY <2>2 DEF Stale, Leaving
<1>7. SUFFICES ASSUME ~crossed, ~Stale
               PROVE  /\ \A u \in LiveSlots : Told(u)'
                      /\ ~missed' => Latest(queue', roster', Present')
  <2>1. \A u, v \in Thread : Publishing(u)' => Publishing(u)
    BY <1>2 DEF Publishing
  <2>2. ~crossed => \A u \in Thread : ~Publishing(u)'
    BY <1>1, <1>2 DEF NewsInv, Publishing
  <2> QED
    BY <2>2, <1>1, <1>5, <1>6, <1>7 DEF NewsInv
<1>8. pub[t].ids = Present /\ \A u \in Thread : Publishing(u) => u = t
  BY <1>1, <1>7 DEF NewsInv
<1>9. ASSUME NEW u \in LiveSlots PROVE Told(u)'
  <2>1. Told(u)
    BY <1>1, <1>7, <1>8 DEF NewsInv
  <2> SUFFICES ASSUME NEW c \in Conn, at'[c] = "receives", slot'[c] = u, CanRead(c)',
                      client'[c].phase \notin Silent
               PROVE  client'[c].roster = Present' /\ client'[c].self = link'[u].id
    BY DEF Told
  <2>2. c # t /\ at[c] = "receives" /\ slot[c] = u /\ client'[c] = client[c]
    BY <1>1, <1>4
  <2>3. CanRead(c)
    BY <2>2, <1>1, <1>4 DEF CanRead, Link
  <2> QED
    BY <2>1, <2>2, <2>3, <1>1, <1>5 DEF Told
<1>10. ASSUME ~missed' PROVE Latest(queue', roster', Present')
  <2>1. m.type = "PEERS" /\ m.ids = Present
    BY <1>8 DEF Peers
  <2>2. queue' = Append(queue, m)
    BY <1>1, <1>10 DEF Pushed
  <2> HIDE DEF m
  <2>3. Latest(Append(queue, m), roster, m.ids)
    BY <1>1, <2>1, LatestTold
  <2> QED
    BY <2>1, <2>2, <2>3, <1>1, <1>5
<1> QED
  BY <1>9, <1>10

LEMMA NewsSessionUpdate ==
  ASSUME TypeOK, NewsInv, SessionUpdate
  PROVE  NewsInv'
<1> DEFINE m == Head(queue)
<1>1. /\ queue \in Seq(Received) /\ queue # <<>> /\ queue' = Tail(queue)
      /\ UNCHANGED <<link, at, slot, pub, open, crossed, missed>>
      /\ roster' = IF m.type = "PEERS" THEN m.ids ELSE roster
  BY Halves DEF SessionUpdate, Talk, threadVars
<1>2. AllPlain(Answer(m))
  BY DEF AllPlain, Plain, Answer, FromHost, Down
<1>3. \A c \in Conn : Keeps(client[c], client'[c])
  <2>1. CASE Answers(m)
    BY <2>1, <1>2, SendKeeps DEF SessionUpdate
  <2>2. CASE ~Answers(m)
    BY <2>2, KeepsSame DEF SessionUpdate, endVars
  <2> QED
    BY <2>1, <2>2
<1>4. Latest(queue, roster, Present) => Latest(queue', roster', Present)
  BY <1>1, LatestRead
<1>5. Present' = Present
  BY <1>1 DEF Present, LiveIds, LiveSlots
<1> QED
  BY <1>1, <1>3, <1>4, <1>5, NewsStill

LEMMA NewsHostHello ==
  ASSUME TypeOK, NewsInv, HostHello
  PROVE  NewsInv'
<1>1. AllPlain(<<FromHost("HELLO")>>)
  <2> FromHost("HELLO") \in Down /\ Plain(FromHost("HELLO"))
    BY DEF Plain, FromHost, Down
  <2> QED
    BY DEF AllPlain
<1>2. \A c \in Conn : Keeps(client[c], client'[c])
  BY <1>1, SendKeeps DEF HostHello
<1>3. UNCHANGED <<link, at, slot, pub, open, crossed, missed, queue, roster>>
  BY DEF HostHello, threadVars
<1>4. Present' = Present
  BY <1>3 DEF Present, LiveIds, LiveSlots
<1> QED
  BY <1>2, <1>3, <1>4, NewsStill

LEMMA NewsReceive ==
  ASSUME TypeOK, NewsInv, NEW c \in Conn, Receive(c)
  PROVE  NewsInv'
<1> DEFINE m == [Head(up[c]) EXCEPT !.from = Link(c).id]
<1>1. /\ queue \in Seq(Received) /\ up[c] \in Seq(Upward) /\ up[c] # <<>>
      /\ UNCHANGED <<link, at, slot, pub, open, crossed, missed, client, roster>>
      /\ queue' = Pushed(m)
  BY Halves DEF Receive, Talk, threadVars
<1>2. m.type # "PEERS"
  <2>1. Head(up[c]) \in Upward
    BY <1>1, HeadTailProperties
  <2> QED
    BY <2>1 DEF Upward
<1> HIDE DEF m
<1>3. Latest(queue, roster, Present) => Latest(queue', roster', Present)
  BY <1>1, <1>2, LatestHeard DEF Pushed
<1>4. Present' = Present /\ \A d \in Conn : Keeps(client[d], client'[d])
  BY <1>1, KeepsSame DEF Present, LiveIds, LiveSlots
<1> QED
  BY <1>1, <1>3, <1>4, NewsStill

LEMMA NewsLeaves ==
  ASSUME TypeOK, NewsInv, NEW c \in Conn, Leaves(c)
  PROVE  NewsInv'
<1>1. UNCHANGED <<link, at, slot, pub, open, crossed, missed, queue, roster>>
  BY DEF Leaves, threadVars, gameVars
<1>2. \A d \in Conn : Keeps(client[d], client'[d])
  <2> TAKE d \in Conn
  <2>1. client'[d] = IF d = c THEN NotThere ELSE client[d]
    BY Halves DEF Talk, Leaves
  <2> QED
    BY <2>1, KeepsSame DEF Keeps, NotThere, Gone, Silent
<1>3. Present' = Present
  BY <1>1 DEF Present, LiveIds, LiveSlots
<1> QED
  BY <1>1, <1>2, <1>3, NewsStill

LEMMA NewsTurnAway ==
  ASSUME TypeOK, NewsInv, NEW c \in Conn, TurnAway(c)
  PROVE  NewsInv'
<1>1. /\ at[c] = "dials" /\ Threads
      /\ UNCHANGED <<link, slot, pub, open, crossed, missed, queue, roster>>
      /\ \A d \in Conn : d # c => client'[d] = client[d]
      /\ \A d \in Conn : at'[d] = IF d = c THEN "ended" ELSE at[d]
  BY Halves DEF TurnAway, Dialled, gameVars, Threads, Talk
<1>2. /\ LiveSlots' = LiveSlots /\ Present' = Present
      /\ \A t \in Thread : Publishing(t)' = Publishing(t)
      /\ \A d \in Conn : CanRead(d)' = CanRead(d)
  BY <1>1 DEF LiveSlots, LiveIds, Present, Publishing, CanRead, Link
<1>3. Stale' = Stale
  BY <1>1, <1>2, ThreadIs DEF Stale, Leaving
<1>4. ASSUME NEW s \in LiveSlots, Told(s) PROVE Told(s)'
  BY <1>1, <1>2, <1>4 DEF Told
<1> QED
  BY <1>1, <1>2, <1>3, <1>4 DEF NewsInv

LEMMA NewsStep ==
  ASSUME TypeOK, TypeOK', Owned, NewsInv, [Next]_vars
  PROVE  NewsInv'
<1>1. Threads /\ Threads'
  BY Halves DEF TypeOK, Threads, Links, Publication
<1>2. ASSUME NEW c \in Conn, Accept(c) PROVE NewsInv'
  <2>1. Begins(Accepter, link') /\ link' \in Links
    BY <1>1, <1>2, AcceptIs DEF Threads
  <2> QED
    BY <2>1, <1>1, NewsBegins, ThreadIs
<1>3. ASSUME NEW c \in Conn, Departure(c) PROVE NewsInv'
  <2>1. Begins(c, link') /\ link' \in Links
    BY <1>1, <1>3 DEF Departure, Threads
  <2> QED
    BY <2>1, <1>1, NewsBegins, ThreadIs
<1>4. ASSUME NEW c \in Conn, LinkEnds(c) PROVE NewsInv'
  <2>1. Leaving(c)' /\ UNCHANGED <<pub, crossed>>
    BY <1>1, <1>4 DEF LinkEnds, Leaving, Threads
  <2> QED
    BY <2>1, NewsStale
<1>5. ASSUME NEW c \in Conn, CloseSocket(c) \/ ClearSocket(c) PROVE NewsInv'
  <2>1. ~Publishing(c) /\ UNCHANGED <<pub, crossed>> /\ at'[c] \in {"publishes", "clears"}
    BY <1>1, <1>5 DEF CloseSocket, ClearSocket, Owned, Threads
  <2>2. Leaving(c)'
    BY <2>1 DEF Leaving, Publishing
  <2> QED
    BY <2>1, <2>2, NewsStale
<1>6. CASE UNCHANGED vars
  <2>1. UNCHANGED <<link, at, slot, pub, open, crossed, missed, queue, roster, client>>
    BY <1>6 DEF vars, threadVars, gameVars, endVars
  <2>2. Present' = Present /\ \A d \in Conn : Keeps(client[d], client'[d])
    BY <2>1, KeepsSame DEF Present, LiveIds, LiveSlots
  <2> QED
    BY <2>1, <2>2, NewsStill
<1> QED
  BY <1>2, <1>3, <1>4, <1>5, <1>6, NewsHostHello, NewsSessionUpdate, NewsTellLink, NewsTellSelf,
     NewsTurnAway, NewsReceive, NewsLeaves DEF Next, PublishRoster, Receiver

(* When the threads have told all, everyone who reads has the roster of    *)
(* those who are there and the host's own comes to it, in whatever order   *)
(* links were accepted and lost, unless two publications overlapped or     *)
(* the queue was full (host_publish_roster, recv_loop, accept_thread).     *)
THEOREM RostersSettle == Spec => []RosterSettles
<1>1. Init => TypeOK /\ Owned /\ NewsInv
  BY InitTyped, OwnedInit, NewsInit
<1>2. ASSUME TypeOK, TypeOK', Owned, NewsInv, [Next]_vars PROVE Owned' /\ NewsInv'
  BY <1>2, OwnedStep, NewsStep
<1>3. ASSUME TypeOK, Owned, NewsInv PROVE RosterSettles
  <2> SUFFICES ASSUME AllTold, ~crossed
               PROVE  /\ queue = <<>> /\ ~missed => roster = Present
                      /\ \A s \in LiveSlots :
                           client[link[s].sock].phase \in {"HelloSent", "Ready"} =>
                             /\ client[link[s].sock].roster = Present
                             /\ client[link[s].sock].self = link[s].id
    BY DEF RosterSettles, Present
  <2>1. ~Stale
    BY DEF AllTold, Stale, Leaving
  <2>2. (\A s \in LiveSlots : Told(s)) /\ (~missed => Latest(queue, roster, Present))
    BY <1>3, <2>1 DEF NewsInv, AllTold
  <2>3. queue = <<>> /\ ~missed => roster = Present
    BY <2>2 DEF Latest
  <2>4. ASSUME NEW s \in LiveSlots, client[link[s].sock].phase \in {"HelloSent", "Ready"}
        PROVE  client[link[s].sock].roster = Present /\ client[link[s].sock].self = link[s].id
    <3>1. PICK c \in Conn : at[c] = "receives" /\ slot[c] = s
      BY <1>3 DEF Owned
    <3>2. CanRead(c) /\ link[s].sock = c
      BY <3>1 DEF AllTold, CanRead, Link
    <3> QED
      BY <3>1, <3>2, <2>2, <2>4 DEF Told, Gone, Silent
  <2> QED
    BY <2>3, <2>4
<1> QED
  BY <1>1, <1>2, <1>3, TransportTyped, PTL DEF Spec

-------------------------------------------------------------------------------
(* Who is let in.                                                          *)

In(q, m) == \E i \in DOMAIN q : q[i] = m

(* The HELLO of c is on its way, or in the queue under the id c still has. *)
Asks(c) == [type |-> "HELLO", from |-> Link(c).id, by |-> c]
Asking(c) == In(up[c], Message("HELLO", c)) \/ In(queue, Asks(c))

(* A client that is there has its link, and is in or will be answered.     *)
Served(c) ==
  /\ at[c] = "receives" /\ CanRead(c)
  /\ client[c].phase = "Ready" \/ (client[c].phase = "HelloSent" /\ Asking(c))
Welcomed(c) == client[c].phase # "Off" => Served(c)

WelcomeInv ==
  hostPhase # "Refused" => \A c \in Conn \ (foreign \cup excused) : Welcomed(c)

LEMMA InAppend ==
  ASSUME NEW T, NEW q \in Seq(T), NEW m
  PROVE  In(Append(q, m), m) /\ \A n : In(q, n) => In(Append(q, m), n)
<1> DEFINE k == Len(q)
           v == Append(q, m)
<1>1. /\ k \in Nat /\ DOMAIN q = 1 .. k /\ DOMAIN v = 1 .. (k + 1)
      /\ v[k + 1] = m /\ \A i \in 1 .. k : v[i] = q[i]
  BY LenProperties
<1> HIDE DEF k, v
<1>2. k + 1 \in DOMAIN v /\ \A i \in DOMAIN q : i \in DOMAIN v /\ v[i] = q[i]
  BY <1>1
<1> QED
  BY <1>1, <1>2 DEF In, v

LEMMA InTail ==
  ASSUME NEW T, NEW q \in Seq(T), q # <<>>, NEW m, In(q, m), Head(q) # m
  PROVE  In(Tail(q), m)
<1> DEFINE k == Len(q)
           v == Tail(q)
<1>1. /\ k \in Nat /\ DOMAIN q = 1 .. k /\ Head(q) = q[1]
      /\ DOMAIN v = 1 .. (k - 1) /\ \A i \in 1 .. (k - 1) : v[i] = q[i + 1]
  <2>1. k \in Nat /\ DOMAIN q = 1 .. k /\ k # 0
    BY LenProperties, EmptySeq
  <2>2. v \in Seq(T) /\ Len(v) = k - 1 /\ Head(q) = q[1] /\ \A i \in 1 .. Len(v) : v[i] = q[i + 1]
    BY HeadTailProperties
  <2>3. DOMAIN v = 1 .. (k - 1)
    BY <2>2, LenProperties
  <2> QED
    BY <2>1, <2>2, <2>3
<1>2. PICK i \in DOMAIN q : q[i] = m
  BY DEF In
<1> HIDE DEF k, v
<1>3. i - 1 \in 1 .. (k - 1) /\ (i - 1) + 1 = i
  <2>1. i \in 1 .. k /\ i # 1
    BY <1>1, <1>2
  <2> QED
    BY <2>1, <1>1
<1>4. i - 1 \in DOMAIN v /\ v[i - 1] = m
  BY <1>1, <1>2, <1>3
<1> QED
  BY <1>4 DEF In, v

LEMMA PushKeeps ==
  ASSUME TypeOK, NEW m, NEW n, In(queue, n)
  PROVE  In(Pushed(m), n)
<1>1. queue \in Seq(Received)
  BY Halves DEF Talk
<1> QED
  BY <1>1, InAppend DEF Pushed

LEMMA WelcomedStill ==
  ASSUME NEW c, Welcomed(c),
         client'[c].phase # "Off" => client[c].phase # "Off",
         at[c] = "receives" /\ CanRead(c) =>
           /\ UNCHANGED <<at[c], slot[c], link[slot[c]]>> /\ c \in open'
           /\ client'[c].phase = client[c].phase /\ up'[c] = up[c]
           /\ \A m : In(queue, m) => In(queue', m)
  PROVE  Welcomed(c)'
<1> SUFFICES ASSUME client'[c].phase # "Off" PROVE Served(c)'
  BY DEF Welcomed
<1>1. Served(c)
  BY DEF Welcomed
<1>2. Link(c)' = Link(c) /\ CanRead(c)' /\ Asks(c)' = Asks(c)
  BY <1>1 DEF Served, Link, CanRead, Asks
<1> QED
  BY <1>1, <1>2 DEF Served, Asking

(* What is sent to a client of the host's own build.                       *)
LEMMA SendIs ==
  ASSUME TypeOK, NEW S, NEW ms, SendTo(S, ms), NEW c \in Conn \ foreign
  PROVE  /\ up'[c] = up[c]
         /\ client'[c] = IF c \in open /\ \E s \in S : link[s].sock = c
                         THEN HasRead(c, ms) ELSE client[c]
BY Halves DEF SendTo, Objects, Talk

(* It stays where it is by a HELLO, or a PEERS it is in, and is let in by  *)
(* a WELCOME.                                                              *)
LEMMA AfterIs ==
  ASSUME NEW c, c \notin foreign, NEW me \in ClientState, NEW m \in Down
  PROVE  LET p == After(c, me, m).phase IN
         /\ m.type = "HELLO" => p = me.phase
         /\ m.type = "PEERS" /\ m.you \in m.ids => p = me.phase
         /\ m.type = "WELCOME" => p = IF me.phase \in Silent THEN me.phase ELSE "Ready"
BY DEF After, Decodes, ClientState, Down, Phase, Gone, Silent

LEMMA WelcomedHostHello ==
  ASSUME TypeOK, HostHello, NEW c \in Conn \ foreign, Welcomed(c)
  PROVE  Welcomed(c)'
<1> DEFINE m == FromHost("HELLO")
<1>1. client[c] \in ClientState /\ m \in Down /\ m.type = "HELLO"
  BY Halves DEF Talk, FromHost, Down
<1>2. HasRead(c, <<m>>) = After(c, client[c], m)
  BY DEF HasRead
<1>3. client'[c].phase = client[c].phase /\ up'[c] = up[c]
  <2>1. SendTo(LiveSlots, <<m>>)
    BY DEF HostHello
  <2> HIDE DEF m
  <2> QED
    BY <1>1, <1>2, <2>1, SendIs, AfterIs
<1> QED
  BY <1>3, WelcomedStill DEF HostHello, threadVars, CanRead

LEMMA WelcomedTellLink ==
  ASSUME TypeOK, NEW t \in Thread, TellLink(t),
         NEW c \in Conn \ foreign, c \notin excused', Welcomed(c)
  PROVE  Welcomed(c)'
<1> DEFINE s == Lowest(pub[t].left \cap LiveSlots)
           m == Peers(pub[t], link[s].id)
<1>1. client[c] \in ClientState /\ pub[t] \in Publication
  BY Halves DEF Talk, TellLink, Publishing, Threads
<1>2. s \in LiveSlots
  <2>1. pub[t].left \cap LiveSlots \in SUBSET Nat /\ pub[t].left \cap LiveSlots # {}
    BY <1>1, Kinds DEF Publication, TellLink
  <2> QED
    BY <2>1, LowestIsThere
<1>3. SendTo({s}, <<m>>) /\ (link[s].sock = c => m.you \in m.ids)
  <2>1. link[s].sock = c => link[s].id \in pub[t].ids
    BY Kinds DEF TellLink
  <2> QED
    BY <2>1 DEF TellLink, Peers
<1> HIDE DEF s
<1>4. m \in Down /\ m.type = "PEERS"
  <2>1. link[s].id \in Id
    BY <1>2, Halves DEF Threads, Links, LiveSlots
  <2> QED
    BY <1>1, <2>1 DEF Peers, Down, Publication
<1>5. HasRead(c, <<m>>) = After(c, client[c], m)
  BY DEF HasRead
<1> HIDE DEF m
<1>6. client'[c].phase = client[c].phase /\ up'[c] = up[c]
  BY <1>1, <1>3, <1>4, <1>5, SendIs, AfterIs
<1> QED
  BY <1>6, WelcomedStill DEF TellLink, gameVars, CanRead

LEMMA WelcomedTellSelf ==
  ASSUME TypeOK, Owned, NEW t \in Thread, TellSelf(t), NEW c \in Conn, Welcomed(c)
  PROVE  Welcomed(c)'
<1>1. Threads /\ UNCHANGED <<link, open, client, up>>
  BY Halves DEF TellSelf, endVars
<1>2. at[c] = "receives" => c # t
  BY DEF TellSelf, Owned
<1>3. c # t => UNCHANGED <<at[c], slot[c]>>
  BY <1>1, ThreadIs DEF TellSelf, Threads
<1>4. \A m : In(queue, m) => In(queue', m)
  BY PushKeeps DEF TellSelf
<1> QED
  BY <1>1, <1>2, <1>3, <1>4, WelcomedStill DEF CanRead

LEMMA WelcomedAccept ==
  ASSUME TypeOK, Owned, NEW d \in Conn, Accept(d), NEW c \in Conn, Welcomed(c)
  PROVE  Welcomed(c)'
<1>1. PICK s \in FreeSlots, i \in Id :
        /\ link' = [link EXCEPT ![s] = [sock |-> d, id |-> i, live |-> TRUE]]
        /\ slot' = [slot EXCEPT ![d] = s]
        /\ Begins(Accepter, link')
  BY AcceptIs
<1>2. Threads /\ Talk /\ s \in Slot /\ s \notin LiveSlots
  BY Halves DEF FreeSlots
<1>3. /\ \A e \in Conn : at'[e] = IF e = d THEN "receives" ELSE at[e]
      /\ \A e \in Conn : slot'[e] = IF e = d THEN s ELSE slot[e]
      /\ \A e \in Conn : up'[e] = IF e = d THEN <<Message("HELLO", d)>> ELSE up[e]
      /\ open' = open \cup {d} /\ queue' = queue
  BY <1>1, <1>2 DEF Accept, Threads, Talk
<1>4. \A e \in Conn : IF e = d THEN client'[e].phase = "HelloSent" ELSE client'[e] = client[e]
  BY <1>2 DEF Accept, Talk, ClientState
<1>5. CASE c = d
  <2>1. link'[s].sock = c
    BY <1>1, <1>2, <1>5 DEF Threads, Links
  <2>2. CanRead(c)' /\ at'[c] = "receives"
    BY <2>1, <1>3, <1>5 DEF CanRead, Link
  <2>3. In(up'[c], Message("HELLO", c))
    BY <1>3, <1>5 DEF In
  <2> QED
    BY <2>2, <2>3, <1>4, <1>5 DEF Welcomed, Served, Asking, Message
<1>6. CASE c # d
  <2>1. at[c] = "receives" => link'[slot[c]] = link[slot[c]]
    BY <1>1, <1>2 DEF Owned, Threads, LiveSlots
  <2> QED
    BY <2>1, <1>3, <1>4, <1>6, WelcomedStill DEF CanRead
<1> QED
  BY <1>5, <1>6

LEMMA WelcomedReceive ==
  ASSUME TypeOK, NEW d \in Conn, Receive(d), NEW c \in Conn, c \notin excused', Welcomed(c)
  PROVE  Welcomed(c)'
<1> DEFINE m == [Head(up[d]) EXCEPT !.from = Link(d).id]
<1>1. /\ Threads /\ Talk /\ UNCHANGED <<link, at, slot, open, client>>
      /\ queue' = Pushed(m)
      /\ \A e \in Conn : up'[e] = IF e = d THEN Tail(up[d]) ELSE up[e]
  BY Halves DEF Receive, threadVars, Talk
<1>2. \A n : In(queue, n) => In(queue', n)
  BY <1>1, PushKeeps
<1>3. CASE c # d
  BY <1>1, <1>2, <1>3, WelcomedStill DEF CanRead
<1>4. CASE c = d
  <2> SUFFICES ASSUME client'[c].phase # "Off" PROVE Served(c)'
    BY DEF Welcomed
  <2>1. Served(c)
    BY <1>1 DEF Welcomed
  <2>2. CanRead(c)' /\ Link(c)' = Link(c) /\ Asks(c)' = Asks(c)
    BY <1>1, <2>1 DEF Served, CanRead, Link, Asks
  <2>3. queue' = Append(queue, m) /\ queue \in Seq(Received) /\ up[c] \in Seq(Upward) /\ up[c] # <<>>
    BY <1>1, <1>4 DEF Receive, Pushed, Talk
  <2>4. Asking(c) => Asking(c)'
    <3>1. CASE In(queue, Asks(c))
      BY <3>1, <1>2, <2>2 DEF Asking
    <3>2. CASE In(up[c], Message("HELLO", c)) /\ Head(up[c]) # Message("HELLO", c)
      <4>1. In(Tail(up[c]), Message("HELLO", c))
        BY <2>3, <3>2, InTail
      <4>2. Message("HELLO", c)' = Message("HELLO", c) /\ up'[c] = Tail(up[c])
        BY <1>1, <1>4 DEF Message
      <4> QED
        BY <4>1, <4>2 DEF Asking
    <3>3. CASE Head(up[c]) = Message("HELLO", c)
      <4>1. m = Asks(c)
        BY <3>3, <1>4 DEF Message, Asks
      <4>2. In(queue', Asks(c)')
        BY <4>1, <2>2, <2>3, InAppend
      <4> QED
        BY <4>2 DEF Asking
    <3> QED
      BY <3>1, <3>2, <3>3 DEF Asking
  <2> QED
    BY <1>1, <2>1, <2>2, <2>4 DEF Served
<1> QED
  BY <1>3, <1>4

LEMMA WelcomedLinkEnds ==
  ASSUME TypeOK, Owned, NEW d \in Conn, LinkEnds(d), NEW c \in Conn, Welcomed(c)
  PROVE  Welcomed(c)'
<1>1. /\ Threads /\ UNCHANGED <<slot, open, client, up, queue>>
      /\ link' = [link EXCEPT ![slot[d]].live = FALSE]
      /\ at[d] = "receives" /\ slot[d] \in Slot
      /\ \A e \in Conn : at'[e] = IF e = d THEN "closes" ELSE at[e]
  BY Halves DEF LinkEnds, Threads, gameVars, endVars
<1>2. CASE c # d
  <2>1. at[c] = "receives" => slot[c] # slot[d]
    BY <1>1, <1>2 DEF Owned
  <2>2. at[c] = "receives" => link'[slot[c]] = link[slot[c]]
    BY <1>1, <2>1 DEF Threads, Links
  <2> QED
    BY <2>2, <1>1, <1>2, WelcomedStill DEF CanRead
<1>3. CASE c = d
  <2>1. client[c].phase = "Off"
    BY <1>3 DEF LinkEnds, Welcomed, Served, CanRead, Gone
  <2> QED
    BY <2>1, <1>1 DEF Welcomed
<1> QED
  BY <1>2, <1>3

LEMMA WelcomedSocket ==
  ASSUME TypeOK, NEW d \in Conn, CloseSocket(d) \/ ClearSocket(d),
         NEW c \in Conn, c \notin excused', Welcomed(c)
  PROVE  Welcomed(c)'
<1>1. /\ Threads /\ UNCHANGED <<slot, client, up, queue>>
      /\ at[d] # "receives" /\ slot[d] \in Slot
      /\ \A e \in Conn : e # d => at'[e] = at[e]
      /\ c \notin {Link(d).sock} \ {d, None}
  BY Halves DEF CloseSocket, ClearSocket, Threads, gameVars, endVars
<1>2. SUFFICES ASSUME at[c] = "receives", CanRead(c)
               PROVE  link'[slot[c]] = link[slot[c]] /\ c \in open'
  BY <1>1, <1>2, WelcomedStill
<1>3. c # d /\ c # None /\ Link(d).sock # c
  BY <1>1, <1>2, Kinds
<1>4. CASE CloseSocket(d)
  BY <1>2, <1>3, <1>4 DEF CloseSocket, CanRead
<1>5. CASE ClearSocket(d)
  <2>1. slot[d] # slot[c]
    BY <1>2, <1>3 DEF CanRead, Link
  <2> QED
    BY <2>1, <1>1, <1>2, <1>5 DEF ClearSocket, CanRead, Threads, Links
<1> QED
  BY <1>4, <1>5

LEMMA WelcomedSessionUpdate ==
  ASSUME TypeOK, Owned, SessionUpdate, NEW c \in Conn \ foreign, c \notin excused', Welcomed(c)
  PROVE  Welcomed(c)'
<1> DEFINE m == Head(queue)
           hello == FromHost("HELLO")
           welcome == FromHost("WELCOME")
           refuse == FromHost("REFUSE")
           reached == c \in open /\ \E s \in SlotsOf(m.from) : link[s].sock = c
<1>1. /\ Threads /\ Talk /\ client[c] \in ClientState
      /\ UNCHANGED <<link, at, slot, open>>
      /\ queue \in Seq(Received) /\ queue # <<>> /\ queue' = Tail(queue)
  BY Halves DEF SessionUpdate, threadVars, Talk
<1>2. /\ {hello, welcome, refuse} \subseteq Down
      /\ hello.type = "HELLO" /\ welcome.type = "WELCOME" /\ refuse.type = "REFUSE"
  BY DEF FromHost, Down
<1>3. up'[c] = up[c]
  <2>1. CASE Answers(m)
    BY <2>1, SendIs DEF SessionUpdate
  <2>2. CASE ~Answers(m)
    BY <2>2 DEF SessionUpdate, endVars
  <2> QED
    BY <2>1, <2>2
<1>4. CASE ~ (Answers(m) /\ reached)
  <2>1. client'[c] = client[c]
    <3>1. CASE Answers(m)
      BY <1>4, <3>1, SendIs DEF SessionUpdate
    <3>2. CASE ~Answers(m)
      BY <3>2 DEF SessionUpdate, endVars
    <3> QED
      BY <3>1, <3>2
  <2> SUFFICES ASSUME client'[c].phase # "Off" PROVE Served(c)'
    BY DEF Welcomed
  <2>2. Served(c)
    BY <2>1 DEF Welcomed
  <2>3. CanRead(c)' /\ Link(c)' = Link(c) /\ Asks(c)' = Asks(c)
    BY <1>1, <2>2 DEF Served, CanRead, Link, Asks
  <2>4. m # Asks(c)
    <3> SUFFICES ASSUME m = Asks(c) PROVE FALSE
      OBVIOUS
    <3>1. slot[c] \in SlotsOf(m.from)
      BY <2>2 DEF Served, Owned, Asks, SlotsOf, Link
    <3>2. reached /\ Answers(m)
      BY <3>1, <2>2 DEF Served, CanRead, Link, Answers, Asks
    <3> QED
      BY <3>2, <1>4
  <2>5. In(queue, Asks(c)) => In(queue', Asks(c)')
    BY <1>1, <2>3, <2>4, InTail
  <2>6. Asking(c) => Asking(c)'
    BY <1>3, <2>5 DEF Asking, Message
  <2> QED
    BY <1>1, <2>1, <2>2, <2>3, <2>6 DEF Served
<1>5. CASE Answers(m) /\ reached
  <2>1. client'[c] = HasRead(c, Answer(m))
    BY <1>5, SendIs DEF SessionUpdate
  <2>2. CASE m.by \notin foreign
    <3> DEFINE a == After(c, client[c], hello)
    <3>1. HasRead(c, Answer(m)) = After(c, a, welcome)
      BY <2>2 DEF HasRead, Answer
    <3>2. a.phase = client[c].phase /\ a \in ClientState
      <4> HIDE DEF hello
      <4> QED
        BY <1>1, <1>2, AfterIs, AfterTyped
    <3> HIDE DEF a, welcome
    <3>3. client'[c].phase = IF client[c].phase \in Silent THEN client[c].phase ELSE "Ready"
      BY <2>1, <3>1, <3>2, <1>2, AfterIs
    <3> QED
      BY <3>3, <1>1 DEF Welcomed, Served, CanRead, Link, Gone, Silent
  <2>3. CASE m.by \in foreign
    <3>1. HasRead(c, Answer(m)) = After(c, client[c], refuse)
      BY <2>3 DEF HasRead, Answer
    <3>2. c \in Misread(m)
      BY <1>5, <2>3 DEF Misread
    <3>3. c \in excused'
      BY <3>2, <1>5, <2>3 DEF SessionUpdate, Answers
    <3> QED
      BY <3>3
  <2> QED
    BY <2>2, <2>3
<1> QED
  BY <1>4, <1>5

LEMMA WelcomeStep ==
  ASSUME TypeOK, Owned, WelcomeInv, [Next]_vars
  PROVE  WelcomeInv'
<1> SUFFICES ASSUME hostPhase' # "Refused", NEW c \in Conn, c \notin foreign', c \notin excused'
             PROVE  Welcomed(c)'
  BY DEF WelcomeInv
<1>1. foreign' = foreign /\ excused \subseteq excused' /\ (hostPhase = "Refused" => hostPhase' = "Refused")
  BY DEF Next, HostHello, SessionUpdate, PublishRoster, TellLink, TellSelf, Accept, TurnAway, Receiver,
     Receive, LinkEnds, CloseSocket, ClearSocket, Departure, Leaves, threadVars, gameVars,
     boundVars, vars
<1>2. c \in Conn \ foreign /\ Welcomed(c)
  BY <1>1 DEF WelcomeInv
<1>3. CASE HostHello \/ SessionUpdate
  BY <1>2, <1>3, WelcomedHostHello, WelcomedSessionUpdate
<1>4. ASSUME NEW t \in Thread, PublishRoster(t) PROVE Welcomed(c)'
  BY <1>2, <1>4, WelcomedTellLink, WelcomedTellSelf DEF PublishRoster
<1>5. ASSUME NEW d \in Conn, TurnAway(d) PROVE Welcomed(c)'
  <2>1. c # d
    BY <1>5 DEF TurnAway
  <2>2. client'[c] = client[c] /\ at'[c] = at[c] /\ UNCHANGED <<link, slot, open, up, queue>>
    BY <2>1, <1>5, Halves DEF TurnAway, Threads, Talk, gameVars
  <2> QED
    BY <2>2, <1>2, WelcomedStill DEF CanRead
<1>6. ASSUME NEW d \in Conn, Departure(d) PROVE Welcomed(c)'
  BY <1>2, <1>6, WelcomedStill DEF Departure, endVars, CanRead
<1>7. ASSUME NEW d \in Conn, Leaves(d) PROVE Welcomed(c)'
  <2>1. UNCHANGED <<link, at, slot, open, queue>>
    BY <1>7 DEF Leaves, threadVars, gameVars
  <2>2. CASE c = d
    BY <2>2, <1>7, Halves DEF Leaves, NotThere, Talk, Welcomed
  <2>3. CASE c # d
    <3>1. client'[c] = client[c] /\ up'[c] = up[c]
      BY <2>3, <1>7, Halves DEF Leaves, Talk
    <3> QED
      BY <2>1, <3>1, <1>2, WelcomedStill DEF CanRead
  <2> QED
    BY <2>2, <2>3
<1>8. CASE UNCHANGED vars
  BY <1>2, <1>8, WelcomedStill DEF vars, threadVars, gameVars, endVars, CanRead
<1> QED
  BY <1>2, <1>3, <1>4, <1>5, <1>6, <1>7, <1>8, WelcomedAccept, WelcomedReceive,
     WelcomedLinkEnds, WelcomedSocket DEF Next, Receiver

(* When the threads have told all and all is read, every client of the     *)
(* host's build that stays is in and has its link, however late it came    *)
(* and whoever left meanwhile, but for those the code cannot promise it    *)
(* (handle_hello, session_on_hello, recv_loop).                            *)
THEOREM EveryoneWelcome == Spec => []AllWelcome
<1>1. Init => TypeOK /\ Owned /\ WelcomeInv
  <2>1. ASSUME Init PROVE WelcomeInv
    <3> SUFFICES ASSUME NEW c \in Conn, client[c].phase # "Off" PROVE Served(c)
      BY DEF WelcomeInv, Welcomed
    <3>1. c = Resident /\ connected
      BY <2>1 DEF Init, NotThere
    <3>2. 1 \in Slot
      BY TransportBounds DEF Slot
    <3> QED
      BY <2>1, <3>1, <3>2 DEF Init, Served, CanRead, Link, Welcome
  <2> QED
    BY <2>1, InitTyped, OwnedInit
<1>2. ASSUME TypeOK, Owned, WelcomeInv, [Next]_vars PROVE Owned' /\ WelcomeInv'
  BY <1>2, OwnedStep, WelcomeStep
<1>3. ASSUME TypeOK, Owned, WelcomeInv PROVE AllWelcome
  <2> SUFFICES ASSUME AllRead, hostPhase # "Refused", NEW c \in Conn \ (foreign \cup excused),
                      client[c].phase # "Off"
               PROVE  client[c].phase = "Ready" /\ \E s \in LiveSlots : link[s].sock = c
    BY DEF AllWelcome
  <2>1. Served(c)
    BY <1>3 DEF WelcomeInv, Welcomed
  <2>2. ~Asking(c)
    <3>1. up[c] = <<>> /\ queue = <<>>
      BY <2>1 DEF AllRead, Served
    <3> QED
      BY <3>1 DEF Asking, In
  <2>3. slot[c] \in LiveSlots /\ link[slot[c]].sock = c
    BY <1>3, <2>1 DEF Served, Owned, CanRead, Link
  <2> QED
    BY <2>1, <2>2, <2>3 DEF Served
<1> QED
  BY <1>1, <1>2, <1>3, TransportTyped, PTL DEF Spec

-------------------------------------------------------------------------------
(* The life of a run: what is on its way and what is held has its type.    *)

Blob == [run : 0 .. MaxRuns, entered : 0 .. Nodes, live : Data]
Place == [run : 0 .. MaxRuns, node : 0 .. Nodes]
Mail == [type : {"SAVEFILE"}, fresh : BOOLEAN, ready : BOOLEAN, blob : Blob]
        \cup [type : {"HOSTLEFT"}]
        \cup [type : {"ENTERNODE"}, run : 0 .. MaxRuns, node : 0 .. Nodes]
Quit == [key : {"escape", "quit", "none"}, presses : 0 .. MaxQuits - 1]
File == [blob : Blob \cup {NoBlob}, applied : BOOLEAN, presses : 0 .. MaxPresses]
LeaveState == [ready : BOOLEAN, where : Reading, wasInRun : BOOLEAN,
               outPolls : 0 .. ConfirmPolls, announced : BOOLEAN, republish : BOOLEAN]

(* On the host.  It is in some run where a run goes on, and a departure is *)
(* announced by the poll that confirms it.                                 *)
HostTyped ==
  /\ host \in At(HostScreen) /\ (host.at \in {"setup", "map", "node"} => host.run # 0)
  /\ here \in Place /\ runs \in 0 .. MaxRuns /\ disk \in Blob
  /\ save \in [slot : BOOLEAN, published : BOOLEAN, waiting : BOOLEAN]
  /\ leave \in LeaveState /\ (AwaitsDeparture(leave) => leave.outPolls < ConfirmPolls)

ClientTyped ==
  /\ game \in [Client -> At(ClientScreen)]
  /\ file \in [Client -> File]
  /\ leaving \in [Client -> BOOLEAN] /\ linked \in [Client -> BOOLEAN]
  /\ quit \in [Client -> Quit]
  /\ nodeQ \in [Client -> Seq(Place)]
  /\ faults \in 0 .. MaxFaults
  /\ snag \in [Client -> SUBSET Snag]

BetweenTyped ==
  /\ live \in [Peer -> Data]
  /\ wire \in [Client -> Seq(Mail)] /\ \A c \in Client : linked[c] \/ wire[c] = <<>>

LifeInv == HostTyped /\ ClientTyped /\ BetweenTyped

LEMMA LifeKinds ==
  /\ {MaxRuns, Nodes, MaxFaults, ConfirmPolls, MaxPresses, MaxQuits} \subseteq Nat
  /\ ConfirmPolls > 0 /\ MaxPresses > 0 /\ MaxQuits > 0
  /\ Fresh \in Data /\ Host \in Peer /\ Client \subseteq Peer
  BY LifeBounds, LifeData DEF Peer

LEMMA LifeInvTypes == LifeInv => LifeTypeOK
<1> SUFFICES ASSUME LifeInv PROVE LifeTypeOK
  OBVIOUS
<1>1. \A c \in Client : file[c] \in File
  BY DEF LifeInv, ClientTyped
<1>2. \A c \in Client :
        /\ file[c].applied \in BOOLEAN /\ file[c].presses \in 0 .. MaxPresses
        /\ file[c].blob # NoBlob => file[c].blob \in Blob
  BY <1>1 DEF File
<1> QED
  BY <1>2 DEF LifeInv, HostTyped, ClientTyped, BetweenTyped, LifeTypeOK, Place, Blob, LeaveState, Quit

LEMMA LifeInitTyped == LifeInit => LifeInv
<1> SUFFICES ASSUME LifeInit PROVE LifeInv
  OBVIOUS
<1> USE LifeKinds
<1>1. HostTyped
  BY DEF LifeInit, HostTyped, NoRun, NoNode, At, HostScreen, Place, Blob, LeaveState, Reading,
     AwaitsDeparture
<1>2. ClientTyped
  <2>1. NoRun("menu") \in At(ClientScreen)
    BY DEF NoRun, At, ClientScreen
  <2>2. [blob |-> NoBlob, applied |-> FALSE, presses |-> 0] \in File
    BY DEF File
  <2>3. <<>> \in Seq(Place)
    OBVIOUS
  <2>4. Unpressed \in Quit
    BY DEF Unpressed, Quit
  <2> QED
    BY <2>1, <2>2, <2>3, <2>4 DEF LifeInit, ClientTyped
<1>3. BetweenTyped
  <2>1. <<>> \in Seq(Mail)
    OBVIOUS
  <2> QED
    BY <2>1 DEF LifeInit, BetweenTyped
<1> QED
  BY <1>1, <1>2, <1>3 DEF LifeInv

(* What the host sends with its file and its node.                         *)
LEMMA FlushedTyped ==
  ASSUME LifeInv
  PROVE  Flushed \in Blob /\ \A fresh \in BOOLEAN : SaveFile(fresh) \in Mail
<1>1. Flushed \in Blob
  BY LifeKinds DEF Flushed, Blob, LifeInv, HostTyped, BetweenTyped, At
<1> QED
  BY <1>1 DEF SaveFile, IsReady, Mail

LEMMA SentTyped ==
  ASSUME LifeInv, NEW m \in Mail, wire' = Sent(<<m>>), linked' = linked
  PROVE  wire' \in [Client -> Seq(Mail)] /\ \A c \in Client : linked'[c] \/ wire'[c] = <<>>
<1>1. \A c \in Client : wire[c] \in Seq(Mail) /\ wire[c] \o <<m>> \in Seq(Mail)
  <2> TAKE c \in Client
  <2>1. wire[c] \in Seq(Mail) /\ <<m>> \in Seq(Mail)
    BY DEF LifeInv, BetweenTyped
  <2> QED
    BY <2>1, ConcatProperties
<1> QED
  BY <1>1 DEF Sent, LifeInv, BetweenTyped

LEMMA HostStepTyped ==
  ASSUME LifeInv, HostAlone
  PROVE  LifeInv'
<1> USE LifeKinds
<1>1. ASSUME HostTyped', UNCHANGED clientVars, UNCHANGED <<live, wire>> PROVE LifeInv'
  BY <1>1 DEF LifeInv, ClientTyped, BetweenTyped, clientVars
<1>2. CASE PickSlot
  <2> host' \in At(HostScreen) /\ (host'.at \in {"setup", "map", "node"} => host'.run # 0)
    <3>1. disk.run \in 0 .. MaxRuns /\ disk.entered \in 0 .. Nodes
      BY DEF LifeInv, HostTyped, Blob
    <3>2. CASE disk.run = 0
      BY <3>2, <1>2 DEF PickSlot, NoRun, At, HostScreen
    <3>3. CASE disk.run # 0
      BY <3>1, <3>3, <1>2 DEF PickSlot, At, HostScreen
    <3> QED
      BY <3>2, <3>3
  <2>1. HostTyped'
    BY <1>2 DEF PickSlot, LifeInv, HostTyped, AwaitsDeparture
  <2>2. live' \in [Peer -> Data]
    BY <1>2 DEF PickSlot, LifeInv, HostTyped, BetweenTyped, Blob
  <2> QED
    BY <2>1, <2>2, <1>2 DEF PickSlot, LifeInv, ClientTyped, BetweenTyped, clientVars
<1>3. CASE StartRun
  <2>1. HostTyped'
    BY <1>3 DEF StartRun, LifeInv, HostTyped, At, HostScreen
  <2>2. live' \in [Peer -> Data]
    BY <1>3 DEF StartRun, LifeInv, BetweenTyped
  <2>3. faults' \in 0 .. MaxFaults
    BY <1>3 DEF StartRun, LifeInv, ClientTyped
  <2> QED
    BY <2>1, <2>2, <2>3, <1>3 DEF StartRun, LifeInv, ClientTyped, BetweenTyped
<1>4. CASE ReachMap
  <2>1. HostTyped'
    BY <1>4 DEF ReachMap, Moves, LifeInv, HostTyped, At, HostScreen
  <2> QED
    BY <2>1, <1>1, <1>4 DEF ReachMap
<1>5. CASE EndRun
  <2>1. HostTyped'
    BY <1>5 DEF EndRun, LifeInv, HostTyped, NoRun, At, HostScreen, Blob
  <2> QED
    BY <2>1, <1>1, <1>5 DEF EndRun
<1>6. CASE HostQuits
  <2>1. HostTyped'
    BY <1>6 DEF HostQuits, LifeInv, HostTyped, NoRun, At, HostScreen
  <2>2. faults' \in 0 .. MaxFaults
    BY <1>6 DEF HostQuits, LifeInv, ClientTyped
  <2> QED
    BY <2>1, <2>2, <1>6 DEF HostQuits, LifeInv, ClientTyped, BetweenTyped
<1>7. CASE MapTick
  <2>1. leave' \in LeaveState /\ AwaitsDeparture(leave)' = AwaitsDeparture(leave)
        /\ leave'.outPolls = leave.outPolls
    BY <1>7 DEF MapTick, LifeInv, HostTyped, LeaveState, AwaitsDeparture
  <2>2. HostTyped'
    BY <2>1, <1>7 DEF MapTick, LifeInv, HostTyped, Republished
  <2> QED
    BY <2>2, <1>1, <1>7 DEF MapTick
<1>8. CASE Publish
  <2>1. HostTyped'
    BY <1>8, FlushedTyped DEF Publish, LifeInv, HostTyped, AfterPublish, IsReady
  <2>2. wire' \in [Client -> Seq(Mail)] /\ \A c \in Client : linked'[c] \/ wire'[c] = <<>>
    BY <1>8, FlushedTyped, SentTyped DEF Publish, clientVars
  <2> QED
    BY <2>1, <2>2, <1>8 DEF Publish, LifeInv, ClientTyped, BetweenTyped, clientVars
<1>9. CASE HostPoll
  <2> DEFINE seen == IF Here(host.at) = "InRun" THEN SeenInRun(leave) ELSE SeenOut(leave)
             gone == seen.outPolls >= ConfirmPolls /\ AwaitsDeparture(leave)
             left == [seen EXCEPT !.announced = TRUE, !.wasInRun = FALSE, !.republish = TRUE]
  <2>1. seen \in LeaveState
    <3>1. leave \in LeaveState /\ (AwaitsDeparture(leave) => leave.outPolls + 1 \in 0 .. ConfirmPolls)
      BY DEF LifeInv, HostTyped, LeaveState
    <3>4. 0 \in 0 .. ConfirmPolls /\ "InRun" \in Reading
      BY DEF Reading
    <3>2. SeenInRun(leave) \in LeaveState
      BY <3>1, <3>4 DEF LeaveState, SeenInRun
    <3>3. SeenOut(leave) \in LeaveState
      BY <3>1 DEF LeaveState, SeenOut, Reading
    <3> QED
      BY <3>2, <3>3
  <2>2. ~gone => (AwaitsDeparture(seen) => seen.outPolls < ConfirmPolls)
    BY <2>1 DEF LifeInv, HostTyped, LeaveState, SeenInRun, SeenOut, AwaitsDeparture
  <2>3. left \in LeaveState /\ ~AwaitsDeparture(left)
    <3> HIDE DEF seen
    <3> QED
      BY <2>1 DEF LeaveState, AwaitsDeparture
  <2>4. IF gone THEN leave' = left /\ wire' = Sent(<<[type |-> "HOSTLEFT"]>>)
                ELSE leave' = seen /\ wire' = wire
    BY <1>9 DEF HostPoll
  <2> HIDE DEF seen, gone, left
  <2>5. leave' \in LeaveState /\ (AwaitsDeparture(leave') => leave'.outPolls < ConfirmPolls)
    BY <2>1, <2>2, <2>3, <2>4
  <2>6. wire' \in [Client -> Seq(Mail)] /\ \A c \in Client : linked'[c] \/ wire'[c] = <<>>
    <3>1. CASE gone
      <4>1. [type |-> "HOSTLEFT"] \in Mail
        BY DEF Mail
      <4> QED
        BY <3>1, <4>1, <2>4, <1>9, SentTyped DEF HostPoll, clientVars
    <3>2. CASE ~gone
      BY <3>2, <2>4, <1>9 DEF HostPoll, clientVars, LifeInv, BetweenTyped
    <3> QED
      BY <3>1, <3>2
  <2>7. HostTyped'
    BY <2>5, <1>9 DEF HostPoll, LifeInv, HostTyped, AwaitsDeparture
  <2> QED
    BY <2>6, <2>7, <1>9 DEF HostPoll, LifeInv, ClientTyped, BetweenTyped, clientVars
<1>10. CASE HostEntersNode(<<>>)
  <2>0. /\ host \in At(HostScreen) /\ host.at = "map" /\ host.run # 0 /\ host.entered < Nodes
        /\ host' = [host EXCEPT !.at = "node", !.entered = @ + 1]
        /\ here' = [run |-> host.run, node |-> host.entered + 1]
        /\ UNCHANGED <<runs, disk, save, leave>>
    BY <1>10 DEF HostEntersNode, Moves, LifeInv, HostTyped
  <2>8. host.entered + 1 \in 0 .. Nodes /\ host.run \in 0 .. MaxRuns
    BY <2>0 DEF At
  <2>9. host' \in At(HostScreen) /\ host'.run # 0 /\ here' \in Place
    BY <2>0, <2>8 DEF At, HostScreen, Place
  <2>1. HostTyped'
    BY <2>0, <2>9 DEF LifeInv, HostTyped, AwaitsDeparture
  <2>2. EnterNode(here') \in Mail
    BY <2>1 DEF EnterNode, Mail, HostTyped, Place
  <2>3. <<>> \o <<EnterNode(here')>> = <<EnterNode(here')>>
    <3>1. <<EnterNode(here')>> \in Seq(Mail)
      BY <2>2
    <3> QED
      BY <3>1, ConcatEmptySeq
  <2>4. wire' = Sent(<<EnterNode(here')>>)
    BY <2>3, <1>10 DEF HostEntersNode
  <2>5. wire' \in [Client -> Seq(Mail)] /\ \A c \in Client : linked'[c] \/ wire'[c] = <<>>
    BY <2>2, <2>4, <1>10, SentTyped DEF HostEntersNode, clientVars
  <2> QED
    BY <2>1, <2>5, <1>10 DEF HostEntersNode, LifeInv, ClientTyped, BetweenTyped, clientVars
<1>11. CASE HostLeavesNode(Fresh)
  <2>1. HostTyped'
    BY <1>11 DEF HostLeavesNode, Moves, LifeInv, HostTyped, At, HostScreen, Blob
  <2>2. live' \in [Peer -> Data]
    BY <1>11 DEF HostLeavesNode, LifeInv, BetweenTyped
  <2> QED
    BY <2>1, <2>2, <1>11 DEF HostLeavesNode, LifeInv, ClientTyped, BetweenTyped, clientVars
<1> QED
  BY <1>2, <1>3, <1>4, <1>5, <1>6, <1>7, <1>8, <1>9, <1>10, <1>11
     DEF HostAlone, HostGoesOn

LEMMA OneMail ==
  ASSUME NEW m \in Mail
  PROVE  <<m>> \in Seq(Mail)
OBVIOUS

LEMMA MailRead ==
  ASSUME LifeInv, NEW c \in Client, NEW type, Reads(c, type)
  PROVE  /\ Head(wire[c]) \in Mail /\ Head(wire[c]).type = type
         /\ wire' \in [Client -> Seq(Mail)]
         /\ \A d \in Client : linked[d] \/ wire'[d] = <<>>
<1>1. wire[c] \in Seq(Mail) /\ wire[c] # <<>>
  BY DEF Reads, LifeInv, BetweenTyped
<1>2. Head(wire[c]) \in Mail /\ Tail(wire[c]) \in Seq(Mail)
  BY <1>1, HeadTailProperties
<1> QED
  BY <1>1, <1>2 DEF Reads, LifeInv, BetweenTyped

LEMMA ClientStepTyped ==
  ASSUME LifeInv, NEW c \in Client, ClientAlone(c)
  PROVE  LifeInv'
<1> USE LifeKinds
<1>1. ASSUME ClientTyped', BetweenTyped', UNCHANGED hostVars PROVE LifeInv'
  BY <1>1 DEF LifeInv, HostTyped, hostVars, AwaitsDeparture
<1>2. ASSUME UNCHANGED <<live, wire, linked>> PROVE BetweenTyped'
  BY <1>2 DEF LifeInv, BetweenTyped
<1>3. ASSUME Reads(c, "SAVEFILE") \/ Reads(c, "HOSTLEFT") \/ Reads(c, "ENTERNODE"),
             UNCHANGED <<live, linked>>
      PROVE  BetweenTyped'
  BY <1>3, MailRead DEF LifeInv, BetweenTyped
<1>4. ASSUME NEW why \in SUBSET Snag, Snagged(c, why) PROVE snag' \in [Client -> SUBSET Snag]
  BY <1>4 DEF Snagged, LifeInv, ClientTyped
<1>5. file[c] \in File /\ game[c] \in At(ClientScreen) /\ nodeQ[c] \in Seq(Place)
      /\ quit[c] \in Quit
  BY DEF LifeInv, ClientTyped
<1>21. {Unpressed, MenuSeen, GivenUp} \subseteq Quit /\ Wasted(quit[c]) \in Quit
  <2>1. {Unpressed, MenuSeen, GivenUp} \subseteq Quit
    BY DEF Unpressed, MenuSeen, GivenUp, Quit
  <2>2. quit[c].presses + 1 # MaxQuits => [quit[c] EXCEPT !.presses = @ + 1] \in Quit
    BY <1>5 DEF Quit
  <2> QED
    BY <2>1, <2>2 DEF Wasted
<1>6. CASE OnSaveFile(c)
  <2> DEFINE m == Head(wire[c])
             f == IF file[c].applied THEN [file[c] EXCEPT !.applied = FALSE, !.presses = 0]
                  ELSE file[c]
  <2>1. m \in Mail /\ m.type = "SAVEFILE"
    BY <1>6, MailRead DEF OnSaveFile
  <2>2. m.blob \in Blob
    BY <2>1 DEF Mail
  <2>3. f \in File
    <3>1. 0 \in 0 .. MaxPresses
      OBVIOUS
    <3> QED
      BY <1>5, <3>1 DEF File
  <2>4. HeldFile(f, m) \in File
    <3> HIDE DEF f, m
    <3> QED
      BY <2>2, <2>3 DEF HeldFile, File
  <2>5. file' \in [Client -> File]
    <3>1. file' = file \/ file' = [file EXCEPT ![c] = HeldFile(f, m)]
      BY <1>6 DEF OnSaveFile
    <3> HIDE DEF f, m
    <3> QED
      BY <2>4, <3>1 DEF LifeInv, ClientTyped
  <2>7. snag' \in [Client -> SUBSET Snag]
    <3>1. snag' \in {snag, [snag EXCEPT ![c] = @ \ {"unwritten"}]}
      BY <1>6 DEF OnSaveFile
    <3> QED
      BY <3>1 DEF LifeInv, ClientTyped
  <2>6. ClientTyped'
    BY <2>5, <2>7, <1>6 DEF OnSaveFile, LifeInv, ClientTyped
  <2> QED
    BY <2>6, <1>1, <1>3, <1>6 DEF OnSaveFile
<1>7. CASE OnHostLeft(c)
  <2>1. snag' \in [Client -> SUBSET Snag]
    BY <1>4, <1>7 DEF OnHostLeft, Snag
  <2>2. leaving' \in [Client -> BOOLEAN] /\ quit' \in [Client -> Quit]
    BY <1>7, <1>21 DEF OnHostLeft, LifeInv, ClientTyped
  <2>3. ClientTyped'
    BY <2>1, <2>2, <1>7 DEF OnHostLeft, LifeInv, ClientTyped
  <2> QED
    BY <2>3, <1>1, <1>3, <1>7 DEF OnHostLeft
<1>8. CASE OnEnterNode(c)
  <2> DEFINE n == [run |-> Head(wire[c]).run, node |-> Head(wire[c]).node]
  <2>1. Head(wire[c]) \in Mail /\ Head(wire[c]).type = "ENTERNODE"
    BY <1>8, MailRead DEF OnEnterNode
  <2>2. n \in Place
    BY <2>1 DEF Mail, Place
  <2>3. Append(nodeQ[c], n) \in Seq(Place)
    BY <2>2, <1>5, AppendProperties
  <2>4. nodeQ' \in [Client -> Seq(Place)]
    BY <2>3, <1>8 DEF OnEnterNode, LifeInv, ClientTyped
  <2>5. ClientTyped'
    BY <2>4, <1>8 DEF OnEnterNode, LifeInv, ClientTyped
  <2> QED
    BY <2>5, <1>1, <1>3, <1>8 DEF OnEnterNode
<1>9. CASE PressPlay(c)
  <2>1. file' \in [Client -> File]
    <3>1. [file[c] EXCEPT !.presses = @ + 1] \in File
      BY <1>5, <1>9 DEF PressPlay, File
    <3> QED
      BY <3>1, <1>9 DEF PressPlay, LifeInv, ClientTyped
  <2>2. game' \in [Client -> At(ClientScreen)] /\ snag' \in [Client -> SUBSET Snag]
    <3> DEFINE why == IF file[c].presses + 1 = MaxPresses THEN {"gaveUp"} ELSE {}
    <3>1. NoRun("saves") \in At(ClientScreen) /\ why \in SUBSET Snag
      BY DEF NoRun, At, ClientScreen, Snag
    <3>2. \/ game' = [game EXCEPT ![c] = NoRun("saves")] /\ snag' = snag
          \/ game' = game /\ Snagged(c, why)
      BY <1>9 DEF PressPlay
    <3> HIDE DEF why
    <3> QED
      BY <3>1, <3>2, <1>4 DEF LifeInv, ClientTyped
  <2>3. ClientTyped'
    BY <2>1, <2>2, <1>9 DEF PressPlay, LifeInv, ClientTyped
  <2> QED
    BY <2>3, <1>1, <1>2, <1>9 DEF PressPlay
<1>10. CASE AutoSelect(c)
  <2> DEFINE b == file[c].blob
  <2>1. b \in Blob
    BY <1>5, <1>10 DEF AutoSelect, File
  <2>2. game' \in [Client -> At(ClientScreen)] /\ live' \in [Peer -> Data]
    <3>1. (IF b.run = 0 THEN NoRun("house")
           ELSE [at |-> "map", run |-> b.run, entered |-> b.entered]) \in At(ClientScreen)
      BY <2>1 DEF Blob, At, ClientScreen, NoRun
    <3>2. b.live \in Data
      BY <2>1 DEF Blob
    <3> QED
      BY <3>1, <3>2, <1>10 DEF AutoSelect, LifeInv, ClientTyped, BetweenTyped
  <2>3. file' \in [Client -> File]
    <3>1. [blob |-> NoBlob, applied |-> TRUE, presses |-> 0] \in File
      BY DEF File
    <3>2. file' = [file EXCEPT ![c] = [blob |-> NoBlob, applied |-> TRUE, presses |-> 0]]
      BY <1>10 DEF AutoSelect
    <3> QED
      BY <3>1, <3>2 DEF LifeInv, ClientTyped
  <2>4. ClientTyped' /\ BetweenTyped'
    BY <2>2, <2>3, <1>10 DEF AutoSelect, LifeInv, ClientTyped, BetweenTyped
  <2> QED
    BY <2>4, <1>1, <1>10 DEF AutoSelect
<1>11. CASE PressQuit(c)
  <2>1. NoRun("menu") \in At(ClientScreen)
    BY DEF NoRun, At, ClientScreen
  <2>2. game' \in [Client -> At(ClientScreen)] /\ quit' \in [Client -> Quit]
    BY <2>1, <1>21, <1>11 DEF PressQuit, LifeInv, ClientTyped
  <2>3. ClientTyped'
    BY <2>2, <1>11 DEF PressQuit, LifeInv, ClientTyped
  <2> QED
    BY <2>3, <1>1, <1>2, <1>11 DEF PressQuit
<1>22. CASE PressEscape(c)
  <2>1. quit' \in [Client -> Quit]
    BY <1>21, <1>22 DEF PressEscape, LifeInv, ClientTyped
  <2>2. ClientTyped'
    BY <2>1, <1>22 DEF PressEscape, LifeInv, ClientTyped
  <2> QED
    BY <2>2, <1>1, <1>2, <1>22 DEF PressEscape
<1>23. CASE ClosesMenu(c)
  <2>1. quit' \in [Client -> Quit] /\ faults' \in 0 .. MaxFaults
    BY <1>21, <1>23 DEF ClosesMenu, LifeInv, ClientTyped
  <2>2. ClientTyped'
    BY <2>1, <1>23 DEF ClosesMenu, LifeInv, ClientTyped
  <2> QED
    BY <2>2, <1>1, <1>2, <1>23 DEF ClosesMenu
<1>24. CASE CannotWrite(c)
  <2>1. file' \in [Client -> File]
    <3>1. [file[c] EXCEPT !.blob = NoBlob] \in File
      BY <1>5 DEF File
    <3> QED
      BY <3>1, <1>24 DEF CannotWrite, LifeInv, ClientTyped
  <2>2. snag' \in [Client -> SUBSET Snag] /\ faults' \in 0 .. MaxFaults
    BY <1>4, <1>24 DEF CannotWrite, Snag, LifeInv, ClientTyped
  <2>3. ClientTyped'
    BY <2>1, <2>2, <1>24 DEF CannotWrite, LifeInv, ClientTyped
  <2> QED
    BY <2>3, <1>1, <1>2, <1>24 DEF CannotWrite
<1>12. CASE ClientPoll(c)
  <2>1. ClientTyped'
    BY <1>12, <1>21 DEF ClientPoll, LifeInv, ClientTyped
  <2> QED
    BY <2>1, <1>1, <1>2, <1>12 DEF ClientPoll
<1>13. CASE QuitByHand(c)
  <2>3. NoRun("menu") \in At(ClientScreen) /\ {"quit"} \in SUBSET Snag
    BY DEF NoRun, At, ClientScreen, Snag
  <2>1. /\ snag' \in [Client -> SUBSET Snag] /\ faults' \in 0 .. MaxFaults
        /\ game' \in [Client -> At(ClientScreen)]
    BY <1>4, <1>13, <2>3 DEF QuitByHand, LifeInv, ClientTyped
  <2>2. ClientTyped'
    BY <2>1, <1>13 DEF QuitByHand, LifeInv, ClientTyped
  <2> QED
    BY <2>2, <1>1, <1>2, <1>13 DEF QuitByHand
<1>14. CASE RefusesNode(c)
  <2>1. Tail(nodeQ[c]) \in Seq(Place)
    BY <1>5, <1>14, HeadTailProperties DEF RefusesNode
  <2>2. ClientTyped'
    BY <2>1, <1>14 DEF RefusesNode, LifeInv, ClientTyped
  <2> QED
    BY <2>2, <1>1, <1>2, <1>14 DEF RefusesNode
<1>15. CASE FollowsIntoNode(c, Fresh)
  <2>1. Tail(nodeQ[c]) \in Seq(Place) /\ Head(nodeQ[c]) \in Place
    BY <1>5, <1>15, HeadTailProperties DEF FollowsIntoNode
  <2>2. Head(nodeQ[c]).node \in 0 .. Nodes
    BY <2>1 DEF Place
  <2>3. game' \in [Client -> At(ClientScreen)]
    <3>1. [game[c] EXCEPT !.at = "node", !.entered = Head(nodeQ[c]).node] \in At(ClientScreen)
      BY <2>2, <1>5 DEF At, ClientScreen
    <3> QED
      BY <3>1, <1>15 DEF FollowsIntoNode, LifeInv, ClientTyped
  <2>4. snag' \in [Client -> SUBSET Snag]
    BY <1>4, <1>15 DEF FollowsIntoNode, Snag
  <2>5. ClientTyped' /\ BetweenTyped'
    BY <2>1, <2>3, <2>4, <1>15 DEF FollowsIntoNode, LifeInv, ClientTyped, BetweenTyped
  <2> QED
    BY <2>5, <1>1, <1>15 DEF FollowsIntoNode
<1>16. CASE ClientLeavesNode(c, Fresh)
  <2>1. ClientTyped' /\ BetweenTyped'
    BY <1>16 DEF ClientLeavesNode, LifeInv, ClientTyped, BetweenTyped, At, ClientScreen
  <2> QED
    BY <2>1, <1>1, <1>16 DEF ClientLeavesNode
<1>17. CASE LosesLink(c)
  <2>1. ClientTyped'
    BY <1>17 DEF LosesLink, LifeInv, ClientTyped
  <2>2. BetweenTyped'
    <3>1. <<>> \in Seq(Mail)
      OBVIOUS
    <3> QED
      BY <3>1, <1>17 DEF LosesLink, LifeInv, ClientTyped, BetweenTyped
  <2> QED
    BY <2>1, <2>2, <1>1, <1>17 DEF LosesLink
<1>18. CASE Restarts(c)
  <2>1. <<>> \in Seq(Mail) /\ <<>> \in Seq(Place)
    OBVIOUS
  <2>2. [blob |-> NoBlob, applied |-> FALSE, presses |-> 0] \in File
    BY DEF File
  <2>3. NoRun("menu") \in At(ClientScreen)
    BY DEF NoRun, At, ClientScreen
  <2>4. ClientTyped'
    BY <2>1, <2>2, <2>3, <1>18, <1>21 DEF Restarts, LifeInv, ClientTyped
  <2>5. BetweenTyped'
    BY <2>1, <1>18 DEF Restarts, LifeInv, ClientTyped, BetweenTyped
  <2> QED
    BY <2>4, <2>5, <1>1, <1>18 DEF Restarts
<1>19. ASSUME ~Joins(c, <<>>) PROVE LifeInv'
  BY <1>6, <1>7, <1>8, <1>9, <1>10, <1>11, <1>12, <1>13, <1>14, <1>15, <1>16, <1>17, <1>18,
     <1>19, <1>22, <1>23, <1>24 DEF ClientAlone, ClientReads, ClientScreens, ClientNodes
<1>20. CASE Joins(c, <<>>)
  <2> DEFINE catchup == save.published /\ save.slot
             copy == IF catchup THEN <<SaveFile(FALSE)>> ELSE <<>>
             node == IF here = NoNode THEN <<>> ELSE <<EnterNode(here)>>
  <2>1. copy \in Seq(Mail) /\ node \in Seq(Mail)
    <3>1. SaveFile(FALSE) \in Mail
      BY FlushedTyped
    <3>2. EnterNode(here) \in Mail
      BY DEF EnterNode, Mail, LifeInv, HostTyped, Place
    <3>3. <<SaveFile(FALSE)>> \in Seq(Mail)
      BY <3>1, OneMail
    <3>4. <<EnterNode(here)>> \in Seq(Mail)
      BY <3>2, OneMail
    <3>5. <<>> \in Seq(Mail)
      OBVIOUS
    <3> QED
      BY <3>3, <3>4, <3>5
  <2>2. copy \o <<>> \o node \in Seq(Mail) /\ \A d \in Client : wire[d] \o <<>> = wire[d]
    <3> HIDE DEF copy, node
    <3>1. copy \o <<>> = copy /\ copy \o node \in Seq(Mail)
      BY <2>1, ConcatEmptySeq, ConcatProperties
    <3>2. \A d \in Client : wire[d] \in Seq(Mail)
      BY DEF LifeInv, BetweenTyped
    <3> QED
      BY <3>1, <3>2, ConcatEmptySeq
  <2>3. wire' = [d \in Client |-> IF d = c THEN copy \o <<>> \o node
                                  ELSE IF linked[d] THEN wire[d] \o <<>> ELSE wire[d]]
    BY <1>20 DEF Joins
  <2> HIDE DEF copy, node
  <2>4. BetweenTyped'
    BY <2>2, <2>3, <1>20 DEF Joins, LifeInv, ClientTyped, BetweenTyped
  <2>5. [file[c] EXCEPT !.blob = NoBlob] \in File /\ <<>> \in Seq(Place)
    BY <1>5 DEF File
  <2>6. snag' \in [Client -> SUBSET Snag]
    <3>1. JoinSnags(c) \subseteq Snag
      BY DEF JoinSnags, Snag
    <3> QED
      BY <3>1, <1>4, <1>20 DEF Joins
  <2>7. ClientTyped'
    BY <2>5, <2>6, <1>20, <1>21 DEF Joins, LifeInv, ClientTyped
  <2>8. HostTyped'
    <3>1. leave' \in LeaveState /\ (AwaitsDeparture(leave') => leave'.outPolls < ConfirmPolls)
      <4>1. CASE leave.ready
        BY <4>1, <1>20 DEF Joins, Readied, LifeInv, HostTyped
      <4>2. CASE ~leave.ready
        <5>1. "Unknown" \in Reading /\ 0 \in 0 .. ConfirmPolls
          BY DEF Reading
        <5> QED
          BY <4>2, <5>1, <1>20 DEF Joins, Readied, LifeInv, HostTyped, LeaveState, AwaitsDeparture
      <4> QED
        BY <4>1, <4>2
    <3>2. disk' \in Blob /\ save' \in [slot : BOOLEAN, published : BOOLEAN, waiting : BOOLEAN]
      BY FlushedTyped, <1>20 DEF Joins, AfterPublish, LifeInv, HostTyped, IsReady
    <3> QED
      BY <3>1, <3>2, <1>20 DEF Joins, LifeInv, HostTyped, AwaitsDeparture
  <2> QED
    BY <2>4, <2>7, <2>8 DEF LifeInv
<1> QED
  BY <1>19, <1>20

(* The host's files, places and departures and what a client holds of them *)
(* have their types, through losses, restarts and rejoins; and a departure *)
(* is announced by the very poll that confirms it (savefile.cpp,           *)
(* leave_pump).                                                            *)
THEOREM LifeTyped == LifeSpec => []LifeTypeOK
<1>1. ASSUME LifeInv, [LifeNext]_lifeVars PROVE LifeInv'
  <2>1. CASE UNCHANGED lifeVars
    BY <1>1, <2>1 DEF lifeVars, hostVars, clientVars, LifeInv, HostTyped, ClientTyped,
       BetweenTyped, AwaitsDeparture
  <2> QED
    BY <1>1, <2>1, HostStepTyped, ClientStepTyped DEF LifeNext
<1> QED
  BY <1>1, LifeInitTyped, LifeInvTypes, PTL DEF LifeSpec

-------------------------------------------------------------------------------
(* Nobody is taken home.                                                   *)

Excepted(c) == "noCheckpoint" \in snag[c]

(* A file that says it is a run's and is a house's.                        *)
HouseFile(m) == m.type = "SAVEFILE" /\ m.ready /\ m.blob.run = 0
Clean(ms) == \A i \in DOMAIN ms : ~HouseFile(ms[i])

(* The next file to be published would be one: the host prepares a run, or *)
(* was in one when it last looked, and has no checkpoint of it.            *)
Unsaved ==
  /\ save.slot /\ ~save.published /\ Flushed.run = 0
  /\ "InRun" \in {leave.where, Here(host.at)}

HomeInv ==
  /\ \A c \in Client : linked[c] => leave.ready
  /\ \A c \in Client : linked[c] /\ Unsaved => Excepted(c)
  /\ \A c \in Client : ~Excepted(c) => Clean(wire[c])
  /\ \A c \in Client : file[c].blob # NoBlob /\ file[c].blob.run = 0 => Excepted(c)
  /\ NeverHome

LEMMA CleanOne ==
  ASSUME NEW m \in Mail, ~HouseFile(m)
  PROVE  Clean(<<m>>)
BY DEF Clean

LEMMA CleanBoth ==
  ASSUME NEW s \in Seq(Mail), NEW t \in Seq(Mail), Clean(s), Clean(t)
  PROVE  Clean(s \o t)
<1> DEFINE m == Len(s)
           n == Len(t)
           u == s \o t
<1>1. /\ m \in Nat /\ n \in Nat /\ DOMAIN s = 1 .. m /\ DOMAIN t = 1 .. n /\ DOMAIN u = 1 .. (m + n)
      /\ \A i \in 1 .. (m + n) : u[i] = IF i <= m THEN s[i] ELSE t[i - m]
  <2>1. m \in Nat /\ n \in Nat /\ DOMAIN s = 1 .. m /\ DOMAIN t = 1 .. n
    BY LenProperties
  <2>2. /\ u \in Seq(Mail) /\ Len(u) = m + n
        /\ \A i \in 1 .. (m + n) : u[i] = IF i <= m THEN s[i] ELSE t[i - m]
    BY ConcatProperties
  <2>3. DOMAIN u = 1 .. (m + n)
    BY <2>2, LenProperties
  <2> QED
    BY <2>1, <2>2, <2>3
<1> HIDE DEF m, n, u
<1>2. ASSUME NEW i \in DOMAIN u PROVE ~HouseFile(u[i])
  <2>1. CASE i <= m
    <3>1. i \in DOMAIN s /\ u[i] = s[i]
      BY <1>1, <2>1
    <3> QED
      BY <3>1 DEF Clean
  <2>2. CASE ~ (i <= m)
    <3>1. i - m \in DOMAIN t /\ u[i] = t[i - m]
      BY <1>1, <2>2
    <3> QED
      BY <3>1 DEF Clean
  <2> QED
    BY <2>1, <2>2
<1> QED
  BY <1>2 DEF Clean, u

LEMMA CleanTail ==
  ASSUME NEW s \in Seq(Mail), s # <<>>, Clean(s)
  PROVE  ~HouseFile(Head(s)) /\ Clean(Tail(s))
<1> DEFINE n == Len(s)
           u == Tail(s)
<1>1. /\ n \in Nat /\ n # 0 /\ DOMAIN s = 1 .. n /\ Head(s) = s[1]
      /\ DOMAIN u = 1 .. (n - 1) /\ \A i \in 1 .. (n - 1) : u[i] = s[i + 1]
  <2>1. n \in Nat /\ n # 0 /\ DOMAIN s = 1 .. n
    BY LenProperties, EmptySeq
  <2>2. /\ u \in Seq(Mail) /\ Len(u) = n - 1 /\ Head(s) = s[1]
        /\ \A i \in 1 .. Len(u) : u[i] = s[i + 1]
    BY HeadTailProperties
  <2>3. DOMAIN u = 1 .. (n - 1)
    BY <2>2, LenProperties
  <2> QED
    BY <2>1, <2>2, <2>3
<1> HIDE DEF n, u
<1>2. ASSUME NEW i \in DOMAIN u PROVE ~HouseFile(u[i])
  <2>1. i + 1 \in DOMAIN s /\ u[i] = s[i + 1]
    BY <1>1
  <2> QED
    BY <2>1 DEF Clean
<1>3. 1 \in DOMAIN s
  BY <1>1
<1> QED
  BY <1>1, <1>2, <1>3 DEF Clean, u

LEMMA SentClean ==
  ASSUME LifeInv, HomeInv, NEW m \in Mail, wire' = Sent(<<m>>), NEW c \in Client,
         ~Excepted(c), linked[c] => ~HouseFile(m)
  PROVE  Clean(wire'[c])
<1>1. wire[c] \in Seq(Mail) /\ <<m>> \in Seq(Mail) /\ Clean(wire[c])
  BY OneMail DEF LifeInv, BetweenTyped, HomeInv
<1>2. CASE linked[c]
  <2>1. Clean(wire[c] \o <<m>>)
    BY <1>1, <1>2, CleanOne, CleanBoth
  <2> QED
    BY <2>1, <1>2 DEF Sent
<1>3. CASE ~linked[c]
  BY <1>1, <1>3 DEF Sent
<1> QED
  BY <1>2, <1>3

(* A step of the host, by what it does to the file that is due.            *)
LEMMA HomeHost ==
  ASSUME LifeInv, HomeInv, UNCHANGED <<game, file, linked, snag>>,
         leave'.ready = leave.ready,
         \A c \in Client : linked[c] /\ Unsaved' => Unsaved,
         \A c \in Client : ~Excepted(c) => Clean(wire'[c])
  PROVE  HomeInv'
<1>1. \A c \in Client : Excepted(c)' = Excepted(c)
  BY DEF Excepted
<1>2. NeverHome'
  BY DEF NeverHome, HomeInv
<1> QED
  BY <1>1, <1>2 DEF HomeInv

(* Whoever moves on has published what was due, if anyone is linked.       *)
LEMMA MovesSaved ==
  ASSUME HomeInv, NEW screens, Moves(screens), NEW c \in Client, linked[c]
  PROVE  /\ save.slot => save.published
         /\ leave.where = Here(host.at) /\ host.at \in screens
BY DEF HomeInv, Moves, Settled, Linked

LEMMA HomeHostStep ==
  ASSUME LifeInv, HomeInv, HostAlone
  PROVE  HomeInv'
<1>1. ASSUME UNCHANGED wire PROVE \A c \in Client : ~Excepted(c) => Clean(wire'[c])
  BY <1>1 DEF HomeInv
<1>2. CASE PickSlot
  <2>1. ASSUME NEW c \in Client, linked[c] PROVE ~Unsaved'
    <3>1. leave.where = "OutOfRun"
      BY <2>1, <1>2, MovesSaved DEF PickSlot, Here, Out
    <3>2. CASE disk.run = 0
      BY <3>1, <3>2, <1>2 DEF PickSlot, Unsaved, NoRun, Here, Out
    <3>3. CASE disk.run # 0
      BY <3>3, <1>2 DEF PickSlot, Unsaved, Flushed
    <3> QED
      BY <3>2, <3>3
  <2> QED
    BY <2>1, <1>1, <1>2, HomeHost DEF PickSlot, clientVars
<1>3. ASSUME NEW screens, Moves(screens), UNCHANGED <<save, wire, leave, game, file, linked, snag>>
      PROVE  HomeInv'
  <2>1. ASSUME NEW c \in Client, linked[c] PROVE ~Unsaved'
    BY <2>1, <1>3, MovesSaved DEF Unsaved
  <2> QED
    BY <2>1, <1>1, <1>3, HomeHost
<1>4. CASE StartRun \/ ReachMap \/ EndRun \/ HostQuits \/ HostLeavesNode(Fresh)
  BY <1>3, <1>4 DEF StartRun, ReachMap, EndRun, HostQuits, HostLeavesNode, clientVars
<1>5. CASE MapTick
  <2>1. ~Unsaved'
    BY <1>5 DEF MapTick, Unsaved, Flushed, LifeInv, HostTyped
  <2>2. leave'.ready = leave.ready
    BY <1>5 DEF MapTick, LifeInv, HostTyped, LeaveState
  <2> QED
    BY <2>1, <2>2, <1>1, <1>5, HomeHost DEF MapTick, clientVars
<1>6. CASE Publish
  <2>1. ~Unsaved'
    BY <1>6 DEF Publish, Unsaved, AfterPublish, LifeInv, HostTyped
  <2>2. ASSUME NEW c \in Client, ~Excepted(c) PROVE Clean(wire'[c])
    <3>1. linked[c] => ~HouseFile(SaveFile(TRUE))
      BY <2>2, <1>6 DEF HomeInv, HouseFile, SaveFile, IsReady, Unsaved, Publish
    <3> QED
      BY <3>1, <2>2, <1>6, SentClean, FlushedTyped DEF Publish
  <2> QED
    BY <2>1, <2>2, <1>6, HomeHost DEF Publish, clientVars
<1>7. CASE HostPoll
  <2> DEFINE seen == IF Here(host.at) = "InRun" THEN SeenInRun(leave) ELSE SeenOut(leave)
             gone == seen.outPolls >= ConfirmPolls /\ AwaitsDeparture(leave)
             left == [seen EXCEPT !.announced = TRUE, !.wasInRun = FALSE, !.republish = TRUE]
             bye == [type |-> "HOSTLEFT"]
  <2>1. seen.where = Here(host.at) /\ seen.ready = leave.ready /\ DOMAIN seen = DOMAIN leave
    BY DEF SeenInRun, SeenOut, Here, LifeInv, HostTyped, LeaveState
  <2>2. left.where = seen.where /\ left.ready = seen.ready
    <3> HIDE DEF seen
    <3> QED
      BY <2>1 DEF LifeInv, HostTyped, LeaveState
  <2>3. leave' \in {left, seen} /\ (wire' = wire \/ wire' = Sent(<<bye>>))
    BY <1>7 DEF HostPoll
  <2> HIDE DEF seen, gone, left
  <2>4. leave'.where = Here(host.at) /\ leave'.ready = leave.ready
    BY <2>1, <2>2, <2>3
  <2>5. Unsaved' => Unsaved
    BY <2>4, <1>7 DEF HostPoll, Unsaved, Flushed
  <2>6. bye \in Mail /\ ~HouseFile(bye)
    BY DEF Mail, HouseFile
  <2>7. \A c \in Client : ~Excepted(c) => Clean(wire'[c])
    BY <2>3, <2>6, <1>1, SentClean
  <2> QED
    BY <2>4, <2>5, <2>7, <1>7, HomeHost DEF HostPoll, clientVars
<1>8. CASE HostEntersNode(<<>>)
  <2>1. ASSUME NEW c \in Client, linked[c] PROVE ~Unsaved'
    BY <2>1, <1>8, MovesSaved DEF HostEntersNode, Unsaved
  <2>2. EnterNode(here') \in Mail /\ ~HouseFile(EnterNode(here'))
    <3>1. here' \in Place
      BY <1>8, HostStepTyped DEF HostAlone, LifeInv, HostTyped
    <3> QED
      BY <3>1 DEF EnterNode, Mail, Place, HouseFile
  <2>3. wire' = Sent(<<EnterNode(here')>>)
    <3>1. <<>> \o <<EnterNode(here')>> = <<EnterNode(here')>>
      BY <2>2, OneMail, ConcatEmptySeq
    <3> QED
      BY <3>1, <1>8 DEF HostEntersNode
  <2>4. \A c \in Client : ~Excepted(c) => Clean(wire'[c])
    BY <2>2, <2>3, SentClean
  <2> QED
    BY <2>1, <2>4, <1>8, HomeHost DEF HostEntersNode, clientVars
<1> QED
  BY <1>2, <1>4, <1>5, <1>6, <1>7, <1>8 DEF HostAlone, HostGoesOn

(* A step of client c, by what it does to that client.                     *)
LEMMA HomeClient ==
  ASSUME LifeInv, HomeInv, NEW c \in Client, UNCHANGED hostVars,
         \A d \in Client : d # c =>
           UNCHANGED <<game[d], file[d], linked[d], snag[d], wire[d]>>,
         linked'[c] => linked[c] /\ (Excepted(c) => Excepted(c)'),
         Excepted(c)' \/
           /\ Clean(wire'[c])
           /\ file'[c].blob = NoBlob \/ file'[c].blob.run # 0
           /\ game'[c].at # "house"
  PROVE  HomeInv'
<1>1. \A d \in Client : d # c => Excepted(d)' = Excepted(d)
  BY DEF Excepted
<1>2. Unsaved' = Unsaved
  BY DEF Unsaved, Flushed, hostVars
<1>3. leave' = leave
  BY DEF hostVars
<1>4. NeverHome'
  BY <1>1 DEF HomeInv, NeverHome, Excepted
<1>5. \A d \in Client : linked'[d] /\ Unsaved' => Excepted(d)'
  BY <1>1, <1>2 DEF HomeInv
<1>6. \A d \in Client : ~Excepted(d)' => Clean(wire'[d])
  BY <1>1 DEF HomeInv
<1>7. \A d \in Client : file'[d].blob # NoBlob /\ file'[d].blob.run = 0 => Excepted(d)'
  BY <1>1 DEF HomeInv
<1> QED
  BY <1>3, <1>4, <1>5, <1>6, <1>7 DEF HomeInv

LEMMA HomeClientStep ==
  ASSUME LifeInv, HomeInv, NEW c \in Client, ClientAlone(c)
  PROVE  HomeInv'
<1> DEFINE Others == \A d \in Client : d # c =>
             UNCHANGED <<game[d], file[d], linked[d], snag[d], wire[d]>>
<1>1. /\ game \in [Client -> At(ClientScreen)] /\ file \in [Client -> File]
      /\ linked \in [Client -> BOOLEAN] /\ snag \in [Client -> SUBSET Snag]
      /\ wire \in [Client -> Seq(Mail)] /\ wire[c] \in Seq(Mail)
      /\ file[c] \in File /\ game[c] \in At(ClientScreen)
  BY DEF LifeInv, ClientTyped, BetweenTyped
<1>2. Excepted(c) \/
        /\ Clean(wire[c])
        /\ file[c].blob = NoBlob \/ file[c].blob.run # 0
        /\ game[c].at # "house"
  BY DEF HomeInv, NeverHome, Excepted
<1>3. ASSUME UNCHANGED snag \/ (\E why : Snagged(c, why))
      PROVE  /\ Excepted(c) => Excepted(c)'
             /\ \A d \in Client : d # c => snag'[d] = snag[d]
  BY <1>1, <1>3 DEF Snagged, Excepted
<1>4. ASSUME NEW type, Reads(c, type)
      PROVE  /\ Head(wire[c]) \in Mail
             /\ Clean(wire[c]) => Clean(wire'[c]) /\ ~HouseFile(Head(wire[c]))
             /\ \A d \in Client : d # c => wire'[d] = wire[d]
  <2>1. wire[c] # <<>> /\ wire' = [wire EXCEPT ![c] = Tail(wire[c])]
    BY <1>4, <1>1 DEF Reads
  <2> QED
    BY <2>1, <1>1, CleanTail, HeadTailProperties
<1>5. CASE OnSaveFile(c)
  <2> DEFINE m == Head(wire[c])
             f == IF file[c].applied THEN [file[c] EXCEPT !.applied = FALSE, !.presses = 0]
                  ELSE file[c]
  <2>1. /\ m \in Mail /\ m.type = "SAVEFILE"
        /\ Clean(wire[c]) => Clean(wire'[c]) /\ ~HouseFile(m)
        /\ \A d \in Client : d # c => wire'[d] = wire[d]
        /\ UNCHANGED <<hostVars, game, linked>>
        /\ snag' \in {snag, [snag EXCEPT ![c] = @ \ {"unwritten"}]}
        /\ file' = file \/ file' = [file EXCEPT ![c] = HeldFile(f, m)]
    BY <1>4, <1>5 DEF OnSaveFile, Reads
  <2>2. f.blob = file[c].blob /\ f \in File
    <3>1. 0 \in 0 .. MaxPresses
      BY LifeKinds
    <3> QED
      BY <1>1, <3>1 DEF File
  <2> HIDE DEF f, m
  <2>3. HeldFile(f, m).blob = IF m.ready THEN m.blob ELSE file[c].blob
    BY <2>2 DEF HeldFile, File
  <2>4. Clean(wire[c]) /\ (file[c].blob = NoBlob \/ file[c].blob.run # 0)
          => file'[c].blob = NoBlob \/ file'[c].blob.run # 0
    BY <2>1, <2>3, <1>1 DEF HouseFile
  <2>5. \A d \in Client : d # c => file'[d] = file[d]
    BY <2>1, <1>1
  <2>6. Excepted(c)' = Excepted(c) /\ \A d \in Client : d # c => snag'[d] = snag[d]
    BY <2>1, <1>1 DEF Excepted
  <2> QED
    BY <2>1, <2>4, <2>5, <2>6, <1>2, HomeClient
<1>6. CASE OnHostLeft(c)
  <2>1. UNCHANGED <<hostVars, game, file, linked>> /\ Reads(c, "HOSTLEFT") /\ \E why : Snagged(c, why)
    BY <1>6 DEF OnHostLeft
  <2> QED
    BY <2>1, <1>2, <1>3, <1>4, HomeClient
<1>7. CASE OnEnterNode(c)
  <2>1. UNCHANGED <<hostVars, game, file, linked, snag>> /\ Reads(c, "ENTERNODE")
    BY <1>7 DEF OnEnterNode
  <2> QED
    BY <2>1, <1>2, <1>3, <1>4, HomeClient
<1>8. CASE PressPlay(c)
  <2>1. UNCHANGED <<hostVars, linked, wire>> /\ (UNCHANGED snag \/ \E why : Snagged(c, why))
    BY <1>8 DEF PressPlay
  <2>2. file' = [file EXCEPT ![c].presses = @ + 1]
        /\ (game' = game \/ game' = [game EXCEPT ![c] = NoRun("saves")])
    BY <1>8 DEF PressPlay
  <2>3. file'[c].blob = file[c].blob /\ game'[c].at \in {"saves", game[c].at}
    BY <2>2, <1>1 DEF File, NoRun
  <2>4. \A d \in Client : d # c => file'[d] = file[d] /\ game'[d] = game[d]
    BY <2>2, <1>1
  <2> QED
    BY <2>1, <2>3, <2>4, <1>2, <1>3, HomeClient
<1>9. CASE AutoSelect(c)
  <2> DEFINE b == file[c].blob
  <2>1. /\ UNCHANGED <<hostVars, linked, wire, snag>>
        /\ b # NoBlob
        /\ game' = [game EXCEPT ![c] =
                      IF b.run = 0 THEN NoRun("house")
                      ELSE [at |-> "map", run |-> b.run, entered |-> b.entered]]
        /\ file' = [file EXCEPT ![c] = [blob |-> NoBlob, applied |-> TRUE, presses |-> 0]]
    BY <1>9 DEF AutoSelect
  <2>2. file'[c].blob = NoBlob /\ (b.run # 0 => game'[c].at # "house")
    BY <2>1, <1>1 DEF File
  <2>3. \A d \in Client : d # c => file'[d] = file[d] /\ game'[d] = game[d]
    BY <2>1, <1>1
  <2> QED
    BY <2>1, <2>2, <2>3, <1>2, <1>3, HomeClient
<1>10. CASE PressQuit(c) \/ QuitByHand(c)
  <2>1. /\ UNCHANGED <<hostVars, file, linked, wire>> /\ (UNCHANGED snag \/ \E why : Snagged(c, why))
        /\ game' \in {game, [game EXCEPT ![c] = NoRun("menu")]}
    BY <1>10 DEF PressQuit, QuitByHand
  <2>2. game'[c].at \in {"menu", game[c].at} /\ \A d \in Client : d # c => game'[d] = game[d]
    BY <2>1, <1>1 DEF NoRun
  <2> QED
    BY <2>1, <2>2, <1>2, <1>3, HomeClient
<1>16. CASE CannotWrite(c)
  <2>1. /\ UNCHANGED <<hostVars, game, linked, wire>> /\ \E why : Snagged(c, why)
        /\ file' = [file EXCEPT ![c].blob = NoBlob]
    BY <1>16 DEF CannotWrite
  <2>2. file'[c].blob = NoBlob /\ \A d \in Client : d # c => file'[d] = file[d]
    BY <2>1, <1>1 DEF File
  <2> QED
    BY <2>1, <2>2, <1>2, <1>3, HomeClient
<1>11. CASE ClientPoll(c) \/ RefusesNode(c) \/ PressEscape(c) \/ ClosesMenu(c)
  <2>1. UNCHANGED <<hostVars, game, file, linked, wire, snag>>
    BY <1>11 DEF ClientPoll, RefusesNode, PressEscape, ClosesMenu
  <2> QED
    BY <2>1, <1>2, <1>3, HomeClient
<1>12. CASE FollowsIntoNode(c, Fresh) \/ ClientLeavesNode(c, Fresh)
  <2>1. /\ UNCHANGED <<hostVars, file, linked, wire>> /\ (UNCHANGED snag \/ \E why : Snagged(c, why))
        /\ game'[c].at \in {"node", "map"} /\ \A d \in Client : d # c => game'[d] = game[d]
    BY <1>12, <1>1 DEF FollowsIntoNode, ClientLeavesNode, At
  <2> QED
    BY <2>1, <1>2, <1>3, HomeClient
<1>13. CASE LosesLink(c)
  <2>1. /\ UNCHANGED <<hostVars, game, file, snag>> /\ ~linked'[c] /\ wire'[c] = <<>>
        /\ \A d \in Client : d # c => wire'[d] = wire[d] /\ linked'[d] = linked[d]
    BY <1>13, <1>1 DEF LosesLink
  <2>2. Clean(<<>>)
    BY DEF Clean
  <2> QED
    BY <2>1, <2>2, <1>2, <1>3, HomeClient
<1>14. CASE Restarts(c)
  <2>1. /\ UNCHANGED hostVars /\ ~linked'[c] /\ wire'[c] = <<>>
        /\ file'[c].blob = NoBlob /\ game'[c].at # "house"
        /\ Others
    BY <1>14, <1>1 DEF Restarts, NoRun
  <2>2. Clean(<<>>)
    BY DEF Clean
  <2> HIDE DEF Others
  <2>3. Others
    BY <2>1
  <2> QED
    BY <2>1, <2>2, <2>3, HomeClient DEF Others
<1>15. CASE Joins(c, <<>>)
  <2> DEFINE catchup == save.published /\ save.slot
             copy == IF catchup THEN <<SaveFile(FALSE)>> ELSE <<>>
             node == IF here = NoNode THEN <<>> ELSE <<EnterNode(here)>>
  <2>1. /\ UNCHANGED <<game, host>> /\ ~linked[c] /\ linked' = [linked EXCEPT ![c] = TRUE]
        /\ leave' = Readied /\ file' = [file EXCEPT ![c].blob = NoBlob]
        /\ disk' = (IF catchup THEN Flushed ELSE disk) /\ save' = (IF catchup THEN AfterPublish ELSE save)
        /\ wire' = [d \in Client |-> IF d = c THEN copy \o <<>> \o node
                                     ELSE IF linked[d] THEN wire[d] \o <<>> ELSE wire[d]]
        /\ Snagged(c, JoinSnags(c)) /\ UNCHANGED live
    BY <1>15 DEF Joins
  <2>2. /\ leave'.ready /\ (leave.ready => leave' = leave)
        /\ leave'.where = "InRun" => leave.where = "InRun" /\ leave' = leave
    BY <2>1 DEF Readied, LifeInv, HostTyped, LeaveState
  <2>3. save'.slot = save.slot /\ save'.published = save.published
    BY <2>1 DEF AfterPublish, LifeInv, HostTyped
  <2>4. Unsaved' => "InRun" \in {leave.where, Here(host.at)} /\ Flushed.run = 0
    <3> SUFFICES ASSUME Unsaved' PROVE "InRun" \in {leave.where, Here(host.at)} /\ Flushed.run = 0
      OBVIOUS
    <3>1. ~catchup /\ disk' = disk
      BY <2>1, <2>3 DEF Unsaved
    <3> QED
      BY <3>1, <2>1, <2>2 DEF Unsaved, Flushed
  <2>5. Unsaved' /\ leave.ready => Unsaved
    BY <2>1, <2>2, <2>3, <2>4 DEF Unsaved
  <2>6. "InRun" \in {leave.where, Here(host.at)} /\ Flushed.run = 0 => Excepted(c)'
    BY <2>1, <1>1 DEF Snagged, JoinSnags, Excepted
  <2>7. /\ Excepted(c) => Excepted(c)'
        /\ \A d \in Client : d # c => Excepted(d)' = Excepted(d)
    BY <2>1, <1>1 DEF Snagged, Excepted
  <2>8. /\ \A d \in Client : d # c => wire'[d] = wire[d] /\ file'[d] = file[d] /\ linked'[d] = linked[d]
        /\ file'[c].blob = NoBlob
    <3>1. \A d \in Client : wire[d] \o <<>> = wire[d]
      BY <1>1, ConcatEmptySeq
    <3> QED
      BY <3>1, <2>1, <1>1 DEF File
  <2>9. Excepted(c)' \/ Clean(wire'[c])
    <3>1. copy \in Seq(Mail) /\ (~Excepted(c)' => Clean(copy))
      <4>1. SaveFile(FALSE) \in Mail
        BY FlushedTyped
      <4>2. HouseFile(SaveFile(FALSE)) => Excepted(c)'
        BY <2>6 DEF HouseFile, SaveFile, IsReady
      <4>3. <<>> \in Seq(Mail) /\ Clean(<<>>)
        BY DEF Clean
      <4>4. <<SaveFile(FALSE)>> \in Seq(Mail)
        BY <4>1, OneMail
      <4>5. ~Excepted(c)' => Clean(<<SaveFile(FALSE)>>)
        BY <4>1, <4>2, CleanOne
      <4> QED
        BY <4>3, <4>4, <4>5
    <3>2. node \in Seq(Mail) /\ Clean(node)
      <4>1. EnterNode(here) \in Mail /\ ~HouseFile(EnterNode(here))
        BY DEF EnterNode, Mail, LifeInv, HostTyped, Place, HouseFile
      <4>2. <<>> \in Seq(Mail) /\ Clean(<<>>)
        BY DEF Clean
      <4>3. <<EnterNode(here)>> \in Seq(Mail)
        BY <4>1, OneMail
      <4>4. Clean(<<EnterNode(here)>>)
        BY <4>1, CleanOne
      <4> QED
        BY <4>2, <4>3, <4>4
    <3> HIDE DEF copy, node
    <3>3. copy \o <<>> = copy
      BY <3>1, ConcatEmptySeq
    <3>4. ~Excepted(c)' => Clean(copy \o node)
      BY <3>1, <3>2, CleanBoth
    <3> QED
      BY <3>3, <3>4, <2>1
  <2> HIDE DEF catchup, copy, node
  <2>10. \A d \in Client : linked'[d] /\ Unsaved' => Excepted(d)'
    <3> SUFFICES ASSUME NEW d \in Client, linked'[d], Unsaved' PROVE Excepted(d)'
      OBVIOUS
    <3>1. CASE d = c
      BY <3>1, <2>4, <2>6
    <3>2. CASE d # c
      BY <3>2, <2>5, <2>7, <2>8 DEF HomeInv
    <3> QED
      BY <3>1, <3>2
  <2>11. NeverHome'
    <3>1. \A d \in Client : game[d].at = "house" => Excepted(d)
      BY DEF HomeInv, NeverHome, Excepted
    <3>2. \A d \in Client : game'[d].at = "house" => Excepted(d)'
      BY <3>1, <2>1, <2>7
    <3> QED
      BY <3>2 DEF NeverHome, Excepted
  <2>12. \A d \in Client : ~Excepted(d)' => Clean(wire'[d])
    BY <2>7, <2>8, <2>9 DEF HomeInv
  <2>13. \A d \in Client : file'[d].blob # NoBlob /\ file'[d].blob.run = 0 => Excepted(d)'
    BY <2>7, <2>8 DEF HomeInv
  <2> QED
    BY <2>2, <2>10, <2>11, <2>12, <2>13 DEF HomeInv
<1> QED
  BY <1>5, <1>6, <1>7, <1>8, <1>9, <1>10, <1>11, <1>12, <1>13, <1>14, <1>15, <1>16
     DEF ClientAlone, ClientReads, ClientScreens, ClientNodes

(* No client is ever taken into a house by the file it is sent, unless it  *)
(* joined while the host was, or had last been seen, in a run without a    *)
(* checkpoint: a file published before the run has begun says it is not    *)
(* ready, and whoever moves on has published what was due                  *)
(* (SaveFileMsg::ready, savefile_republish, savefile_pump).                *)
THEOREM NobodyGoesHome == LifeSpec => []NeverHome
<1>1. LifeInit => HomeInv
  BY DEF LifeInit, HomeInv, NeverHome, Clean, NoRun
<1>2. ASSUME LifeInv, HomeInv, [LifeNext]_lifeVars PROVE LifeInv' /\ HomeInv'
  <2>1. CASE UNCHANGED lifeVars
    BY <1>2, <2>1 DEF lifeVars, hostVars, clientVars, LifeInv, HostTyped, ClientTyped,
       BetweenTyped, AwaitsDeparture, HomeInv, NeverHome, Excepted, Unsaved, Flushed
  <2> QED
    BY <1>2, <2>1, HostStepTyped, ClientStepTyped, HomeHostStep, HomeClientStep DEF LifeNext
<1>3. HomeInv => NeverHome
  BY DEF HomeInv
<1> QED
  BY <1>1, <1>2, <1>3, LifeInitTyped, PTL DEF LifeSpec
================================================================================
