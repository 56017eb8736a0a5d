------------------------------ MODULE Transport ------------------------------
(***************************************************************************)
(* Coming to a session and leaving it: the host's sockets, link table and  *)
(* threads (src/net/mgmp_net.cpp) and the handshake on top of them         *)
(* (src/session/mgmp_session.cpp), thread by thread.                       *)
(*                                                                         *)
(* The accept thread and one receive thread per link share the link table  *)
(* without a lock and each tell the roster when they change it.  The game  *)
(* thread reads their messages from a queue of fixed size.  A connection   *)
(* is one dial of a client: a player whose link is lost dials anew.        *)
(***************************************************************************)
EXTENDS Naturals, Sequences, FiniteSets

CONSTANTS
  MaxPeers,   \* kMaxPeers: the host and its clients
  Dials,      \* bound: connections, in the order they are dialled
  QueueCap,   \* kQueueCap
  MaxForeign, \* bound: connections from a game of another build
  MaxDrops,   \* bound: links lost
  None

ASSUME TransportBounds ==
  /\ {MaxPeers, Dials, QueueCap} \subseteq Nat \ {0}
  /\ {MaxForeign, MaxDrops} \subseteq Nat
  /\ MaxPeers > 1
ASSUME NoneAssumption == None \notin Nat

Conn == 1 .. Dials
HostId == 0
Id == 0 .. MaxPeers - 1
Slot == 1 .. MaxPeers
Accepter == 0
Thread == {Accepter} \cup Conn

VARIABLES
  foreign,   \* the connections from another build
  open,      \* sockets the host has not closed
  link,      \* g.links of the host: socket, id and the live flag
  at,        \* where the thread of a connection stands
  slot,      \* the Link it was given
  pub,       \* a thread's host_publish_roster in progress
  connected, \* net_state of the host is Connected
  queue,     \* the host's queue of received messages
  roster,    \* g.roster, on the host
  hostPhase, \* g.phase of mgmp_session.cpp, on the host
  client,    \* a client: g.phase, its own id, its roster
  up,        \* what is on its way from a client
  drops,     \* links lost so far
  crossed,   \* history: the last publication overlapped another
  missed,    \* history: the host's own copy of the last roster was dropped
  excused    \* history: connections AllWelcome promises nothing

threadVars == <<link, at, slot, pub, open, connected, crossed>>
gameVars == <<queue, roster, hostPhase, missed>>
endVars == <<client, up>>
boundVars == <<foreign, drops>>
vars == <<threadVars, gameVars, endVars, boundVars, excused>>

Idle == [ids |-> {}]
Lowest(S) == CHOOSE i \in S : \A j \in S : i <= j

LiveSlots == {s \in Slot : link[s].live}
LiveIds == {link[s].id : s \in LiveSlots}

(* Off: the player has left; Closed: its receive loop has put it out.      *)
Gone == {"Off", "Closed"}
Phase == {"Waiting", "HelloSent", "Ready", "Refused"} \cup Gone

(* What the host's game reads.                                             *)
Received == [type : {"HELLO", "REFUSE"}, from : Id, by : Conn]
            \cup [type : {"PEERS"}, from : {HostId}, ids : SUBSET Id, you : {HostId}]

(* Among the rest: at most one live link holds an id, and never the        *)
(* host's (accept_thread).                                                 *)
TypeOK ==
  /\ foreign \subseteq Conn /\ open \subseteq Conn
  /\ link \in [Slot -> [sock : Conn \cup {None}, id : Id, live : BOOLEAN]]
  /\ \A s, t \in LiveSlots : link[s].id = link[t].id => s = t
  /\ HostId \notin LiveIds
  /\ at \in [Conn -> {"dials", "receives", "closes", "clears", "publishes", "ended"}]
  /\ slot \in [Conn -> Slot \cup {None}]
  /\ \A c \in Conn : at[c] \in {"receives", "closes", "clears"} => slot[c] \in Slot
  /\ pub \in [Thread -> {Idle} \cup [left : SUBSET Slot, ids : SUBSET Id]]
  /\ queue \in Seq(Received) /\ Len(queue) <= QueueCap
  /\ roster \subseteq Id
  /\ hostPhase \in Phase \ Gone
  /\ client \in [Conn -> [phase : Phase, self : Id \cup {None}, roster : SUBSET Id]]
  /\ up \in [Conn -> Seq([type : {"HELLO", "REFUSE"}, from : {None}, by : Conn])]

NotThere == [phase |-> "Off", self |-> None, roster |-> {}]
Welcome == [phase |-> "Ready", self |-> 1, roster |-> {HostId, 1}]
Resident == 1

(* A host that has just begun, or one in a session with the resident.      *)
Init ==
  /\ foreign \in {F \in SUBSET (Conn \ {Resident}) : Cardinality(F) <= MaxForeign}
  /\ connected \in BOOLEAN
  /\ open = IF connected THEN {Resident} ELSE {}
  /\ link = [s \in Slot |-> IF connected /\ s = 1
                            THEN [sock |-> Resident, id |-> 1, live |-> TRUE]
                            ELSE [sock |-> None, id |-> HostId, live |-> FALSE]]
  /\ at = [c \in Conn |-> IF c # Resident THEN "dials"
                          ELSE IF connected THEN "receives" ELSE "ended"]
  /\ slot = [c \in Conn |-> IF c = Resident /\ connected THEN 1 ELSE None]
  /\ client = [c \in Conn |-> IF c = Resident /\ connected THEN Welcome ELSE NotThere]
  /\ hostPhase = IF connected THEN "Ready" ELSE "Waiting"
  /\ roster = IF connected THEN {HostId, 1} ELSE {HostId}
  /\ pub = [t \in Thread |-> Idle]
  /\ queue = <<>>
  /\ up = [c \in Conn |-> <<>>]
  /\ drops = 0
  /\ crossed = FALSE /\ missed = FALSE
  /\ excused = {}

-------------------------------------------------------------------------------
(* Sending and queueing.                                                   *)

(* A client's message; the host puts in from the id it has lent.  by names *)
(* the connection behind that id (history).                                *)
Message(type, c) == [type |-> type, from |-> None, by |-> c]
FromHost(type) == [type |-> type]

(* dec_peers: the roster must hold the one it is sent to.                  *)
Decodes(m) == m.type = "PEERS" => m.you \in m.ids

(* What a client is after it has read a message.  recv_loop closes the     *)
(* link on one that does not decode; the rest is handle_hello, MSG_WELCOME *)
(* and MSG_REFUSE of session_update (a Ready client has lockstep_pump,     *)
(* which ignores the last two), net_poll.  The game of a refused one reads *)
(* no more.                                                                *)
After(c, me, m) ==
  IF me.phase \in Gone THEN me ELSE
  IF ~Decodes(m) THEN [me EXCEPT !.phase = "Closed"] ELSE
  IF me.phase = "Refused" THEN me ELSE
  CASE m.type = "PEERS" -> [me EXCEPT !.self = m.you, !.roster = m.ids]
    [] m.type = "HELLO" /\ c \in foreign -> [me EXCEPT !.phase = "Refused"]
    [] m.type = "WELCOME" -> [me EXCEPT !.phase = "Ready"]
    [] m.type = "REFUSE" /\ me.phase # "Ready" -> [me EXCEPT !.phase = "Refused"]
    [] OTHER -> me

(* One or two messages come at a time.                                     *)
HasRead(c, ms) ==
  LET first == After(c, client[c], ms[1]) IN
  IF Len(ms) = 1 THEN first ELSE After(c, first, ms[2])

(* refuse_peer on a client that does not like the host's HELLO.            *)
Objects(c, ms) ==
  /\ c \in foreign /\ client[c].phase = "HelloSent"
  /\ \E i \in DOMAIN ms : ms[i].type = "HELLO"

(* The messages ms are sent over the links in S: send_framed writes to the *)
(* socket a link holds by then.  A client reads at once; when it reads     *)
(* concerns nobody else.                                                   *)
SendTo(S, ms) ==
  LET reached == {c \in open : \E s \in S : link[s].sock = c} IN
  /\ client' = [c \in Conn |->
                  IF c \in reached THEN HasRead(c, ms) ELSE client[c]]
  /\ up' = [c \in Conn |-> IF c \in reached /\ Objects(c, ms)
                           THEN Append(up[c], Message("REFUSE", c)) ELSE up[c]]

(* link_slot_of, for net_send_peer.                                        *)
SlotsOf(id) == {s \in LiveSlots : link[s].id = id}

(* queue_push: the newest is dropped.                                      *)
Full == Len(queue) >= QueueCap
Pushed(m) == IF Full THEN queue ELSE Append(queue, m)

-------------------------------------------------------------------------------
(* host_publish_roster, on thread t: the members are read and stored, sent *)
(* to one link after the other, and put into the host's own queue.         *)

Publishing(t) == pub[t] # Idle

(* Mutant: the members before the newcomer is one of them.                 *)
MembersBefore(links) == [left |-> Slot, ids |-> {HostId} \cup LiveIds]

Members(links) ==
  [left |-> Slot, ids |-> {HostId} \cup {links[s].id : s \in {u \in Slot : links[u].live}}]

(* Thread t reads the members off links.                                   *)
Begins(t, links) ==
  /\ pub' = [pub EXCEPT ![t] = Members(links)]
  /\ roster' = Members(links).ids
  /\ crossed' = \E u \in Thread \ {t} : Publishing(u)

Peers(p, you) == [type |-> "PEERS", from |-> HostId, ids |-> p.ids, you |-> you]

(* Links that are dead are passed over together with the next.  One that   *)
(* has come since the members were read is sent them all the same.         *)
TellLink(t) ==
  /\ Publishing(t) /\ pub[t].left \cap LiveSlots # {}
  /\ LET s == Lowest(pub[t].left \cap LiveSlots) IN
       /\ SendTo({s}, <<Peers(pub[t], link[s].id)>>)
       /\ pub' = [pub EXCEPT ![t].left = {u \in @ : u > s}]
       /\ excused' = IF link[s].id \in pub[t].ids THEN excused
                     ELSE excused \cup ({link[s].sock} \ {None})
  /\ UNCHANGED <<link, at, slot, open, connected, crossed, gameVars, boundVars>>

TellSelf(t) ==
  /\ Publishing(t) /\ pub[t].left \cap LiveSlots = {}
  /\ queue' = Pushed(Peers(pub[t], HostId))
  /\ missed' = Full
  /\ pub' = [pub EXCEPT ![t] = Idle]
  /\ at' = IF t = Accepter THEN at ELSE [at EXCEPT ![t] = "ended"]
  /\ slot' = IF t = Accepter THEN slot ELSE [slot EXCEPT ![t] = None]
  /\ UNCHANGED <<link, open, connected, crossed, roster, hostPhase, endVars,
                 boundVars, excused>>

-------------------------------------------------------------------------------
(* accept_thread.                                                          *)

FreeIds == (Id \ {HostId}) \ LiveIds
FreeSlots == Slot \ LiveSlots
Vacancy == FreeIds # {} /\ FreeSlots # {}

(* Mutant: an id that counts the links.                                    *)
CountAsId(ids) == Cardinality(LiveIds) + 1

Lent(ids) == Lowest(ids)

(* Connection c is next to be dialled (apply_request: net_join), and the   *)
(* accept thread comes round to it.                                        *)
Dialled(c) ==
  /\ at[c] = "dials" /\ \A d \in Conn : d < c => at[d] # "dials"
  /\ ~Publishing(Accepter)

(* start_link.  The client's send_our_hello is in the frame of its dial.   *)
Accept(c) ==
  /\ Dialled(c) /\ Vacancy
  /\ LET s == Lowest(FreeSlots)
         links == [link EXCEPT ![s] = [sock |-> c, id |-> Lent(FreeIds), live |-> TRUE]]
     IN /\ link' = links
        /\ slot' = [slot EXCEPT ![c] = s]
        /\ Begins(Accepter, links)
  /\ at' = [at EXCEPT ![c] = "receives"]
  /\ open' = open \cup {c}
  /\ connected' = TRUE
  /\ client' = [client EXCEPT ![c].phase = "HelloSent"]
  /\ up' = [up EXCEPT ![c] = <<Message("HELLO", c)>>]
  /\ UNCHANGED <<queue, hostPhase, missed, boundVars, excused>>

(* "session is full".                                                      *)
TurnAway(c) ==
  /\ Dialled(c) /\ ~Vacancy
  /\ client' = [client EXCEPT ![c].phase = "Refused"]
  /\ at' = [at EXCEPT ![c] = "ended"]
  /\ excused' = excused \cup {c}
  /\ UNCHANGED <<link, slot, pub, open, connected, crossed, gameVars, up, boundVars>>

-------------------------------------------------------------------------------
(* recv_loop of the thread of connection c.                                *)

Link(c) == link[slot[c]]

(* The socket is read off the link each time.                              *)
CanRead(c) == Link(c).sock = c /\ c \in open

Receive(c) ==
  /\ at[c] = "receives" /\ CanRead(c) /\ up[c] # <<>>
  /\ queue' = Pushed([Head(up[c]) EXCEPT !.from = Link(c).id])
  /\ excused' = IF Full THEN excused \cup {c} ELSE excused
  /\ up' = [up EXCEPT ![c] = Tail(@)]
  /\ UNCHANGED <<threadVars, roster, hostPhase, missed, client, boundVars>>

(* The client has closed, and what it had sent is read before or lost with *)
(* the link; or the thread that had the link before has closed the socket, *)
(* or cleared it off the link: that shows when the next bytes have been    *)
(* read off the old value.                                                 *)
LinkEnds(c) ==
  /\ at[c] = "receives"
  /\ \/ c \notin open
     \/ client[c].phase \in Gone
     \/ ~CanRead(c) /\ up[c] # <<>>
  /\ link' = [link EXCEPT ![slot[c]].live = FALSE]
  /\ at' = [at EXCEPT ![c] = "closes"]
  /\ UNCHANGED <<slot, pub, open, connected, crossed, gameVars, endVars, boundVars,
                 excused>>

(* closesocket, of the socket the link holds by then.                      *)
CloseSocket(c) ==
  /\ at[c] = "closes"
  /\ open' = open \ {Link(c).sock}
  /\ at' = [at EXCEPT ![c] = IF Link(c).sock = None THEN "publishes" ELSE "clears"]
  /\ excused' = excused \cup ({Link(c).sock} \ {c, None})
  /\ UNCHANGED <<link, slot, pub, connected, crossed, gameVars, endVars, boundVars>>

ClearSocket(c) ==
  /\ at[c] = "clears"
  /\ link' = [link EXCEPT ![slot[c]].sock = None]
  /\ at' = [at EXCEPT ![c] = "publishes"]
  /\ excused' = excused \cup ({Link(c).sock} \ {c, None})
  /\ UNCHANGED <<slot, pub, open, connected, crossed, gameVars, endVars, boundVars>>

Departure(c) ==
  /\ at[c] = "publishes" /\ ~Publishing(c)
  /\ Begins(c, link)
  /\ UNCHANGED <<link, at, slot, open, connected, queue, hostPhase, missed, endVars,
                 boundVars, excused>>

-------------------------------------------------------------------------------
(* The host's game thread: session_update, and lockstep_pump once Ready.   *)

(* send_our_hello reaches whoever is there by then.                        *)
HostHello ==
  /\ hostPhase = "Waiting" /\ connected
  /\ SendTo(LiveSlots, <<FromHost("HELLO")>>)
  /\ hostPhase' = "HelloSent"
  /\ UNCHANGED <<threadVars, queue, roster, missed, boundVars, excused>>

(* Mutant: the host's own hello is left to the broadcast.                  *)
WelcomeOnly(m) == <<FromHost("WELCOME")>>

(* What handle_hello answers with.                                         *)
Answer(m) ==
  IF m.by \in foreign THEN <<FromHost("REFUSE")>>
  ELSE <<FromHost("HELLO"), FromHost("WELCOME")>>

(* The id of a HELLO may stand for somebody else by now: connections whose *)
(* answer is meant for another, or is lost with the one that had the id.   *)
Misread(m) == {d \in Conn : \E s \in SlotsOf(m.from) : link[s].sock = d} \ {m.by}

(* Mutant: a host that is Ready leaves a HELLO unread.                     *)
AnswersUntilReady(m) == m.type = "HELLO" /\ hostPhase # "Ready"

(* session_update and, for a host that is Ready, lockstep_pump.            *)
Answers(m) == m.type = "HELLO"

SessionUpdate ==
  /\ hostPhase # "Refused" /\ queue # <<>>
  /\ queue' = Tail(queue)
  /\ LET m == Head(queue) IN
       /\ IF Answers(m) THEN SendTo(SlotsOf(m.from), Answer(m)) ELSE UNCHANGED endVars
       /\ excused' = IF m.type = "HELLO" /\ m.by \in foreign
                     THEN excused \cup Misread(m) ELSE excused
       /\ hostPhase' = CASE Answers(m) /\ m.by \notin foreign -> "Ready"
                         [] m.type = "REFUSE" /\ hostPhase # "Ready" -> "Refused"
                         [] OTHER -> hostPhase
       /\ roster' = IF m.type = "PEERS" THEN m.ids ELSE roster
  /\ UNCHANGED <<threadVars, missed, boundVars>>

-------------------------------------------------------------------------------
(* A client closes its link, or loses it.                                  *)
Leaves(c) ==
  /\ client[c].phase \notin Gone /\ drops < MaxDrops
  /\ drops' = drops + 1
  /\ client' = [client EXCEPT ![c] = NotThere]
  /\ UNCHANGED <<threadVars, gameVars, up, foreign, excused>>

-------------------------------------------------------------------------------
PublishRoster(t) == TellLink(t) \/ TellSelf(t)
Receiver(c) == Receive(c) \/ LinkEnds(c) \/ CloseSocket(c) \/ ClearSocket(c) \/ Departure(c)

Next ==
  \/ HostHello \/ SessionUpdate
  \/ \E t \in Thread : PublishRoster(t)
  \/ \E c \in Conn : Accept(c) \/ TurnAway(c) \/ Receiver(c) \/ Leaves(c)

Spec == Init /\ [][Next]_vars

-------------------------------------------------------------------------------
(* Properties.                                                             *)

(* No two players of the session have one id at a time, and none has the   *)
(* host's, though the ids of links that end on their own threads are lent  *)
(* again at once (accept_thread).                                          *)
OneIdEach ==
  /\ \A s, t \in LiveSlots : link[s].id = link[t].id => s = t
  /\ HostId \notin LiveIds

(* A player on another build never comes into the session, though ids are  *)
(* lent again and the HELLO of one who has left may be answered to the     *)
(* next to hold its id (handle_hello).                                     *)
KeptOut == \A c \in foreign : client[c].phase # "Ready"

(* Nothing is left to do for the threads and for the host's game.          *)
AllTold ==
  /\ \A t \in Thread : ~Publishing(t)
  /\ \A c \in Conn : at[c] \in {"dials", "ended"} \/ (at[c] = "receives" /\ CanRead(c))
AllRead == queue = <<>> /\ \A c \in Conn : at[c] = "receives" => up[c] = <<>>

(* When all is told, everyone who reads has the roster of those who are    *)
(* there, whoever came and went meanwhile; unless the last publication     *)
(* overlapped another or its own copy found the queue full                 *)
(* (host_publish_roster).                                                  *)
RosterSettles ==
  AllTold /\ ~crossed =>
    /\ hostPhase # "Refused" /\ queue = <<>> /\ ~missed => roster = {HostId} \cup LiveIds
    /\ \A s \in LiveSlots :
         LET c == link[s].sock IN
         client[c].phase \in {"HelloSent", "Ready"} =>
           client[c].roster = {HostId} \cup LiveIds /\ client[c].self = link[s].id

(* When all is told and read, every client that stays has been let in, has *)
(* its link and keeps it, however late it came, unless its build is        *)
(* another; or the session was full, its HELLO was dropped, its socket     *)
(* fell to the thread that had the link before, it was given the refusal   *)
(* of one who had its id, or a roster read before it came (excused); or    *)
(* the host itself was refused (handle_hello, session_on_hello, recv_loop, *)
(* dec_peers).                                                             *)
AllWelcome ==
  AllTold /\ AllRead /\ hostPhase # "Refused" =>
    \A c \in Conn \ (foreign \cup excused) :
      client[c].phase # "Off" =>
        client[c].phase = "Ready" /\ \E s \in LiveSlots : link[s].sock = c
==============================================================================
