--------------------------------- MODULE Wire ---------------------------------
(***************************************************************************)
(* One link of src/net/mgmp_net.cpp, octets and all: the threads that      *)
(* write frames to it, the stream, the thread that takes frames off it,    *)
(* the queue of received messages and the game thread that empties it.     *)
(*                                                                         *)
(* A host writes from its game thread and from the threads of its links,   *)
(* which relay what clients say and publish the roster; a client writes    *)
(* from its game thread.  A frame is three parts, its length, who speaks   *)
(* and the payload (Messages), and the link may be lost within any of them.*)
(***************************************************************************)
EXTENDS Messages

CONSTANTS
  QueueCap,   \* kQueueCap
  Seconds,    \* bound: what a second message of the game thread may be
  None

ASSUME WireBounds == QueueCap \in Nat \ {0}

EnvelopeBytes == 1
HostPeer == 0
LinkPeer == 1   \* the client at the other end of this link
Other == 2      \* another client of the host
NoPeer == 255
Peer == {HostPeer, LinkPeer, Other}
Writer == {"game", "link"}

VARIABLES
  toHost,  \* which end the host is
  todo,    \* what a thread still has to send: who speaks, and what
  parts,   \* the parts of a frame it has not yet written
  lock,    \* g.send_cs
  stream,  \* what has been written and not read
  up,      \* the link is there
  reading, \* recv_loop goes on
  want,    \* the length it has read, or 0
  queue,   \* g.queue, a ring: messages and the buffers they point to
  head,
  count,
  hand,    \* the message the game thread has taken, if any
  heap,    \* the buffers allocated
  sent,    \* history: what each player said, in order
  got,     \* history: what the game took, by player
  dropped  \* history: how many of a player's found the queue full

sendVars == <<toHost, todo, parts, lock, sent>>
linkVars == <<stream, up, reading, want>>
queueVars == <<queue, head, count, hand, heap, got, dropped>>
wireVars == <<sendVars, linkVars, queueVars>>

(* What a game thread sends: some types are the host's alone, and the      *)
(* roster comes from its link threads.                                     *)
HostOnly == {"WELCOME", "ENTERNODE", "SAVEFILE", "RUNHIST", "HOSTLEFT", "OWNERSHIP"}
GameTypes == Type \ (IF toHost THEN {"PEERS"} \cup HostOnly ELSE {"PEERS"})

Message == UNION {MessagesOf(t) : t \in Type}

ASSUME SecondsAssumption == Seconds \subseteq Message

(* A client that has not yet read its id speaks as nobody.                 *)
Self == IF toHost THEN {LinkPeer, NoPeer} ELSE {HostPeer}
Says(p, m) == [from |-> p, m |-> m]

EmptySlot == [from |-> None, m |-> None, ptrs |-> {}]

WireInit ==
  /\ toHost \in BOOLEAN
  /\ \E p \in Self, first \in UNION {MessagesOf(t) : t \in GameTypes}, second \in Seconds :
     \E roster \in MessagesOf("PEERS"), relayed \in MessagesOf("FACE") :
       todo = [game |-> <<Says(p, first), Says(p, second)>>,
               link |-> IF toHost THEN <<>>
                        ELSE <<Says(HostPeer, roster), Says(Other, relayed)>>]
  /\ parts = [w \in Writer |-> <<>>]
  /\ lock = None
  /\ stream = <<>> /\ up = TRUE /\ reading = TRUE /\ want = 0
  /\ queue = [i \in 0 .. QueueCap - 1 |-> EmptySlot] /\ head = 0 /\ count = 0
  /\ hand = <<>> /\ heap = {}
  /\ sent = [p \in Peer |-> <<>>] /\ got = [p \in Peer |-> <<>>]
  /\ dropped = [p \in Peer |-> 0]

-------------------------------------------------------------------------------
(* send_framed, on a game thread (the net_send functions) or a link thread *)
(* (host_publish_roster, host_relay).                                      *)

(* Mutant: the threads do not take turns.                                  *)
TakesNoLock(w) == parts[w] = <<>>

MayBegin(w) == lock = None

(* Mutant: a length that leaves the envelope out.                          *)
FrameOfPayload(from, payload) ==
  <<U32(Size(payload)), U8(from), Raw(payload, Size(payload))>>

Frame(from, payload) ==
  <<U32(Size(payload) + EnvelopeBytes), U8(from), Raw(payload, Size(payload))>>

Speaker(from) == IF from = NoPeer THEN LinkPeer ELSE from

(* A message that is too large for a frame is not sent.                    *)
Begin(w) ==
  /\ todo[w] # <<>> /\ MayBegin(w)
  /\ LET s == Head(todo[w])
         payload == IF Fits(s.m) THEN Encoded(s.m) ELSE <<>>
     IN /\ sent' = IF Fits(s.m) THEN [sent EXCEPT ![Speaker(s.from)] = Append(@, s.m)]
                                ELSE sent
        /\ parts' = IF payload = <<>> THEN parts
                    ELSE [parts EXCEPT ![w] = Frame(s.from, payload)]
        /\ lock' = IF payload = <<>> THEN lock ELSE w
  /\ todo' = [todo EXCEPT ![w] = Tail(@)]
  /\ UNCHANGED <<toHost, linkVars, queueVars>>

(* send: a frame that meets a lost link is given up.                       *)
WritePart(w) ==
  /\ parts[w] # <<>>
  /\ stream' = IF up THEN stream \o Head(parts[w]) ELSE stream
  /\ parts' = [parts EXCEPT ![w] = IF up THEN Tail(@) ELSE <<>>]
  /\ lock' = IF up /\ Len(parts[w]) > 1 THEN lock ELSE None
  /\ UNCHANGED <<toHost, todo, sent, up, reading, want, queueVars>>

(* The link is lost: all of what is on its way, or but its last octets.    *)
LinkLost ==
  /\ up /\ up' = FALSE
  /\ stream' \in {<<>>, stream} \cup (IF stream = <<>> THEN {} ELSE {Front(stream)})
  /\ UNCHANGED <<sendVars, reading, want, queueVars>>

-------------------------------------------------------------------------------
(* recv_loop and queue_push.                                               *)

(* recv_exact has n bytes; they end where a part ends, or are garbage.     *)
Arrived(n) == Size(stream) >= n
Bytes(n) ==
  LET ks == {k \in 1 .. Len(stream) : Size(SubSeq(stream, 1, k)) = n} IN
  IF ks = {} THEN <<>> ELSE SubSeq(stream, 1, Min(ks))
After(n) == SubSeq(stream, Len(Bytes(n)) + 1, Len(stream))

Stops == reading' = FALSE /\ UNCHANGED <<want, stream>>

ReadLength ==
  /\ reading /\ want = 0 /\ Arrived(4)
  /\ LET b == Bytes(4) IN
     IF Len(b) = 1 /\ b[1][1] \in EnvelopeBytes .. MaxFrame
     THEN want' = b[1][1] /\ stream' = After(4) /\ UNCHANGED reading
     ELSE Stops
  /\ UNCHANGED <<sendVars, up, queueVars>>

(* The host knows who is at the other end of its link.                     *)
Author(from) == IF toHost THEN LinkPeer ELSE from

BuffersOf(m) ==
  CASE m[1] \in {"CATDATA", "RUNHIST", "SAVEFILE", "STATEDUMP"} -> 1
    [] m[1] = "INVENTORY" -> Len(Filled(m[2]))
    [] OTHER -> 0

(* The buffers malloc gives: as many as are asked for, none of them in use.*)
Fresh(n) ==
  LET free == (1 .. 3 * (QueueCap + 2)) \ heap IN
  {b \in free : Cardinality({c \in free : c <= b}) <= n}

(* The newest is dropped, and its buffers are freed.                       *)
Drop(p, m) ==
  /\ dropped' = [dropped EXCEPT ![p] = @ + 1]
  /\ UNCHANGED <<queue, count, heap>>

Push(p, m) ==
  IF count >= QueueCap THEN Drop(p, m) ELSE
  LET new == Fresh(BuffersOf(m)) IN
  /\ queue' = [queue EXCEPT ![(head + count) % QueueCap] = [from |-> p, m |-> m, ptrs |-> new]]
  /\ count' = count + 1
  /\ heap' = heap \cup new
  /\ UNCHANGED dropped

ReadBody ==
  /\ reading /\ want > 0 /\ Arrived(want)
  /\ LET b == Bytes(want)
         ms == IF Len(b) = 2 /\ b[1][2] = EnvelopeBytes THEN Decoded(b[2][1]) ELSE {}
     IN IF ms = {} THEN Stops /\ UNCHANGED <<queue, count, heap, dropped>>
        ELSE /\ \E m \in ms : Push(Author(b[1][1]), m)
             /\ want' = 0 /\ stream' = After(want) /\ UNCHANGED reading
  /\ UNCHANGED <<sendVars, up, head, hand, got>>

(* recv has nothing more to give.                                          *)
ReadEnd ==
  /\ reading /\ ~up /\ ~Arrived(IF want = 0 THEN 4 ELSE want)
  /\ Stops
  /\ UNCHANGED <<sendVars, up, queueVars>>

-------------------------------------------------------------------------------
(* The game thread: net_poll, and net_msg_release when it has acted.       *)

(* Mutant: the slot keeps its pointers.                                    *)
Shared(slot) == slot

Handed(slot) == [slot EXCEPT !.ptrs = {}]

Poll ==
  /\ hand = <<>> /\ count > 0
  /\ hand' = <<queue[head]>>
  /\ got' = [got EXCEPT ![queue[head].from] = Append(@, queue[head].m)]
  /\ queue' = [queue EXCEPT ![head] = Handed(@)]
  /\ head' = (head + 1) % QueueCap
  /\ count' = count - 1
  /\ UNCHANGED <<sendVars, linkVars, heap, dropped>>

Release ==
  /\ hand # <<>>
  /\ heap' = heap \ hand[1].ptrs
  /\ hand' = <<>>
  /\ UNCHANGED <<sendVars, linkVars, queue, head, count, got, dropped>>

WireNext ==
  \/ \E w \in Writer : Begin(w) \/ WritePart(w)
  \/ LinkLost
  \/ ReadLength \/ ReadBody \/ ReadEnd
  \/ Poll \/ Release

WireSpec == WireInit /\ [][WireNext]_wireVars

-------------------------------------------------------------------------------
(* Properties.                                                             *)

(* s is t with some left out.                                              *)
LeavesOut(s, t) ==
  \E at \in [DOMAIN s -> DOMAIN t] :
    \A i, j \in DOMAIN s : (i < j => at[i] < at[j]) /\ s[i] = t[at[i]]

(* What the game takes of one player is what that player said, whole,      *)
(* unaltered and in order, whichever threads wrote to the link and         *)
(* wherever it was lost; only a full queue leaves messages out (queue_push)*)
AsSent ==
  \A p \in Peer :
    IF dropped[p] = 0 THEN IsPrefix(got[p], sent[p]) ELSE LeavesOut(got[p], sent[p])

(* Nothing is left to write, to read or to do.                             *)
Quiet ==
  /\ \A w \in Writer : todo[w] = <<>> /\ parts[w] = <<>>
  /\ ~reading \/ (stream = <<>> /\ want = 0)
  /\ count = 0 /\ hand = <<>>

(* A roster read before its receiver was one of the members.               *)
Stray(m) == m[1] = "PEERS" /\ m[2].you \notin Range(m[2].ids)
SentStray == \E p \in Peer : \E i \in DOMAIN sent[p] : Stray(sent[p][i])

(* Over a link that holds, all that a frame can carry comes through: the   *)
(* receiver accepts whatever the program sends, at every length a text, a  *)
(* list or a file can have, and closes the link of one who speaks the same *)
(* protocol in one case only, when it is sent a roster that was read       *)
(* before it came (recv_loop, decode_into, dec_peers).                     *)
Delivered ==
  up /\ Quiet =>
    IF SentStray THEN ~reading
    ELSE \A p \in Peer : Len(got[p]) + dropped[p] = Len(sent[p])

Slots == DOMAIN queue
Pointing(b) == {i \in Slots : b \in queue[i].ptrs}

(* Every buffer in use has one owner, a message in the queue or the one    *)
(* the game has taken, and nothing points to a buffer that was freed       *)
(* (net_poll, net_msg_release, queue_push).                                *)
OneOwner ==
  LET taken == UNION {hand[i].ptrs : i \in DOMAIN hand} IN
  /\ \A b \in heap : Cardinality(Pointing(b)) + (IF b \in taken THEN 1 ELSE 0) = 1
  /\ taken \cup UNION {queue[i].ptrs : i \in Slots} \subseteq heap
===============================================================================
