------------------------------ MODULE Messages -------------------------------
(***************************************************************************)
(* The messages of src/net/mgmp_proto.h: what a sender may put into each,  *)
(* how it is written into a payload, and what a receiver reads back and    *)
(* accepts.                                                                *)
(*                                                                         *)
(* A payload is a sequence of fields, each a value and the bytes it fills; *)
(* a signed and an unsigned number of one width are the same bytes.  A     *)
(* text is its content and its length.  Writer and reader are written out  *)
(* apart, as in the code, where nothing but their agreement holds a        *)
(* message together.                                                       *)
(***************************************************************************)
EXTENDS Integers, SequencesExt

(* The types, in the order of their codes.  PING is read but never sent.    *)
MsgType ==
  <<"HELLO", "WELCOME", "REFUSE", "ACTION", "HASH", "HALT", "PING", "CONTROL", "ENTERNODE",
    "SAVEFILE", "CATDATA", "INVENTORY", "PEERS", "CURSOR", "CHOICE", "RUNHIST", "NODEHASH",
    "AIM", "STATEDUMP", "HOSTLEFT", "OWNERSHIP", "FACE", "SCREENVOTE", "SHOPBUY",
    "LEVELUPTARGET", "CURSORPING">>
Type == Range(MsgType) \ {"PING"}
Code(type) == CHOOSE c \in DOMAIN MsgType : MsgType[c] = type

KiB == 1024
MaxFrame == 1024 * KiB
MaxCatBytes == 256 * KiB
MaxInvBytes == 512 * KiB
MaxRunHistBytes == 1024 * KiB
MaxSaveBytes == 4096 * KiB
MaxDumpCats == 254
MaxDumpBytes == MaxDumpCats * 256
MaxPeers == 4
OwnershipSlots == 32
Nothing == "nothing"

-------------------------------------------------------------------------------
(* Writer.                                                                 *)

U8(v) == <<<<v, 1>>>>
U32(v) == <<<<v, 4>>>>
U64(v) == <<<<v, 8>>>>
Raw(data, size) == <<<<data, size>>>>
Each(w, vs) == [i \in DOMAIN vs |-> <<vs[i], w>>]

(* The first n characters of a text.                                       *)
Clipped(text, n) == IF text[2] <= n THEN text ELSE <<text[1], n>>
Str(text) ==
  LET s == Clipped(text, 255) IN
  U8(s[2]) \o (IF s[2] = 0 THEN <<>> ELSE Raw(s, s[2]))

Size(fields) == FoldLeft(LAMBDA n, f : n + f[2], 0, fields)

(* A payload that does not fit the buffer it is written to is empty.       *)
Payload(type, cap, fields) ==
  LET p == U8(Code(type)) \o fields IN IF Size(p) <= cap THEN p ELSE <<>>

(* MGMP_SEND_WITH and the senders to one peer.                             *)
Small == 512

-------------------------------------------------------------------------------
(* Reader: the fields it takes one after the other.                        *)

Num(name, w) == [kind |-> "number", name |-> name, width |-> w]
Array(name, n, w) == [kind |-> "array", name |-> name, n |-> n, width |-> w]
List(name, of, w) == [kind |-> "list", name |-> name, of |-> of, width |-> w]
Chars(name, room) == [kind |-> "text", name |-> name, room |-> room]
Blob(name, of) == [kind |-> "blob", name |-> name, of |-> of]
Blobs(name, of) == [kind |-> "blobs", name |-> name, of |-> of]

Unread == [ok |-> FALSE]

(* The next n fields, if they have this width.                             *)
Takes(r, n, w, name, Value(_)) ==
  IF n <= Len(r.left) /\ \A i \in 1 .. n : r.left[i][2] = w
  THEN [r EXCEPT !.left = SubSeq(@, n + 1, Len(@)),
                 !.got = @ @@ (name :> Value(SubSeq(r.left, 1, n)))]
  ELSE Unread

Values(fields) == [i \in DOMAIN fields |-> fields[i][1]]

(* A text is cut to the array it is read into.                             *)
TakesText(r, item) ==
  IF r.left = <<>> \/ r.left[1][2] # 1 THEN Unread ELSE
  LET n == r.left[1][1]
      rest == [r EXCEPT !.left = Tail(@)]
  IN IF n = 0 THEN Takes(rest, 0, 0, item.name, LAMBDA f : <<"", 0>>)
     ELSE Takes(rest, 1, n, item.name, LAMBDA f : Clipped(f[1][1], item.room - 1))

(* Buckets without bytes have no field.                                    *)
TakesBuckets(r, item) ==
  LET sizes == r.got[item.of]
      there == {i \in DOMAIN sizes : sizes[i] > 0}
      nth(i) == Cardinality({j \in there : j <= i})
      n == Cardinality(there)
  IN IF n <= Len(r.left) /\ \A i \in there : r.left[nth(i)][2] = sizes[i]
     THEN [r EXCEPT !.left = SubSeq(@, n + 1, Len(@)),
                    !.got = @ @@ (item.name :>
                       [i \in DOMAIN sizes |-> IF i \in there THEN r.left[nth(i)][1]
                                               ELSE Nothing])]
     ELSE Unread

TakesItem(r, item) ==
  CASE ~r.ok -> r
    [] item.kind = "number" -> Takes(r, 1, item.width, item.name, LAMBDA f : f[1][1])
    [] item.kind = "array" -> Takes(r, item.n, item.width, item.name, Values)
    [] item.kind = "list" -> Takes(r, r.got[item.of], item.width, item.name, Values)
    [] item.kind = "text" -> TakesText(r, item)
    [] item.kind = "blob" -> Takes(r, 1, r.got[item.of], item.name, LAMBDA f : f[1][1])
    [] item.kind = "blobs" -> TakesBuckets(r, item)

(* What is read, if the payload has it all.                                *)
Read(fields, items) ==
  LET r == FoldLeft(TakesItem, [ok |-> TRUE, left |-> fields, got |-> <<>>], items) IN
  IF r.ok THEN {r.got} ELSE {}

-------------------------------------------------------------------------------
(* The texts a fixed array of n characters can hold, at their longest.     *)
Longest(word, n) == <<word, n - 1>>
Empty == <<"", 0>>

(* HELLO: what a player runs.                                              *)
Hellos == [proto : {38}, gpak_hash : {101}, build_hash : {102},
           name : {Empty, Longest("player", 64)}]
EncHello(m) == Payload("HELLO", Small,
  U32(m.proto) \o U64(m.gpak_hash) \o U64(m.build_hash) \o Str(m.name))
DecHello(r) == Read(r,
  <<Num("proto", 4), Num("gpak_hash", 8), Num("build_hash", 8), Chars("name", 64)>>)

(* WELCOME: the generator's state and the cats of net_control, if any.     *)
Welcomes ==
  {[rng_state |-> rng, cat_count |-> n, cats |-> [i \in 1 .. n |-> 7 + i]] :
     rng \in {<<0, 0, 0, 0>>, <<1, 2, 3, 4>>}, n \in {0, 2, 32}}
EncWelcome(m) == Payload("WELCOME", Small,
  Each(8, m.rng_state) \o U8(m.cat_count) \o Each(1, m.cats))
DecWelcome(r) == {m \in
  Read(r, <<Array("rng_state", 4, 8), Num("cat_count", 1), List("cats", "cat_count", 1)>>) :
  m.cat_count <= 32}

(* REFUSE: why; the reason is composed in an array of 160.                 *)
Refusals == [refuse : {Longest("another version", 160)}]
EncRefuse(m) == Payload("REFUSE", Small, Str(m.refuse))
DecRefuse(r) == Read(r, <<Chars("refuse", 192)>>)

(* ACTION: a decision, of type 2 (an ability) or 3 (the turn's end).       *)
Actions == [battle_id : {91}, turn : {0, 12}, actor : {3}, type : {2, 3}, slot_kind : {4},
            slot_index : {1}, b30 : {0}, b31 : {1}, tx : {-3}, ty : {5}, dx : {-1},
            dy : {0}, gon : {Longest("ability", 64)}]
EncAction(m) == Payload("ACTION", Small,
  U64(m.battle_id) \o U32(m.turn) \o U8(m.actor) \o U8(m.type) \o U8(m.slot_kind)
  \o U8(m.slot_index) \o U8(m.b30) \o U8(m.b31) \o U32(m.tx) \o U32(m.ty)
  \o U32(m.dx) \o U32(m.dy) \o Str(m.gon))
DecAction(r) == {m \in
  Read(r, <<Num("battle_id", 8), Num("turn", 4), Num("actor", 1), Num("type", 1),
            Num("slot_kind", 1), Num("slot_index", 1), Num("b30", 1), Num("b31", 1),
            Num("tx", 4), Num("ty", 4), Num("dx", 4), Num("dy", 4), Chars("gon", 64)>>) :
  m.type \in {2, 3}}

(* HASH: the state at a turn's start.                                      *)
Hashes == [battle_id : {91}, turn : {0, 12}, rng_hash : {103}, state_hash : {104},
           queue_depth : {6}, queue_sig : {105}]
EncHash(m) == Payload("HASH", Small,
  U64(m.battle_id) \o U32(m.turn) \o U64(m.rng_hash) \o U64(m.state_hash)
  \o U32(m.queue_depth) \o U32(m.queue_sig))
DecHash(r) == Read(r,
  <<Num("battle_id", 8), Num("turn", 4), Num("rng_hash", 8), Num("state_hash", 8),
    Num("queue_depth", 4), Num("queue_sig", 4)>>)

(* CONTROL: the cats a player claims, at most as many as the array holds.  *)
Controls == {[battle_id |-> 91, humans |-> n, count |-> n, cats |-> [i \in 1 .. n |-> 7 + i]] :
               n \in {0, 2, 32}}
EncControl(m) == Payload("CONTROL", Small,
  U64(m.battle_id) \o U32(m.humans) \o U8(m.count) \o Each(1, m.cats))
DecControl(r) == {m \in
  Read(r, <<Num("battle_id", 8), Num("humans", 4), Num("count", 1), List("cats", "count", 1)>>) :
  m.count <= 32}

(* PEERS: the members, and which the receiver is: all of a full session,   *)
(* the two of a small one, or those who were there before the receiver's   *)
(* link came live (host_publish_roster reads the links twice).             *)
Rosters == {[you |-> 1, count |-> Len(ids), ids |-> ids] :
              ids \in {<<0, 1, 2, 3>>, <<0, 1>>, <<0, 2>>}}
EncPeers(m) == Payload("PEERS", 64, U8(m.you) \o U8(m.count) \o Each(1, m.ids))
DecPeers(r) == {m \in
  Read(r, <<Num("you", 1), Num("count", 1), List("ids", "count", 1)>>) :
  /\ m.count \in 1 .. MaxPeers
  /\ \A i \in 2 .. m.count : m.ids[i] > m.ids[i - 1]
  /\ \E i \in 1 .. m.count : m.ids[i] = m.you}

(* AIM: what the acting player points at; a stop names nothing.            *)
NoAim == [battle_id |-> 91, cat |-> 3, active |-> 0, slot_kind |-> 0, slot_index |-> 0,
          tx |-> 0, ty |-> 0, dx |-> 0, dy |-> 0, gon |-> Empty]
Aims == {NoAim} \cup
        [battle_id : {91}, cat : {3}, active : {1}, slot_kind : {4}, slot_index : {2},
         tx : {-3}, ty : {6}, dx : {-1}, dy : {1}, gon : {Longest("ability", 64)}]
EncAim(m) == Payload("AIM", Small,
  U64(m.battle_id) \o U8(m.cat) \o U8(m.active) \o U8(m.slot_kind) \o U8(m.slot_index)
  \o U32(m.tx) \o U32(m.ty) \o U32(m.dx) \o U32(m.dy) \o Str(m.gon))
DecAim(r) == {m \in
  Read(r, <<Num("battle_id", 8), Num("cat", 1), Num("active", 1), Num("slot_kind", 1),
            Num("slot_index", 1), Num("tx", 4), Num("ty", 4), Num("dx", 4), Num("dy", 4),
            Chars("gon", 64)>>) :
  {m.tx, m.ty} \subseteq -1000 .. 1000 /\ {m.dx, m.dy} \subseteq -8 .. 8}

(* FACE: where an owned cat looks, one step away.                          *)
Faces == [battle_id : {91}, cat : {3}, fx : {-1}, fy : {1}]
EncFace(m) == Payload("FACE", Small,
  U64(m.battle_id) \o U8(m.cat) \o U32(m.fx) \o U32(m.fy))
DecFace(r) == {m \in
  Read(r, <<Num("battle_id", 8), Num("cat", 1), Num("fx", 4), Num("fy", 4)>>) :
  {m.fx, m.fy} \subseteq -8 .. 8}

(* CURSOR: a tile of a grid of at most 4096, off the board an old one; on  *)
(* the map a place on the screen, here in hundredths.                      *)
Cursors == [battle_id : {91}, x : {4095}, y : {0}, on_board : {1}, owns_turn : {0},
            nx : {0}, ny : {0}, mode : {2}]
           \cup [battle_id : {91}, x : {-1}, y : {-1}, on_board : {0}, owns_turn : {1},
                 nx : {0}, ny : {0}, mode : {0}]
           \cup [battle_id : {0}, x : {0}, y : {0}, on_board : {0}, owns_turn : {1},
                 nx : {-99}, ny : {199}, mode : {0}]
EncCursor(m) == Payload("CURSOR", Small,
  U64(m.battle_id) \o U32(m.x) \o U32(m.y) \o U8(m.on_board) \o U8(m.owns_turn)
  \o U32(m.nx) \o U32(m.ny) \o U8(m.mode))
DecCursor(r) == {m \in
  Read(r, <<Num("battle_id", 8), Num("x", 4), Num("y", 4), Num("on_board", 1),
            Num("owns_turn", 1), Num("nx", 4), Num("ny", 4), Num("mode", 1)>>) :
  /\ {m.nx, m.ny} \subseteq -99 .. 199
  /\ m.on_board # 0 => {m.x, m.y} \subseteq 0 .. 4095}

(* SCREENVOTE: ready to leave an event, a shop or a chest.                 *)
ScreenVotes == [kind : {0, 1, 2}]
EncScreenVote(m) == Payload("SCREENVOTE", Small, U8(m.kind))
DecScreenVote(r) == {m \in Read(r, <<Num("kind", 1)>>) : m.kind \in {0, 1, 2}}

(* SHOPBUY: the slot bought, and the item's name.                          *)
ShopBuys == [slot : {<<"i1", 2>>, Longest("slot", 8)}, name : {Empty, Longest("item", 64)}]
EncShopBuy(m) == Payload("SHOPBUY", Small, Str(m.slot) \o Str(m.name))
DecShopBuy(r) == {m \in Read(r, <<Chars("slot", 8), Chars("name", 64)>>) : m.slot[2] > 0}

(* LEVELUPTARGET: whose level-up a purchase opened.                        *)
LevelUpTargets == [cat_id : {106}]
EncLevelUpTarget(m) == Payload("LEVELUPTARGET", Small, U64(m.cat_id))
DecLevelUpTarget(r) == {m \in Read(r, <<Num("cat_id", 8)>>) : m.cat_id # 0}

(* CURSORPING: a key is held, or released.                                 *)
CursorPings == [active : {0, 1}]
EncCursorPing(m) == Payload("CURSORPING", Small, U8(IF m.active # 0 THEN 1 ELSE 0))
DecCursorPing(r) == Read(r, <<Num("active", 1)>>)

(* ENTERNODE: the node the host is in.                                     *)
EnterNodes == [index : {6}, node_count : {40}, type : {5}, seed0 : {107}]
EncEnterNode(m) == Payload("ENTERNODE", Small,
  U32(m.index) \o U32(m.node_count) \o U32(m.type) \o U64(m.seed0))
DecEnterNode(r) == Read(r,
  <<Num("index", 4), Num("node_count", 4), Num("type", 4), Num("seed0", 8)>>)

(* CHOICE: the option picked on an event or a level-up.                    *)
ChoicesMade == [kind : {0, 1}, index : {2}, count : {4}, aux : {7}, node_seed : {0, 107},
            name : {Empty, Longest("option", 48)}]
EncChoice(m) == Payload("CHOICE", Small,
  U8(m.kind) \o U32(m.index) \o U32(m.count) \o U32(m.aux) \o U64(m.node_seed) \o Str(m.name))
DecChoice(r) == Read(r,
  <<Num("kind", 1), Num("index", 4), Num("count", 4), Num("aux", 4), Num("node_seed", 8),
    Chars("name", 48)>>)

(* NODEHASH: a sample of the run at a node.                                *)
NodeHashes == [node_seed : {107}, node_index : {6}, point : {0, 1}, rng : {<<1, 2, 3, 4>>},
               hist_hash : {108}, cats_hash : {109}, cat_count : {29}, inv_hash : {110},
               event : {Empty, Longest("event", 48)}]
EncNodeHash(m) == Payload("NODEHASH", Small,
  U64(m.node_seed) \o U32(m.node_index) \o U8(m.point) \o Each(8, m.rng)
  \o U64(m.hist_hash) \o U64(m.cats_hash) \o U32(m.cat_count) \o U64(m.inv_hash)
  \o Str(m.event))
DecNodeHash(r) == Read(r,
  <<Num("node_seed", 8), Num("node_index", 4), Num("point", 1), Array("rng", 4, 8),
    Num("hist_hash", 8), Num("cats_hash", 8), Num("cat_count", 4), Num("inv_hash", 8),
    Chars("event", 48)>>)

(* HOSTLEFT, OWNERSHIP and HALT.                                           *)
HostLefts == [scene : {Empty, Longest("scene", 32)}]
EncHostLeft(m) == Payload("HOSTLEFT", Small, Str(m.scene))
DecHostLeft(r) == Read(r, <<Chars("scene", 32)>>)

Ownerships == {[count |-> n, owner |-> [i \in 1 .. n |-> i % 2]] : n \in {1, OwnershipSlots}}
EncOwnership(m) == IF m.count > OwnershipSlots THEN <<>> ELSE
  Payload("OWNERSHIP", Small, U32(m.count) \o Each(1, m.owner))
DecOwnership(r) == {m \in Read(r, <<Num("count", 4), List("owner", "count", 1)>>) :
  m.count <= OwnershipSlots}

Halts == [turn : {12}, reason : {Empty, Longest("reason", 192)}]
EncHalt(m) == Payload("HALT", Small, U32(m.turn) \o Str(m.reason))
DecHalt(r) == Read(r, <<Num("turn", 4), Chars("reason", 192)>>)

-------------------------------------------------------------------------------
(* The messages with bytes of their own.  The bytes are written to a       *)
(* buffer as large as the bytes and a margin, when that is within a frame; *)
(* the receiver copies them to a buffer it owns.                           *)
CatDataFrameSize(m) == m.size + 64
CatData == [id : {111}, size : {1, MaxCatBytes}, hash : {112}, data : {"cat"}]
EncCatData(m) ==
  IF m.size \notin 1 .. MaxCatBytes THEN <<>> ELSE
  Payload("CATDATA", CatDataFrameSize(m),
    U64(m.id) \o U32(m.size) \o U64(m.hash) \o Raw(m.data, m.size))
DecCatData(r) == {m \in
  Read(r, <<Num("id", 8), Num("size", 4), Num("hash", 8), Blob("data", "size")>>) :
  m.size \in 1 .. MaxCatBytes}

RunHistFrameSize(m) == m.size + 64
RunHists == [size : {1, MaxFrame - 64, MaxRunHistBytes}, hash : {112}, data : {"history"}]
EncRunHist(m) ==
  IF m.size \notin 1 .. MaxRunHistBytes THEN <<>> ELSE
  Payload("RUNHIST", RunHistFrameSize(m), U32(m.size) \o U64(m.hash) \o Raw(m.data, m.size))
DecRunHist(r) == {m \in
  Read(r, <<Num("size", 4), Num("hash", 8), Blob("data", "size")>>) :
  m.size \in 1 .. MaxRunHistBytes}

SaveFileFrameSize(m) == m.size + 128
SaveFiles ==
  [slot : {2}, size : {1, MaxFrame - 128, MaxSaveBytes}, hash : {113},
   name : {Longest("file", 64)}, fresh : {0}, ready : {1}, data : {"save"}]
EncSaveFile(m) ==
  IF m.size \notin 1 .. MaxSaveBytes THEN <<>> ELSE
  Payload("SAVEFILE", SaveFileFrameSize(m),
    U32(m.slot) \o U32(m.size) \o U64(m.hash) \o Str(m.name) \o U8(m.fresh) \o U8(m.ready)
    \o Raw(m.data, m.size))
DecSaveFile(r) == {m \in
  Read(r, <<Num("slot", 4), Num("size", 4), Num("hash", 8), Chars("name", 64),
            Num("fresh", 1), Num("ready", 1), Blob("data", "size")>>) :
  m.size \in 1 .. MaxSaveBytes}

(* Every record of a dump has the one stride of its sender.                *)
CatState == 41
StateDumpFrameSize(m) == m.size + 64
StateDumps == {[battle_id |-> 91, turn |-> 12, count |-> n, stride |-> CatState,
                size |-> n * CatState, data |-> "states"] : n \in {1, MaxDumpCats}}
EncStateDump(m) ==
  IF m.size \notin 1 .. MaxDumpBytes THEN <<>> ELSE
  Payload("STATEDUMP", StateDumpFrameSize(m),
    U64(m.battle_id) \o U32(m.turn) \o U32(m.count) \o U32(m.stride) \o U32(m.size)
    \o Raw(m.data, m.size))
DecStateDump(r) == {m \in
  Read(r, <<Num("battle_id", 8), Num("turn", 4), Num("count", 4), Num("stride", 4),
            Num("size", 4), Blob("data", "size")>>) :
  /\ m.count \in 1 .. MaxDumpCats /\ m.stride > 0 /\ m.size \in 1 .. MaxDumpBytes
  /\ m.size = m.count * m.stride}

(* INVENTORY: coins, food and boxes, and three buckets, some of them empty.*)
Total(sizes) == sizes[1] + sizes[2] + sizes[3]
InventoryFrameSize(m) == Total(m.size) + 64
Bucket == <<"backpack", "storage", "trash">>
Held(sizes) == [coins |-> 3, food |-> 4, boxes |-> 5, hash |-> 114, seq |-> 9, size |-> sizes,
                data |-> [i \in 1 .. 3 |-> IF sizes[i] = 0 THEN Nothing ELSE Bucket[i]]]
Inventories == {Held(s) : s \in
  {<<0, 0, 0>>, <<1, 0, 2>>, <<MaxInvBytes, 0, MaxInvBytes - 64>>,
   <<MaxInvBytes, MaxInvBytes, 1>>}}
Filled(m) == SelectSeq([i \in 1 .. 3 |-> <<m.data[i], m.size[i]>>], LAMBDA f : f[2] > 0)
EncInventory(m) ==
  IF \E i \in 1 .. 3 : m.size[i] > MaxInvBytes THEN <<>> ELSE
  Payload("INVENTORY", InventoryFrameSize(m),
    U32(m.coins) \o U32(m.food) \o U32(m.boxes) \o U64(m.hash) \o U32(m.seq)
    \o Each(4, m.size) \o Filled(m))
DecInventory(r) == {m \in
  Read(r, <<Num("coins", 4), Num("food", 4), Num("boxes", 4), Num("hash", 8), Num("seq", 4),
            Array("size", 3, 4), Blobs("data", "size")>>) :
  \A i \in 1 .. 3 : m.size[i] <= MaxInvBytes}

-------------------------------------------------------------------------------
(* One message of any type: the type and the body.                         *)
Bodies(type) ==
  CASE type = "HELLO" -> Hellos            [] type = "WELCOME" -> Welcomes
    [] type = "REFUSE" -> Refusals         [] type = "ACTION" -> Actions
    [] type = "HASH" -> Hashes             [] type = "CONTROL" -> Controls
    [] type = "PEERS" -> Rosters           [] type = "AIM" -> Aims
    [] type = "FACE" -> Faces              [] type = "CURSOR" -> Cursors
    [] type = "SCREENVOTE" -> ScreenVotes  [] type = "SHOPBUY" -> ShopBuys
    [] type = "LEVELUPTARGET" -> LevelUpTargets
    [] type = "CURSORPING" -> CursorPings  [] type = "ENTERNODE" -> EnterNodes
    [] type = "CHOICE" -> ChoicesMade          [] type = "NODEHASH" -> NodeHashes
    [] type = "HOSTLEFT" -> HostLefts      [] type = "OWNERSHIP" -> Ownerships
    [] type = "HALT" -> Halts              [] type = "CATDATA" -> CatData
    [] type = "RUNHIST" -> RunHists        [] type = "SAVEFILE" -> SaveFiles
    [] type = "STATEDUMP" -> StateDumps    [] type = "INVENTORY" -> Inventories

MessagesOf(type) == {type} \X Bodies(type)

(* Whether its sender gives it to the link (the net_send functions).       *)
FrameSize(m) ==
  CASE m[1] = "CATDATA" -> CatDataFrameSize(m[2])
    [] m[1] = "RUNHIST" -> RunHistFrameSize(m[2])
    [] m[1] = "SAVEFILE" -> SaveFileFrameSize(m[2])
    [] m[1] = "STATEDUMP" -> StateDumpFrameSize(m[2])
    [] m[1] = "INVENTORY" -> InventoryFrameSize(m[2])
    [] OTHER -> Small
Fits(m) == FrameSize(m) <= MaxFrame

Encoded(m) ==
  CASE m[1] = "HELLO" -> EncHello(m[2])
    [] m[1] = "WELCOME" -> EncWelcome(m[2])
    [] m[1] = "REFUSE" -> EncRefuse(m[2])
    [] m[1] = "ACTION" -> EncAction(m[2])
    [] m[1] = "HASH" -> EncHash(m[2])
    [] m[1] = "CONTROL" -> EncControl(m[2])
    [] m[1] = "PEERS" -> EncPeers(m[2])
    [] m[1] = "AIM" -> EncAim(m[2])
    [] m[1] = "FACE" -> EncFace(m[2])
    [] m[1] = "CURSOR" -> EncCursor(m[2])
    [] m[1] = "SCREENVOTE" -> EncScreenVote(m[2])
    [] m[1] = "SHOPBUY" -> EncShopBuy(m[2])
    [] m[1] = "LEVELUPTARGET" -> EncLevelUpTarget(m[2])
    [] m[1] = "CURSORPING" -> EncCursorPing(m[2])
    [] m[1] = "ENTERNODE" -> EncEnterNode(m[2])
    [] m[1] = "CHOICE" -> EncChoice(m[2])
    [] m[1] = "NODEHASH" -> EncNodeHash(m[2])
    [] m[1] = "HOSTLEFT" -> EncHostLeft(m[2])
    [] m[1] = "OWNERSHIP" -> EncOwnership(m[2])
    [] m[1] = "HALT" -> EncHalt(m[2])
    [] m[1] = "CATDATA" -> EncCatData(m[2])
    [] m[1] = "RUNHIST" -> EncRunHist(m[2])
    [] m[1] = "SAVEFILE" -> EncSaveFile(m[2])
    [] m[1] = "STATEDUMP" -> EncStateDump(m[2])
    [] m[1] = "INVENTORY" -> EncInventory(m[2])

BodiesRead(type, r) ==
  CASE type = "HELLO" -> DecHello(r)           [] type = "WELCOME" -> DecWelcome(r)
    [] type = "REFUSE" -> DecRefuse(r)         [] type = "ACTION" -> DecAction(r)
    [] type = "HASH" -> DecHash(r)             [] type = "CONTROL" -> DecControl(r)
    [] type = "PEERS" -> DecPeers(r)           [] type = "AIM" -> DecAim(r)
    [] type = "FACE" -> DecFace(r)             [] type = "CURSOR" -> DecCursor(r)
    [] type = "SCREENVOTE" -> DecScreenVote(r) [] type = "SHOPBUY" -> DecShopBuy(r)
    [] type = "LEVELUPTARGET" -> DecLevelUpTarget(r)
    [] type = "CURSORPING" -> DecCursorPing(r) [] type = "ENTERNODE" -> DecEnterNode(r)
    [] type = "CHOICE" -> DecChoice(r)         [] type = "NODEHASH" -> DecNodeHash(r)
    [] type = "HOSTLEFT" -> DecHostLeft(r)     [] type = "OWNERSHIP" -> DecOwnership(r)
    [] type = "HALT" -> DecHalt(r)             [] type = "CATDATA" -> DecCatData(r)
    [] type = "RUNHIST" -> DecRunHist(r)       [] type = "SAVEFILE" -> DecSaveFile(r)
    [] type = "STATEDUMP" -> DecStateDump(r)   [] type = "INVENTORY" -> DecInventory(r)

(* decode_into: the messages, at most one, that a payload is read as.      *)
Decoded(payload) ==
  LET type == MsgType[payload[1][1]] IN
  IF payload[1][2] # 1 \/ payload[1][1] \notin DOMAIN MsgType THEN {} ELSE
  {type} \X (IF type = "PING" THEN {Nothing} ELSE BodiesRead(type, Tail(payload)))
==============================================================================
