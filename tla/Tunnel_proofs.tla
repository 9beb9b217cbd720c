---------------------------- MODULE Tunnel_proofs ----------------------------
(***************************************************************************)
(* The tunnel implements FrameTransport, for every MTU, pool size, packet  *)
(* format and number of frames and packets under way, as long as the       *)
(* faults are those the sequence check can tell: none, with any number of  *)
(* wraps; or, before half of the numbers are used up, either restarts of   *)
(* the sender, or any mixture of losses, duplicates and overtakings.       *)
(* Under the same conditions no frame is altered, and after losses or      *)
(* restarts only frames are missing of which bytes were lost.              *)
(*                                                                         *)
(* The stream of items that the encoder writes is seen as a sequence of    *)
(* points: between two items there is the one at which the next item has   *)
(* to begin.  What is under way continues from point to point (Chain);     *)
(* whether the decoder is where the next packet begins is the question its *)
(* sequence check has to answer (Sync); and from one end of the tunnel to  *)
(* the other no frame is left out that nothing happened to (Accounted).    *)
(***************************************************************************)
EXTENDS Tunnel, SequenceTheorems, WellFoundedInduction, TLAPS

Nowhere == [frame |-> Corrupt, format |-> "NONE", dictionary |-> <<>>, total |-> 0]

(* Between two frames: frame id is next, compressed with this dictionary.  *)
Fresh(id, dict) ==
  [id |-> id, blob |-> Nowhere, part |-> 1, pos |-> 0, dict |-> dict]

(* Within a blob: its next part and position. *)
Inside(blob, part, pos) ==
  [id |-> blob.frame.id, blob |-> blob, part |-> part, pos |-> pos,
   dict |-> blob.dictionary]

Before(it) ==
  IF it.part <= 1 THEN Fresh(it.blob.frame.id, it.blob.dictionary)
  ELSE Inside(it.blob, it.part, it.pos)

After(it) ==
  IF it.type = "PARTIAL"
  THEN Inside(it.blob, it.part + 1, it.pos + it.payload_length)
  ELSE Fresh(it.blob.frame.id + 1,
             IF it.type = "COMPLETE"
             THEN Learn(it.blob.dictionary, it.format, it.blob.frame) ELSE <<>>)

First(items) == Before(items[1])
LastOf(items) == items[Len(items)]

(* Behind a packet: both ends forget what a complete last item taught them. *)
End(items) ==
  IF LastOf(items).type = "COMPLETE"
  THEN Fresh(LastOf(items).blob.frame.id + 1, <<>>)
  ELSE After(LastOf(items))

-----------------------------------------------------------------------------
(* What is under way is well formed, and of taken frames acc only. *)
FrameRec == [id : Nat, size : Nat]
Blob == [frame : FrameRec, format : Formats, total : Nat, dictionary : Seq(Nat)]
Piece == [type : ItemTypes, part : Nat, format : Formats, packet_size : Nat,
          payload_length : Nat, blob : Blob, pos : Nat]
Packet == [seq : Nat, fault : {"none"}, opt_len : Nat, size : Nat,
           items : Seq(Piece)]

FrameGood(f, acc) == f.id \in DOMAIN acc /\ f = acc[f.id]

BlobGood(b, acc) ==
  /\ b \in Blob
  /\ b.format = PacketFormat
  /\ FrameGood(b.frame, acc)
  /\ b.frame.size <= L2MTU
  /\ b.total <= BufferSize
  /\ PacketFormat = "NONE" => b.total = b.frame.size
  /\ PacketFormat # "LZ4" => b.dictionary = <<>>

ItemGood(it, acc) ==
  /\ it \in Piece
  /\ BlobGood(it.blob, acc)
  /\ it.format = it.blob.format /\ it.packet_size = it.blob.frame.size
  /\ it.pos + it.payload_length <= it.blob.total
  /\ it.type = "COMPLETE" => it.part = 0
  /\ it.type # "COMPLETE" => it.part >= 1
  /\ it.part <= 1 => it.pos = 0
  /\ it.type # "PARTIAL" => it.pos + it.payload_length = it.blob.total

ItemsGood(items, acc) ==
  /\ items \in Seq(Piece)
  /\ \A i \in 1..Len(items) : ItemGood(items[i], acc)
  /\ \A i \in 1..(Len(items) - 1) : Before(items[i + 1]) = After(items[i])
  /\ \A i \in 1..Len(items) : items[1].blob.frame.id <= items[i].blob.frame.id
  /\ items # <<>> => (First(items).part = 1 => First(items).dict = <<>>)

StartsAt(start, items, size) ==
  /\ start \in [1..(Len(items) + 1) -> Nat]
  /\ start[1] = HeaderSize /\ start[Len(items) + 1] = size
  /\ \A i \in 1..Len(items) :
       /\ start[i + 1] = start[i] + OptionSize + items[i].payload_length
       /\ start[i + 1] <= size

(* The items fill the packet exactly. *)
Laid(items, size) ==
  \E start \in [1..(Len(items) + 1) -> Nat] : StartsAt(start, items, size)

PacketGood(p, acc) ==
  /\ p \in Packet
  /\ p.opt_len = 1
  /\ p.size <= L4MTU
  /\ p.seq \in 1..(SeqMax - 1)
  /\ p.items # <<>>
  /\ ItemsGood(p.items, acc)
  /\ Laid(p.items, p.size)

TakenGood ==
  /\ taken \in Seq(FrameRec)
  /\ \A k \in 1..Len(taken) :
       taken[k].id = k /\ taken[k].size \in FrameSizes

(* The frames in the encoder pool are those that come next. *)
QueueGood ==
  /\ encoder_pool \in Seq(FrameRec)
  /\ \A k \in 1..Len(encoder_pool) :
       /\ encoder_pool[k].id = Len(taken) + k
       /\ encoder_pool[k].size \in FrameSizes

-----------------------------------------------------------------------------
(* The constants in the form the arithmetic below needs. *)
LEMMA Numbers ==
  /\ L2MTU \in Nat /\ L4MTU \in Nat /\ BufferSize \in Nat /\ BufferSize >= L2MTU
  /\ L4MTU >= 104 /\ L4MTU + 8 < PosRange /\ PosRange = 65536
  /\ HeaderSize = 8 /\ OptionSize = 8
  /\ SeqMax \in Nat /\ SeqMax >= 5
  /\ PacketFormat \in Formats /\ CompressedSizes \subseteq 1..BufferSize
  /\ FrameSizes \subseteq 1..L2MTU
  /\ MaxFrames \in Nat /\ MaxWire \in Nat \ {0} /\ MaxFaults \in Nat
BY SizeAssumption, SeqAssumption, TunnelAssumption
DEF HeaderSize, OptionSize, FlushReserve, PosRange

(* The points before and after an item. *)
LEMMA ItemPoints ==
  ASSUME NEW it \in Piece
  PROVE  /\ it.part \in Nat /\ it.pos \in Nat /\ it.payload_length \in Nat
         /\ it.blob \in Blob /\ it.blob.frame.id \in Nat
         /\ it.blob.frame.size \in Nat /\ it.blob.total \in Nat
         /\ it.blob.dictionary \in Seq(Nat)
         /\ Before(it).id = it.blob.frame.id
         /\ Before(it).part = IF it.part <= 1 THEN 1 ELSE it.part
         /\ Before(it).dict = it.blob.dictionary
         /\ it.type = "PARTIAL" =>
              After(it) = Inside(it.blob, it.part + 1, it.pos + it.payload_length)
         /\ After(it).id =
              IF it.type = "PARTIAL" THEN it.blob.frame.id ELSE it.blob.frame.id + 1
         /\ After(it).part = IF it.type = "PARTIAL" THEN it.part + 1 ELSE 1
BY DEF Piece, Blob, FrameRec, Before, After, Fresh, Inside

(* A frame stays the taken frame it is when more are taken. *)
Longer(acc, more) ==
  /\ acc \in Seq(FrameRec) /\ more \in Seq(FrameRec)
  /\ Len(acc) <= Len(more)
  /\ \A k \in 1..Len(acc) : more[k] = acc[k]

LEMMA FrameGrows ==
  ASSUME NEW acc, NEW more, Longer(acc, more), NEW g, FrameGood(g, acc)
  PROVE  FrameGood(g, more)
<1>1. /\ DOMAIN acc = 1..Len(acc) /\ Len(acc) \in Nat
      /\ DOMAIN more = 1..Len(more) /\ Len(more) \in Nat
  BY LenProperties DEF Longer
<1>2. g.id \in 1..Len(acc) /\ g = acc[g.id]
  BY <1>1 DEF FrameGood
<1>. QED BY <1>1, <1>2 DEF FrameGood, Longer

LEMMA ItemGrows ==
  ASSUME NEW acc, NEW more, Longer(acc, more), NEW it, ItemGood(it, acc)
  PROVE  ItemGood(it, more)
<1>1. FrameGood(it.blob.frame, more)
  BY FrameGrows DEF ItemGood, BlobGood
<1>. QED BY <1>1 DEF ItemGood, BlobGood

LEMMA ItemsGrow ==
  ASSUME NEW acc, NEW more, Longer(acc, more), NEW items, ItemsGood(items, acc)
  PROVE  ItemsGood(items, more)
<1>1. \A i \in 1..Len(items) : ItemGood(items[i], more)
  BY ItemGrows DEF ItemsGood
<1>. QED BY <1>1 DEF ItemsGood

LEMMA PacketGrows ==
  ASSUME NEW acc, NEW more, Longer(acc, more), NEW p, PacketGood(p, acc)
  PROVE  PacketGood(p, more)
<1>1. ItemsGood(p.items, more)
  BY ItemsGrow DEF PacketGood
<1>. QED BY <1>1 DEF PacketGood

LEMMA LongerAppend ==
  ASSUME NEW acc \in Seq(FrameRec), NEW f \in FrameRec
  PROVE  Longer(acc, Append(acc, f)) /\ Longer(acc, acc)
BY AppendProperties, LenProperties DEF Longer

LEMMA LongerConcat ==
  ASSUME NEW acc \in Seq(FrameRec), NEW more \in Seq(FrameRec)
  PROVE  Longer(acc, acc \o more)
BY ConcatProperties, LenProperties DEF Longer

(* What any step does to the taken frames. *)
Growing == taken' = taken \/ Longer(taken, taken')

(* An item that continues where the items end may be added to them. *)
LEMMA ItemAdded ==
  ASSUME NEW acc, NEW items, ItemsGood(items, acc), NEW it, ItemGood(it, acc),
         items # <<>> => Before(it) = After(LastOf(items)),
         items = <<>> => (Before(it).part = 1 => Before(it).dict = <<>>)
  PROVE  /\ ItemsGood(Append(items, it), acc)
         /\ Append(items, it) # <<>>
         /\ LastOf(Append(items, it)) = it
         /\ First(Append(items, it)) =
              IF items = <<>> THEN Before(it) ELSE First(items)
<1> DEFINE new == Append(items, it)
<1>1. items \in Seq(Piece) /\ it \in Piece
  BY DEF ItemsGood, ItemGood
<1>2. /\ Len(items) \in Nat /\ new \in Seq(Piece)
      /\ Len(new) = Len(items) + 1
      /\ \A i \in 1..Len(items) : new[i] = items[i]
      /\ new[Len(items) + 1] = it
      /\ items = <<>> <=> Len(items) = 0
  BY <1>1, AppendProperties, LenProperties, EmptySeq
<1>3. new # <<>> /\ LastOf(new) = it
  BY <1>2 DEF LastOf
<1>4. First(new) = IF items = <<>> THEN Before(it) ELSE First(items)
  <2>1. CASE items = <<>>
    BY <1>2, <2>1 DEF First
  <2>2. CASE items # <<>>
    <3>1. 1 \in 1..Len(items)
      BY <1>2, <2>2
    <3>. QED BY <1>2, <2>2, <3>1 DEF First
  <2>. QED BY <2>1, <2>2
<1>5. \A i \in 1..Len(new) : ItemGood(new[i], acc)
  BY <1>2 DEF ItemsGood
<1>6. \A i \in 1..(Len(new) - 1) : Before(new[i + 1]) = After(new[i])
  <2>. SUFFICES ASSUME NEW i \in 1..(Len(new) - 1)
                PROVE  Before(new[i + 1]) = After(new[i])
    OBVIOUS
  <2>1. CASE i = Len(items)
    <3>1. items # <<>> /\ new[i] = LastOf(items) /\ new[i + 1] = it
      BY <1>2, <2>1 DEF LastOf
    <3>. QED BY <3>1
  <2>2. CASE i # Len(items)
    <3>1. i \in 1..(Len(items) - 1) /\ i \in 1..Len(items) /\ i + 1 \in 1..Len(items)
      BY <1>2, <2>2
    <3>2. new[i] = items[i] /\ new[i + 1] = items[i + 1]
      BY <1>2, <3>1
    <3>. QED BY <3>1, <3>2 DEF ItemsGood
  <2>. QED BY <2>1, <2>2
<1>7. \A i \in 1..Len(new) : new[1].blob.frame.id <= new[i].blob.frame.id
  <2>. SUFFICES ASSUME NEW i \in 1..Len(new)
                PROVE  new[1].blob.frame.id <= new[i].blob.frame.id
    OBVIOUS
  <2>1. CASE items = <<>>
    <3>1. i = 1
      BY <1>2, <2>1
    <3>. QED BY <1>1, <1>2, <2>1, <3>1, ItemPoints
  <2>2. CASE i # Len(items) + 1
    <3>1. i \in 1..Len(items) /\ 1 \in 1..Len(items)
      BY <1>2, <2>2
    <3>. QED BY <1>2, <3>1 DEF ItemsGood
  <2>3. CASE items # <<>> /\ i = Len(items) + 1
    <3>1. 1 \in 1..Len(items) /\ Len(items) \in 1..Len(items)
      BY <1>2, <2>3
    <3>2. /\ items[1] \in Piece /\ LastOf(items) \in Piece
          /\ items[1].blob.frame.id <= LastOf(items).blob.frame.id
      BY <3>1, ElementOfSeq, <1>1 DEF ItemsGood, LastOf
    <3>3. /\ items[1].blob.frame.id \in Nat
          /\ LastOf(items).blob.frame.id \in Nat /\ it.blob.frame.id \in Nat
          /\ Before(it).id = it.blob.frame.id
          /\ After(LastOf(items)).id >= LastOf(items).blob.frame.id
      BY <1>1, <3>2, ItemPoints
    <3>4. it.blob.frame.id >= LastOf(items).blob.frame.id
      BY <2>3, <3>3
    <3>5. new[1] = items[1] /\ new[i] = it
      BY <1>2, <2>3, <3>1
    <3>. QED BY <3>2, <3>3, <3>4, <3>5
  <2>. QED BY <2>1, <2>2, <2>3
<1>8. First(new).part = 1 => First(new).dict = <<>>
  BY <1>4 DEF ItemsGood
<1>9. ItemsGood(new, acc)
  BY <1>2, <1>5, <1>6, <1>7, <1>8 DEF ItemsGood
<1>. QED BY <1>3, <1>4, <1>9

(* A header alone is a packet without items, and an item adds its length. *)
LEMMA LaidEmpty ==
  /\ Laid(<<>>, HeaderSize)
  /\ \A size : Laid(<<>>, size) => size = HeaderSize
<1>1. Laid(<<>>, HeaderSize)
  <2> DEFINE start == [i \in 1..1 |-> HeaderSize]
  <2>1. start \in [1..(Len(<<>>) + 1) -> Nat] /\ StartsAt(start, <<>>, HeaderSize)
    BY Numbers DEF StartsAt
  <2>. QED BY <2>1 DEF Laid
<1>2. ASSUME NEW size, Laid(<<>>, size) PROVE size = HeaderSize
  BY <1>2 DEF Laid, StartsAt
<1>. QED BY <1>1, <1>2

LEMMA LaidNonempty ==
  ASSUME NEW items \in Seq(Piece), items # <<>>, NEW size, Laid(items, size)
  PROVE  size \in Nat /\ size > HeaderSize
<1>1. PICK start \in [1..(Len(items) + 1) -> Nat] : StartsAt(start, items, size)
  BY DEF Laid
<1>2. Len(items) \in Nat /\ 1 \in 1..Len(items)
  BY LenProperties, EmptySeq
<1>3. items[1].payload_length \in Nat
  BY <1>2, ElementOfSeq, ItemPoints
<1>4. start[2] = 16 + items[1].payload_length /\ start[2] <= size /\ size \in Nat
  <2>1. /\ start[1] = HeaderSize /\ start[Len(items) + 1] = size
        /\ start[1 + 1] = start[1] + OptionSize + items[1].payload_length
        /\ start[1 + 1] <= size
    BY <1>1, <1>2 DEF StartsAt
  <2>2. Len(items) + 1 \in 1..(Len(items) + 1)
    BY <1>2
  <2>3. size \in Nat
    BY <2>1, <2>2
  <2>. QED BY <1>3, <2>1, <2>3, Numbers
<1>5. PICK k \in Nat : k = items[1].payload_length
  BY <1>3
<1>6. size \in Nat /\ 16 + k <= size
  BY <1>4, <1>5
<1>7. HeaderSize < 16
  BY Numbers
<1>. QED BY <1>6, <1>7, Numbers

LEMMA LaidAdded ==
  ASSUME NEW items \in Seq(Piece), NEW size \in Nat, Laid(items, size),
         NEW it \in Piece
  PROVE  Laid(Append(items, it), size + OptionSize + it.payload_length)
<1> DEFINE new == Append(items, it)
           total == size + OptionSize + it.payload_length
<1>1. PICK start \in [1..(Len(items) + 1) -> Nat] : StartsAt(start, items, size)
  BY DEF Laid
<1>2. /\ Len(items) \in Nat /\ Len(new) = Len(items) + 1
      /\ \A i \in 1..Len(items) : new[i] = items[i]
      /\ new[Len(items) + 1] = it
  BY AppendProperties, LenProperties
<1>3. it.payload_length \in Nat /\ total \in Nat /\ total > size
  BY ItemPoints, Numbers
<1> DEFINE more == [i \in 1..(Len(new) + 1) |->
                      IF i = Len(items) + 2 THEN total ELSE start[i]]
<1>4. more \in [1..(Len(new) + 1) -> Nat]
  BY <1>2, <1>3
<1>5. more[1] = HeaderSize /\ more[Len(new) + 1] = total
  BY <1>1, <1>2 DEF StartsAt
<1>6. ASSUME NEW i \in 1..Len(new)
      PROVE  /\ more[i + 1] = more[i] + OptionSize + new[i].payload_length
             /\ more[i + 1] <= total
  <2>1. CASE i \in 1..Len(items)
    <3>1. more[i] = start[i] /\ more[i + 1] = start[i + 1] /\ new[i] = items[i]
      BY <1>2, <2>1
    <3>2. /\ start[i + 1] = start[i] + OptionSize + items[i].payload_length
          /\ start[i + 1] <= size /\ start[i + 1] \in Nat
      BY <1>1, <1>2, <2>1 DEF StartsAt
    <3>. QED BY <1>3, <3>1, <3>2
  <2>2. CASE i = Len(items) + 1
    <3>1. more[i] = start[i] /\ more[i + 1] = total /\ new[i] = it
      BY <1>2, <2>2
    <3>2. start[i] = size
      BY <1>1, <2>2 DEF StartsAt
    <3>. QED BY <1>3, <3>1, <3>2
  <2>. QED BY <1>2, <2>1, <2>2
<1>7. StartsAt(more, new, total)
  BY <1>4, <1>5, <1>6 DEF StartsAt
<1>. QED BY <1>4, <1>7 DEF Laid

-----------------------------------------------------------------------------
(* The encoder's side.  It is between two parts of a frame while InParts,  *)
(* and Pending says that more of them are to come.                         *)
TxItems == enc_tx_buffer.items
InParts == enc_pc = "part" \/ (enc_pc = "getbuf" /\ resume = "part")
Pending == InParts /\ enc_work.pos < enc_work.blob.total

(* Where the next item that it writes begins. *)
EncPoint ==
  IF Pending
  THEN IF enc_work.part = 1
       THEN Fresh(enc_work.blob.frame.id, enc_work.blob.dictionary)
       ELSE Inside(enc_work.blob, enc_work.part, enc_work.pos)
  ELSE Fresh(Len(taken) + 1,
             IF enc_pc \in {"idle", "tail"} THEN enc_dictionary ELSE <<>>)

(* Where the next packet that it sends begins, and its number. *)
TxPoint == IF TxItems = <<>> THEN EncPoint ELSE First(TxItems)
NextSeq == IF sequence = SeqMax THEN 1 ELSE sequence

EncControl ==
  /\ enc_pc \in {"idle", "part", "tail", "finish", "flushed", "getbuf"}
  /\ resume \in {"idle", "part", "finish", "flushed"}
  /\ enc_pc = "getbuf" => resume # "idle"
  /\ sequence \in 1..SeqMax

EncPacket ==
  /\ enc_tx_buffer.size \in Nat /\ packet_count \in Nat
  /\ enc_pc \in {"getbuf", "finish", "flushed"} => TxItems = <<>>
  /\ enc_pc # "getbuf" =>
       /\ Laid(TxItems, enc_tx_buffer.size)
       /\ TxItems = <<>> => packet_count = 0 /\ opt_len = 0
       /\ TxItems # <<>> => packet_count > 0 /\ opt_len = 1

(* The packet being filled leads to where the encoder is. *)
EncItems ==
  /\ ItemsGood(TxItems, taken)
  /\ TxItems # <<>> => After(LastOf(TxItems)) = EncPoint

EncStream ==
  /\ enc_inflight \in Seq(Nat)
  /\ enc_dictionary = IF PacketFormat = "LZ4" THEN enc_inflight ELSE <<>>
  /\ enc_pc \in {"idle", "tail"} /\ TxItems = <<>> => enc_dictionary = <<>>

(* The frame being split is the last one taken. *)
EncWork ==
  InParts =>
    /\ BlobGood(enc_work.blob, taken)
    /\ enc_work.blob.frame.id = Len(taken)
    /\ enc_work.pos \in Nat /\ enc_work.part \in Nat \ {0}
    /\ enc_work.pos <= enc_work.blob.total
    /\ enc_work.part = 1 =>
         /\ enc_work.pos = 0 /\ enc_work.blob.total > 0
         /\ TxItems = <<>> => enc_work.blob.dictionary = <<>>

(* The handler waits without limit only when nothing waits for it. *)
EncTimed ==
  ~timed =>
    /\ TxItems = <<>>
    /\ enc_pc \in {"idle", "flushed"} \/ (enc_pc = "getbuf" /\ resume = "flushed")

(* A packet never exceeds the L4MTU: between frames the flush reserve is   *)
(* left, and for the next part of a frame there is room.                   *)
EncRoom ==
  /\ enc_tx_buffer.size <= L4MTU
  /\ enc_pc \in {"idle", "finish", "flushed"} => enc_tx_buffer.size + 96 <= L4MTU
  /\ enc_pc = "part" /\ Pending => enc_tx_buffer.size + 8 < L4MTU

EncInv ==
  /\ EncControl /\ EncPacket /\ EncItems /\ EncStream /\ EncWork /\ EncTimed
  /\ EncRoom

(* What the rest of the system sees of a step of the encoder: nothing, or  *)
(* one more packet, from the point where the last one ended to the next.   *)
Silent == UNCHANGED <<socket_write_pool, sequence>> /\ TxPoint' = TxPoint

Emit(p) ==
  /\ socket_write_pool' = Append(socket_write_pool, p)
  /\ PacketGood(p, taken')
  /\ p.seq = NextSeq /\ sequence' = NextSeq + 1
  /\ First(p.items) = TxPoint /\ End(p.items) = TxPoint'

-----------------------------------------------------------------------------
(* The names of the codec in the two instances mean what they mean here. *)
LEMMA EncCodec ==
  /\ Enc!HeaderSize = 8 /\ Enc!OptionSize = 8
  /\ Enc!NoBuffer = [size |-> 0, items |-> <<>>]
  /\ Enc!FreshBuffer = [size |-> 8, items |-> <<>>]
  /\ Enc!WrappedSequence = NextSeq
  /\ Enc!IsCompressed(PacketFormat) = (PacketFormat \in {"LZ4", "ZSTD"})
BY DEF Enc!HeaderSize, Enc!OptionSize, Enc!NoBuffer, Enc!FreshBuffer,
       Enc!WrappedSequence, NextSeq, Enc!IsCompressed

(* An item is added to the packet being filled. *)
LEMMA TxAdded ==
  ASSUME EncPacket, enc_pc # "getbuf", NEW acc, ItemsGood(TxItems, acc),
         NEW it, ItemGood(it, acc), Enc!AddItem(it),
         TxItems # <<>> => After(LastOf(TxItems)) = Before(it),
         TxItems = <<>> => (Before(it).part = 1 => Before(it).dict = <<>>)
  PROVE  /\ enc_tx_buffer'.size \in Nat
         /\ packet_count' \in Nat /\ packet_count' > 0 /\ opt_len' = 1
         /\ Laid(TxItems, enc_tx_buffer.size)'
         /\ TxItems' # <<>>
         /\ ItemsGood(TxItems', acc)
         /\ LastOf(TxItems') = it
         /\ First(TxItems') = IF TxItems = <<>> THEN Before(it) ELSE First(TxItems)
<1>1. /\ enc_tx_buffer' = [size  |-> enc_tx_buffer.size + 8 + it.payload_length,
                           items |-> Append(TxItems, it)]
      /\ opt_len' = IF packet_count = 0 THEN opt_len + 1 ELSE opt_len
      /\ packet_count' = packet_count + 1
  BY EncCodec DEF Enc!AddItem, TxItems
<1>2. TxItems' = Append(TxItems, it)
  BY <1>1 DEF TxItems
<1>3. TxItems \in Seq(Piece) /\ it \in Piece
  BY DEF ItemsGood, ItemGood
<1>4. Laid(TxItems, enc_tx_buffer.size) /\ enc_tx_buffer.size \in Nat
  BY DEF EncPacket
<1>5. it.payload_length \in Nat
  BY <1>3, ItemPoints
<1>6. Laid(Append(TxItems, it), enc_tx_buffer.size + 8 + it.payload_length)
  BY <1>3, <1>4, LaidAdded, Numbers
<1>7. Laid(TxItems, enc_tx_buffer.size)'
  BY <1>1, <1>2, <1>6 DEF Laid, StartsAt
<1>8. packet_count' \in Nat /\ packet_count' > 0 /\ opt_len' = 1
  BY <1>1 DEF EncPacket
<1>9. /\ ItemsGood(Append(TxItems, it), acc)
      /\ Append(TxItems, it) # <<>>
      /\ LastOf(Append(TxItems, it)) = it
      /\ First(Append(TxItems, it)) =
           IF TxItems = <<>> THEN Before(it) ELSE First(TxItems)
  BY ItemAdded
<1>10. enc_tx_buffer'.size \in Nat
  BY <1>1, <1>4, <1>5
<1>. QED BY <1>2, <1>7, <1>8, <1>9, <1>10

(* A packet of good items is handed to the socket writer. *)
LEMMA TxSent ==
  ASSUME EncControl, NEW size \in Nat, size <= L4MTU, NEW items, NEW next,
         Laid(items, size), ItemsGood(items, taken), items # <<>>,
         Enc!SendPacket(size, items, 1, next)
  PROVE  /\ enc_pc' = "getbuf" /\ resume' = next /\ TxItems' = <<>>
         /\ enc_tx_buffer'.size \in Nat /\ enc_tx_buffer'.size = 0
         /\ NextSeq \in 1..(SeqMax - 1) /\ sequence' = NextSeq + 1
         /\ sequence' \in 1..SeqMax
         /\ \E p : /\ p.items = items /\ p.seq = NextSeq
                   /\ PacketGood(p, taken)
                   /\ socket_write_pool' = Append(socket_write_pool, p)
<1> DEFINE p == [seq |-> NextSeq, fault |-> "none", opt_len |-> 1,
                 size |-> size, items |-> items]
<1>1. /\ socket_write_pool' = Append(socket_write_pool, p)
      /\ sequence' = NextSeq + 1
      /\ enc_tx_buffer' = [size |-> 0, items |-> <<>>]
      /\ enc_pc' = "getbuf" /\ resume' = next
  BY EncCodec DEF Enc!SendPacket
<1>2. NextSeq \in 1..(SeqMax - 1)
  BY Numbers DEF NextSeq, EncControl
<1>3. sequence' \in 1..SeqMax
  BY <1>1, <1>2, Numbers
<1>4. p \in Packet
  BY <1>2 DEF Packet, ItemsGood
<1>5. PacketGood(p, taken)
  BY <1>2, <1>4 DEF PacketGood
<1>6. p.items = items /\ p.seq = NextSeq
  OBVIOUS
<1>7. TxItems' = <<>> /\ enc_tx_buffer'.size = 0
  BY <1>1 DEF TxItems
<1>. QED BY <1>1, <1>2, <1>3, <1>5, <1>6, <1>7

(* _flush() between two frames: what is in the packet is sent, and the      *)
(* next frame starts a packet without a dictionary.                        *)
LEMMA FlushStep ==
  ASSUME EncInv, TakenGood, enc_pc \in {"idle", "tail"},
         NEW next \in {"finish", "flushed"}, Enc!FlushTx(next),
         UNCHANGED <<enc_work, enc_inflight, enc_dictionary, taken>>
  PROVE  /\ EncControl' /\ EncPacket' /\ EncItems' /\ EncStream' /\ EncWork'
         /\ EncRoom'
         /\ TxItems' = <<>>
         /\ enc_pc' = next \/ (enc_pc' = "getbuf" /\ resume' = next)
         /\ Silent \/ \E p : Emit(p)
<1>0. /\ ~Pending
      /\ EncPoint = Fresh(Len(taken) + 1, enc_dictionary)
      /\ Laid(TxItems, enc_tx_buffer.size)
      /\ TxItems # <<>> => opt_len = 1
      /\ TxItems \in Seq(Piece)
  BY DEF EncInv, EncPacket, EncItems, ItemsGood, EncPoint, Pending, InParts
<1>1. CASE enc_tx_buffer.size = 8
  <2>1. /\ enc_pc' = next
        /\ UNCHANGED <<socket_write_pool, sequence, enc_tx_buffer, resume,
                       opt_len, packet_count>>
    BY <1>1, EncCodec DEF Enc!FlushTx
  <2>2. TxItems = <<>>
    BY <1>0, <1>1, LaidNonempty, Numbers
  <2>3. TxItems' = <<>>
    BY <2>1, <2>2 DEF TxItems
  <2>4. enc_dictionary = <<>>
    BY <2>2 DEF EncInv, EncStream
  <2>5. EncPoint' = EncPoint
    BY <1>0, <2>1, <2>4 DEF EncPoint, Pending, InParts
  <2>6. Silent
    BY <2>1, <2>2, <2>3, <2>5 DEF Silent, TxPoint
  <2>7. EncControl' /\ EncStream' /\ EncWork'
    BY <2>1 DEF EncInv, EncControl, EncStream, EncWork, InParts
  <2>8. Laid(TxItems, enc_tx_buffer.size)'
    BY <1>0, <2>1 DEF Laid, StartsAt, TxItems
  <2>9. EncPacket'
    BY <2>1, <2>2, <2>3, <2>8 DEF EncInv, EncPacket
  <2>10. EncItems'
    BY <2>3, <2>2 DEF EncInv, EncItems
  <2>11. EncRoom'
    BY <1>1, <2>1, Numbers DEF EncRoom
  <2>. QED BY <2>1, <2>3, <2>6, <2>7, <2>9, <2>10, <2>11
<1>2. CASE enc_tx_buffer.size # 8
  <2>1. TxItems # <<>>
    BY <1>0, <1>2, LaidEmpty, Numbers
  <2>2. /\ Enc!SendPacket(enc_tx_buffer.size, TxItems, 1, next)
        /\ UNCHANGED <<opt_len, packet_count>>
    BY <1>0, <1>2, <2>1, EncCodec DEF Enc!FlushTx, TxItems
  <2>3. /\ enc_tx_buffer.size \in Nat /\ enc_tx_buffer.size <= L4MTU
        /\ ItemsGood(TxItems, taken) /\ EncControl
    BY DEF EncInv, EncPacket, EncItems, EncRoom
  <2>4. /\ enc_pc' = "getbuf" /\ resume' = next /\ TxItems' = <<>>
        /\ enc_tx_buffer'.size \in Nat /\ enc_tx_buffer'.size = 0
        /\ sequence' = NextSeq + 1 /\ sequence' \in 1..SeqMax
    BY <1>0, <2>1, <2>2, <2>3, TxSent
  <2>5. PICK p : /\ p.items = TxItems /\ p.seq = NextSeq
                 /\ PacketGood(p, taken)
                 /\ socket_write_pool' = Append(socket_write_pool, p)
    BY <1>0, <2>1, <2>2, <2>3, TxSent
  <2>6. EncPoint' = Fresh(Len(taken) + 1, <<>>) /\ ~InParts'
    BY <2>4 DEF EncPoint, Pending, InParts
  <2>7. End(TxItems) = Fresh(Len(taken) + 1, <<>>)
    <3> DEFINE it == LastOf(TxItems)
    <3>1. Len(TxItems) \in 1..Len(TxItems)
      BY <1>0, <2>1, LenProperties, EmptySeq
    <3>2. it \in Piece
      BY <1>0, <3>1, ElementOfSeq DEF LastOf
    <3>3. After(it) = Fresh(Len(taken) + 1, enc_dictionary)
      BY <1>0, <2>1 DEF EncInv, EncItems
    <3>4. it.type # "PARTIAL"
      <4>1. After(it).part = 1
        BY <3>3 DEF Fresh
      <4>2. it.type = "PARTIAL" => After(it).part = it.part + 1 /\ it.part >= 1
        BY <3>1, <3>2, <2>3, ItemPoints DEF ItemsGood, ItemGood, LastOf
      <4>. QED BY <3>2, <4>1, <4>2, ItemPoints
    <3>5. it.blob.frame.id + 1 = Len(taken) + 1
      BY <3>2, <3>3, <3>4, ItemPoints DEF Fresh
    <3>6. CASE it.type = "COMPLETE"
      BY <3>5, <3>6 DEF End
    <3>7. CASE it.type # "COMPLETE"
      <4>1. End(TxItems) = After(it) /\ After(it).dict = <<>>
        BY <3>4, <3>7 DEF End, After, Fresh
      <4>2. enc_dictionary = <<>>
        BY <3>3, <4>1 DEF Fresh
      <4>. QED BY <3>3, <4>1, <4>2
    <3>. QED BY <3>6, <3>7
  <2>8. Emit(p)
    <3>1. TxPoint = First(TxItems) /\ TxPoint' = EncPoint'
      BY <2>1, <2>4 DEF TxPoint
    <3>. QED BY <2>4, <2>5, <2>6, <2>7, <3>1 DEF Emit
  <2>9. EncControl' /\ EncStream' /\ EncWork'
    BY <2>4, <2>6 DEF EncInv, EncControl, EncStream, EncWork
  <2>10. EncPacket'
    BY <2>2, <2>4 DEF EncInv, EncPacket
  <2>11. EncItems'
    <3>1. ItemsGood(<<>>, taken')
      BY EmptySeq DEF ItemsGood
    <3>. QED BY <2>4, <3>1 DEF EncItems
  <2>12. EncRoom'
    BY <2>4, Numbers DEF EncRoom
  <2>. QED BY <2>4, <2>8, <2>9, <2>10, <2>11, <2>12
<1>. QED BY <1>1, <1>2

(* What _getMaxPayloadSize() returns is a length, and what it stands for.  *)
LEMMA RoomNat ==
  ASSUME enc_tx_buffer.size \in Nat
  PROVE  Enc!Room \in Nat
BY Numbers, EncCodec DEF Enc!Room, Enc!MaxPayloadSize

LEMMA RoomIs ==
  ASSUME EncInv, enc_pc # "getbuf"
  PROVE  /\ enc_tx_buffer.size \in Nat /\ Enc!Room \in Nat
         /\ Enc!Room = IF enc_tx_buffer.size + 8 >= L4MTU THEN 0
                       ELSE L4MTU - (enc_tx_buffer.size + 8)
         /\ Enc!FlushReserve = 88
<1>1. enc_tx_buffer.size \in Nat /\ Laid(TxItems, enc_tx_buffer.size)
  BY DEF EncInv, EncPacket
<1>2. enc_tx_buffer.size # 0
  <2>1. CASE TxItems = <<>>
    BY <1>1, <2>1, LaidEmpty, Numbers
  <2>2. CASE TxItems # <<>>
    <3>1. TxItems \in Seq(Piece)
      BY DEF EncInv, EncItems, ItemsGood
    <3>. QED BY <1>1, <2>2, <3>1, LaidNonempty, Numbers
  <2>. QED BY <2>1, <2>2
<1>. QED BY <1>1, <1>2, Numbers, EncCodec, RoomNat
         DEF Enc!Room, Enc!MaxPayloadSize, Enc!FlushReserve

(* The part that one turn of the loop adds. *)
PartLen ==
  LET left == enc_work.blob.total - enc_work.pos
  IN  IF left > Enc!Room THEN Enc!Room ELSE left

Part ==
  [type |-> IF enc_work.blob.total - enc_work.pos = PartLen
            THEN "PARTIAL_COMPLETE" ELSE "PARTIAL",
   part |-> enc_work.part, format |-> enc_work.blob.format,
   packet_size |-> enc_work.blob.frame.size, payload_length |-> PartLen,
   blob |-> enc_work.blob, pos |-> enc_work.pos]

LEMMA EncodePartIs ==
  ASSUME Enc!EncodePart
  PROVE  /\ enc_pc = "part" /\ Pending
         /\ enc_work' = [blob |-> enc_work.blob, pos |-> enc_work.pos + PartLen,
                         part |-> enc_work.part + 1]
         /\ UNCHANGED <<enc_inflight, enc_dictionary>>
         /\ \/ /\ Enc!SendPacket(enc_tx_buffer.size + 8 + PartLen,
                                 Append(TxItems, Part),
                                 IF packet_count = 0 THEN opt_len + 1 ELSE opt_len,
                                 "part")
               /\ enc_tx_buffer.size + 8 + PartLen = L4MTU
               /\ UNCHANGED <<opt_len, packet_count>>
            \/ /\ Enc!AddItem(Part)
               /\ enc_tx_buffer.size + 8 + PartLen # L4MTU
               /\ UNCHANGED <<sequence, enc_pc, resume, socket_write_pool>>
<1>1. /\ enc_pc = "part" /\ enc_work.pos < enc_work.blob.total
      /\ UNCHANGED <<enc_inflight, enc_dictionary>>
  BY DEF Enc!EncodePart, Enc!stream
<1>2. Pending
  BY <1>1 DEF Pending, InParts
<1>. QED
  BY <1>1, <1>2, EncCodec
  DEF Enc!EncodePart, Enc!Item, PartLen, Part, TxItems, Enc!stream

(* It is a good item and leads from where the encoder was to where it is.  *)
LEMMA PartGood ==
  ASSUME EncInv, TakenGood, Pending,
         enc_work' = [blob |-> enc_work.blob, pos |-> enc_work.pos + PartLen,
                      part |-> enc_work.part + 1],
         InParts', UNCHANGED taken
  PROVE  /\ ItemGood(Part, taken)
         /\ Before(Part) = EncPoint
         /\ After(Part) = EncPoint'
         /\ Part.type # "COMPLETE"
         /\ Part.payload_length = PartLen /\ PartLen \in Nat
         /\ EncWork'
<1>1. /\ BlobGood(enc_work.blob, taken)
      /\ enc_work.blob.frame.id = Len(taken)
      /\ enc_work.pos \in Nat /\ enc_work.part \in Nat \ {0}
      /\ enc_work.pos < enc_work.blob.total
      /\ enc_work.part = 1 => enc_work.pos = 0
  BY DEF EncInv, EncWork, Pending
<1>2. /\ enc_work.blob \in Blob /\ enc_work.blob.total \in Nat
      /\ enc_work.blob.format \in Formats /\ enc_work.blob.frame.size \in Nat
      /\ enc_work.blob.frame.id \in Nat
  BY <1>1 DEF BlobGood, Blob, FrameRec
<1>3. Enc!Room \in Nat
  BY RoomNat DEF EncInv, EncPacket
<1>4. PartLen \in Nat /\ enc_work.pos + PartLen <= enc_work.blob.total
  BY <1>1, <1>2, <1>3 DEF PartLen
<1>5. Part.type \in {"PARTIAL", "PARTIAL_COMPLETE"}
  BY DEF Part
<1>6. /\ Part.type = "PARTIAL" => enc_work.pos + PartLen < enc_work.blob.total
      /\ Part.type # "PARTIAL" => enc_work.pos + PartLen = enc_work.blob.total
  BY <1>1, <1>2, <1>4 DEF Part
<1>7. Part \in Piece
  BY <1>1, <1>2, <1>4 DEF Piece, Part, ItemTypes
<1>8. ItemGood(Part, taken)
  <2>1. /\ Part.blob = enc_work.blob /\ Part.pos = enc_work.pos
        /\ Part.part = enc_work.part /\ Part.payload_length = PartLen
        /\ Part.format = enc_work.blob.format
        /\ Part.packet_size = enc_work.blob.frame.size
    BY DEF Part
  <2>. QED BY <1>1, <1>4, <1>5, <1>6, <1>7, <2>1 DEF ItemGood
<1>9. Before(Part) = EncPoint
  BY <1>1 DEF Before, Part, EncPoint
<1>10. Pending' = (Part.type = "PARTIAL")
  BY <1>2, <1>4, <1>5, <1>6 DEF Pending
<1>11. After(Part) = EncPoint'
  <2>1. CASE Part.type = "PARTIAL"
    <3>1. enc_work'.part # 1 /\ enc_work'.blob = enc_work.blob
      BY <1>1
    <3>. QED BY <1>10, <2>1, <3>1 DEF After, Part, EncPoint
  <2>2. CASE Part.type = "PARTIAL_COMPLETE"
    <3>1. After(Part) = Fresh(Len(taken) + 1, <<>>)
      BY <1>1, <2>2 DEF After, Part
    <3>2. enc_pc' \notin {"idle", "tail"}
      BY DEF InParts
    <3>. QED BY <1>10, <2>2, <3>1, <3>2 DEF EncPoint
  <2>. QED BY <1>5, <2>1, <2>2
<1>12. EncWork'
  <2>1. /\ enc_work'.blob = enc_work.blob /\ enc_work'.part \in Nat \ {0, 1}
        /\ enc_work'.pos \in Nat /\ enc_work'.pos <= enc_work.blob.total
    BY <1>1, <1>4
  <2>2. BlobGood(enc_work.blob, taken)'
    BY <1>1, <2>1
  <2>. QED BY <1>1, <2>1, <2>2 DEF EncWork
<1>. QED BY <1>4, <1>5, <1>8, <1>9, <1>11, <1>12 DEF Part

(* One turn of the loop: an item more, or a full packet less. *)
LEMMA EncodePartStep ==
  ASSUME EncInv, TakenGood, Enc!EncodePart, UNCHANGED <<timed, taken>>
  PROVE  EncInv' /\ (Silent \/ \E p : Emit(p))
<1>1. /\ enc_pc = "part" /\ Pending
      /\ enc_work' = [blob |-> enc_work.blob, pos |-> enc_work.pos + PartLen,
                      part |-> enc_work.part + 1]
      /\ UNCHANGED <<enc_inflight, enc_dictionary>>
  BY EncodePartIs
<1>2. /\ timed
      /\ Laid(TxItems, enc_tx_buffer.size) /\ enc_tx_buffer.size \in Nat
      /\ TxItems = <<>> => packet_count = 0 /\ opt_len = 0
      /\ TxItems # <<>> => packet_count > 0 /\ opt_len = 1
      /\ ItemsGood(TxItems, taken)
      /\ TxItems # <<>> => After(LastOf(TxItems)) = EncPoint
      /\ EncControl /\ EncPacket
  BY <1>1 DEF EncInv, EncTimed, EncPacket, EncItems
<1>3. TxItems = <<>> => (EncPoint.part = 1 => EncPoint.dict = <<>>)
  <2>1. CASE enc_work.part = 1
    BY <1>1, <2>1 DEF EncInv, EncWork, EncPoint, Fresh, Pending
  <2>2. CASE enc_work.part # 1
    BY <1>1, <2>2 DEF EncPoint, Inside
  <2>. QED BY <2>1, <2>2
<1>4. EncStream' /\ EncTimed'
  <2>1. enc_pc' \notin {"idle", "tail"}
    BY <1>1, EncodePartIs DEF Enc!SendPacket
  <2>. QED BY <1>1, <1>2, <2>1 DEF EncInv, EncStream, EncTimed
<1>5. CASE /\ Enc!AddItem(Part)
           /\ enc_tx_buffer.size + 8 + PartLen # L4MTU
           /\ UNCHANGED <<sequence, enc_pc, resume, socket_write_pool>>
  <2>1. InParts'
    BY <1>1, <1>5 DEF InParts
  <2>2. /\ ItemGood(Part, taken) /\ Before(Part) = EncPoint
        /\ After(Part) = EncPoint' /\ EncWork'
    BY <1>1, <2>1, PartGood
  <2>3. /\ enc_tx_buffer'.size \in Nat
        /\ packet_count' \in Nat /\ packet_count' > 0 /\ opt_len' = 1
        /\ Laid(TxItems, enc_tx_buffer.size)'
        /\ TxItems' # <<>>
        /\ ItemsGood(TxItems', taken)
        /\ LastOf(TxItems') = Part
        /\ First(TxItems') = IF TxItems = <<>> THEN Before(Part) ELSE First(TxItems)
    BY <1>1, <1>2, <1>3, <1>5, <2>2, TxAdded
  <2>4. Silent
    BY <1>5, <2>2, <2>3 DEF Silent, TxPoint
  <2>5. EncControl' /\ EncPacket'
    BY <1>1, <1>2, <1>5, <2>3 DEF EncControl, EncPacket
  <2>6. EncItems'
    BY <2>2, <2>3 DEF EncItems
  <2>7. EncRoom'
    <3>1. /\ enc_tx_buffer.size + 8 < L4MTU
          /\ enc_work.pos \in Nat /\ enc_work.blob.total \in Nat
          /\ enc_work.pos < enc_work.blob.total
      BY <1>1 DEF EncInv, EncRoom, EncWork, Pending, BlobGood, Blob
    <3>2. /\ enc_tx_buffer'.size = enc_tx_buffer.size + 8 + PartLen
          /\ enc_work'.pos = enc_work.pos + PartLen
          /\ enc_work'.blob = enc_work.blob /\ enc_pc' = "part"
      BY <1>1, <1>5, EncCodec, PartGood, <2>1 DEF Enc!AddItem, Part
    <3>3. /\ Enc!Room \in Nat /\ Enc!Room = L4MTU - (enc_tx_buffer.size + 8)
          /\ PartLen \in Nat /\ PartLen <= Enc!Room
          /\ PartLen = Enc!Room
             \/ PartLen = enc_work.blob.total - enc_work.pos
      BY <1>1, <1>2, <3>1, RoomIs, Numbers DEF PartLen
    <3>4. enc_tx_buffer'.size <= L4MTU /\ PartLen # Enc!Room
      BY <1>2, <1>5, <3>2, <3>3, Numbers
    <3>5. ~Pending'
      BY <3>1, <3>2, <3>3, <3>4 DEF Pending
    <3>. QED BY <3>2, <3>4, <3>5 DEF EncRoom
  <2>. QED BY <1>4, <2>2, <2>4, <2>5, <2>6, <2>7 DEF EncInv
<1>6. CASE /\ Enc!SendPacket(enc_tx_buffer.size + 8 + PartLen,
                             Append(TxItems, Part),
                             IF packet_count = 0 THEN opt_len + 1 ELSE opt_len,
                             "part")
           /\ enc_tx_buffer.size + 8 + PartLen = L4MTU
           /\ UNCHANGED <<opt_len, packet_count>>
  <2>1. InParts' /\ enc_pc' = "getbuf"
    BY <1>6 DEF InParts, Enc!SendPacket
  <2>2. /\ ItemGood(Part, taken) /\ Before(Part) = EncPoint
        /\ After(Part) = EncPoint' /\ EncWork'
        /\ Part.type # "COMPLETE"
        /\ Part.payload_length = PartLen /\ PartLen \in Nat
    BY <1>1, <2>1, PartGood
  <2>3. /\ ItemsGood(Append(TxItems, Part), taken)
        /\ Append(TxItems, Part) # <<>>
        /\ LastOf(Append(TxItems, Part)) = Part
        /\ First(Append(TxItems, Part)) = TxPoint
    BY <1>2, <1>3, <2>2, ItemAdded DEF TxPoint
  <2>4. Laid(Append(TxItems, Part), enc_tx_buffer.size + 8 + PartLen)
    BY <1>2, <2>2, LaidAdded, Numbers DEF ItemsGood, ItemGood
  <2>5. (IF packet_count = 0 THEN opt_len + 1 ELSE opt_len) = 1
    BY <1>2
  <2>6. enc_tx_buffer.size + 8 + PartLen \in Nat
    BY <1>2, <2>2
  <2>7. PICK items, size : items = Append(TxItems, Part)
                           /\ size = enc_tx_buffer.size + 8 + PartLen
    OBVIOUS
  <2>8. /\ Enc!SendPacket(size, items, 1, "part")
        /\ size \in Nat /\ size <= L4MTU /\ Laid(items, size)
        /\ ItemsGood(items, taken) /\ items # <<>>
    BY <1>6, <2>3, <2>4, <2>5, <2>6, <2>7, Numbers
  <2>9. /\ resume' = "part" /\ TxItems' = <<>>
        /\ enc_tx_buffer'.size \in Nat /\ enc_tx_buffer'.size = 0
        /\ sequence' = NextSeq + 1 /\ sequence' \in 1..SeqMax
        /\ \E p : /\ p.items = items /\ p.seq = NextSeq
                  /\ PacketGood(p, taken)
                  /\ socket_write_pool' = Append(socket_write_pool, p)
    BY <1>2, <2>8, TxSent
  <2>10. PICK p : /\ p.items = Append(TxItems, Part) /\ p.seq = NextSeq
                 /\ PacketGood(p, taken)
                 /\ socket_write_pool' = Append(socket_write_pool, p)
    BY <2>7, <2>9
  <2>11. End(p.items) = TxPoint'
    BY <2>2, <2>3, <2>9, <2>10 DEF End, TxPoint
  <2>12. Emit(p)
    BY <2>3, <2>9, <2>10, <2>11 DEF Emit
  <2>13. EncControl' /\ EncPacket'
    BY <1>2, <1>6, <2>1, <2>9 DEF EncControl, EncPacket
  <2>14. EncItems'
    <3>1. ItemsGood(<<>>, taken')
      BY EmptySeq DEF ItemsGood
    <3>. QED BY <2>9, <3>1 DEF EncItems
  <2>15. EncRoom'
    BY <2>1, <2>9, Numbers DEF EncRoom
  <2>. QED BY <1>4, <2>2, <2>12, <2>13, <2>14, <2>15 DEF EncInv
<1>. QED BY <1>5, <1>6, EncodePartIs

(* _flushInflight() leaves the compressor without a dictionary. *)
LEMMA InflightFlushed ==
  ASSUME EncStream, Enc!FlushInflight
  PROVE  enc_inflight' = <<>> /\ enc_dictionary' = <<>>
BY DEF EncStream, Enc!FlushInflight

(* The steps that neither write an item nor send a packet. *)
LEMMA EncQuietStep ==
  ASSUME EncInv, TakenGood, UNCHANGED <<timed, taken>>,
         \/ Enc!EndParts \/ Enc!EncodeFinish \/ Enc!EndFlush \/ Enc!GetTxBuffer
  PROVE  EncInv' /\ Silent
<1>. USE DEF Enc!packet, Enc!stream
<1>0. /\ EncControl /\ EncPacket /\ EncItems /\ EncStream /\ EncWork /\ EncTimed
      /\ EncRoom /\ <<>> \in Seq(Nat)
  BY DEF EncInv
<1>1. CASE Enc!EndParts
  <2>1. /\ enc_pc = "part" /\ enc_work.pos = enc_work.blob.total
        /\ enc_pc' = "tail" /\ Enc!FlushInflight
        /\ UNCHANGED <<sequence, opt_len, packet_count, enc_tx_buffer, enc_work,
                       resume, socket_write_pool>>
    BY <1>1 DEF Enc!EndParts
  <2>2. enc_inflight' = <<>> /\ enc_dictionary' = <<>>
    BY <1>0, <2>1, InflightFlushed
  <2>3. ~Pending /\ ~Pending' /\ ~InParts' /\ TxItems' = TxItems
    <3>1. enc_work.blob.total \in Nat
      BY <1>0, <2>1 DEF EncWork, InParts, BlobGood, Blob
    <3>. QED BY <2>1, <3>1 DEF Pending, InParts, TxItems
  <2>4. EncPoint' = EncPoint
    BY <2>1, <2>2, <2>3 DEF EncPoint
  <2>5. Silent
    BY <2>1, <2>3, <2>4 DEF Silent, TxPoint
  <2>6. Laid(TxItems, enc_tx_buffer.size)'
    BY <1>0, <2>1 DEF EncPacket, Laid, StartsAt, TxItems
  <2>7. EncControl' /\ EncPacket'
    BY <1>0, <2>1, <2>3, <2>6 DEF EncControl, EncPacket
  <2>8. EncItems'
    BY <1>0, <2>3, <2>4 DEF EncItems
  <2>9. EncStream' /\ EncWork'
    BY <1>0, <2>2, <2>3 DEF EncStream, EncWork
  <2>10. EncTimed'
    BY <1>0, <2>1 DEF EncTimed
  <2>11. EncRoom'
    BY <1>0, <2>1 DEF EncRoom
  <2>. QED BY <2>5, <2>7, <2>8, <2>9, <2>10, <2>11 DEF EncInv
<1>2. CASE Enc!EncodeFinish \/ Enc!EndFlush
  <2>1. /\ enc_pc \in {"finish", "flushed"} /\ enc_pc' = "idle"
        /\ Enc!FlushInflight
        /\ UNCHANGED <<sequence, opt_len, packet_count, enc_tx_buffer,
                       resume, socket_write_pool>>
    BY <1>2 DEF Enc!EncodeFinish, Enc!EndFlush
  <2>2. enc_inflight' = <<>> /\ enc_dictionary' = <<>>
    BY <1>0, <2>1, InflightFlushed
  <2>3. ~Pending /\ ~Pending' /\ ~InParts' /\ TxItems' = TxItems /\ TxItems = <<>>
    BY <1>0, <2>1 DEF Pending, InParts, TxItems, EncPacket
  <2>4. EncPoint' = EncPoint
    BY <2>1, <2>2, <2>3 DEF EncPoint
  <2>5. Silent
    BY <2>1, <2>3, <2>4 DEF Silent, TxPoint
  <2>6. Laid(TxItems, enc_tx_buffer.size)'
    BY <1>0, <2>1 DEF EncPacket, Laid, StartsAt, TxItems
  <2>7. EncControl' /\ EncPacket'
    BY <1>0, <2>1, <2>3, <2>6 DEF EncControl, EncPacket
  <2>8. EncItems'
    BY <1>0, <2>3, <2>4 DEF EncItems
  <2>9. EncStream' /\ EncWork' /\ EncTimed'
    BY <1>0, <2>1, <2>2, <2>3 DEF EncStream, EncWork, EncTimed
  <2>10. EncRoom'
    BY <1>0, <2>1 DEF EncRoom
  <2>. QED BY <2>5, <2>7, <2>8, <2>9, <2>10 DEF EncInv
<1>3. CASE Enc!GetTxBuffer
  <2>1. /\ enc_pc = "getbuf" /\ enc_pc' = resume /\ resume' = "idle"
        /\ resume \in {"part", "finish", "flushed"}
        /\ enc_tx_buffer' = [size |-> 8, items |-> <<>>]
        /\ opt_len' = 0 /\ packet_count' = 0
        /\ UNCHANGED <<sequence, enc_inflight, enc_dictionary, enc_work,
                       socket_write_pool>>
    BY <1>0, <1>3, EncCodec DEF Enc!GetTxBuffer, EncControl
  <2>2. TxItems' = <<>> /\ TxItems = <<>> /\ InParts' = InParts
    BY <1>0, <2>1 DEF TxItems, EncPacket, InParts
  <2>3. EncPoint' = EncPoint
    BY <2>1, <2>2 DEF EncPoint, Pending
  <2>4. Silent
    BY <2>1, <2>2, <2>3 DEF Silent, TxPoint
  <2>5. Laid(TxItems, enc_tx_buffer.size)'
    BY <2>1, <2>2, LaidEmpty, Numbers
  <2>6. EncControl' /\ EncPacket'
    BY <1>0, <2>1, <2>2, <2>5 DEF EncControl, EncPacket
  <2>7. EncItems'
    BY <1>0, <2>2, <2>3 DEF EncItems
  <2>8. EncStream' /\ EncWork' /\ EncTimed'
    BY <1>0, <2>1, <2>2 DEF EncStream, EncWork, EncTimed
  <2>9. EncRoom'
    BY <2>1, Numbers DEF EncRoom
  <2>. QED BY <2>4, <2>6, <2>7, <2>8, <2>9 DEF EncInv
<1>. QED BY <1>1, <1>2, <1>3

(* The end of encode(): the packet is sent if there is little room left. *)
LEMMA EncodeTailStep ==
  ASSUME EncInv, TakenGood, UNCHANGED <<timed, taken>>, Enc!EncodeTail
  PROVE  EncInv' /\ (Silent \/ \E p : Emit(p))
<1>. USE DEF Enc!packet, Enc!stream
<1>0. /\ EncControl /\ EncPacket /\ EncItems /\ EncStream /\ EncWork /\ EncTimed
      /\ EncRoom /\ enc_pc = "tail" /\ timed
  BY DEF EncInv, Enc!EncodeTail, EncTimed
<1>1. CASE /\ Enc!FlushTx("finish")
           /\ UNCHANGED <<enc_work, enc_inflight, enc_dictionary>>
  <2>1. /\ EncControl' /\ EncPacket' /\ EncItems' /\ EncStream' /\ EncWork'
        /\ EncRoom'
        /\ Silent \/ \E p : Emit(p)
    BY <1>0, <1>1, FlushStep
  <2>2. EncTimed'
    BY <1>0 DEF EncTimed
  <2>. QED BY <2>1, <2>2 DEF EncInv
<1>2. CASE /\ enc_pc' = "idle" /\ ~(Enc!Room < Enc!FlushReserve)
           /\ UNCHANGED <<sequence, opt_len, packet_count, enc_tx_buffer, resume,
                          socket_write_pool, enc_inflight, enc_dictionary>>
  <2>1. ~Pending /\ ~Pending' /\ ~InParts' /\ TxItems' = TxItems
    BY <1>0, <1>2 DEF Pending, InParts, TxItems
  <2>2. EncPoint' = EncPoint
    BY <1>0, <1>2, <2>1 DEF EncPoint
  <2>3. Silent
    BY <1>2, <2>1, <2>2 DEF Silent, TxPoint
  <2>4. Laid(TxItems, enc_tx_buffer.size)'
    BY <1>0, <1>2 DEF EncPacket, Laid, StartsAt, TxItems
  <2>5. EncControl' /\ EncPacket'
    BY <1>0, <1>2, <2>1, <2>4 DEF EncControl, EncPacket
  <2>6. EncItems'
    BY <1>0, <2>1, <2>2 DEF EncItems
  <2>7. EncStream' /\ EncWork' /\ EncTimed'
    BY <1>0, <1>2, <2>1 DEF EncStream, EncWork, EncTimed
  <2>8. EncRoom'
    BY <1>0, <1>2, RoomIs, Numbers DEF EncRoom
  <2>. QED BY <2>3, <2>5, <2>6, <2>7, <2>8 DEF EncInv
<1>. QED BY <1>1, <1>2 DEF Enc!EncodeTail

(* Every step of the encoder thread within a call. *)
LEMMA EncoderStepKeeps ==
  ASSUME EncInv, TakenGood, EncoderStep
  PROVE  EncInv' /\ (Silent \/ \E p : Emit(p))
<1>1. Enc!EncoderStep /\ UNCHANGED <<timed, taken>>
  BY DEF EncoderStep
<1>. QED
  BY <1>1, EncodePartStep, EncQuietStep, EncodeTailStep
  DEF Enc!EncoderStep, Enc!CallStep

(* No frame came in time: the handler flushes. *)
LEMMA TimeoutKeeps ==
  ASSUME EncInv, TakenGood, Timeout
  PROVE  EncInv' /\ (Silent \/ \E p : Emit(p))
<1>1. /\ enc_pc = "idle" /\ Enc!FlushTx("flushed") /\ timed' = FALSE
      /\ UNCHANGED <<enc_work, enc_inflight, enc_dictionary, taken>>
  BY DEF Timeout, Enc!Flush, Enc!stream
<1>2. /\ EncControl' /\ EncPacket' /\ EncItems' /\ EncStream' /\ EncWork'
      /\ EncRoom' /\ TxItems' = <<>>
      /\ enc_pc' = "flushed" \/ (enc_pc' = "getbuf" /\ resume' = "flushed")
      /\ Silent \/ \E p : Emit(p)
  BY <1>1, FlushStep
<1>3. EncTimed'
  BY <1>2 DEF EncTimed
<1>. QED BY <1>2, <1>3 DEF EncInv

(* What a frame that has just been taken is sent as. *)
LEMMA BlobOf ==
  ASSUME EncStream, TakenGood, NEW size \in FrameSizes, NEW f,
         f = [id |-> Len(taken) + 1, size |-> size],
         NEW blob \in Enc!Blobs(f)
  PROVE  /\ f \in FrameRec /\ blob.frame = f
         /\ BlobGood(blob, Append(taken, f))
         /\ blob.total > 0 /\ blob.total \in Nat
         /\ blob.dictionary = enc_dictionary
<1>1. /\ taken \in Seq(FrameRec) /\ Len(taken) \in Nat
      /\ size \in Nat /\ size > 0 /\ size <= L2MTU /\ size <= BufferSize
  BY Numbers, LenProperties DEF TakenGood
<1>2. f \in FrameRec
  BY <1>1 DEF FrameRec
<1>3. /\ blob.frame = f /\ blob.format = PacketFormat
      /\ blob.total \in Nat /\ blob.total > 0 /\ blob.total <= BufferSize
      /\ PacketFormat = "NONE" => blob.total = size
      /\ blob.dictionary = enc_dictionary
      /\ blob = [frame |-> blob.frame, format |-> blob.format,
                 total |-> blob.total, dictionary |-> blob.dictionary]
  <2>1. CASE PacketFormat \in {"LZ4", "ZSTD"}
    <3>1. blob \in [frame : {f}, format : {PacketFormat}, total : CompressedSizes,
                    dictionary : {IF PacketFormat = "LZ4" THEN enc_dictionary
                                  ELSE <<>>}]
      BY <2>1, EncCodec DEF Enc!Blobs
    <3>2. blob.total \in 1..BufferSize
      BY <3>1, TunnelAssumption
    <3>. QED BY <2>1, <3>1, <3>2, Numbers DEF EncStream
  <2>2. CASE PacketFormat \notin {"LZ4", "ZSTD"}
    <3>1. blob \in [frame : {f}, format : {"NONE"}, total : {f.size},
                    dictionary : {<<>>}]
      BY <2>2, EncCodec DEF Enc!Blobs
    <3>2. PacketFormat = "NONE"
      BY <2>2, Numbers DEF Formats
    <3>. QED BY <1>1, <3>1, <3>2 DEF EncStream
  <2>. QED BY <2>1, <2>2
<1>4. enc_dictionary \in Seq(Nat)
  BY DEF EncStream
<1>5. blob \in Blob
  BY <1>2, <1>3, <1>4, Numbers DEF Blob
<1>6. /\ DOMAIN Append(taken, f) = 1..(Len(taken) + 1)
      /\ Append(taken, f)[Len(taken) + 1] = f
  BY <1>1, <1>2, AppendProperties
<1>7. FrameGood(f, Append(taken, f))
  BY <1>1, <1>6 DEF FrameGood
<1>8. PacketFormat # "LZ4" => blob.dictionary = <<>>
  BY <1>3 DEF EncStream
<1>. QED BY <1>1, <1>2, <1>3, <1>5, <1>7, <1>8 DEF BlobGood

(* encode() of a frame that fits: one more item. *)
LEMMA EncodeCompleteStep ==
  ASSUME EncInv, TakenGood, NEW size \in FrameSizes, NEW f,
         f = [id |-> Len(taken) + 1, size |-> size],
         taken' = Append(taken, f), timed' = TRUE,
         Enc!EncodeComplete(f)
  PROVE  EncInv' /\ Silent
<1>1. /\ enc_pc = "idle" /\ enc_pc' = "tail"
      /\ UNCHANGED <<sequence, resume, socket_write_pool>>
      /\ IF PacketFormat \in {"LZ4", "ZSTD"}
         THEN /\ enc_inflight' = Append(enc_inflight, f.id)
              /\ enc_dictionary' = IF PacketFormat = "LZ4"
                                   THEN Append(enc_dictionary, f.id)
                                   ELSE enc_dictionary
         ELSE UNCHANGED <<enc_inflight, enc_dictionary>>
  BY EncCodec DEF Enc!EncodeComplete, Enc!StartFrame, Enc!Learn, Enc!stream
<1>2. PICK blob \in Enc!Blobs(f) :
        /\ blob.total <= Enc!Room
        /\ Enc!AddItem(Enc!Item("COMPLETE", 0, blob, 0, blob.total))
  BY DEF Enc!EncodeComplete
<1>3. /\ f \in FrameRec /\ blob.frame = f
      /\ BlobGood(blob, taken')
      /\ blob.total > 0 /\ blob.total \in Nat
      /\ blob.dictionary = enc_dictionary
  BY BlobOf DEF EncInv
<1> DEFINE it == [type |-> "COMPLETE", part |-> 0, format |-> blob.format,
                  packet_size |-> blob.frame.size, payload_length |-> blob.total,
                  blob |-> blob, pos |-> 0]
<1>4. Enc!AddItem(it)
  BY <1>2 DEF Enc!Item
<1>5. ItemGood(it, taken')
  <2>1. blob \in Blob /\ blob.format \in Formats /\ blob.frame.size \in Nat
    BY <1>3 DEF BlobGood, Blob, FrameRec
  <2>2. it \in Piece
    BY <1>3, <2>1 DEF Piece, ItemTypes
  <2>. QED BY <1>3, <2>2 DEF ItemGood
<1>6. /\ EncPoint = Fresh(Len(taken) + 1, enc_dictionary)
      /\ Before(it) = Fresh(Len(taken) + 1, enc_dictionary)
  BY <1>1, <1>3 DEF EncPoint, Pending, InParts, Before
<1>7. taken \in Seq(FrameRec) /\ Len(taken) \in Nat
      /\ Len(taken') = Len(taken) + 1
  BY <1>3, AppendProperties, LenProperties DEF TakenGood
<1>8. ItemsGood(TxItems, taken')
  BY <1>3, <1>7, LongerAppend, ItemsGrow DEF EncInv, EncItems
<1>9. TxItems = <<>> => Before(it).dict = <<>>
  BY <1>1, <1>6 DEF EncInv, EncStream, Fresh
<1>10. TxItems # <<>> => After(LastOf(TxItems)) = Before(it)
  BY <1>6 DEF EncInv, EncItems
<1>11. EncPacket /\ enc_pc # "getbuf"
  BY <1>1 DEF EncInv
<1>12. /\ enc_tx_buffer'.size \in Nat
       /\ packet_count' \in Nat /\ packet_count' > 0 /\ opt_len' = 1
       /\ Laid(TxItems, enc_tx_buffer.size)'
       /\ TxItems' # <<>>
       /\ ItemsGood(TxItems', taken')
       /\ LastOf(TxItems') = it
       /\ First(TxItems') = IF TxItems = <<>> THEN Before(it) ELSE First(TxItems)
  BY <1>4, <1>5, <1>8, <1>9, <1>10, <1>11, TxAdded
<1>13. Silent
  BY <1>1, <1>6, <1>12 DEF Silent, TxPoint
<1>14. EncControl' /\ EncPacket'
  BY <1>1, <1>12 DEF EncInv, EncControl, EncPacket
<1>15. EncStream'
  <2>1. f.id \in Nat
    BY <1>7
  <2>2. Append(enc_inflight, f.id) \in Seq(Nat)
    BY <2>1, AppendProperties DEF EncInv, EncStream
  <2>. QED BY <1>1, <1>12, <2>2 DEF EncInv, EncStream
<1>16. EncItems'
  <2>1. After(it) = Fresh(Len(taken) + 2,
                          Learn(enc_dictionary, PacketFormat, f))
    BY <1>3, <1>7 DEF After, BlobGood
  <2>2. EncPoint' = Fresh(Len(taken) + 2, enc_dictionary')
    BY <1>1, <1>7 DEF EncPoint, Pending, InParts
  <2>3. enc_dictionary' = Learn(enc_dictionary, PacketFormat, f)
    BY <1>1 DEF Learn
  <2>. QED BY <1>12, <2>1, <2>2, <2>3 DEF EncItems
<1>17. EncWork' /\ EncTimed'
  BY <1>1 DEF EncWork, InParts, EncTimed
<1>18. EncRoom'
  <2>1. /\ enc_tx_buffer.size + 96 <= L4MTU /\ enc_tx_buffer.size \in Nat
        /\ Enc!Room = L4MTU - (enc_tx_buffer.size + 8)
    BY <1>1, <1>11, RoomIs, Numbers DEF EncInv, EncRoom
  <2>2. enc_tx_buffer'.size = enc_tx_buffer.size + 8 + blob.total
    BY <1>4, EncCodec DEF Enc!AddItem
  <2>3. enc_tx_buffer'.size <= L4MTU
    BY <1>2, <1>3, <2>1, <2>2, Numbers
  <2>. QED BY <1>1, <2>3 DEF EncRoom
<1>. QED BY <1>13, <1>14, <1>15, <1>16, <1>17, <1>18 DEF EncInv

(* encode() of a frame that has to be split: its parts are to come. *)
LEMMA EncodePartialStep ==
  ASSUME EncInv, TakenGood, NEW size \in FrameSizes, NEW f,
         f = [id |-> Len(taken) + 1, size |-> size],
         taken' = Append(taken, f), timed' = TRUE,
         Enc!EncodePartial(f)
  PROVE  EncInv' /\ Silent
<1>1. /\ enc_pc = "idle" /\ enc_pc' = "part"
      /\ UNCHANGED <<sequence, resume, socket_write_pool, opt_len, packet_count,
                     enc_tx_buffer>>
      /\ IF PacketFormat \in {"LZ4", "ZSTD"}
         THEN /\ enc_inflight' = Append(enc_inflight, f.id)
              /\ enc_dictionary' = IF PacketFormat = "LZ4"
                                   THEN Append(enc_dictionary, f.id)
                                   ELSE enc_dictionary
         ELSE UNCHANGED <<enc_inflight, enc_dictionary>>
  BY EncCodec
  DEF Enc!EncodePartial, Enc!StartFrame, Enc!Learn, Enc!stream, Enc!packet
<1>2. PICK blob \in Enc!Blobs(f) :
        enc_work' = [blob |-> blob, pos |-> 0, part |-> 1]
  BY DEF Enc!EncodePartial
<1>3. /\ f \in FrameRec /\ blob.frame = f
      /\ BlobGood(blob, taken')
      /\ blob.total > 0 /\ blob.total \in Nat
      /\ blob.dictionary = enc_dictionary
  BY BlobOf DEF EncInv
<1>4. taken \in Seq(FrameRec) /\ Len(taken) \in Nat
      /\ Len(taken') = Len(taken) + 1
  BY <1>3, AppendProperties, LenProperties DEF TakenGood
<1>5. Pending' /\ InParts' /\ TxItems' = TxItems
  BY <1>1, <1>2, <1>3 DEF Pending, InParts, TxItems
<1>6. EncPoint' = EncPoint
  <2>1. EncPoint = Fresh(Len(taken) + 1, enc_dictionary)
    BY <1>1 DEF EncPoint, Pending, InParts
  <2>2. EncPoint' = Fresh(blob.frame.id, blob.dictionary)
    BY <1>2, <1>5 DEF EncPoint
  <2>. QED BY <1>3, <2>1, <2>2
<1>7. Silent
  BY <1>1, <1>5, <1>6 DEF Silent, TxPoint
<1>8. Laid(TxItems, enc_tx_buffer.size)'
  <2>1. Laid(TxItems, enc_tx_buffer.size)
    BY <1>1 DEF EncInv, EncPacket
  <2>. QED BY <1>1, <2>1 DEF Laid, StartsAt, TxItems
<1>9. EncControl' /\ EncPacket'
  BY <1>1, <1>5, <1>8 DEF EncInv, EncControl, EncPacket
<1>10. EncItems'
  BY <1>3, <1>4, <1>5, <1>6, LongerAppend, ItemsGrow DEF EncInv, EncItems
<1>11. EncStream'
  <2>1. f.id \in Nat
    BY <1>4
  <2>2. Append(enc_inflight, f.id) \in Seq(Nat)
    BY <2>1, AppendProperties DEF EncInv, EncStream
  <2>. QED BY <1>1, <2>2 DEF EncInv, EncStream
<1>12. EncWork'
  <2>1. TxItems' = <<>> => blob.dictionary = <<>>
    BY <1>1, <1>3, <1>5 DEF EncInv, EncStream
  <2>2. /\ enc_work'.blob = blob /\ enc_work'.pos = 0 /\ enc_work'.part = 1
        /\ blob.frame.id = Len(taken')
    BY <1>2, <1>3, <1>4
  <2>. QED BY <1>3, <2>1, <2>2 DEF EncWork
<1>13. EncTimed'
  BY DEF EncTimed
<1>14. EncRoom'
  <2>1. enc_tx_buffer.size + 96 <= L4MTU /\ enc_tx_buffer.size \in Nat
    BY <1>1 DEF EncInv, EncRoom, EncPacket
  <2>. QED BY <1>1, <2>1, Numbers DEF EncRoom
<1>. QED BY <1>7, <1>9, <1>10, <1>11, <1>12, <1>13, <1>14 DEF EncInv

(* The frames of the encoder pool are numbered on from the taken ones. *)
LEMMA HeadIsNext ==
  ASSUME TakenGood, QueueGood, encoder_pool # <<>>
  PROVE  /\ encoder_pool = <<Head(encoder_pool)>> \o Tail(encoder_pool)
         /\ Tail(encoder_pool) \in Seq(FrameRec)
         /\ Len(Tail(encoder_pool)) = Len(encoder_pool) - 1
         /\ \A k \in 1..Len(Tail(encoder_pool)) :
              Tail(encoder_pool)[k] = encoder_pool[k + 1]
         /\ \E size \in FrameSizes :
              Head(encoder_pool) = [id |-> Len(taken) + 1, size |-> size]
<1>1. /\ encoder_pool \in Seq(FrameRec) /\ Len(encoder_pool) \in Nat
      /\ 1 \in 1..Len(encoder_pool) /\ Head(encoder_pool) = encoder_pool[1]
  BY LenProperties, EmptySeq DEF QueueGood
<1>2. /\ Head(encoder_pool).id = Len(taken) + 1
      /\ Head(encoder_pool).size \in FrameSizes
      /\ Head(encoder_pool) \in FrameRec
  BY <1>1, ElementOfSeq DEF QueueGood
<1>3. Head(encoder_pool) = [id   |-> Head(encoder_pool).id,
                            size |-> Head(encoder_pool).size]
  BY <1>2 DEF FrameRec
<1>. QED BY <1>1, <1>2, <1>3, HeadTailProperties

LEMMA QueueStep ==
  ASSUME TakenGood, QueueGood, [Next]_vars
  PROVE  TakenGood' /\ QueueGood'
<1>. USE DEF QueueGood
<1>0. /\ taken \in Seq(FrameRec) /\ encoder_pool \in Seq(FrameRec)
      /\ Len(taken) \in Nat /\ Len(encoder_pool) \in Nat
  BY LenProperties DEF TakenGood
<1>1. CASE ReadFrame
  <2>1. PICK size \in FrameSizes :
          /\ encoder_pool' = Append(encoder_pool,
                               [id |-> Len(accepted) + 1, size |-> size])
          /\ UNCHANGED taken
    BY <1>1 DEF ReadFrame, Enc!ReadFrame
  <2>2. Len(accepted) = Len(taken) + Len(encoder_pool)
    BY <1>0, ConcatProperties DEF accepted
  <2>3. PICK f : f = [id |-> Len(accepted) + 1, size |-> size]
    OBVIOUS
  <2>4. f \in FrameRec /\ f.id = Len(taken) + (Len(encoder_pool) + 1)
        /\ f.size \in FrameSizes
    BY <1>0, <2>2, <2>3, Numbers DEF FrameRec
  <2>5. encoder_pool' = Append(encoder_pool, f)
    BY <2>1, <2>3
  <2>6. /\ encoder_pool' \in Seq(FrameRec)
        /\ Len(encoder_pool') = Len(encoder_pool) + 1
        /\ \A k \in 1..Len(encoder_pool) : encoder_pool'[k] = encoder_pool[k]
        /\ encoder_pool'[Len(encoder_pool) + 1] = f
    BY <1>0, <2>4, <2>5, AppendProperties
  <2>7. ASSUME NEW k \in 1..Len(encoder_pool')
        PROVE  /\ encoder_pool'[k].id = Len(taken) + k
               /\ encoder_pool'[k].size \in FrameSizes
    <3>1. CASE k = Len(encoder_pool) + 1
      BY <2>4, <2>6, <3>1
    <3>2. CASE k # Len(encoder_pool) + 1
      <4>1. k \in 1..Len(encoder_pool)
        BY <1>0, <2>6, <3>2
      <4>. QED BY <2>6, <4>1
    <3>. QED BY <3>1, <3>2
  <2>. QED BY <2>1, <2>6, <2>7 DEF TakenGood
<1>2. CASE EncodeFrame
  <2>1. /\ encoder_pool # <<>> /\ encoder_pool' = Tail(encoder_pool)
        /\ taken' = Append(taken, Head(encoder_pool))
    BY <1>2 DEF EncodeFrame, Enc!EncodeFrame
  <2>2. PICK size \in FrameSizes :
          Head(encoder_pool) = [id |-> Len(taken) + 1, size |-> size]
    BY <2>1, HeadIsNext
  <2>3. PICK f : f = [id |-> Len(taken) + 1, size |-> size]
    OBVIOUS
  <2>4. taken' = Append(taken, f)
    BY <2>1, <2>2, <2>3
  <2>5. f \in FrameRec /\ f.id = Len(taken) + 1 /\ f.size \in FrameSizes
    BY <1>0, <2>3, Numbers DEF FrameRec
  <2>6. TakenGood' /\ Len(taken') = Len(taken) + 1
    BY <1>0, <2>4, <2>5, AppendProperties DEF TakenGood
  <2>7. ASSUME NEW k \in 1..Len(encoder_pool')
        PROVE  /\ encoder_pool'[k].id = Len(taken') + k
               /\ encoder_pool'[k].size \in FrameSizes
    <3>1. /\ encoder_pool'[k] = encoder_pool[k + 1]
          /\ k \in Nat /\ k + 1 \in 1..Len(encoder_pool)
      BY <1>0, <2>1, HeadIsNext
    <3>2. /\ encoder_pool[k + 1].id = Len(taken) + (k + 1)
          /\ encoder_pool[k + 1].size \in FrameSizes
      BY <3>1
    <3>3. Len(taken) + (k + 1) = (Len(taken) + 1) + k
      BY <1>0, <3>1
    <3>. QED BY <2>6, <3>1, <3>2, <3>3
  <2>. QED BY <2>1, <2>6, <2>7, HeadIsNext
<1>3. CASE Restart
  <2>1. encoder_pool' = <<>> /\ taken' = taken \o encoder_pool
    BY <1>3 DEF Restart, Enc!Construct, accepted
  <2>2. /\ taken' \in Seq(FrameRec)
        /\ Len(taken') = Len(taken) + Len(encoder_pool)
        /\ \A k \in 1..Len(taken') :
             taken'[k] = IF k <= Len(taken) THEN taken[k]
                         ELSE encoder_pool[k - Len(taken)]
    BY <1>0, <2>1, ConcatProperties
  <2>3. ASSUME NEW k \in 1..Len(taken')
        PROVE  taken'[k].id = k /\ taken'[k].size \in FrameSizes
    <3>1. CASE k <= Len(taken)
      BY <1>0, <2>2, <3>1 DEF TakenGood
    <3>2. CASE k > Len(taken)
      <4>1. k - Len(taken) \in 1..Len(encoder_pool)
        BY <1>0, <2>2, <3>2
      <4>2. taken'[k] = encoder_pool[k - Len(taken)]
        BY <1>0, <2>2, <3>2
      <4>. QED BY <1>0, <4>1, <4>2
    <3>. QED BY <1>0, <2>2, <3>1, <3>2
  <2>4. <<>> \in Seq(FrameRec) /\ Len(<<>>) = 0
    BY EmptySeq
  <2>. QED BY <2>1, <2>2, <2>3, <2>4 DEF TakenGood
<1>4. ASSUME UNCHANGED <<taken, encoder_pool>> PROVE TakenGood' /\ QueueGood'
  BY <1>4 DEF TakenGood
<1>5. CASE TapPop \/ Timeout \/ Send
  BY <1>4, <1>5 DEF TapPop, Enc!TapPop, Timeout, Enc!Flush, Send, Enc!SocketWrite,
                    Enc!input
<1>6. CASE EncoderStep
  <2>1. UNCHANGED <<taken, encoder_pool>>
    BY <1>6 DEF EncoderStep, Enc!EncoderStep, Enc!CallStep, Enc!EncodePart,
                Enc!EndParts, Enc!EncodeTail, Enc!EncodeFinish, Enc!EndFlush,
                Enc!GetTxBuffer, Enc!input
  <2>. QED BY <1>4, <2>1
<1>7. CASE Arrive \/ Overtake \/ Duplicate \/ Lose \/ DecoderStep \/ TapWrite
  BY <1>4, <1>7 DEF Arrive, Overtake, Duplicate, Lose, DecoderStep, TapWrite, enc_vars
<1>8. CASE UNCHANGED vars
  BY <1>4, <1>8 DEF vars, enc_vars
<1>. QED BY <1>1, <1>2, <1>3, <1>5, <1>6, <1>7, <1>8 DEF Next

(* A restart takes what is queued, to lose it. *)
LEMMA RestartTakes ==
  ASSUME TakenGood, QueueGood, Restart
  PROVE  /\ TakenGood' /\ Growing
         /\ taken' = accepted /\ encoder_pool' = <<>>
         /\ taken' \in Seq(FrameRec) /\ Len(taken') \in Nat
         /\ Len(taken') = Len(taken) + Len(encoder_pool)
         /\ Len(taken') >= Len(taken)
<1>1. taken' = accepted /\ encoder_pool' = <<>>
  BY DEF Restart, Enc!Construct
<1>2. TakenGood'
  BY QueueStep DEF Next
<1>3. /\ taken \in Seq(FrameRec) /\ encoder_pool \in Seq(FrameRec)
      /\ Len(taken) \in Nat /\ Len(encoder_pool) \in Nat
  BY LenProperties DEF TakenGood, QueueGood
<1>4. /\ taken' \in Seq(FrameRec) /\ Longer(taken, taken')
      /\ Len(taken') = Len(taken) + Len(encoder_pool)
  BY <1>1, <1>3, ConcatProperties, LongerConcat DEF accepted
<1>. QED BY <1>1, <1>2, <1>3, <1>4 DEF Growing

(* The frames read from the tap are those taken and those that wait. *)
LEMMA AcceptedType ==
  ASSUME TakenGood, QueueGood
  PROVE  /\ accepted \in Seq(FrameRec)
         /\ Len(accepted) = Len(taken) + Len(encoder_pool)
         /\ Len(taken) \in Nat /\ Len(encoder_pool) \in Nat
         /\ Longer(taken, accepted)
         /\ encoder_pool = <<>> => accepted = taken
BY ConcatProperties, ConcatEmptySeq, LenProperties, LongerConcat
DEF TakenGood, QueueGood, accepted

(* A frame is taken from the encoder pool: nothing of it is seen outside. *)
LEMMA AcceptKeeps ==
  ASSUME EncInv, TakenGood, QueueGood, EncodeFrame
  PROVE  EncInv' /\ Silent /\ Growing
<1>1. /\ encoder_pool # <<>> /\ Enc!Encode(Head(encoder_pool))
      /\ taken' = Append(taken, Head(encoder_pool)) /\ timed' = TRUE
  BY DEF EncodeFrame, Enc!EncodeFrame
<1>2. PICK size \in FrameSizes :
        Head(encoder_pool) = [id |-> Len(taken) + 1, size |-> size]
  BY <1>1, HeadIsNext
<1>3. PICK f : f = [id |-> Len(taken) + 1, size |-> size]
  OBVIOUS
<1>4. /\ taken \in Seq(FrameRec) /\ Len(taken) \in Nat
      /\ size \in Nat /\ size <= L2MTU /\ f \in FrameRec
  BY <1>3, Numbers, LenProperties DEF TakenGood, FrameRec
<1>5. taken' = Append(taken, f) /\ Enc!Encode(f)
  BY <1>1, <1>2, <1>3
<1>6. ~Enc!RefuseFrame(f)
  BY <1>3, <1>4, Numbers DEF Enc!RefuseFrame
<1>7. EncInv' /\ Silent
  BY <1>1, <1>3, <1>5, <1>6, EncodeCompleteStep, EncodePartialStep DEF Enc!Encode
<1>. QED BY <1>4, <1>5, <1>7, LongerAppend DEF Growing

(* What the other steps leave of the encoder. *)
EncKept ==
  UNCHANGED <<sequence, opt_len, packet_count, enc_tx_buffer, enc_inflight,
              enc_dictionary, enc_work, enc_pc, resume, timed, taken>>

LEMMA EncStays ==
  ASSUME EncInv, TakenGood, EncKept
  PROVE  EncInv' /\ TakenGood' /\ TxPoint' = TxPoint /\ NextSeq' = NextSeq
<1>. USE DEF EncKept
<1>0. TxItems' = TxItems /\ (InParts' <=> InParts) /\ (Pending' <=> Pending)
  BY DEF TxItems, InParts, Pending
<1>1. EncPoint' = EncPoint
  BY <1>0 DEF EncPoint
<1>2. TxPoint' = TxPoint /\ NextSeq' = NextSeq
  BY <1>0, <1>1 DEF TxPoint, NextSeq
<1>3. Laid(TxItems, enc_tx_buffer.size)' <=> Laid(TxItems, enc_tx_buffer.size)
  BY <1>0 DEF Laid, StartsAt, TxItems
<1>4. EncControl' /\ EncPacket' /\ EncItems' /\ EncStream' /\ EncWork' /\ EncTimed'
  BY <1>0, <1>1, <1>3
  DEF EncInv, EncControl, EncPacket, EncItems, EncStream, EncWork, EncTimed
<1>5. TakenGood'
  BY DEF TakenGood
<1>6. EncRoom'
  BY <1>0 DEF EncInv, EncRoom
<1>. QED BY <1>2, <1>4, <1>5, <1>6 DEF EncInv

(* The point where the encoder is belongs to a frame, and not to one that  *)
(* is still to be read but the next.                                       *)
LEMMA TxPointType ==
  ASSUME EncInv, TakenGood
  PROVE  TxPoint.id \in Nat /\ NextSeq \in 1..(SeqMax - 1)
<1>1. Len(taken) \in Nat
  BY LenProperties DEF TakenGood
<1>2. NextSeq \in 1..(SeqMax - 1)
  BY Numbers DEF EncInv, EncControl, NextSeq
<1>3. EncPoint.id \in Nat
  <2>1. CASE Pending
    BY <1>1, <2>1 DEF EncInv, EncWork, EncPoint, Pending, Fresh, Inside
  <2>2. CASE ~Pending
    BY <1>1, <2>2 DEF EncPoint, Fresh
  <2>. QED BY <2>1, <2>2
<1>4. ASSUME TxItems # <<>> PROVE First(TxItems).id \in Nat
  <2>1. TxItems \in Seq(Piece)
    BY DEF EncInv, EncItems, ItemsGood
  <2>2. 1 \in 1..Len(TxItems)
    BY <1>4, <2>1, EmptySeq, LenProperties
  <2>3. TxItems[1] \in Piece
    BY <2>1, <2>2, ElementOfSeq
  <2>. QED BY <2>3, ItemPoints DEF First
<1>. QED BY <1>2, <1>3, <1>4 DEF TxPoint

(* A new process of the sender: the constructor. *)
LEMMA ConstructKeeps ==
  ASSUME Enc!Construct, timed' = TRUE, taken' \in Seq(FrameRec)
  PROVE  /\ EncInv'
         /\ TxPoint' = Fresh(Len(taken') + 1, <<>>)
         /\ sequence' = 1 /\ socket_write_pool' = <<>>
<1>1. /\ sequence' = 1 /\ opt_len' = 0 /\ packet_count' = 0
      /\ enc_tx_buffer' = [size |-> 8, items |-> <<>>]
      /\ enc_inflight' = <<>> /\ enc_dictionary' = <<>>
      /\ enc_pc' = "idle" /\ resume' = "idle" /\ socket_write_pool' = <<>>
  BY EncCodec DEF Enc!Construct
<1>2. TxItems' = <<>> /\ ~InParts' /\ ~Pending'
  BY <1>1 DEF TxItems, InParts, Pending
<1>3. TxPoint' = Fresh(Len(taken') + 1, <<>>)
  BY <1>1, <1>2 DEF TxPoint, EncPoint
<1>4. Laid(TxItems, enc_tx_buffer.size)'
  BY <1>1, <1>2, LaidEmpty, Numbers
<1>5. EncControl' /\ EncPacket' /\ EncTimed' /\ EncWork' /\ EncRoom'
  BY <1>1, <1>2, <1>4, Numbers DEF EncControl, EncPacket, EncTimed, EncWork, EncRoom
<1>6. <<>> \in Seq(Nat) /\ <<>> \in Seq(Piece) /\ Len(<<>>) = 0
  BY EmptySeq
<1>7. EncItems' /\ EncStream'
  BY <1>1, <1>2, <1>6 DEF EncItems, ItemsGood, EncStream
<1>. QED BY <1>1, <1>3, <1>5, <1>7 DEF EncInv

LEMMA EncStarts ==
  ASSUME Init
  PROVE  /\ EncInv /\ TakenGood /\ QueueGood
         /\ TxPoint = Fresh(1, <<>>) /\ NextSeq = 1
         /\ sequence = 1 /\ socket_write_pool = <<>>
<1>1. /\ sequence = 1 /\ opt_len = 0 /\ packet_count = 0
      /\ enc_tx_buffer = [size |-> 8, items |-> <<>>]
      /\ enc_inflight = <<>> /\ enc_dictionary = <<>>
      /\ enc_pc = "idle" /\ resume = "idle" /\ socket_write_pool = <<>>
      /\ taken = <<>> /\ encoder_pool = <<>> /\ timed = TRUE
  BY EncCodec DEF Init, Enc!Init
<1>2. TxItems = <<>> /\ ~InParts /\ ~Pending
  BY <1>1 DEF TxItems, InParts, Pending
<1>3. /\ <<>> \in Seq(Nat) /\ <<>> \in Seq(Piece) /\ <<>> \in Seq(FrameRec)
      /\ Len(<<>>) = 0
  BY EmptySeq
<1>4. TxPoint = Fresh(1, <<>>) /\ NextSeq = 1
  BY <1>1, <1>2, <1>3, Numbers DEF TxPoint, EncPoint, NextSeq
<1>5. Laid(TxItems, enc_tx_buffer.size)
  BY <1>1, <1>2, LaidEmpty, Numbers
<1>6. EncControl /\ EncPacket /\ EncTimed /\ EncWork /\ EncRoom
  BY <1>1, <1>2, <1>5, Numbers DEF EncControl, EncPacket, EncTimed, EncWork, EncRoom
<1>7. EncItems /\ EncStream
  BY <1>1, <1>2, <1>3 DEF EncItems, ItemsGood, EncStream
<1>8. TakenGood /\ QueueGood
  BY <1>1, <1>3 DEF TakenGood, QueueGood
<1>. QED BY <1>1, <1>4, <1>6, <1>7, <1>8 DEF EncInv

-----------------------------------------------------------------------------
(* The decoder's side.  It is in step with a point of the stream if what   *)
(* it has collected and learnt is what the item there continues; it has    *)
(* lost track if the item there is a later part and it has nothing.        *)
InStep(P) ==
  /\ P.part = last_part + 1
  /\ last_part = 0 => dec_dictionary = P.dict
  /\ last_part # 0 => P.blob = dec_tx_buffer.chunks[1].blob /\ P.pos = dec_tx_buffer.size

Lost(P) == P.part >= 2 /\ last_part = 0 /\ dec_dictionary = <<>>

Sync(P) == InStep(P) \/ Lost(P)

DItems == dec_work.packet.items
DecItem == DItems[dec_work.index]

(* Where the rest of the packet in hand begins. *)
DecNext ==
  IF dec_work.index <= Len(DItems) THEN Before(DecItem) ELSE After(LastOf(DItems))

DecControl ==
  /\ dec_pc \in {"idle", "items", "getbuf"}
  /\ first_packet \in BOOLEAN /\ last_part \in Nat
  /\ last_sequence \in 0..(SeqMax - 1)
  /\ first_packet => last_sequence = 0 /\ last_part = 0 /\ dec_pc = "idle"
  /\ ~first_packet => last_sequence # 0

(* The collected bytes are the beginning of one blob. *)
Slice == [blob : Blob, pos : Nat, len : Nat]

CollectedGood(chunks) ==
  /\ chunks \in Seq(Slice) /\ chunks # <<>>
  /\ \A i \in 1..Len(chunks) :
       /\ chunks[i].blob = chunks[1].blob
       /\ chunks[i].pos = IF i = 1 THEN 0 ELSE chunks[i - 1].pos + chunks[i - 1].len
  /\ dec_tx_buffer.size = LastOf(chunks).pos + LastOf(chunks).len
  /\ last_format = chunks[1].blob.format
  /\ last_orig_packet_size = chunks[1].blob.frame.size
  /\ dec_pc # "getbuf" => dec_dictionary = chunks[1].blob.dictionary

DecHeld ==
  /\ last_part = 0 => dec_tx_buffer = [size |-> 0, chunks |-> <<>>]
  /\ last_part # 0 => CollectedGood(dec_tx_buffer.chunks)
  /\ dec_pc = "idle" /\ last_part = 0 => dec_dictionary = <<>>

DecBusy ==
  dec_pc # "idle" =>
    /\ dec_work \in [packet : Packet, index : Nat, pos : Nat, flush : BOOLEAN]
    /\ PacketGood(dec_work.packet, taken)
    /\ dec_work.packet.seq = last_sequence
    /\ dec_work.index \in 1..(Len(DItems) + 1)
    /\ \E start \in [1..(Len(DItems) + 1) -> Nat] :
         /\ StartsAt(start, DItems, dec_work.packet.size)
         /\ dec_work.pos = start[dec_work.index]
    /\ dec_work.index > 1 =>
         dec_work.flush = (DItems[dec_work.index - 1].type = "COMPLETE")

DecSync ==
  /\ dec_pc = "items" => Sync(DecNext)
  /\ dec_pc = "getbuf" =>
       /\ dec_work.index <= Len(DItems) /\ DecItem.type # "PARTIAL"
       /\ DecItem.type = "COMPLETE" =>
            last_part = 0 /\ dec_dictionary = After(DecItem).dict

DecInv == DecControl /\ DecHeld /\ DecBusy /\ DecSync

-----------------------------------------------------------------------------
(* A packet begins and ends at points of frames that have been taken. *)
LEMMA PacketPoints ==
  ASSUME NEW acc \in Seq(FrameRec), NEW p, PacketGood(p, acc)
  PROVE  /\ p.items \in Seq(Piece) /\ Len(p.items) \in Nat /\ Len(p.items) >= 1
         /\ p.items[1] \in Piece /\ LastOf(p.items) \in Piece
         /\ First(p.items).id \in 1..Len(acc)
         /\ End(p.items).id \in 1..(Len(acc) + 1)
         /\ After(LastOf(p.items)).id = End(p.items).id
         /\ After(LastOf(p.items)).part = End(p.items).part
         /\ First(p.items).id <= End(p.items).id
         /\ First(p.items).part \in Nat /\ First(p.items).part >= 1
         /\ First(p.items).part = 1 => First(p.items).dict = <<>>
<1>1. p.items \in Seq(Piece) /\ Len(p.items) \in Nat /\ Len(p.items) >= 1
  BY EmptySeq, LenProperties DEF PacketGood, ItemsGood
<1>2. 1 \in 1..Len(p.items) /\ Len(p.items) \in 1..Len(p.items)
  BY <1>1
<1>3. p.items[1] \in Piece /\ LastOf(p.items) \in Piece
  BY <1>1, <1>2, ElementOfSeq DEF LastOf
<1>4. /\ ItemGood(p.items[1], acc) /\ ItemGood(LastOf(p.items), acc)
      /\ p.items[1].blob.frame.id <= LastOf(p.items).blob.frame.id
      /\ First(p.items).part = 1 => First(p.items).dict = <<>>
  BY <1>1, <1>2 DEF PacketGood, ItemsGood, LastOf
<1>5. Len(acc) \in Nat /\ DOMAIN acc = 1..Len(acc)
  BY LenProperties
<1>6. /\ p.items[1].blob.frame.id \in 1..Len(acc)
      /\ LastOf(p.items).blob.frame.id \in 1..Len(acc)
  BY <1>4, <1>5 DEF ItemGood, BlobGood, FrameGood
<1>7. /\ First(p.items).id = p.items[1].blob.frame.id
      /\ First(p.items).part =
           IF p.items[1].part <= 1 THEN 1 ELSE p.items[1].part
      /\ p.items[1].part \in Nat
  BY <1>3, ItemPoints DEF First
<1>8. /\ After(LastOf(p.items)).id = End(p.items).id
      /\ After(LastOf(p.items)).part = End(p.items).part
  BY DEF End, After, Fresh
<1>9. End(p.items).id \in {LastOf(p.items).blob.frame.id,
                           LastOf(p.items).blob.frame.id + 1}
  BY <1>3, <1>8, ItemPoints
<1>. QED BY <1>1, <1>3, <1>4, <1>5, <1>6, <1>7, <1>8, <1>9

(* What the decoder finds at its place in the packet. *)
LEMMA InHand ==
  ASSUME DecBusy, TakenGood, dec_pc # "idle"
  PROVE  /\ DItems \in Seq(Piece) /\ Len(DItems) \in Nat
         /\ dec_work.index \in 1..(Len(DItems) + 1)
         /\ dec_work.pos \in Nat /\ dec_work.packet.size \in Nat
         /\ dec_work.packet.size <= L4MTU
         /\ (dec_work.pos < dec_work.packet.size) <=> dec_work.index <= Len(DItems)
         /\ dec_work.index <= Len(DItems) =>
              /\ DecItem \in Piece /\ ItemGood(DecItem, taken)
              /\ dec_work.pos + 8 + DecItem.payload_length <= dec_work.packet.size
<1>1. DItems \in Seq(Piece) /\ Len(DItems) \in Nat
  BY PacketPoints DEF DecBusy, TakenGood, DItems
<1>2. /\ dec_work.index \in 1..(Len(DItems) + 1)
      /\ dec_work.packet.size \in Nat /\ dec_work.packet.size <= L4MTU
  BY DEF DecBusy, PacketGood, Packet
<1>3. PICK start \in [1..(Len(DItems) + 1) -> Nat] :
        /\ StartsAt(start, DItems, dec_work.packet.size)
        /\ dec_work.pos = start[dec_work.index]
  BY DEF DecBusy
<1>4. dec_work.pos \in Nat
  BY <1>2, <1>3
<1>5. ASSUME dec_work.index <= Len(DItems)
      PROVE  /\ DecItem \in Piece /\ ItemGood(DecItem, taken)
             /\ dec_work.pos + 8 + DecItem.payload_length <= dec_work.packet.size
             /\ dec_work.pos < dec_work.packet.size
  <2>1. dec_work.index \in 1..Len(DItems)
    BY <1>1, <1>2, <1>5
  <2>2. DecItem \in Piece /\ ItemGood(DecItem, taken)
    BY <1>1, <2>1, ElementOfSeq DEF DecItem, DecBusy, PacketGood, ItemsGood, DItems
  <2>3. /\ start[dec_work.index + 1] =
             start[dec_work.index] + 8 + DecItem.payload_length
        /\ start[dec_work.index + 1] <= dec_work.packet.size
    BY <1>3, <2>1, Numbers DEF StartsAt, DecItem
  <2>4. DecItem.payload_length \in Nat
    BY <2>2, ItemPoints
  <2>. QED BY <1>2, <1>3, <1>4, <2>2, <2>3, <2>4
<1>6. ASSUME ~(dec_work.index <= Len(DItems))
      PROVE  dec_work.pos = dec_work.packet.size
  <2>1. dec_work.index = Len(DItems) + 1
    BY <1>1, <1>2, <1>6
  <2>. QED BY <1>3, <2>1 DEF StartsAt
<1>. QED BY <1>1, <1>2, <1>4, <1>5, <1>6

(* The position of the item after it does not wrap. *)
NextPlace(pos) == Dec!NextPos = pos /\ Dec!NextIndex = dec_work.index + 1

LEMMA NextIs ==
  ASSUME DecBusy, TakenGood, dec_pc # "idle", dec_work.index <= Len(DItems)
  PROVE  NextPlace(dec_work.pos + 8 + DecItem.payload_length)
<1>1. /\ dec_work.index \in 1..Len(DItems) /\ Len(DItems) \in Nat
      /\ dec_work.pos \in Nat /\ dec_work.packet.size \in Nat
      /\ dec_work.packet.size <= L4MTU
      /\ DecItem \in Piece /\ DecItem.payload_length \in Nat
      /\ dec_work.pos + 8 + DecItem.payload_length <= dec_work.packet.size
  BY InHand, ItemPoints
<1>2. PICK next \in Nat : next = dec_work.pos + 8 + DecItem.payload_length
  BY <1>1
<1>3. Dec!NextPos = next % 65536
  BY <1>2 DEF Dec!NextPos, Dec!item, Dec!OptionSize, Dec!PosRange, DecItem, DItems
<1>4. next < 65536
  BY <1>1, <1>2, Numbers
<1>5. Dec!NextPos = next
  BY <1>3, <1>4
<1>6. ASSUME dec_work.index = Len(DItems) PROVE next = dec_work.packet.size
  <2>1. PICK start \in [1..(Len(DItems) + 1) -> Nat] :
          /\ StartsAt(start, DItems, dec_work.packet.size)
          /\ dec_work.pos = start[dec_work.index]
    BY DEF DecBusy
  <2>2. start[dec_work.index + 1] =
          start[dec_work.index] + OptionSize + DItems[dec_work.index].payload_length
    BY <1>1, <2>1 DEF StartsAt
  <2>3. start[dec_work.index + 1] = dec_work.packet.size
    BY <1>6, <2>1 DEF StartsAt
  <2>. QED BY <1>2, <2>1, <2>2, <2>3, Numbers DEF DecItem
<1>7. Dec!NextIndex = dec_work.index + 1
  <2>1. dec_work.index < Len(DItems) \/ Dec!NextPos >= dec_work.packet.size
    BY <1>1, <1>5, <1>6
  <2>. QED BY <2>1 DEF Dec!NextIndex, DItems
<1>. QED BY <1>2, <1>5, <1>7 DEF NextPlace

(* The decoder goes on to the next item. *)
LEMMA ItemTaken ==
  ASSUME DecBusy, TakenGood, dec_pc # "idle", dec_work.index <= Len(DItems),
         NEW flush \in BOOLEAN, flush = (DecItem.type = "COMPLETE"),
         Dec!NextItem(flush), UNCHANGED <<last_sequence, taken>>
  PROVE  /\ DecBusy' /\ dec_work'.packet = dec_work.packet
         /\ DecNext' = After(DecItem)
<1>1. /\ DItems \in Seq(Piece) /\ Len(DItems) \in Nat
      /\ dec_work.index \in 1..Len(DItems)
      /\ dec_work.pos \in Nat /\ DecItem \in Piece
      /\ dec_work.pos + 8 + DecItem.payload_length \in Nat
  BY InHand, ItemPoints
<1>2. /\ dec_work \in [packet : Packet, index : Nat, pos : Nat, flush : BOOLEAN]
      /\ PacketGood(dec_work.packet, taken)
      /\ dec_work.packet.seq = last_sequence
  BY DEF DecBusy
<1>3. /\ dec_work' \in [packet : Packet, index : Nat, pos : Nat, flush : BOOLEAN]
      /\ dec_work'.packet = dec_work.packet
      /\ dec_work'.index = dec_work.index + 1 /\ dec_work'.flush = flush
      /\ dec_work'.pos = dec_work.pos + 8 + DecItem.payload_length
  <2>0. NextPlace(dec_work.pos + 8 + DecItem.payload_length)
    BY NextIs
  <2>1. dec_work' = [dec_work EXCEPT !.index = @ + 1, !.flush = flush,
                       !.pos = dec_work.pos + 8 + DecItem.payload_length]
    BY <2>0 DEF Dec!NextItem, NextPlace
  <2>2. dec_work'.pos = dec_work.pos + 8 + DecItem.payload_length
    BY <1>2, <2>1
  <2>3. /\ dec_work'.packet = dec_work.packet /\ dec_work'.flush = flush
        /\ dec_work'.index = dec_work.index + 1
        /\ DOMAIN dec_work' = {"packet", "index", "pos", "flush"}
        /\ dec_work' = [packet |-> dec_work.packet, index |-> dec_work.index + 1,
                        pos |-> dec_work'.pos, flush |-> flush]
    BY <1>2, <2>1
  <2>4. dec_work.packet \in Packet /\ dec_work.index + 1 \in Nat
    BY <1>1, <1>2
  <2>5. dec_work'.pos \in Nat
    BY <1>1, <2>2
  <2>6. dec_work' \in [packet : Packet, index : Nat, pos : Nat, flush : BOOLEAN]
    BY <2>3, <2>4, <2>5
  <2>. QED BY <2>2, <2>3, <2>6
<1>4. DItems' = DItems
  BY <1>3 DEF DItems
<1>5. PICK start \in [1..(Len(DItems) + 1) -> Nat] :
        /\ StartsAt(start, DItems, dec_work.packet.size)
        /\ dec_work.pos = start[dec_work.index]
  BY DEF DecBusy
<1>6. start[dec_work.index + 1] = dec_work'.pos
  BY <1>1, <1>3, <1>5, Numbers DEF StartsAt, DecItem
<1>7. DItems[dec_work'.index - 1] = DecItem
  BY <1>1, <1>3 DEF DecItem
<1>8. DecBusy'
  <2>1. \E s \in [1..(Len(DItems') + 1) -> Nat] :
          /\ StartsAt(s, DItems', dec_work'.packet.size)
          /\ dec_work'.pos = s[dec_work'.index]
    BY <1>3, <1>4, <1>5, <1>6
  <2>2. dec_work'.index \in 1..(Len(DItems') + 1)
    BY <1>1, <1>3, <1>4
  <2>3. dec_work'.flush = (DItems'[dec_work'.index - 1].type = "COMPLETE")
    BY <1>3, <1>4, <1>7
  <2>. QED BY <1>2, <1>3, <2>1, <2>2, <2>3 DEF DecBusy
<1>9. DecNext' = After(DecItem)
  <2>1. CASE dec_work.index + 1 <= Len(DItems)
    <3>1. dec_work.index \in 1..(Len(DItems) - 1)
      BY <1>1, <2>1
    <3>2. Before(DItems[dec_work.index + 1]) = After(DItems[dec_work.index])
      BY <1>2, <3>1 DEF PacketGood, ItemsGood, DItems
    <3>. QED BY <1>3, <1>4, <2>1, <3>2 DEF DecNext, DecItem
  <2>2. CASE ~(dec_work.index + 1 <= Len(DItems))
    <3>1. dec_work.index = Len(DItems)
      BY <1>1, <2>2
    <3>. QED BY <1>3, <1>4, <2>2, <3>1 DEF DecNext, DecItem, LastOf
  <2>. QED BY <2>1, <2>2
<1>. QED BY <1>3, <1>8, <1>9

(* A decoder in step takes the next item for what it is; one that has lost *)
(* track finds it unusable.                                                *)
LEMMA ItemUsable ==
  ASSUME DecInv, TakenGood, dec_pc = "items", dec_work.index <= Len(DItems)
  PROVE  /\ ~Dec!Malformed
         /\ DecItem.packet_size <= L2MTU /\ DecItem.type # "OTHER"
         /\ InStep(Before(DecItem)) => ~Dec!Unusable
         /\ InStep(Before(DecItem)) \/ (Lost(Before(DecItem)) /\ Dec!Unusable)
         /\ Dec!Unusable => DecItem.type # "COMPLETE" /\ DecItem.part >= 2
<1> DEFINE it == DecItem
<1>1. /\ it \in Piece /\ ItemGood(it, taken)
      /\ dec_work.pos + 8 + it.payload_length <= dec_work.packet.size
      /\ dec_work.pos \in Nat /\ dec_work.packet.size \in Nat
  BY InHand DEF DecInv
<1>2. /\ it.part \in Nat /\ it.pos \in Nat /\ it.payload_length \in Nat
      /\ it.type \in {"COMPLETE", "PARTIAL", "PARTIAL_COMPLETE"}
      /\ it.packet_size \in Nat /\ it.blob \in Blob
      /\ it.blob.total \in Nat /\ it.blob.frame.size \in Nat
  BY <1>1, ItemPoints DEF Piece, ItemTypes
<1>3. /\ it.packet_size = it.blob.frame.size /\ it.packet_size <= L2MTU
      /\ it.format = it.blob.format
      /\ it.blob.total <= BufferSize
      /\ it.pos + it.payload_length <= it.blob.total
      /\ it.type = "COMPLETE" => it.part = 0
      /\ it.type # "COMPLETE" => it.part >= 1
      /\ it.part <= 1 => it.pos = 0
      /\ it.format = PacketFormat
      /\ PacketFormat = "NONE" => it.blob.total = it.packet_size
  BY <1>1 DEF ItemGood, BlobGood
<1>4. Sync(Before(it)) /\ last_part \in Nat
  BY DEF DecInv, DecControl, DecSync, DecNext
<1>5. Dec!item = it
  BY DEF Dec!item, DecItem, DItems
<1>6. ~Dec!Overrun
  BY <1>1, <1>2, <1>5 DEF Dec!Overrun, Dec!OptionSize
<1>7. CASE it.type = "COMPLETE"
  <2>1. ~Dec!Unusable
    BY <1>5, <1>7 DEF Dec!Unusable, Dec!IsPartial
  <2>2. ~Dec!Malformed
    BY <1>2, <1>3, <1>5, <1>6, <1>7, Numbers DEF Dec!Malformed, Dec!IsPartial
  <2>3. InStep(Before(it))
    BY <1>1, <1>2, <1>3, <1>4, <1>7, ItemPoints DEF Sync, Lost
  <2>. QED BY <1>2, <1>3, <2>1, <2>2, <2>3
<1>8. CASE it.type # "COMPLETE" /\ InStep(Before(it))
  <2>1. it.part = last_part + 1
    BY <1>1, <1>2, <1>3, <1>8, ItemPoints DEF InStep
  <2>2. last_part # 0 =>
          /\ CollectedGood(dec_tx_buffer.chunks)
          /\ it.blob = dec_tx_buffer.chunks[1].blob /\ it.pos = dec_tx_buffer.size
    <3>1. ASSUME last_part # 0
          PROVE  Before(it) = Inside(it.blob, it.part, it.pos)
      BY <1>2, <1>4, <2>1, <3>1 DEF Before
    <3>. QED BY <1>8, <3>1 DEF InStep, DecInv, DecHeld, Inside
  <2>3. last_part # 0 =>
          it.packet_size = last_orig_packet_size /\ it.format = last_format
    BY <1>3, <2>2 DEF CollectedGood
  <2>4. ~Dec!Unusable
    BY <1>2, <1>4, <1>5, <2>1, <2>3 DEF Dec!Unusable
  <2>5. dec_tx_buffer.size = it.pos
    <3>1. last_part = 0 => it.pos = 0 /\ dec_tx_buffer.size = 0
      BY <1>2, <1>3, <2>1 DEF DecInv, DecHeld
    <3>. QED BY <2>2, <3>1
  <2>6. /\ ~(dec_tx_buffer.size + it.payload_length > BufferSize)
        /\ it.format \notin {"LZ4", "ZSTD"} =>
             ~(dec_tx_buffer.size + it.payload_length > it.packet_size)
    BY <1>2, <1>3, <2>5, Numbers DEF Formats
  <2>7. ~Dec!Malformed
    BY <1>2, <1>3, <1>5, <1>6, <1>8, <2>6, Numbers
    DEF Dec!Malformed, Dec!IsCompressed
  <2>. QED BY <1>2, <1>3, <1>8, <2>4, <2>7
<1>9. CASE it.type # "COMPLETE" /\ ~InStep(Before(it))
  <2>1. Lost(Before(it))
    BY <1>4, <1>9 DEF Sync
  <2>2. it.part >= 2 /\ last_part = 0
    BY <1>1, <1>2, <2>1, ItemPoints DEF Lost
  <2>3. Dec!Unusable
    BY <1>2, <1>5, <1>9, <2>2 DEF Dec!Unusable, Dec!IsPartial
  <2>4. ~Dec!Malformed
    BY <1>2, <1>3, <1>5, <1>9, <2>3, Numbers DEF Dec!Malformed
  <2>. QED BY <1>2, <1>3, <1>9, <2>1, <2>2, <2>3, <2>4
<1>. QED BY <1>7, <1>8, <1>9

(* The bytes that are there when a frame is whole are those of its blob,   *)
(* and they give back the frame.                                           *)
LEMMA FrameWhole ==
  ASSUME DecInv, TakenGood, dec_pc = "items", dec_work.index <= Len(DItems),
         InStep(Before(DecItem)), DecItem.type # "PARTIAL"
  PROVE  Dec!Outcomes = {[frame |-> DecItem.blob.frame,
                          size  |-> DecItem.blob.frame.size]}
<1> DEFINE it == DecItem
           chunk == [blob |-> it.blob, pos |-> it.pos, len |-> it.payload_length]
<1>1. /\ it \in Piece /\ ItemGood(it, taken)
  BY InHand DEF DecInv
<1>2. /\ it.part \in Nat /\ it.pos \in Nat /\ it.payload_length \in Nat
      /\ it.type \in {"COMPLETE", "PARTIAL_COMPLETE"}
      /\ it.blob \in Blob /\ it.blob.total \in Nat /\ it.blob.frame.size \in Nat
      /\ last_part \in Nat
  BY <1>1, ItemPoints DEF Piece, ItemTypes, DecInv, DecControl
<1>3. /\ it.packet_size = it.blob.frame.size
      /\ it.format = it.blob.format
      /\ it.pos + it.payload_length = it.blob.total
      /\ it.type = "COMPLETE" => it.part = 0
      /\ it.part <= 1 => it.pos = 0
      /\ it.format = PacketFormat
      /\ PacketFormat = "NONE" => it.blob.total = it.blob.frame.size
      /\ it.type # "COMPLETE" => it.part >= 1
  BY <1>1, <1>2 DEF ItemGood, BlobGood
<1>4. Dec!item = it
  BY DEF Dec!item, DecItem, DItems
<1>5. /\ it.type = "COMPLETE" => last_part = 0
      /\ last_part = 0 => it.part <= 1
      /\ last_part # 0 => it.part = last_part + 1
  BY <1>1, <1>2, <1>3, ItemPoints DEF InStep
<1>6. /\ Dec!Collected = dec_tx_buffer /\ Dec!Dictionary = dec_dictionary
      /\ Dec!Chunk(it) = chunk
  BY <1>4, <1>5 DEF Dec!Collected, Dec!Dictionary, Dec!Chunk
<1>7. dec_dictionary = it.blob.dictionary
  <2>1. CASE last_part = 0
    BY <1>1, <2>1, ItemPoints DEF InStep
  <2>2. CASE last_part # 0
    <3>1. Before(it) = Inside(it.blob, it.part, it.pos)
      BY <1>2, <1>5, <2>2 DEF Before
    <3>2. it.blob = dec_tx_buffer.chunks[1].blob
      BY <2>2, <3>1 DEF InStep, Inside
    <3>. QED BY <2>2, <3>2 DEF DecInv, DecHeld, CollectedGood
  <2>. QED BY <2>1, <2>2
<1>8. /\ Dec!Gathered.chunks = Append(dec_tx_buffer.chunks, chunk)
      /\ Dec!Gathered.size = dec_tx_buffer.size + it.payload_length
  <2>1. CASE it.type = "COMPLETE" /\ it.format \in {"LZ4", "ZSTD"}
    <3>1. dec_tx_buffer = [size |-> 0, chunks |-> <<>>]
      BY <1>5, <2>1 DEF DecInv, DecHeld
    <3>2. Dec!Gathered = [size |-> it.payload_length, chunks |-> <<chunk>>]
      BY <1>4, <1>6, <2>1 DEF Dec!Gathered, Dec!IsCompressed
    <3>. QED BY <1>2, <3>1, <3>2
  <2>2. CASE ~(it.type = "COMPLETE" /\ it.format \in {"LZ4", "ZSTD"})
    BY <1>4, <1>6, <2>2 DEF Dec!Gathered, Dec!IsCompressed
  <2>. QED BY <2>1, <2>2
<1> DEFINE old == dec_tx_buffer.chunks
           new == Append(old, chunk)
<1>9. /\ chunk \in Slice /\ old \in Seq(Slice) /\ Len(old) \in Nat
      /\ dec_tx_buffer.size = it.pos
      /\ last_part = 0 => old = <<>>
      /\ last_part # 0 => CollectedGood(old) /\ it.blob = old[1].blob
  <2>1. chunk \in Slice
    BY <1>2 DEF Slice
  <2>2. CASE last_part = 0
    <3>1. dec_tx_buffer = [size |-> 0, chunks |-> <<>>]
      BY <2>2 DEF DecInv, DecHeld
    <3>2. old = <<>> /\ dec_tx_buffer.size = 0
      BY <3>1
    <3>3. old \in Seq(Slice) /\ Len(old) \in Nat
      BY <3>2, EmptySeq
    <3>. QED BY <1>3, <1>5, <2>1, <2>2, <3>2, <3>3
  <2>3. CASE last_part # 0
    <3>1. Before(it) = Inside(it.blob, it.part, it.pos)
      BY <1>2, <1>5, <2>3 DEF Before
    <3>2. it.blob = old[1].blob /\ it.pos = dec_tx_buffer.size
      BY <2>3, <3>1 DEF InStep, Inside
    <3>. QED BY <2>1, <2>3, <3>2, LenProperties DEF DecInv, DecHeld, CollectedGood
  <2>. QED BY <2>2, <2>3
<1>10. /\ Dec!Whole(new) /\ new[1].blob = it.blob
  <2>1. /\ new \in Seq(Slice) /\ Len(new) = Len(old) + 1 /\ new # <<>>
        /\ DOMAIN new = 1..(Len(old) + 1)
        /\ \A i \in 1..Len(old) : new[i] = old[i]
        /\ new[Len(old) + 1] = chunk
    BY <1>9, AppendProperties, EmptySeq
  <2>2. new[1].blob = it.blob
    <3>1. CASE old = <<>>
      BY <1>9, <2>1, <3>1, EmptySeq
    <3>2. CASE old # <<>>
      <4>1. 1 \in 1..Len(old) /\ last_part # 0
        BY <1>9, <3>2, EmptySeq
      <4>. QED BY <1>9, <2>1, <4>1
    <3>. QED BY <3>1, <3>2
  <2>3. ASSUME NEW i \in DOMAIN new
        PROVE  /\ new[i].blob = new[1].blob
               /\ new[i].pos = IF i = 1 THEN 0 ELSE new[i - 1].pos + new[i - 1].len
    <3>1. CASE i \in 1..Len(old)
      <4>1. last_part # 0
        BY <1>9, <3>1, EmptySeq
      <4>2. /\ old[i].blob = old[1].blob
            /\ old[i].pos = IF i = 1 THEN 0 ELSE old[i - 1].pos + old[i - 1].len
        BY <1>9, <3>1, <4>1 DEF CollectedGood
      <4>3. new[i] = old[i] /\ (i # 1 => new[i - 1] = old[i - 1])
        BY <1>9, <2>1, <3>1
      <4>. QED BY <1>9, <2>2, <4>1, <4>2, <4>3
    <3>2. CASE i = Len(old) + 1
      <4>1. new[i].blob = new[1].blob
        BY <2>1, <2>2, <3>2
      <4>2. CASE old = <<>>
        <5>1. i = 1 /\ last_part = 0
          BY <1>9, <3>2, <4>2, EmptySeq DEF CollectedGood
        <5>. QED BY <1>2, <1>3, <1>5, <2>1, <3>2, <4>1, <5>1
      <4>3. CASE old # <<>>
        <5>1. i # 1 /\ i - 1 = Len(old) /\ Len(old) \in 1..Len(old) /\ last_part # 0
          BY <1>9, <3>2, <4>3, EmptySeq
        <5>2. it.pos = LastOf(old).pos + LastOf(old).len
          BY <1>9, <5>1 DEF CollectedGood
        <5>. QED BY <2>1, <3>2, <4>1, <5>1, <5>2 DEF LastOf
      <4>. QED BY <4>2, <4>3
    <3>. QED BY <1>9, <2>1, <3>1, <3>2
  <2>4. new[Len(new)].pos + new[Len(new)].len = new[Len(new)].blob.total
    BY <1>3, <2>1
  <2>. QED BY <2>1, <2>2, <2>3, <2>4 DEF Dec!Whole
<1>11. CASE it.format \in {"LZ4", "ZSTD"}
  <2>1. Dec!Outcomes = Dec!Decompress(new, it.format, dec_dictionary, it.packet_size)
    BY <1>4, <1>6, <1>8, <1>11 DEF Dec!Outcomes, Dec!IsCompressed
  <2>. QED BY <1>3, <1>7, <1>10, <2>1 DEF Dec!Decompress
<1>12. CASE it.format \notin {"LZ4", "ZSTD"}
  <2>1. PacketFormat = "NONE"
    BY <1>3, <1>12, Numbers DEF Formats
  <2>2. Dec!Outcomes = {Dec!Plain(new, dec_tx_buffer.size + it.payload_length)}
    BY <1>4, <1>8, <1>12 DEF Dec!Outcomes, Dec!IsCompressed
  <2>3. dec_tx_buffer.size + it.payload_length = it.blob.frame.size
    BY <1>3, <1>9, <2>1
  <2>. QED BY <1>3, <1>10, <2>1, <2>2, <2>3 DEF Dec!Plain
<1>. QED BY <1>11, <1>12

-----------------------------------------------------------------------------
(* A step of the decoder, seen from outside, keeps the number of its       *)
(* packet, and it works the packet off from point to point.                *)
DecQuiet == UNCHANGED <<last_sequence, tap_write_pool>>

(* A part is skipped, or stored behind the others. *)
LEMMA SkipPartStep ==
  ASSUME DecInv, TakenGood, UNCHANGED taken, Dec!SkipPart
  PROVE  /\ DecInv' /\ DecQuiet
         /\ dec_pc = "items" /\ dec_pc' = "items"
         /\ dec_work'.packet = dec_work.packet
         /\ ~InStep(DecNext) /\ DecNext'.id >= DecNext.id
         /\ DecNext.id \in Nat /\ DecNext'.id \in Nat
         /\ DecNext.part >= 2
         /\ \/ DecNext'.id = DecNext.id
            \/ DecNext'.id = DecNext.id + 1 /\ DecNext'.part = 1
<1>. USE DEF Dec!seqvars, Dec!state, Dec!stream
<1>1. /\ dec_pc = "items" /\ dec_pc' = "items" /\ Dec!Unusable
      /\ Dec!NextItem(FALSE)
      /\ last_part' = 0 /\ dec_dictionary' = <<>>
      /\ dec_tx_buffer' = [size |-> 0, chunks |-> <<>>]
      /\ UNCHANGED <<first_packet, last_sequence, tap_write_pool>>
      /\ dec_work.pos < dec_work.packet.size
  BY DEF Dec!SkipPart, Dec!AtItem, Dec!ClearState, Dec!FlushInflight, Dec!Empty
<1>2. dec_work.index <= Len(DItems) /\ DecItem \in Piece /\ ItemGood(DecItem, taken)
  BY <1>1, InHand DEF DecInv
<1>3. /\ DecItem.type # "COMPLETE" /\ DecItem.part >= 2
      /\ ~InStep(Before(DecItem)) /\ DecItem.packet_size <= L2MTU
  BY <1>1, <1>2, ItemUsable
<1>4. /\ DecBusy' /\ dec_work'.packet = dec_work.packet
      /\ DecNext' = After(DecItem)
  BY <1>1, <1>2, <1>3, ItemTaken DEF DecInv
<1>5. DecNext = Before(DecItem)
  BY <1>2 DEF DecNext
<1>6. /\ DecNext'.id >= DecNext.id
      /\ DecNext.id \in Nat /\ DecNext'.id \in Nat
      /\ DecItem.part \in Nat /\ DecNext.part >= 2
      /\ \/ DecNext'.id = DecNext.id
         \/ DecNext'.id = DecNext.id + 1 /\ DecNext'.part = 1
      /\ After(DecItem).part = IF DecItem.type = "PARTIAL"
                               THEN DecItem.part + 1 ELSE 1
  BY <1>2, <1>3, <1>4, <1>5, ItemPoints
<1>7. Sync(DecNext)'
  <2>1. CASE DecItem.type = "PARTIAL"
    BY <1>1, <1>3, <1>4, <1>6, <2>1 DEF Sync, Lost
  <2>2. CASE DecItem.type # "PARTIAL"
    <3>1. After(DecItem).dict = <<>>
      BY <1>3, <2>2 DEF After, Fresh
    <3>. QED BY <1>1, <1>4, <1>6, <2>2, <3>1 DEF Sync, InStep
  <2>. QED BY <2>1, <2>2
<1>8. DecControl' /\ DecHeld' /\ DecSync'
  BY <1>1, <1>7 DEF DecInv, DecControl, DecHeld, DecSync
<1>. QED BY <1>1, <1>3, <1>4, <1>5, <1>6, <1>8 DEF DecInv, DecQuiet

LEMMA StorePartStep ==
  ASSUME DecInv, TakenGood, UNCHANGED taken, Dec!StorePart
  PROVE  /\ DecInv' /\ DecQuiet
         /\ dec_pc = "items" /\ dec_pc' = "items"
         /\ dec_work'.packet = dec_work.packet
         /\ DecNext'.id = DecNext.id /\ InStep(DecNext)'
<1>. USE DEF Dec!seqvars, Dec!state, Dec!stream
<1> DEFINE it == DecItem
           chunk == [blob |-> it.blob, pos |-> it.pos, len |-> it.payload_length]
           old == dec_tx_buffer.chunks
           new == Append(old, chunk)
<1>0. Dec!item = it
  BY DEF Dec!item, DecItem, DItems
<1>1. /\ dec_pc = "items" /\ dec_pc' = "items" /\ ~Dec!Unusable
      /\ it.type = "PARTIAL" /\ Dec!NextItem(FALSE)
      /\ dec_tx_buffer' = Dec!Gathered
      /\ last_part' = it.part /\ last_format' = it.format
      /\ last_orig_packet_size' = it.packet_size
      /\ UNCHANGED <<first_packet, last_sequence, dec_dictionary, tap_write_pool>>
      /\ dec_work.pos < dec_work.packet.size
  BY <1>0 DEF Dec!StorePart, Dec!AtItem
<1>2. dec_work.index <= Len(DItems) /\ it \in Piece /\ ItemGood(it, taken)
  BY <1>1, InHand DEF DecInv
<1>3. InStep(Before(it)) /\ DecNext = Before(it)
  BY <1>1, <1>2, ItemUsable DEF DecNext
<1>4. /\ DecBusy' /\ dec_work'.packet = dec_work.packet
      /\ DecNext' = After(it)
  BY <1>1, <1>2, ItemTaken DEF DecInv
<1>5. /\ it.part \in Nat /\ it.part >= 1 /\ it.pos \in Nat
      /\ it.payload_length \in Nat /\ it.blob \in Blob
      /\ it.packet_size = it.blob.frame.size /\ it.format = it.blob.format
      /\ it.part <= 1 => it.pos = 0
      /\ Before(it).id = it.blob.frame.id
      /\ Before(it).part = it.part
      /\ Before(it).dict = it.blob.dictionary
      /\ After(it) = Inside(it.blob, it.part + 1, it.pos + it.payload_length)
      /\ last_part \in Nat
  BY <1>1, <1>2, ItemPoints DEF ItemGood, DecInv, DecControl
<1>6. it.part = last_part + 1
  BY <1>3, <1>5 DEF InStep
<1>7. /\ dec_tx_buffer'.size = dec_tx_buffer.size + it.payload_length
      /\ dec_tx_buffer'.chunks = new
  BY <1>0, <1>1 DEF Dec!Gathered, Dec!Collected, Dec!Chunk
<1>8. /\ chunk \in Slice /\ old \in Seq(Slice) /\ Len(old) \in Nat
      /\ dec_tx_buffer.size = it.pos
      /\ last_part = 0 => old = <<>>
      /\ last_part # 0 => CollectedGood(old) /\ it.blob = old[1].blob /\ old # <<>>
      /\ dec_dictionary = it.blob.dictionary
  <2>1. chunk \in Slice
    BY <1>5 DEF Slice
  <2>2. CASE last_part = 0
    <3>1. dec_tx_buffer = [size |-> 0, chunks |-> <<>>]
      BY <2>2 DEF DecInv, DecHeld
    <3>2. old = <<>> /\ dec_tx_buffer.size = 0
      BY <3>1
    <3>3. old \in Seq(Slice) /\ Len(old) \in Nat
      BY <3>2, EmptySeq
    <3>4. dec_dictionary = it.blob.dictionary
      BY <1>3, <1>5, <2>2 DEF InStep
    <3>. QED BY <1>5, <1>6, <2>1, <2>2, <3>2, <3>3, <3>4
  <2>3. CASE last_part # 0
    <3>1. Before(it) = Inside(it.blob, it.part, it.pos)
      BY <1>5, <1>6, <2>3 DEF Before
    <3>2. it.blob = old[1].blob /\ it.pos = dec_tx_buffer.size
      BY <1>3, <2>3, <3>1 DEF InStep, Inside
    <3>3. CollectedGood(old)
      BY <2>3 DEF DecInv, DecHeld
    <3>4. /\ old \in Seq(Slice) /\ old # <<>> /\ Len(old) \in Nat
          /\ dec_dictionary = it.blob.dictionary
      BY <1>1, <3>2, <3>3, LenProperties DEF CollectedGood
    <3>. QED BY <2>1, <2>3, <3>2, <3>3, <3>4
  <2>. QED BY <2>2, <2>3
<1>9. /\ new \in Seq(Slice) /\ Len(new) = Len(old) + 1 /\ new # <<>>
      /\ \A i \in 1..Len(old) : new[i] = old[i]
      /\ new[Len(old) + 1] = chunk
  BY <1>8, AppendProperties, EmptySeq
<1>10. new[1].blob = it.blob
  <2>1. CASE old = <<>>
    BY <1>8, <1>9, <2>1, EmptySeq
  <2>2. CASE old # <<>>
    <3>1. 1 \in 1..Len(old) /\ last_part # 0
      BY <1>8, <2>2, EmptySeq
    <3>. QED BY <1>8, <1>9, <3>1
  <2>. QED BY <2>1, <2>2
<1>11. ASSUME NEW i \in 1..Len(new)
       PROVE  /\ new[i].blob = new[1].blob
              /\ new[i].pos = IF i = 1 THEN 0 ELSE new[i - 1].pos + new[i - 1].len
  <2>1. CASE i \in 1..Len(old)
    <3>1. last_part # 0
      BY <1>8, <2>1, EmptySeq
    <3>2. /\ old[i].blob = old[1].blob
          /\ old[i].pos = IF i = 1 THEN 0 ELSE old[i - 1].pos + old[i - 1].len
      BY <1>8, <2>1, <3>1 DEF CollectedGood
    <3>3. new[i] = old[i] /\ (i # 1 => new[i - 1] = old[i - 1])
      BY <1>8, <1>9, <2>1
    <3>. QED BY <1>8, <1>10, <3>1, <3>2, <3>3
  <2>2. CASE i = Len(old) + 1
    <3>1. new[i].blob = new[1].blob
      BY <1>9, <1>10, <2>2
    <3>2. CASE last_part = 0
      <4>1. i = 1 /\ it.pos = 0
        BY <1>5, <1>6, <1>8, <2>2, <3>2, EmptySeq
      <4>. QED BY <1>9, <2>2, <3>1, <4>1
    <3>3. CASE last_part # 0
      <4>1. i # 1 /\ i - 1 = Len(old) /\ Len(old) \in 1..Len(old)
        BY <1>8, <2>2, <3>3, EmptySeq
      <4>2. it.pos = LastOf(old).pos + LastOf(old).len
        BY <1>8, <3>3 DEF CollectedGood
      <4>. QED BY <1>9, <2>2, <3>1, <4>1, <4>2 DEF LastOf
    <3>. QED BY <3>2, <3>3
  <2>. QED BY <1>8, <1>9, <2>1, <2>2
<1>12. CollectedGood(dec_tx_buffer.chunks)'
  <2>1. dec_tx_buffer'.size = LastOf(new).pos + LastOf(new).len
    BY <1>7, <1>8, <1>9 DEF LastOf
  <2>. QED BY <1>1, <1>5, <1>7, <1>8, <1>9, <1>10, <1>11, <2>1 DEF CollectedGood
<1>13. InStep(DecNext)'
  BY <1>1, <1>4, <1>5, <1>7, <1>8, <1>10 DEF InStep, Inside
<1>14. DecNext'.id = DecNext.id
  BY <1>3, <1>4, <1>5 DEF Inside
<1>15. DecControl' /\ DecHeld' /\ DecSync'
  BY <1>1, <1>5, <1>12, <1>13
  DEF DecInv, DecControl, DecHeld, DecSync, Sync
<1>. QED BY <1>1, <1>4, <1>13, <1>14, <1>15 DEF DecInv, DecQuiet

(* A frame is whole: it is the taken one that the stream has come to. *)
LEMMA DeliverFrameStep ==
  ASSUME DecInv, TakenGood, UNCHANGED taken, Dec!DeliverFrame
  PROVE  /\ DecInv' /\ UNCHANGED <<last_sequence, dec_work>>
         /\ dec_pc = "items" /\ dec_pc' = "getbuf"
         /\ InStep(DecNext)
         /\ \E f \in FrameRec :
              /\ tap_write_pool' = Append(tap_write_pool, f)
              /\ FrameGood(f, taken)
              /\ f.id = DecNext.id /\ After(DecItem).id = f.id + 1
<1>. USE DEF Dec!seqvars, Dec!state, Dec!stream
<1> DEFINE it == DecItem
<1>0. Dec!item = it
  BY DEF Dec!item, DecItem, DItems
<1>1. /\ dec_pc = "items" /\ dec_pc' = "getbuf" /\ ~Dec!Unusable
      /\ it.type \in {"COMPLETE", "PARTIAL_COMPLETE"}
      /\ UNCHANGED <<first_packet, last_sequence, dec_work>>
      /\ dec_work.pos < dec_work.packet.size
  BY <1>0 DEF Dec!DeliverFrame, Dec!AtItem, Dec!IsComplete
<1>2. dec_work.index <= Len(DItems) /\ it \in Piece /\ ItemGood(it, taken)
  BY <1>1, InHand DEF DecInv
<1>3. InStep(Before(it)) /\ DecNext = Before(it)
  BY <1>1, <1>2, ItemUsable DEF DecNext
<1>4. /\ it.part \in Nat /\ it.blob \in Blob /\ it.blob.frame \in FrameRec
      /\ it.format = PacketFormat
      /\ it.type = "COMPLETE" => it.part = 0
      /\ Before(it).id = it.blob.frame.id
      /\ Before(it).part = IF it.part <= 1 THEN 1 ELSE it.part
      /\ Before(it).dict = it.blob.dictionary
      /\ After(it).id = it.blob.frame.id + 1
      /\ FrameGood(it.blob.frame, taken)
      /\ last_part \in Nat
  BY <1>1, <1>2, ItemPoints
  DEF ItemGood, BlobGood, Blob, DecInv, DecControl
<1>5. Dec!Outcomes = {[frame |-> it.blob.frame, size |-> it.blob.frame.size]}
  BY <1>1, <1>2, <1>3, FrameWhole
<1>6. /\ tap_write_pool' = Append(tap_write_pool, it.blob.frame)
      /\ dec_dictionary' = Dec!Learn(Dec!Dictionary, it.format, it.blob.frame)
  BY <1>0, <1>5 DEF Dec!DeliverFrame
<1>7. IF it.type = "COMPLETE" THEN Dec!ClearState
      ELSE UNCHANGED <<last_part, last_format, last_orig_packet_size, dec_tx_buffer>>
  BY <1>0 DEF Dec!DeliverFrame
<1>8. ASSUME it.type = "COMPLETE" PROVE DecControl' /\ DecHeld' /\ DecSync'
  <2>1. last_part = 0 /\ dec_dictionary = it.blob.dictionary
    BY <1>3, <1>4, <1>8 DEF InStep
  <2>2. Dec!Dictionary = dec_dictionary
    BY <1>0, <2>1 DEF Dec!Dictionary
  <2>3. dec_dictionary' = After(it).dict
    BY <1>6, <1>8, <2>1, <2>2 DEF After, Fresh, Learn, Dec!Learn
  <2>4. last_part' = 0 /\ dec_tx_buffer' = [size |-> 0, chunks |-> <<>>]
    BY <1>7, <1>8 DEF Dec!ClearState, Dec!Empty
  <2>5. DecControl' /\ DecHeld'
    BY <1>1, <2>4 DEF DecInv, DecControl, DecHeld
  <2>6. DecSync'
    BY <1>1, <1>2, <1>8, <2>3, <2>4 DEF DecSync, DItems, DecItem
  <2>. QED BY <2>5, <2>6
<1>9. ASSUME it.type # "COMPLETE" PROVE DecControl' /\ DecHeld' /\ DecSync'
  <2>1. UNCHANGED <<last_part, last_format, last_orig_packet_size, dec_tx_buffer>>
    BY <1>7, <1>9
  <2>2. last_part # 0 => CollectedGood(dec_tx_buffer.chunks)'
    BY <1>1, <2>1 DEF DecInv, DecHeld, CollectedGood
  <2>3. DecControl' /\ DecHeld'
    BY <1>1, <2>1, <2>2 DEF DecInv, DecControl, DecHeld
  <2>4. DecSync'
    BY <1>1, <1>2, <1>9 DEF DecSync, DItems, DecItem
  <2>. QED BY <2>3, <2>4
<1>10. DecBusy'
  BY <1>1 DEF DecInv, DecBusy, DItems
<1>. QED BY <1>1, <1>3, <1>4, <1>6, <1>8, <1>9, <1>10 DEF DecInv

(* Another buffer is there, and the decoder is in step with what follows. *)
LEMMA GetTxBufferStep ==
  ASSUME DecInv, TakenGood, UNCHANGED taken, Dec!GetTxBuffer
  PROVE  /\ DecInv' /\ DecQuiet
         /\ dec_pc = "getbuf" /\ dec_pc' = "items"
         /\ dec_work'.packet = dec_work.packet
         /\ DecNext' = After(DecItem) /\ InStep(DecNext)'
<1>. USE DEF Dec!seqvars, Dec!state, Dec!stream
<1> DEFINE it == DecItem
<1>0. Dec!item = it
  BY DEF Dec!item, DecItem, DItems
<1>1. /\ dec_pc = "getbuf" /\ dec_pc' = "items"
      /\ last_part' = 0 /\ dec_tx_buffer' = [size |-> 0, chunks |-> <<>>]
      /\ UNCHANGED <<first_packet, last_sequence, tap_write_pool>>
      /\ dec_work.index <= Len(DItems) /\ it.type # "PARTIAL"
      /\ it.type = "COMPLETE" => dec_dictionary = After(it).dict
  BY <1>0 DEF Dec!GetTxBuffer, Dec!ClearState, Dec!Empty, DecInv, DecSync
<1>2. it \in Piece /\ ItemGood(it, taken) /\ it.type \in ItemTypes
  BY <1>1, InHand DEF DecInv, Piece
<1>3. /\ Dec!NextItem(~Dec!IsPartial(it.type))
      /\ Dec!IsPartial(it.type) => dec_dictionary' = <<>>
      /\ ~Dec!IsPartial(it.type) => dec_dictionary' = dec_dictionary
  BY <1>0 DEF Dec!GetTxBuffer, Dec!FlushInflight
<1>4. /\ (~Dec!IsPartial(it.type)) = (it.type = "COMPLETE")
      /\ (~Dec!IsPartial(it.type)) \in BOOLEAN
  BY <1>2 DEF Dec!IsPartial, ItemTypes
<1>5. /\ DecBusy' /\ dec_work'.packet = dec_work.packet
      /\ DecNext' = After(it)
  BY <1>1, <1>3, <1>4, ItemTaken DEF DecInv
<1>6. dec_dictionary' = After(it).dict
  <2>1. CASE it.type = "COMPLETE"
    BY <1>1, <1>3, <1>4, <2>1
  <2>2. CASE it.type # "COMPLETE"
    BY <1>1, <1>3, <1>4, <2>2 DEF After, Fresh
  <2>. QED BY <2>1, <2>2
<1>7. InStep(DecNext)'
  BY <1>1, <1>2, <1>5, <1>6, ItemPoints DEF InStep
<1>8. DecControl' /\ DecHeld' /\ DecSync'
  BY <1>1, <1>7 DEF DecInv, DecControl, DecHeld, DecSync, Sync
<1>. QED BY <1>1, <1>5, <1>7, <1>8 DEF DecInv, DecQuiet

(* At the end of a packet both ends forget what a complete frame taught.   *)
LEMMA FinishPacketStep ==
  ASSUME DecInv, TakenGood, UNCHANGED taken, Dec!FinishPacket,
         NEW P, P = End(DItems)
  PROVE  /\ DecInv' /\ DecQuiet
         /\ dec_pc = "items" /\ dec_pc' = "idle"
         /\ DecNext.id = P.id /\ DecNext.part = P.part
         /\ Sync(P)' /\ (InStep(DecNext) => InStep(P)')
<1>. USE DEF Dec!seqvars, Dec!state, Dec!stream
<1> DEFINE last == LastOf(DItems)
<1>1. /\ dec_pc = "items" /\ dec_pc' = "idle"
      /\ UNCHANGED <<first_packet, last_sequence, last_part, last_format,
                     last_orig_packet_size, dec_tx_buffer, tap_write_pool>>
      /\ dec_work.pos >= dec_work.packet.size
      /\ IF dec_work.flush THEN dec_dictionary' = <<>>
                           ELSE dec_dictionary' = dec_dictionary
  BY DEF Dec!FinishPacket, Dec!FlushInflight
<1>2. /\ DItems \in Seq(Piece) /\ Len(DItems) \in Nat
      /\ dec_work.index = Len(DItems) + 1
  BY <1>1, InHand DEF DecInv
<1>3. Len(DItems) >= 1 /\ last \in Piece /\ After(last).id = P.id
      /\ After(last).part = P.part
  <2>1. PacketGood(dec_work.packet, taken)
    BY <1>1 DEF DecInv, DecBusy
  <2>. QED BY <2>1, PacketPoints DEF DItems, TakenGood
<1>4. DecNext = After(last)
  BY <1>2 DEF DecNext
<1>5. dec_work.flush = (last.type = "COMPLETE")
  BY <1>1, <1>2, <1>3 DEF DecInv, DecBusy, LastOf
<1>6. Sync(After(last)) /\ last_part \in Nat
  BY <1>1, <1>4 DEF DecInv, DecSync, DecControl
<1>7. CASE last.type = "COMPLETE"
  <2>1. P.part = 1 /\ P.dict = <<>> /\ After(last).part = 1
    BY <1>3, <1>7 DEF End, Fresh
  <2>2. last_part = 0
    BY <1>6, <2>1 DEF Sync, InStep, Lost
  <2>3. InStep(P)' /\ dec_dictionary' = <<>>
    <3>1. dec_work.flush
      BY <1>5, <1>7
    <3>2. dec_dictionary' = <<>> /\ last_part' = 0
      BY <1>1, <2>2, <3>1
    <3>. QED BY <2>1, <3>2 DEF InStep
  <2>4. DecControl' /\ DecHeld' /\ DecSync' /\ DecBusy'
    BY <1>1, <2>2, <2>3 DEF DecInv, DecControl, DecHeld, DecSync, DecBusy
  <2>. QED BY <1>1, <1>3, <1>4, <2>3, <2>4 DEF Sync, DecInv, DecQuiet
<1>8. CASE last.type # "COMPLETE"
  <2>1. P = After(last)
    BY <1>8 DEF End
  <2>2. dec_dictionary' = dec_dictionary
    BY <1>1, <1>5, <1>8
  <2>3. (InStep(P) => InStep(P)') /\ (Lost(P) => Lost(P)')
    BY <1>1, <2>2 DEF InStep, Lost
  <2>4. last_part = 0 => dec_dictionary = <<>>
    <3>1. CASE Lost(P)
      BY <3>1 DEF Lost
    <3>2. CASE InStep(P) /\ last_part = 0
      <4>1. P.part = 1
        BY <3>2 DEF InStep
      <4>2. last.type # "PARTIAL"
        <5>1. last.part \in Nat /\ last.part >= 1
          <6>1. Len(DItems) \in 1..Len(DItems)
            BY <1>2, <1>3
          <6>2. ItemGood(last, taken)
            BY <1>1, <6>1 DEF DecInv, DecBusy, PacketGood, ItemsGood, DItems, LastOf
          <6>. QED BY <1>3, <1>8, <6>2, ItemPoints DEF ItemGood
        <5>. QED BY <1>3, <2>1, <4>1, <5>1, ItemPoints
      <4>3. P.dict = <<>>
        BY <1>8, <2>1, <4>2 DEF After, Fresh
      <4>. QED BY <3>2, <4>3 DEF InStep
    <3>. QED BY <1>6, <2>1, <3>1, <3>2 DEF Sync
  <2>5. last_part # 0 => CollectedGood(dec_tx_buffer.chunks)'
    BY <1>1, <2>2 DEF DecInv, DecHeld, CollectedGood
  <2>6. DecControl' /\ DecHeld' /\ DecSync' /\ DecBusy'
    BY <1>1, <2>2, <2>4, <2>5 DEF DecInv, DecControl, DecHeld, DecSync, DecBusy
  <2>. QED BY <1>1, <1>4, <1>6, <2>1, <2>3, <2>6 DEF Sync, DecInv, DecQuiet
<1>. QED BY <1>7, <1>8

-----------------------------------------------------------------------------
(* The number after s. *)
Succ(s) == IF s = SeqMax - 1 THEN 1 ELSE s + 1

Half == SeqMax \div 2

(* What the sequence check notices: never the next number, also when it    *)
(* has wrapped; and in the first half of the numbers every other one.      *)
LEMMA SequenceCheck ==
  ASSUME DecControl, NEW p, p.seq \in 1..(SeqMax - 1)
  PROVE  /\ first_packet => ~Dec!Discontinuity(p)
         /\ p.seq = Succ(last_sequence) => ~Dec!Discontinuity(p)
         /\ ~first_packet /\ last_sequence <= Half /\ p.seq <= Half =>
              Dec!Discontinuity(p) \/ p.seq = last_sequence + 1
         /\ ~first_packet /\ last_sequence <= Half /\ p.seq = 1 =>
              Dec!Discontinuity(p)
         /\ Half \in Nat /\ Half + 1 < SeqMax
<1>1. Half \in Nat /\ 2 * Half <= SeqMax /\ SeqMax <= 2 * Half + 1 /\ SeqMax >= 5
      /\ SeqMax \in Nat
  BY Numbers DEF Half
<1>2. ASSUME NEW n \in 0..SeqMax PROVE Dec!Wrap32(n) = n
  BY <1>1, <1>2 DEF Dec!Wrap32
<1>3. Dec!Wrap32(p.seq + SeqMax) = p.seq - 1
  <2>1. PICK seq \in 1..(SeqMax - 1) : seq = p.seq
    OBVIOUS
  <2>2. (seq + SeqMax) % (SeqMax + 1) = seq - 1
    BY <1>1
  <2>. QED BY <2>1, <2>2 DEF Dec!Wrap32
<1>4. ASSUME first_packet PROVE ~Dec!Discontinuity(p)
  <2>1. Dec!PreviousSequence(p) = p.seq - 1
    BY <1>3, <1>4 DEF Dec!PreviousSequence
  <2>2. Dec!Wrap32(p.seq - 1 + 1) = p.seq
    BY <1>1, <1>2
  <2>. QED BY <2>1, <2>2 DEF Dec!Discontinuity
<1> DEFINE last == last_sequence
<1>5. last \in 0..(SeqMax - 1) /\ Dec!Wrap32(last + 1) = last + 1
  BY <1>1, <1>2 DEF DecControl
<1>6. ASSUME ~first_packet
      PROVE  Dec!Discontinuity(p) <=>
               \/ p.seq > last + 1
               \/ p.seq < last + 1 /\ ~(p.seq < last /\ last - p.seq > Half)
  BY <1>5, <1>6 DEF Dec!Discontinuity, Dec!PreviousSequence,
                    Dec!is_sequence_wrapping, Half
<1>7. ASSUME p.seq = Succ(last) PROVE ~Dec!Discontinuity(p)
  <2>1. CASE first_packet
    BY <1>4, <2>1
  <2>2. CASE ~first_packet
    BY <1>1, <1>5, <1>6, <1>7, <2>2 DEF Succ
  <2>. QED BY <2>1, <2>2
<1>8. ASSUME ~first_packet, last <= Half, p.seq <= Half, ~Dec!Discontinuity(p)
      PROVE  p.seq = last + 1
  BY <1>1, <1>5, <1>6, <1>8
<1>9. ASSUME ~first_packet, last <= Half, p.seq = 1 PROVE Dec!Discontinuity(p)
  <2>1. last >= 1
    BY <1>5, <1>9 DEF DecControl
  <2>. QED BY <1>1, <1>5, <1>6, <1>9, <2>1
<1>. QED BY <1>1, <1>4, <1>7, <1>8, <1>9

(* A packet arrives.  If the sequence check says nothing, a decoder that   *)
(* has collected something must be in step with it.                        *)
LEMMA ArriveStep ==
  ASSUME DecInv, TakenGood, UNCHANGED taken, NEW h,
         PacketGood(h, taken), NEW pool, Dec!Decode(h, pool),
         last_part # 0 /\ ~Dec!Discontinuity(h) => InStep(First(h.items))
  PROVE  /\ DecInv' /\ UNCHANGED tap_write_pool
         /\ dec_pc = "idle" /\ dec_pc' = "items"
         /\ dec_work'.packet = h /\ last_sequence' = h.seq
         /\ DecNext' = First(h.items)
         /\ InStep(First(h.items)) /\ ~Dec!Discontinuity(h) => InStep(DecNext)'
<1>. USE DEF Dec!seqvars, Dec!state, Dec!stream
<1>1. /\ h \in Packet /\ h.fault = "none" /\ h.opt_len = 1
      /\ h.seq \in 1..(SeqMax - 1) /\ Laid(h.items, h.size)
  BY DEF PacketGood, Packet
<1>2. Dec!AcceptPacket(h, pool)
  BY <1>1 DEF Dec!Decode, Dec!RefuseShort, Dec!RefuseHeader, Dec!RefuseOptions
<1>3. /\ dec_pc = "idle" /\ dec_pc' = "items"
      /\ first_packet' = FALSE /\ last_sequence' = h.seq
      /\ dec_work' = [packet |-> h, index |-> 1, pos |-> 8, flush |-> TRUE]
      /\ UNCHANGED tap_write_pool
      /\ IF Dec!Discontinuity(h)
         THEN /\ last_part' = 0 /\ dec_dictionary' = <<>>
              /\ dec_tx_buffer' = [size |-> 0, chunks |-> <<>>]
         ELSE UNCHANGED <<last_part, last_format, last_orig_packet_size,
                          dec_tx_buffer, dec_dictionary>>
  BY <1>2 DEF Dec!AcceptPacket, Dec!TakeSequence, Dec!ClearState,
              Dec!FlushInflight, Dec!Empty, Dec!HeaderSize
<1>4. /\ h.items \in Seq(Piece) /\ Len(h.items) \in Nat /\ Len(h.items) >= 1
      /\ First(h.items).part \in Nat /\ First(h.items).part >= 1
      /\ First(h.items).part = 1 => First(h.items).dict = <<>>
  BY PacketPoints DEF TakenGood
<1>5. DItems' = h.items /\ DecNext' = First(h.items)
  BY <1>3, <1>4 DEF DItems, DecNext, DecItem, First
<1>6. DecBusy'
  <2>1. dec_work' \in [packet : Packet, index : Nat, pos : Nat, flush : BOOLEAN]
    BY <1>1, <1>3
  <2>2. PICK start \in [1..(Len(h.items) + 1) -> Nat] : StartsAt(start, h.items, h.size)
    BY <1>1 DEF Laid
  <2>3. start[1] = 8
    BY <2>2, Numbers DEF StartsAt
  <2>4. \E s \in [1..(Len(DItems') + 1) -> Nat] :
          /\ StartsAt(s, DItems', dec_work'.packet.size)
          /\ dec_work'.pos = s[dec_work'.index]
    BY <1>3, <1>5, <2>2, <2>3
  <2>5. PacketGood(dec_work'.packet, taken')
    BY <1>3
  <2>. QED BY <1>3, <1>4, <1>5, <2>1, <2>4, <2>5 DEF DecBusy
<1>7. last_part \in Nat
  BY DEF DecInv, DecControl
<1>8. ASSUME Dec!Discontinuity(h) PROVE Sync(DecNext)'
  BY <1>3, <1>4, <1>5, <1>8 DEF Sync, InStep, Lost
<1>9. ASSUME ~Dec!Discontinuity(h), InStep(First(h.items)) PROVE InStep(DecNext)'
  BY <1>3, <1>5, <1>9 DEF InStep
<1>10. ASSUME ~Dec!Discontinuity(h), last_part = 0 PROVE Sync(DecNext)'
  <2>1. dec_dictionary = <<>>
    BY <1>3, <1>10 DEF DecInv, DecHeld
  <2>2. last_part' = 0 /\ dec_dictionary' = <<>>
    BY <1>3, <1>10, <2>1
  <2>. QED BY <1>4, <1>5, <2>2 DEF Sync, InStep, Lost
<1>11. Sync(DecNext)'
  BY <1>7, <1>8, <1>9, <1>10 DEF Sync
<1>12. DecHeld'
  <2>1. CASE Dec!Discontinuity(h)
    BY <1>3, <2>1 DEF DecHeld
  <2>2. CASE ~Dec!Discontinuity(h)
    <3>1. last_part # 0 => CollectedGood(dec_tx_buffer.chunks)'
      BY <1>3, <2>2 DEF DecInv, DecHeld, CollectedGood
    <3>. QED BY <1>3, <2>2, <3>1 DEF DecInv, DecHeld
  <2>. QED BY <2>1, <2>2
<1>13. DecControl' /\ DecSync'
  <2>1. last_part' \in Nat
    BY <1>3, <1>7
  <2>2. h.seq \in 0..(SeqMax - 1) /\ h.seq # 0
    BY <1>1, Numbers
  <2>3. DecControl'
    BY <1>3, <2>1, <2>2 DEF DecControl
  <2>4. DecSync'
    BY <1>3, <1>11 DEF DecSync
  <2>. QED BY <2>3, <2>4
<1>. QED BY <1>3, <1>5, <1>6, <1>9, <1>12, <1>13 DEF DecInv

(* No step of the decoder drops an item, and none turns round for ever. *)
LEMMA NothingDropped ==
  ASSUME DecInv, TakenGood
  PROVE  ~Dec!DropItem /\ ~Dec!Spin
<1>. SUFFICES ASSUME Dec!DropItem \/ Dec!Spin PROVE FALSE
  OBVIOUS
<1>1. dec_pc = "items" /\ dec_work.pos < dec_work.packet.size
  BY DEF Dec!DropItem, Dec!Spin, Dec!AtItem
<1>2. dec_work.index <= Len(DItems) /\ DecItem \in Piece /\ ItemGood(DecItem, taken)
  BY <1>1, InHand DEF DecInv
<1>3. Dec!item = DecItem
  BY DEF Dec!item, DecItem, DItems
<1>4. ~Dec!Malformed /\ DecItem.type # "OTHER"
      /\ (InStep(Before(DecItem)) \/ Dec!Unusable)
  BY <1>1, <1>2, ItemUsable
<1>5. CASE Dec!Spin
  BY <1>3, <1>4, <1>5 DEF Dec!Spin
<1>6. CASE Dec!DropItem
  <2>1. /\ DecItem.type \in {"COMPLETE", "PARTIAL_COMPLETE"} /\ ~Dec!Unusable
        /\ \E r \in Dec!Outcomes : r.size # DecItem.packet_size
    BY <1>3, <1>4, <1>6 DEF Dec!DropItem, Dec!IsComplete
  <2>2. Dec!Outcomes = {[frame |-> DecItem.blob.frame,
                         size  |-> DecItem.blob.frame.size]}
    BY <1>1, <1>2, <1>4, <2>1, FrameWhole
  <2>3. DecItem.packet_size = DecItem.blob.frame.size
    BY <1>2 DEF ItemGood
  <2>. QED BY <2>1, <2>2, <2>3
<1>. QED BY <1>5, <1>6

(* What the other steps leave of the decoder. *)
DecKept ==
  UNCHANGED <<first_packet, last_sequence, last_part, last_format,
              last_orig_packet_size, dec_tx_buffer, dec_dictionary, dec_work,
              dec_pc>>

LEMMA DecStays ==
  ASSUME DecInv, TakenGood, DecKept, Growing
  PROVE  /\ DecInv' /\ DItems' = DItems /\ DecItem' = DecItem
         /\ DecNext' = DecNext
         /\ \A P : (InStep(P)' <=> InStep(P)) /\ (Sync(P)' <=> Sync(P))
<1>. USE DEF DecKept
<1>1. DItems' = DItems
  BY DEF DItems
<1>2. DecItem' = DecItem
  BY <1>1 DEF DecItem
<1>3. DecNext' = DecNext
  BY <1>1, <1>2 DEF DecNext
<1>4. ASSUME NEW P
      PROVE  (InStep(P)' <=> InStep(P)) /\ (Sync(P)' <=> Sync(P))
  BY DEF InStep, Lost, Sync
<1>5. last_part # 0 => CollectedGood(dec_tx_buffer.chunks)'
  BY DEF DecInv, DecHeld, CollectedGood
<1>6. DecControl' /\ DecHeld'
  BY <1>5 DEF DecInv, DecControl, DecHeld
<1>7. Sync(DecNext)' <=> Sync(DecNext)
  BY <1>3 DEF InStep, Lost, Sync
<1>8. DecSync'
  BY <1>1, <1>2, <1>7 DEF DecInv, DecSync
<1>9. dec_pc # "idle" => PacketGood(dec_work.packet, taken)'
  <2>1. CASE taken' = taken
    BY <2>1 DEF DecInv, DecBusy
  <2>2. CASE Longer(taken, taken')
    BY <2>2, PacketGrows DEF DecInv, DecBusy
  <2>. QED BY <2>1, <2>2 DEF Growing
<1>10. DecBusy'
  BY <1>1, <1>9 DEF DecInv, DecBusy
<1>. QED BY <1>1, <1>2, <1>3, <1>4, <1>6, <1>8, <1>10 DEF DecInv

LEMMA DecStarts ==
  ASSUME Init
  PROVE  /\ DecInv /\ dec_pc = "idle" /\ last_sequence = 0
         /\ last_part = 0 /\ dec_dictionary = <<>> /\ tap_write_pool = <<>>
<1>1. /\ dec_pc = "idle" /\ last_sequence = 0 /\ first_packet = TRUE
      /\ last_part = 0 /\ dec_dictionary = <<>> /\ tap_write_pool = <<>>
      /\ dec_tx_buffer = [size |-> 0, chunks |-> <<>>]
  BY DEF Init, Dec!Init, Dec!Empty
<1>2. DecControl /\ DecHeld /\ DecBusy /\ DecSync
  BY <1>1, Numbers DEF DecControl, DecHeld, DecBusy, DecSync
<1>. QED BY <1>1, <1>2 DEF DecInv

-----------------------------------------------------------------------------
(* Two queues, of which the second feeds the first, are one. *)
LEMMA QueuesMoved ==
  ASSUME NEW S, NEW a \in Seq(S), NEW b \in Seq(S), b # <<>>
  PROVE  /\ Append(a, Head(b)) \in Seq(S) /\ Tail(b) \in Seq(S)
         /\ Append(a, Head(b)) \o Tail(b) = a \o b
<1>1. /\ Head(b) \in S /\ Tail(b) \in Seq(S) /\ Len(Tail(b)) = Len(b) - 1
      /\ \A i \in 1..Len(Tail(b)) : Tail(b)[i] = b[i + 1]
      /\ Head(b) = b[1]
  BY HeadTailProperties
<1>2. PICK h, t : h = Head(b) /\ t = Tail(b)
  OBVIOUS
<1>3. PICK u : u = Append(a, h)
  OBVIOUS
<1>4. /\ h \in S /\ t \in Seq(S) /\ Len(t) = Len(b) - 1 /\ h = b[1]
      /\ \A i \in 1..Len(t) : t[i] = b[i + 1]
  BY <1>1, <1>2
<1>5. /\ u \in Seq(S) /\ Len(u) = Len(a) + 1
      /\ \A i \in 1..Len(a) : u[i] = a[i]
      /\ u[Len(a) + 1] = h
  BY <1>3, <1>4, AppendProperties
<1>6. Len(a) \in Nat /\ Len(b) \in Nat /\ Len(b) >= 1
  BY LenProperties, EmptySeq
<1>7. /\ a \o b \in Seq(S) /\ Len(a \o b) = Len(a) + Len(b)
      /\ \A i \in 1..(Len(a) + Len(b)) :
           (a \o b)[i] = IF i <= Len(a) THEN a[i] ELSE b[i - Len(a)]
  BY ConcatProperties
<1>8. /\ u \o t \in Seq(S) /\ Len(u \o t) = Len(u) + Len(t)
      /\ \A i \in 1..(Len(u) + Len(t)) :
           (u \o t)[i] = IF i <= Len(u) THEN u[i] ELSE t[i - Len(u)]
  BY <1>4, <1>5, ConcatProperties
<1>9. Len(u \o t) = Len(a \o b)
  BY <1>4, <1>5, <1>6, <1>7, <1>8
<1>10. ASSUME NEW i \in 1..Len(u \o t) PROVE (u \o t)[i] = (a \o b)[i]
  <2>1. i \in 1..(Len(a) + Len(b)) /\ i \in 1..(Len(u) + Len(t))
    BY <1>7, <1>8, <1>9
  <2>2. CASE i <= Len(a)
    BY <1>5, <1>6, <1>7, <1>8, <2>1, <2>2
  <2>3. CASE i = Len(a) + 1
    BY <1>4, <1>5, <1>6, <1>7, <1>8, <2>1, <2>3
  <2>4. CASE i > Len(a) + 1
    <3>1. /\ (u \o t)[i] = t[i - Len(a) - 1]
          /\ (a \o b)[i] = b[i - Len(a)]
          /\ i - Len(a) - 1 \in 1..Len(t)
      BY <1>4, <1>5, <1>6, <1>7, <1>8, <2>1, <2>4
    <3>2. t[i - Len(a) - 1] = b[i - Len(a) - 1 + 1]
      BY <1>4, <3>1
    <3>. QED BY <1>6, <2>1, <3>1, <3>2
  <2>. QED BY <1>6, <2>1, <2>2, <2>3, <2>4
<1>11. u \o t = a \o b
  BY <1>7, <1>8, <1>9, <1>10, SeqEqual
<1>. QED BY <1>2, <1>3, <1>4, <1>5, <1>11

LEMMA ConcatAppend ==
  ASSUME NEW S, NEW a \in Seq(S), NEW b \in Seq(S), NEW e \in S
  PROVE  a \o Append(b, e) = Append(a \o b, e)
<1>1. /\ <<e>> \in Seq(S) /\ a \o b \in Seq(S)
      /\ Append(b, e) = b \o <<e>>
  BY AppendIsConcat, ConcatProperties
<1>2. a \o (b \o <<e>>) = (a \o b) \o <<e>>
  BY <1>1, ConcatAssociative
<1>3. Append(a \o b, e) = (a \o b) \o <<e>>
  BY <1>1, AppendIsConcat
<1>. QED BY <1>1, <1>2, <1>3

(* One more at the end of the second, one less at the head of the first. *)
LEMMA QueuesGrow ==
  ASSUME NEW S, NEW a \in Seq(S), NEW b \in Seq(S), NEW e \in S
  PROVE  /\ Append(b, e) \in Seq(S)
         /\ a \o Append(b, e) \in Seq(S)
         /\ Len(a \o Append(b, e)) = Len(a \o b) + 1
         /\ \A k \in 1..Len(a \o b) : (a \o Append(b, e))[k] = (a \o b)[k]
         /\ (a \o Append(b, e))[Len(a \o b) + 1] = e
<1>1. PICK u : u = Append(b, e)
  OBVIOUS
<1>2. /\ u \in Seq(S) /\ Len(u) = Len(b) + 1
      /\ \A i \in 1..Len(b) : u[i] = b[i]
      /\ u[Len(b) + 1] = e
  BY <1>1, AppendProperties
<1>3. Len(a) \in Nat /\ Len(b) \in Nat
  BY LenProperties
<1>4. /\ Len(a \o b) = Len(a) + Len(b)
      /\ \A i \in 1..(Len(a) + Len(b)) :
           (a \o b)[i] = IF i <= Len(a) THEN a[i] ELSE b[i - Len(a)]
  BY ConcatProperties
<1>5. /\ a \o u \in Seq(S) /\ Len(a \o u) = Len(a) + Len(u)
      /\ \A i \in 1..(Len(a) + Len(u)) :
           (a \o u)[i] = IF i <= Len(a) THEN a[i] ELSE u[i - Len(a)]
  BY <1>2, ConcatProperties
<1>6. ASSUME NEW k \in 1..Len(a \o b) PROVE (a \o u)[k] = (a \o b)[k]
  <2>1. k \in 1..(Len(a) + Len(b)) /\ k \in 1..(Len(a) + Len(u))
    BY <1>2, <1>3, <1>4
  <2>2. CASE k <= Len(a)
    BY <1>4, <1>5, <2>1, <2>2
  <2>3. CASE ~(k <= Len(a))
    <3>1. k - Len(a) \in 1..Len(b)
      BY <1>3, <2>1, <2>3
    <3>. QED BY <1>2, <1>4, <1>5, <2>1, <2>3, <3>1
  <2>. QED BY <2>2, <2>3
<1>7. (a \o u)[Len(a \o b) + 1] = e
  <2>1. /\ Len(a) + Len(b) + 1 \in 1..(Len(a) + Len(u))
        /\ ~(Len(a) + Len(b) + 1 <= Len(a))
        /\ Len(a) + Len(b) + 1 - Len(a) = Len(b) + 1
    BY <1>2, <1>3
  <2>. QED BY <1>2, <1>4, <1>5, <2>1
<1>. QED BY <1>1, <1>2, <1>3, <1>4, <1>5, <1>6, <1>7

LEMMA QueuesShrink ==
  ASSUME NEW S, NEW a \in Seq(S), NEW b \in Seq(S), a # <<>>
  PROVE  /\ Tail(a) \in Seq(S) /\ Head(a) \in S /\ Tail(a) \o b \in Seq(S)
         /\ Len(a \o b) = Len(Tail(a) \o b) + 1
         /\ (a \o b)[1] = Head(a)
         /\ \A k \in 1..Len(Tail(a) \o b) : (Tail(a) \o b)[k] = (a \o b)[k + 1]
<1>1. PICK h, t : h = Head(a) /\ t = Tail(a)
  OBVIOUS
<1>2. /\ h \in S /\ t \in Seq(S) /\ Len(t) = Len(a) - 1 /\ h = a[1]
      /\ \A i \in 1..Len(t) : t[i] = a[i + 1]
  BY <1>1, HeadTailProperties
<1>3. Len(a) \in Nat /\ Len(a) >= 1 /\ Len(b) \in Nat
  BY LenProperties, EmptySeq
<1>4. /\ Len(a \o b) = Len(a) + Len(b)
      /\ \A i \in 1..(Len(a) + Len(b)) :
           (a \o b)[i] = IF i <= Len(a) THEN a[i] ELSE b[i - Len(a)]
  BY ConcatProperties
<1>5. /\ t \o b \in Seq(S) /\ Len(t \o b) = Len(t) + Len(b)
      /\ \A i \in 1..(Len(t) + Len(b)) :
           (t \o b)[i] = IF i <= Len(t) THEN t[i] ELSE b[i - Len(t)]
  BY <1>2, ConcatProperties
<1>6. ASSUME NEW k \in 1..Len(t \o b) PROVE (t \o b)[k] = (a \o b)[k + 1]
  <2>1. k \in 1..(Len(t) + Len(b)) /\ k + 1 \in 1..(Len(a) + Len(b))
    BY <1>2, <1>3, <1>5
  <2>2. CASE k <= Len(t)
    <3>1. k \in 1..Len(t) /\ k + 1 <= Len(a)
      BY <1>2, <1>3, <2>1, <2>2
    <3>. QED BY <1>2, <1>4, <1>5, <2>1, <2>2, <3>1
  <2>3. CASE ~(k <= Len(t))
    <3>1. ~(k + 1 <= Len(a)) /\ k + 1 - Len(a) = k - Len(t)
      BY <1>2, <1>3, <2>1, <2>3
    <3>. QED BY <1>4, <1>5, <2>1, <2>3, <3>1
  <2>. QED BY <2>2, <2>3
<1>7. (a \o b)[1] = h
  <2>1. 1 \in 1..(Len(a) + Len(b)) /\ 1 <= Len(a)
    BY <1>3
  <2>. QED BY <1>2, <1>4, <2>1
<1>. QED BY <1>1, <1>2, <1>3, <1>4, <1>5, <1>6, <1>7

-----------------------------------------------------------------------------
(* The packets under way, on the wire and before it, and the frames that   *)
(* have come out of the decoder.                                           *)
WW == wire \o socket_write_pool
Out == delivered \o tap_write_pool

WireGood ==
  /\ wire \in Seq(Packet) /\ socket_write_pool \in Seq(Packet)
  /\ \A k \in 1..Len(WW) : PacketGood(WW[k], taken)

OutGood ==
  /\ delivered \in Seq(FrameRec) /\ tap_write_pool \in Seq(FrameRec)
  /\ \A k \in 1..Len(Out) : FrameGood(Out[k], taken)

(* What a step can do to the packets under way. *)
WireGrew(p) ==
  /\ Len(WW') = Len(WW) + 1 /\ WW'[Len(WW) + 1] = p
  /\ \A k \in 1..Len(WW) : WW'[k] = WW[k]

WireShrank ==
  /\ Len(WW') \in Nat /\ Len(WW) = Len(WW') + 1
  /\ \A k \in 1..Len(WW') : WW'[k] = WW[k + 1]

WireCut ==
  /\ Len(WW') \in Nat /\ Len(WW') <= Len(WW)
  /\ \A k \in 1..Len(WW') : WW'[k] = WW[k]

WireShuffled == \A k \in 1..Len(WW') : \E j \in 1..Len(WW) : WW'[k] = WW[j]

LEMMA WireType ==
  ASSUME WireGood
  PROVE  WW \in Seq(Packet) /\ Len(WW) \in Nat
BY ConcatProperties, LenProperties DEF WireGood, WW

LEMMA OutType ==
  ASSUME OutGood
  PROVE  /\ Out \in Seq(FrameRec) /\ Len(Out) \in Nat
         /\ \A k \in 1..Len(Out) : Out[k].id \in Nat
<1>1. Out \in Seq(FrameRec) /\ Len(Out) \in Nat
  BY ConcatProperties, LenProperties DEF OutGood, Out
<1>2. ASSUME NEW k \in 1..Len(Out) PROVE Out[k].id \in Nat
  <2>1. Out[k] \in FrameRec
    BY <1>1, ElementOfSeq
  <2>. QED BY <2>1 DEF FrameRec
<1>. QED BY <1>1, <1>2

LEMMA WireStays ==
  ASSUME WireGood, Growing, UNCHANGED <<wire, socket_write_pool>>
  PROVE  WireGood' /\ WW' = WW
<1>1. WW' = WW
  BY DEF WW
<1>2. ASSUME NEW k \in 1..Len(WW) PROVE PacketGood(WW[k], taken')
  BY PacketGrows DEF WireGood, Growing
<1>. QED BY <1>1, <1>2 DEF WireGood

LEMMA WireEmit ==
  ASSUME WireGood, NEW p, Emit(p), UNCHANGED <<wire, taken>>
  PROVE  WireGood' /\ WireGrew(p)
<1>1. p \in Packet /\ PacketGood(p, taken)
  BY DEF Emit, PacketGood
<1>2. wire \in Seq(Packet) /\ socket_write_pool \in Seq(Packet)
  BY DEF WireGood
<1>3. WW' = wire \o Append(socket_write_pool, p)
  BY DEF WW, Emit
<1>4. /\ socket_write_pool' \in Seq(Packet) /\ Len(WW') = Len(WW) + 1
      /\ \A k \in 1..Len(WW) : WW'[k] = WW[k]
      /\ WW'[Len(WW) + 1] = p
  BY <1>1, <1>2, <1>3, QueuesGrow DEF WW, Emit
<1>5. Len(WW) \in Nat
  BY WireType
<1>6. ASSUME NEW k \in 1..Len(WW') PROVE PacketGood(WW'[k], taken)
  <2>1. k \in 1..Len(WW) \/ k = Len(WW) + 1
    BY <1>4, <1>5
  <2>. QED BY <1>1, <1>4, <2>1 DEF WireGood
<1>. QED BY <1>2, <1>4, <1>6 DEF WireGood, WireGrew

LEMMA WireSend ==
  ASSUME WireGood, Send
  PROVE  WireGood' /\ WW' = WW
<1>1. /\ socket_write_pool # <<>> /\ socket_write_pool' = Tail(socket_write_pool)
      /\ wire' = Append(wire, Head(socket_write_pool)) /\ taken' = taken
  BY DEF Send, Enc!SocketWrite
<1>2. /\ Append(wire, Head(socket_write_pool)) \in Seq(Packet)
      /\ Tail(socket_write_pool) \in Seq(Packet)
      /\ Append(wire, Head(socket_write_pool)) \o Tail(socket_write_pool)
           = wire \o socket_write_pool
  <2>1. wire \in Seq(Packet) /\ socket_write_pool \in Seq(Packet)
    BY DEF WireGood
  <2>. QED BY <1>1, <2>1, QueuesMoved, Zenon
<1>3. /\ wire' \in Seq(Packet) /\ socket_write_pool' \in Seq(Packet)
      /\ WW' = WW
  BY <1>1, <1>2, Zenon DEF WW
<1>. QED BY <1>1, <1>3 DEF WireGood

LEMMA WireTail ==
  ASSUME WireGood, wire # <<>>, wire' = Tail(wire),
         UNCHANGED <<socket_write_pool, taken>>
  PROVE  /\ WireGood' /\ WireShrank
         /\ Len(WW) >= 1 /\ WW[1] = Head(wire) /\ PacketGood(WW[1], taken)
<1>1. /\ wire' \in Seq(Packet) /\ WW[1] = Head(wire)
      /\ Len(WW) = Len(WW') + 1
      /\ \A k \in 1..Len(WW') : WW'[k] = WW[k + 1]
      /\ WW' \in Seq(Packet)
  BY QueuesShrink DEF WireGood, WW
<1>2. Len(WW) \in Nat /\ Len(WW') \in Nat
  BY <1>1, WireType, LenProperties
<1>3. ASSUME NEW k \in 1..Len(WW') PROVE PacketGood(WW'[k], taken)
  <2>1. k + 1 \in 1..Len(WW)
    BY <1>1, <1>2
  <2>. QED BY <1>1, <2>1 DEF WireGood
<1>4. 1 \in 1..Len(WW)
  BY <1>1, <1>2
<1>5. WireGood'
  BY <1>1, <1>3 DEF WireGood
<1>. QED BY <1>1, <1>2, <1>4, <1>5 DEF WireGood, WireShrank

LEMMA WireRestart ==
  ASSUME WireGood, Growing, socket_write_pool' = <<>>, UNCHANGED wire
  PROVE  WireGood' /\ WireCut
<1>1. wire \in Seq(Packet) /\ socket_write_pool \in Seq(Packet)
  BY DEF WireGood
<1>2. WW' = wire /\ <<>> \in Seq(Packet)
  BY <1>1, ConcatEmptySeq, EmptySeq DEF WW
<1>3. /\ Len(wire) \in Nat /\ Len(socket_write_pool) \in Nat
      /\ Len(WW) = Len(wire) + Len(socket_write_pool)
      /\ \A k \in 1..(Len(wire) + Len(socket_write_pool)) :
           WW[k] = IF k <= Len(wire) THEN wire[k] ELSE socket_write_pool[k - Len(wire)]
  BY <1>1, ConcatProperties, LenProperties DEF WW
<1>4. ASSUME NEW k \in 1..Len(WW') PROVE WW'[k] = WW[k] /\ k \in 1..Len(WW)
  <2>1. k \in 1..(Len(wire) + Len(socket_write_pool)) /\ k <= Len(wire)
    BY <1>2, <1>3
  <2>. QED BY <1>2, <1>3, <2>1
<1>5. \A k \in 1..Len(WW') : PacketGood(WW'[k], taken')
  BY <1>4, PacketGrows DEF WireGood, Growing
<1>6. WireGood'
  BY <1>1, <1>2, <1>5 DEF WireGood
<1>. QED BY <1>2, <1>3, <1>4, <1>6 DEF WireCut

(* Packets change places, or one of them comes twice. *)
LEMMA WireSame ==
  ASSUME WireGood, wire' \in Seq(Packet),
         \A k \in 1..Len(wire') : \E j \in 1..Len(wire) : wire'[k] = wire[j],
         UNCHANGED <<socket_write_pool, taken>>
  PROVE  WireGood' /\ WireShuffled
<1>1. wire \in Seq(Packet) /\ socket_write_pool \in Seq(Packet)
  BY DEF WireGood
<1>2. /\ Len(wire) \in Nat /\ Len(socket_write_pool) \in Nat
      /\ Len(WW) = Len(wire) + Len(socket_write_pool)
      /\ \A k \in 1..(Len(wire) + Len(socket_write_pool)) :
           WW[k] = IF k <= Len(wire) THEN wire[k] ELSE socket_write_pool[k - Len(wire)]
  BY <1>1, ConcatProperties, LenProperties DEF WW
<1>3. /\ Len(wire') \in Nat
      /\ Len(WW') = Len(wire') + Len(socket_write_pool)
      /\ \A k \in 1..(Len(wire') + Len(socket_write_pool)) :
           WW'[k] = IF k <= Len(wire') THEN wire'[k]
                    ELSE socket_write_pool[k - Len(wire')]
  BY <1>1, ConcatProperties, LenProperties DEF WW
<1>4. ASSUME NEW k \in 1..Len(WW') PROVE \E j \in 1..Len(WW) : WW'[k] = WW[j]
  <2>1. CASE k <= Len(wire')
    <3>1. PICK j \in 1..Len(wire) : wire'[k] = wire[j]
      BY <1>3, <2>1
    <3>2. j \in 1..(Len(wire) + Len(socket_write_pool)) /\ j <= Len(wire)
      BY <1>2
    <3>3. j \in 1..Len(WW) /\ WW[j] = wire[j]
      BY <1>2, <3>2
    <3>. QED BY <1>3, <2>1, <3>1, <3>3
  <2>2. CASE ~(k <= Len(wire'))
    <3>1. PICK i \in 1..Len(socket_write_pool) : i = k - Len(wire')
      BY <1>2, <1>3, <2>2
    <3>2. WW'[k] = socket_write_pool[i]
      BY <1>2, <1>3, <2>2, <3>1
    <3>3. PICK m : m = Len(wire) + i
      OBVIOUS
    <3>4. /\ m \in 1..(Len(wire) + Len(socket_write_pool))
          /\ ~(m <= Len(wire)) /\ m - Len(wire) = i
      BY <1>2, <3>3
    <3>5. m \in 1..Len(WW) /\ WW[m] = socket_write_pool[i]
      BY <1>2, <3>4
    <3>. QED BY <3>2, <3>5
  <2>. QED BY <2>1, <2>2
<1>5. ASSUME NEW k \in 1..Len(WW') PROVE PacketGood(WW'[k], taken)
  BY <1>4 DEF WireGood
<1>. QED BY <1>1, <1>4, <1>5 DEF WireGood, WireShuffled

LEMMA WireOvertake ==
  ASSUME WireGood, Overtake
  PROVE  WireGood' /\ WireShuffled
<1>1. PICK i \in 2..Len(wire) : wire' = <<wire[i]>> \o WithoutPacket(i)
  BY DEF Overtake
<1>2. /\ wire \in Seq(Packet) /\ Len(wire) \in Nat
      /\ UNCHANGED <<socket_write_pool, taken>>
  BY LenProperties DEF WireGood, Overtake, enc_vars
<1>3. PICK a, b, c : a = <<wire[i]>> /\ b = SubSeq(wire, 1, i - 1)
                     /\ c = SubSeq(wire, i + 1, Len(wire))
  OBVIOUS
<1>4. a \in Seq(Packet) /\ Len(a) = 1 /\ a[1] = wire[i]
  <2>1. wire[i] \in Packet
    BY <1>2, ElementOfSeq
  <2>. QED BY <1>3, <2>1
<1>5. /\ b \in Seq(Packet) /\ Len(b) \in Nat
      /\ \A k \in 1..Len(b) : \E j \in 1..Len(wire) : b[k] = wire[j]
  <2>1. \A k \in 1..(i - 1) : wire[k] \in Packet
    BY <1>2, ElementOfSeq
  <2>2. /\ b \in Seq(Packet) /\ Len(b) = i - 1
        /\ \A k \in 1..(i - 1) : b[k] = wire[k]
    BY <1>2, <1>3, <2>1, SubSeqProperties
  <2>. QED BY <1>2, <2>2
<1>6. /\ c \in Seq(Packet) /\ Len(c) \in Nat
      /\ \A k \in 1..Len(c) : \E j \in 1..Len(wire) : c[k] = wire[j]
  <2>1. \A k \in (i + 1)..Len(wire) : wire[k] \in Packet
    BY <1>2, ElementOfSeq
  <2>2. /\ c \in Seq(Packet) /\ Len(c) = Len(wire) - i
        /\ \A k \in 1..(Len(wire) - i) : c[k] = wire[i + k]
    <3>1. /\ c \in Seq(Packet)
          /\ Len(c) = IF i + 1 <= Len(wire) THEN Len(wire) - (i + 1) + 1 ELSE 0
          /\ \A k \in 1..(Len(wire) - (i + 1) + 1) : c[k] = wire[i + 1 + k - 1]
      BY <1>2, <1>3, <2>1, SubSeqProperties
    <3>. QED BY <1>2, <3>1
  <2>. QED BY <1>2, <2>2
<1>7. /\ b \o c \in Seq(Packet) /\ Len(b \o c) = Len(b) + Len(c)
      /\ \A k \in 1..(Len(b) + Len(c)) :
           (b \o c)[k] = IF k <= Len(b) THEN b[k] ELSE c[k - Len(b)]
  BY <1>5, <1>6, ConcatProperties
<1>8. PICK d : d = b \o c
  OBVIOUS
<1>9. ASSUME NEW k \in 1..Len(d) PROVE \E j \in 1..Len(wire) : d[k] = wire[j]
  <2>1. CASE k <= Len(b)
    BY <1>5, <1>6, <1>7, <1>8, <2>1
  <2>2. CASE ~(k <= Len(b))
    <3>1. PICK m \in 1..Len(c) : m = k - Len(b)
      BY <1>5, <1>6, <1>7, <1>8, <2>2
    <3>2. d[k] = c[m]
      BY <1>5, <1>6, <1>7, <1>8, <2>2, <3>1
    <3>. QED BY <1>6, <3>2
  <2>. QED BY <2>1, <2>2
<1>10. wire' = a \o d /\ d \in Seq(Packet) /\ Len(d) \in Nat
  BY <1>1, <1>3, <1>5, <1>6, <1>7, <1>8 DEF WithoutPacket
<1>11. /\ wire' \in Seq(Packet) /\ Len(wire') = 1 + Len(d)
       /\ \A k \in 1..(1 + Len(d)) : wire'[k] = IF k <= 1 THEN a[k] ELSE d[k - 1]
  <2>1. /\ a \o d \in Seq(Packet) /\ Len(a \o d) = Len(a) + Len(d)
        /\ \A k \in 1..(Len(a) + Len(d)) :
             (a \o d)[k] = IF k <= Len(a) THEN a[k] ELSE d[k - Len(a)]
    BY <1>4, <1>10, ConcatProperties
  <2>. QED BY <1>4, <1>10, <2>1
<1>12. ASSUME NEW k \in 1..Len(wire')
       PROVE  \E j \in 1..Len(wire) : wire'[k] = wire[j]
  <2>1. CASE k = 1
    <3>1. wire'[k] = wire[i] /\ i \in 1..Len(wire)
      BY <1>2, <1>4, <1>10, <1>11, <2>1
    <3>. QED BY <3>1
  <2>2. CASE k # 1
    <3>1. k - 1 \in 1..Len(d) /\ wire'[k] = d[k - 1]
      BY <1>10, <1>11, <2>2
    <3>. QED BY <1>9, <3>1
  <2>. QED BY <2>1, <2>2
<1>. QED BY <1>2, <1>11, <1>12, WireSame

LEMMA WireDuplicate ==
  ASSUME WireGood, Duplicate
  PROVE  WireGood' /\ WireShuffled
<1>1. /\ wire \in Seq(Packet) /\ Len(wire) \in Nat /\ DOMAIN wire = 1..Len(wire)
      /\ UNCHANGED <<socket_write_pool, taken>>
  BY LenProperties DEF WireGood, Duplicate, enc_vars
<1>2. PICK i \in 1..Len(wire) : wire' = Append(wire, wire[i])
  BY <1>1 DEF Duplicate
<1>3. wire[i] \in Packet
  BY <1>1, ElementOfSeq
<1>4. /\ wire' \in Seq(Packet) /\ Len(wire') = Len(wire) + 1
      /\ \A k \in 1..Len(wire) : wire'[k] = wire[k]
      /\ wire'[Len(wire) + 1] = wire[i]
  BY <1>1, <1>2, <1>3, AppendProperties
<1>5. ASSUME NEW k \in 1..Len(wire')
      PROVE  \E j \in 1..Len(wire) : wire'[k] = wire[j]
  BY <1>1, <1>4
<1>. QED BY <1>1, <1>4, <1>5, WireSame

-----------------------------------------------------------------------------
(* Order.  SeqAt(k) and PointAt(k) are where the kth packet under way      *)
(* begins; behind the last one is what the encoder will send next.  After  *)
(* a loss or a restart there may be a junction at which frames are         *)
(* missing; behind a restart the numbers begin with 1 again.               *)
SeqAt(k) == IF k <= Len(WW) THEN WW[k].seq ELSE NextSeq
PointAt(k) == IF k <= Len(WW) THEN First(WW[k].items) ELSE TxPoint

Gap(id, seq, next) ==
  /\ happened # {}
  /\ id <= next
  /\ "restart" \in Faults => seq = 1

Junction(s, P, t, Q) == (t = Succ(s) /\ P = Q) \/ Gap(P.id, t, Q.id)

Chain ==
  \A k \in 1..Len(WW) :
    Junction(WW[k].seq, End(WW[k].items), SeqAt(k + 1), PointAt(k + 1))

(* Every frame that has come out is before frame id; with no fault, all    *)
(* frames before it have come out.                                         *)
Passed(id) ==
  /\ \A k \in 1..Len(Out) : Out[k].id < id
  /\ happened = {} => Len(Out) + 1 = id

Awaited(seq, P) ==
  \/ seq = Succ(last_sequence) /\ Sync(P) /\ (happened = {} => InStep(P))
  \/ happened # {} /\ ("restart" \in Faults => seq = 1)

DecOrd ==
  /\ dec_pc = "idle" => Passed(PointAt(1).id) /\ Awaited(SeqAt(1), PointAt(1))
  /\ dec_pc # "idle" => Junction(last_sequence, End(DItems), SeqAt(1), PointAt(1))
  /\ dec_pc = "items" => Passed(DecNext.id) /\ (happened = {} => InStep(DecNext))
  /\ dec_pc = "getbuf" => Passed(After(DecItem).id)

OutOrd ==
  /\ happened = {} => \A i \in 1..Len(Out) : Out[i].id = i
  /\ \A i, j \in 1..Len(Out) : i < j => Out[i].id < Out[j].id

Ordered == happened \subseteq {"lose", "restart"}

(* A fault may have happened, but none is undone. *)
NoRepair == happened = {} \/ happened' # {}

LEMMA Points ==
  ASSUME WireGood, EncInv, TakenGood, NEW k \in 1..(Len(WW) + 1)
  PROVE  /\ PointAt(k).id \in Nat
         /\ k <= Len(WW) =>
              /\ End(WW[k].items).id \in 1..(Len(taken) + 1)
              /\ PointAt(k).id <= End(WW[k].items).id
              /\ SeqAt(k) = WW[k].seq /\ PointAt(k) = First(WW[k].items)
<1>1. Len(WW) \in Nat
  BY WireType
<1>2. CASE k <= Len(WW)
  <2>1. PacketGood(WW[k], taken)
    BY <1>1, <1>2 DEF WireGood
  <2>2. /\ First(WW[k].items).id \in 1..Len(taken)
        /\ End(WW[k].items).id \in 1..(Len(taken) + 1)
        /\ First(WW[k].items).id <= End(WW[k].items).id
    BY <2>1, PacketPoints DEF TakenGood
  <2>. QED BY <1>2, <2>2 DEF PointAt, SeqAt
<1>3. CASE ~(k <= Len(WW))
  BY <1>3, TxPointType DEF PointAt
<1>. QED BY <1>2, <1>3

(* Where the packets under way begin, after a step that moves them. *)
LEMMA AtSame ==
  ASSUME WW' = WW, TxPoint' = TxPoint, NextSeq' = NextSeq
  PROVE  \A k : SeqAt(k)' = SeqAt(k) /\ PointAt(k)' = PointAt(k)
BY DEF SeqAt, PointAt

LEMMA AtGrew ==
  ASSUME WireGood, NEW p, WireGrew(p), p.seq = NextSeq, First(p.items) = TxPoint
  PROVE  \A k \in 1..(Len(WW) + 1) : SeqAt(k)' = SeqAt(k) /\ PointAt(k)' = PointAt(k)
<1>1. /\ Len(WW) \in Nat /\ Len(WW') = Len(WW) + 1 /\ WW'[Len(WW) + 1] = p
      /\ \A k \in 1..Len(WW) : WW'[k] = WW[k]
  BY WireType DEF WireGrew
<1>2. ASSUME NEW k \in 1..(Len(WW) + 1)
      PROVE  SeqAt(k)' = SeqAt(k) /\ PointAt(k)' = PointAt(k)
  <2>1. CASE k \in 1..Len(WW)
    BY <1>1, <2>1 DEF SeqAt, PointAt
  <2>2. CASE k = Len(WW) + 1
    BY <1>1, <2>2 DEF SeqAt, PointAt
  <2>. QED BY <1>1, <2>1, <2>2
<1>. QED BY <1>2

LEMMA AtShrank ==
  ASSUME WireGood, WireShrank, TxPoint' = TxPoint, NextSeq' = NextSeq
  PROVE  \A k \in 1..(Len(WW') + 1) :
           SeqAt(k)' = SeqAt(k + 1) /\ PointAt(k)' = PointAt(k + 1)
<1>1. /\ Len(WW) \in Nat /\ Len(WW') \in Nat /\ Len(WW) = Len(WW') + 1
      /\ \A k \in 1..Len(WW') : WW'[k] = WW[k + 1]
  BY WireType DEF WireShrank
<1>2. ASSUME NEW k \in 1..(Len(WW') + 1)
      PROVE  SeqAt(k)' = SeqAt(k + 1) /\ PointAt(k)' = PointAt(k + 1)
  <2>1. CASE k \in 1..Len(WW')
    <3>1. k + 1 <= Len(WW) /\ k <= Len(WW') /\ WW'[k] = WW[k + 1]
      BY <1>1, <2>1
    <3>. QED BY <3>1 DEF SeqAt, PointAt
  <2>2. CASE k = Len(WW') + 1
    <3>1. ~(k <= Len(WW')) /\ ~(k + 1 <= Len(WW))
      BY <1>1, <2>2
    <3>. QED BY <3>1 DEF SeqAt, PointAt
  <2>. QED BY <1>1, <2>1, <2>2
<1>. QED BY <1>2

LEMMA AtCut ==
  ASSUME WireGood, WireCut, NEW n, n = Len(WW') + 1
  PROVE  /\ \A k \in 1..Len(WW') : /\ k \in 1..Len(WW) /\ SeqAt(k)' = SeqAt(k)
                                   /\ PointAt(k)' = PointAt(k)
         /\ SeqAt(n)' = NextSeq' /\ PointAt(n)' = TxPoint'
<1>1. /\ Len(WW) \in Nat /\ Len(WW') \in Nat /\ Len(WW') <= Len(WW)
      /\ \A k \in 1..Len(WW') : WW'[k] = WW[k]
  BY WireType DEF WireCut
<1>2. ~(n <= Len(WW'))
  BY <1>1
<1>. QED BY <1>1, <1>2 DEF SeqAt, PointAt

LEMMA ChainSame ==
  ASSUME WireGood, WW' = WW, TxPoint' = TxPoint, NextSeq' = NextSeq
  PROVE  /\ SeqAt(1)' = SeqAt(1) /\ PointAt(1)' = PointAt(1)
         /\ Chain /\ NoRepair => Chain'
<1>1. \A k : SeqAt(k)' = SeqAt(k) /\ PointAt(k)' = PointAt(k)
  BY AtSame
<1>2. ASSUME Chain, NoRepair PROVE Chain'
  <2>. SUFFICES ASSUME NEW k \in 1..Len(WW)
                PROVE  Junction(WW[k].seq, End(WW[k].items), SeqAt(k + 1), PointAt(k + 1))'
    BY DEF Chain
  <2>1. Junction(WW[k].seq, End(WW[k].items), SeqAt(k + 1), PointAt(k + 1))
    BY <1>2 DEF Chain
  <2>2. /\ SeqAt(k + 1)' = SeqAt(k + 1) /\ PointAt(k + 1)' = PointAt(k + 1)
    BY <1>1
  <2>. QED BY <1>2, <2>1, <2>2 DEF Junction, Gap, NoRepair
<1>. QED BY <1>1, <1>2

LEMMA ChainGrew ==
  ASSUME WireGood, Chain, NEW p, WireGrew(p), UNCHANGED happened,
         p.seq = NextSeq, First(p.items) = TxPoint,
         End(p.items) = TxPoint', NextSeq' = Succ(p.seq)
  PROVE  Chain' /\ SeqAt(1)' = SeqAt(1) /\ PointAt(1)' = PointAt(1)
<1>1. /\ Len(WW) \in Nat /\ Len(WW') = Len(WW) + 1 /\ WW'[Len(WW) + 1] = p
      /\ \A k \in 1..Len(WW) : WW'[k] = WW[k]
  BY WireType DEF WireGrew
<1>2. \A k \in 1..(Len(WW) + 1) : SeqAt(k)' = SeqAt(k) /\ PointAt(k)' = PointAt(k)
  BY AtGrew
<1>3. ASSUME NEW k \in 1..Len(WW')
      PROVE  Junction(WW[k].seq, End(WW[k].items), SeqAt(k + 1), PointAt(k + 1))'
  <2>1. CASE k \in 1..Len(WW)
    <3>1. Junction(WW[k].seq, End(WW[k].items), SeqAt(k + 1), PointAt(k + 1))
      BY <2>1 DEF Chain
    <3>2. k + 1 \in 1..(Len(WW) + 1) /\ WW'[k] = WW[k]
      BY <1>1, <2>1
    <3>3. SeqAt(k + 1)' = SeqAt(k + 1) /\ PointAt(k + 1)' = PointAt(k + 1)
      BY <1>2, <3>2
    <3>. QED BY <3>1, <3>2, <3>3 DEF Junction, Gap
  <2>2. CASE k = Len(WW) + 1
    <3>1. WW'[k] = p /\ SeqAt(k + 1)' = NextSeq' /\ PointAt(k + 1)' = TxPoint'
      BY <1>1, <2>2 DEF SeqAt, PointAt
    <3>. QED BY <3>1 DEF Junction
  <2>. QED BY <1>1, <2>1, <2>2
<1>. QED BY <1>1, <1>2, <1>3 DEF Chain

LEMMA ChainShrank ==
  ASSUME WireGood, WireShrank, TxPoint' = TxPoint, NextSeq' = NextSeq
  PROVE  /\ SeqAt(1)' = SeqAt(2) /\ PointAt(1)' = PointAt(2)
         /\ Chain /\ NoRepair => Chain'
<1>1. /\ Len(WW) \in Nat /\ Len(WW') \in Nat /\ Len(WW) = Len(WW') + 1
      /\ \A k \in 1..Len(WW') : WW'[k] = WW[k + 1]
  BY WireType DEF WireShrank
<1>2. \A k \in 1..(Len(WW') + 1) :
        SeqAt(k)' = SeqAt(k + 1) /\ PointAt(k)' = PointAt(k + 1)
  BY AtShrank
<1>3. SeqAt(1)' = SeqAt(2) /\ PointAt(1)' = PointAt(2)
  <2>1. 1 \in 1..(Len(WW') + 1) /\ 1 + 1 = 2
    BY <1>1
  <2>. QED BY <1>2, <2>1
<1>4. ASSUME Chain, NoRepair, NEW k \in 1..Len(WW')
      PROVE  Junction(WW[k].seq, End(WW[k].items), SeqAt(k + 1), PointAt(k + 1))'
  <2>1. /\ k + 1 \in 1..Len(WW) /\ k + 1 \in 1..(Len(WW') + 1)
        /\ WW'[k] = WW[k + 1]
    BY <1>1
  <2>2. Junction(WW[k + 1].seq, End(WW[k + 1].items),
                 SeqAt(k + 1 + 1), PointAt(k + 1 + 1))
    BY <1>4, <2>1 DEF Chain
  <2>3. /\ SeqAt(k + 1)' = SeqAt(k + 1 + 1)
        /\ PointAt(k + 1)' = PointAt(k + 1 + 1)
    BY <1>2, <2>1
  <2>. QED BY <1>4, <2>1, <2>2, <2>3 DEF Junction, Gap, NoRepair
<1>. QED BY <1>3, <1>4 DEF Chain

LEMMA ChainCut ==
  ASSUME WireGood, EncInv, TakenGood, WireCut, happened' # {},
         NEW total \in Nat, total >= Len(taken),
         TxPoint' = Fresh(total + 1, <<>>), NextSeq' = 1
  PROVE  /\ \/ SeqAt(1)' = SeqAt(1) /\ PointAt(1)' = PointAt(1)
            \/ SeqAt(1)' = 1 /\ PointAt(1)'.id = total + 1
         /\ Chain => Chain'
<1>1. /\ Len(WW) \in Nat /\ Len(WW') \in Nat /\ Len(WW') <= Len(WW)
      /\ \A k \in 1..Len(WW') : WW'[k] = WW[k]
  BY WireType DEF WireCut
<1>2. PICK n \in Nat : n = Len(WW') + 1
  BY <1>1
<1>3. ASSUME NEW k \in 1..Len(WW')
      PROVE  /\ k \in 1..Len(WW) /\ SeqAt(k)' = SeqAt(k)
             /\ PointAt(k)' = PointAt(k)
  BY <1>2, AtCut
<1>4. SeqAt(n)' = 1 /\ PointAt(n)'.id = total + 1
  <2>1. SeqAt(n)' = NextSeq' /\ PointAt(n)' = TxPoint'
    BY <1>2, AtCut
  <2>. QED BY <2>1 DEF Fresh
<1>5. \/ SeqAt(1)' = SeqAt(1) /\ PointAt(1)' = PointAt(1)
      \/ SeqAt(1)' = 1 /\ PointAt(1)'.id = total + 1
  <2>1. CASE Len(WW') = 0
    <3>1. n = 1
      BY <1>2, <2>1
    <3>. QED BY <1>4, <3>1
  <2>2. CASE Len(WW') # 0
    <3>1. 1 \in 1..Len(WW')
      BY <1>1, <2>2
    <3>. QED BY <1>3, <3>1
  <2>. QED BY <2>1, <2>2
<1>6. ASSUME Chain, NEW k \in 1..Len(WW')
      PROVE  Junction(WW[k].seq, End(WW[k].items), SeqAt(k + 1), PointAt(k + 1))'
  <2>1. k \in 1..Len(WW) /\ k \in 1..(Len(WW) + 1) /\ k <= Len(WW) /\ WW'[k] = WW[k]
    BY <1>1
  <2>2. CASE k + 1 <= Len(WW')
    <3>1. k + 1 \in 1..Len(WW')
      BY <1>1, <2>2
    <3>2. SeqAt(k + 1)' = SeqAt(k + 1) /\ PointAt(k + 1)' = PointAt(k + 1)
      BY <1>3, <3>1
    <3>3. Junction(WW[k].seq, End(WW[k].items), SeqAt(k + 1), PointAt(k + 1))
      BY <1>6, <2>1 DEF Chain
    <3>. QED BY <2>1, <3>2, <3>3 DEF Junction, Gap
  <2>3. CASE k = Len(WW')
    <3>1. End(WW[k].items).id \in 1..(Len(taken) + 1) /\ Len(taken) \in Nat
      BY <2>1, Points, LenProperties DEF TakenGood
    <3>2. End(WW[k].items).id <= total + 1
      BY <3>1
    <3>3. SeqAt(k + 1)' = 1 /\ PointAt(k + 1)'.id = total + 1
      <4>1. n = k + 1
        BY <1>2, <2>3
      <4>. QED BY <1>4, <4>1
    <3>. QED BY <2>1, <3>2, <3>3 DEF Junction, Gap
  <2>. QED BY <1>1, <2>2, <2>3
<1>. QED BY <1>5, <1>6 DEF Chain

-----------------------------------------------------------------------------
(* With losses, duplicates and overtakings, whatever the order: numbers    *)
(* that follow one another stand for packets that do.  This holds until    *)
(* half of the numbers are used up.                                        *)
UnderWay ==
  {WW[k] : k \in 1..Len(WW)}
  \union (IF dec_pc = "idle" THEN {} ELSE {dec_work.packet})

SetLinks ==
  /\ \A p \in UnderWay : p.seq < sequence
  /\ \A p, q \in UnderWay : q.seq = p.seq + 1 => First(q.items) = End(p.items)
  /\ \A p \in UnderWay : sequence = p.seq + 1 => TxPoint = End(p.items)
  /\ last_sequence < sequence
  /\ dec_pc = "idle" /\ last_part # 0 =>
       /\ \A q \in UnderWay : q.seq = last_sequence + 1 => InStep(First(q.items))
       /\ sequence = last_sequence + 1 => InStep(TxPoint)

Links == "restart" \notin Faults /\ Faults # {} => SetLinks

Low ==
  Faults # {} =>
    /\ last_sequence <= Half
    /\ \A k \in 1..Len(WW) : WW[k].seq <= Half

Ord == Ordered => Chain /\ DecOrd /\ OutOrd

(* The faults that the proof allows, and how long it allows any. *)
FaultsApart == "restart" \in Faults => Faults = {"restart"}
Early == Faults # {} => sequence <= Half + 1

Base == EncInv /\ TakenGood /\ DecInv /\ WireGood /\ OutGood /\ happened \subseteq Faults

TunnelInv == Base /\ Low /\ Ord /\ Links

LEMMA OutStays ==
  ASSUME OutGood, Growing, UNCHANGED <<delivered, tap_write_pool>>
  PROVE  OutGood' /\ Out' = Out
<1>1. Out' = Out
  BY DEF Out
<1>2. ASSUME NEW k \in 1..Len(Out) PROVE FrameGood(Out[k], taken')
  BY FrameGrows DEF OutGood, Growing
<1>. QED BY <1>1, <1>2 DEF OutGood

(* Nothing happens to what the decoder waits for. *)
LEMMA DecOrdSame ==
  ASSUME DecInv, TakenGood, DecKept, Growing, UNCHANGED happened,
         Out' = Out, SeqAt(1)' = SeqAt(1), PointAt(1)' = PointAt(1)
  PROVE  (DecOrd => DecOrd') /\ (OutOrd => OutOrd')
<1>1. /\ DItems' = DItems /\ DecItem' = DecItem /\ DecNext' = DecNext
      /\ \A P : (InStep(P)' <=> InStep(P)) /\ (Sync(P)' <=> Sync(P))
  BY DecStays DEF Growing
<1>2. ASSUME DecOrd PROVE DecOrd'
  <2>1. Passed(PointAt(1).id)' <=> Passed(PointAt(1).id)
    BY DEF Passed
  <2>2. Awaited(SeqAt(1), PointAt(1))' <=> Awaited(SeqAt(1), PointAt(1))
    BY DEF Awaited, Sync, InStep, Lost, DecKept
  <2>3. Junction(last_sequence, End(DItems), SeqAt(1), PointAt(1))'
        <=> Junction(last_sequence, End(DItems), SeqAt(1), PointAt(1))
    BY <1>1 DEF Junction, Gap, DecKept
  <2>4. Passed(DecNext.id)' <=> Passed(DecNext.id)
    BY <1>1 DEF Passed
  <2>5. Passed(After(DecItem).id)' <=> Passed(After(DecItem).id)
    BY <1>1 DEF Passed
  <2>6. InStep(DecNext)' <=> InStep(DecNext)
    BY <1>1 DEF InStep, DecKept
  <2>. QED BY <1>2, <2>1, <2>2, <2>3, <2>4, <2>5, <2>6 DEF DecOrd, DecKept
<1>3. OutOrd => OutOrd'
  BY DEF OutOrd
<1>. QED BY <1>2, <1>3

(* A step that no queue and no point of the stream shows. *)
LEMMA CalmKeeps ==
  ASSUME TunnelInv, EncInv', TakenGood', Growing, DecKept,
         WireGood', WW' = WW, OutGood', Out' = Out,
         TxPoint' = TxPoint, UNCHANGED <<sequence, happened>>
  PROVE  TunnelInv'
<1>. USE DEF TunnelInv
<1>0. EncInv /\ TakenGood /\ DecInv /\ WireGood
  BY DEF Base
<1>1. DecInv' /\ \A P : (InStep(P)' <=> InStep(P))
  BY <1>0, DecStays DEF Growing
<1>2. Base'
  BY <1>1 DEF Base
<1>3. Low'
  BY DEF Low, DecKept
<1>4. NextSeq' = NextSeq
  BY DEF NextSeq
<1>5. /\ SeqAt(1)' = SeqAt(1) /\ PointAt(1)' = PointAt(1)
      /\ Chain => Chain'
  BY <1>0, <1>4, ChainSame DEF NoRepair
<1>6. (DecOrd => DecOrd') /\ (OutOrd => OutOrd')
  BY <1>0, <1>5, DecOrdSame
<1>7. Ord'
  BY <1>5, <1>6 DEF Ord, Ordered
<1>8. UnderWay' = UnderWay
  BY DEF UnderWay, DecKept
<1>9. InStep(TxPoint)' <=> InStep(TxPoint)
  BY DEF InStep, DecKept
<1>10. Links'
  BY <1>1, <1>8, <1>9 DEF Links, SetLinks, DecKept
<1>. QED BY <1>2, <1>3, <1>7, <1>10

(* The encoder sends a packet: it begins where the one before it ended. *)
LEMMA EmitKeeps ==
  ASSUME TunnelInv, Early, Early', EncInv', TakenGood', DecKept,
         NEW p, Emit(p),
         UNCHANGED <<wire, taken, delivered, tap_write_pool, happened>>
  PROVE  TunnelInv'
<1>. USE DEF TunnelInv
<1>0. /\ EncInv /\ TakenGood /\ DecInv /\ WireGood /\ OutGood /\ Growing
      /\ happened \subseteq Faults
  BY DEF Base, Growing
<1>1. /\ p.seq = NextSeq /\ sequence' = NextSeq + 1
      /\ First(p.items) = TxPoint /\ End(p.items) = TxPoint'
  BY DEF Emit
<1>2. /\ sequence \in 1..SeqMax /\ sequence' \in 1..SeqMax
      /\ NextSeq \in 1..(SeqMax - 1) /\ SeqMax \in Nat /\ SeqMax >= 5
      /\ Half \in Nat /\ Half + 1 < SeqMax
  BY <1>0, TxPointType, Numbers DEF EncInv, EncControl, Half
<1>3. DecInv' /\ \A P : (InStep(P)' <=> InStep(P))
  BY <1>0, DecStays DEF Growing
<1>4. /\ WireGood' /\ WireGrew(p)
      /\ Len(WW) \in Nat /\ Len(WW') = Len(WW) + 1 /\ WW'[Len(WW) + 1] = p
      /\ \A k \in 1..Len(WW) : WW'[k] = WW[k]
  BY <1>0, WireEmit, WireType DEF WireGrew
<1>5. OutGood' /\ Out' = Out
  BY <1>0, OutStays
<1>6. Base'
  BY <1>0, <1>3, <1>4, <1>5 DEF Base
<1>7. NextSeq' = Succ(p.seq)
  BY <1>1, <1>2 DEF NextSeq, Succ
<1>8. Ord'
  <2>. SUFFICES ASSUME Ordered, Chain, DecOrd, OutOrd PROVE Chain' /\ DecOrd' /\ OutOrd'
    BY DEF Ord, Ordered
  <2>1. Chain' /\ SeqAt(1)' = SeqAt(1) /\ PointAt(1)' = PointAt(1)
    BY <1>0, <1>1, <1>4, <1>7, ChainGrew
  <2>. QED BY <1>0, <1>5, <2>1, DecOrdSame
<1>9. ASSUME Faults # {}
      PROVE  /\ NextSeq = sequence /\ sequence' = sequence + 1
             /\ p.seq = sequence /\ p.seq <= Half
  BY <1>1, <1>2, <1>9 DEF Early, NextSeq
<1>10. Low'
  <2>. SUFFICES ASSUME Faults # {}, NEW k \in 1..Len(WW')
                PROVE  WW'[k].seq <= Half
    BY DEF Low, DecKept
  <2>1. k \in 1..Len(WW) \/ k = Len(WW) + 1
    BY <1>4
  <2>. QED BY <1>4, <1>9, <2>1 DEF Low
<1>11. Links'
  <2>. SUFFICES ASSUME "restart" \notin Faults, Faults # {}, SetLinks PROVE SetLinks'
    BY DEF Links
  <2>1. UnderWay' = UnderWay \union {p}
    BY <1>4 DEF UnderWay, DecKept
  <2>2. \A q \in UnderWay : q.seq \in Nat /\ q.seq < sequence
    <3>1. \A k \in 1..Len(WW) : WW[k].seq \in Nat
      BY <1>0 DEF WireGood, PacketGood, Packet
    <3>2. dec_pc # "idle" => dec_work.packet.seq \in Nat
      BY <1>0 DEF DecInv, DecBusy, PacketGood, Packet
    <3>. QED BY <3>1, <3>2 DEF SetLinks, UnderWay
  <2>3. p.seq = sequence /\ sequence' = sequence + 1 /\ sequence \in Nat
    BY <1>2, <1>9
  <2>4. last_sequence' = last_sequence /\ last_sequence < sequence
        /\ last_sequence \in Nat
    BY <1>0, <1>2 DEF SetLinks, DecKept, DecInv, DecControl
  <2>5. \A q \in UnderWay' : q.seq < sequence'
    BY <2>1, <2>2, <2>3
  <2>6. ASSUME NEW q \in UnderWay', NEW r \in UnderWay', r.seq = q.seq + 1
        PROVE  First(r.items) = End(q.items)
    <3>1. CASE q \in UnderWay /\ r \in UnderWay
      BY <2>6, <3>1 DEF SetLinks
    <3>2. CASE q \in UnderWay /\ r = p
      BY <1>1, <2>3, <2>6, <3>2 DEF SetLinks
    <3>3. CASE q = p
      BY <2>1, <2>2, <2>3, <2>6, <3>3
    <3>. QED BY <2>1, <3>1, <3>2, <3>3
  <2>7. ASSUME NEW q \in UnderWay', sequence' = q.seq + 1
        PROVE  TxPoint' = End(q.items)
    BY <1>1, <2>1, <2>2, <2>3, <2>7
  <2>8. ASSUME dec_pc' = "idle", last_part' # 0
        PROVE  /\ \A q \in UnderWay' :
                    q.seq = last_sequence' + 1 => InStep(First(q.items))'
               /\ sequence' = last_sequence' + 1 => InStep(TxPoint)'
    <3>1. dec_pc = "idle" /\ last_part # 0
      BY <2>8 DEF DecKept
    <3>2. sequence' # last_sequence' + 1
      BY <2>3, <2>4
    <3>3. ASSUME NEW q \in UnderWay', q.seq = last_sequence + 1
          PROVE  InStep(First(q.items))'
      <4>1. InStep(First(q.items))
        <5>1. CASE q \in UnderWay
          BY <3>1, <3>3, <5>1 DEF SetLinks
        <5>2. CASE q = p
          BY <1>1, <2>3, <3>1, <3>3, <5>2 DEF SetLinks
        <5>. QED BY <2>1, <5>1, <5>2
      <4>. QED BY <1>3, <4>1
    <3>. QED BY <2>4, <3>2, <3>3
  <2>. QED BY <2>3, <2>4, <2>5, <2>6, <2>7, <2>8 DEF SetLinks
<1>. QED BY <1>6, <1>8, <1>10, <1>11

(* Fewer packets are under way: what holds for any two of them still does. *)
LEMMA LinksFewer ==
  ASSUME TunnelInv, DecKept, TxPoint' = TxPoint, sequence' = sequence,
         \A k \in 1..Len(WW') : \E j \in 1..Len(WW) : WW'[k] = WW[j]
  PROVE  Links' /\ Low'
<1>. USE DEF TunnelInv
<1>1. UnderWay' \subseteq UnderWay
  BY DEF UnderWay, DecKept
<1>2. \A P : InStep(P)' <=> InStep(P)
  BY DEF InStep, DecKept
<1>3. InStep(TxPoint)' <=> InStep(TxPoint)
  BY DEF InStep, DecKept
<1>4. Links'
  BY <1>1, <1>2, <1>3 DEF Links, SetLinks, DecKept
<1>5. Low'
  BY DEF Low, DecKept
<1>. QED BY <1>4, <1>5

LEMMA LoseKeeps ==
  ASSUME TunnelInv, FaultsApart, Lose
  PROVE  TunnelInv'
<1>. USE DEF TunnelInv
<1>0. /\ EncInv /\ TakenGood /\ DecInv /\ WireGood /\ OutGood
      /\ happened \subseteq Faults
  BY DEF Base
<1>1. /\ wire # <<>> /\ wire' = Tail(wire)
      /\ "lose" \in Faults /\ happened' = happened \union {"lose"}
      /\ EncKept /\ DecKept /\ Growing
      /\ UNCHANGED <<socket_write_pool, delivered, tap_write_pool, taken>>
  BY DEF Lose, Fault, enc_vars, dec_vars, EncKept, DecKept, Growing
<1>2. "restart" \notin Faults
  BY <1>1 DEF FaultsApart
<1>3. EncInv' /\ TakenGood' /\ TxPoint' = TxPoint /\ NextSeq' = NextSeq
  BY <1>0, <1>1, EncStays
<1>4. /\ DecInv' /\ DItems' = DItems /\ DecItem' = DecItem /\ DecNext' = DecNext
  BY <1>0, <1>1, DecStays DEF Growing
<1>5. /\ WireGood' /\ WireShrank /\ Len(WW) >= 1 /\ PacketGood(WW[1], taken)
  BY <1>0, <1>1, WireTail
<1>6. OutGood' /\ Out' = Out
  BY <1>0, <1>1, OutStays
<1>7. Base'
  BY <1>0, <1>1, <1>3, <1>4, <1>5, <1>6 DEF Base
<1>8. Links' /\ Low'
  <2>1. \A k \in 1..Len(WW') : \E j \in 1..Len(WW) : WW'[k] = WW[j]
    <3>1. \A k \in 1..Len(WW') : k + 1 \in 1..Len(WW) /\ WW'[k] = WW[k + 1]
      BY <1>5 DEF WireShrank
    <3>. QED BY <3>1
  <2>2. sequence' = sequence
    BY <1>1 DEF EncKept
  <2>. QED BY <1>1, <1>3, <2>1, <2>2, LinksFewer
<1>9. Ord'
  <2>. SUFFICES ASSUME Chain, DecOrd, OutOrd PROVE Chain' /\ DecOrd' /\ OutOrd'
    BY <1>1 DEF Ord, Ordered
  <2>1. /\ Chain' /\ SeqAt(1)' = SeqAt(2) /\ PointAt(1)' = PointAt(2)
    BY <1>0, <1>1, <1>3, <1>5, ChainShrank DEF NoRepair
  <2>2. OutOrd'
    BY <1>1, <1>6 DEF OutOrd
  <2>3. happened' # {}
    BY <1>1
  <2>4. /\ PointAt(1).id \in Nat /\ PointAt(2).id \in Nat
        /\ PointAt(1).id <= PointAt(2).id
    <3>0. /\ Len(WW) \in Nat /\ 1 \in 1..Len(WW) /\ 1 \in 1..(Len(WW) + 1)
          /\ 2 \in 1..(Len(WW) + 1) /\ 1 <= Len(WW) /\ 1 + 1 = 2
      BY <1>0, <1>5, WireType
    <3>1. Junction(WW[1].seq, End(WW[1].items), SeqAt(2), PointAt(2))
      BY <3>0 DEF Chain
    <3>2. /\ PointAt(1).id \in Nat /\ PointAt(2).id \in Nat
          /\ PointAt(1).id <= End(WW[1].items).id
          /\ End(WW[1].items).id \in 1..(Len(taken) + 1)
      BY <1>0, <3>0, Points
    <3>3. End(WW[1].items).id <= PointAt(2).id
      BY <3>1, <3>2 DEF Junction, Gap
    <3>4. Len(taken) \in Nat
      BY <1>0, LenProperties DEF TakenGood
    <3>. QED BY <3>2, <3>3, <3>4
  <2>5. ASSUME dec_pc = "idle"
        PROVE  Passed(PointAt(1).id)' /\ Awaited(SeqAt(1), PointAt(1))'
    <3>1. Passed(PointAt(1).id)
      BY <2>5 DEF DecOrd
    <3>2. \A k \in 1..Len(Out) : Out[k].id < PointAt(2).id
      BY <1>0, <2>4, <3>1, OutType DEF Passed
    <3>3. Passed(PointAt(1).id)'
      BY <1>6, <2>1, <2>3, <3>2 DEF Passed
    <3>4. Awaited(SeqAt(1), PointAt(1))'
      BY <1>2, <2>3 DEF Awaited
    <3>. QED BY <3>3, <3>4
  <2>6. ASSUME dec_pc # "idle"
        PROVE  Junction(last_sequence, End(DItems), SeqAt(1), PointAt(1))'
    <3>1. Junction(last_sequence, End(DItems), SeqAt(1), PointAt(1))
      BY <2>6 DEF DecOrd
    <3>2. End(DItems).id \in Nat
      <4>1. PacketGood(dec_work.packet, taken)
        BY <1>0, <2>6 DEF DecInv, DecBusy
      <4>2. Len(taken) \in Nat
        BY <1>0, LenProperties DEF TakenGood
      <4>3. End(dec_work.packet.items).id \in 1..(Len(taken) + 1)
        BY <1>0, <4>1, PacketPoints DEF TakenGood
      <4>. QED BY <4>2, <4>3 DEF DItems
    <3>3. End(DItems).id <= PointAt(1).id
      BY <2>4, <3>1, <3>2 DEF Junction, Gap
    <3>4. End(DItems).id <= PointAt(2).id
      BY <2>4, <3>2, <3>3
    <3>. QED BY <1>1, <1>2, <1>4, <2>1, <2>3, <3>4 DEF Junction, Gap
  <2>7. ASSUME dec_pc = "items"
        PROVE  Passed(DecNext.id)' /\ (happened' = {} => InStep(DecNext)')
    <3>1. Passed(DecNext.id)
      BY <2>7 DEF DecOrd
    <3>. QED BY <1>4, <1>6, <2>3, <3>1 DEF Passed
  <2>8. ASSUME dec_pc = "getbuf" PROVE Passed(After(DecItem).id)'
    <3>1. Passed(After(DecItem).id)
      BY <2>8 DEF DecOrd
    <3>. QED BY <1>4, <1>6, <2>3, <3>1 DEF Passed
  <2>9. DecOrd'
    BY <1>1, <2>5, <2>6, <2>7, <2>8 DEF DecOrd, DecKept
  <2>. QED BY <2>1, <2>2, <2>9
<1>. QED BY <1>7, <1>8, <1>9

(* The sender starts again: what it had not handed over is missing, and    *)
(* the numbers begin with 1.                                               *)
LEMMA RestartKeeps ==
  ASSUME TunnelInv, QueueGood, FaultsApart, Restart
  PROVE  TunnelInv'
<1>. USE DEF TunnelInv
<1>1. /\ EncInv /\ TakenGood /\ DecInv /\ WireGood /\ OutGood
      /\ happened \subseteq Faults /\ Len(taken) \in Nat
  BY LenProperties DEF Base, TakenGood
<1>2. /\ "restart" \in Faults /\ happened' = happened \union {"restart"}
      /\ Enc!Construct /\ timed' = TRUE /\ DecKept
      /\ UNCHANGED <<wire, delivered, tap_write_pool>>
  BY DEF Restart, Fault, dec_vars, DecKept
<1>3. /\ TakenGood' /\ Growing /\ taken' \in Seq(FrameRec)
      /\ Len(taken') \in Nat /\ Len(taken') >= Len(taken)
  BY <1>1, RestartTakes
<1>4. PICK total : total = Len(taken')
  OBVIOUS
<1>5. happened' # {} /\ Ordered
  <2>1. happened \subseteq {"restart"}
    BY <1>1, <1>2 DEF FaultsApart
  <2>. QED BY <1>2, <2>1 DEF Ordered
<1>6. /\ EncInv' /\ TakenGood'
      /\ TxPoint' = Fresh(total + 1, <<>>)
      /\ sequence' = 1 /\ NextSeq' = 1 /\ socket_write_pool' = <<>>
  BY <1>2, <1>3, <1>4, ConstructKeeps, Numbers DEF NextSeq
<1>7. /\ DecInv' /\ DItems' = DItems /\ DecItem' = DecItem /\ DecNext' = DecNext
      /\ \A P : (InStep(P)' <=> InStep(P)) /\ (Sync(P)' <=> Sync(P))
  BY <1>1, <1>2, <1>3, DecStays
<1>8. WireGood' /\ WireCut
  BY <1>1, <1>2, <1>3, <1>6, WireRestart
<1>9. OutGood' /\ Out' = Out
  BY <1>1, <1>2, <1>3, OutStays
<1>10. Base'
  BY <1>1, <1>2, <1>6, <1>7, <1>8, <1>9 DEF Base
<1>11. Links'
  BY <1>2 DEF Links
<1>12. Low'
  <2>1. \A k \in 1..Len(WW') : k \in 1..Len(WW) /\ WW'[k] = WW[k]
    BY <1>1, <1>8, WireType DEF WireCut
  <2>. QED BY <1>2, <2>1 DEF Low, DecKept
<1>13. Ord'
  <2>0. Chain /\ DecOrd /\ OutOrd
    BY <1>5 DEF Ord
  <2>1. /\ Chain'
        /\ \/ SeqAt(1)' = SeqAt(1) /\ PointAt(1)' = PointAt(1)
           \/ SeqAt(1)' = 1 /\ PointAt(1)'.id = total + 1
    BY <1>1, <1>3, <1>4, <1>5, <1>6, <1>8, <2>0, ChainCut
  <2>2. OutOrd'
    BY <1>5, <1>9, <2>0 DEF OutOrd
  <2>3. \A k \in 1..Len(Out) : Out[k].id \in 1..Len(taken)
    BY <1>1, LenProperties DEF OutGood, FrameGood, TakenGood
  <2>4. ASSUME dec_pc = "idle"
        PROVE  Passed(PointAt(1).id)' /\ Awaited(SeqAt(1), PointAt(1))'
    <3>1. Passed(PointAt(1).id) /\ Awaited(SeqAt(1), PointAt(1))
      BY <2>0, <2>4 DEF DecOrd
    <3>2. CASE SeqAt(1)' = SeqAt(1) /\ PointAt(1)' = PointAt(1)
      <4>1. Passed(PointAt(1).id)'
        BY <1>5, <1>9, <3>1, <3>2 DEF Passed
      <4>2. Sync(PointAt(1))' <=> Sync(PointAt(1))
        BY <1>2, <3>2 DEF Sync, InStep, Lost, DecKept
      <4>3. Awaited(SeqAt(1), PointAt(1))'
        BY <1>2, <1>5, <3>1, <3>2, <4>2 DEF Awaited, DecKept
      <4>. QED BY <4>1, <4>3
    <3>3. CASE SeqAt(1)' = 1 /\ PointAt(1)'.id = total + 1
      <4>1. \A k \in 1..Len(Out) : Out[k].id < total + 1
        BY <1>1, <1>3, <1>4, <2>3
      <4>. QED BY <1>5, <1>9, <3>3, <4>1 DEF Passed, Awaited
    <3>. QED BY <2>1, <3>2, <3>3
  <2>5. ASSUME dec_pc # "idle"
        PROVE  Junction(last_sequence, End(DItems), SeqAt(1), PointAt(1))'
    <3>1. Junction(last_sequence, End(DItems), SeqAt(1), PointAt(1))
      BY <2>0, <2>5 DEF DecOrd
    <3>2. CASE SeqAt(1)' = SeqAt(1) /\ PointAt(1)' = PointAt(1)
      BY <1>2, <1>5, <1>7, <3>1, <3>2 DEF Junction, Gap, DecKept
    <3>3. CASE SeqAt(1)' = 1 /\ PointAt(1)'.id = total + 1
      <4>1. PacketGood(dec_work.packet, taken)
        BY <1>1, <2>5 DEF DecInv, DecBusy
      <4>2. End(DItems).id \in 1..(Len(taken) + 1)
        BY <1>1, <4>1, PacketPoints DEF TakenGood, DItems
      <4>3. End(DItems).id <= total + 1
        BY <1>1, <1>3, <1>4, <4>2
      <4>. QED BY <1>5, <1>7, <3>3, <4>3 DEF Junction, Gap
    <3>. QED BY <2>1, <3>2, <3>3
  <2>6. ASSUME dec_pc = "items"
        PROVE  Passed(DecNext.id)' /\ (happened' = {} => InStep(DecNext)')
    <3>1. Passed(DecNext.id)
      BY <2>0, <2>6 DEF DecOrd
    <3>. QED BY <1>5, <1>7, <1>9, <3>1 DEF Passed
  <2>7. ASSUME dec_pc = "getbuf" PROVE Passed(After(DecItem).id)'
    <3>1. Passed(After(DecItem).id)
      BY <2>0, <2>7 DEF DecOrd
    <3>. QED BY <1>5, <1>7, <1>9, <3>1 DEF Passed
  <2>8. DecOrd'
    BY <1>2, <2>4, <2>5, <2>6, <2>7 DEF DecOrd, DecKept
  <2>. QED BY <2>1, <2>2, <2>8 DEF Ord
<1>. QED BY <1>10, <1>11, <1>12, <1>13

(* Packets out of order: nothing is said of order any more. *)
LEMMA ShuffleKeeps ==
  ASSUME TunnelInv, Overtake \/ Duplicate
  PROVE  TunnelInv'
<1>. USE DEF TunnelInv
<1>0. /\ EncInv /\ TakenGood /\ DecInv /\ WireGood /\ OutGood
      /\ happened \subseteq Faults
  BY DEF Base
<1>1. /\ \E kind \in {"reorder", "duplicate"} :
           kind \in Faults /\ happened' = happened \union {kind}
      /\ EncKept /\ DecKept /\ Growing
      /\ UNCHANGED <<delivered, tap_write_pool, taken>>
  <2>1. CASE Overtake
    BY <2>1 DEF Overtake, Fault, enc_vars, dec_vars, EncKept, DecKept, Growing
  <2>2. CASE Duplicate
    BY <2>2 DEF Duplicate, Fault, enc_vars, dec_vars, EncKept, DecKept, Growing
  <2>. QED BY <2>1, <2>2
<1>2. EncInv' /\ TakenGood' /\ TxPoint' = TxPoint
  BY <1>0, <1>1, EncStays
<1>3. DecInv'
  BY <1>0, <1>1, DecStays DEF Growing
<1>4. WireGood' /\ WireShuffled
  BY <1>0, WireOvertake, WireDuplicate
<1>5. OutGood'
  BY <1>0, <1>1, OutStays
<1>6. Base'
  BY <1>0, <1>1, <1>2, <1>3, <1>4, <1>5 DEF Base
<1>7. Links' /\ Low'
  BY <1>1, <1>2, <1>4, LinksFewer DEF WireShuffled, EncKept
<1>8. Ord'
  BY <1>1 DEF Ord, Ordered
<1>. QED BY <1>6, <1>7, <1>8

(* If the sequence check lets a packet pass, a decoder that has collected  *)
(* something is in step with it.                                           *)
LEMMA CheckSuffices ==
  ASSUME TunnelInv, FaultsApart, dec_pc = "idle", last_part # 0,
         Len(WW) >= 1, ~Dec!Discontinuity(WW[1])
  PROVE  InStep(First(WW[1].items))
<1>. USE DEF TunnelInv
<1>0. /\ DecControl /\ DecInv /\ WireGood /\ happened \subseteq Faults
      /\ Len(WW) \in Nat /\ 1 \in 1..Len(WW) /\ 1 <= Len(WW)
      /\ PacketGood(WW[1], taken)
  BY WireType DEF Base, DecInv, WireGood
<1>1. ~first_packet /\ WW[1].seq \in 1..(SeqMax - 1)
  BY <1>0 DEF DecControl, PacketGood
<1>2. CASE "restart" \notin Faults /\ Faults # {}
  <2>1. WW[1].seq = last_sequence + 1
    BY <1>0, <1>1, <1>2, SequenceCheck DEF Low
  <2>2. WW[1] \in UnderWay
    BY <1>0 DEF UnderWay
  <2>. QED BY <1>2, <2>1, <2>2 DEF Links, SetLinks
<1>3. CASE Faults \in {{}, {"restart"}}
  <2>1. Ordered
    BY <1>0, <1>3 DEF Ordered
  <2>2. Awaited(WW[1].seq, First(WW[1].items))
    BY <1>0, <2>1 DEF Ord, DecOrd, SeqAt, PointAt
  <2>3. CASE Sync(First(WW[1].items))
    BY <2>3 DEF Sync, Lost
  <2>4. CASE happened # {} /\ ("restart" \in Faults => WW[1].seq = 1)
    <3>1. Faults = {"restart"} /\ WW[1].seq = 1
      BY <1>0, <1>3, <2>4
    <3>2. last_sequence <= Half
      BY <3>1 DEF Low
    <3>. QED BY <1>0, <1>1, <3>1, <3>2, SequenceCheck
  <2>. QED BY <2>2, <2>3, <2>4 DEF Awaited
<1>. QED BY <1>2, <1>3 DEF FaultsApart

LEMMA ArriveKeeps ==
  ASSUME TunnelInv, FaultsApart, Arrive
  PROVE  TunnelInv'
<1>. USE DEF TunnelInv
<1>0. /\ EncInv /\ TakenGood /\ DecInv /\ WireGood /\ OutGood
      /\ happened \subseteq Faults /\ Len(WW) \in Nat
  BY WireType DEF Base
<1>1. /\ wire # <<>> /\ wire' = Tail(wire) /\ Dec!Receive(Head(wire))
      /\ EncKept /\ Growing /\ happened' = happened
      /\ UNCHANGED <<socket_write_pool, delivered, taken>>
  BY DEF Arrive, enc_vars, EncKept, Growing
<1>2. EncInv' /\ TakenGood' /\ TxPoint' = TxPoint /\ NextSeq' = NextSeq
  BY <1>0, <1>1, EncStays
<1>3. /\ WireGood' /\ WireShrank /\ Len(WW) >= 1 /\ WW[1] = Head(wire)
      /\ PacketGood(WW[1], taken)
  BY <1>0, <1>1, WireTail
<1>4. PICK h : h = WW[1]
  OBVIOUS
<1>5. /\ PacketGood(h, taken) /\ h.seq \in 1..(SeqMax - 1)
      /\ Dec!Decode(h, dec_available - 1) /\ dec_pc = "idle"
  <2>1. Dec!Decode(h, dec_available - 1) /\ PacketGood(h, taken)
    BY <1>1, <1>3, <1>4 DEF Dec!Receive
  <2>2. dec_pc = "idle"
    BY <2>1 DEF Dec!Decode, Dec!RefuseShort, Dec!RefuseHeader, Dec!RefuseOptions,
                Dec!AcceptPacket, Dec!TakeSequence
  <2>. QED BY <2>1, <2>2 DEF PacketGood
<1>6. last_part # 0 /\ ~Dec!Discontinuity(h) => InStep(First(h.items))
  BY <1>3, <1>4, <1>5, CheckSuffices
<1>7. /\ DecInv' /\ UNCHANGED tap_write_pool
      /\ dec_pc' = "items"
      /\ dec_work'.packet = h /\ last_sequence' = h.seq
      /\ DecNext' = First(h.items)
      /\ InStep(First(h.items)) /\ ~Dec!Discontinuity(h) => InStep(DecNext)'
  BY <1>0, <1>1, <1>5, <1>6, ArriveStep
<1>8. OutGood' /\ Out' = Out
  BY <1>0, <1>1, <1>7, OutStays
<1>9. Base'
  BY <1>0, <1>1, <1>2, <1>3, <1>7, <1>8 DEF Base
<1>10. /\ 1 \in 1..Len(WW) /\ 1 <= Len(WW) /\ 1 + 1 = 2
       /\ \A k \in 1..Len(WW') : k + 1 \in 1..Len(WW) /\ WW'[k] = WW[k + 1]
  BY <1>0, <1>3 DEF WireShrank
<1>11. Low'
  BY <1>4, <1>7, <1>10 DEF Low
<1>12. Links'
  <2>. SUFFICES ASSUME SetLinks PROVE SetLinks'
    BY DEF Links
  <2>1. UnderWay' \subseteq UnderWay /\ h \in UnderWay
    BY <1>4, <1>7, <1>10 DEF UnderWay
  <2>2. UNCHANGED <<sequence, TxPoint>>
    BY <1>1, <1>2 DEF EncKept
  <2>. QED BY <1>7, <2>1, <2>2 DEF SetLinks
<1>13. Ord'
  <2>. SUFFICES ASSUME Chain, DecOrd, OutOrd PROVE Chain' /\ DecOrd' /\ OutOrd'
    BY <1>1 DEF Ord, Ordered
  <2>1. Chain' /\ SeqAt(1)' = SeqAt(2) /\ PointAt(1)' = PointAt(2)
    BY <1>0, <1>1, <1>2, <1>3, ChainShrank DEF NoRepair
  <2>2. OutOrd'
    BY <1>1, <1>8 DEF OutOrd
  <2>3. /\ SeqAt(1) = h.seq /\ PointAt(1) = First(h.items)
    BY <1>4, <1>10 DEF SeqAt, PointAt
  <2>4. Passed(First(h.items).id) /\ Awaited(h.seq, First(h.items))
    BY <1>5, <2>3 DEF DecOrd
  <2>5. Passed(DecNext.id)'
    BY <1>1, <1>7, <1>8, <2>4 DEF Passed
  <2>6. happened' = {} => InStep(DecNext)'
    <3>1. DecControl
      BY <1>0 DEF DecInv
    <3>. QED BY <1>1, <1>5, <1>7, <2>4, <3>1, SequenceCheck DEF Awaited
  <2>7. Junction(last_sequence, End(DItems), SeqAt(1), PointAt(1))'
    <3>1. Junction(h.seq, End(h.items), SeqAt(2), PointAt(2))
      BY <1>4, <1>10 DEF Chain
    <3>2. DItems' = h.items
      BY <1>7 DEF DItems
    <3>. QED BY <1>1, <1>7, <2>1, <3>1, <3>2 DEF Junction, Gap
  <2>8. DecOrd'
    BY <1>7, <2>5, <2>6, <2>7 DEF DecOrd
  <2>. QED BY <2>1, <2>2, <2>8
<1>. QED BY <1>9, <1>11, <1>12, <1>13

-----------------------------------------------------------------------------
(* The decoder works on its packet: neither queue in front of it moves.    *)
LEMMA WorkKeeps ==
  ASSUME TunnelInv, EncKept, Growing,
         UNCHANGED <<wire, socket_write_pool, happened, taken, last_sequence>>,
         DecInv', OutGood',
         dec_pc # "idle", dec_pc' # "idle" => dec_work'.packet = dec_work.packet,
         Ordered /\ OutOrd /\ DecOrd => OutOrd',
         dec_pc' = "idle" /\ last_part' # 0 =>
           \A P : P = End(DItems) => InStep(P)',
         Ordered /\ OutOrd /\ DecOrd =>
           /\ dec_pc' = "idle" => Passed(PointAt(1).id)' /\ Awaited(SeqAt(1), PointAt(1))'
           /\ dec_pc' = "items" => Passed(DecNext.id)' /\ (happened = {} => InStep(DecNext)')
           /\ dec_pc' = "getbuf" => Passed(After(DecItem).id)'
  PROVE  TunnelInv'
<1>. USE DEF TunnelInv
<1>0. /\ EncInv /\ TakenGood /\ DecInv /\ WireGood
      /\ happened \subseteq Faults
  BY DEF Base
<1>1. EncInv' /\ TakenGood' /\ TxPoint' = TxPoint /\ NextSeq' = NextSeq
  BY <1>0, EncStays
<1>2. WireGood' /\ WW' = WW
  BY <1>0, WireStays
<1>3. Base'
  BY <1>0, <1>1, <1>2 DEF Base
<1>4. Low'
  BY <1>2 DEF Low
<1>5. Ord'
  <2>. SUFFICES ASSUME Ordered, Chain, DecOrd, OutOrd PROVE Chain' /\ DecOrd' /\ OutOrd'
    BY DEF Ord, Ordered
  <2>1. Chain' /\ SeqAt(1)' = SeqAt(1) /\ PointAt(1)' = PointAt(1)
    BY <1>0, <1>1, <1>2, ChainSame DEF NoRepair
  <2>2. ASSUME dec_pc' # "idle"
        PROVE  Junction(last_sequence, End(DItems), SeqAt(1), PointAt(1))'
    <3>1. DItems' = DItems
      BY <2>2 DEF DItems
    <3>2. Junction(last_sequence, End(DItems), SeqAt(1), PointAt(1))
      BY DEF DecOrd
    <3>. QED BY <2>1, <3>1, <3>2 DEF Junction, Gap
  <2>3. DecOrd'
    BY <2>2 DEF DecOrd
  <2>. QED BY <2>1, <2>3
<1>6. Links'
  <2>. SUFFICES ASSUME SetLinks PROVE SetLinks'
    BY DEF Links
  <2>1. UnderWay' \subseteq UnderWay /\ dec_work.packet \in UnderWay
    BY <1>2 DEF UnderWay
  <2>2. sequence' = sequence /\ dec_work.packet.seq = last_sequence
    BY <1>0 DEF EncKept, DecInv, DecBusy
  <2>3. ASSUME dec_pc' = "idle", last_part' # 0
        PROVE  /\ \A q \in UnderWay' : q.seq = last_sequence + 1 => InStep(First(q.items))'
               /\ sequence = last_sequence + 1 => InStep(TxPoint)'
    <3>1. PICK P : P = End(DItems)
      OBVIOUS
    <3>2. InStep(P)'
      BY <2>3, <3>1
    <3>3. ASSUME NEW q \in UnderWay', q.seq = last_sequence + 1
          PROVE  InStep(First(q.items))'
      <4>1. First(q.items) = P
        BY <2>1, <2>2, <3>1, <3>3 DEF SetLinks, DItems
      <4>. QED BY <3>2, <4>1
    <3>4. ASSUME sequence = last_sequence + 1 PROVE InStep(TxPoint)'
      <4>1. TxPoint' = P
        BY <1>1, <2>1, <2>2, <3>1, <3>4 DEF SetLinks, DItems
      <4>. QED BY <3>2, <4>1 DEF InStep
    <3>. QED BY <3>3, <3>4
  <2>. QED BY <1>1, <2>1, <2>2, <2>3 DEF SetLinks
<1>. QED BY <1>3, <1>4, <1>5, <1>6

LEMMA SkipPartKeeps ==
  ASSUME TunnelInv, DecoderStep, Dec!SkipPart
  PROVE  TunnelInv'
<1>0. /\ TakenGood /\ DecInv /\ OutGood
  BY DEF TunnelInv, Base
<1>1. /\ EncKept /\ Growing
      /\ UNCHANGED <<wire, socket_write_pool, happened, taken, delivered>>
  BY DEF DecoderStep, enc_vars, net_vars, EncKept, Growing
<1>2. /\ DecInv' /\ UNCHANGED <<last_sequence, tap_write_pool>>
      /\ dec_pc = "items" /\ dec_pc' = "items"
      /\ dec_work'.packet = dec_work.packet
      /\ ~InStep(DecNext) /\ DecNext'.id >= DecNext.id
      /\ DecNext.id \in Nat /\ DecNext'.id \in Nat
  BY <1>0, <1>1, SkipPartStep DEF DecQuiet
<1>3. OutGood' /\ Out' = Out
  BY <1>0, <1>1, <1>2, OutStays
<1>4. ASSUME OutOrd, DecOrd
      PROVE  /\ OutOrd' /\ Passed(DecNext.id)'
             /\ happened = {} => InStep(DecNext)'
  <2>1. Passed(DecNext.id) /\ happened # {}
    BY <1>2, <1>4 DEF DecOrd
  <2>2. \A k \in 1..Len(Out) : Out[k].id < DecNext'.id
    BY <1>0, <1>2, <2>1, OutType DEF Passed
  <2>. QED BY <1>1, <1>3, <1>4, <2>1, <2>2 DEF Passed, OutOrd
<1>. QED BY <1>1, <1>2, <1>3, <1>4, WorkKeeps

LEMMA StorePartKeeps ==
  ASSUME TunnelInv, DecoderStep, Dec!StorePart
  PROVE  TunnelInv'
<1>0. /\ TakenGood /\ DecInv /\ OutGood
  BY DEF TunnelInv, Base
<1>1. /\ EncKept /\ Growing
      /\ UNCHANGED <<wire, socket_write_pool, happened, taken, delivered>>
  BY DEF DecoderStep, enc_vars, net_vars, EncKept, Growing
<1>2. /\ DecInv' /\ UNCHANGED <<last_sequence, tap_write_pool>>
      /\ dec_pc = "items" /\ dec_pc' = "items"
      /\ dec_work'.packet = dec_work.packet
      /\ DecNext'.id = DecNext.id /\ InStep(DecNext)'
  BY <1>0, <1>1, StorePartStep DEF DecQuiet
<1>3. OutGood' /\ Out' = Out
  BY <1>0, <1>1, <1>2, OutStays
<1>4. ASSUME OutOrd, DecOrd
      PROVE  OutOrd' /\ Passed(DecNext.id)'
  <2>1. Passed(DecNext.id)
    BY <1>2, <1>4 DEF DecOrd
  <2>. QED BY <1>1, <1>2, <1>3, <1>4, <2>1 DEF Passed, OutOrd
<1>. QED BY <1>1, <1>2, <1>3, <1>4, WorkKeeps

LEMMA DeliverFrameKeeps ==
  ASSUME TunnelInv, DecoderStep, Dec!DeliverFrame
  PROVE  TunnelInv'
<1>0. /\ TakenGood /\ DecInv /\ OutGood
  BY DEF TunnelInv, Base
<1>1. /\ EncKept /\ Growing
      /\ UNCHANGED <<wire, socket_write_pool, happened, taken, delivered>>
  BY DEF DecoderStep, enc_vars, net_vars, EncKept, Growing
<1>2. /\ DecInv' /\ UNCHANGED <<last_sequence, dec_work>>
      /\ dec_pc = "items" /\ dec_pc' = "getbuf"
      /\ InStep(DecNext)
  BY <1>0, <1>1, DeliverFrameStep
<1>3. PICK f \in FrameRec :
        /\ tap_write_pool' = Append(tap_write_pool, f)
        /\ FrameGood(f, taken)
        /\ f.id = DecNext.id /\ After(DecItem).id = f.id + 1
  BY <1>0, <1>1, DeliverFrameStep
<1>4. delivered \in Seq(FrameRec) /\ tap_write_pool \in Seq(FrameRec) /\ f.id \in Nat
  BY <1>0 DEF OutGood, FrameRec
<1>5. /\ tap_write_pool' \in Seq(FrameRec)
      /\ Len(Out') = Len(Out) + 1 /\ Out'[Len(Out) + 1] = f
      /\ \A k \in 1..Len(Out) : Out'[k] = Out[k]
  BY <1>1, <1>3, <1>4, QueuesGrow DEF Out
<1>6. Len(Out) \in Nat /\ \A k \in 1..Len(Out) : Out[k].id \in Nat
  BY <1>0, OutType
<1>7. OutGood'
  <2>1. ASSUME NEW k \in 1..Len(Out') PROVE FrameGood(Out'[k], taken')
    <3>1. k \in 1..Len(Out) \/ k = Len(Out) + 1
      BY <1>5, <1>6
    <3>. QED BY <1>0, <1>1, <1>3, <1>5, <3>1 DEF OutGood
  <2>. QED BY <1>1, <1>4, <1>5, <2>1 DEF OutGood
<1>8. After(DecItem)' = After(DecItem)
  BY <1>2 DEF DecItem, DItems
<1>9. ASSUME OutOrd, DecOrd
      PROVE  OutOrd' /\ Passed(After(DecItem).id)'
  <2>1. Passed(f.id)
    BY <1>2, <1>3, <1>9 DEF DecOrd
  <2>2. ASSUME NEW k \in 1..Len(Out')
        PROVE  Out'[k].id < f.id + 1 /\ (happened = {} => Out'[k].id = k)
    <3>1. CASE k \in 1..Len(Out)
      BY <1>4, <1>5, <1>6, <1>9, <2>1, <3>1 DEF Passed, OutOrd
    <3>2. CASE k = Len(Out) + 1
      BY <1>4, <1>5, <1>6, <2>1, <3>2 DEF Passed
    <3>. QED BY <1>5, <1>6, <3>1, <3>2
  <2>3. ASSUME NEW i \in 1..Len(Out'), NEW j \in 1..Len(Out'), i < j
        PROVE  Out'[i].id < Out'[j].id
    <3>1. i \in 1..Len(Out) /\ (j \in 1..Len(Out) \/ j = Len(Out) + 1)
      BY <1>5, <1>6, <2>3
    <3>. QED BY <1>5, <1>9, <2>1, <2>3, <3>1 DEF Passed, OutOrd
  <2>4. OutOrd'
    BY <1>1, <2>2, <2>3 DEF OutOrd
  <2>5. happened = {} => Len(Out') + 1 = f.id + 1
    BY <1>5, <1>6, <2>1 DEF Passed
  <2>6. Passed(After(DecItem).id)'
    BY <1>1, <1>3, <1>8, <2>2, <2>5 DEF Passed
  <2>. QED BY <2>4, <2>6
<1>. QED BY <1>1, <1>2, <1>7, <1>9, WorkKeeps

LEMMA GetTxBufferKeeps ==
  ASSUME TunnelInv, DecoderStep, Dec!GetTxBuffer
  PROVE  TunnelInv'
<1>0. /\ TakenGood /\ DecInv /\ OutGood
  BY DEF TunnelInv, Base
<1>1. /\ EncKept /\ Growing
      /\ UNCHANGED <<wire, socket_write_pool, happened, taken, delivered>>
  BY DEF DecoderStep, enc_vars, net_vars, EncKept, Growing
<1>2. /\ DecInv' /\ UNCHANGED <<last_sequence, tap_write_pool>>
      /\ dec_pc = "getbuf" /\ dec_pc' = "items"
      /\ dec_work'.packet = dec_work.packet
      /\ DecNext' = After(DecItem) /\ InStep(DecNext)'
  BY <1>0, <1>1, GetTxBufferStep DEF DecQuiet
<1>3. OutGood' /\ Out' = Out
  BY <1>0, <1>1, <1>2, OutStays
<1>4. ASSUME OutOrd, DecOrd
      PROVE  OutOrd' /\ Passed(DecNext.id)'
  <2>1. Passed(After(DecItem).id)
    BY <1>2, <1>4 DEF DecOrd
  <2>. QED BY <1>1, <1>2, <1>3, <1>4, <2>1 DEF Passed, OutOrd
<1>. QED BY <1>1, <1>2, <1>3, <1>4, WorkKeeps

LEMMA FinishPacketKeeps ==
  ASSUME TunnelInv, DecoderStep, Dec!FinishPacket
  PROVE  TunnelInv'
<1>0. /\ TakenGood /\ DecInv /\ OutGood /\ EncInv /\ WireGood
      /\ Len(taken) \in Nat /\ Len(WW) \in Nat
  BY WireType, LenProperties DEF TunnelInv, Base, TakenGood
<1>1. /\ EncKept /\ Growing
      /\ UNCHANGED <<wire, socket_write_pool, happened, taken, delivered>>
  BY DEF DecoderStep, enc_vars, net_vars, EncKept, Growing
<1>2. PICK P : P = End(DItems)
  OBVIOUS
<1>3. /\ DecInv' /\ UNCHANGED <<last_sequence, tap_write_pool>>
      /\ dec_pc = "items" /\ dec_pc' = "idle"
      /\ DecNext.id = P.id
      /\ Sync(P)' /\ (InStep(DecNext) => InStep(P)')
  BY <1>0, <1>1, <1>2, FinishPacketStep DEF DecQuiet
<1>4. OutGood' /\ Out' = Out
  BY <1>0, <1>1, <1>3, OutStays
<1>5. last_part' # 0 => InStep(P)'
  BY <1>3 DEF Sync, Lost
<1>6. P.id \in Nat /\ PointAt(1).id \in Nat
  <2>1. PacketGood(dec_work.packet, taken)
    BY <1>0, <1>3 DEF DecInv, DecBusy
  <2>2. P.id \in 1..(Len(taken) + 1)
    BY <1>0, <1>2, <2>1, PacketPoints DEF TakenGood, DItems
  <2>3. 1 \in 1..(Len(WW) + 1)
    BY <1>0
  <2>. QED BY <1>0, <2>2, <2>3, Points
<1>7. SeqAt(1)' = SeqAt(1) /\ PointAt(1)' = PointAt(1)
  <2>1. /\ TxPoint' = TxPoint /\ NextSeq' = NextSeq /\ WW' = WW
    BY <1>0, <1>1, EncStays DEF WW
  <2>. QED BY <1>0, <2>1, ChainSame
<1>8. ASSUME OutOrd, DecOrd
      PROVE  /\ OutOrd' /\ Passed(PointAt(1).id)'
             /\ Awaited(SeqAt(1), PointAt(1))'
  <2>1. /\ Passed(P.id) /\ (happened = {} => InStep(DecNext))
        /\ Junction(last_sequence, P, SeqAt(1), PointAt(1))
    BY <1>2, <1>3, <1>8 DEF DecOrd
  <2>2. OutOrd'
    BY <1>1, <1>4, <1>8 DEF OutOrd
  <2>3. CASE SeqAt(1) = Succ(last_sequence) /\ P = PointAt(1)
    <3>1. Passed(PointAt(1).id)'
      BY <1>1, <1>4, <1>7, <2>1, <2>3 DEF Passed
    <3>2. Sync(PointAt(1))' /\ (happened = {} => InStep(PointAt(1))')
      BY <1>3, <1>7, <2>1, <2>3 DEF Sync, InStep, Lost
    <3>3. Awaited(SeqAt(1), PointAt(1))'
      BY <1>1, <1>3, <1>7, <2>3, <3>2 DEF Awaited
    <3>. QED BY <2>2, <3>1, <3>3
  <2>4. CASE Gap(P.id, SeqAt(1), PointAt(1).id)
    <3>1. \A k \in 1..Len(Out) : Out[k].id < PointAt(1).id
      BY <1>0, <1>6, <2>1, <2>4, OutType DEF Passed, Gap
    <3>2. Passed(PointAt(1).id)'
      BY <1>1, <1>4, <1>7, <2>4, <3>1 DEF Passed, Gap
    <3>3. Awaited(SeqAt(1), PointAt(1))'
      BY <1>1, <1>7, <2>4 DEF Awaited, Gap
    <3>. QED BY <2>2, <3>2, <3>3
  <2>. QED BY <2>1, <2>3, <2>4 DEF Junction
<1>. QED BY <1>1, <1>2, <1>3, <1>4, <1>5, <1>8, WorkKeeps

LEMMA DecoderStepKeeps ==
  ASSUME TunnelInv, DecoderStep
  PROVE  TunnelInv'
<1>1. Dec!DecoderStep /\ DecInv /\ TakenGood
  BY DEF DecoderStep, TunnelInv, Base
<1>2. ~Dec!DropItem /\ ~Dec!Spin
  BY <1>1, NothingDropped
<1>. QED
  BY <1>1, <1>2, SkipPartKeeps, StorePartKeeps, DeliverFrameKeeps,
     GetTxBufferKeeps, FinishPacketKeeps DEF Dec!DecoderStep

-----------------------------------------------------------------------------
(* The other steps. *)
LEMMA SendKeeps ==
  ASSUME TunnelInv, Send
  PROVE  TunnelInv'
<1>0. EncInv /\ TakenGood /\ WireGood /\ OutGood
  BY DEF TunnelInv, Base
<1>1. /\ EncKept /\ DecKept /\ Growing
      /\ UNCHANGED <<delivered, tap_write_pool, happened, sequence>>
  BY DEF Send, Enc!SocketWrite, Enc!packet, Enc!stream, dec_vars, EncKept,
         DecKept, Growing
<1>2. EncInv' /\ TakenGood' /\ TxPoint' = TxPoint
  BY <1>0, <1>1, EncStays
<1>3. WireGood' /\ WW' = WW
  BY <1>0, WireSend
<1>4. OutGood' /\ Out' = Out
  BY <1>0, <1>1, OutStays
<1>. QED BY <1>1, <1>2, <1>3, <1>4, CalmKeeps

LEMMA TapWriteKeeps ==
  ASSUME TunnelInv, TapWrite
  PROVE  TunnelInv'
<1>0. EncInv /\ TakenGood /\ WireGood /\ OutGood
  BY DEF TunnelInv, Base
<1>1. /\ EncKept /\ DecKept /\ Growing
      /\ UNCHANGED <<wire, socket_write_pool, taken, happened, sequence>>
  BY DEF TapWrite, Dec!TapWrite, Dec!seqvars, Dec!state, Dec!stream, enc_vars,
         net_vars, EncKept, DecKept, Growing
<1>2. /\ tap_write_pool # <<>> /\ tap_write_pool' = Tail(tap_write_pool)
      /\ delivered' = Append(delivered, Head(tap_write_pool))
  BY DEF TapWrite, Dec!TapWrite
<1>3. EncInv' /\ TakenGood' /\ TxPoint' = TxPoint
  BY <1>0, <1>1, EncStays
<1>4. WireGood' /\ WW' = WW
  BY <1>0, <1>1, WireStays
<1>5. /\ delivered' \in Seq(FrameRec) /\ tap_write_pool' \in Seq(FrameRec)
      /\ Out' = Out
  BY <1>0, <1>2, QueuesMoved DEF OutGood, Out
<1>6. OutGood'
  BY <1>0, <1>1, <1>5 DEF OutGood
<1>. QED BY <1>1, <1>3, <1>4, <1>5, <1>6, CalmKeeps

LEMMA EncodeFrameKeeps ==
  ASSUME TunnelInv, QueueGood, EncodeFrame
  PROVE  TunnelInv'
<1>0. EncInv /\ TakenGood /\ WireGood /\ OutGood
  BY DEF TunnelInv, Base
<1>1. /\ DecKept
      /\ UNCHANGED <<wire, delivered, tap_write_pool, happened>>
  BY DEF EncodeFrame, net_vars, dec_vars, DecKept
<1>2. /\ EncInv' /\ TakenGood' /\ Growing /\ TxPoint' = TxPoint
      /\ UNCHANGED <<socket_write_pool, sequence>>
  BY <1>0, AcceptKeeps, QueueStep DEF Silent, Next
<1>3. WireGood' /\ WW' = WW
  BY <1>0, <1>1, <1>2, WireStays
<1>4. OutGood' /\ Out' = Out
  BY <1>0, <1>1, <1>2, OutStays
<1>. QED BY <1>1, <1>2, <1>3, <1>4, CalmKeeps

(* The tap reader takes a buffer or queues a frame: nothing else changes. *)
LEMMA InputKeeps ==
  ASSUME TunnelInv, TapPop \/ ReadFrame
  PROVE  TunnelInv'
<1>0. EncInv /\ TakenGood /\ WireGood /\ OutGood
  BY DEF TunnelInv, Base
<1>1. /\ EncKept /\ DecKept /\ Growing
      /\ UNCHANGED <<wire, socket_write_pool, delivered, tap_write_pool,
                     happened, sequence, taken>>
  BY DEF TapPop, ReadFrame, Enc!TapPop, Enc!ReadFrame, Enc!packet, Enc!stream,
         dec_vars, net_vars, EncKept, DecKept, Growing
<1>2. EncInv' /\ TakenGood' /\ TxPoint' = TxPoint
  BY <1>0, <1>1, EncStays
<1>3. WireGood' /\ WW' = WW
  BY <1>0, <1>1, WireStays
<1>4. OutGood' /\ Out' = Out
  BY <1>0, <1>1, OutStays
<1>. QED BY <1>1, <1>2, <1>3, <1>4, CalmKeeps

(* A step of the encoder thread after the frame was read, or its timeout. *)
LEMMA SendingKeeps ==
  ASSUME TunnelInv, Early, Early', EncoderStep \/ Timeout
  PROVE  TunnelInv'
<1>0. EncInv /\ TakenGood /\ WireGood /\ OutGood
  BY DEF TunnelInv, Base
<1>1. /\ DecKept /\ Growing
      /\ UNCHANGED <<wire, taken, delivered, tap_write_pool, happened>>
  BY DEF EncoderStep, Timeout, net_vars, dec_vars, DecKept, Growing
<1>2. EncInv' /\ (Silent \/ \E p : Emit(p))
  BY <1>0, EncoderStepKeeps, TimeoutKeeps
<1>3. TakenGood'
  BY <1>0, <1>1 DEF TakenGood
<1>4. CASE Silent
  <2>1. TxPoint' = TxPoint /\ UNCHANGED <<socket_write_pool, sequence>>
    BY <1>4 DEF Silent
  <2>2. WireGood' /\ WW' = WW
    BY <1>0, <1>1, <2>1, WireStays
  <2>3. OutGood' /\ Out' = Out
    BY <1>0, <1>1, OutStays
  <2>. QED BY <1>1, <1>2, <1>3, <2>1, <2>2, <2>3, CalmKeeps
<1>5. CASE \E p : Emit(p)
  <2>1. PICK p : Emit(p)
    BY <1>5
  <2>. QED BY <1>1, <1>2, <1>3, <2>1, EmitKeeps
<1>. QED BY <1>2, <1>4, <1>5

LEMMA StutterKeeps ==
  ASSUME TunnelInv, UNCHANGED vars
  PROVE  TunnelInv'
<1>0. EncInv /\ TakenGood /\ WireGood /\ OutGood
  BY DEF TunnelInv, Base
<1>1. /\ EncKept /\ DecKept /\ Growing
      /\ UNCHANGED <<wire, socket_write_pool, delivered, tap_write_pool,
                     happened, sequence, taken>>
  BY DEF vars, enc_vars, dec_vars, net_vars, EncKept, DecKept, Growing
<1>2. EncInv' /\ TakenGood' /\ TxPoint' = TxPoint
  BY <1>0, <1>1, EncStays
<1>3. WireGood' /\ WW' = WW
  BY <1>0, <1>1, WireStays
<1>4. OutGood' /\ Out' = Out
  BY <1>0, <1>1, OutStays
<1>. QED BY <1>1, <1>2, <1>3, <1>4, CalmKeeps

-----------------------------------------------------------------------------
LEMMA TunnelStarts ==
  ASSUME Init
  PROVE  TunnelInv
<1>1. /\ EncInv /\ TakenGood /\ TxPoint = Fresh(1, <<>>) /\ NextSeq = 1
      /\ sequence = 1 /\ socket_write_pool = <<>>
  BY EncStarts
<1>2. /\ DecInv /\ dec_pc = "idle" /\ last_sequence = 0
      /\ last_part = 0 /\ dec_dictionary = <<>> /\ tap_write_pool = <<>>
  BY DecStarts
<1>3. /\ wire = <<>> /\ delivered = <<>> /\ happened = {}
  BY DEF Init
<1>4. /\ <<>> \in Seq(Packet) /\ <<>> \in Seq(FrameRec) /\ Len(<<>>) = 0
  BY EmptySeq
<1>5. PICK ww, out : ww = WW /\ out = Out
  OBVIOUS
<1>6. Len(WW) = 0 /\ Len(Out) = 0
  <2>1. <<>> \o <<>> = <<>>
    BY ConcatEmptySeq, EmptySeq
  <2>. QED BY <1>1, <1>2, <1>3, <1>4, <2>1 DEF WW, Out
<1>7. WireGood /\ OutGood
  BY <1>1, <1>2, <1>3, <1>4, <1>6 DEF WireGood, OutGood
<1>8. Base
  BY <1>1, <1>2, <1>3, <1>7 DEF Base
<1>9. Low
  BY <1>2, <1>6, Numbers DEF Low, Half
<1>10. SeqAt(1) = 1 /\ PointAt(1) = Fresh(1, <<>>)
  BY <1>1, <1>6 DEF SeqAt, PointAt
<1>11. Passed(1) /\ InStep(Fresh(1, <<>>)) /\ Succ(0) = 1
  BY <1>2, <1>6, Numbers DEF Passed, InStep, Fresh, Succ
<1>12. DecOrd
  BY <1>2, <1>10, <1>11 DEF DecOrd, Awaited, Sync, Fresh
<1>13. Chain /\ OutOrd
  BY <1>6 DEF Chain, OutOrd
<1>14. Links
  <2>1. UnderWay = {}
    BY <1>2, <1>6 DEF UnderWay
  <2>. QED BY <1>1, <1>2, <2>1 DEF Links, SetLinks
<1>. QED BY <1>8, <1>9, <1>12, <1>13, <1>14 DEF TunnelInv, Ord

LEMMA TunnelStep ==
  ASSUME FaultsApart, TunnelInv, QueueGood, Early, Early', [Next]_vars
  PROVE  TunnelInv' /\ QueueGood'
<1>1. TunnelInv'
  BY EncodeFrameKeeps, InputKeeps, SendingKeeps, SendKeeps, ArriveKeeps,
     ShuffleKeeps, LoseKeeps, RestartKeeps, DecoderStepKeeps, TapWriteKeeps,
     StutterKeeps
  DEF Next
<1>2. QueueGood'
  BY QueueStep DEF TunnelInv, Base
<1>. QED BY <1>1, <1>2

-----------------------------------------------------------------------------
(* What the tap writer takes is the next frame that has come out. *)
LEMMA NextOut ==
  ASSUME OutGood, tap_write_pool # <<>>
  PROVE  /\ Len(delivered) \in Nat /\ Len(delivered) + 1 \in 1..Len(Out)
         /\ Head(tap_write_pool) = Out[Len(delivered) + 1]
         /\ \A i \in 1..Len(delivered) : i \in 1..Len(Out) /\ delivered[i] = Out[i]
<1>1. delivered \in Seq(FrameRec) /\ tap_write_pool \in Seq(FrameRec)
  BY DEF OutGood
<1>2. /\ Len(delivered) \in Nat /\ Len(tap_write_pool) \in Nat
      /\ Len(tap_write_pool) >= 1 /\ Head(tap_write_pool) = tap_write_pool[1]
  BY <1>1, LenProperties, EmptySeq, HeadTailProperties
<1>3. /\ Len(Out) = Len(delivered) + Len(tap_write_pool)
      /\ \A i \in 1..(Len(delivered) + Len(tap_write_pool)) :
           Out[i] = IF i <= Len(delivered) THEN delivered[i]
                    ELSE tap_write_pool[i - Len(delivered)]
  BY <1>1, ConcatProperties DEF Out
<1>4. Len(delivered) + 1 \in 1..Len(Out)
  BY <1>2, <1>3
<1>5. Head(tap_write_pool) = Out[Len(delivered) + 1]
  <2>1. ~(Len(delivered) + 1 <= Len(delivered))
        /\ Len(delivered) + 1 - Len(delivered) = 1
    BY <1>2
  <2>. QED BY <1>2, <1>3, <1>4, <2>1
<1>6. ASSUME NEW i \in 1..Len(delivered)
      PROVE  i \in 1..Len(Out) /\ delivered[i] = Out[i]
  BY <1>2, <1>3
<1>. QED BY <1>2, <1>4, <1>5, <1>6

(* A frame that was taken is one that was accepted. *)
LEMMA FrameAccepted ==
  ASSUME TakenGood, QueueGood, NEW f, FrameGood(f, taken)
  PROVE  f.id \in DOMAIN accepted /\ f = accepted[f.id]
BY AcceptedType, FrameGrows DEF FrameGood

(* It is one the service allows: the next one, or a later one, or any. *)
LEMMA TapWriteDelivers ==
  ASSUME TunnelInv, QueueGood, TapWrite
  PROVE  Transport!Deliver /\ UNCHANGED Service
<1>0. OutGood /\ TakenGood /\ Ord
  BY DEF TunnelInv, Base
<1>1. /\ tap_write_pool # <<>> /\ UNCHANGED <<accepted, happened>>
      /\ delivered' = Append(delivered, Head(tap_write_pool))
  BY DEF TapWrite, Dec!TapWrite, net_vars, enc_vars, accepted
<1>2. PICK n : n = Len(delivered)
  OBVIOUS
<1>3. /\ n \in Nat /\ n + 1 \in 1..Len(Out)
      /\ Head(tap_write_pool) = Out[n + 1]
      /\ \A i \in 1..n : i \in 1..Len(Out) /\ delivered[i] = Out[i]
  BY <1>0, <1>1, <1>2, NextOut
<1>4. PICK id : id = Out[n + 1].id
  OBVIOUS
<1>5. id \in DOMAIN accepted /\ Out[n + 1] = accepted[id]
  BY <1>0, <1>3, <1>4, FrameAccepted DEF OutGood
<1>6. id \in Nat /\ id >= 1
  BY <1>0, <1>5, AcceptedType, LenProperties
<1>7. PICK last : last = Transport!LastDelivered
  OBVIOUS
<1>8. last = IF n = 0 THEN 0 ELSE Out[n].id
  <2>1. delivered = <<>> <=> n = 0
    BY <1>0, <1>2, EmptySeq DEF OutGood
  <2>2. n # 0 => n \in 1..n
    BY <1>3
  <2>. QED BY <1>2, <1>3, <1>7, <2>1, <2>2 DEF Transport!LastDelivered
<1>9. CASE Service = "fifo"
  <2>1. happened = {}
    BY <1>9 DEF Service
  <2>2. /\ id = n + 1
        /\ n # 0 => Out[n].id = n
    BY <1>0, <1>3, <1>4, <2>1 DEF Ord, Ordered, OutOrd
  <2>3. last + 1 = id
    BY <1>3, <1>8, <2>2
  <2>4. id \in Transport!Eligible
    BY <1>5, <1>7, <1>9, <2>3 DEF Transport!Eligible
  <2>. QED BY <1>1, <1>3, <1>5, <2>4 DEF Transport!Deliver, Service
<1>10. CASE Service = "ordered"
  <2>1. Ordered
    BY <1>10 DEF Service, Ordered
  <2>2. n # 0 => Out[n].id < id
    <3>1. n # 0 => n \in 1..Len(Out) /\ n < n + 1
      BY <1>3
    <3>. QED BY <1>0, <1>3, <1>4, <2>1, <3>1 DEF Ord, OutOrd
  <2>3. n # 0 => Out[n].id \in Nat
    BY <1>0, <1>3, OutType
  <2>4. id > last
    BY <1>6, <1>8, <2>2, <2>3
  <2>5. id \in Transport!Eligible
    BY <1>5, <1>7, <1>10, <2>4 DEF Transport!Eligible
  <2>. QED BY <1>1, <1>3, <1>5, <2>5 DEF Transport!Deliver, Service
<1>11. CASE Service = "any"
  <2>1. id \in Transport!Eligible
    BY <1>5, <1>11 DEF Transport!Eligible
  <2>. QED BY <1>1, <1>3, <1>5, <2>1 DEF Transport!Deliver, Service
<1>. QED BY <1>9, <1>10, <1>11 DEF Service

(* A fault weakens the service or leaves it. *)
LEMMA FaultFails ==
  ASSUME NEW kind, Fault(kind), UNCHANGED <<accepted, delivered>>
  PROVE  Transport!Fail \/ UNCHANGED Transport!vars
<1>1. happened' = happened \union {kind}
  BY DEF Fault
<1>2. Service' = Service \/ Service' \in Transport!Weaker[Service]
  BY <1>1 DEF Service, Transport!Weaker
<1>. QED BY <1>2 DEF Transport!Fail, Transport!vars

(* Only the tap reader adds to the accepted frames. *)
LEMMA AcceptedStep ==
  ASSUME TakenGood, QueueGood
  PROVE  /\ ReadFrame =>
              \E size \in FrameSizes :
                accepted' = Append(accepted, [id |-> Len(accepted) + 1, size |-> size])
         /\ EncodeFrame \/ Restart => accepted' = accepted
<1>1. taken \in Seq(FrameRec) /\ encoder_pool \in Seq(FrameRec)
  BY DEF TakenGood, QueueGood
<1>2. ASSUME ReadFrame
      PROVE  \E size \in FrameSizes :
               accepted' = Append(accepted, [id |-> Len(accepted) + 1, size |-> size])
  <2>1. PICK size \in FrameSizes :
          /\ encoder_pool' = Append(encoder_pool,
                               [id |-> Len(accepted) + 1, size |-> size])
          /\ UNCHANGED taken
    BY <1>2 DEF ReadFrame, Enc!ReadFrame
  <2>2. PICK f : f = [id |-> Len(accepted) + 1, size |-> size]
    OBVIOUS
  <2>3. f \in FrameRec
    BY <2>2, AcceptedType, Numbers DEF FrameRec
  <2>4. accepted' = taken \o Append(encoder_pool, f)
    BY <2>1, <2>2 DEF accepted
  <2>5. accepted' = Append(accepted, f)
    BY <1>1, <2>3, <2>4, ConcatAppend DEF accepted
  <2>. QED BY <2>2, <2>5
<1>3. ASSUME EncodeFrame PROVE accepted' = accepted
  <2>1. /\ encoder_pool # <<>> /\ encoder_pool' = Tail(encoder_pool)
        /\ taken' = Append(taken, Head(encoder_pool))
    BY <1>3 DEF EncodeFrame, Enc!EncodeFrame
  <2>2. Append(taken, Head(encoder_pool)) \o Tail(encoder_pool)
          = taken \o encoder_pool
    BY <1>1, <2>1, QueuesMoved
  <2>. QED BY <2>1, <2>2 DEF accepted
<1>4. ASSUME Restart PROVE accepted' = accepted
  <2>1. /\ taken' = accepted /\ encoder_pool' = <<>>
        /\ taken' \in Seq(FrameRec)
    BY <1>4, RestartTakes
  <2>. QED BY <2>1, ConcatEmptySeq DEF accepted
<1>. QED BY <1>2, <1>3, <1>4

LEMMA TransportStep ==
  ASSUME TunnelInv, QueueGood, [Next]_vars
  PROVE  [Transport!Next]_(Transport!vars)
<1>0. TakenGood
  BY DEF TunnelInv, Base
<1>1. CASE ReadFrame
  <2>1. UNCHANGED <<delivered, Service>>
    BY <1>1 DEF ReadFrame, net_vars, Service
  <2>2. PICK size \in FrameSizes :
          accepted' = Append(accepted, [id |-> Len(accepted) + 1, size |-> size])
    BY <1>0, <1>1, AcceptedStep
  <2>. QED BY <2>1, <2>2 DEF Transport!Accept, Transport!Next
<1>2. CASE TapWrite
  BY <1>2, TapWriteDelivers DEF Transport!Next
<1>3. CASE Overtake \/ Duplicate \/ Lose
  BY <1>3, FaultFails
  DEF Overtake, Duplicate, Lose, enc_vars, accepted, Transport!Next
<1>4. CASE Restart
  <2>1. accepted' = accepted /\ Fault("restart") /\ delivered' = delivered
    BY <1>0, <1>4, AcceptedStep DEF Restart
  <2>. QED BY <2>1, FaultFails DEF Transport!Next
<1>5. CASE EncodeFrame
  <2>1. accepted' = accepted
    BY <1>0, <1>5, AcceptedStep
  <2>2. UNCHANGED <<delivered, Service>>
    BY <1>5 DEF EncodeFrame, net_vars, Service
  <2>. QED BY <2>1, <2>2 DEF Transport!vars
<1>6. CASE TapPop \/ Timeout \/ EncoderStep \/ Send
  <2>1. UNCHANGED <<taken, delivered, happened>>
    BY <1>6 DEF TapPop, Timeout, EncoderStep, Send, net_vars
  <2>2. UNCHANGED encoder_pool
    BY <1>6 DEF TapPop, Timeout, EncoderStep, Send, Enc!TapPop, Enc!Flush,
                Enc!SocketWrite, Enc!EncoderStep, Enc!CallStep, Enc!EncodePart,
                Enc!EndParts, Enc!EncodeTail, Enc!EncodeFinish, Enc!EndFlush,
                Enc!GetTxBuffer, Enc!input
  <2>. QED BY <2>1, <2>2 DEF accepted, Service, Transport!vars
<1>7. CASE Arrive \/ DecoderStep \/ UNCHANGED vars
  BY <1>7 DEF Arrive, DecoderStep, vars, enc_vars, net_vars, accepted, Service,
              Transport!vars
<1>. QED BY <1>1, <1>2, <1>3, <1>4, <1>5, <1>6, <1>7 DEF Next

LEMMA TransportStarts ==
  ASSUME Init
  PROVE  Transport!Init
<1>1. accepted = <<>>
  BY ConcatEmptySeq, EmptySeq DEF Init, Enc!Init, accepted
<1>. QED BY <1>1 DEF Init, Service, Transport!Init

(* What has been delivered has come out of the decoder. *)
LEMMA OutIntegrity ==
  ASSUME OutGood, TakenGood, QueueGood
  PROVE  Integrity
<1>1. ASSUME NEW i \in DOMAIN delivered
      PROVE  \E j \in DOMAIN accepted : delivered[i] = accepted[j]
  <2>1. delivered \in Seq(FrameRec) /\ tap_write_pool \in Seq(FrameRec)
    BY DEF OutGood
  <2>2. i \in 1..Len(Out) /\ Out[i] = delivered[i]
    BY <2>1, ConcatProperties, LenProperties DEF Out
  <2>. QED BY <2>2, FrameAccepted DEF OutGood
<1>. QED BY <1>1 DEF Integrity

-----------------------------------------------------------------------------
(* The tunnel invariant holds as long as no fault can happen, or half of    *)
(* the sequence numbers of a process of the sender are not used up.         *)
LEMMA TunnelInvariant ==
  ASSUME FaultsApart
  PROVE  Spec /\ []Early => [](TunnelInv /\ QueueGood)
<1>1. Init => TunnelInv /\ QueueGood
  BY TunnelStarts, EncStarts
<1>2. TunnelInv /\ QueueGood /\ Early /\ Early' /\ [Next]_vars
        => TunnelInv' /\ QueueGood'
  BY TunnelStep
<1>. QED BY <1>1, <1>2, PTL DEF Spec

LEMMA NeverLate ==
  ASSUME Faults = {}
  PROVE  FaultsApart /\ Early
BY DEF FaultsApart, Early

(* The whole path from tap to tap (remote_node.cpp's handlers around       *)
(* PacketEncoder and PacketDecoder) implements FrameTransport: with no     *)
(* fault frames come out complete, once and in order, through any number   *)
(* of wraps of the sequence number (encoder.cpp:_flush, decoder.cpp:179).  *)
THEOREM FaultFreeTransport ==
  ASSUME Faults = {}
  PROVE  Spec => TransportSpec
<1>1. FaultsApart /\ Early /\ Early'
  BY NeverLate DEF Early
<1>2. Init => TunnelInv /\ QueueGood /\ Transport!Init
  BY TunnelStarts, EncStarts, TransportStarts
<1>3. TunnelInv /\ QueueGood /\ [Next]_vars => TunnelInv' /\ QueueGood'
  BY <1>1, TunnelStep
<1>4. TunnelInv /\ QueueGood /\ [Next]_vars => [Transport!Next]_(Transport!vars)
  BY TransportStep
<1>. QED BY <1>2, <1>3, <1>4, PTL DEF Spec, TransportSpec, Transport!Spec

(* The same when packets are lost, or doubled or overtake one another, or  *)
(* when the sender is restarted, until half of the sequence numbers are    *)
(* used up: frames may be missing, after a duplicate or an overtaking      *)
(* repeated or late, but after losses or restarts neither                  *)
(* (decoder.cpp:179, "Check if we're in sequence").                        *)
THEOREM FaultyTransport ==
  ASSUME FaultsApart
  PROVE  Spec /\ []Early => TransportSpec
<1>1. Init => Transport!Init
  BY TransportStarts
<1>2. TunnelInv /\ QueueGood /\ [Next]_vars => [Transport!Next]_(Transport!vars)
  BY TransportStep
<1>3. Spec /\ []Early => [](TunnelInv /\ QueueGood)
  BY TunnelInvariant
<1>. QED BY <1>1, <1>2, <1>3, PTL DEF Spec, TransportSpec, Transport!Spec

(* No frame that comes out is made of the bytes of two, cut, or            *)
(* decompressed with the wrong dictionary (decoder.cpp:decode), whatever   *)
(* is lost, doubled or overtaken, or when the sender is restarted.         *)
THEOREM FramesIntact ==
  ASSUME FaultsApart
  PROVE  Spec /\ []Early => []Integrity
<1>1. TunnelInv /\ QueueGood => Integrity
  BY OutIntegrity DEF TunnelInv, Base
<1>2. Spec /\ []Early => [](TunnelInv /\ QueueGood)
  BY TunnelInvariant
<1>. QED BY <1>1, <1>2, PTL

-----------------------------------------------------------------------------
(* What a fault costs.  A number between two values of a sequence of        *)
(* numbers is between two successive ones.                                 *)
LEMMA LeastNumber ==
  ASSUME NEW S \in SUBSET Nat, S # {}
  PROVE  \E m \in S : \A k \in S : m <= k
<1> DEFINE R == OpToRel(<, Nat)
<1>1. PICK m \in S : \A k \in S : ~(<<k, m>> \in R)
  <2>1. IsWellFoundedOn(R, Nat)
    BY NatLessThanWellFounded
  <2> HIDE DEF R
  <2>. QED BY <2>1, WFMin
<1>2. \A k \in S : ~(k < m)
  BY <1>1 DEF OpToRel
<1>. QED BY <1>2

LEMMA Crossing ==
  ASSUME NEW n \in Nat, NEW f, \A k \in 1..(n + 1) : f[k] \in Nat,
         NEW i \in Nat, f[1] <= i, i < f[n + 1]
  PROVE  \E k \in 1..n : f[k] <= i /\ i < f[k + 1]
<1> DEFINE S == {k \in 1..(n + 1) : i < f[k]}
<1>1. S \in SUBSET Nat /\ n + 1 \in S
  OBVIOUS
<1>2. PICK m \in S : \A k \in S : m <= k
  BY <1>1, LeastNumber
<1>3. m # 1
  OBVIOUS
<1>4. m - 1 \in 1..n /\ m - 1 \in 1..(n + 1) /\ m - 1 + 1 = m
  BY <1>3
<1>5. f[m - 1] <= i
  BY <1>2, <1>4
<1>. QED BY <1>4, <1>5

(* Frame i is between point P, and point Q: some of its bytes are. *)
Between(i, P, Q) == P.id <= i /\ (i < Q.id \/ (i = Q.id /\ Q.part >= 2))

(* A sequence of items has bytes of every frame from its one end to the    *)
(* other.                                                                  *)
LEMMA ItemsCover ==
  ASSUME NEW acc, NEW items, ItemsGood(items, acc), items # <<>>,
         NEW i \in Nat, Between(i, First(items), After(LastOf(items)))
  PROVE  \E k \in DOMAIN items : items[k].blob.frame.id = i
<1>1. PICK n \in Nat : n = Len(items)
  BY LenProperties DEF ItemsGood
<1>2. /\ items \in Seq(Piece) /\ n >= 1 /\ DOMAIN items = 1..n
      /\ \A k \in 1..n : items[k] \in Piece
  BY <1>1, EmptySeq, LenProperties, ElementOfSeq DEF ItemsGood
<1>3. PICK last : last = After(LastOf(items))
  OBVIOUS
<1>4. LastOf(items) = items[n] /\ n \in 1..n /\ 1 \in 1..n
  BY <1>1, <1>2 DEF LastOf
<1>5. last = After(items[n]) /\ First(items).id = items[1].blob.frame.id
  BY <1>2, <1>3, <1>4, ItemPoints DEF First
<1>6. PICK f : f = [k \in 1..(n + 1) |->
                      IF k <= n THEN items[k].blob.frame.id ELSE last.id]
  OBVIOUS
<1>7. /\ \A k \in 1..n : f[k] = items[k].blob.frame.id /\ f[k] \in Nat
      /\ f[n + 1] = last.id /\ last.id \in Nat
  <2>1. ASSUME NEW k \in 1..n
        PROVE  f[k] = items[k].blob.frame.id /\ f[k] \in Nat
    BY <1>2, <1>6, ItemPoints
  <2>2. f[n + 1] = last.id
    BY <1>6
  <2>3. last.id \in Nat
    BY <1>2, <1>4, <1>5, ItemPoints
  <2>. QED BY <2>1, <2>2, <2>3
<1>8. ASSUME NEW k \in 1..n
      PROVE  f[k + 1] = After(items[k]).id /\ f[k + 1] <= f[k] + 1
  <2>1. CASE k = n
    BY <1>2, <1>5, <1>7, <2>1, ItemPoints
  <2>2. CASE k # n
    <3>1. k \in 1..(n - 1) /\ k + 1 \in 1..n
      BY <1>2, <2>2
    <3>2. Before(items[k + 1]) = After(items[k])
      BY <1>1, <3>1 DEF ItemsGood
    <3>3. Before(items[k + 1]).id = items[k + 1].blob.frame.id
      BY <1>2, <3>1, ItemPoints
    <3>4. f[k + 1] = After(items[k]).id /\ f[k] = items[k].blob.frame.id
          /\ f[k] \in Nat
      BY <1>7, <3>1, <3>2, <3>3
    <3>5. After(items[k]).id <= items[k].blob.frame.id + 1
      BY <1>2, ItemPoints
    <3>. QED BY <3>4, <3>5
  <2>. QED BY <2>1, <2>2
<1>9. CASE i < last.id
  <2>1. \A k \in 1..(n + 1) : f[k] \in Nat
    BY <1>7
  <2>2. f[1] <= i /\ i < f[n + 1]
    BY <1>4, <1>5, <1>7, <1>9 DEF Between
  <2>3. PICK k \in 1..n : f[k] <= i /\ i < f[k + 1]
    BY <2>1, <2>2, Crossing
  <2>4. f[k] = i
    BY <1>7, <1>8, <2>3
  <2>. QED BY <1>2, <1>7, <2>4
<1>10. CASE i = last.id /\ last.part >= 2
  <2>1. items[n].type = "PARTIAL"
    BY <1>2, <1>4, <1>5, <1>10, ItemPoints
  <2>2. items[n].blob.frame.id = i
    BY <1>2, <1>4, <1>5, <1>10, <2>1, ItemPoints
  <2>. QED BY <1>2, <1>4, <2>2
<1>. QED BY <1>3, <1>9, <1>10 DEF Between

LEMMA PacketCovers ==
  ASSUME NEW acc \in Seq(FrameRec), NEW p, PacketGood(p, acc),
         NEW i \in Nat, Between(i, First(p.items), End(p.items))
  PROVE  i \in FramesIn(p)
<1>1. Between(i, First(p.items), After(LastOf(p.items)))
  BY PacketPoints DEF Between
<1>2. \E k \in DOMAIN p.items : p.items[k].blob.frame.id = i
  BY <1>1, ItemsCover DEF PacketGood
<1>. QED BY <1>2 DEF FramesIn

-----------------------------------------------------------------------------
(* A frame is safe if it has come out, or a fault is known to have cost    *)
(* bytes of it.                                                            *)
Safe(i) == i \in damaged \/ \E k \in 1..Len(Out) : Out[k].id = i
Behind(id) == \A i \in 1..(id - 1) : Safe(i)

(* A packet begins where the one before it ended, or every frame between   *)
(* has been damaged.                                                       *)
Seam(P, Q) == P.id <= Q.id /\ \A i \in Nat : Between(i, P, Q) => i \in damaged
Joined(seq, P, t, Q) == (t = Succ(seq) /\ P = Q) \/ Seam(P, Q)

Seams ==
  \A k \in 1..Len(WW) :
    Joined(WW[k].seq, End(WW[k].items), SeqAt(k + 1), PointAt(k + 1))

(* A frame in the middle of which the decoder finds itself: it has the     *)
(* beginning, and the sequence check will not take it away.                *)
Midway(P) == P.part >= 2 => P.id \in damaged \/ InStep(P)
Expected(seq, P) ==
  P.part >= 2 => P.id \in damaged \/ (InStep(P) /\ seq = Succ(last_sequence))

DecFront ==
  /\ dec_pc = "idle" => Behind(PointAt(1).id) /\ Expected(SeqAt(1), PointAt(1))
  /\ dec_pc # "idle" => Joined(last_sequence, End(DItems), SeqAt(1), PointAt(1))

DecHand ==
  /\ dec_pc = "items" => Behind(DecNext.id) /\ Midway(DecNext)
  /\ dec_pc = "getbuf" => Behind(After(DecItem).id)

Accounted == Ordered => Seams /\ DecFront /\ DecHand

(* What is safe stays safe. *)
LEMMA SafeStays ==
  ASSUME Out' = Out, damaged \subseteq damaged'
  PROVE  /\ \A id : Behind(id) => Behind(id)'
         /\ \A P, Q : Seam(P, Q) => Seam(P, Q)'
BY DEF Behind, Safe, Seam

(* The decoder does nothing, and what it waits for does not change. *)
LEMMA HandSame ==
  ASSUME DecInv, TakenGood, DecKept, Growing, Out' = Out,
         damaged \subseteq damaged', DecHand
  PROVE  DecHand'
<1>1. /\ DecItem' = DecItem /\ DecNext' = DecNext
      /\ \A P : (InStep(P)' <=> InStep(P))
  BY DecStays DEF Growing
<1>2. \A id : Behind(id) => Behind(id)'
  BY SafeStays
<1>3. ASSUME dec_pc = "items" PROVE Behind(DecNext.id)' /\ Midway(DecNext)'
  <2>1. PICK N : N = DecNext
    OBVIOUS
  <2>2. Behind(N.id) /\ Midway(N)
    BY <1>3, <2>1 DEF DecHand
  <2>3. Behind(N.id)' /\ Midway(N)'
    BY <1>1, <1>2, <2>2 DEF Midway
  <2>. QED BY <1>1, <2>1, <2>3 DEF Behind, Safe, Midway, InStep
<1>4. ASSUME dec_pc = "getbuf" PROVE Behind(After(DecItem).id)'
  <2>1. PICK id : id = After(DecItem).id
    OBVIOUS
  <2>2. Behind(id)'
    BY <1>2, <1>4, <2>1 DEF DecHand
  <2>. QED BY <1>1, <2>1, <2>2 DEF Behind, Safe
<1>. QED BY <1>3, <1>4 DEF DecHand, DecKept

LEMMA FrontSame ==
  ASSUME DecInv, TakenGood, DecKept, Growing, Out' = Out,
         damaged \subseteq damaged', DecFront,
         SeqAt(1)' = SeqAt(1), PointAt(1)' = PointAt(1)
  PROVE  DecFront'
<1>1. /\ DItems' = DItems
      /\ \A P : (InStep(P)' <=> InStep(P))
  BY DecStays DEF Growing
<1>2. /\ \A id : Behind(id) => Behind(id)'
      /\ \A P, Q : Seam(P, Q) => Seam(P, Q)'
  BY SafeStays
<1>3. PICK seq, P : seq = SeqAt(1) /\ P = PointAt(1)
  OBVIOUS
<1>4. ASSUME dec_pc = "idle"
      PROVE  Behind(PointAt(1).id)' /\ Expected(SeqAt(1), PointAt(1))'
  <2>1. Behind(P.id) /\ Expected(seq, P)
    BY <1>3, <1>4 DEF DecFront
  <2>2. Behind(P.id)' /\ Expected(seq, P)'
    BY <1>1, <1>2, <2>1 DEF Expected, DecKept
  <2>. QED BY <1>3, <2>2 DEF Behind, Safe, Expected, InStep
<1>5. ASSUME dec_pc # "idle"
      PROVE  Joined(last_sequence, End(DItems), SeqAt(1), PointAt(1))'
  <2>1. PICK E : E = End(DItems)
    OBVIOUS
  <2>2. Joined(last_sequence, E, seq, P)
    BY <1>3, <1>5, <2>1 DEF DecFront
  <2>3. Joined(last_sequence, E, seq, P)'
    BY <1>2, <2>2 DEF Joined, DecKept
  <2>. QED BY <1>1, <1>3, <2>1, <2>3 DEF Joined, Seam
<1>. QED BY <1>4, <1>5 DEF DecFront, DecKept

(* A step that no queue and no point of the stream shows. *)
LEMMA SeamsSame ==
  ASSUME WW' = WW, TxPoint' = TxPoint, NextSeq' = NextSeq,
         damaged \subseteq damaged', Seams
  PROVE  Seams' /\ SeqAt(1)' = SeqAt(1) /\ PointAt(1)' = PointAt(1)
<1>1. \A k : SeqAt(k)' = SeqAt(k) /\ PointAt(k)' = PointAt(k)
  BY AtSame
<1>2. ASSUME NEW k \in 1..Len(WW)
      PROVE  Joined(WW[k].seq, End(WW[k].items), SeqAt(k + 1), PointAt(k + 1))'
  <2>1. Joined(WW[k].seq, End(WW[k].items), SeqAt(k + 1), PointAt(k + 1))
    BY DEF Seams
  <2>2. SeqAt(k + 1)' = SeqAt(k + 1) /\ PointAt(k + 1)' = PointAt(k + 1)
    BY <1>1
  <2>. QED BY <2>1, <2>2 DEF Joined, Seam
<1>. QED BY <1>1, <1>2 DEF Seams

LEMMA CalmAccounted ==
  ASSUME TunnelInv, Accounted, DecKept, Growing, WW' = WW, Out' = Out,
         TxPoint' = TxPoint, UNCHANGED <<sequence, happened, damaged>>
  PROVE  Accounted'
<1>0. DecInv /\ TakenGood
  BY DEF TunnelInv, Base
<1>1. NextSeq' = NextSeq
  BY DEF NextSeq
<1>2. ASSUME Ordered PROVE Seams' /\ DecFront' /\ DecHand'
  <2>1. Seams /\ DecFront /\ DecHand
    BY <1>2 DEF Accounted
  <2>2. Seams' /\ SeqAt(1)' = SeqAt(1) /\ PointAt(1)' = PointAt(1)
    BY <1>1, <2>1, SeamsSame
  <2>. QED BY <1>0, <2>1, <2>2, FrontSame, HandSame
<1>. QED BY <1>2 DEF Accounted, Ordered

(* The encoder sends the packet that begins where the last one ended. *)
LEMMA EmitAccounted ==
  ASSUME TunnelInv, Accounted, DecKept, NEW p, Emit(p),
         UNCHANGED <<wire, taken, delivered, tap_write_pool, happened, damaged>>
  PROVE  Accounted'
<1>0. DecInv /\ TakenGood /\ WireGood /\ OutGood /\ EncInv /\ Growing
  BY DEF TunnelInv, Base, Growing
<1>1. /\ p.seq = NextSeq /\ sequence' = NextSeq + 1
      /\ First(p.items) = TxPoint /\ End(p.items) = TxPoint'
  BY DEF Emit
<1>2. WireGrew(p) /\ Len(WW) \in Nat
  BY <1>0, WireEmit, WireType
<1>3. NextSeq' = Succ(p.seq)
  <2>1. NextSeq \in 1..(SeqMax - 1) /\ SeqMax \in Nat
    BY <1>0, TxPointType, Numbers
  <2>2. NextSeq' = IF NextSeq + 1 = SeqMax THEN 1 ELSE NextSeq + 1
    BY <1>1 DEF NextSeq
  <2>. QED BY <1>1, <2>1, <2>2 DEF Succ
<1>4. \A k \in 1..(Len(WW) + 1) : SeqAt(k)' = SeqAt(k) /\ PointAt(k)' = PointAt(k)
  BY <1>0, <1>1, <1>2, AtGrew
<1>5. Out' = Out
  BY <1>0, OutStays
<1>6. ASSUME Ordered PROVE Seams' /\ DecFront' /\ DecHand'
  <2>1. Seams /\ DecFront /\ DecHand
    BY <1>6 DEF Accounted
  <2>2. ASSUME NEW k \in 1..Len(WW')
        PROVE  Joined(WW[k].seq, End(WW[k].items), SeqAt(k + 1), PointAt(k + 1))'
    <3>1. CASE k \in 1..Len(WW)
      <4>1. Joined(WW[k].seq, End(WW[k].items), SeqAt(k + 1), PointAt(k + 1))
        BY <2>1, <3>1 DEF Seams
      <4>2. k + 1 \in 1..(Len(WW) + 1) /\ WW'[k] = WW[k]
        BY <1>2, <3>1 DEF WireGrew
      <4>3. SeqAt(k + 1)' = SeqAt(k + 1) /\ PointAt(k + 1)' = PointAt(k + 1)
        BY <1>4, <4>2
      <4>. QED BY <4>1, <4>2, <4>3 DEF Joined, Seam
    <3>2. CASE k = Len(WW) + 1
      <4>1. WW'[k] = p /\ SeqAt(k + 1)' = NextSeq' /\ PointAt(k + 1)' = TxPoint'
        BY <1>2, <3>2 DEF WireGrew, SeqAt, PointAt
      <4>. QED BY <1>1, <1>3, <4>1 DEF Joined
    <3>. QED BY <1>2, <3>1, <3>2 DEF WireGrew
  <2>3. SeqAt(1)' = SeqAt(1) /\ PointAt(1)' = PointAt(1)
    BY <1>2, <1>4
  <2>4. DecFront' /\ DecHand'
    BY <1>0, <1>5, <2>1, <2>3, FrontSame, HandSame
  <2>. QED BY <2>2, <2>4 DEF Seams
<1>. QED BY <1>6 DEF Accounted, Ordered

(* The steps of the sender, the socket writer and the tap writer. *)
LEMMA SenderAccounted ==
  ASSUME TunnelInv, QueueGood, Accounted,
         TapPop \/ ReadFrame \/ EncodeFrame \/ Timeout \/ EncoderStep \/ Send
  PROVE  Accounted'
<1>0. EncInv /\ TakenGood /\ WireGood /\ OutGood
  BY DEF TunnelInv, Base
<1>1. /\ DecKept /\ UNCHANGED <<delivered, tap_write_pool, happened, damaged>>
      /\ Growing
  <2>1. CASE EncodeFrame
    BY <1>0, <2>1, AcceptKeeps DEF EncodeFrame, net_vars, dec_vars, DecKept
  <2>2. CASE TapPop \/ ReadFrame \/ Timeout \/ EncoderStep \/ Send
    BY <2>2 DEF TapPop, ReadFrame, Timeout, EncoderStep, Send, net_vars, dec_vars,
                DecKept, Growing
  <2>. QED BY <2>1, <2>2
<1>2. Out' = Out
  BY <1>0, <1>1, OutStays
<1>3. CASE EncodeFrame
  <2>1. wire' = wire /\ Silent
    BY <1>0, <1>3, AcceptKeeps DEF EncodeFrame, net_vars
  <2>. QED BY <1>1, <1>2, <2>1, CalmAccounted DEF Silent, WW
<1>4. CASE Timeout \/ EncoderStep
  <2>1. UNCHANGED <<wire, taken>>
    BY <1>4 DEF Timeout, EncoderStep, net_vars
  <2>2. Silent \/ \E p : Emit(p)
    BY <1>0, <1>4, TimeoutKeeps, EncoderStepKeeps
  <2>3. CASE Silent
    BY <1>1, <1>2, <2>1, <2>3, CalmAccounted DEF Silent, WW
  <2>4. CASE \E p : Emit(p)
    BY <1>1, <2>1, <2>4, EmitAccounted
  <2>. QED BY <2>2, <2>3, <2>4
<1>5. CASE Send
  <2>1. EncKept
    BY <1>5 DEF Send, Enc!SocketWrite, Enc!packet, Enc!stream, EncKept
  <2>2. TxPoint' = TxPoint /\ sequence' = sequence
    BY <1>0, <2>1, EncStays DEF EncKept
  <2>3. WW' = WW
    BY <1>0, <1>5, WireSend
  <2>. QED BY <1>1, <1>2, <2>2, <2>3, CalmAccounted
<1>6. CASE TapPop \/ ReadFrame
  <2>1. EncKept /\ UNCHANGED <<wire, socket_write_pool>>
    BY <1>6 DEF TapPop, ReadFrame, Enc!TapPop, Enc!ReadFrame, Enc!packet,
                Enc!stream, net_vars, EncKept
  <2>2. TxPoint' = TxPoint /\ sequence' = sequence
    BY <1>0, <2>1, EncStays DEF EncKept
  <2>. QED BY <1>1, <1>2, <2>1, <2>2, CalmAccounted DEF WW
<1>. QED BY <1>3, <1>4, <1>5, <1>6

LEMMA TapWriteAccounted ==
  ASSUME TunnelInv, Accounted, TapWrite
  PROVE  Accounted'
<1>0. EncInv /\ TakenGood /\ OutGood
  BY DEF TunnelInv, Base
<1>1. /\ EncKept /\ DecKept /\ Growing
      /\ UNCHANGED <<wire, socket_write_pool, happened, damaged, sequence>>
  BY DEF TapWrite, Dec!TapWrite, Dec!seqvars, Dec!state, Dec!stream, enc_vars,
         net_vars, EncKept, DecKept, Growing
<1>2. TxPoint' = TxPoint
  BY <1>0, <1>1, EncStays
<1>3. Out' = Out
  BY <1>0, QueuesMoved DEF OutGood, Out, TapWrite, Dec!TapWrite
<1>. QED BY <1>1, <1>2, <1>3, CalmAccounted DEF WW

-----------------------------------------------------------------------------
(* What a loss or a restart costs. *)
LEMMA PastSeam ==
  ASSUME NEW P, NEW Q, P.id \in Nat, Q.id \in Nat, Behind(P.id), Seam(P, Q)
  PROVE  Behind(Q.id) /\ (Q.part >= 2 => Q.id \in damaged)
<1>1. ASSUME NEW i \in 1..(Q.id - 1) PROVE Safe(i)
  <2>1. CASE i < P.id
    BY <2>1 DEF Behind
  <2>2. CASE ~(i < P.id)
    BY <2>2 DEF Seam, Between, Safe
  <2>. QED BY <2>1, <2>2
<1>2. Q.part >= 2 => Q.id \in damaged
  BY DEF Seam, Between
<1>. QED BY <1>1, <1>2 DEF Behind

LEMMA LostPacket ==
  ASSUME NEW acc \in Seq(FrameRec), NEW p, PacketGood(p, acc), NEW P, NEW Q,
         P.id \in Nat, Q.id \in Nat,
         P = First(p.items) \/ Seam(P, First(p.items)),
         End(p.items) = Q \/ Seam(End(p.items), Q),
         damaged' = damaged \union FramesIn(p)
  PROVE  Seam(P, Q)'
<1>1. PICK F, E : F = First(p.items) /\ E = End(p.items)
  OBVIOUS
<1>2. F.id \in Nat /\ E.id \in Nat /\ F.id <= E.id
  <2>1. Len(acc) \in Nat
    BY LenProperties
  <2>. QED BY <1>1, <2>1, PacketPoints
<1>3. P.id <= F.id /\ E.id <= Q.id
  BY <1>1, <1>2 DEF Seam
<1>4. ASSUME NEW i \in Nat, Between(i, P, Q) PROVE i \in damaged'
  <2>1. CASE i < F.id
    BY <1>1, <1>4, <2>1 DEF Between, Seam
  <2>2. CASE F.id <= i /\ (i < E.id \/ E = Q)
    <3>1. Between(i, F, E)
      BY <1>2, <1>4, <2>2 DEF Between
    <3>. QED BY <1>1, <3>1, PacketCovers
  <2>3. CASE E.id <= i /\ E # Q
    BY <1>1, <1>4, <2>3 DEF Between, Seam
  <2>. QED BY <1>2, <2>1, <2>2, <2>3
<1>. QED BY <1>2, <1>3, <1>4 DEF Seam

LEMMA LoseAccounted ==
  ASSUME TunnelInv, Accounted, Lose
  PROVE  Accounted'
<1>0. /\ EncInv /\ TakenGood /\ DecInv /\ WireGood /\ OutGood
      /\ taken \in Seq(FrameRec) /\ Len(taken) \in Nat /\ Len(WW) \in Nat
  BY WireType, LenProperties DEF TunnelInv, Base, TakenGood
<1>1. /\ wire # <<>> /\ wire' = Tail(wire)
      /\ happened' = happened \union {"lose"}
      /\ damaged' = damaged \union FramesIn(Head(wire))
      /\ EncKept /\ DecKept /\ Growing
      /\ UNCHANGED <<socket_write_pool, delivered, tap_write_pool, taken>>
  BY DEF Lose, Fault, enc_vars, dec_vars, EncKept, DecKept, Growing
<1>2. TxPoint' = TxPoint /\ NextSeq' = NextSeq
  BY <1>0, <1>1, EncStays
<1>3. /\ WireShrank /\ Len(WW) >= 1 /\ WW[1] = Head(wire)
      /\ PacketGood(WW[1], taken)
  BY <1>0, <1>1, WireTail
<1>4. PICK p : p = WW[1]
  OBVIOUS
<1>5. /\ PacketGood(p, taken) /\ damaged' = damaged \union FramesIn(p)
      /\ damaged \subseteq damaged'
  BY <1>1, <1>3, <1>4
<1>6. Out' = Out
  BY <1>0, <1>1, OutStays
<1>7. /\ Len(WW') \in Nat /\ Len(WW) = Len(WW') + 1
      /\ \A k \in 1..Len(WW') : WW'[k] = WW[k + 1] /\ k + 1 \in 1..Len(WW)
      /\ 1 \in 1..Len(WW) /\ 1 \in 1..(Len(WW') + 1) /\ 2 \in 1..(Len(WW) + 1)
      /\ 1 + 1 = 2 /\ 1 <= Len(WW)
  BY <1>0, <1>3 DEF WireShrank
<1>8. \A k \in 1..(Len(WW') + 1) :
        SeqAt(k)' = SeqAt(k + 1) /\ PointAt(k)' = PointAt(k + 1)
  BY <1>0, <1>2, <1>3, AtShrank
<1>9. ASSUME Ordered PROVE Seams' /\ DecFront' /\ DecHand'
  <2>1. Seams /\ DecFront /\ DecHand
    BY <1>9 DEF Accounted
  <2>2. ASSUME NEW k \in 1..Len(WW')
        PROVE  Joined(WW[k].seq, End(WW[k].items), SeqAt(k + 1), PointAt(k + 1))'
    <3>1. Joined(WW[k + 1].seq, End(WW[k + 1].items),
                 SeqAt(k + 1 + 1), PointAt(k + 1 + 1))
      BY <1>7, <2>1 DEF Seams
    <3>2. k + 1 \in 1..(Len(WW') + 1)
      BY <1>7
    <3>3. /\ SeqAt(k + 1)' = SeqAt(k + 1 + 1)
          /\ PointAt(k + 1)' = PointAt(k + 1 + 1)
      BY <1>8, <3>2
    <3>. QED BY <1>5, <1>7, <3>1, <3>3 DEF Joined, Seam
  <2>3. PICK F, Q : F = First(p.items) /\ Q = PointAt(2)
    OBVIOUS
  <2>4. /\ SeqAt(1) = p.seq /\ PointAt(1) = F /\ PointAt(1)' = Q
        /\ F.id \in Nat /\ Q.id \in Nat
    BY <1>0, <1>4, <1>7, <1>8, <2>3, Points
  <2>5. End(p.items) = Q \/ Seam(End(p.items), Q)
    BY <1>4, <1>7, <2>1, <2>3 DEF Seams, Joined
  <2>6. ASSUME dec_pc = "idle"
        PROVE  Behind(PointAt(1).id)' /\ Expected(SeqAt(1), PointAt(1))'
    <3>1. Seam(F, Q)'
      BY <1>0, <1>5, <2>3, <2>4, <2>5, LostPacket
    <3>2. Behind(F.id)
      BY <2>1, <2>4, <2>6 DEF DecFront
    <3>3. Behind(F.id)'
      BY <1>5, <1>6, <3>2, SafeStays
    <3>4. ASSUME NEW i \in 1..(Q.id - 1) PROVE Safe(i)'
      <4>1. CASE i < F.id
        BY <2>4, <3>3, <4>1 DEF Behind
      <4>2. CASE ~(i < F.id)
        BY <2>4, <3>1, <4>2 DEF Seam, Between, Safe
      <4>. QED BY <4>1, <4>2
    <3>5. Q.part >= 2 => Q.id \in damaged'
      BY <2>4, <3>1 DEF Seam, Between
    <3>. QED BY <2>4, <3>4, <3>5 DEF Behind, Expected
  <2>7. ASSUME dec_pc # "idle"
        PROVE  Joined(last_sequence, End(DItems), SeqAt(1), PointAt(1))'
    <3>1. PICK E : E = End(DItems)
      OBVIOUS
    <3>2. E.id \in Nat
      <4>1. PacketGood(dec_work.packet, taken)
        BY <1>0, <2>7 DEF DecInv, DecBusy
      <4>2. End(dec_work.packet.items).id \in 1..(Len(taken) + 1)
        BY <1>0, <4>1, PacketPoints
      <4>. QED BY <1>0, <3>1, <4>2 DEF DItems
    <3>3. E = F \/ Seam(E, F)
      BY <2>1, <2>4, <2>7, <3>1 DEF DecFront, Joined
    <3>4. Seam(E, Q)'
      BY <1>0, <1>5, <2>3, <2>4, <2>5, <3>2, <3>3, LostPacket
    <3>5. DItems' = DItems
      BY <1>1 DEF DItems, DecKept
    <3>. QED BY <2>4, <3>1, <3>4, <3>5 DEF Joined, Seam
  <2>8. DecFront'
    BY <1>1, <2>6, <2>7 DEF DecFront, DecKept
  <2>9. DecHand'
    BY <1>0, <1>1, <1>5, <1>6, <2>1, HandSame
  <2>. QED BY <2>2, <2>8, <2>9 DEF Seams
<1>. QED BY <1>1, <1>9 DEF Accounted, Ordered

(* The sender holds bytes of every frame from the packets it has handed    *)
(* over to the last frame taken, unless an earlier fault took them.     *)
LEMMA FilledCovers ==
  ASSUME EncInv, TakenGood, NEW i \in Nat,
         TxPoint.id <= i, i <= Len(taken)
  PROVE  i \in Held
<1>1. Len(taken) \in Nat
  BY LenProperties DEF TakenGood
<1>2. ASSUME EncPoint.id <= i PROVE i = enc_work.blob.frame.id
  <2>1. Pending
    BY <1>1, <1>2 DEF EncPoint, Fresh
  <2>2. enc_work.blob.frame.id = Len(taken) /\ EncPoint.id = Len(taken)
    BY <2>1 DEF EncInv, EncWork, Pending, EncPoint, Fresh, Inside
  <2>. QED BY <1>1, <1>2, <2>2
<1>3. CASE EncPoint.id <= i
  <2>1. enc_work.blob.frame.id \in Held
    BY DEF Held
  <2>. QED BY <1>2, <1>3, <2>1
<1>4. CASE ~(EncPoint.id <= i)
  <2>1. EncPoint.id \in Nat
    BY <1>1 DEF EncInv, EncWork, Pending, EncPoint, Fresh, Inside
  <2>2. TxItems # <<>> /\ ItemsGood(TxItems, taken)
        /\ After(LastOf(TxItems)) = EncPoint
    BY <1>4 DEF EncInv, EncItems, TxPoint
  <2>3. Between(i, First(TxItems), After(LastOf(TxItems)))
    BY <1>4, <2>1, <2>2 DEF Between, TxPoint
  <2>4. \E k \in DOMAIN TxItems : TxItems[k].blob.frame.id = i
    BY <2>2, <2>3, ItemsCover
  <2>5. i \in FramesIn(enc_tx_buffer)
    BY <2>4 DEF FramesIn, TxItems
  <2>. QED BY <2>5 DEF Held
<1>. QED BY <1>3, <1>4

LEMMA HeldCovers ==
  ASSUME EncInv, TakenGood, WireGood, Seams,
         NEW n, n = Len(wire) + 1, NEW i \in Nat,
         PointAt(n).id <= i, i <= Len(taken)
  PROVE  i \in damaged \union Held
<1>1. PICK w, s : w = Len(wire) /\ s = Len(socket_write_pool)
  OBVIOUS
<1>2. /\ w \in Nat /\ s \in Nat /\ Len(WW) = w + s /\ n = w + 1
      /\ \A k \in 1..s : WW[w + k] = socket_write_pool[k]
  <2>1. /\ wire \in Seq(Packet) /\ socket_write_pool \in Seq(Packet)
        /\ w \in Nat /\ s \in Nat
    BY <1>1, LenProperties DEF WireGood
  <2>2. /\ Len(WW) = w + s
        /\ \A k \in 1..(w + s) : WW[k] = IF k <= w THEN wire[k]
                                         ELSE socket_write_pool[k - w]
    BY <1>1, <2>1, ConcatProperties DEF WW
  <2>3. ASSUME NEW k \in 1..s PROVE WW[w + k] = socket_write_pool[k]
    <3>1. PICK j : j = w + k
      OBVIOUS
    <3>2. j \in 1..(w + s) /\ ~(j <= w) /\ j - w = k
      BY <2>1, <3>1
    <3>. QED BY <2>2, <3>1, <3>2
  <2>. QED BY <1>1, <2>1, <2>2, <2>3
<1>3. CASE TxPoint.id <= i
  BY <1>3, FilledCovers
<1>4. CASE ~(TxPoint.id <= i)
  <2>1. PICK f : f = [k \in 1..(s + 1) |-> PointAt(w + k).id]
    OBVIOUS
  <2>2. \A k \in 1..(s + 1) : f[k] = PointAt(w + k).id /\ f[k] \in Nat
    <3>1. \A k \in 1..(s + 1) : w + k \in 1..(Len(WW) + 1)
      BY <1>2
    <3>. QED BY <2>1, <3>1, Points
  <2>3. f[s + 1] = TxPoint.id
    <3>1. s + 1 \in 1..(s + 1) /\ ~(w + (s + 1) <= Len(WW))
      BY <1>2
    <3>. QED BY <2>2, <3>1 DEF PointAt
  <2>4. f[1] = PointAt(n).id
    BY <1>2, <2>2
  <2>5. /\ s + 1 \in 1..(s + 1) /\ f[s + 1] \in Nat
        /\ \A k \in 1..(s + 1) : f[k] \in Nat
    BY <1>2, <2>2
  <2>6. PICK k \in 1..s : f[k] <= i /\ i < f[k + 1]
    <3>1. f[1] <= i /\ i < f[s + 1]
      BY <1>4, <2>3, <2>4, <2>5
    <3>. QED BY <1>2, <2>5, <3>1, Crossing
  <2>7. PICK j : j = w + k
    OBVIOUS
  <2>8. /\ j \in 1..Len(WW) /\ j \in 1..(Len(WW) + 1) /\ j <= Len(WW)
        /\ k \in 1..(s + 1) /\ k + 1 \in 1..(s + 1) /\ w + (k + 1) = j + 1
    BY <1>2, <2>7
  <2>9. PICK p, Q : p = WW[j] /\ Q = PointAt(j + 1)
    OBVIOUS
  <2>10. /\ PacketGood(p, taken) /\ p = socket_write_pool[k]
         /\ First(p.items).id <= i /\ i < Q.id
         /\ End(p.items).id \in 1..(Len(taken) + 1)
         /\ Joined(p.seq, End(p.items), SeqAt(j + 1), Q)
    <3>1. PacketGood(p, taken) /\ p = socket_write_pool[k]
      BY <1>2, <2>7, <2>8, <2>9 DEF WireGood
    <3>2. f[k] = First(p.items).id /\ f[k + 1] = Q.id
      BY <2>2, <2>7, <2>8, <2>9 DEF PointAt
    <3>3. Joined(p.seq, End(p.items), SeqAt(j + 1), Q)
      BY <2>8, <2>9 DEF Seams
    <3>4. End(p.items).id \in 1..(Len(taken) + 1)
      BY <2>8, <2>9, Points
    <3>. QED BY <2>6, <3>1, <3>2, <3>3, <3>4
  <2>11. taken \in Seq(FrameRec) /\ Len(taken) \in Nat
    BY LenProperties DEF TakenGood
  <2>12. CASE i < End(p.items).id
    <3>1. i \in FramesIn(p)
      BY <2>10, <2>11, <2>12, PacketCovers DEF Between
    <3>2. p \in Range(socket_write_pool)
      <4>1. k \in 1..Len(socket_write_pool)
        BY <1>1, <1>2
      <4>2. DOMAIN socket_write_pool = 1..Len(socket_write_pool)
        BY LenProperties DEF WireGood
      <4>. QED BY <2>10, <4>1, <4>2, Zenon DEF Range
    <3>. QED BY <3>1, <3>2 DEF Held
  <2>13. CASE ~(i < End(p.items).id)
    BY <2>10, <2>11, <2>13 DEF Joined, Seam, Between
  <2>. QED BY <2>12, <2>13
<1>. QED BY <1>3, <1>4

(* It holds all of every frame in the encoder pool. *)
LEMMA QueueHeld ==
  ASSUME TakenGood, QueueGood, NEW i \in Nat,
         i > Len(taken), i <= Len(taken) + Len(encoder_pool)
  PROVE  i \in Held
<1>1. /\ Len(taken) \in Nat /\ Len(encoder_pool) \in Nat
      /\ DOMAIN encoder_pool = 1..Len(encoder_pool)
  BY LenProperties DEF TakenGood, QueueGood
<1>2. PICK k \in 1..Len(encoder_pool) : i = Len(taken) + k
  <2>1. i - Len(taken) \in 1..Len(encoder_pool)
        /\ i = Len(taken) + (i - Len(taken))
    BY <1>1
  <2>. QED BY <2>1
<1>3. encoder_pool[k].id = i
  BY <1>2 DEF QueueGood
<1>4. encoder_pool[k] \in Range(encoder_pool)
  BY <1>1, <1>2, Zenon DEF Range
<1>. QED BY <1>3, <1>4 DEF Held

LEMMA RestartAccounted ==
  ASSUME TunnelInv, QueueGood, Accounted, Restart
  PROVE  Accounted'
<1>1. /\ EncInv /\ TakenGood /\ DecInv /\ WireGood /\ OutGood
      /\ Len(taken) \in Nat
  BY LenProperties DEF TunnelInv, Base, TakenGood
<1>2. /\ happened' = happened \union {"restart"}
      /\ damaged' = damaged \union Held
      /\ Enc!Construct /\ timed' = TRUE /\ DecKept
      /\ UNCHANGED <<wire, delivered, tap_write_pool>>
  BY DEF Restart, Fault, dec_vars, DecKept
<1>3. /\ Growing /\ taken' \in Seq(FrameRec) /\ Len(taken') \in Nat
      /\ Len(taken') = Len(taken) + Len(encoder_pool)
      /\ Len(taken') >= Len(taken)
  BY <1>1, RestartTakes
<1>4. PICK total : total = Len(taken')
  OBVIOUS
<1>5. /\ TxPoint' = Fresh(total + 1, <<>>) /\ socket_write_pool' = <<>>
  BY <1>2, <1>3, <1>4, ConstructKeeps
<1>6. WireCut /\ Len(WW) \in Nat /\ damaged \subseteq damaged'
  BY <1>1, <1>2, <1>3, <1>5, WireRestart, WireType
<1>7. Out' = Out
  BY <1>1, <1>2, <1>3, OutStays
<1>8. Len(WW') = Len(wire)
  BY <1>1, <1>2, <1>5, ConcatEmptySeq DEF WW, WireGood
<1>9. PICK n \in Nat : n = Len(WW') + 1
  BY <1>6 DEF WireCut
<1>10. PICK Q : Q = Fresh(total + 1, <<>>)
  OBVIOUS
<1>11. Q.id = total + 1 /\ Q.part = 1
  BY <1>10 DEF Fresh
<1>12. /\ \A k \in 1..Len(WW') : /\ k \in 1..Len(WW) /\ WW'[k] = WW[k]
                                /\ SeqAt(k)' = SeqAt(k) /\ PointAt(k)' = PointAt(k)
      /\ PointAt(n)' = Q
      /\ n \in 1..(Len(WW) + 1)
  <2>1. n \in 1..(Len(WW) + 1)
    BY <1>6, <1>9 DEF WireCut
  <2>. QED BY <1>1, <1>5, <1>6, <1>9, <1>10, <2>1, AtCut DEF WireCut
<1>13. PointAt(n).id \in Nat
  BY <1>1, <1>12, Points
<1>14. ASSUME Ordered PROVE Seams' /\ DecFront' /\ DecHand'
  <2>1. Seams /\ DecFront /\ DecHand
    BY <1>14 DEF Accounted
  <2>2. ASSUME NEW i \in Nat, PointAt(n).id <= i, i <= total
        PROVE  i \in damaged'
    <3>1. n = Len(wire) + 1
      BY <1>8, <1>9
    <3>2. CASE i <= Len(taken)
      BY <1>1, <1>2, <2>1, <2>2, <3>1, <3>2, HeldCovers
    <3>3. CASE i > Len(taken)
      BY <1>1, <1>2, <1>3, <1>4, <2>2, <3>3, QueueHeld
    <3>. QED BY <1>1, <3>2, <3>3
  <2>3. ASSUME NEW P, NEW seq, P.id \in 1..(Len(taken) + 1),
               Joined(seq, P, SeqAt(n), PointAt(n))
        PROVE  Seam(P, Q)'
    <3>1. PICK R : R = PointAt(n)
      OBVIOUS
    <3>2. ASSUME NEW i \in Nat, Between(i, P, Q) PROVE i \in damaged'
      <4>1. P.id <= i /\ i <= total
        BY <1>3, <1>4, <1>11, <3>2 DEF Between
      <4>2. CASE i < R.id
        BY <1>6, <2>3, <3>1, <4>1, <4>2 DEF Joined, Seam, Between
      <4>3. CASE ~(i < R.id)
        BY <1>13, <2>2, <3>1, <4>1, <4>3
      <4>. QED BY <4>2, <4>3
    <3>3. P.id <= Q.id
      BY <1>1, <1>3, <1>4, <1>11, <2>3
    <3>. QED BY <3>2, <3>3 DEF Seam
  <2>4. ASSUME NEW k \in 1..Len(WW')
        PROVE  Joined(WW[k].seq, End(WW[k].items), SeqAt(k + 1), PointAt(k + 1))'
    <3>1. /\ k \in 1..Len(WW) /\ WW'[k] = WW[k]
          /\ k \in 1..(Len(WW) + 1) /\ k <= Len(WW)
      BY <1>6, <1>12
    <3>2. Joined(WW[k].seq, End(WW[k].items), SeqAt(k + 1), PointAt(k + 1))
      BY <2>1, <3>1 DEF Seams
    <3>3. CASE k + 1 \in 1..Len(WW')
      <4>1. SeqAt(k + 1)' = SeqAt(k + 1) /\ PointAt(k + 1)' = PointAt(k + 1)
        BY <1>12, <3>3
      <4>. QED BY <1>6, <3>1, <3>2, <4>1 DEF Joined, Seam
    <3>4. CASE k + 1 = n
      <4>1. PICK E, seq : E = End(WW[k].items) /\ seq = WW[k].seq
        OBVIOUS
      <4>2. E.id \in 1..(Len(taken) + 1)
        BY <1>1, <3>1, <4>1, Points
      <4>3. Joined(seq, E, SeqAt(n), PointAt(n))
        BY <3>2, <3>4, <4>1
      <4>4. Seam(E, Q)'
        BY <2>3, <4>2, <4>3
      <4>5. PointAt(k + 1)' = Q
        BY <1>12, <3>4
      <4>. QED BY <3>1, <4>1, <4>4, <4>5 DEF Joined, Seam
    <3>. QED BY <1>6, <1>9, <3>3, <3>4 DEF WireCut
  <2>5. Seams'
    BY <2>4 DEF Seams
  <2>6. DecHand'
    BY <1>1, <1>2, <1>3, <1>6, <1>7, <2>1, HandSame
  <2>7. CASE 1 \in 1..Len(WW')
    <3>1. SeqAt(1)' = SeqAt(1) /\ PointAt(1)' = PointAt(1)
      BY <1>12, <2>7
    <3>2. DecFront'
      BY <1>1, <1>2, <1>3, <1>6, <1>7, <2>1, <3>1, FrontSame
    <3>. QED BY <2>5, <2>6, <3>2
  <2>8. CASE n = 1
    <3>1. ASSUME dec_pc = "idle"
          PROVE  Behind(PointAt(1).id)' /\ Expected(SeqAt(1), PointAt(1))'
      <4>1. PICK R : R = PointAt(1)
        OBVIOUS
      <4>2. Behind(R.id)'
        <5>1. Behind(R.id)
          BY <2>1, <3>1, <4>1 DEF DecFront
        <5>. QED BY <1>6, <1>7, <5>1, SafeStays
      <4>3. ASSUME NEW i \in 1..(Q.id - 1) PROVE Safe(i)'
        <5>1. CASE i < R.id
          BY <1>13, <2>8, <4>1, <4>2, <5>1 DEF Behind
        <5>2. CASE ~(i < R.id)
          BY <1>3, <1>4, <1>11, <1>13, <2>2, <2>8, <4>1, <5>2 DEF Safe
        <5>. QED BY <5>1, <5>2
      <4>. QED BY <1>11, <1>12, <2>8, <4>3 DEF Behind, Expected
    <3>2. ASSUME dec_pc # "idle"
          PROVE  Joined(last_sequence, End(DItems), SeqAt(1), PointAt(1))'
      <4>1. PICK E : E = End(DItems)
        OBVIOUS
      <4>2. E.id \in 1..(Len(taken) + 1)
        <5>1. PacketGood(dec_work.packet, taken)
          BY <1>1, <3>2 DEF DecInv, DecBusy
        <5>. QED BY <1>1, <4>1, <5>1, PacketPoints DEF TakenGood, DItems
      <4>3. Joined(last_sequence, E, SeqAt(n), PointAt(n))
        BY <2>1, <2>8, <3>2, <4>1 DEF DecFront
      <4>4. Seam(E, Q)'
        BY <2>3, <4>2, <4>3
      <4>5. DItems' = DItems
        BY <1>2 DEF DItems, DecKept
      <4>. QED BY <1>12, <2>8, <4>1, <4>4, <4>5 DEF Joined, Seam
    <3>3. DecFront'
      BY <1>2, <3>1, <3>2 DEF DecFront, DecKept
    <3>. QED BY <2>5, <2>6, <3>3
  <2>. QED BY <1>6, <1>9, <2>7, <2>8 DEF WireCut
<1>. QED BY <1>2, <1>14 DEF Accounted, Ordered

-----------------------------------------------------------------------------
(* The decoder takes a packet and works it off. *)
LEMMA ArriveAccounted ==
  ASSUME TunnelInv, FaultsApart, Accounted, Arrive
  PROVE  Accounted'
<1>0. /\ EncInv /\ TakenGood /\ DecInv /\ WireGood /\ OutGood
      /\ Len(WW) \in Nat
  BY WireType DEF TunnelInv, Base
<1>1. /\ wire # <<>> /\ wire' = Tail(wire) /\ Dec!Receive(Head(wire))
      /\ EncKept /\ Growing
      /\ UNCHANGED <<socket_write_pool, delivered, taken, happened, damaged>>
  BY DEF Arrive, enc_vars, EncKept, Growing
<1>2. TxPoint' = TxPoint /\ NextSeq' = NextSeq
  BY <1>0, <1>1, EncStays
<1>3. /\ WireShrank /\ Len(WW) >= 1 /\ WW[1] = Head(wire)
      /\ PacketGood(WW[1], taken)
  BY <1>0, <1>1, WireTail
<1>4. PICK h : h = WW[1]
  OBVIOUS
<1>5. /\ PacketGood(h, taken) /\ h.seq \in 1..(SeqMax - 1)
      /\ Dec!Decode(h, dec_available - 1) /\ dec_pc = "idle"
  <2>1. Dec!Decode(h, dec_available - 1) /\ PacketGood(h, taken)
    BY <1>1, <1>3, <1>4 DEF Dec!Receive
  <2>2. dec_pc = "idle"
    BY <2>1 DEF Dec!Decode, Dec!RefuseShort, Dec!RefuseHeader, Dec!RefuseOptions,
                Dec!AcceptPacket, Dec!TakeSequence
  <2>. QED BY <2>1, <2>2 DEF PacketGood
<1>6. last_part # 0 /\ ~Dec!Discontinuity(h) => InStep(First(h.items))
  BY <1>3, <1>4, <1>5, CheckSuffices
<1>7. /\ UNCHANGED tap_write_pool /\ dec_pc' = "items"
      /\ dec_work'.packet = h /\ last_sequence' = h.seq
      /\ DecNext' = First(h.items)
      /\ InStep(First(h.items)) /\ ~Dec!Discontinuity(h) => InStep(DecNext)'
  BY <1>0, <1>1, <1>5, <1>6, ArriveStep
<1>8. Out' = Out
  BY <1>0, <1>1, <1>7, OutStays
<1>9. /\ \A k \in 1..Len(WW') : WW'[k] = WW[k + 1] /\ k + 1 \in 1..Len(WW)
      /\ \A k \in 1..Len(WW') : k + 1 \in 1..(Len(WW') + 1)
      /\ 1 \in 1..Len(WW) /\ 1 \in 1..(Len(WW') + 1) /\ 1 + 1 = 2 /\ 1 <= Len(WW)
  BY <1>0, <1>3 DEF WireShrank
<1>10. \A k \in 1..(Len(WW') + 1) :
         SeqAt(k)' = SeqAt(k + 1) /\ PointAt(k)' = PointAt(k + 1)
  BY <1>0, <1>2, <1>3, AtShrank
<1>11. ASSUME Ordered PROVE Seams' /\ DecFront' /\ DecHand'
  <2>1. Seams /\ DecFront
    BY <1>11 DEF Accounted
  <2>2. ASSUME NEW k \in 1..Len(WW')
        PROVE  Joined(WW[k].seq, End(WW[k].items), SeqAt(k + 1), PointAt(k + 1))'
    <3>1. Joined(WW[k + 1].seq, End(WW[k + 1].items),
                 SeqAt(k + 1 + 1), PointAt(k + 1 + 1))
      BY <1>9, <2>1 DEF Seams
    <3>2. /\ SeqAt(k + 1)' = SeqAt(k + 1 + 1)
          /\ PointAt(k + 1)' = PointAt(k + 1 + 1)
      BY <1>9, <1>10
    <3>. QED BY <1>1, <1>9, <3>1, <3>2 DEF Joined, Seam
  <2>3. PICK F : F = First(h.items)
    OBVIOUS
  <2>4. Behind(F.id) /\ Expected(h.seq, F)
    <3>1. SeqAt(1) = h.seq /\ PointAt(1) = F
      BY <1>4, <1>9, <2>3 DEF SeqAt, PointAt
    <3>. QED BY <1>5, <2>1, <3>1 DEF DecFront
  <2>5. Behind(DecNext.id)'
    BY <1>1, <1>7, <1>8, <2>3, <2>4 DEF Behind, Safe
  <2>6. Midway(DecNext)'
    <3>1. DecControl
      BY <1>0 DEF DecInv
    <3>2. F.part >= 2 /\ F.id \notin damaged => InStep(DecNext)'
      BY <1>5, <1>7, <2>3, <2>4, <3>1, SequenceCheck DEF Expected
    <3>. QED BY <1>1, <1>7, <2>3, <3>2 DEF Midway
  <2>7. Joined(last_sequence, End(DItems), SeqAt(1), PointAt(1))'
    <3>1. Joined(h.seq, End(h.items), SeqAt(2), PointAt(2))
      BY <1>4, <1>9, <2>1 DEF Seams
    <3>2. SeqAt(1)' = SeqAt(2) /\ PointAt(1)' = PointAt(2)
      BY <1>9, <1>10
    <3>3. DItems' = h.items
      BY <1>7 DEF DItems
    <3>. QED BY <1>1, <1>7, <3>1, <3>2, <3>3 DEF Joined, Seam
  <2>8. Seams' /\ DecFront' /\ DecHand'
    BY <1>7, <2>2, <2>5, <2>6, <2>7 DEF Seams, DecFront, DecHand
  <2>. QED BY <2>8
<1>. QED BY <1>1, <1>11 DEF Accounted, Ordered

LEMMA WorkAccounted ==
  ASSUME TunnelInv, Accounted, DecoderStep,
         UNCHANGED last_sequence, dec_pc # "idle",
         dec_pc' # "idle" => dec_work'.packet = dec_work.packet,
         Ordered /\ DecFront /\ DecHand =>
           DecHand' /\ (dec_pc' = "idle" => DecFront')
  PROVE  Accounted'
<1>0. EncInv /\ TakenGood
  BY DEF TunnelInv, Base
<1>1. EncKept /\ UNCHANGED <<wire, socket_write_pool, happened, damaged>>
  BY DEF DecoderStep, enc_vars, net_vars, EncKept
<1>2. TxPoint' = TxPoint /\ NextSeq' = NextSeq /\ WW' = WW
  BY <1>0, <1>1, EncStays DEF WW
<1>3. ASSUME Ordered PROVE Seams' /\ DecFront' /\ DecHand'
  <2>1. Seams /\ DecFront /\ DecHand
    BY <1>3 DEF Accounted
  <2>2. Seams' /\ SeqAt(1)' = SeqAt(1) /\ PointAt(1)' = PointAt(1)
    BY <1>1, <1>2, <2>1, SeamsSame
  <2>3. ASSUME dec_pc' # "idle" PROVE DecFront'
    <3>1. DItems' = DItems
      BY <2>3 DEF DItems
    <3>2. Joined(last_sequence, End(DItems), SeqAt(1), PointAt(1))
      BY <2>1 DEF DecFront
    <3>3. Joined(last_sequence, End(DItems), SeqAt(1), PointAt(1))'
      BY <1>1, <2>2, <3>1, <3>2 DEF Joined, Seam
    <3>. QED BY <2>3, <3>3 DEF DecFront
  <2>. QED BY <1>3, <2>1, <2>2, <2>3
<1>. QED BY <1>1, <1>3 DEF Accounted, Ordered

LEMMA SkipPartAccounted ==
  ASSUME TunnelInv, Accounted, DecoderStep, Dec!SkipPart
  PROVE  Accounted'
<1>0. TakenGood /\ DecInv /\ OutGood
  BY DEF TunnelInv, Base
<1>1. Growing /\ UNCHANGED <<taken, delivered, damaged>>
  BY DEF DecoderStep, enc_vars, net_vars, Growing
<1>2. /\ UNCHANGED <<last_sequence, tap_write_pool>>
      /\ dec_pc = "items" /\ dec_pc' = "items"
      /\ dec_work'.packet = dec_work.packet
      /\ ~InStep(DecNext) /\ DecNext.part >= 2
      /\ DecNext.id \in Nat /\ DecNext'.id \in Nat
      /\ \/ DecNext'.id = DecNext.id
         \/ DecNext'.id = DecNext.id + 1 /\ DecNext'.part = 1
  BY <1>0, <1>1, SkipPartStep DEF DecQuiet
<1>3. Out' = Out
  BY <1>0, <1>1, <1>2, OutStays
<1>4. ASSUME DecHand PROVE DecHand'
  <2>1. Behind(DecNext.id) /\ DecNext.id \in damaged
    BY <1>2, <1>4 DEF DecHand, Midway
  <2>2. ASSUME NEW i \in 1..(DecNext'.id - 1) PROVE Safe(i)
    <3>1. i \in 1..(DecNext.id - 1) \/ i = DecNext.id
      BY <1>2
    <3>. QED BY <2>1, <3>1 DEF Behind, Safe
  <2>3. Behind(DecNext.id)'
    BY <1>1, <1>3, <2>2 DEF Behind, Safe
  <2>4. Midway(DecNext)'
    BY <1>1, <1>2, <2>1 DEF Midway
  <2>. QED BY <1>2, <2>3, <2>4 DEF DecHand
<1>. QED BY <1>2, <1>4, WorkAccounted

LEMMA StorePartAccounted ==
  ASSUME TunnelInv, Accounted, DecoderStep, Dec!StorePart
  PROVE  Accounted'
<1>0. TakenGood /\ DecInv /\ OutGood
  BY DEF TunnelInv, Base
<1>1. Growing /\ UNCHANGED <<taken, delivered, damaged>>
  BY DEF DecoderStep, enc_vars, net_vars, Growing
<1>2. /\ UNCHANGED <<last_sequence, tap_write_pool>>
      /\ dec_pc = "items" /\ dec_pc' = "items"
      /\ dec_work'.packet = dec_work.packet
      /\ DecNext'.id = DecNext.id /\ InStep(DecNext)'
  BY <1>0, <1>1, StorePartStep DEF DecQuiet
<1>3. Out' = Out
  BY <1>0, <1>1, <1>2, OutStays
<1>4. ASSUME DecHand PROVE DecHand'
  <2>1. Behind(DecNext.id)
    BY <1>2, <1>4 DEF DecHand
  <2>2. Behind(DecNext.id)'
    BY <1>1, <1>2, <1>3, <2>1 DEF Behind, Safe
  <2>. QED BY <1>2, <2>2 DEF DecHand, Midway
<1>. QED BY <1>2, <1>4, WorkAccounted

LEMMA DeliverFrameAccounted ==
  ASSUME TunnelInv, Accounted, DecoderStep, Dec!DeliverFrame
  PROVE  Accounted'
<1>0. TakenGood /\ DecInv /\ OutGood
  BY DEF TunnelInv, Base
<1>1. UNCHANGED <<taken, delivered, damaged>>
  BY DEF DecoderStep, enc_vars, net_vars
<1>2. /\ UNCHANGED <<last_sequence, dec_work>>
      /\ dec_pc = "items" /\ dec_pc' = "getbuf"
  BY <1>0, <1>1, DeliverFrameStep
<1>3. PICK f \in FrameRec :
        /\ tap_write_pool' = Append(tap_write_pool, f)
        /\ f.id = DecNext.id /\ After(DecItem).id = f.id + 1
  BY <1>0, <1>1, DeliverFrameStep
<1>4. /\ f.id \in Nat
      /\ Len(Out') = Len(Out) + 1 /\ Out'[Len(Out) + 1] = f
      /\ \A k \in 1..Len(Out) : Out'[k] = Out[k]
      /\ Len(Out) \in Nat
  <2>1. delivered \in Seq(FrameRec) /\ tap_write_pool \in Seq(FrameRec) /\ f.id \in Nat
    BY <1>0 DEF OutGood, FrameRec
  <2>2. /\ Len(Out') = Len(Out) + 1 /\ Out'[Len(Out) + 1] = f
        /\ \A k \in 1..Len(Out) : Out'[k] = Out[k]
    BY <1>1, <1>3, <2>1, QueuesGrow DEF Out
  <2>. QED BY <1>0, <2>1, <2>2, OutType
<1>5. After(DecItem)' = After(DecItem)
  BY <1>2 DEF DecItem, DItems
<1>6. ASSUME DecHand PROVE DecHand'
  <2>1. Behind(f.id)
    BY <1>2, <1>3, <1>6 DEF DecHand
  <2>2. ASSUME NEW i \in 1..f.id PROVE Safe(i)'
    <3>1. CASE i = f.id
      <4>1. Len(Out) + 1 \in 1..Len(Out') /\ Out'[Len(Out) + 1].id = i
        BY <1>4, <3>1
      <4>. QED BY <4>1 DEF Safe
    <3>2. CASE i \in 1..(f.id - 1)
      <4>1. Safe(i)
        BY <2>1, <3>2 DEF Behind
      <4>2. ASSUME NEW k \in 1..Len(Out), Out[k].id = i PROVE Safe(i)'
        <5>1. k \in 1..Len(Out') /\ Out'[k].id = i
          BY <1>4, <4>2
        <5>. QED BY <5>1 DEF Safe
      <4>. QED BY <1>1, <4>1, <4>2 DEF Safe
    <3>. QED BY <1>4, <3>1, <3>2
  <2>3. Behind(After(DecItem).id)'
    <3>1. After(DecItem)'.id = f.id + 1
      BY <1>3, <1>5
    <3>. QED BY <1>4, <2>2, <3>1 DEF Behind
  <2>. QED BY <1>2, <2>3 DEF DecHand
<1>. QED BY <1>2, <1>6, WorkAccounted

LEMMA GetTxBufferAccounted ==
  ASSUME TunnelInv, Accounted, DecoderStep, Dec!GetTxBuffer
  PROVE  Accounted'
<1>0. TakenGood /\ DecInv /\ OutGood
  BY DEF TunnelInv, Base
<1>1. Growing /\ UNCHANGED <<taken, delivered, damaged>>
  BY DEF DecoderStep, enc_vars, net_vars, Growing
<1>2. /\ UNCHANGED <<last_sequence, tap_write_pool>>
      /\ dec_pc = "getbuf" /\ dec_pc' = "items"
      /\ dec_work'.packet = dec_work.packet
      /\ DecNext' = After(DecItem) /\ InStep(DecNext)'
  BY <1>0, <1>1, GetTxBufferStep DEF DecQuiet
<1>3. Out' = Out
  BY <1>0, <1>1, <1>2, OutStays
<1>4. ASSUME DecHand PROVE DecHand'
  <2>1. Behind(After(DecItem).id)
    BY <1>2, <1>4 DEF DecHand
  <2>2. Behind(DecNext.id)'
    BY <1>1, <1>2, <1>3, <2>1 DEF Behind, Safe
  <2>. QED BY <1>2, <2>2 DEF DecHand, Midway
<1>. QED BY <1>2, <1>4, WorkAccounted

LEMMA FinishPacketAccounted ==
  ASSUME TunnelInv, Accounted, DecoderStep, Dec!FinishPacket
  PROVE  Accounted'
<1>0. /\ TakenGood /\ DecInv /\ OutGood /\ EncInv /\ WireGood
      /\ Len(taken) \in Nat /\ Len(WW) \in Nat
  BY WireType, LenProperties DEF TunnelInv, Base, TakenGood
<1>1. /\ EncKept /\ Growing
      /\ UNCHANGED <<wire, socket_write_pool, taken, delivered, damaged>>
  BY DEF DecoderStep, enc_vars, net_vars, EncKept, Growing
<1>2. PICK P : P = End(DItems)
  OBVIOUS
<1>3. /\ UNCHANGED <<last_sequence, tap_write_pool>>
      /\ dec_pc = "items" /\ dec_pc' = "idle"
      /\ DecNext.id = P.id /\ DecNext.part = P.part
      /\ InStep(DecNext) => InStep(P)'
  BY <1>0, <1>1, <1>2, FinishPacketStep DEF DecQuiet
<1>4. Out' = Out
  BY <1>0, <1>1, <1>3, OutStays
<1>5. PICK Q : Q = PointAt(1)
  OBVIOUS
<1>6. P.id \in Nat /\ Q.id \in Nat
  <2>1. PacketGood(dec_work.packet, taken)
    BY <1>0, <1>3 DEF DecInv, DecBusy
  <2>2. P.id \in 1..(Len(taken) + 1)
    BY <1>0, <1>2, <2>1, PacketPoints DEF TakenGood, DItems
  <2>3. 1 \in 1..(Len(WW) + 1)
    BY <1>0
  <2>. QED BY <1>0, <1>5, <2>2, <2>3, Points
<1>7. SeqAt(1)' = SeqAt(1) /\ PointAt(1)' = Q
  <2>1. TxPoint' = TxPoint /\ NextSeq' = NextSeq /\ WW' = WW
    BY <1>0, <1>1, EncStays DEF WW
  <2>. QED BY <1>5, <2>1, AtSame
<1>8. ASSUME DecFront, DecHand PROVE DecFront' /\ DecHand'
  <2>1. /\ Behind(P.id) /\ (P.part >= 2 => P.id \in damaged \/ InStep(P)')
        /\ Joined(last_sequence, P, SeqAt(1), Q)
    BY <1>2, <1>3, <1>5, <1>8 DEF DecFront, DecHand, Midway
  <2>2. Behind(Q.id) /\ (Q.part >= 2 => \/ Q.id \in damaged
                                        \/ InStep(Q)' /\ SeqAt(1) = Succ(last_sequence))
    <3>1. CASE SeqAt(1) = Succ(last_sequence) /\ P = Q
      BY <2>1, <3>1
    <3>2. CASE Seam(P, Q)
      BY <1>6, <2>1, <3>2, PastSeam
    <3>. QED BY <2>1, <3>1, <3>2 DEF Joined
  <2>3. Behind(Q.id)'
    BY <1>1, <1>4, <2>2, SafeStays
  <2>4. Behind(PointAt(1).id)' /\ Expected(SeqAt(1), PointAt(1))'
    BY <1>1, <1>3, <1>7, <2>2, <2>3 DEF Behind, Safe, Expected, InStep
  <2>. QED BY <1>3, <2>4 DEF DecFront, DecHand
<1>. QED BY <1>3, <1>8, WorkAccounted

LEMMA DecoderAccounted ==
  ASSUME TunnelInv, Accounted, DecoderStep
  PROVE  Accounted'
<1>1. Dec!DecoderStep /\ DecInv /\ TakenGood
  BY DEF DecoderStep, TunnelInv, Base
<1>2. ~Dec!DropItem /\ ~Dec!Spin
  BY <1>1, NothingDropped
<1>. QED
  BY <1>1, <1>2, SkipPartAccounted, StorePartAccounted, DeliverFrameAccounted,
     GetTxBufferAccounted, FinishPacketAccounted DEF Dec!DecoderStep

LEMMA StutterAccounted ==
  ASSUME TunnelInv, Accounted, UNCHANGED vars
  PROVE  Accounted'
<1>0. EncInv /\ TakenGood
  BY DEF TunnelInv, Base
<1>1. /\ EncKept /\ DecKept /\ Growing
      /\ UNCHANGED <<wire, socket_write_pool, delivered, tap_write_pool,
                     happened, damaged, sequence>>
  BY DEF vars, enc_vars, dec_vars, net_vars, EncKept, DecKept, Growing
<1>2. TxPoint' = TxPoint
  BY <1>0, <1>1, EncStays
<1>. QED BY <1>1, <1>2, CalmAccounted DEF WW, Out

LEMMA AccountedStep ==
  ASSUME FaultsApart, TunnelInv, QueueGood, Accounted, [Next]_vars
  PROVE  Accounted'
<1>1. CASE Overtake \/ Duplicate
  <2>1. \E kind \in {"reorder", "duplicate"} : happened' = happened \union {kind}
    BY <1>1 DEF Overtake, Duplicate, Fault
  <2>. QED BY <2>1 DEF Accounted, Ordered
<1>. QED
  BY <1>1, SenderAccounted, ArriveAccounted, LoseAccounted, RestartAccounted,
     DecoderAccounted, TapWriteAccounted, StutterAccounted DEF Next

LEMMA AccountedStarts ==
  ASSUME Init
  PROVE  Accounted
<1>1. TxPoint = Fresh(1, <<>>) /\ socket_write_pool = <<>>
  BY EncStarts
<1>2. dec_pc = "idle"
  BY DecStarts
<1>3. wire = <<>>
  BY DEF Init
<1>4. Len(WW) = 0
  <2>1. <<>> \o <<>> = <<>> /\ Len(<<>>) = 0
    BY ConcatEmptySeq, EmptySeq
  <2>. QED BY <1>1, <1>3, <2>1 DEF WW
<1>5. PointAt(1) = Fresh(1, <<>>)
  BY <1>1, <1>4 DEF PointAt
<1>. QED
  BY <1>2, <1>4, <1>5
  DEF Accounted, Seams, DecFront, DecHand, Behind, Expected, Fresh

(* When all that is left has been worked off, the next frame to come is    *)
(* the one after the last taken: every other one is safe.               *)
LEMMA QuiescentSafe ==
  ASSUME TunnelInv, QueueGood, Accounted
  PROVE  DamageContained
<1>0. EncInv /\ TakenGood /\ OutGood
  BY DEF TunnelInv, Base
<1>. SUFFICES ASSUME Quiescent, Service # "any", NEW i \in DOMAIN taken,
                     i \notin damaged
              PROVE  \E j \in DOMAIN delivered : delivered[j] = taken[i]
  <2>1. Quiescent => accepted = taken
    BY <1>0, AcceptedType DEF Quiescent
  <2>. QED BY <2>1 DEF DamageContained
<1>1. /\ enc_pc = "idle" /\ ~timed /\ socket_write_pool = <<>>
      /\ wire = <<>> /\ dec_pc = "idle" /\ tap_write_pool = <<>>
  BY DEF Quiescent
<1>2. Behind(PointAt(1).id)
  <2>1. Ordered
    BY DEF Service, Ordered
  <2>. QED BY <1>1, <2>1 DEF Accounted, DecFront
<1>3. PointAt(1).id = Len(taken) + 1
  <2>1. TxItems = <<>> /\ ~Pending
    BY <1>0, <1>1 DEF EncInv, EncTimed, Pending, InParts
  <2>2. Len(WW) = 0
    <3>1. <<>> \o <<>> = <<>> /\ Len(<<>>) = 0
      BY ConcatEmptySeq, EmptySeq
    <3>. QED BY <1>1, <3>1 DEF WW
  <2>. QED BY <2>1, <2>2 DEF PointAt, TxPoint, EncPoint, Fresh
<1>4. Out = delivered /\ delivered \in Seq(FrameRec)
  BY <1>0, <1>1, ConcatEmptySeq DEF Out, OutGood
<1>5. i \in 1..Len(taken) /\ Len(taken) \in Nat
  BY <1>0, LenProperties DEF TakenGood
<1>6. PICK k \in 1..Len(Out) : Out[k].id = i
  BY <1>2, <1>3, <1>5 DEF Behind, Safe
<1>7. Out[k] = taken[i]
  BY <1>0, <1>6 DEF OutGood, FrameGood
<1>8. k \in DOMAIN delivered
  BY <1>4, <1>6, LenProperties
<1>. QED BY <1>4, <1>7, <1>8

(* A loss costs the frames of which the lost packet had bytes, a restart   *)
(* those of which the sender had, and no other (decoder.cpp:179 clears the *)
(* state and goes on with the first whole frame of the next packet).       *)
THEOREM DamageIsContained ==
  ASSUME FaultsApart
  PROVE  Spec /\ []Early => []DamageContained
<1>1. Init => Accounted
  BY AccountedStarts
<1>2. TunnelInv /\ QueueGood /\ Accounted /\ [Next]_vars => Accounted'
  BY AccountedStep
<1>3. TunnelInv /\ QueueGood /\ Accounted => DamageContained
  BY QuiescentSafe
<1>4. Spec /\ []Early => [](TunnelInv /\ QueueGood)
  BY TunnelInvariant
<1>. QED BY <1>1, <1>2, <1>3, <1>4, PTL DEF Spec
==============================================================================
