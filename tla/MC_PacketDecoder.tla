-------------------------- MODULE MC_PacketDecoder --------------------------
(* The decoder alone, fed in any order with packets that reach every branch *)
(* of decode(): the ones an encoder makes, their losses, duplicates and     *)
(* late arrivals (every sequence number may follow every other), the        *)
(* packets of a peer with a larger MTU or another packet format, damaged    *)
(* ones, and ones in which the length of a part wraps the position.         *)
EXTENDS PacketDecoder, FiniteSetsExt

Blob(id, size, format, total, dict) ==
  [frame |-> [id |-> id, size |-> size], format |-> format, total |-> total,
   dictionary |-> dict]

Small  == Blob(1, 60, "NONE", 60, <<>>)
Split  == Blob(2, 1522, "NONE", 1522, <<>>)
Lz4    == Blob(3, 1522, "LZ4", 1500, <<>>)
Next4  == Blob(4, 1522, "LZ4", 200, <<3>>)
Jumbo  == Blob(5, 9000, "NONE", 9000, <<>>)
Grown  == Blob(6, 1522, "LZ4", 2000, <<>>)
Other  == [Small EXCEPT !.format = "OTHER"]

Whole1(blob)  == Item("COMPLETE", 0, blob, 0, blob.total)
First(blob)   == Item("PARTIAL", 1, blob, 0, 1000)
Second(blob)  == Item("PARTIAL", 2, blob, 1000, blob.total - 1000)
Unknown(blob) == Item("OTHER", 0, blob, 0, blob.total)
Last(blob)    == Item("PARTIAL_COMPLETE", 2, blob, 1000, blob.total - 1000)

ItemLists ==
  {<<Whole1(b)>> : b \in {Small, Next4, Jumbo, Other}}
  \union {<<First(b)>> : b \in {Split, Lz4, Grown}}
  \union {<<Last(b)>> : b \in {Split, Lz4}}
  \union {<<Second(Split)>>, <<Second(Grown)>>,
          <<Last(Split), Whole1(Small)>>, <<Last(Lz4), Whole1(Next4)>>,
          <<Whole1(Small), First(Split)>>, <<Last(Split), First(Lz4)>>,
          <<[Whole1(Small) EXCEPT !.part = 1]>>,
          <<Unknown(Small)>>, <<Whole1(Small), Unknown(Small)>>,
          <<First(Split), Unknown(Jumbo)>>,
          <<[Whole1(Small) EXCEPT !.packet_size = 61]>>}

Length(items) ==
  HeaderSize + SumSet({i * 10000 + OptionSize + items[i].payload_length : i \in DOMAIN items})
  - SumSet({i * 10000 : i \in DOMAIN items})

Packet(seq, fault, opt_len, items, short) ==
  [seq |-> seq, fault |-> fault, opt_len |-> opt_len,
   size |-> Min({Length(items), BufferSize}) - short, items |-> items]

(* A part that is never expected, which leads from pos to pos - back.       *)
Skipped(back) ==
  [First(Split) EXCEPT !.part = 5, !.payload_length = PosRange - OptionSize - back]

(* Back to itself, to a whole frame before it, and into the payload of that *)
(* frame, to bytes that are no item.                                        *)
WrappingItems ==
  {<<Skipped(0)>>, <<Whole1(Small), Skipped(68)>>,
   <<Whole1(Small), Skipped(56), [Whole1(Small) EXCEPT !.part = 1]>>}

WrappingPacket(items) ==
  [seq |-> 1, fault |-> "none", opt_len |-> 1, size |-> 85, items |-> items]

MC_Packets ==
  {Packet(seq, "none", 1, items, 0) : seq \in {0, 1, SeqMax}, items \in ItemLists}
  \union {Packet(1, "none", 1, <<i>>, 10) : i \in {Whole1(Small), First(Split), Last(Lz4)}}
  \union {WrappingPacket(items) : items \in WrappingItems}
  \union {Packet(2, "none", 0, <<>>, 0), Packet(2, "none", 2, <<Whole1(Small)>>, 0)}
  \union {Packet(2, fault, 1, <<>>, 0) : fault \in {"short", "header", "option"}}
=============================================================================
