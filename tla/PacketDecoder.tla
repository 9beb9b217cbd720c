---------------------------- MODULE PacketDecoder ----------------------------
(***************************************************************************)
(* PacketDecoder of src/src/decoder.cpp: it takes encapsulating packets in *)
(* the order the socket delivers them and puts the Ethernet frames in them *)
(* together again.                                                         *)
(*                                                                         *)
(* decode() is cut into the check of the header, one step for each item of *)
(* the packet, pop_wait() for the next frame's buffer and the end of the   *)
(* packet.  The thread that reads the socket and the one that writes the   *)
(* tap are the environment.                                                *)
(*                                                                         *)
(* A packet is [seq, fault, opt_len, size, items].  fault tells the        *)
(* packets decode() refuses before it looks at an item: "short" is less    *)
(* than a header, "header" a version, reserved bit, format or channel that *)
(* is not supported, "option" an option header that is cut off or invalid. *)
(***************************************************************************)
EXTENDS Codec

CONSTANTS
  PoolSize,  \* buffers in the available pool before the constructor
  Packets    \* packets that may arrive when the decoder is looked at alone

ASSUME DecoderAssumption == PoolSize \in Nat /\ PoolSize >= 3

FrameType == [id : Nat, size : Nat]
BlobType == [frame : FrameType, format : AnyFormat, total : Nat,
             dictionary : Seq(Nat)]
ChunkType == [blob : BlobType, pos : Nat, len : Nat]
ItemType == [type : ItemTypes \union {"OTHER"}, part : Nat, format : AnyFormat,
             packet_size : Nat, payload_length : Nat, blob : BlobType,
             pos : Nat]
PacketType == [seq : 0..SeqMax, fault : {"none", "short", "header", "option"},
               opt_len : Nat, size : Nat, items : Seq(ItemType)]

(* Where the loop over the items finds each of them, and where it goes from *)
(* the last: the position is a uint16_t, and that of a skipped part may     *)
(* jump past the end of the packet and over PosRange to its beginning.      *)
ItemStarts(p) ==
  LET start[i \in 1..(Len(p.items) + 1)] ==
        IF i = 1 THEN HeaderSize
        ELSE (start[i - 1] + OptionSize + p.items[i - 1].payload_length) % PosRange
  IN  start

(* Any bytes can be read so: items is what the loop finds one after the     *)
(* other until it leaves the packet or comes to a place where it was        *)
(* before, and of the last item some bytes may be missing.                  *)
WellFormed(p) ==
  LET start == ItemStarts(p)
      last  == Len(p.items) + 1
  IN  /\ start[1] = HeaderSize
      /\ \A i \in 1..Len(p.items) :
           start[i + 1] = (start[i] + OptionSize + p.items[i].payload_length) % PosRange
      /\ \A i, j \in 1..Len(p.items) : start[i] = start[j] => i = j
      /\ p.size <= start[last] \/ \E i \in 1..Len(p.items) : start[i] = start[last]
      /\ p.size <= BufferSize

(* The loop over the items comes back to one of them.                       *)
Circular(p) == ItemStarts(p)[Len(p.items) + 1] < p.size

ASSUME PacketsAssumption == \A p \in Packets : p \in PacketType /\ WellFormed(p)

VARIABLES
  first_packet,          \* TRUE until a packet with a valid header came
  last_sequence,         \* its sequence number
  last_part,             \* parts of a frame collected so far, 0 if none
  last_format,           \* their format
  last_orig_packet_size, \* size of the frame they are of
  tx_buffer,             \* the frame being put together: [size, chunks]
  inflight_buffers,      \* packets kept back
  dictionary,            \* ids of the frames the LZ4 stream refers to
  work,                  \* packet in hand: [packet, index, pos, flush]
  pc,                    \* "idle", "items" or "getbuf"
  tx_buffer_pool,        \* frames for the tap writer
  available              \* buffers in the available pool

seqvars == <<first_packet, last_sequence>>
state == <<last_part, last_format, last_orig_packet_size, tx_buffer>>
stream == <<inflight_buffers, dictionary>>
vars == <<seqvars, state, stream, work, pc, tx_buffer_pool, available>>

Empty == [size |-> 0, chunks |-> <<>>]
NoPacket == [seq |-> 0, fault |-> "none", opt_len |-> 0, size |-> 0,
             items |-> <<>>]
NoWork == [packet |-> NoPacket, index |-> 1, pos |-> 0, flush |-> TRUE]

(* _clearState() *)
ClearState ==
  /\ last_part' = 0
  /\ last_format' = "NONE"
  /\ last_orig_packet_size' = 0
  /\ tx_buffer' = Empty

(* Mutant: the decompressors are not reset. *)
FlushInflight_NoReset(pool) ==
  /\ inflight_buffers' = 0
  /\ dictionary' = dictionary
  /\ available' = pool + inflight_buffers

(* _flushInflight(): what is in flight goes back to the available pool,     *)
(* which holds pool buffers now, and the decompressors start afresh.       *)
FlushInflight(pool) ==
  /\ inflight_buffers' = 0
  /\ dictionary' = <<>>
  /\ available' = pool + inflight_buffers

(* Mutant: the buffer of the packet in hand is lost. *)
DropPacket_Leak(pool) ==
  /\ ClearState
  /\ FlushInflight(pool)
  /\ work' = NoWork
  /\ pc' = "idle"

(* _clearStateAndFlushInflight(): the packet in hand goes back as well. *)
DropPacket(pool) ==
  /\ ClearState
  /\ FlushInflight(pool + 1)
  /\ work' = NoWork
  /\ pc' = "idle"

-----------------------------------------------------------------------------
Init ==
  /\ first_packet = TRUE /\ last_sequence = 0
  /\ last_part = 0 /\ last_format = "NONE" /\ last_orig_packet_size = 0
  /\ tx_buffer = Empty
  /\ inflight_buffers = 0 /\ dictionary = <<>>
  /\ work = NoWork /\ pc = "idle"
  /\ tx_buffer_pool = <<>>
  /\ available = PoolSize - 2

(* Below, pool is the available pool without the buffer of the packet.      *)
(* decode() of less than a header: the packet's buffer goes straight back  *)
(* and the collected bytes are dropped, the part number is not.            *)
RefuseShort(p, pool) ==
  /\ pc = "idle"
  /\ p.fault = "short"
  /\ available' = pool + 1
  /\ tx_buffer' = Empty
  /\ UNCHANGED <<seqvars, last_part, last_format, last_orig_packet_size,
                 stream, work, pc, tx_buffer_pool>>

RefuseHeader(p, pool) ==
  /\ pc = "idle"
  /\ p.fault = "header"
  /\ DropPacket(pool)
  /\ UNCHANGED <<seqvars, tx_buffer_pool>>

(* The sequence check.  last_sequence + 1 is computed in 32 bits; a packet *)
(* that is early or late discards what was collected, unless the sequence  *)
(* number seems to have wrapped.                                           *)
PreviousSequence(p) ==
  IF first_packet THEN Wrap32(p.seq + SeqMax) ELSE last_sequence

(* Mutant: only packets that come late are noticed. *)
Discontinuity_LateOnly(p) ==
  LET last == PreviousSequence(p)
  IN  p.seq < Wrap32(last + 1) /\ ~is_sequence_wrapping(p.seq, last)

Discontinuity(p) ==
  LET last == PreviousSequence(p)
      next == Wrap32(last + 1)
  IN  \/ p.seq > next
      \/ p.seq < next /\ ~is_sequence_wrapping(p.seq, last)

TakeSequence(p) ==
  /\ pc = "idle"
  /\ p.fault \notin {"short", "header"}
  /\ first_packet' = FALSE
  /\ last_sequence' = p.seq

(* The option headers must be exactly one, in front of the first payload. *)
RefuseOptions(p, pool) ==
  /\ TakeSequence(p)
  /\ p.fault = "option" \/ p.opt_len # 1
  /\ DropPacket(pool)
  /\ UNCHANGED tx_buffer_pool

AcceptPacket(p, pool) ==
  /\ TakeSequence(p)
  /\ p.fault = "none" /\ p.opt_len = 1
  /\ IF Discontinuity(p)
     THEN ClearState /\ FlushInflight(pool)
     ELSE available' = pool /\ UNCHANGED <<state, stream>>
  /\ work' = [packet |-> p, index |-> 1, pos |-> HeaderSize, flush |-> TRUE]
  /\ pc' = "items"
  /\ UNCHANGED tx_buffer_pool

Decode(p, pool) ==
  RefuseShort(p, pool) \/ RefuseHeader(p, pool) \/ RefuseOptions(p, pool) \/ AcceptPacket(p, pool)

-----------------------------------------------------------------------------
item == work.packet.items[work.index]

AtItem == pc = "items" /\ work.pos < work.packet.size

(* Mutant: the position is not bumped. *)
NextItem_Stuck(flush) == work' = [work EXCEPT !.flush = flush]

(* packet_header_pos = packet_pos + payload_length, in 16 bits, and the     *)
(* item that the loop finds there, if that is still in the packet.          *)
NextPos == (work.pos + OptionSize + item.payload_length) % PosRange

NextIndex ==
  IF work.index < Len(work.packet.items) \/ NextPos >= work.packet.size
  THEN work.index + 1
  ELSE CHOOSE i \in DOMAIN work.packet.items :
         ItemStarts(work.packet)[i] = NextPos

NextItem(flush) ==
  work' = [work EXCEPT !.index = NextIndex, !.flush = flush, !.pos = NextPos]

Overrun == work.pos + OptionSize + item.payload_length > work.packet.size

(* A complete frame gives up on parts collected before, which also resets  *)
(* the decompressors.                                                      *)
Collected == IF item.type = "COMPLETE" /\ last_part # 0 THEN Empty ELSE tx_buffer
Dictionary == IF item.type = "COMPLETE" /\ last_part # 0 THEN <<>> ELSE dictionary
Kept == IF item.type = "COMPLETE" /\ last_part # 0 THEN 0 ELSE inflight_buffers

(* A part that cannot continue what was collected. *)
Unusable ==
  /\ IsPartial(item.type)
  /\ \/ item.part = 1 /\ last_part # 0
     \/ item.part # last_part + 1
     \/ last_part # 0 /\ item.packet_size # last_orig_packet_size
     \/ last_part # 0 /\ item.format # last_format

Malformed ==
  \/ item.packet_size > L2MTU
  \/ item.type = "COMPLETE" /\ (item.part # 0 \/ Overrun)
  \/ /\ IsPartial(item.type)
     /\ ~Unusable
     /\ \/ Overrun
        \/ tx_buffer.size + item.payload_length > BufferSize
        \/ /\ ~IsCompressed(item.format)
           /\ tx_buffer.size + item.payload_length > item.packet_size

(* The collected bytes with those of the item; a compressed complete frame *)
(* is decompressed straight from the packet.                               *)
Gathered ==
  IF item.type = "COMPLETE" /\ IsCompressed(item.format)
  THEN [size |-> item.payload_length, chunks |-> <<Chunk(item)>>]
  ELSE [size   |-> Collected.size + item.payload_length,
        chunks |-> Append(Collected.chunks, Chunk(item))]

(* What the gathered bytes turn out to be.  A format without a name is not *)
(* compressed as far as the code is concerned.                             *)
Outcomes ==
  IF IsCompressed(item.format)
  THEN Decompress(Gathered.chunks, item.format, Dictionary, item.packet_size)
  ELSE {Plain(Gathered.chunks, Gathered.size)}

(* A malformed item, or a frame that does not decompress or has not the    *)
(* size its header promises, costs the rest of the packet.                 *)
DropItem ==
  /\ AtItem
  /\ \/ Malformed
     \/ /\ IsComplete(item.type) /\ ~Unusable
        /\ \E r \in Outcomes : r.size # item.packet_size
  /\ DropPacket(available)
  /\ UNCHANGED <<seqvars, tx_buffer_pool>>

(* Mutant: an unusable part costs the rest of the packet. *)
SkipPart_DropPacket ==
  /\ AtItem
  /\ item.packet_size <= L2MTU
  /\ Unusable
  /\ DropPacket(available)
  /\ UNCHANGED <<seqvars, tx_buffer_pool>>

(* An unusable part is skipped, with everything that was collected, before  *)
(* its length is compared with the packet's.                                *)
SkipPart ==
  /\ AtItem
  /\ item.packet_size <= L2MTU
  /\ Unusable
  /\ ClearState
  /\ FlushInflight(available)
  /\ NextItem(FALSE)
  /\ UNCHANGED <<seqvars, pc, tx_buffer_pool>>

StorePart ==
  /\ AtItem
  /\ item.type = "PARTIAL"
  /\ ~Malformed /\ ~Unusable
  /\ tx_buffer' = Gathered
  /\ last_part' = item.part
  /\ last_format' = item.format
  /\ last_orig_packet_size' = item.packet_size
  /\ NextItem(FALSE)
  /\ UNCHANGED <<seqvars, stream, pc, tx_buffer_pool, available>>

(* A frame is whole: its buffer goes to the tap writer and the decoder has *)
(* to wait for another one.                                                *)
DeliverFrame ==
  /\ AtItem
  /\ IsComplete(item.type)
  /\ ~Malformed /\ ~Unusable
  /\ \E r \in Outcomes :
       /\ r.size = item.packet_size
       /\ tx_buffer_pool' = Append(tx_buffer_pool, r.frame)
       /\ dictionary' = Learn(Dictionary, item.format, r.frame)
  /\ inflight_buffers' = Kept
  /\ available' = available + inflight_buffers - Kept
  /\ IF item.type = "COMPLETE" THEN ClearState ELSE UNCHANGED state
  /\ pc' = "getbuf"
  /\ UNCHANGED <<seqvars, work>>

(* Mutant: the packets kept back go back while the decoder waits. *)
GetTxBuffer_FlushFirst ==
  /\ pc = "getbuf"
  /\ IF inflight_buffers > 0
     THEN FlushInflight(available) /\ UNCHANGED <<state, work, pc>>
     ELSE /\ available > 0
          /\ ClearState
          /\ available' = available - 1 /\ UNCHANGED stream
          /\ NextItem(~IsPartial(item.type))
          /\ pc' = "items"
  /\ UNCHANGED <<seqvars, tx_buffer_pool>>

(* Mutant: the pool is not looked at before a buffer is taken. *)
GetTxBuffer_Unguarded ==
  /\ pc = "getbuf"
  /\ ClearState
  /\ IF IsPartial(item.type)
     THEN FlushInflight(available - 1)
     ELSE available' = available - 1 /\ UNCHANGED stream
  /\ NextItem(~IsPartial(item.type))
  /\ pc' = "items"
  /\ UNCHANGED <<seqvars, tx_buffer_pool>>

(* _getTxBuffer(), and for an assembled frame _flushInflight() after it. *)
GetTxBuffer ==
  /\ pc = "getbuf"
  /\ available > 0
  /\ ClearState
  /\ IF IsPartial(item.type)
     THEN FlushInflight(available - 1)
     ELSE available' = available - 1 /\ UNCHANGED stream
  /\ NextItem(~IsPartial(item.type))
  /\ pc' = "items"
  /\ UNCHANGED <<seqvars, tx_buffer_pool>>

(* The packet itself goes in flight, for good only if it ended in a part. *)
FinishPacket ==
  /\ pc = "items"
  /\ work.pos >= work.packet.size
  /\ IF work.flush
     THEN FlushInflight(available + 1)
     ELSE /\ inflight_buffers' = inflight_buffers + 1
          /\ UNCHANGED <<dictionary, available>>
  /\ work' = NoWork
  /\ pc' = "idle"
  /\ UNCHANGED <<seqvars, state, tx_buffer_pool>>

(* tunnel_tap_write_handler: a frame is written and its buffer goes back. *)
TapWrite ==
  /\ tx_buffer_pool # <<>>
  /\ tx_buffer_pool' = Tail(tx_buffer_pool)
  /\ available' = available + 1
  /\ UNCHANGED <<seqvars, state, stream, work, pc>>

(* An item that is neither complete nor a part: the first option header may *)
(* have type 0 and the later ones any; the position does not move, and the *)
(* loop never ends.                                                        *)
Spin ==
  /\ AtItem
  /\ item.packet_size <= L2MTU
  /\ item.type = "OTHER"
  /\ UNCHANGED vars

DecoderStep ==
  DropItem \/ SkipPart \/ StorePart \/ DeliverFrame \/ GetTxBuffer \/ FinishPacket
  \/ Spin

(* The socket reader has put a packet into a buffer of the pool. *)
Receive(p) == available > 0 /\ Decode(p, available - 1)

Next ==
  \/ \E p \in Packets : Receive(p)
  \/ DecoderStep
  \/ TapWrite

Spec == Init /\ [][Next]_vars

FairSpec == Spec /\ WF_vars(DecoderStep) /\ WF_vars(TapWrite)

-----------------------------------------------------------------------------
TypeOK ==
  /\ first_packet \in BOOLEAN
  /\ last_sequence \in 0..SeqMax
  /\ last_part \in Nat /\ last_orig_packet_size \in Nat
  /\ last_format \in AnyFormat
  /\ tx_buffer \in [size : Nat, chunks : Seq(ChunkType)]
  /\ inflight_buffers \in Nat /\ dictionary \in Seq(Nat)
  /\ work \in [packet : PacketType, index : Nat, pos : Nat, flush : BOOLEAN]
  /\ pc \in {"idle", "items", "getbuf"}
  /\ tx_buffer_pool \in Seq(FrameType)
  /\ available \in Nat

(* Nothing is left over from one frame to the next: bytes are in the       *)
(* buffer only while a frame is being put together, never more than it     *)
(* holds, so append() never throws.  Between packets the LZ4 stream        *)
(* remembers frames only while a frame is being put together, and no more  *)
(* packets are kept back than parts were collected, and one: the encoder's *)
(* compressor starts afresh at the same points, and buffers are not        *)
(* hoarded.                                                                *)
ReassemblyBuffer ==
  /\ last_part = 0 => tx_buffer = Empty
  /\ tx_buffer.size <= BufferSize

Housekeeping ==
  /\ ReassemblyBuffer
  /\ pc = "idle" =>
       /\ last_part = 0 => dictionary = <<>>
       /\ inflight_buffers <= last_part + 1

(* No buffer is lost or returned twice on any path through the decoder,    *)
(* whatever the packets are; two are the decompression buffer and the one  *)
(* of the packet in hand.                                                  *)
BuffersHeld ==
  1 + (IF pc = "getbuf" THEN 0 ELSE 1) + (IF pc = "idle" THEN 0 ELSE 1)
  + inflight_buffers + Len(tx_buffer_pool)

BufferConservation == available + BuffersHeld = PoolSize

(* While the decoder waits for a buffer (decoder.cpp:37) it returns none,   *)
(* not even those of parts it has put together already, and it never hands *)
(* two frames over without one in between: it uses the pool as             *)
(* CodecBuffers says.                                                      *)
Buffers == INSTANCE CodecBuffers WITH
  outside <- available,
  held    <- BuffersHeld - Len(tx_buffer_pool),
  queue   <- Len(tx_buffer_pool),
  waiting <- pc = "getbuf"

BufferUse == Buffers!Spec

(* Every call to decode() comes to an end, unless the packet has an item   *)
(* of a type that is none, or a part whose length leads the loop back.     *)
(* (The buffer that pop_wait() waits for comes from the tap writer here;   *)
(* what other threads at the same pool can do to it is in BufferPath.)     *)
Spinning == AtItem /\ item.packet_size <= L2MTU /\ item.type = "OTHER"

CallsReturn ==
  (pc # "idle") ~> (pc = "idle" \/ Spinning \/ Circular(work.packet))
=============================================================================
