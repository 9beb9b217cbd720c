------------------------- MODULE PacketDecoder_proofs -------------------------
(***************************************************************************)
(* Type correctness of the packet decoder, the invariants its run checks,  *)
(* and that it implements CodecBuffers, for every size, pool and set of    *)
(* well-formed packets, damaged, late and missing ones included.           *)
(***************************************************************************)
EXTENDS PacketDecoder, SequenceTheorems, TLAPS

(* Where decode() is in the packet in hand: at the start of an item or     *)
(* outside of the packet, and at an item while it waits for a buffer.      *)
WorkInPacket ==
  pc # "idle" =>
    /\ WellFormed(work.packet)
    /\ work.pos < work.packet.size =>
         /\ work.index \in 1..Len(work.packet.items)
         /\ work.pos = ItemStarts(work.packet)[work.index]
    /\ pc = "getbuf" => work.pos < work.packet.size

(* What is kept from packet to packet against the parts collected, inside  *)
(* decode() as well: the flag that decides at the end of a packet whether  *)
(* it is kept says whether its last item was a part.                       *)
StreamInStep ==
  /\ inflight_buffers <= last_part + 1
  /\ pc = "items" /\ ~work.flush => inflight_buffers <= last_part
  /\ pc = "idle" \/ (pc = "items" /\ ~work.flush) =>
       (last_part = 0 => dictionary = <<>>)
  /\ pc = "getbuf" /\ ~IsPartial(item.type) => last_part = 0

(* The inductive invariant. *)
IInv ==
  TypeOK /\ WorkInPacket /\ ReassemblyBuffer /\ StreamInStep /\ BufferConservation

-----------------------------------------------------------------------------
(* The codec's constants in the form the arithmetic below needs. *)
LEMMA Sizes ==
  /\ L2MTU \in Nat /\ BufferSize \in Nat /\ SeqMax \in Nat /\ SeqMax > 2
  /\ HeaderSize = 8 /\ OptionSize = 8
  /\ PoolSize \in Nat /\ PoolSize >= 3
BY SizeAssumption, SeqAssumption, DecoderAssumption DEF HeaderSize, OptionSize

(* A call that is in its packet is at an item of it, and the lengths say   *)
(* where the next one starts.                                              *)
LEMMA ItemInHand ==
  ASSUME TypeOK, WorkInPacket, pc # "idle", work.pos < work.packet.size
  PROVE  /\ work.index \in 1..Len(work.packet.items)
         /\ item \in ItemType /\ item.payload_length \in Nat
         /\ NextPos \in Nat
         /\ ItemStarts(work.packet)[work.index + 1] = NextPos
<1> DEFINE start == ItemStarts(work.packet)
<1>1. work.packet \in PacketType /\ work.pos \in Nat
  BY DEF TypeOK
<1>2. work.packet.items \in Seq(ItemType)
  BY <1>1 DEF PacketType
<1>3. /\ WellFormed(work.packet)
      /\ work.index \in 1..Len(work.packet.items)
      /\ work.pos = start[work.index]
  BY DEF WorkInPacket
<1>4. \A i \in 1..Len(work.packet.items) :
        start[i + 1] = (start[i] + OptionSize + work.packet.items[i].payload_length) % PosRange
  BY <1>3 DEF WellFormed
<1> HIDE DEF start
<1>5. item \in ItemType
  BY <1>2, <1>3, ElementOfSeq DEF item
<1>6. item.payload_length \in Nat
  BY <1>5 DEF ItemType
<1>7. start[work.index + 1] = NextPos
  BY <1>3, <1>4 DEF item, NextPos
<1>8. NextPos \in Nat
  BY <1>1, <1>6, Sizes DEF NextPos, PosRange
<1>. QED BY <1>3, <1>5, <1>6, <1>7, <1>8 DEF start

(* The loop finds an item wherever in the packet it goes, for the lengths   *)
(* lead it back to one when they lead it back.                             *)
LEMMA NextIndexInPacket ==
  ASSUME TypeOK, WorkInPacket, pc # "idle", work.pos < work.packet.size
  PROVE  /\ NextIndex \in Nat
         /\ NextPos < work.packet.size =>
              /\ NextIndex \in 1..Len(work.packet.items)
              /\ ItemStarts(work.packet)[NextIndex] = NextPos
<1> DEFINE start == ItemStarts(work.packet)
           n == Len(work.packet.items)
<1>1. work.packet.items \in Seq(ItemType) /\ work.packet.size \in Nat
  BY DEF TypeOK, PacketType
<1>2. n \in Nat /\ DOMAIN work.packet.items = 1..n
  BY <1>1, LenProperties
<1>3. /\ work.index \in 1..n /\ NextPos \in Nat
      /\ start[work.index + 1] = NextPos
  BY ItemInHand
<1>4. work.packet.size <= start[n + 1] \/ \E i \in 1..n : start[i] = start[n + 1]
  BY DEF WorkInPacket, WellFormed
<1> HIDE DEF start, n
<1>5. CASE work.index < n \/ NextPos >= work.packet.size
  <2>1. NextIndex = work.index + 1
    BY <1>5 DEF NextIndex, n
  <2>2. NextPos < work.packet.size => work.index + 1 \in 1..n
    BY <1>1, <1>2, <1>3, <1>5
  <2>. QED BY <1>2, <1>3, <2>1, <2>2 DEF start, n
<1>6. CASE ~(work.index < n \/ NextPos >= work.packet.size)
  <2>1. NextIndex = CHOOSE i \in 1..n : start[i] = NextPos
    BY <1>2, <1>6 DEF NextIndex, n, start
  <2>2. work.index = n
    BY <1>2, <1>3, <1>6
  <2>3. \E i \in 1..n : start[i] = NextPos
    BY <1>1, <1>3, <1>4, <1>6, <2>2
  <2>4. NextIndex \in 1..n /\ start[NextIndex] = NextPos
    BY <2>1, <2>3
  <2>. QED BY <1>2, <2>4 DEF start, n
<1>. QED BY <1>5, <1>6

(* Behind an item the call is at another one or outside of its packet.     *)
LEMMA NextItemInPacket ==
  ASSUME TypeOK, WorkInPacket, pc # "idle", work.pos < work.packet.size,
         NEW flush \in BOOLEAN, NextItem(flush)
  PROVE  /\ work' \in [packet : PacketType, index : Nat, pos : Nat, flush : BOOLEAN]
         /\ work'.flush = flush
         /\ WellFormed(work'.packet)
         /\ work'.pos < work'.packet.size =>
              /\ work'.index \in 1..Len(work'.packet.items)
              /\ work'.pos = ItemStarts(work'.packet)[work'.index]
<1>1. work \in [packet : PacketType, index : Nat, pos : Nat, flush : BOOLEAN]
  BY DEF TypeOK
<1>2. work' = [packet |-> work.packet, index |-> NextIndex, pos |-> NextPos,
               flush |-> flush]
  BY <1>1 DEF NextItem
<1>3. /\ NextPos \in Nat /\ NextIndex \in Nat
      /\ NextPos < work.packet.size =>
           /\ NextIndex \in 1..Len(work.packet.items)
           /\ ItemStarts(work.packet)[NextIndex] = NextPos
  BY ItemInHand, NextIndexInPacket
<1>4. WellFormed(work.packet)
  BY DEF WorkInPacket
<1>. QED BY <1>1, <1>2, <1>3, <1>4

(* What an item adds to the buffer are chunks of blobs. *)
LEMMA GatheredTyped ==
  ASSUME TypeOK, item \in ItemType
  PROVE  /\ Gathered \in [size : Nat, chunks : Seq(ChunkType)]
         /\ Dictionary \in Seq(Nat) /\ Kept \in Nat /\ Kept <= inflight_buffers
<1>1. Chunk(item) \in ChunkType
  BY DEF Chunk, ChunkType, ItemType
<1>2. item.payload_length \in Nat
  BY DEF ItemType
<1>3. tx_buffer \in [size : Nat, chunks : Seq(ChunkType)]
      /\ Empty \in [size : Nat, chunks : Seq(ChunkType)]
  BY DEF TypeOK, Empty
<1>4. Collected \in [size : Nat, chunks : Seq(ChunkType)]
  BY <1>3 DEF Collected
<1>5. Append(Collected.chunks, Chunk(item)) \in Seq(ChunkType)
      /\ <<Chunk(item)>> \in Seq(ChunkType)
  BY <1>1, <1>4, AppendProperties
<1>6. Collected.size + item.payload_length \in Nat
  BY <1>2, <1>4
<1>7. Gathered \in [size : Nat, chunks : Seq(ChunkType)]
  BY <1>2, <1>5, <1>6 DEF Gathered
<1>8. Dictionary \in Seq(Nat) /\ Kept \in Nat /\ Kept <= inflight_buffers
  BY DEF TypeOK, Dictionary, Kept
<1>. QED BY <1>7, <1>8

(* Whatever the decompressor makes of it, what is handed on is a frame. *)
LEMMA OutcomeTyped ==
  ASSUME TypeOK, item \in ItemType, NEW r \in Outcomes
  PROVE  r.frame \in FrameType
<1> DEFINE chunks == Gathered.chunks
<1>1. chunks \in Seq(ChunkType) /\ Gathered.size \in Nat
  BY GatheredTyped
<1>2. Corrupt \in FrameType
  BY DEF Corrupt, FrameType
<1>3. ASSUME Whole(chunks)
      PROVE  chunks[1].blob.frame \in FrameType
  <2>1. chunks # <<>>
    BY <1>3 DEF Whole
  <2>2. Len(chunks) \in Nat /\ Len(chunks) # 0
    BY <1>1, <2>1, LenProperties, EmptySeq
  <2>3. chunks[1] \in ChunkType
    BY <1>1, <2>2, ElementOfSeq
  <2>. QED BY <2>3 DEF ChunkType, BlobType
<1> HIDE DEF chunks
<1>4. CASE IsCompressed(item.format)
  <2>1. r \in Decompress(chunks, item.format, Dictionary, item.packet_size)
    BY <1>4 DEF Outcomes, chunks
  <2>. QED BY <2>1, <1>2, <1>3 DEF Decompress, NotDecompressed
<1>5. CASE ~IsCompressed(item.format)
  <2>1. r = Plain(chunks, Gathered.size)
    BY <1>5 DEF Outcomes, chunks
  <2>. QED BY <2>1, <1>2, <1>3 DEF Plain
<1>. QED BY <1>4, <1>5

(* The values that stand for no packet and no bytes have the types. *)
LEMMA NothingTyped ==
  /\ NoWork \in [packet : PacketType, index : Nat, pos : Nat, flush : BOOLEAN]
  /\ Empty \in [size : Nat, chunks : Seq(ChunkType)]
  /\ "NONE" \in AnyFormat
<1>1. NoPacket \in PacketType
  BY Sizes DEF NoPacket, PacketType
<1>. QED BY <1>1 DEF NoWork, Empty, AnyFormat, Formats

(* What _clearState() leaves. *)
LEMMA ClearStateTyped ==
  ASSUME ClearState
  PROVE  /\ last_part' = 0 /\ last_orig_packet_size' \in Nat
         /\ last_format' \in AnyFormat
         /\ tx_buffer' = Empty
         /\ tx_buffer' \in [size : Nat, chunks : Seq(ChunkType)]
BY NothingTyped DEF ClearState

(* What _clearStateAndFlushInflight() leaves. *)
LEMMA DropPacketTyped ==
  ASSUME TypeOK, NEW pool \in Nat, DropPacket(pool)
  PROVE  /\ last_part' = 0 /\ last_orig_packet_size' \in Nat
         /\ last_format' \in AnyFormat
         /\ tx_buffer' = Empty
         /\ tx_buffer' \in [size : Nat, chunks : Seq(ChunkType)]
         /\ inflight_buffers' = 0 /\ dictionary' = <<>>
         /\ available' = pool + 1 + inflight_buffers /\ available' \in Nat
         /\ work' \in [packet : PacketType, index : Nat, pos : Nat, flush : BOOLEAN]
         /\ pc' = "idle"
BY NothingTyped, ClearStateTyped DEF DropPacket, FlushInflight, TypeOK

-----------------------------------------------------------------------------
(* The queue of the tap writer has a length. *)
LEMMA QueueTyped ==
  ASSUME TypeOK
  PROVE  tx_buffer_pool \in Seq(FrameType) /\ Len(tx_buffer_pool) \in Nat
BY LenProperties DEF TypeOK

(* The constructor establishes the invariant. *)
LEMMA InvInit == Init => IInv
<1> SUFFICES ASSUME Init PROVE IInv
  OBVIOUS
<1> USE DEF Init
<1>1. TypeOK
  BY NothingTyped, Sizes DEF TypeOK
<1>2. ReassemblyBuffer
  BY Sizes DEF ReassemblyBuffer, Empty
<1>3. BufferConservation
  BY Sizes DEF BufferConservation, BuffersHeld
<1>. QED BY <1>1, <1>2, <1>3 DEF IInv, WorkInPacket, StreamInStep

(* A packet that decode() gives back at once changes little. *)
LEMMA RefuseShortStep ==
  ASSUME IInv, NEW p \in Packets, available > 0, RefuseShort(p, available - 1)
  PROVE  IInv'
<1> USE DEF IInv, RefuseShort, seqvars, stream
<1>1. TypeOK'
  BY NothingTyped DEF TypeOK
<1>2. ReassemblyBuffer'
  BY Sizes DEF ReassemblyBuffer, Empty
<1>3. WorkInPacket' /\ StreamInStep'
  BY DEF WorkInPacket, StreamInStep
<1>4. BufferConservation'
  BY QueueTyped DEF TypeOK, BufferConservation, BuffersHeld
<1>. QED BY <1>1, <1>2, <1>3, <1>4

(* Giving up on a packet leaves nothing to remember. *)
LEMMA DropPacketKeeps ==
  ASSUME IInv, DropPacket(available), pc = "items", UNCHANGED tx_buffer_pool
  PROVE  WorkInPacket' /\ ReassemblyBuffer' /\ StreamInStep' /\ BufferConservation'
<1>1. TypeOK /\ available \in Nat /\ inflight_buffers \in Nat
  BY DEF IInv, TypeOK
<1>2. /\ last_part' = 0 /\ tx_buffer' = Empty /\ pc' = "idle"
      /\ inflight_buffers' = 0 /\ dictionary' = <<>>
      /\ available' = available + 1 + inflight_buffers
  BY <1>1, DropPacketTyped
<1>3. ReassemblyBuffer'
  BY <1>2, Sizes DEF ReassemblyBuffer, Empty
<1>4. BufferConservation'
  BY <1>1, <1>2, QueueTyped DEF IInv, BufferConservation, BuffersHeld
<1>. QED BY <1>2, <1>3, <1>4 DEF WorkInPacket, StreamInStep

(* A packet that is refused before its first item is given back, with all  *)
(* that was collected; its sequence number counts all the same if its      *)
(* header is valid.                                                        *)
LEMMA RefusePacketStep ==
  ASSUME IInv, NEW p \in Packets, available > 0,
         RefuseHeader(p, available - 1) \/ RefuseOptions(p, available - 1)
  PROVE  IInv'
<1>1. /\ TypeOK /\ available - 1 \in Nat /\ inflight_buffers \in Nat
      /\ pc = "idle" /\ UNCHANGED tx_buffer_pool
      /\ DropPacket(available - 1)
  BY DEF IInv, TypeOK, RefuseHeader, RefuseOptions, TakeSequence
<1>2. /\ last_part' = 0 /\ last_orig_packet_size' \in Nat
      /\ last_format' \in AnyFormat
      /\ tx_buffer' = Empty
      /\ tx_buffer' \in [size : Nat, chunks : Seq(ChunkType)]
      /\ inflight_buffers' = 0 /\ dictionary' = <<>>
      /\ available' = available + inflight_buffers
      /\ work' \in [packet : PacketType, index : Nat, pos : Nat, flush : BOOLEAN]
      /\ pc' = "idle"
  <2> DEFINE pool == available - 1
  <2>1. /\ available \in Nat /\ inflight_buffers \in Nat
        /\ pool \in Nat /\ DropPacket(pool)
    BY <1>1 DEF TypeOK
  <2> HIDE DEF pool
  <2>2. /\ available' = pool + 1 + inflight_buffers
        /\ last_part' = 0 /\ last_orig_packet_size' \in Nat
        /\ last_format' \in AnyFormat
        /\ tx_buffer' = Empty
        /\ tx_buffer' \in [size : Nat, chunks : Seq(ChunkType)]
        /\ inflight_buffers' = 0 /\ dictionary' = <<>>
        /\ work' \in [packet : PacketType, index : Nat, pos : Nat, flush : BOOLEAN]
        /\ pc' = "idle"
    BY <1>1, <2>1, DropPacketTyped
  <2>3. available' = available + inflight_buffers
    BY <2>1, <2>2 DEF pool
  <2>. QED BY <2>2, <2>3
<1>3. first_packet' \in BOOLEAN /\ last_sequence' \in 0..SeqMax
  BY <1>1, PacketsAssumption
  DEF TypeOK, RefuseHeader, RefuseOptions, TakeSequence, seqvars, PacketType
<1>4. TypeOK'
  BY <1>1, <1>2, <1>3, EmptySeq DEF TypeOK
<1>5. ReassemblyBuffer'
  BY <1>2, Sizes DEF ReassemblyBuffer, Empty
<1>6. BufferConservation'
  BY <1>1, <1>2, QueueTyped DEF TypeOK, IInv, BufferConservation, BuffersHeld
<1>. QED BY <1>2, <1>4, <1>5, <1>6 DEF IInv, WorkInPacket, StreamInStep

(* A packet is taken in hand at its first item. *)
LEMMA AcceptPacketStep ==
  ASSUME IInv, NEW p \in Packets, available > 0, AcceptPacket(p, available - 1)
  PROVE  IInv'
<1>1. /\ TypeOK /\ available - 1 \in Nat /\ inflight_buffers \in Nat
      /\ pc = "idle" /\ pc' = "items" /\ UNCHANGED tx_buffer_pool
      /\ work' = [packet |-> p, index |-> 1, pos |-> HeaderSize, flush |-> TRUE]
      /\ first_packet' = FALSE /\ last_sequence' = p.seq
  BY DEF IInv, TypeOK, AcceptPacket, TakeSequence
<1>2. p \in PacketType /\ WellFormed(p)
  BY PacketsAssumption
<1>3. Len(p.items) \in Nat
  BY <1>2, LenProperties DEF PacketType
<1>4. /\ ItemStarts(p)[1] = HeaderSize
      /\ HeaderSize < p.size => 1 \in 1..Len(p.items)
  <2>1. /\ ItemStarts(p)[1] = HeaderSize
        /\ \/ p.size <= ItemStarts(p)[Len(p.items) + 1]
           \/ \E i \in 1..Len(p.items) :
                ItemStarts(p)[i] = ItemStarts(p)[Len(p.items) + 1]
    BY <1>2 DEF WellFormed
  <2>2. CASE Len(p.items) = 0
    <3>1. p.size <= HeaderSize
      BY <2>1, <2>2
    <3>. QED BY <2>1, <3>1, <1>2, Sizes DEF PacketType
  <2>3. CASE Len(p.items) > 0
    BY <1>3, <2>1, <2>3
  <2>. QED BY <1>3, <2>2, <2>3
<1>5. WorkInPacket'
  BY <1>1, <1>2, <1>3, <1>4 DEF WorkInPacket
<1>6. \/ /\ ClearState /\ FlushInflight(available - 1)
      \/ /\ available' = available - 1 /\ UNCHANGED <<state, stream>>
  BY DEF AcceptPacket
<1>7. /\ last_part' \in Nat /\ last_orig_packet_size' \in Nat
      /\ last_format' \in AnyFormat
      /\ tx_buffer' \in [size : Nat, chunks : Seq(ChunkType)]
      /\ inflight_buffers' \in Nat /\ dictionary' \in Seq(Nat)
      /\ inflight_buffers' <= last_part' + 1
      /\ available' \in Nat
      /\ ReassemblyBuffer'
  <2>1. CASE ClearState /\ FlushInflight(available - 1)
    <3>1. ReassemblyBuffer'
      BY <2>1, Sizes, ClearStateTyped DEF ReassemblyBuffer, Empty
    <3>2. inflight_buffers' = 0 /\ dictionary' = <<>>
          /\ available' = available - 1 + inflight_buffers
      BY <2>1 DEF FlushInflight
    <3>. QED BY <1>1, <2>1, <3>1, <3>2, ClearStateTyped, EmptySeq DEF TypeOK
  <2>2. CASE available' = available - 1 /\ UNCHANGED <<state, stream>>
    BY <1>1, <2>2
    DEF IInv, TypeOK, state, stream, ReassemblyBuffer, StreamInStep
  <2>. QED BY <1>6, <2>1, <2>2
<1>8. work' \in [packet : PacketType, index : Nat, pos : Nat, flush : BOOLEAN]
  BY <1>1, <1>2, Sizes
<1>9. TypeOK'
  BY <1>1, <1>2, <1>7, <1>8 DEF TypeOK, PacketType
<1>10. StreamInStep'
  BY <1>1, <1>7 DEF StreamInStep
<1>11. BufferConservation'
  <2>1. pc' = "items" /\ UNCHANGED tx_buffer_pool
    BY <1>1
  <2>2. CASE ClearState /\ FlushInflight(available - 1)
    BY <1>1, <2>1, <2>2, QueueTyped
    DEF TypeOK, FlushInflight, IInv, BufferConservation, BuffersHeld
  <2>3. CASE available' = available - 1 /\ UNCHANGED <<state, stream>>
    BY <1>1, <2>1, <2>3, QueueTyped
    DEF TypeOK, stream, IInv, BufferConservation, BuffersHeld
  <2>. QED BY <1>6, <2>2, <2>3
<1>. QED BY <1>5, <1>7, <1>9, <1>10, <1>11 DEF IInv

(* A malformed item, or a frame that does not decompress. *)
LEMMA DropItemStep ==
  ASSUME IInv, DropItem
  PROVE  IInv'
<1>1. /\ TypeOK /\ available \in Nat /\ pc = "items"
      /\ DropPacket(available) /\ UNCHANGED <<seqvars, tx_buffer_pool>>
  BY DEF IInv, TypeOK, DropItem, AtItem
<1>2. WorkInPacket' /\ ReassemblyBuffer' /\ StreamInStep' /\ BufferConservation'
  BY <1>1, DropPacketKeeps
<1>3. TypeOK'
  <2>1. /\ last_part' = 0 /\ last_orig_packet_size' \in Nat
        /\ last_format' \in AnyFormat
        /\ tx_buffer' \in [size : Nat, chunks : Seq(ChunkType)]
        /\ inflight_buffers' = 0 /\ dictionary' = <<>>
        /\ available' \in Nat
        /\ work' \in [packet : PacketType, index : Nat, pos : Nat, flush : BOOLEAN]
        /\ pc' = "idle"
    BY <1>1, DropPacketTyped
  <2>. QED BY <1>1, <2>1, EmptySeq DEF TypeOK, seqvars
<1>. QED BY <1>2, <1>3 DEF IInv

(* A part that cannot be used. *)
LEMMA SkipPartStep ==
  ASSUME IInv, SkipPart
  PROVE  IInv'
<1>1. /\ TypeOK /\ WorkInPacket /\ available \in Nat /\ inflight_buffers \in Nat
      /\ pc = "items" /\ work.pos < work.packet.size
      /\ ClearState /\ FlushInflight(available) /\ NextItem(FALSE)
      /\ UNCHANGED <<seqvars, pc, tx_buffer_pool>>
  BY DEF IInv, TypeOK, SkipPart, AtItem
<1>2. /\ work' \in [packet : PacketType, index : Nat, pos : Nat, flush : BOOLEAN]
      /\ WellFormed(work'.packet)
      /\ work'.pos < work'.packet.size =>
           /\ work'.index \in 1..Len(work'.packet.items)
           /\ work'.pos = ItemStarts(work'.packet)[work'.index]
  BY <1>1, NextItemInPacket
<1>3. inflight_buffers' = 0 /\ dictionary' = <<>>
      /\ available' = available + inflight_buffers
  BY <1>1 DEF FlushInflight
<1>4. TypeOK'
  BY <1>1, <1>2, <1>3, ClearStateTyped, EmptySeq DEF TypeOK, seqvars
<1>5. WorkInPacket'
  BY <1>1, <1>2 DEF WorkInPacket
<1>6. ReassemblyBuffer'
  BY <1>1, ClearStateTyped, Sizes DEF ReassemblyBuffer, Empty
<1>7. StreamInStep'
  BY <1>1, <1>3, ClearStateTyped DEF StreamInStep
<1>8. BufferConservation'
  <2>1. pc' = "items" /\ UNCHANGED tx_buffer_pool
    BY <1>1
  <2>. QED BY <1>1, <1>3, <2>1, QueueTyped DEF IInv, BufferConservation, BuffersHeld
<1>. QED BY <1>4, <1>5, <1>6, <1>7, <1>8 DEF IInv

(* A part that continues what was collected: one more part, and as many    *)
(* packets may be kept.                                                    *)
LEMMA StorePartStep ==
  ASSUME IInv, StorePart
  PROVE  IInv'
<1>1. /\ TypeOK /\ WorkInPacket /\ last_part \in Nat /\ inflight_buffers \in Nat
      /\ pc = "items" /\ pc' = "items" /\ work.pos < work.packet.size
      /\ item.type = "PARTIAL" /\ ~Malformed /\ ~Unusable
      /\ tx_buffer' = Gathered /\ NextItem(FALSE)
      /\ last_part' = item.part /\ last_format' = item.format
      /\ last_orig_packet_size' = item.packet_size
      /\ UNCHANGED <<seqvars, stream, tx_buffer_pool, available>>
  BY DEF IInv, TypeOK, StorePart, AtItem
<1>2. /\ work' \in [packet : PacketType, index : Nat, pos : Nat, flush : BOOLEAN]
      /\ work'.flush = FALSE
      /\ WellFormed(work'.packet)
      /\ work'.pos < work'.packet.size =>
           /\ work'.index \in 1..Len(work'.packet.items)
           /\ work'.pos = ItemStarts(work'.packet)[work'.index]
  BY <1>1, NextItemInPacket
<1>3. item \in ItemType
  BY <1>1, ItemInHand
<1>4. item.part \in Nat /\ item.format \in AnyFormat
      /\ item.packet_size \in Nat /\ item.payload_length \in Nat
  BY <1>3 DEF ItemType
<1>5. IsPartial(item.type)
  BY <1>1 DEF IsPartial
<1>6. item.part = last_part + 1
  BY <1>1, <1>5 DEF Unusable
<1>7. tx_buffer.size + item.payload_length <= BufferSize
  <2>1. tx_buffer.size \in Nat
    BY <1>1 DEF TypeOK
  <2>. QED BY <1>1, <1>4, <1>5, <2>1, Sizes DEF Malformed
<1>8. Gathered \in [size : Nat, chunks : Seq(ChunkType)]
  BY <1>1, <1>3, GatheredTyped
<1>9. Gathered.size = tx_buffer.size + item.payload_length
  BY <1>1 DEF Gathered, Collected
<1>10. TypeOK'
  BY <1>1, <1>2, <1>4, <1>8 DEF TypeOK, seqvars, stream
<1>11. WorkInPacket'
  BY <1>1, <1>2 DEF WorkInPacket
<1>12. ReassemblyBuffer'
  BY <1>1, <1>6, <1>7, <1>9 DEF ReassemblyBuffer
<1>13. StreamInStep'
  BY <1>1, <1>6 DEF IInv, StreamInStep, stream
<1>14. BufferConservation'
  BY <1>1 DEF IInv, stream, BufferConservation, BuffersHeld
<1>. QED BY <1>10, <1>11, <1>12, <1>13, <1>14 DEF IInv

(* A frame is whole.  What is kept back for it stays until its successor's *)
(* buffer is there, unless it comes complete and ends a collection.        *)
LEMMA DeliverFrameStep ==
  ASSUME IInv, DeliverFrame
  PROVE  IInv'
<1>1. /\ TypeOK /\ WorkInPacket /\ last_part \in Nat /\ inflight_buffers \in Nat
      /\ available \in Nat
      /\ pc = "items" /\ pc' = "getbuf" /\ work.pos < work.packet.size
      /\ IsComplete(item.type)
      /\ inflight_buffers' = Kept
      /\ available' = available + inflight_buffers - Kept
      /\ UNCHANGED <<seqvars, work>>
  BY DEF IInv, TypeOK, DeliverFrame, AtItem
<1>2. PICK r \in Outcomes :
        /\ tx_buffer_pool' = Append(tx_buffer_pool, r.frame)
        /\ dictionary' = Learn(Dictionary, item.format, r.frame)
  BY DEF DeliverFrame
<1>3. item \in ItemType
  BY <1>1, ItemInHand
<1>4. r.frame \in FrameType
  BY <1>1, <1>3, OutcomeTyped
<1>5. Dictionary \in Seq(Nat) /\ Kept \in Nat /\ Kept <= inflight_buffers
  BY <1>1, <1>3, GatheredTyped
<1>6. tx_buffer_pool' \in Seq(FrameType)
      /\ Len(tx_buffer_pool') = Len(tx_buffer_pool) + 1
  BY <1>1, <1>2, <1>4, AppendProperties DEF TypeOK
<1>7. dictionary' \in Seq(Nat)
  BY <1>2, <1>4, <1>5, AppendProperties DEF Learn, FrameType
<1>8. /\ last_part' \in Nat /\ last_orig_packet_size' \in Nat
      /\ last_format' \in AnyFormat
      /\ tx_buffer' \in [size : Nat, chunks : Seq(ChunkType)]
      /\ ReassemblyBuffer'
      /\ inflight_buffers' <= last_part' + 1
      /\ ~IsPartial(item.type) => last_part' = 0
  <2>1. CASE item.type = "COMPLETE"
    <3>1. ClearState
      BY <2>1 DEF DeliverFrame
    <3>2. ReassemblyBuffer'
      BY <3>1, ClearStateTyped, Sizes DEF ReassemblyBuffer, Empty
    <3>3. Kept <= 1
      BY <1>1, <2>1 DEF IInv, StreamInStep, Kept
    <3>. QED BY <1>1, <1>5, <3>1, <3>2, <3>3, ClearStateTyped
  <2>2. CASE item.type # "COMPLETE"
    <3>1. UNCHANGED state
      BY <2>2 DEF DeliverFrame
    <3>2. IsPartial(item.type)
      BY <1>1, <2>2 DEF IsComplete, IsPartial
    <3>3. Kept = inflight_buffers
      BY <2>2 DEF Kept
    <3>. QED BY <1>1, <3>1, <3>2, <3>3
         DEF IInv, TypeOK, state, ReassemblyBuffer, StreamInStep
  <2>. QED BY <2>1, <2>2
<1>9. TypeOK'
  BY <1>1, <1>5, <1>6, <1>7, <1>8 DEF TypeOK, seqvars
<1>10. WorkInPacket'
  BY <1>1 DEF WorkInPacket
<1>11. StreamInStep'
  BY <1>1, <1>8 DEF StreamInStep, item
<1>12. BufferConservation'
  <2>1. Len(tx_buffer_pool) \in Nat
    BY <1>1, QueueTyped
  <2>2. available + (3 + inflight_buffers + Len(tx_buffer_pool)) = PoolSize
    BY <1>1, <2>1 DEF IInv, BufferConservation, BuffersHeld
  <2>3. available + inflight_buffers - Kept
          + (2 + Kept + (Len(tx_buffer_pool) + 1)) = PoolSize
    BY <1>1, <1>5, <2>1, <2>2
  <2>4. BuffersHeld' = 2 + Kept + (Len(tx_buffer_pool) + 1)
    BY <1>1, <1>5, <1>6, <2>1 DEF BuffersHeld
  <2>. QED BY <1>1, <2>3, <2>4 DEF BufferConservation
<1>. QED BY <1>8, <1>9, <1>10, <1>11, <1>12 DEF IInv

(* The next buffer is there; the packets of an assembled frame go back. *)
LEMMA GetTxBufferStep ==
  ASSUME IInv, GetTxBuffer
  PROVE  IInv'
<1>1. /\ TypeOK /\ WorkInPacket /\ available \in Nat /\ available > 0
      /\ inflight_buffers \in Nat
      /\ pc = "getbuf" /\ pc' = "items" /\ work.pos < work.packet.size
      /\ ClearState /\ NextItem(~IsPartial(item.type))
      /\ UNCHANGED <<seqvars, tx_buffer_pool>>
  BY DEF IInv, TypeOK, GetTxBuffer, WorkInPacket
<1>2. (~IsPartial(item.type)) \in BOOLEAN
  BY DEF IsPartial
<1>3. /\ work' \in [packet : PacketType, index : Nat, pos : Nat, flush : BOOLEAN]
      /\ work'.flush = (~IsPartial(item.type))
      /\ WellFormed(work'.packet)
      /\ work'.pos < work'.packet.size =>
           /\ work'.index \in 1..Len(work'.packet.items)
           /\ work'.pos = ItemStarts(work'.packet)[work'.index]
  BY <1>1, <1>2, NextItemInPacket
<1>4. WorkInPacket'
  BY <1>1, <1>3 DEF WorkInPacket
<1>5. ReassemblyBuffer'
  BY <1>1, ClearStateTyped, Sizes DEF ReassemblyBuffer, Empty
<1>6. CASE IsPartial(item.type)
  <2>1. inflight_buffers' = 0 /\ dictionary' = <<>>
        /\ available' = available - 1 + inflight_buffers
    BY <1>6 DEF GetTxBuffer, FlushInflight
  <2>2. TypeOK'
    BY <1>1, <1>3, <2>1, ClearStateTyped, EmptySeq DEF TypeOK, seqvars
  <2>3. StreamInStep'
    BY <1>1, <2>1, ClearStateTyped DEF StreamInStep
  <2>4. BufferConservation'
    BY <1>1, <2>1, QueueTyped DEF IInv, BufferConservation, BuffersHeld
  <2>. QED BY <1>4, <1>5, <2>2, <2>3, <2>4 DEF IInv
<1>7. CASE ~IsPartial(item.type)
  <2>1. available' = available - 1 /\ UNCHANGED stream
    BY <1>7 DEF GetTxBuffer
  <2>2. TypeOK'
    BY <1>1, <1>3, <2>1, ClearStateTyped DEF TypeOK, seqvars, stream
  <2>3. work'.flush = TRUE
    BY <1>3, <1>7
  <2>4. StreamInStep'
    BY <1>1, <1>7, <2>1, <2>3, ClearStateTyped DEF IInv, StreamInStep, stream
  <2>5. BufferConservation'
    BY <1>1, <2>1, QueueTyped DEF IInv, stream, BufferConservation, BuffersHeld
  <2>. QED BY <1>4, <1>5, <2>2, <2>4, <2>5 DEF IInv
<1>. QED BY <1>6, <1>7

(* The end of a packet: only one that ended in a part is kept. *)
LEMMA FinishPacketStep ==
  ASSUME IInv, FinishPacket
  PROVE  IInv'
<1>1. /\ TypeOK /\ available \in Nat /\ inflight_buffers \in Nat
      /\ last_part \in Nat
      /\ pc = "items" /\ pc' = "idle" /\ work' = NoWork
      /\ UNCHANGED <<seqvars, state, tx_buffer_pool>>
  BY DEF IInv, TypeOK, FinishPacket
<1>2. WorkInPacket'
  BY <1>1 DEF WorkInPacket
<1>3. ReassemblyBuffer'
  BY <1>1 DEF IInv, state, ReassemblyBuffer
<1>4. CASE work.flush
  <2>1. inflight_buffers' = 0 /\ dictionary' = <<>>
        /\ available' = available + 1 + inflight_buffers
    BY <1>4 DEF FinishPacket, FlushInflight
  <2>2. TypeOK'
    BY <1>1, <2>1, NothingTyped, EmptySeq DEF TypeOK, seqvars, state
  <2>3. StreamInStep'
    BY <1>1, <2>1 DEF StreamInStep, state
  <2>4. BufferConservation'
    BY <1>1, <2>1, QueueTyped DEF IInv, BufferConservation, BuffersHeld
  <2>. QED BY <1>2, <1>3, <2>2, <2>3, <2>4 DEF IInv
<1>5. CASE ~work.flush
  <2>1. /\ inflight_buffers' = inflight_buffers + 1
        /\ UNCHANGED <<dictionary, available>>
    BY <1>5 DEF FinishPacket
  <2>2. TypeOK'
    BY <1>1, <2>1, NothingTyped DEF TypeOK, seqvars, state
  <2>3. StreamInStep'
    BY <1>1, <1>5, <2>1 DEF IInv, StreamInStep, state
  <2>4. BufferConservation'
    BY <1>1, <2>1, QueueTyped DEF IInv, BufferConservation, BuffersHeld
  <2>. QED BY <1>2, <1>3, <2>2, <2>3, <2>4 DEF IInv
<1>. QED BY <1>4, <1>5

(* The tap writer returns a buffer. *)
LEMMA TapWriteStep ==
  ASSUME IInv, TapWrite
  PROVE  IInv'
<1>1. /\ TypeOK /\ available \in Nat
      /\ tx_buffer_pool # <<>> /\ tx_buffer_pool' = Tail(tx_buffer_pool)
      /\ available' = available + 1
      /\ UNCHANGED <<seqvars, state, stream, work, pc>>
  BY DEF IInv, TypeOK, TapWrite
<1>2. /\ tx_buffer_pool' \in Seq(FrameType)
      /\ Len(tx_buffer_pool') = Len(tx_buffer_pool) - 1
  BY <1>1, HeadTailProperties DEF TypeOK
<1>3. TypeOK'
  BY <1>1, <1>2 DEF TypeOK, seqvars, state, stream
<1>4. WorkInPacket' /\ ReassemblyBuffer' /\ StreamInStep'
  BY <1>1 DEF IInv, WorkInPacket, ReassemblyBuffer, StreamInStep, item, state, stream
<1>5. BufferConservation'
  BY <1>1, <1>2, QueueTyped
  DEF IInv, TypeOK, stream, BufferConservation, BuffersHeld
<1>. QED BY <1>3, <1>4, <1>5 DEF IInv

(* The invariant is inductive. *)
LEMMA InvStep == IInv /\ [Next]_vars => IInv'
<1>. SUFFICES ASSUME IInv, [Next]_vars PROVE IInv'
  OBVIOUS
<1>1. ASSUME NEW p \in Packets, Receive(p)
      PROVE  IInv'
  BY <1>1, RefuseShortStep, RefusePacketStep, AcceptPacketStep
  DEF Receive, Decode
<1>2. CASE DropItem \/ SkipPart \/ StorePart
  BY <1>2, DropItemStep, SkipPartStep, StorePartStep
<1>3. CASE DeliverFrame \/ GetTxBuffer \/ FinishPacket
  BY <1>3, DeliverFrameStep, GetTxBufferStep, FinishPacketStep
<1>4. CASE TapWrite
  BY <1>4, TapWriteStep
<1>5. CASE UNCHANGED vars
  BY <1>5
  DEF vars, seqvars, state, stream, item, IInv, TypeOK, WorkInPacket,
      ReassemblyBuffer, StreamInStep, BufferConservation, BuffersHeld
<1>6. CASE Spin
  BY <1>5, <1>6 DEF Spin
<1>. QED BY <1>1, <1>2, <1>3, <1>4, <1>5, <1>6 DEF Next, DecoderStep

(* The inductive invariant of the decoder. *)
LEMMA Invariant == Spec => []IInv
<1>. QED BY InvInit, InvStep, PTL DEF Spec

(* Type correctness of the decoder: every branch of decode() leaves sizes,  *)
(* counts and positions that are not negative and an item in the packet at *)
(* hand, whatever the packets are.                                         *)
THEOREM TypeCorrect == Spec => []TypeOK
<1>1. IInv => TypeOK
  BY DEF IInv
<1>. QED BY <1>1, Invariant, PTL

(* append() of a part never overruns the buffer, no bytes are left in it    *)
(* from one frame to the next, and between packets the decompressors and   *)
(* the packets kept back are those of the frame being collected.           *)
THEOREM AlwaysHousekept == Spec => []Housekeeping
<1>1. IInv => Housekeeping
  BY DEF IInv, StreamInStep, Housekeeping
<1>. QED BY <1>1, Invariant, PTL

(* No path through decode() loses a buffer or returns one twice, with any   *)
(* pool and any sequence of packets.                                       *)
THEOREM BuffersConserved == Spec => []BufferConservation
<1>1. IInv => BufferConservation
  BY DEF IInv
<1>. QED BY <1>1, Invariant, PTL

-----------------------------------------------------------------------------
(* The decoder uses the pool as CodecBuffers says: every step of it is a    *)
(* step of that specification or leaves what it speaks of alone.           *)

(* The buffers of the decoder itself, as CodecBuffers counts them. *)
CodecHeld == BuffersHeld - Len(tx_buffer_pool)

HeldFacts ==
  /\ available \in Nat /\ inflight_buffers \in Nat
  /\ CodecHeld \in Nat /\ Len(tx_buffer_pool) \in Nat
  /\ pc \in {"idle", "items", "getbuf"}
  /\ pc = "items" => CodecHeld = inflight_buffers + 3
  /\ pc # "items" => CodecHeld = inflight_buffers + 2
  /\ available + CodecHeld + Len(tx_buffer_pool) = PoolSize

(* What the decoder holds at each point of decode(). *)
LEMMA HeldNow == IInv => HeldFacts
<1> SUFFICES ASSUME IInv PROVE HeldFacts
  OBVIOUS
<1>1. /\ available \in Nat /\ inflight_buffers \in Nat
      /\ Len(tx_buffer_pool) \in Nat /\ pc \in {"idle", "items", "getbuf"}
  BY QueueTyped DEF IInv, TypeOK
<1>2. /\ pc = "items" => CodecHeld = inflight_buffers + 3
      /\ pc # "items" => CodecHeld = inflight_buffers + 2
  BY <1>1 DEF CodecHeld, BuffersHeld
<1>3. available + CodecHeld + Len(tx_buffer_pool) = PoolSize
  BY <1>1 DEF IInv, BufferConservation, CodecHeld, BuffersHeld
<1>. QED BY <1>1, <1>2, <1>3 DEF HeldFacts

(* The same behind a step. *)
LEMMA HeldNext == IInv' => HeldFacts'
BY HeldNow, PTL

(* What the pool and the decoder lose the tap writer gains. *)
LEMMA Balance ==
  ASSUME HeldFacts, HeldFacts',
         Len(tx_buffer_pool)' = Len(tx_buffer_pool) + 1
  PROVE  available' + CodecHeld' + 1 = available + CodecHeld
<1> DEFINE pool == available'
           held == CodecHeld'
           queue == Len(tx_buffer_pool)'
<1>1. /\ pool \in Nat /\ held \in Nat /\ queue \in Nat
      /\ pool + held + queue = PoolSize
  BY DEF HeldFacts
<1>2. queue = Len(tx_buffer_pool) + 1
  OBVIOUS
<1> HIDE DEF pool, held, queue
<1>3. /\ available \in Nat /\ CodecHeld \in Nat /\ Len(tx_buffer_pool) \in Nat
      /\ available + CodecHeld + Len(tx_buffer_pool) = PoolSize
  BY DEF HeldFacts
<1>4. pool + held + 1 = available + CodecHeld
  BY <1>1, <1>2, <1>3
<1>. QED BY <1>4 DEF pool, held

(* The same when no frame is handed over. *)
LEMMA BalanceAlone ==
  ASSUME HeldFacts, HeldFacts', UNCHANGED tx_buffer_pool
  PROVE  available' + CodecHeld' = available + CodecHeld
<1> DEFINE pool == available'
           held == CodecHeld'
<1>1. pool \in Nat /\ held \in Nat /\ pool + held + Len(tx_buffer_pool) = PoolSize
  BY DEF HeldFacts
<1> HIDE DEF pool, held
<1>2. /\ available \in Nat /\ CodecHeld \in Nat /\ Len(tx_buffer_pool) \in Nat
      /\ available + CodecHeld + Len(tx_buffer_pool) = PoolSize
  BY DEF HeldFacts
<1>3. pool + held = available + CodecHeld
  BY <1>1, <1>2
<1>. QED BY <1>3 DEF pool, held

(* The initial state. *)
LEMMA UseInit == Init => Buffers!Init
<1> SUFFICES ASSUME Init PROVE Buffers!Init
  OBVIOUS
<1>1. PoolSize - 2 \in Nat
  BY Sizes
<1>2. BuffersHeld - Len(tx_buffer_pool) = 2
  BY DEF Init, BuffersHeld
<1>. QED BY <1>1, <1>2 DEF Init, Buffers!Init, Buffers!Own

(* A packet comes. *)
LEMMA UseTake ==
  ASSUME IInv, HeldFacts, HeldFacts', NEW p \in Packets, Receive(p)
  PROVE  Buffers!Take
<1>1. /\ pc = "idle" /\ available > 0 /\ UNCHANGED tx_buffer_pool
      /\ pc' \in {"idle", "items"}
      /\ inflight_buffers' = inflight_buffers \/ inflight_buffers' = 0
  BY DEF Receive, Decode, RefuseShort, RefuseHeader, RefuseOptions, AcceptPacket,
         TakeSequence, DropPacket, FlushInflight, stream
<1>2. available' + CodecHeld' = available + CodecHeld
  BY <1>1, BalanceAlone
<1>3. CodecHeld' \in 2..(CodecHeld + 1)
  <2>1. CodecHeld = inflight_buffers + 2 /\ inflight_buffers \in Nat
    BY <1>1 DEF HeldFacts
  <2>2. CodecHeld' = inflight_buffers' + 2 \/ CodecHeld' = inflight_buffers' + 3
    BY <1>1 DEF HeldFacts
  <2>3. CodecHeld' \in {2, 3, inflight_buffers + 2, inflight_buffers + 3}
    BY <1>1, <2>1, <2>2
  <2>. QED BY <2>1, <2>3
<1>. QED BY <1>1, <1>2, <1>3 DEF Buffers!Take, Buffers!Own, CodecHeld

(* Something of what is kept goes back. *)
LEMMA UseRelease ==
  ASSUME IInv, HeldFacts, HeldFacts', DropItem \/ SkipPart \/ StorePart \/ FinishPacket
  PROVE  Buffers!Release
<1>1. /\ pc = "items" /\ UNCHANGED tx_buffer_pool
      /\ pc' \in {"idle", "items"}
      /\ \/ inflight_buffers' = 0
         \/ inflight_buffers' = inflight_buffers /\ pc' = "items"
         \/ inflight_buffers' = inflight_buffers + 1 /\ pc' = "idle"
  BY DEF DropItem, SkipPart, StorePart, FinishPacket, AtItem, DropPacket,
         FlushInflight, stream
<1>2. available' + CodecHeld' = available + CodecHeld
  BY <1>1, BalanceAlone
<1>3. CodecHeld' \in 2..CodecHeld
  <2>1. CodecHeld = inflight_buffers + 3 /\ inflight_buffers \in Nat
    BY <1>1 DEF HeldFacts
  <2>2. /\ pc' = "items" => CodecHeld' = inflight_buffers' + 3
        /\ pc' = "idle" => CodecHeld' = inflight_buffers' + 2
    BY <1>1 DEF HeldFacts
  <2>3. CodecHeld' \in {2, 3, inflight_buffers + 3}
    <3>1. CASE inflight_buffers' = 0
      BY <1>1, <2>2, <3>1
    <3>2. CASE inflight_buffers' = inflight_buffers /\ pc' = "items"
      BY <2>2, <3>2
    <3>3. CASE inflight_buffers' = inflight_buffers + 1 /\ pc' = "idle"
      BY <2>1, <2>2, <3>3
    <3>. QED BY <1>1, <3>1, <3>2, <3>3
  <2>. QED BY <2>1, <2>3
<1>. QED BY <1>1, <1>2, <1>3 DEF Buffers!Release, Buffers!Own, CodecHeld

(* A frame is handed to the tap writer. *)
LEMMA UseEmit ==
  ASSUME IInv, HeldFacts, HeldFacts', DeliverFrame
  PROVE  Buffers!Emit
<1>1. TypeOK /\ WorkInPacket /\ pc = "items" /\ work.pos < work.packet.size
  BY DEF IInv, DeliverFrame, AtItem
<1>2. PICK r \in Outcomes : tx_buffer_pool' = Append(tx_buffer_pool, r.frame)
  BY DEF DeliverFrame
<1>3. item \in ItemType
  BY <1>1, ItemInHand
<1>4. r.frame \in FrameType
  BY <1>1, <1>3, OutcomeTyped
<1>5. Len(tx_buffer_pool)' = Len(tx_buffer_pool) + 1
  BY <1>1, <1>2, <1>4, AppendProperties DEF TypeOK
<1>6. Kept \in Nat /\ Kept <= inflight_buffers
  BY <1>1, <1>3, GatheredTyped
<1>7. pc' = "getbuf" /\ inflight_buffers' = Kept
  BY DEF DeliverFrame
<1>8. available' + CodecHeld' + 1 = available + CodecHeld
  BY <1>5, Balance
<1>9. CodecHeld' \in 1..(CodecHeld - 1)
  <2>1. PICK k \in Nat, i \in Nat : k = Kept /\ i = inflight_buffers
    BY <1>6 DEF HeldFacts
  <2>2. CodecHeld = i + 3
    BY <1>1, <2>1 DEF HeldFacts
  <2>3. CodecHeld' = k + 2
    BY <1>7, <2>1 DEF HeldFacts
  <2>. QED BY <1>6, <2>1, <2>2, <2>3
<1>. QED BY <1>1, <1>5, <1>7, <1>8, <1>9 DEF Buffers!Emit, Buffers!Own, CodecHeld

(* The wait ends. *)
LEMMA UseGetBuffer ==
  ASSUME IInv, HeldFacts, HeldFacts', GetTxBuffer
  PROVE  Buffers!GetBuffer
<1>1. /\ pc = "getbuf" /\ pc' = "items" /\ available > 0
      /\ UNCHANGED tx_buffer_pool
      /\ inflight_buffers' = inflight_buffers \/ inflight_buffers' = 0
  BY DEF GetTxBuffer, FlushInflight, stream
<1>2. available' + CodecHeld' = available + CodecHeld
  BY <1>1, BalanceAlone
<1>3. CodecHeld' \in 2..(CodecHeld + 1)
  <2>1. CodecHeld = inflight_buffers + 2 /\ inflight_buffers \in Nat
    BY <1>1 DEF HeldFacts
  <2>2. CodecHeld' = inflight_buffers' + 2 \/ CodecHeld' = inflight_buffers' + 3
    BY <1>1 DEF HeldFacts
  <2>3. CodecHeld' \in {2, 3, inflight_buffers + 2, inflight_buffers + 3}
    BY <1>1, <2>1, <2>2
  <2>. QED BY <2>1, <2>3
<1>. QED BY <1>1, <1>2, <1>3 DEF Buffers!GetBuffer, Buffers!Own, CodecHeld

(* The tap writer has written a frame. *)
LEMMA UseWrite ==
  ASSUME IInv, HeldFacts, HeldFacts', TapWrite
  PROVE  Buffers!Write
<1>1. /\ TypeOK /\ tx_buffer_pool # <<>> /\ tx_buffer_pool' = Tail(tx_buffer_pool)
      /\ available' = available + 1
      /\ UNCHANGED <<pc, inflight_buffers>>
  BY DEF IInv, TapWrite, stream
<1>2. Len(tx_buffer_pool') = Len(tx_buffer_pool) - 1
  BY <1>1, HeadTailProperties DEF TypeOK
<1>3. Len(tx_buffer_pool') \in Nat /\ Len(tx_buffer_pool) \in Nat
      /\ available \in Nat
  BY DEF HeldFacts
<1>4. Len(tx_buffer_pool') \in 0..(Len(tx_buffer_pool) - 1)
  BY <1>2, <1>3
<1>5. CodecHeld' = CodecHeld
  BY <1>1 DEF HeldFacts
<1>6. available' + Len(tx_buffer_pool') = available + Len(tx_buffer_pool)
  BY <1>1, <1>2, <1>3
<1>. QED BY <1>1, <1>4, <1>5, <1>6 DEF Buffers!Write, CodecHeld

(* Every step of the decoder is a step of CodecBuffers. *)
LEMMA UseStep ==
  IInv /\ HeldFacts /\ HeldFacts' /\ [Next]_vars => [Buffers!Next]_Buffers!vars
<1> SUFFICES ASSUME IInv, HeldFacts, HeldFacts', [Next]_vars
             PROVE  Buffers!Next \/ UNCHANGED Buffers!vars
  BY DEF Buffers!vars
<1>1. ASSUME NEW p \in Packets, Receive(p)
      PROVE  Buffers!Next
  BY <1>1, UseTake DEF Buffers!Next
<1>2. CASE DropItem \/ SkipPart \/ StorePart \/ FinishPacket
  BY <1>2, UseRelease DEF Buffers!Next
<1>3. CASE DeliverFrame
  BY <1>3, UseEmit DEF Buffers!Next
<1>4. CASE GetTxBuffer
  BY <1>4, UseGetBuffer DEF Buffers!Next
<1>5. CASE TapWrite
  BY <1>5, UseWrite DEF Buffers!Next
<1>6. CASE UNCHANGED vars
  BY <1>6 DEF vars, stream, BuffersHeld, Buffers!vars
<1>7. CASE Spin
  BY <1>6, <1>7 DEF Spin
<1>. QED BY <1>1, <1>2, <1>3, <1>4, <1>5, <1>6, <1>7 DEF Next, DecoderStep

(* The decoder implements CodecBuffers, the specification of a codec that   *)
(* BufferPath assumes of every decoder of a daemon: it takes a buffer with *)
(* each packet and never keeps more than it was given, hands a frame on    *)
(* only while it has a buffer to fill, and gives nothing back while it     *)
(* waits for the next one.                                                 *)
THEOREM UsesBuffers == Spec => BufferUse
<1>1. Init => Buffers!Init
  BY UseInit
<1>2. IInv /\ IInv' /\ [Next]_vars => [Buffers!Next]_Buffers!vars
  BY HeldNow, HeldNext, UseStep
<1>. QED BY <1>1, <1>2, Invariant, PTL DEF Spec, BufferUse, Buffers!Spec
=============================================================================
