------------------------ MODULE PacketEncoder_proofs ------------------------
(***************************************************************************)
(* Type correctness of the packet encoder, and the invariants its runs     *)
(* check, for every MTU, pool size, set of frames and packet format.       *)
(***************************************************************************)
EXTENDS PacketEncoder, SequenceTheorems, TLAPS

(* Only frames that the tap delivers are queued. *)
InputTyped == tap_buffer \in BOOLEAN /\ encoder_pool \in Seq(Frames)

(* A queue of such frames is one that TypeOK allows. *)
LEMMA QueueTyped ==
  ASSUME NEW queue \in Seq(Frames)
  PROVE  queue \in Seq(FrameType)
<1>1. Frames \subseteq FrameType
  BY EncoderAssumption DEF FrameType
<1>. QED BY <1>1, SeqDef

(* encode() is called with the frame that is queued longest. *)
LEMMA EncodeFrameCases ==
  ASSUME InputTyped, EncodeFrame
  PROVE  /\ encoder_pool # <<>> /\ UNCHANGED tap_buffer
         /\ encoder_pool' = Tail(encoder_pool) /\ encoder_pool' \in Seq(Frames)
         /\ \E f \in Frames :
              RefuseFrame(f) \/ EncodeComplete(f) \/ EncodePartial(f)
<1>1. encoder_pool \in Seq(Frames) /\ encoder_pool # <<>>
  BY DEF InputTyped, EncodeFrame
<1>2. Head(encoder_pool) \in Frames /\ Tail(encoder_pool) \in Seq(Frames)
  BY <1>1, HeadTailProperties
<1>. QED BY <1>1, <1>2 DEF EncodeFrame, Encode

(* The tap reader and the encoder's handler keep to such a queue. *)
LEMMA InputStep == InputTyped /\ [Next]_vars => InputTyped'
<1>. SUFFICES ASSUME InputTyped, [Next]_vars PROVE InputTyped'
  OBVIOUS
<1>1. CASE TapPop
  BY <1>1 DEF TapPop, InputTyped
<1>2. ASSUME NEW f \in Frames, ReadFrame(f) PROVE InputTyped'
  BY <1>2, AppendProperties DEF ReadFrame, InputTyped
<1>3. CASE EncodeFrame
  BY <1>3, EncodeFrameCases DEF InputTyped
<1>4. CASE UNCHANGED input
  BY <1>4 DEF input, InputTyped
<1>5. CASE EncoderStep \/ Flush \/ SocketWrite \/ UNCHANGED vars
  BY <1>4, <1>5
  DEF EncoderStep, CallStep, EncodePart, EndParts, EncodeTail, EncodeFinish,
      EndFlush, GetTxBuffer, Flush, SocketWrite, vars
<1>. QED BY <1>1, <1>2, <1>3, <1>5 DEF Next

(* The codec's constants in the form the arithmetic below needs. *)
LEMMA Sizes ==
  /\ L2MTU \in Nat /\ L4MTU \in Nat /\ L4MTU >= 104
  /\ HeaderSize = 8 /\ OptionSize = 8 /\ FlushReserve = 88
  /\ SeqMax \in Nat /\ SeqMax > 2
BY SizeAssumption, SeqAssumption DEF HeaderSize, OptionSize, FlushReserve

(* What _getMaxPayloadSize() returns for a packet that has a header. *)
LEMMA MaxPayload ==
  ASSUME NEW size \in Nat
  PROVE  /\ MaxPayloadSize(size) \in Nat
         /\ size > 0 => MaxPayloadSize(size) =
              IF size + 8 >= L4MTU THEN 0 ELSE L4MTU - (size + 8)
BY Sizes DEF MaxPayloadSize

(* An option header that the encoder writes has the type of an item. *)
LEMMA ItemTyped ==
  ASSUME NEW type \in ItemTypes, NEW part \in Nat, NEW blob \in BlobType,
         NEW pos \in Nat, NEW len \in Nat
  PROVE  /\ Item(type, part, blob, pos, len) \in ItemType
         /\ Item(type, part, blob, pos, len).payload_length = len
BY DEF Item, ItemType, BlobType, FrameType

(* A blob is never empty and stays the blob of its frame. *)
LEMMA BlobTyped ==
  ASSUME TypeOK, NEW f \in Frames, NEW blob \in Blobs(f)
  PROVE  blob \in BlobType /\ blob.total > 0
<1>1. f \in FrameType /\ f.size \in Nat \ {0}
  BY EncoderAssumption DEF FrameType
<1>2. CompressedSizes \subseteq Nat \ {0}
  BY EncoderAssumption, SizeAssumption
<1>3. PacketFormat \in Formats /\ "NONE" \in Formats
  BY EncoderAssumption DEF Formats
<1>4. dictionary \in Seq(Nat) /\ <<>> \in Seq(Nat)
  BY DEF TypeOK
<1>5. CASE IsCompressed(PacketFormat)
  <2>1. blob \in [frame : {f}, format : {PacketFormat}, total : CompressedSizes,
                  dictionary : {IF PacketFormat = "LZ4" THEN dictionary ELSE <<>>}]
    BY <1>5 DEF Blobs
  <2>2. blob \in [frame : FrameType, format : Formats, total : Nat \ {0},
                  dictionary : Seq(Nat)]
    BY <2>1, <1>1, <1>2, <1>3, <1>4
  <2>. QED BY <2>2 DEF BlobType
<1>6. CASE ~IsCompressed(PacketFormat)
  <2>1. blob \in [frame : {f}, format : {"NONE"}, total : {f.size},
                  dictionary : {<<>>}]
    BY <1>6 DEF Blobs
  <2>2. blob \in [frame : FrameType, format : Formats, total : Nat \ {0},
                  dictionary : Seq(Nat)]
    BY <2>1, <1>1, <1>3, <1>4
  <2>. QED BY <2>2 DEF BlobType
<1>. QED BY <1>5, <1>6

(* What is handed to the socket writer is a packet. *)
LEMMA PacketTyped ==
  ASSUME TypeOK, NEW size \in Nat, NEW items \in Seq(ItemType),
         NEW optlen \in Nat, NEW next \in {"part", "finish", "flushed"},
         SendPacket(size, items, optlen, next)
  PROVE  /\ sequence' \in 1..SeqMax
         /\ tx_buffer' \in [size : Nat, items : Seq(ItemType)]
         /\ tx_buffer_pool' \in Seq(PacketType)
         /\ pc' = "getbuf" /\ resume' = next
<1>1. WrappedSequence \in 1..(SeqMax - 1)
  BY Sizes DEF WrappedSequence, TypeOK
<1>2. [seq |-> WrappedSequence, fault |-> "none", opt_len |-> optlen,
       size |-> size, items |-> items] \in PacketType
  BY <1>1 DEF PacketType
<1>3. tx_buffer_pool' \in Seq(PacketType)
  BY <1>2, AppendProperties DEF SendPacket, TypeOK
<1>4. sequence' \in 1..SeqMax
  BY <1>1, Sizes DEF SendPacket
<1>5. tx_buffer' \in [size : Nat, items : Seq(ItemType)]
  BY DEF SendPacket, NoBuffer
<1>. QED BY <1>3, <1>4, <1>5 DEF SendPacket

(* An item may be added to the packet whatever its length. *)
LEMMA AddItemTyped ==
  ASSUME TypeOK, NEW i \in ItemType, AddItem(i)
  PROVE  /\ tx_buffer' \in [size : Nat, items : Seq(ItemType)]
         /\ opt_len' \in Nat /\ packet_count' \in Nat
<1>1. i.payload_length \in Nat /\ OptionSize \in Nat
  BY Sizes DEF ItemType
<1>2. tx_buffer.size \in Nat /\ tx_buffer.items \in Seq(ItemType)
  BY DEF TypeOK
<1>3. Append(tx_buffer.items, i) \in Seq(ItemType)
  BY <1>2, AppendProperties
<1>4. tx_buffer.size + OptionSize + i.payload_length \in Nat
  BY <1>1, <1>2
<1>5. tx_buffer' \in [size : Nat, items : Seq(ItemType)]
  BY <1>3, <1>4 DEF AddItem
<1>6. opt_len' \in Nat /\ packet_count' \in Nat
  BY DEF AddItem, TypeOK
<1>. QED BY <1>5, <1>6

(* _flushInflight() leaves sequences of frame ids. *)
LEMMA FlushInflightTyped ==
  ASSUME TypeOK, FlushInflight
  PROVE  inflight_buffers' = <<>> /\ dictionary' \in Seq(Nat)
         /\ inflight_buffers' \in Seq(Nat) /\ Len(inflight_buffers) \in Nat
BY LenProperties DEF FlushInflight, TypeOK

(* No frame in hand is a value of work as well. *)
LEMMA NoWorkTyped == NoWork \in [blob : BlobType, pos : Nat, part : Nat]
<1>1. [frame |-> Corrupt, format |-> "NONE", dictionary |-> <<>>, total |-> 0]
        \in BlobType
  BY DEF BlobType, FrameType, Corrupt, Formats
<1>. QED BY <1>1 DEF NoWork

(* The parts of encode() that every frame within the L2MTU goes through. *)
LEMMA StartFrameTyped ==
  ASSUME TypeOK, NEW f \in Frames, StartFrame(f)
  PROVE  /\ comp_buffer' \in BOOLEAN
         /\ inflight_buffers' \in Seq(Nat) /\ dictionary' \in Seq(Nat)
         /\ available' \in Nat
         /\ UNCHANGED <<sequence, resume, tx_buffer_pool>>
<1>1. f.id \in Nat
  BY EncoderAssumption
<1>2. Append(inflight_buffers, f.id) \in Seq(Nat)
      /\ Append(dictionary, f.id) \in Seq(Nat)
  BY <1>1, AppendProperties DEF TypeOK
<1>3. available' \in Nat
  BY DEF StartFrame, TypeOK
<1>. QED BY <1>2, <1>3 DEF StartFrame, TypeOK, Learn, stream

(* encode() of a frame that fits behind what the packet holds. *)
LEMMA EncodeCompleteTyped ==
  ASSUME TypeOK, InputTyped', NEW f \in Frames, EncodeComplete(f)
  PROVE  TypeOK'
<1>1. PICK blob \in Blobs(f) :
        /\ AddItem(Item("COMPLETE", 0, blob, 0, blob.total))
        /\ work' = [blob |-> blob, pos |-> blob.total, part |-> 0]
  BY DEF EncodeComplete
<1>2. blob \in BlobType /\ blob.total \in Nat
  BY BlobTyped DEF BlobType
<1>3. Item("COMPLETE", 0, blob, 0, blob.total) \in ItemType
  BY <1>2, ItemTyped DEF ItemTypes
<1>4. /\ tx_buffer' \in [size : Nat, items : Seq(ItemType)]
      /\ opt_len' \in Nat /\ packet_count' \in Nat
  BY <1>1, <1>3, AddItemTyped
<1>5. work' \in [blob : BlobType, pos : Nat, part : Nat]
  BY <1>1, <1>2
<1>6. StartFrame(f) /\ pc' = "tail"
  BY DEF EncodeComplete
<1>7. /\ comp_buffer' \in BOOLEAN
      /\ inflight_buffers' \in Seq(Nat) /\ dictionary' \in Seq(Nat)
      /\ available' \in Nat
      /\ UNCHANGED <<sequence, resume, tx_buffer_pool>>
  BY <1>6, StartFrameTyped
<1>. QED BY <1>4, <1>5, <1>6, <1>7, QueueTyped DEF InputTyped, TypeOK

(* encode() of a frame that has to be split. *)
LEMMA EncodePartialTyped ==
  ASSUME TypeOK, InputTyped', NEW f \in Frames, EncodePartial(f)
  PROVE  TypeOK'
<1>1. PICK blob \in Blobs(f) : work' = [blob |-> blob, pos |-> 0, part |-> 1]
  BY DEF EncodePartial
<1>2. work' \in [blob : BlobType, pos : Nat, part : Nat]
  BY <1>1, BlobTyped
<1>3. /\ StartFrame(f) /\ pc' = "part"
      /\ UNCHANGED <<opt_len, packet_count, tx_buffer>>
  BY DEF EncodePartial, packet
<1>4. /\ comp_buffer' \in BOOLEAN
      /\ inflight_buffers' \in Seq(Nat) /\ dictionary' \in Seq(Nat)
      /\ available' \in Nat
      /\ UNCHANGED <<sequence, resume, tx_buffer_pool>>
  BY <1>3, StartFrameTyped
<1>. QED BY <1>2, <1>3, <1>4, QueueTyped DEF InputTyped, TypeOK

(* The part that one turn of the loop adds, and the packet with it. *)
PartLen ==
  LET left == work.blob.total - work.pos IN IF left > Room THEN Room ELSE left

PartItem ==
  Item(IF work.blob.total - work.pos = PartLen
       THEN "PARTIAL_COMPLETE" ELSE "PARTIAL",
       work.part, work.blob, work.pos, PartLen)

(* The item of one part is an item. *)
LEMMA PartTyped ==
  ASSUME TypeOK, work.pos < work.blob.total
  PROVE  /\ PartLen \in Nat /\ PartLen <= work.blob.total - work.pos
         /\ PartItem \in ItemType /\ PartItem.payload_length = PartLen
<1>1. /\ work.blob \in BlobType /\ work.pos \in Nat /\ work.part \in Nat
      /\ tx_buffer.size \in Nat
  BY DEF TypeOK
<1>2. work.blob.total \in Nat
  BY <1>1 DEF BlobType
<1>3. Room \in Nat
  BY <1>1, MaxPayload DEF Room
<1>4. PartLen \in Nat /\ PartLen <= work.blob.total - work.pos
  BY <1>1, <1>2, <1>3 DEF PartLen
<1>5. (IF work.blob.total - work.pos = PartLen
       THEN "PARTIAL_COMPLETE" ELSE "PARTIAL") \in ItemTypes
  BY DEF ItemTypes
<1>6. PartItem \in ItemType /\ PartItem.payload_length = PartLen
  BY <1>1, <1>4, <1>5, ItemTyped DEF PartItem
<1>. QED BY <1>4, <1>6

(* One turn of the loop over the parts keeps the types. *)
LEMMA EncodePartTyped ==
  ASSUME TypeOK, InputTyped', EncodePart
  PROVE  TypeOK'
<1>1. /\ pc = "part" /\ work.pos < work.blob.total
      /\ work' = [blob |-> work.blob, pos |-> work.pos + PartLen,
                part |-> work.part + 1]
      /\ UNCHANGED <<comp_buffer, inflight_buffers, dictionary, available>>
  BY DEF EncodePart, PartLen, stream
<1>2. PartLen \in Nat /\ PartItem \in ItemType
  BY <1>1, PartTyped
<1>3. work' \in [blob : BlobType, pos : Nat, part : Nat]
  BY <1>1, <1>2 DEF TypeOK
<1>4. CASE tx_buffer.size + OptionSize + PartLen = L4MTU
  <2>1. /\ SendPacket(tx_buffer.size + OptionSize + PartLen,
                      Append(tx_buffer.items, PartItem),
                      IF packet_count = 0 THEN opt_len + 1 ELSE opt_len, "part")
        /\ UNCHANGED <<opt_len, packet_count>>
    BY <1>4 DEF EncodePart, PartLen, PartItem
  <2>2. Append(tx_buffer.items, PartItem) \in Seq(ItemType)
    BY <1>2, AppendProperties DEF TypeOK
  <2>3. (IF packet_count = 0 THEN opt_len + 1 ELSE opt_len) \in Nat
    BY DEF TypeOK
  <2>4. tx_buffer.size + OptionSize + PartLen \in Nat
    BY <1>4, Sizes
  <2>5. /\ sequence' \in 1..SeqMax
        /\ tx_buffer' \in [size : Nat, items : Seq(ItemType)]
        /\ tx_buffer_pool' \in Seq(PacketType)
        /\ pc' = "getbuf" /\ resume' = "part"
    BY <2>1, <2>2, <2>3, <2>4, PacketTyped
  <2>. QED BY <1>1, <1>3, <2>1, <2>5, QueueTyped DEF InputTyped, TypeOK
<1>5. CASE tx_buffer.size + OptionSize + PartLen # L4MTU
  <2>1. /\ AddItem(PartItem)
        /\ UNCHANGED <<sequence, pc, resume, tx_buffer_pool>>
    BY <1>5 DEF EncodePart, PartLen, PartItem
  <2>2. /\ tx_buffer' \in [size : Nat, items : Seq(ItemType)]
        /\ opt_len' \in Nat /\ packet_count' \in Nat
    BY <2>1, <1>2, AddItemTyped
  <2>. QED BY <1>1, <1>3, <2>1, <2>2, QueueTyped DEF InputTyped, TypeOK
<1>. QED BY <1>4, <1>5

(* _flush() of whatever the packet holds. *)
LEMMA FlushTxTyped ==
  ASSUME TypeOK, NEW next \in {"part", "finish", "flushed"}, FlushTx(next)
  PROVE  /\ sequence' \in 1..SeqMax
         /\ opt_len' \in Nat /\ packet_count' \in Nat
         /\ tx_buffer' \in [size : Nat, items : Seq(ItemType)]
         /\ tx_buffer_pool' \in Seq(PacketType)
         /\ pc' \in {next, "getbuf"}
         /\ resume' \in {"idle", "part", "finish", "flushed"}
<1>1. CASE tx_buffer.size = HeaderSize
  BY <1>1 DEF FlushTx, TypeOK
<1>2. CASE tx_buffer.size # HeaderSize
  <2>1. /\ SendPacket(tx_buffer.size, tx_buffer.items, opt_len, next)
        /\ UNCHANGED <<opt_len, packet_count>>
    BY <1>2 DEF FlushTx
  <2>2. tx_buffer.size \in Nat /\ tx_buffer.items \in Seq(ItemType)
        /\ opt_len \in Nat /\ packet_count \in Nat
    BY DEF TypeOK
  <2>. QED BY <2>1, <2>2, PacketTyped
<1>. QED BY <1>1, <1>2

(* The buffer of the blob is given back. *)
LEMMA ReleaseBlobTyped ==
  ASSUME NEW pool \in Nat, ReleaseBlob(pool)
  PROVE  /\ work' \in [blob : BlobType, pos : Nat, part : Nat]
         /\ comp_buffer' \in BOOLEAN /\ available' \in Nat
BY NoWorkTyped DEF ReleaseBlob

(* Every step keeps the types. *)
LEMMA TypeStep == TypeOK /\ InputTyped /\ [Next]_vars => TypeOK'
<1>. SUFFICES ASSUME TypeOK, InputTyped, [Next]_vars PROVE TypeOK'
  OBVIOUS
<1>. USE DEF input, packet, stream
<1>0. /\ InputTyped'
      /\ tap_buffer' \in BOOLEAN /\ encoder_pool' \in Seq(FrameType)
  BY InputStep, QueueTyped DEF InputTyped
<1>1. ASSUME NEW f \in Frames, RefuseFrame(f)
      PROVE  TypeOK'
  BY <1>0, <1>1 DEF RefuseFrame, TypeOK
<1>2. ASSUME NEW f \in Frames, EncodeComplete(f)
      PROVE  TypeOK'
  BY <1>0, <1>2, EncodeCompleteTyped
<1>3. ASSUME NEW f \in Frames, EncodePartial(f)
      PROVE  TypeOK'
  BY <1>0, <1>3, EncodePartialTyped
<1>4. CASE EncodePart
  BY <1>0, <1>4, EncodePartTyped
<1>5. CASE EndParts
  <2>1. FlushInflight
    BY <1>5 DEF EndParts
  <2>. QED BY <1>0, <1>5, <2>1, FlushInflightTyped DEF EndParts, TypeOK
<1>6. CASE EncodeTail
  <2>1. CASE Room < FlushReserve
    <3>1. FlushTx("finish") /\ UNCHANGED <<work, comp_buffer, available, stream>>
      BY <1>6, <2>1 DEF EncodeTail
    <3>. QED BY <1>0, <3>1, FlushTxTyped DEF TypeOK
  <2>2. CASE ~(Room < FlushReserve)
    <3>1. /\ ReleaseBlob(available) /\ pc' = "idle"
          /\ UNCHANGED <<sequence, packet, stream, resume, tx_buffer_pool>>
      BY <1>6, <2>2 DEF EncodeTail
    <3>2. available \in Nat
      BY DEF TypeOK
    <3>. QED BY <1>0, <3>1, <3>2, ReleaseBlobTyped DEF TypeOK
  <2>. QED BY <2>1, <2>2
<1>7. CASE EncodeFinish
  <2>1. FlushInflight /\ ReleaseBlob(available + Len(inflight_buffers))
    BY <1>7 DEF EncodeFinish
  <2>2. Len(inflight_buffers) \in Nat /\ inflight_buffers' \in Seq(Nat)
        /\ dictionary' \in Seq(Nat)
    BY <2>1, FlushInflightTyped
  <2>3. available + Len(inflight_buffers) \in Nat
    BY <2>2 DEF TypeOK
  <2>. QED BY <1>0, <1>7, <2>1, <2>2, <2>3, ReleaseBlobTyped DEF EncodeFinish, TypeOK
<1>8. CASE Flush
  <2>1. FlushTx("flushed") /\ UNCHANGED <<comp_buffer, stream, work, available>>
    BY <1>8 DEF Flush
  <2>. QED BY <1>0, <2>1, FlushTxTyped DEF TypeOK
<1>9. CASE EndFlush
  <2>1. FlushInflight
    BY <1>9 DEF EndFlush
  <2>. QED BY <1>0, <1>9, <2>1, FlushInflightTyped DEF EndFlush, TypeOK
<1>10. CASE GetTxBuffer
  <2>1. FreshBuffer \in [size : Nat, items : Seq(ItemType)]
    BY Sizes DEF FreshBuffer
  <2>. QED BY <1>0, <1>10, <2>1 DEF GetTxBuffer, TypeOK
<1>11. CASE SocketWrite
  <2>1. Tail(tx_buffer_pool) \in Seq(PacketType)
    BY <1>11 DEF SocketWrite, TypeOK
  <2>. QED BY <1>0, <1>11, <2>1 DEF SocketWrite, TypeOK
<1>12. CASE UNCHANGED vars
  BY <1>12 DEF vars, TypeOK
<1>13. CASE TapPop
  BY <1>0, <1>13 DEF TapPop, TypeOK
<1>14. CASE \E f \in Frames : ReadFrame(f)
  BY <1>0, <1>14 DEF ReadFrame, TypeOK
<1>15. CASE EncodeFrame
  BY <1>1, <1>2, <1>3, <1>15, EncodeFrameCases
<1>. QED
  BY <1>4, <1>5, <1>6, <1>7, <1>8, <1>9, <1>10, <1>11, <1>12, <1>13, <1>14, <1>15
  DEF Next, EncoderStep, CallStep

(* The constructor establishes the types. *)
LEMMA TypeInit == Init => TypeOK
<1>1. FreshBuffer \in [size : Nat, items : Seq(ItemType)]
  BY Sizes DEF FreshBuffer
<1>2. PoolSize - 2 \in Nat
  BY EncoderAssumption
<1>3. Init => /\ tap_buffer \in BOOLEAN /\ encoder_pool \in Seq(FrameType)
              /\ inflight_buffers \in Seq(Nat) /\ dictionary \in Seq(Nat)
              /\ tx_buffer_pool \in Seq(PacketType)
  BY EmptySeq DEF Init
<1>. QED BY <1>1, <1>2, <1>3, NoWorkTyped, Sizes DEF Init, TypeOK

(* Type correctness of the encoder: every step of encode() and flush()     *)
(* leaves sequence numbers below the wrap, sizes that are not negative and *)
(* well formed items, whatever the frames, MTUs and pool size are.         *)
THEOREM TypeCorrect == Spec => []TypeOK
<1>1. Init => InputTyped
  BY EmptySeq DEF Init, InputTyped
<1>. QED BY <1>1, TypeInit, TypeStep, InputStep, PTL DEF Spec

-----------------------------------------------------------------------------
(* The inductive invariant.  What the safety properties leave out is how   *)
(* pc, the packet and the frame in hand belong together.                   *)

(* A call is in the middle of encode(), between its blob and ReleaseBlob.  *)
Working ==
  \/ pc \in {"part", "tail", "finish"}
  \/ pc = "getbuf" /\ resume \in {"part", "finish"}

(* The packet has its header only, or at least one item and one option.    *)
PacketShape ==
  /\ pc = "getbuf" => tx_buffer = NoBuffer /\ resume # "idle"
  /\ pc # "getbuf" => tx_buffer.size >= HeaderSize /\ resume = "idle"
  /\ tx_buffer.size = HeaderSize => packet_count = 0 /\ opt_len = 0
  /\ tx_buffer.size > HeaderSize =>
       tx_buffer.size >= HeaderSize + OptionSize /\ packet_count > 0 /\ opt_len = 1
  /\ pc \in {"finish", "flushed"} => tx_buffer.size = HeaderSize

(* There is a blob, which is never empty, exactly while a call has one.    *)
WorkInHand ==
  /\ Working => work.blob.total > 0
  /\ ~Working => work = NoWork /\ comp_buffer
  /\ pc = "part" => work.pos <= work.blob.total
  /\ pc = "getbuf" /\ resume = "part" => work.pos <= work.blob.total

(* A packet is sent before its room falls below the reserve, so there is   *)
(* that much room whenever a frame or another part of it is to be added.   *)
RoomKept ==
  pc = "idle" \/ (pc = "part" /\ work.pos < work.blob.total) =>
    Room >= FlushReserve

(* The compressor remembers the frames in flight, and none of them once    *)
(* their packet is gone.                                                   *)
StreamKept ==
  /\ dictionary = IF PacketFormat = "LZ4" THEN inflight_buffers ELSE <<>>
  /\ pc \in {"idle", "tail"} /\ tx_buffer.size = HeaderSize =>
       inflight_buffers = <<>>

(* The next packet continues the sequence of those not yet written.        *)
SequenceKept ==
  tx_buffer_pool # <<>> =>
    WrappedSequence = Successor(tx_buffer_pool[Len(tx_buffer_pool)].seq)

IInv ==
  /\ TypeOK
  /\ InputTyped
  /\ PacketShape
  /\ WorkInHand
  /\ RoomKept
  /\ StreamKept
  /\ SequenceKept
  /\ PacketsFit
  /\ SequenceContinuous
  /\ BufferConservation

(* The constructor establishes the inductive invariant. *)
LEMMA InvInit == Init => IInv
<1>. SUFFICES ASSUME Init PROVE IInv
  OBVIOUS
<1>1. TypeOK /\ InputTyped
  BY TypeInit, EmptySeq DEF Init, InputTyped
<1>2. PacketShape
  BY Sizes DEF Init, PacketShape, FreshBuffer
<1>3. WorkInHand
  BY DEF Init, WorkInHand, Working
<1>4. RoomKept
  BY Sizes, MaxPayload DEF Init, RoomKept, Room, FreshBuffer
<1>5. StreamKept
  BY DEF Init, StreamKept
<1>6. SequenceKept /\ SequenceContinuous
  BY DEF Init, SequenceKept, SequenceContinuous
<1>7. PacketsFit
  BY Sizes DEF Init, PacketsFit, FreshBuffer
<1>8. BufferConservation
  BY EncoderAssumption, Sizes
  DEF Init, BufferConservation, TxHeld, CompHeld, WorkHeld, QueueHeld,
      InputHeld, FreshBuffer, NoBuffer
<1>. QED BY <1>1, <1>2, <1>3, <1>4, <1>5, <1>6, <1>7, <1>8 DEF IInv

(* The room in a packet that has been started, and the one that is left    *)
(* when its last part is added: a part that leaves room is the last one.   *)
LEMMA PartFits ==
  ASSUME IInv, pc = "part", work.pos < work.blob.total
  PROVE  /\ tx_buffer.size >= HeaderSize
         /\ PartLen > 0
         /\ tx_buffer.size + OptionSize + PartLen <= L4MTU
         /\ tx_buffer.size + OptionSize + PartLen < L4MTU =>
              work.pos + PartLen = work.blob.total
         /\ work.pos + PartLen <= work.blob.total
<1>1. tx_buffer.size \in Nat /\ work.pos \in Nat /\ work.blob.total \in Nat
  BY DEF IInv, TypeOK, BlobType
<1>2. tx_buffer.size >= HeaderSize
  BY DEF IInv, PacketShape
<1>3. Room >= 88 /\ Room \in Nat
  BY <1>1, Sizes, MaxPayload DEF IInv, RoomKept, Room
<1>4. Room = L4MTU - (tx_buffer.size + 8)
  BY <1>1, <1>2, <1>3, Sizes, MaxPayload DEF Room
<1>. QED BY <1>1, <1>2, <1>3, <1>4, Sizes DEF PartLen

(* A frame is sent whole only if it fits. *)
LEMMA WholeFits ==
  ASSUME IInv, pc = "idle", NEW total \in Nat, total > 0, total <= Room
  PROVE  /\ tx_buffer.size >= HeaderSize
         /\ tx_buffer.size + OptionSize + total <= L4MTU
<1>1. tx_buffer.size \in Nat
  BY DEF IInv, TypeOK
<1>2. tx_buffer.size >= HeaderSize
  BY DEF IInv, PacketShape
<1>3. Room = IF tx_buffer.size + 8 >= L4MTU THEN 0
             ELSE L4MTU - (tx_buffer.size + 8)
  BY <1>1, <1>2, Sizes, MaxPayload DEF Room
<1>. QED BY <1>1, <1>2, <1>3, Sizes

(* What _flush() does to the packet, and when it sends one. *)
LEMMA FlushTxCases ==
  ASSUME IInv, pc # "getbuf", NEW next, FlushTx(next)
  PROVE  /\ UNCHANGED <<opt_len, packet_count>>
         /\ \/ /\ tx_buffer.size = HeaderSize
               /\ pc' = next
               /\ UNCHANGED <<tx_buffer_pool, sequence, tx_buffer, resume>>
            \/ /\ tx_buffer.size > HeaderSize
               /\ SendPacket(tx_buffer.size, tx_buffer.items, opt_len, next)
<1>1. tx_buffer.size \in Nat /\ tx_buffer.size >= HeaderSize
  BY DEF IInv, TypeOK, PacketShape
<1>. QED BY <1>1, Sizes DEF FlushTx

(* What one turn of the loop over the parts does to the packet. *)
LEMMA EncodePartCases ==
  ASSUME EncodePart
  PROVE  /\ pc = "part" /\ work.pos < work.blob.total
         /\ work' = [blob |-> work.blob, pos |-> work.pos + PartLen,
                     part |-> work.part + 1]
         /\ UNCHANGED <<comp_buffer, inflight_buffers, dictionary, available>>
         /\ \/ /\ tx_buffer.size + OptionSize + PartLen = L4MTU
               /\ SendPacket(tx_buffer.size + OptionSize + PartLen,
                             Append(tx_buffer.items, PartItem),
                             IF packet_count = 0 THEN opt_len + 1 ELSE opt_len,
                             "part")
               /\ UNCHANGED <<opt_len, packet_count>>
            \/ /\ tx_buffer.size + OptionSize + PartLen # L4MTU
               /\ AddItem(PartItem)
               /\ UNCHANGED <<sequence, pc, resume, tx_buffer_pool>>
BY DEF EncodePart, PartLen, PartItem, stream

(* An item with a payload is added to a packet that has room for it. *)
LEMMA AddItemShape ==
  ASSUME IInv, pc # "getbuf", NEW i \in ItemType, i.payload_length > 0,
         tx_buffer.size + OptionSize + i.payload_length <= L4MTU, AddItem(i)
  PROVE  /\ tx_buffer'.size = tx_buffer.size + OptionSize + i.payload_length
         /\ tx_buffer'.size > HeaderSize + OptionSize /\ tx_buffer'.size <= L4MTU
         /\ packet_count' > 0 /\ opt_len' = 1
<1>1. /\ tx_buffer.size \in Nat /\ tx_buffer.size >= HeaderSize
      /\ packet_count \in Nat /\ i.payload_length \in Nat
      /\ tx_buffer.size = HeaderSize => packet_count = 0 /\ opt_len = 0
      /\ tx_buffer.size > HeaderSize => packet_count > 0 /\ opt_len = 1
  BY DEF IInv, TypeOK, PacketShape, ItemType
<1>2. tx_buffer'.size = tx_buffer.size + OptionSize + i.payload_length
  BY DEF AddItem
<1>3. packet_count' > 0 /\ opt_len' = 1
  BY <1>1, Sizes DEF AddItem
<1>. QED BY <1>1, <1>2, <1>3, Sizes

(* The packet being filled is, after every step, absent, its header only,  *)
(* or a header and at least one item.                                      *)
LEMMA ShapeStep == IInv /\ [Next]_vars => PacketShape'
<1>. SUFFICES ASSUME IInv, [Next]_vars PROVE PacketShape'
  OBVIOUS
<1>. USE DEF packet
<1>0. tx_buffer.size \in Nat
  BY DEF IInv, TypeOK
<1>1. ASSUME NEW f \in Frames, RefuseFrame(f)
      PROVE  PacketShape'
  BY <1>1 DEF IInv, RefuseFrame, PacketShape
<1>2. ASSUME NEW f \in Frames, EncodeComplete(f)
      PROVE  PacketShape'
  <2>1. PICK blob \in Blobs(f) :
          /\ blob.total <= Room
          /\ AddItem(Item("COMPLETE", 0, blob, 0, blob.total))
    BY <1>2 DEF EncodeComplete
  <2>2. blob \in BlobType /\ blob.total \in Nat /\ blob.total > 0
    BY BlobTyped DEF BlobType, IInv
  <2>3. /\ Item("COMPLETE", 0, blob, 0, blob.total) \in ItemType
        /\ Item("COMPLETE", 0, blob, 0, blob.total).payload_length = blob.total
    BY <2>2, ItemTyped DEF ItemTypes
  <2>4. pc = "idle" /\ pc' = "tail" /\ resume' = resume
    BY <1>2 DEF EncodeComplete, StartFrame
  <2>5. tx_buffer.size + OptionSize + blob.total <= L4MTU
    BY <2>1, <2>2, <2>4, WholeFits
  <2>6. /\ tx_buffer'.size > HeaderSize + OptionSize
        /\ packet_count' > 0 /\ opt_len' = 1
    BY <2>1, <2>3, <2>4, <2>5, <2>2, AddItemShape
  <2>7. resume' = "idle" /\ tx_buffer'.size \in Nat
    BY <2>1, <2>3, <2>4, AddItemTyped DEF IInv, PacketShape
  <2>. QED BY <2>4, <2>6, <2>7, Sizes DEF PacketShape
<1>3. ASSUME NEW f \in Frames, EncodePartial(f)
      PROVE  PacketShape'
  BY <1>3 DEF IInv, EncodePartial, StartFrame, PacketShape
<1>4. CASE EncodePart
  <2>1. /\ PartLen \in Nat /\ PartItem \in ItemType
        /\ PartItem.payload_length = PartLen /\ PartLen > 0
        /\ tx_buffer.size + OptionSize + PartLen <= L4MTU
        /\ pc = "part"
    BY <1>4, EncodePartCases, PartTyped, PartFits DEF IInv
  <2>2. CASE AddItem(PartItem) /\ UNCHANGED <<pc, resume>>
    <3>1. /\ tx_buffer'.size > HeaderSize + OptionSize
          /\ packet_count' > 0 /\ opt_len' = 1
      BY <2>1, <2>2, AddItemShape
    <3>2. tx_buffer'.size \in Nat /\ resume' = "idle" /\ pc' = "part"
      BY <2>1, <2>2, AddItemTyped DEF IInv, PacketShape
    <3>. QED BY <3>1, <3>2, Sizes DEF PacketShape
  <2>3. CASE tx_buffer' = NoBuffer /\ pc' = "getbuf" /\ resume' = "part"
    BY <2>3, Sizes DEF PacketShape, NoBuffer
  <2>. QED BY <1>4, <2>2, <2>3, EncodePartCases DEF SendPacket
<1>5. CASE EndParts
  BY <1>5 DEF IInv, EndParts, PacketShape
<1>6. CASE EncodeTail
  <2>1. CASE FlushTx("finish")
    <3>1. pc = "tail"
      BY <1>6 DEF EncodeTail
    <3>2. CASE /\ tx_buffer.size = HeaderSize /\ pc' = "finish"
               /\ UNCHANGED <<tx_buffer, resume, opt_len, packet_count>>
      BY <3>1, <3>2, Sizes DEF IInv, PacketShape
    <3>3. CASE tx_buffer' = NoBuffer /\ pc' = "getbuf" /\ resume' = "finish"
      BY <3>3, Sizes DEF PacketShape, NoBuffer
    <3>. QED BY <2>1, <3>1, <3>2, <3>3, FlushTxCases DEF SendPacket
  <2>2. CASE pc' = "idle" /\ UNCHANGED <<packet, resume>>
    BY <1>6, <2>2 DEF IInv, EncodeTail, PacketShape
  <2>. QED BY <1>6, <2>1, <2>2 DEF EncodeTail
<1>7. CASE EncodeFinish
  BY <1>7 DEF IInv, EncodeFinish, PacketShape
<1>8. CASE Flush
  <2>1. pc = "idle" /\ FlushTx("flushed")
    BY <1>8 DEF Flush
  <2>2. CASE /\ tx_buffer.size = HeaderSize /\ pc' = "flushed"
             /\ UNCHANGED <<tx_buffer, resume, opt_len, packet_count>>
    BY <2>1, <2>2, Sizes DEF IInv, PacketShape
  <2>3. CASE tx_buffer' = NoBuffer /\ pc' = "getbuf" /\ resume' = "flushed"
    BY <2>3, Sizes DEF PacketShape, NoBuffer
  <2>. QED BY <2>1, <2>2, <2>3, FlushTxCases DEF SendPacket
<1>9. CASE EndFlush
  BY <1>9 DEF IInv, EndFlush, PacketShape
<1>10. CASE GetTxBuffer
  <2>1. resume \in {"part", "finish", "flushed"}
    BY <1>10 DEF GetTxBuffer, IInv, PacketShape, TypeOK
  <2>. QED BY <1>10, <2>1, Sizes DEF GetTxBuffer, PacketShape, FreshBuffer
<1>11. CASE SocketWrite
  BY <1>11 DEF IInv, SocketWrite, PacketShape
<1>12. CASE UNCHANGED vars
  BY <1>12 DEF IInv, vars, PacketShape
<1>13. CASE TapPop \/ \E f \in Frames : ReadFrame(f)
  BY <1>13 DEF IInv, TapPop, ReadFrame, PacketShape
<1>14. CASE EncodeFrame
  BY <1>1, <1>2, <1>3, <1>14, EncodeFrameCases DEF IInv
<1>. QED
  BY <1>4, <1>5, <1>6, <1>7, <1>8, <1>9, <1>10, <1>11, <1>12, <1>13, <1>14
  DEF Next, EncoderStep, CallStep

(* No frame in hand has no bytes to send. *)
LEMMA NoWorkTotal == NoWork.blob.total = 0
BY DEF NoWork

(* encode() has a blob that is not empty from StartFrame on.                *)
LEMMA WorkStep == IInv /\ [Next]_vars => WorkInHand'
<1>. SUFFICES ASSUME IInv, [Next]_vars PROVE WorkInHand'
  OBVIOUS
<1>. USE DEF packet
<1>0. /\ TypeOK /\ PacketShape /\ WorkInHand
      /\ pc \in {"idle", "part", "tail", "finish", "flushed", "getbuf"}
  BY DEF IInv, TypeOK
<1>1. ASSUME NEW f \in Frames, RefuseFrame(f)
      PROVE  WorkInHand'
  BY <1>0, <1>1 DEF RefuseFrame, WorkInHand, Working
<1>2. ASSUME NEW f \in Frames, EncodeComplete(f)
      PROVE  WorkInHand'
  <2>1. PICK blob \in Blobs(f) :
          work' = [blob |-> blob, pos |-> blob.total, part |-> 0]
    BY <1>2 DEF EncodeComplete
  <2>2. work'.blob.total > 0
    BY <1>0, <2>1, BlobTyped
  <2>. QED BY <1>2, <2>2 DEF EncodeComplete, WorkInHand, Working
<1>3. ASSUME NEW f \in Frames, EncodePartial(f)
      PROVE  WorkInHand'
  <2>1. PICK blob \in Blobs(f) : work' = [blob |-> blob, pos |-> 0, part |-> 1]
    BY <1>3 DEF EncodePartial
  <2>2. work'.blob.total > 0 /\ work'.pos = 0 /\ work'.blob.total \in Nat
    BY <1>0, <2>1, BlobTyped DEF BlobType
  <2>. QED BY <1>3, <2>2 DEF EncodePartial, WorkInHand, Working
<1>4. CASE EncodePart
  <2>1. /\ pc = "part" /\ work'.blob = work.blob
        /\ work'.pos = work.pos + PartLen
        /\ pc' = "part" \/ (pc' = "getbuf" /\ resume' = "part")
    BY <1>4, EncodePartCases DEF SendPacket
  <2>2. work'.pos <= work'.blob.total
    BY <1>4, <2>1, PartFits, EncodePartCases
  <2>. QED BY <1>0, <2>1, <2>2 DEF WorkInHand, Working
<1>5. CASE EndParts
  BY <1>0, <1>5 DEF EndParts, WorkInHand, Working
<1>6. CASE EncodeTail
  <2>1. CASE FlushTx("finish") /\ UNCHANGED <<work, comp_buffer>>
    <3>1. pc = "tail"
      BY <1>6 DEF EncodeTail
    <3>2. pc' = "finish" \/ (pc' = "getbuf" /\ resume' = "finish")
      BY <2>1, <3>1, FlushTxCases DEF SendPacket
    <3>. QED BY <1>0, <2>1, <3>1, <3>2 DEF WorkInHand, Working
  <2>2. CASE ReleaseBlob(available) /\ pc' = "idle"
    BY <2>2 DEF ReleaseBlob, WorkInHand, Working
  <2>. QED BY <1>6, <2>1, <2>2 DEF EncodeTail
<1>7. CASE EncodeFinish
  BY <1>7 DEF EncodeFinish, ReleaseBlob, WorkInHand, Working
<1>8. CASE Flush
  <2>1. pc = "idle" /\ FlushTx("flushed") /\ UNCHANGED <<work, comp_buffer>>
    BY <1>8 DEF Flush
  <2>2. pc' = "flushed" \/ (pc' = "getbuf" /\ resume' = "flushed")
    BY <2>1, FlushTxCases DEF SendPacket
  <2>. QED BY <1>0, <2>1, <2>2 DEF WorkInHand, Working
<1>9. CASE EndFlush
  BY <1>0, <1>9 DEF EndFlush, WorkInHand, Working
<1>10. CASE GetTxBuffer
  <2>1. resume \in {"part", "finish", "flushed"}
    BY <1>0, <1>10 DEF GetTxBuffer, PacketShape, TypeOK
  <2>. QED BY <1>0, <1>10, <2>1 DEF GetTxBuffer, WorkInHand, Working
<1>11. CASE SocketWrite
  BY <1>0, <1>11 DEF SocketWrite, WorkInHand, Working
<1>12. CASE UNCHANGED vars
  BY <1>0, <1>12 DEF vars, WorkInHand, Working
<1>13. CASE TapPop \/ \E f \in Frames : ReadFrame(f)
  BY <1>0, <1>13 DEF TapPop, ReadFrame, WorkInHand, Working
<1>14. CASE EncodeFrame
  BY <1>1, <1>2, <1>3, <1>14, EncodeFrameCases DEF IInv
<1>. QED
  BY <1>4, <1>5, <1>6, <1>7, <1>8, <1>9, <1>10, <1>11, <1>12, <1>13, <1>14
  DEF Next, EncoderStep, CallStep

(* A packet with its header only has more room than the reserve. *)
LEMMA FreshRoom == MaxPayloadSize(HeaderSize) >= FlushReserve
BY Sizes, MaxPayload

(* The room that the end of encode() reserves lasts until the next part.   *)
LEMMA RoomStep == IInv /\ [Next]_vars => RoomKept'
<1>. SUFFICES ASSUME IInv, [Next]_vars, pc' \in {"idle", "part"},
                     pc' = "part" => work'.pos < work'.blob.total
              PROVE  MaxPayloadSize(tx_buffer'.size) >= FlushReserve
  BY DEF RoomKept, Room
<1>. USE DEF packet
<1>0. TypeOK /\ PacketShape /\ RoomKept
  BY DEF IInv
<1>1. CASE \E f \in Frames : RefuseFrame(f)
  BY <1>0, <1>1 DEF RefuseFrame, RoomKept, Room
<1>2. CASE \E f \in Frames : EncodeComplete(f)
  BY <1>2 DEF EncodeComplete
<1>3. CASE \E f \in Frames : EncodePartial(f)
  BY <1>0, <1>3 DEF EncodePartial, StartFrame, RoomKept, Room
<1>4. CASE EncodePart
  <2>1. /\ pc = "part" /\ work.pos < work.blob.total
        /\ work'.pos = work.pos + PartLen /\ work'.blob = work.blob
    BY <1>4, EncodePartCases
  <2>2. tx_buffer.size + OptionSize + PartLen # L4MTU
    BY <1>4, EncodePartCases DEF SendPacket
  <2>3. PartLen \in Nat /\ tx_buffer.size \in Nat
    BY <1>0, <2>1, PartTyped DEF TypeOK
  <2>4. work.pos + PartLen = work.blob.total
    BY <2>1, <2>2, <2>3, PartFits, Sizes
  <2>5. work'.pos < work'.blob.total /\ work'.pos \in Nat
    BY <1>4, <2>1, <2>3, EncodePartCases DEF SendPacket, TypeOK, IInv
  <2>. QED BY <2>1, <2>4, <2>5
<1>5. CASE EndParts
  BY <1>5 DEF EndParts
<1>6. CASE EncodeTail
  <2>1. CASE FlushTx("finish") /\ pc = "tail"
    BY <2>1, FlushTxCases DEF SendPacket
  <2>2. CASE ~(Room < FlushReserve) /\ UNCHANGED packet
    <3>1. tx_buffer.size \in Nat
      BY <1>0 DEF TypeOK
    <3>2. Room \in Nat
      BY <3>1, MaxPayload DEF Room
    <3>. QED BY <2>2, <3>2, Sizes DEF Room
  <2>. QED BY <1>6, <2>1, <2>2 DEF EncodeTail
<1>7. CASE EncodeFinish
  BY <1>0, <1>7, FreshRoom DEF EncodeFinish, PacketShape
<1>8. CASE Flush
  BY <1>8, FlushTxCases DEF Flush, SendPacket
<1>9. CASE EndFlush
  BY <1>0, <1>9, FreshRoom DEF EndFlush, PacketShape
<1>10. CASE GetTxBuffer
  BY <1>10, FreshRoom DEF GetTxBuffer, FreshBuffer
<1>11. CASE SocketWrite
  BY <1>0, <1>11 DEF SocketWrite, RoomKept, Room
<1>12. CASE UNCHANGED vars
  BY <1>0, <1>12 DEF vars, RoomKept, Room
<1>13. CASE TapPop \/ \E f \in Frames : ReadFrame(f)
  BY <1>0, <1>13 DEF TapPop, ReadFrame, RoomKept, Room
<1>14. CASE EncodeFrame
  BY <1>1, <1>2, <1>3, <1>14, EncodeFrameCases DEF IInv
<1>. QED
  BY <1>4, <1>5, <1>6, <1>7, <1>8, <1>9, <1>10, <1>11, <1>12, <1>13, <1>14
  DEF Next, EncoderStep, CallStep

(* The raw buffers and the dictionary go together, and are gone with the    *)
(* last packet they were used for.                                         *)
LEMMA StreamStep == IInv /\ [Next]_vars => StreamKept'
<1>. SUFFICES ASSUME IInv, [Next]_vars PROVE StreamKept'
  OBVIOUS
<1>. USE DEF packet, stream
<1>0. TypeOK /\ PacketShape /\ StreamKept
  BY DEF IInv
<1>a. ASSUME FlushInflight PROVE StreamKept'
  BY <1>0, <1>a DEF FlushInflight, StreamKept
<1>b. ASSUME NEW f \in Frames, StartFrame(f)
      PROVE  dictionary' = IF PacketFormat = "LZ4" THEN inflight_buffers' ELSE <<>>
  BY <1>0, <1>b DEF StartFrame, Learn, IsCompressed, StreamKept
<1>1. CASE \E f \in Frames : RefuseFrame(f)
  BY <1>0, <1>1 DEF RefuseFrame, StreamKept
<1>2. ASSUME NEW f \in Frames, EncodeComplete(f)
      PROVE  StreamKept'
  <2>1. PICK blob \in Blobs(f) :
          AddItem(Item("COMPLETE", 0, blob, 0, blob.total))
    BY <1>2 DEF EncodeComplete
  <2>2. blob \in BlobType /\ blob.total \in Nat /\ blob.total > 0
    BY <1>0, BlobTyped DEF BlobType
  <2>3. Item("COMPLETE", 0, blob, 0, blob.total).payload_length = blob.total
    BY <2>2, ItemTyped DEF ItemTypes
  <2>4. tx_buffer.size \in Nat /\ tx_buffer.size >= HeaderSize
    BY <1>0, <1>2 DEF TypeOK, PacketShape, EncodeComplete, StartFrame
  <2>5. tx_buffer'.size # HeaderSize
    BY <2>1, <2>2, <2>3, <2>4, Sizes DEF AddItem
  <2>. QED BY <1>2, <1>b, <2>5 DEF EncodeComplete, StreamKept
<1>3. ASSUME NEW f \in Frames, EncodePartial(f)
      PROVE  StreamKept'
  BY <1>3, <1>b DEF EncodePartial, StreamKept
<1>4. CASE EncodePart
  BY <1>0, <1>4, EncodePartCases DEF SendPacket, StreamKept
<1>5. CASE EndParts
  BY <1>5, <1>a DEF EndParts
<1>6. CASE EncodeTail
  <2>1. CASE FlushTx("finish") /\ pc = "tail" /\ UNCHANGED stream
    BY <1>0, <2>1, FlushTxCases DEF SendPacket, StreamKept
  <2>2. CASE pc = "tail" /\ UNCHANGED <<packet, stream>>
    BY <1>0, <2>2 DEF StreamKept
  <2>. QED BY <1>6, <2>1, <2>2 DEF EncodeTail
<1>7. CASE EncodeFinish
  BY <1>7, <1>a DEF EncodeFinish
<1>8. CASE Flush
  BY <1>0, <1>8, FlushTxCases DEF Flush, SendPacket, StreamKept
<1>9. CASE EndFlush
  BY <1>9, <1>a DEF EndFlush
<1>10. CASE GetTxBuffer
  <2>1. resume \in {"part", "finish", "flushed"}
    BY <1>0, <1>10 DEF GetTxBuffer, PacketShape, TypeOK
  <2>. QED BY <1>0, <1>10, <2>1 DEF GetTxBuffer, StreamKept
<1>11. CASE SocketWrite
  BY <1>0, <1>11 DEF SocketWrite, StreamKept
<1>12. CASE UNCHANGED vars
  BY <1>0, <1>12 DEF vars, StreamKept
<1>13. CASE TapPop \/ \E f \in Frames : ReadFrame(f)
  BY <1>0, <1>13 DEF TapPop, ReadFrame, StreamKept
<1>14. CASE EncodeFrame
  BY <1>1, <1>2, <1>3, <1>14, EncodeFrameCases DEF IInv
<1>. QED
  BY <1>4, <1>5, <1>6, <1>7, <1>8, <1>9, <1>10, <1>11, <1>12, <1>13, <1>14
  DEF Next, EncoderStep, CallStep

(* A packet that is handed to the socket writer, or taken by it, leaves the *)
(* sequence of those in the pool without a gap.                            *)
LEMMA SendPacketSequence ==
  ASSUME IInv, NEW size, NEW items, NEW optlen, NEW next,
         SendPacket(size, items, optlen, next)
  PROVE  SequenceKept' /\ SequenceContinuous'
<1>. DEFINE p == [seq |-> WrappedSequence, fault |-> "none",
                  opt_len |-> optlen, size |-> size, items |-> items]
            n == Len(tx_buffer_pool)
<1>1. /\ tx_buffer_pool \in Seq(PacketType) /\ sequence \in 1..SeqMax
      /\ SequenceKept /\ SequenceContinuous
  BY DEF IInv, TypeOK
<1>2. WrappedSequence \in 1..(SeqMax - 1)
  BY <1>1, Sizes DEF WrappedSequence
<1>3. /\ tx_buffer_pool' = Append(tx_buffer_pool, p)
      /\ sequence' = WrappedSequence + 1
  BY DEF SendPacket
<1>4. /\ n \in Nat /\ Len(tx_buffer_pool') = n + 1
      /\ tx_buffer_pool'[n + 1] = p
      /\ \A i \in 1..n : tx_buffer_pool'[i] = tx_buffer_pool[i]
  BY <1>1, <1>3
<1>5. p.seq = WrappedSequence
  OBVIOUS
<1>6. SequenceKept'
  <2>1. ASSUME NEW w \in 1..(SeqMax - 1), sequence' = w + 1
        PROVE  WrappedSequence' = Successor(w)
    BY <2>1, Sizes DEF WrappedSequence, Successor
  <2>2. WrappedSequence' = Successor(WrappedSequence)
    BY <1>2, <1>3, <2>1
  <2>. QED BY <1>4, <1>5, <2>2 DEF SequenceKept
<1>7. ASSUME NEW i \in 1..(n + 1)
      PROVE  tx_buffer_pool'[i].seq \in 1..(SeqMax - 1)
  BY <1>1, <1>2, <1>4, <1>5 DEF SequenceContinuous
<1>8. ASSUME NEW i \in 1..n
      PROVE  tx_buffer_pool'[i + 1].seq = Successor(tx_buffer_pool'[i].seq)
  <2>1. CASE i = n
    <3>1. tx_buffer_pool # <<>>
      BY <1>1, <1>4
    <3>. QED BY <1>1, <1>4, <1>5, <2>1, <3>1 DEF SequenceKept
  <2>2. CASE i # n
    <3>1. i \in 1..(n - 1) /\ i + 1 \in 1..n
      BY <1>4, <2>2
    <3>. QED BY <1>1, <1>4, <3>1 DEF SequenceContinuous
  <2>. QED BY <2>1, <2>2
<1>9. DOMAIN tx_buffer_pool' = 1..(n + 1)
  BY <1>1, <1>3, <1>4
<1>. HIDE DEF p
<1>. QED BY <1>4, <1>6, <1>7, <1>8, <1>9 DEF SequenceContinuous

(* The socket writer takes the oldest packet, which leaves no gap.          *)
LEMMA SocketWriteSequence ==
  ASSUME IInv, SocketWrite
  PROVE  SequenceKept' /\ SequenceContinuous'
<1>. DEFINE n == Len(tx_buffer_pool)
<1>1. /\ tx_buffer_pool \in Seq(PacketType) /\ tx_buffer_pool # <<>>
      /\ SequenceKept /\ SequenceContinuous
      /\ tx_buffer_pool' = Tail(tx_buffer_pool) /\ sequence' = sequence
  BY DEF IInv, TypeOK, SocketWrite
<1>2. /\ n \in Nat \ {0} /\ Len(tx_buffer_pool') = n - 1
      /\ \A i \in 1..(n - 1) : tx_buffer_pool'[i] = tx_buffer_pool[i + 1]
      /\ DOMAIN tx_buffer_pool' = 1..(n - 1) /\ DOMAIN tx_buffer_pool = 1..n
  BY <1>1
<1>3. SequenceKept'
  <2>1. CASE n = 1
    <3>1. tx_buffer_pool' = <<>>
      BY <1>1, <2>1
    <3>. QED BY <3>1 DEF SequenceKept
  <2>2. CASE n > 1
    <3>1. n - 1 \in 1..(n - 1) /\ (n - 1) + 1 = n
      BY <1>2, <2>2
    <3>2. tx_buffer_pool'[n - 1] = tx_buffer_pool[n]
      BY <1>2, <3>1
    <3>. QED BY <1>1, <1>2, <3>2 DEF SequenceKept, WrappedSequence
  <2>. QED BY <1>2, <2>1, <2>2
<1>4. ASSUME NEW i \in 1..(n - 1)
      PROVE  tx_buffer_pool'[i].seq \in 1..(SeqMax - 1)
  BY <1>1, <1>2 DEF SequenceContinuous
<1>5. ASSUME NEW i \in 1..(n - 2)
      PROVE  tx_buffer_pool'[i + 1].seq = Successor(tx_buffer_pool'[i].seq)
  <2>1. i + 1 \in 1..(n - 1) /\ i \in 1..(n - 1)
    BY <1>2
  <2>2. /\ tx_buffer_pool'[i + 1] = tx_buffer_pool[(i + 1) + 1]
        /\ tx_buffer_pool'[i] = tx_buffer_pool[i + 1]
    BY <1>2, <2>1
  <2>. QED BY <1>1, <2>1, <2>2 DEF SequenceContinuous
<1>6. Len(tx_buffer_pool') - 1 = n - 2
  BY <1>2
<1>. HIDE DEF n
<1>. QED BY <1>2, <1>3, <1>4, <1>5, <1>6 DEF SequenceContinuous

(* Every step keeps the numbering without a gap. *)
LEMMA SequenceStep == IInv /\ [Next]_vars => SequenceKept' /\ SequenceContinuous'
<1>. SUFFICES ASSUME IInv, [Next]_vars
              PROVE  SequenceKept' /\ SequenceContinuous'
  OBVIOUS
<1>. USE DEF packet, stream
<1>0. SequenceKept /\ SequenceContinuous
  BY DEF IInv
<1>1. CASE UNCHANGED <<sequence, tx_buffer_pool>>
  BY <1>0, <1>1 DEF SequenceKept, SequenceContinuous, WrappedSequence
<1>2. ASSUME NEW next, pc # "getbuf", FlushTx(next)
      PROVE  SequenceKept' /\ SequenceContinuous'
  <2>1. CASE UNCHANGED <<tx_buffer_pool, sequence>>
    BY <1>1, <2>1
  <2>2. CASE SendPacket(tx_buffer.size, tx_buffer.items, opt_len, next)
    BY <2>2, SendPacketSequence
  <2>. QED BY <1>2, <2>1, <2>2, FlushTxCases
<1>3. CASE EncodePart
  BY <1>1, <1>3, EncodePartCases, SendPacketSequence
<1>4. CASE EncodeTail
  BY <1>1, <1>2, <1>4 DEF EncodeTail
<1>5. CASE Flush
  BY <1>2, <1>5 DEF Flush
<1>6. CASE SocketWrite
  BY <1>6, SocketWriteSequence
<1>7. CASE EncodeFrame \/ TapPop \/ \E f \in Frames : ReadFrame(f)
  BY <1>1, <1>7
  DEF EncodeFrame, Encode, RefuseFrame, EncodeComplete, EncodePartial,
      StartFrame, TapPop, ReadFrame
<1>8. CASE EndParts \/ EncodeFinish \/ EndFlush \/ GetTxBuffer
  BY <1>1, <1>8 DEF EndParts, EncodeFinish, EndFlush, GetTxBuffer
<1>9. CASE UNCHANGED vars
  BY <1>1, <1>9 DEF vars
<1>. QED
  BY <1>3, <1>4, <1>5, <1>6, <1>7, <1>8, <1>9 DEF Next, EncoderStep, CallStep

(* A packet is sent only when it holds an item, and no more than L4MTU. *)
LEMMA SendPacketFits ==
  ASSUME IInv, NEW size \in (HeaderSize + OptionSize)..L4MTU, NEW items,
         NEW next, SendPacket(size, items, 1, next)
  PROVE  PacketsFit'
<1>. DEFINE p == [seq |-> WrappedSequence, fault |-> "none",
                  opt_len |-> 1, size |-> size, items |-> items]
            n == Len(tx_buffer_pool)
<1>1. /\ tx_buffer_pool \in Seq(PacketType) /\ PacketsFit
      /\ tx_buffer_pool' = Append(tx_buffer_pool, p) /\ tx_buffer' = NoBuffer
  BY DEF IInv, TypeOK, SendPacket
<1>2. /\ n \in Nat /\ DOMAIN tx_buffer_pool' = 1..(n + 1)
      /\ DOMAIN tx_buffer_pool = 1..n
      /\ tx_buffer_pool'[n + 1] = p
      /\ \A i \in 1..n : tx_buffer_pool'[i] = tx_buffer_pool[i]
  BY <1>1
<1>3. ASSUME NEW i \in 1..(n + 1)
      PROVE  /\ tx_buffer_pool'[i].size \in (HeaderSize + OptionSize)..L4MTU
             /\ tx_buffer_pool'[i].opt_len = 1
  <2>1. p.size = size /\ p.opt_len = 1
    OBVIOUS
  <2>2. CASE i = n + 1
    BY <1>2, <2>1, <2>2
  <2>3. CASE i \in 1..n
    BY <1>1, <1>2, <2>3 DEF PacketsFit
  <2>. QED BY <1>2, <2>2, <2>3
<1>4. tx_buffer'.size <= L4MTU
  BY <1>1, Sizes DEF NoBuffer
<1>. HIDE DEF p, n
<1>. QED BY <1>2, <1>3, <1>4 DEF PacketsFit

(* Every step keeps the packets within the path's limit. *)
LEMMA FitStep == IInv /\ [Next]_vars => PacketsFit'
<1>. SUFFICES ASSUME IInv, [Next]_vars PROVE PacketsFit'
  OBVIOUS
<1>. USE DEF packet, stream
<1>0. TypeOK /\ PacketShape /\ PacketsFit
  BY DEF IInv
<1>1. ASSUME UNCHANGED tx_buffer_pool, tx_buffer'.size <= L4MTU
      PROVE  PacketsFit'
  BY <1>0, <1>1 DEF PacketsFit
<1>2. CASE UNCHANGED <<tx_buffer_pool, tx_buffer>>
  BY <1>0, <1>2 DEF PacketsFit
<1>3. ASSUME NEW next, pc # "getbuf", FlushTx(next)
      PROVE  PacketsFit'
  <2>1. CASE /\ tx_buffer.size > HeaderSize
             /\ SendPacket(tx_buffer.size, tx_buffer.items, opt_len, next)
    <3>1. opt_len = 1 /\ tx_buffer.size \in (HeaderSize + OptionSize)..L4MTU
      BY <1>0, <2>1, Sizes DEF TypeOK, PacketShape, PacketsFit
    <3>. QED BY <2>1, <3>1, SendPacketFits
  <2>. QED BY <1>2, <1>3, <2>1, FlushTxCases
<1>4. CASE EncodePart
  <2>1. /\ PartLen \in Nat /\ PartItem \in ItemType /\ PartLen > 0
        /\ PartItem.payload_length = PartLen /\ pc = "part"
        /\ tx_buffer.size + OptionSize + PartLen <= L4MTU
        /\ tx_buffer.size >= HeaderSize /\ tx_buffer.size \in Nat
    BY <1>0, <1>4, EncodePartCases, PartTyped, PartFits DEF TypeOK
  <2>2. CASE AddItem(PartItem) /\ UNCHANGED tx_buffer_pool
    BY <1>1, <2>1, <2>2, AddItemShape
  <2>3. CASE SendPacket(tx_buffer.size + OptionSize + PartLen,
                        Append(tx_buffer.items, PartItem),
                        IF packet_count = 0 THEN opt_len + 1 ELSE opt_len, "part")
    <3>1. (IF packet_count = 0 THEN opt_len + 1 ELSE opt_len) = 1
      BY <1>0, <2>1, Sizes DEF PacketShape, TypeOK
    <3>2. tx_buffer.size + OptionSize + PartLen \in (HeaderSize + OptionSize)..L4MTU
      BY <2>1, Sizes
    <3>. QED BY <2>3, <3>1, <3>2, SendPacketFits
  <2>. QED BY <1>4, <2>2, <2>3, EncodePartCases
<1>5. CASE EncodeTail
  BY <1>2, <1>3, <1>5 DEF EncodeTail
<1>6. CASE Flush
  BY <1>3, <1>6 DEF Flush
<1>7. CASE SocketWrite
  <2>. DEFINE n == Len(tx_buffer_pool)
  <2>1. /\ tx_buffer_pool \in Seq(PacketType) /\ tx_buffer_pool # <<>>
        /\ tx_buffer_pool' = Tail(tx_buffer_pool) /\ tx_buffer' = tx_buffer
    BY <1>0, <1>7 DEF SocketWrite, TypeOK
  <2>2. /\ n \in Nat \ {0} /\ DOMAIN tx_buffer_pool' = 1..(n - 1)
        /\ DOMAIN tx_buffer_pool = 1..n
        /\ \A i \in 1..(n - 1) : tx_buffer_pool'[i] = tx_buffer_pool[i + 1]
    BY <2>1
  <2>3. ASSUME NEW i \in 1..(n - 1)
        PROVE  /\ tx_buffer_pool'[i].size \in (HeaderSize + OptionSize)..L4MTU
               /\ tx_buffer_pool'[i].opt_len = 1
    <3>1. i + 1 \in DOMAIN tx_buffer_pool
      BY <2>2
    <3>. QED BY <1>0, <2>2, <3>1 DEF PacketsFit
  <2>4. tx_buffer'.size <= L4MTU
    BY <1>0, <2>1 DEF PacketsFit
  <2>. HIDE DEF n
  <2>. QED BY <2>2, <2>3, <2>4 DEF PacketsFit
<1>8. ASSUME NEW f \in Frames, EncodeComplete(f)
      PROVE  PacketsFit'
  <2>1. PICK blob \in Blobs(f) :
          /\ blob.total <= Room
          /\ AddItem(Item("COMPLETE", 0, blob, 0, blob.total))
    BY <1>8 DEF EncodeComplete
  <2>2. blob \in BlobType /\ blob.total \in Nat /\ blob.total > 0
    BY <1>0, BlobTyped DEF BlobType
  <2>3. /\ Item("COMPLETE", 0, blob, 0, blob.total) \in ItemType
        /\ Item("COMPLETE", 0, blob, 0, blob.total).payload_length = blob.total
    BY <2>2, ItemTyped DEF ItemTypes
  <2>4. pc = "idle" /\ UNCHANGED tx_buffer_pool
    BY <1>8 DEF EncodeComplete, StartFrame
  <2>5. tx_buffer.size + OptionSize + blob.total <= L4MTU
    BY <2>1, <2>2, <2>4, WholeFits
  <2>6. tx_buffer'.size <= L4MTU
    BY <2>1, <2>2, <2>3, <2>4, <2>5, AddItemShape
  <2>. QED BY <1>1, <2>4, <2>6
<1>9. CASE \E f \in Frames : \/ RefuseFrame(f)
                             \/ EncodePartial(f)
  BY <1>2, <1>9 DEF RefuseFrame, EncodePartial, StartFrame
<1>10. CASE EndParts \/ EncodeFinish \/ EndFlush
  BY <1>2, <1>10 DEF EndParts, EncodeFinish, EndFlush
<1>11. CASE GetTxBuffer
  BY <1>1, <1>11, Sizes DEF GetTxBuffer, FreshBuffer
<1>12. CASE UNCHANGED vars
  BY <1>2, <1>12 DEF vars
<1>13. CASE TapPop \/ \E f \in Frames : ReadFrame(f)
  BY <1>2, <1>13 DEF TapPop, ReadFrame
<1>14. CASE EncodeFrame
  BY <1>8, <1>9, <1>14, EncodeFrameCases DEF IInv
<1>. QED
  BY <1>4, <1>5, <1>6, <1>7, <1>10, <1>11, <1>12, <1>13, <1>14
  DEF Next, EncoderStep, CallStep

(* The buffers that a call to the encoder holds, and those it has not.     *)
CallHeld  == TxHeld + CompHeld + WorkHeld
Outside   == available + InputHeld

(* The numbers of buffers held in the places of the encoder are naturals.  *)
LEMMA HeldTyped ==
  ASSUME TypeOK
  PROVE  /\ TxHeld \in Nat /\ CompHeld \in Nat /\ WorkHeld \in Nat
         /\ Len(inflight_buffers) \in Nat /\ Len(tx_buffer_pool) \in Nat
         /\ available \in Nat /\ CallHeld \in Nat /\ QueueHeld \in Nat
         /\ InputHeld \in Nat /\ Outside \in Nat
<1>1. /\ Len(inflight_buffers) \in Nat /\ Len(tx_buffer_pool) \in Nat
      /\ Len(encoder_pool) \in Nat /\ available \in Nat
  BY LenProperties DEF TypeOK
<1>2. TxHeld \in Nat /\ CompHeld \in Nat /\ WorkHeld \in Nat
  BY DEF TxHeld, CompHeld, WorkHeld
<1>3. InputHeld \in Nat
  BY <1>1 DEF InputHeld
<1>. QED BY <1>1, <1>2, <1>3 DEF CallHeld, QueueHeld, Outside

(* Arithmetic: where a step moves a buffer, what one place loses another    *)
(* gains.                                                                  *)
LEMMA Conserved ==
  ASSUME IInv,
         Outside' + CallHeld' + QueueHeld' = Outside + CallHeld + QueueHeld
  PROVE  BufferConservation'
<1>1. Outside + CallHeld + QueueHeld = PoolSize
  BY DEF IInv, BufferConservation, CallHeld, Outside
<1>2. Outside' + CallHeld' + QueueHeld' = PoolSize
  BY <1>1
<1>. QED BY <1>2 DEF BufferConservation, CallHeld, Outside

(* What the tap reader has and has queued changes in its own steps only,   *)
(* and by the frame that encode() is called with.                          *)
LEMMA OutsideStep ==
  ASSUME IInv, UNCHANGED input, available' \in Nat
  PROVE  /\ InputHeld' = InputHeld /\ InputHeld \in Nat
         /\ Outside = available + InputHeld
         /\ Outside' = available' + InputHeld
         /\ Outside \in Nat /\ Outside' \in Nat
<1>1. InputHeld' = InputHeld
  BY DEF input, InputHeld
<1>. QED BY <1>1, HeldTyped DEF IInv, Outside

LEMMA OutsideTake ==
  ASSUME IInv, EncodeFrame, available' \in Nat
  PROVE  /\ InputHeld' = InputHeld - 1 /\ InputHeld \in Nat /\ InputHeld > 0
         /\ InputHeld' \in Nat /\ Outside > 0
         /\ Outside = available + InputHeld
         /\ Outside' = available' + (InputHeld - 1)
         /\ Outside \in Nat /\ Outside' \in Nat
<1>1. /\ Len(encoder_pool') = Len(encoder_pool) - 1
      /\ Len(encoder_pool) \in Nat \ {0} /\ UNCHANGED tap_buffer
  BY EncodeFrameCases DEF IInv, InputTyped
<1>2. InputHeld' = InputHeld - 1 /\ InputHeld \in Nat /\ InputHeld > 0
  BY <1>1 DEF InputHeld
<1>3. available \in Nat /\ InputHeld' \in Nat
  BY <1>2 DEF IInv, TypeOK
<1>4. Outside' = available' + (InputHeld - 1)
  BY <1>2 DEF Outside
<1>5. Outside = available + InputHeld
  BY DEF Outside
<1>6. PICK a \in Nat, b \in Nat, i \in Nat :
        a = available /\ b = available' /\ i = InputHeld
  BY <1>2, <1>3
<1>7. i > 0
  BY <1>2, <1>6
<1>8. Outside > 0 /\ Outside \in Nat
  BY <1>5, <1>6, <1>7
<1>9. Outside' \in Nat
  <2>1. Outside' = available' + InputHeld'
    BY DEF Outside
  <2>2. ASSUME NEW x \in Nat, NEW y \in Nat PROVE x + y \in Nat
    OBVIOUS
  <2>3. available' \in Nat /\ InputHeld' \in Nat
    BY <1>3
  <2>. QED BY <2>1, <2>2, <2>3
<1>. QED BY <1>2, <1>3, <1>4, <1>5, <1>8, <1>9

(* A buffer is in place while its packet is filled, and the blob is there   *)
(* while a call works on it.                                               *)
LEMMA HeldNow ==
  ASSUME IInv
  PROVE  /\ pc = "getbuf" => TxHeld = 0
         /\ pc # "getbuf" => TxHeld = 1
         /\ Working => WorkHeld = 1
         /\ ~Working => WorkHeld = 0 /\ CompHeld = 1
         /\ CallHeld = TxHeld + CompHeld + WorkHeld
         /\ QueueHeld = Len(inflight_buffers) + Len(tx_buffer_pool)
         /\ TxHeld \in Nat /\ CompHeld \in Nat /\ WorkHeld \in Nat
         /\ available \in Nat /\ CallHeld \in Nat /\ QueueHeld \in Nat
         /\ Len(inflight_buffers) \in Nat /\ Len(tx_buffer_pool) \in Nat
         /\ Outside \in Nat
<1>1. /\ TypeOK /\ PacketShape /\ WorkInHand
  BY DEF IInv
<1>2. pc # "getbuf" => tx_buffer # NoBuffer
  BY <1>1, Sizes DEF PacketShape, NoBuffer
<1>3. Working => work # NoWork
  BY <1>1, NoWorkTotal DEF WorkInHand, NoWork
<1>4. /\ pc = "getbuf" => TxHeld = 0
      /\ pc # "getbuf" => TxHeld = 1
  BY <1>1, <1>2 DEF PacketShape, TxHeld
<1>5. /\ Working => WorkHeld = 1
      /\ ~Working => WorkHeld = 0 /\ CompHeld = 1
  BY <1>1, <1>3 DEF WorkInHand, CompHeld, WorkHeld
<1>. QED BY <1>1, <1>4, <1>5, HeldTyped DEF CallHeld, QueueHeld

(* The buffer of a packet moves from the encoder to the socket writer.     *)
LEMMA SendPacketHeld ==
  ASSUME IInv, pc # "getbuf", NEW size, NEW items, NEW optlen, NEW next,
         SendPacket(size, items, optlen, next),
         CompHeld' = CompHeld, WorkHeld' = WorkHeld,
         UNCHANGED <<input, inflight_buffers, available>>
  PROVE  BufferConservation'
<1>0. Outside' = Outside
  BY OutsideStep, HeldNow
<1>1. TxHeld' = 0 /\ TxHeld = 1
  BY HeldNow DEF SendPacket, TxHeld
<1>2. Len(tx_buffer_pool') = Len(tx_buffer_pool) + 1
  BY DEF SendPacket, IInv, TypeOK
<1>3. CallHeld = CallHeld' + 1
  BY <1>1, HeldNow DEF CallHeld
<1>4. QueueHeld' = QueueHeld + 1
  BY <1>2, HeldNow DEF QueueHeld
<1>5. CallHeld' \in Nat
  BY <1>1, HeldNow DEF CallHeld
<1>. QED BY <1>0, <1>3, <1>4, <1>5, HeldNow, Conserved

(* What was in flight goes back to the pool. *)
LEMMA FlushInflightHeld ==
  ASSUME IInv, FlushInflight, UNCHANGED tx_buffer_pool
  PROVE  QueueHeld' \in Nat /\ QueueHeld = QueueHeld' + Len(inflight_buffers)
<1>1. Len(inflight_buffers') = 0
  BY DEF FlushInflight
<1>. QED BY <1>1, HeldNow DEF QueueHeld

(* The buffer of the blob goes back, or becomes the compression buffer. *)
LEMMA ReleaseBlobHeld ==
  ASSUME IInv, Working, NEW pool \in Nat, ReleaseBlob(pool), UNCHANGED tx_buffer
  PROVE  /\ available' + CallHeld' = pool + CallHeld
         /\ available' \in Nat /\ CallHeld' \in Nat
<1>1. /\ available' \in Nat /\ WorkHeld' = 0 /\ CompHeld' = 1 /\ WorkHeld = 1
      /\ available' + CompHeld' = pool + CompHeld + WorkHeld
  BY HeldNow DEF ReleaseBlob, WorkHeld, CompHeld
<1>2. TxHeld' = TxHeld
  BY DEF TxHeld
<1>3. PICK t \in Nat, c \in Nat, a \in Nat : t = TxHeld /\ c = CompHeld /\ a = available'
  BY <1>1, HeldNow
<1>4. CallHeld = t + c + 1
  BY <1>1, <1>3, HeldNow
<1>5. CallHeld' = t + 1
  BY <1>1, <1>2, <1>3 DEF CallHeld
<1>6. a + 1 = pool + c + 1
  BY <1>1, <1>3
<1>7. a + (t + 1) = pool + (t + c + 1) /\ t + 1 \in Nat
  BY <1>6
<1>8. available' \in Nat /\ CallHeld' \in Nat
  BY <1>3, <1>5, <1>7
<1>9. available' + CallHeld' = pool + CallHeld
  BY <1>3, <1>4, <1>5, <1>7
<1>. QED BY <1>8, <1>9

(* The buffer of a frame is the blob's from StartFrame on, or in flight.   *)
LEMMA StartFrameHeld ==
  ASSUME IInv, NEW f \in Frames, EncodeFrame, StartFrame(f),
         work' # NoWork, TxHeld' = TxHeld
  PROVE  BufferConservation'
<1>1. /\ pc = "idle" /\ available' = available
      /\ UNCHANGED tx_buffer_pool
  BY DEF StartFrame
<1>a. Outside' = Outside - 1
  BY <1>1, OutsideTake, HeldNow
<1>2. /\ CompHeld = 1 /\ WorkHeld = 0 /\ WorkHeld' = 1
      /\ Len(inflight_buffers) \in Nat
  BY <1>1, HeldNow DEF Working, WorkHeld
<1>3. CASE IsCompressed(PacketFormat)
  <2>1. /\ comp_buffer' = FALSE
        /\ inflight_buffers' = Append(inflight_buffers, f.id)
    BY <1>3 DEF StartFrame
  <2>2. Len(inflight_buffers') = Len(inflight_buffers) + 1
    BY <2>1 DEF IInv, TypeOK
  <2>3. CallHeld' = CallHeld
    BY <1>2, <2>1, HeldNow DEF CallHeld, CompHeld
  <2>4. QueueHeld' = QueueHeld + 1
    BY <1>1, <2>2, HeldNow DEF QueueHeld
  <2>5. PICK o \in Nat, c \in Nat, q \in Nat :
          o = Outside /\ c = CallHeld /\ q = QueueHeld
    BY HeldNow
  <2>6. (o - 1) + c + (q + 1) = o + c + q
    OBVIOUS
  <2>. QED BY <1>a, <2>3, <2>4, <2>5, <2>6, Conserved
<1>4. CASE ~IsCompressed(PacketFormat)
  <2>1. comp_buffer' = comp_buffer /\ inflight_buffers' = inflight_buffers
    BY <1>4 DEF StartFrame, stream
  <2>2. CompHeld' = CompHeld
    BY <2>1 DEF CompHeld
  <2>3. CallHeld' = CallHeld + 1
    BY <1>2, <2>2, HeldNow DEF CallHeld
  <2>4. QueueHeld' = QueueHeld
    BY <1>1, <2>1 DEF QueueHeld
  <2>5. PICK o \in Nat, c \in Nat, q \in Nat :
          o = Outside /\ c = CallHeld /\ q = QueueHeld
    BY HeldNow
  <2>6. (o - 1) + (c + 1) + q = o + c + q
    OBVIOUS
  <2>. QED BY <1>a, <2>3, <2>4, <2>5, <2>6, Conserved
<1>. QED BY <1>3, <1>4

(* The tap reader takes a buffer and queues it with a frame in it. *)
LEMMA InputMoves ==
  ASSUME IInv, TapPop \/ \E f \in Frames : ReadFrame(f)
  PROVE  /\ Outside' = Outside
         /\ UNCHANGED <<pc, tx_buffer, comp_buffer, work, inflight_buffers,
                        tx_buffer_pool>>
<1>1. /\ tap_buffer \in BOOLEAN /\ Len(encoder_pool) \in Nat
      /\ encoder_pool \in Seq(Frames) /\ available \in Nat
  BY DEF IInv, TypeOK, InputTyped
<1>2. CASE TapPop
  BY <1>1, <1>2 DEF TapPop, packet, stream, Outside, InputHeld
<1>3. ASSUME NEW f \in Frames, ReadFrame(f)
      PROVE  /\ Outside' = Outside
             /\ UNCHANGED <<pc, tx_buffer, comp_buffer, work, inflight_buffers,
                            tx_buffer_pool>>
  <2>1. Len(encoder_pool') = Len(encoder_pool) + 1
    BY <1>1, <1>3, AppendProperties DEF ReadFrame
  <2>. QED BY <1>1, <1>3, <2>1
       DEF ReadFrame, packet, stream, Outside, InputHeld
<1>. QED BY <1>2, <1>3

(* No step loses a buffer or returns one twice. *)
LEMMA ConservationStep == IInv /\ [Next]_vars => BufferConservation'
<1>. SUFFICES ASSUME IInv, [Next]_vars PROVE BufferConservation'
  OBVIOUS
<1>. USE DEF packet, stream
<1>0. TypeOK /\ PacketShape /\ PacketShape' /\ WorkInHand
  BY ShapeStep DEF IInv
<1>a. ASSUME UNCHANGED <<tx_buffer, comp_buffer, work, inflight_buffers,
                         tx_buffer_pool>>, Outside' = Outside
      PROVE  BufferConservation'
  BY <1>a, Conserved DEF CallHeld, TxHeld, CompHeld, WorkHeld, QueueHeld
<1>e. ASSUME UNCHANGED <<input, available>> PROVE Outside' = Outside
  BY <1>e, OutsideStep, HeldNow
<1>b. ASSUME NEW next, pc # "getbuf", FlushTx(next),
             UNCHANGED <<input, comp_buffer, work, inflight_buffers, available>>
      PROVE  BufferConservation'
  <2>1. CASE UNCHANGED <<tx_buffer_pool, tx_buffer>>
    BY <1>a, <1>b, <1>e, <2>1
  <2>2. CASE SendPacket(tx_buffer.size, tx_buffer.items, opt_len, next)
    <3>1. CompHeld' = CompHeld /\ WorkHeld' = WorkHeld
      BY <1>b DEF CompHeld, WorkHeld
    <3>. QED BY <1>b, <2>2, <3>1, SendPacketHeld
  <2>. QED BY <1>b, <2>1, <2>2, FlushTxCases
<1>c. ASSUME FlushInflight, available' = available + Len(inflight_buffers),
             UNCHANGED <<input, tx_buffer, comp_buffer, work, tx_buffer_pool>>
      PROVE  BufferConservation'
  <2>1. CallHeld' = CallHeld
    BY <1>c DEF CallHeld, TxHeld, CompHeld, WorkHeld
  <2>2. QueueHeld' \in Nat /\ QueueHeld = QueueHeld' + Len(inflight_buffers)
    BY <1>c, FlushInflightHeld
  <2>3. available' \in Nat
    BY <1>c, HeldNow
  <2>4. Outside' = Outside + Len(inflight_buffers)
    BY <1>c, <2>3, OutsideStep, HeldNow
  <2>. QED BY <2>1, <2>2, <2>4, HeldNow, Conserved
<1>d. ASSUME pc # "getbuf", pc' # "getbuf"
      PROVE  TxHeld' = TxHeld
  BY <1>0, <1>d, Sizes DEF PacketShape, TxHeld, NoBuffer
<1>1. ASSUME NEW f \in Frames, EncodeFrame, RefuseFrame(f)
      PROVE  BufferConservation'
  <2>1. available' = available + 1 /\ available' \in Nat
    BY <1>1, HeldNow DEF RefuseFrame
  <2>2. Outside' = Outside
    BY <1>1, <2>1, OutsideTake, HeldNow
  <2>. QED BY <1>1, <1>a, <2>2 DEF RefuseFrame
<1>2. ASSUME NEW f \in Frames, EncodeFrame, EncodeComplete(f)
      PROVE  BufferConservation'
  <2>1. PICK blob \in Blobs(f) :
          work' = [blob |-> blob, pos |-> blob.total, part |-> 0]
    BY <1>2 DEF EncodeComplete
  <2>2. work' # NoWork
    BY <1>0, <2>1, BlobTyped, NoWorkTotal DEF BlobType
  <2>3. StartFrame(f) /\ TxHeld' = TxHeld
    BY <1>2, <1>d DEF EncodeComplete, StartFrame
  <2>. QED BY <1>2, <2>2, <2>3, StartFrameHeld
<1>3. ASSUME NEW f \in Frames, EncodeFrame, EncodePartial(f)
      PROVE  BufferConservation'
  <2>1. PICK blob \in Blobs(f) : work' = [blob |-> blob, pos |-> 0, part |-> 1]
    BY <1>3 DEF EncodePartial
  <2>2. work' # NoWork
    BY <1>0, <2>1, BlobTyped, NoWorkTotal DEF BlobType
  <2>3. StartFrame(f) /\ TxHeld' = TxHeld
    BY <1>3 DEF EncodePartial, TxHeld
  <2>. QED BY <1>3, <2>2, <2>3, StartFrameHeld
<1>4. CASE EncodePart
  <2>1. /\ pc = "part" /\ work'.blob = work.blob
        /\ UNCHANGED <<input, comp_buffer, inflight_buffers, available>>
    BY <1>4, EncodePartCases DEF EncodePart
  <2>2. WorkHeld = 1 /\ WorkHeld' = 1 /\ CompHeld' = CompHeld
    <3>1. Working /\ work.blob.total > 0
      BY <1>0, <2>1 DEF Working, WorkInHand
    <3>2. work' # NoWork
      BY <1>0, <2>1, <3>1, NoWorkTotal DEF TypeOK, BlobType
    <3>. QED BY <2>1, <3>1, <3>2, HeldNow DEF WorkHeld, CompHeld
  <2>3. CASE SendPacket(tx_buffer.size + OptionSize + PartLen,
                        Append(tx_buffer.items, PartItem),
                        IF packet_count = 0 THEN opt_len + 1 ELSE opt_len, "part")
    BY <2>1, <2>2, <2>3, SendPacketHeld
  <2>4. CASE UNCHANGED <<pc, tx_buffer_pool>>
    <3>1. TxHeld' = TxHeld
      BY <1>d, <2>1, <2>4
    <3>2. CallHeld' = CallHeld /\ QueueHeld' = QueueHeld
      BY <2>1, <2>2, <2>4, <3>1 DEF CallHeld, QueueHeld
    <3>. QED BY <1>e, <2>1, <3>2, Conserved
  <2>. QED BY <1>4, <2>3, <2>4, EncodePartCases
<1>5. CASE EndParts
  BY <1>5, <1>c DEF EndParts
<1>6. CASE EncodeTail
  <2>1. CASE FlushTx("finish") /\ UNCHANGED <<work, comp_buffer, available>>
    BY <1>b, <1>6, <2>1 DEF EncodeTail
  <2>2. CASE ReleaseBlob(available) /\ UNCHANGED <<packet, tx_buffer_pool>>
    <3>1. Working /\ UNCHANGED <<input, inflight_buffers>>
      BY <1>6 DEF EncodeTail, Working
    <3>2. /\ available' + CallHeld' = available + CallHeld
          /\ available' \in Nat /\ CallHeld' \in Nat
      BY <2>2, <3>1, HeldNow, ReleaseBlobHeld
    <3>3. QueueHeld' = QueueHeld
      BY <2>2, <3>1 DEF QueueHeld
    <3>4. Outside' + CallHeld' = Outside + CallHeld
      <4>1. /\ Outside = available + InputHeld /\ Outside' = available' + InputHeld
            /\ InputHeld \in Nat
        BY <3>1, <3>2, OutsideStep
      <4>2. PICK a \in Nat, b \in Nat, i \in Nat, c \in Nat, d \in Nat :
              /\ a = available /\ b = available' /\ i = InputHeld
              /\ c = CallHeld /\ d = CallHeld'
        BY <3>2, <4>1, HeldNow
      <4>3. b + d = a + c /\ Outside = a + i /\ Outside' = b + i
        BY <3>2, <4>1, <4>2
      <4>4. (b + i) + d = (a + i) + c
        BY <4>3
      <4>. QED BY <4>2, <4>3, <4>4
    <3>. QED BY <3>3, <3>4, HeldNow, Conserved
  <2>. QED BY <1>6, <2>1, <2>2 DEF EncodeTail
<1>7. CASE EncodeFinish
  <2>1. /\ FlushInflight /\ ReleaseBlob(available + Len(inflight_buffers))
        /\ UNCHANGED <<input, tx_buffer, tx_buffer_pool>> /\ Working
    BY <1>7 DEF EncodeFinish, Working
  <2>2. available + Len(inflight_buffers) \in Nat
    BY HeldNow
  <2>3. /\ available' + CallHeld' = (available + Len(inflight_buffers)) + CallHeld
        /\ available' \in Nat /\ CallHeld' \in Nat
    BY <2>1, <2>2, ReleaseBlobHeld
  <2>4. QueueHeld' \in Nat /\ QueueHeld = QueueHeld' + Len(inflight_buffers)
    BY <2>1, FlushInflightHeld
  <2>5. Outside' + CallHeld' = Outside + Len(inflight_buffers) + CallHeld
    <3>1. PICK a \in Nat, n \in Nat, i \in Nat, c \in Nat, d \in Nat :
            /\ a = available /\ n = Len(inflight_buffers) /\ i = InputHeld
            /\ c = CallHeld /\ d = CallHeld'
      BY <2>1, <2>3, OutsideStep, HeldNow
    <3>2. Outside = a + i /\ Outside' = available' + i
      BY <2>1, <2>3, <3>1, OutsideStep
    <3>3. PICK b \in Nat : b = available'
      BY <2>3
    <3>4. b + d = (a + n) + c
      BY <2>3, <3>1, <3>3
    <3>5. (b + i) + d = (a + i) + n + c
      BY <3>4
    <3>. QED BY <3>1, <3>2, <3>3, <3>5
  <2>6. Outside' + CallHeld' + QueueHeld' = Outside + CallHeld + QueueHeld
    <3>1. PICK o \in Nat, n \in Nat, c \in Nat, q \in Nat :
            /\ o = Outside /\ n = Len(inflight_buffers)
            /\ c = CallHeld /\ q = QueueHeld'
      BY <2>4, HeldNow
    <3>. QED BY <2>4, <2>5, <3>1
  <2>. QED BY <2>6, Conserved
<1>8. CASE Flush
  BY <1>b, <1>8 DEF Flush
<1>9. CASE EndFlush
  BY <1>9, <1>c DEF EndFlush
<1>10. CASE GetTxBuffer
  <2>1. /\ pc = "getbuf" /\ available' = available - 1 /\ tx_buffer' = FreshBuffer
        /\ UNCHANGED <<input, comp_buffer, inflight_buffers, work,
                       tx_buffer_pool>>
        /\ available > 0 /\ available' \in Nat
    BY <1>10, HeldNow DEF GetTxBuffer
  <2>2. /\ TxHeld = 0 /\ TxHeld' = 1
        /\ CompHeld' = CompHeld /\ WorkHeld' = WorkHeld
    BY <2>1, HeldNow, Sizes DEF TxHeld, CompHeld, WorkHeld, FreshBuffer, NoBuffer
  <2>3. CallHeld' = CallHeld + 1 /\ QueueHeld' = QueueHeld
    BY <2>1, <2>2, HeldNow DEF CallHeld, QueueHeld
  <2>4. Outside' = Outside - 1
    BY <2>1, OutsideStep, HeldNow
  <2>5. PICK o \in Nat, c \in Nat, q \in Nat :
          o = Outside /\ c = CallHeld /\ q = QueueHeld
    BY HeldNow
  <2>6. (o - 1) + (c + 1) + q = o + c + q
    OBVIOUS
  <2>. QED BY <2>3, <2>4, <2>5, <2>6, Conserved
<1>11. CASE SocketWrite
  <2>1. /\ tx_buffer_pool # <<>> /\ tx_buffer_pool' = Tail(tx_buffer_pool)
        /\ available' = available + 1 /\ available' \in Nat
        /\ UNCHANGED <<input, tx_buffer, comp_buffer, work, inflight_buffers>>
    BY <1>11, HeldNow DEF SocketWrite
  <2>2. Len(tx_buffer_pool') = Len(tx_buffer_pool) - 1
    BY <1>0, <2>1 DEF TypeOK
  <2>3. CallHeld' = CallHeld
    BY <2>1 DEF CallHeld, TxHeld, CompHeld, WorkHeld
  <2>4. QueueHeld' = QueueHeld - 1
    BY <2>1, <2>2, HeldNow DEF QueueHeld
  <2>5. Outside' = Outside + 1
    BY <2>1, OutsideStep, HeldNow
  <2>. QED BY <2>3, <2>4, <2>5, HeldNow, Conserved
<1>12. CASE UNCHANGED vars
  BY <1>a, <1>e, <1>12 DEF vars
<1>13. CASE TapPop \/ \E f \in Frames : ReadFrame(f)
  BY <1>a, <1>13, InputMoves
<1>14. CASE EncodeFrame
  BY <1>0, <1>1, <1>2, <1>3, <1>14, EncodeFrameCases DEF IInv
<1>. QED
  BY <1>4, <1>5, <1>6, <1>7, <1>8, <1>9, <1>10, <1>11, <1>12, <1>13, <1>14
  DEF Next, EncoderStep, CallStep

(* The invariant is inductive. *)
LEMMA InvStep == IInv /\ [Next]_vars => IInv'
BY TypeStep, InputStep, ShapeStep, WorkStep, RoomStep, StreamStep, SequenceStep,
   FitStep, ConservationStep DEF IInv

(* The inductive invariant of the encoder. *)
LEMMA Invariant == Spec => []IInv
<1>. QED BY InvInit, InvStep, PTL DEF Spec

(* Every packet that _flush() hands to the socket writer fits the path and *)
(* announces the one option header the decoder accepts, for every MTU.     *)
THEOREM PacketsAlwaysFit == Spec => []PacketsFit
<1>1. IInv => PacketsFit
  BY DEF IInv
<1>. QED BY <1>1, Invariant, PTL

(* The loop over the parts never meets a packet without room (the test at  *)
(* the end of encode() keeps a reserve), so it never sends an empty part.  *)
THEOREM PartsAlwaysFit == Spec => []RoomForPart
<1>1. IInv => RoomForPart
  <2>1. IInv => Room \in Nat
    BY MaxPayload DEF IInv, TypeOK, Room
  <2>. QED BY <2>1, Sizes DEF IInv, RoomKept, RoomForPart
<1>. QED BY <1>1, Invariant, PTL

(* What the LZ4 stream refers to is still in flight (_pushInflight), so it *)
(* is never given back to the pool under the compressor.                   *)
THEOREM DictionaryAlwaysInFlight == Spec => []DictionaryInFlight
<1>1. IInv => DictionaryInFlight
  BY DEF IInv, StreamKept, DictionaryInFlight
<1>. QED BY <1>1, Invariant, PTL

(* Between calls, an empty packet means that no raw buffer is kept and the *)
(* compressor remembers nothing: flush() need not be called again.         *)
THEOREM NothingEverStranded == Spec => []NothingStranded
<1>1. IInv => NothingStranded
  BY DEF IInv, StreamKept, NothingStranded
<1>. QED BY <1>1, Invariant, PTL

(* No path through encode() and flush() loses a buffer or returns one      *)
(* twice, with any pool size and any sequence of frames.                   *)
THEOREM BuffersConserved == Spec => []BufferConservation
<1>1. IInv => BufferConservation
  BY DEF IInv
<1>. QED BY <1>1, Invariant, PTL

(* _flush() numbers packets without a gap, and never with UINT32_MAX.      *)
THEOREM SequenceAlwaysContinuous == Spec => []SequenceContinuous
<1>1. IInv => SequenceContinuous
  BY DEF IInv
<1>. QED BY <1>1, Invariant, PTL

-----------------------------------------------------------------------------
(* The encoder uses the pool as CodecBuffers says.  As no buffer is lost,   *)
(* the buffers a step moves are those the pool and the queue of the socket *)
(* writer gain or lose; what is left to show of each point of a call is    *)
(* which of its own two buffers the encoder has there.                     *)

(* The buffers of the encoder itself, as CodecBuffers counts them. *)
EncoderHeld == TxHeld + CompHeld + WorkHeld + Len(inflight_buffers)

UseFacts ==
  /\ Outside \in Nat /\ EncoderHeld \in Nat /\ Len(tx_buffer_pool) \in Nat
  /\ Outside + EncoderHeld + Len(tx_buffer_pool) = PoolSize
  /\ EncoderHeld >= 1
  /\ pc # "getbuf" => EncoderHeld >= 2

(* What the encoder holds at each point of encode() and flush(). *)
LEMMA UseNow == IInv => UseFacts
<1> SUFFICES ASSUME IInv PROVE UseFacts
  OBVIOUS
<1>1. /\ TxHeld \in Nat /\ CompHeld \in Nat /\ WorkHeld \in Nat
      /\ Len(inflight_buffers) \in Nat /\ Len(tx_buffer_pool) \in Nat
      /\ Outside \in Nat
  BY HeldTyped DEF IInv
<1>2. Outside + (TxHeld + CompHeld + WorkHeld)
        + (Len(inflight_buffers) + Len(tx_buffer_pool)) = PoolSize
  BY DEF IInv, BufferConservation, QueueHeld, Outside
<1>3. CompHeld + WorkHeld >= 1
  BY <1>1, HeldNow
<1>4. pc # "getbuf" => TxHeld = 1
  BY HeldNow
<1>. QED BY <1>1, <1>2, <1>3, <1>4 DEF UseFacts, EncoderHeld

(* The same behind a step. *)
LEMMA UseNext == IInv' => UseFacts'
BY UseNow, PTL

(* A step that hands nothing on moves buffers between pool and encoder. *)
LEMMA UseTake ==
  ASSUME UseFacts, UseFacts', pc # "getbuf", pc' # "getbuf", Outside > 0,
         UNCHANGED tx_buffer_pool,
         Outside' = Outside - 1 \/ Outside' = Outside
  PROVE  Buffers!Take
<1> DEFINE held == EncoderHeld'
<1>1. held \in Nat /\ held >= 2 /\ Outside' + held + Len(tx_buffer_pool) = PoolSize
  BY DEF UseFacts
<1> HIDE DEF held
<1>2. /\ Outside \in Nat /\ EncoderHeld \in Nat /\ Len(tx_buffer_pool) \in Nat
      /\ Outside + EncoderHeld + Len(tx_buffer_pool) = PoolSize
  BY DEF UseFacts
<1>3. held \in 2..(EncoderHeld + 1) /\ Outside' + held = Outside + EncoderHeld
  <2>1. CASE Outside' = Outside - 1
    BY <1>1, <1>2, <2>1
  <2>2. CASE Outside' = Outside
    BY <1>1, <1>2, <2>2
  <2>. QED BY <2>1, <2>2
<1>. QED BY <1>3 DEF held, EncoderHeld, Outside, Buffers!Take, Buffers!Own

(* A step may also give some of them back. *)
LEMMA UseRelease ==
  ASSUME UseFacts, UseFacts', pc # "getbuf", pc' # "getbuf",
         UNCHANGED tx_buffer_pool, NEW n \in Nat, Outside' = Outside + n
  PROVE  Buffers!Release
<1> DEFINE held == EncoderHeld'
<1>1. held \in Nat /\ held >= 2 /\ Outside' + held + Len(tx_buffer_pool) = PoolSize
  BY DEF UseFacts
<1> HIDE DEF held
<1>2. /\ Outside \in Nat /\ EncoderHeld \in Nat /\ Len(tx_buffer_pool) \in Nat
      /\ Outside + EncoderHeld + Len(tx_buffer_pool) = PoolSize
  BY DEF UseFacts
<1>3. held \in 2..EncoderHeld /\ Outside' + held = Outside + EncoderHeld
  BY <1>1, <1>2
<1>. QED BY <1>3 DEF held, EncoderHeld, Outside, Buffers!Release, Buffers!Own

(* A packet is handed to the socket writer and the encoder has to wait. *)
LEMMA UseEmit ==
  ASSUME IInv, UseFacts, UseFacts', pc # "getbuf", UNCHANGED Outside,
         NEW size, NEW items, NEW optlen, NEW next,
         SendPacket(size, items, optlen, next)
  PROVE  Buffers!Emit
<1> DEFINE held == EncoderHeld'
           queue == Len(tx_buffer_pool)'
<1>1. pc' = "getbuf" /\ queue = Len(tx_buffer_pool) + 1
  BY DEF SendPacket, IInv, TypeOK
<1>2. held \in Nat /\ held >= 1 /\ Outside + held + queue = PoolSize
  BY DEF UseFacts
<1> HIDE DEF held, queue
<1>3. /\ Outside \in Nat /\ EncoderHeld \in Nat /\ Len(tx_buffer_pool) \in Nat
      /\ Outside + EncoderHeld + Len(tx_buffer_pool) = PoolSize
  BY DEF UseFacts
<1>4. /\ held \in 1..(EncoderHeld - 1)
      /\ Outside + held + 1 = Outside + EncoderHeld
  BY <1>1, <1>2, <1>3
<1>. QED BY <1>1, <1>4 DEF held, queue, EncoderHeld, Outside, Buffers!Emit, Buffers!Own

(* A call to _flush() sends the packet or does nothing. *)
LEMMA UseFlushTx ==
  ASSUME IInv, UseFacts, UseFacts', pc # "getbuf", UNCHANGED Outside,
         NEW next \in {"part", "finish", "flushed"}, FlushTx(next)
  PROVE  Buffers!Next
<1>1. CASE pc' = next /\ UNCHANGED tx_buffer_pool
  <2>1. Outside' = Outside + 0 /\ pc' # "getbuf"
    BY <1>1 DEF UseFacts
  <2>. QED BY <1>1, <2>1, UseRelease DEF Buffers!Next
<1>2. CASE SendPacket(tx_buffer.size, tx_buffer.items, opt_len, next)
  BY <1>2, UseEmit DEF Buffers!Next
<1>. QED BY <1>1, <1>2 DEF FlushTx

(* pop_wait() returns. *)
LEMMA UseGetBuffer ==
  ASSUME IInv, UseFacts, UseFacts', GetTxBuffer
  PROVE  Buffers!GetBuffer
<1> DEFINE held == EncoderHeld'
<1>0. /\ pc = "getbuf" /\ pc' # "getbuf" /\ UNCHANGED <<input, tx_buffer_pool>>
      /\ available > 0 /\ available' = available - 1 /\ available' \in Nat
  BY DEF GetTxBuffer, IInv, TypeOK
<1>1. /\ pc = "getbuf" /\ pc' # "getbuf" /\ Outside > 0
      /\ Outside' = Outside - 1 /\ UNCHANGED tx_buffer_pool
  <2>1. /\ Outside = available + InputHeld /\ Outside' = available' + InputHeld
        /\ InputHeld \in Nat
    BY <1>0, OutsideStep
  <2>2. PICK a \in Nat, i \in Nat : a = available /\ i = InputHeld
    BY <2>1, HeldNow
  <2>3. a + i > 0 /\ (a - 1) + i = (a + i) - 1
    BY <1>0, <2>2
  <2>. QED BY <1>0, <2>1, <2>2, <2>3
<1>2. held \in Nat /\ held >= 2 /\ Outside - 1 + held + Len(tx_buffer_pool) = PoolSize
  BY <1>1 DEF UseFacts
<1> HIDE DEF held
<1>3. /\ Outside \in Nat /\ EncoderHeld \in Nat /\ Len(tx_buffer_pool) \in Nat
      /\ Outside + EncoderHeld + Len(tx_buffer_pool) = PoolSize
  BY DEF UseFacts
<1>4. held \in 2..(EncoderHeld + 1) /\ Outside - 1 + held = Outside + EncoderHeld
  BY <1>2, <1>3
<1>. QED BY <1>1, <1>4 DEF held, EncoderHeld, Outside, Buffers!GetBuffer, Buffers!Own

(* A packet is on its way and its buffer goes back. *)
LEMMA UseWrite ==
  ASSUME IInv, UseFacts, SocketWrite
  PROVE  Buffers!Write
<1>1. /\ tx_buffer_pool # <<>> /\ tx_buffer_pool' = Tail(tx_buffer_pool)
      /\ available' = available + 1 /\ available' \in Nat /\ UNCHANGED pc
      /\ UNCHANGED <<input, tx_buffer, comp_buffer, work, inflight_buffers>>
  BY HeldNow DEF SocketWrite, packet, stream
<1>a. Outside' = Outside + 1
  BY <1>1, OutsideStep, HeldNow
<1>2. Len(tx_buffer_pool') = Len(tx_buffer_pool) - 1
  BY <1>1, HeadTailProperties DEF IInv, TypeOK
<1>3. Len(tx_buffer_pool) \in Nat /\ Len(tx_buffer_pool) # 0 /\ Outside \in Nat
  BY <1>1, EmptySeq DEF UseFacts, IInv, TypeOK
<1>4. Len(tx_buffer_pool') \in 0..(Len(tx_buffer_pool) - 1)
  BY <1>2, <1>3
<1>5. Outside' + Len(tx_buffer_pool') = Outside + Len(tx_buffer_pool)
  BY <1>a, <1>2, <1>3
<1>6. UNCHANGED EncoderHeld
  BY <1>1 DEF EncoderHeld, TxHeld, CompHeld, WorkHeld
<1>. QED BY <1>1, <1>4, <1>5, <1>6 DEF Buffers!Write, EncoderHeld, Outside

(* Every step of the encoder is a step of CodecBuffers. *)
LEMMA UseStep ==
  IInv /\ UseFacts /\ UseFacts' /\ [Next]_vars => [Buffers!Next]_Buffers!vars
<1> SUFFICES ASSUME IInv, UseFacts, UseFacts', [Next]_vars
             PROVE  Buffers!Next \/ UNCHANGED Buffers!vars
  BY DEF Buffers!vars
<1>0. available \in Nat /\ Len(inflight_buffers) \in Nat
  BY HeldNow
<1>a. ASSUME NEW n \in Nat, available' = available + n, pc # "getbuf",
             pc' # "getbuf", UNCHANGED <<input, tx_buffer_pool>>
      PROVE  Buffers!Next
  <2>1. available' \in Nat
    BY <1>0, <1>a
  <2>2. Outside' = Outside + n
    BY <1>0, <1>a, <2>1, OutsideStep
  <2>. QED BY <1>a, <2>2, UseRelease DEF Buffers!Next
<1>b. ASSUME UNCHANGED <<input, available>> PROVE UNCHANGED Outside
  BY <1>0, <1>b, OutsideStep
<1>1. CASE EncodeFrame
  <2>1. /\ pc # "getbuf" /\ pc' # "getbuf" /\ UNCHANGED tx_buffer_pool
        /\ available' = available \/ available' = available + 1
    BY <1>1
    DEF EncodeFrame, Encode, RefuseFrame, EncodeComplete, EncodePartial,
        StartFrame
  <2>2. Outside > 0 /\ (Outside' = Outside - 1 \/ Outside' = Outside)
    BY <1>0, <1>1, <2>1, OutsideTake
  <2>. QED BY <2>1, <2>2, UseTake DEF Buffers!Next
<1>2. CASE EncodePart
  <2>1. pc = "part" /\ UNCHANGED <<input, available, Outside>>
    BY <1>2, <1>b, EncodePartCases DEF EncodePart
  <2>2. CASE SendPacket(tx_buffer.size + OptionSize + PartLen,
                        Append(tx_buffer.items, PartItem),
                        IF packet_count = 0 THEN opt_len + 1 ELSE opt_len, "part")
    BY <2>1, <2>2, UseEmit DEF Buffers!Next
  <2>3. CASE UNCHANGED <<pc, tx_buffer_pool>>
    <3>1. available' = available + 0
      BY <1>0, <2>1
    <3>. QED BY <1>a, <2>1, <2>3, <3>1
  <2>. QED BY <1>2, <2>2, <2>3, EncodePartCases
<1>3. CASE EndParts \/ EndFlush
  BY <1>0, <1>3, <1>a DEF EndParts, EndFlush
<1>4. CASE EncodeTail
  <2>1. CASE FlushTx("finish") /\ UNCHANGED available
    BY <1>4, <1>b, <2>1, UseFlushTx DEF EncodeTail
  <2>2. CASE ReleaseBlob(available) /\ pc' = "idle" /\ UNCHANGED tx_buffer_pool
    <3>1. available' = available + 0 \/ available' = available + 1
      BY <1>0, <2>2 DEF ReleaseBlob
    <3>. QED BY <1>4, <1>a, <2>2, <3>1 DEF EncodeTail
  <2>. QED BY <1>4, <2>1, <2>2 DEF EncodeTail
<1>5. CASE EncodeFinish
  <2>1. \/ available' = available + Len(inflight_buffers)
        \/ available' = available + (Len(inflight_buffers) + 1)
    BY <1>0, <1>5 DEF EncodeFinish, ReleaseBlob
  <2>2. Len(inflight_buffers) + 1 \in Nat
    BY <1>0
  <2>3. /\ pc # "getbuf" /\ pc' # "getbuf" /\ UNCHANGED <<input, tx_buffer_pool>>
    BY <1>5 DEF EncodeFinish
  <2>. QED BY <1>0, <1>a, <2>1, <2>2, <2>3
<1>6. CASE Flush
  BY <1>6, <1>b, UseFlushTx DEF Flush
<1>7. CASE GetTxBuffer
  BY <1>7, UseGetBuffer DEF Buffers!Next
<1>8. CASE SocketWrite
  BY <1>8, UseWrite DEF Buffers!Next
<1>9. CASE UNCHANGED vars
  BY <1>9
  DEF vars, input, packet, stream, TxHeld, CompHeld, WorkHeld, InputHeld,
      Buffers!vars
<1>10. CASE TapPop \/ \E f \in Frames : ReadFrame(f)
  BY <1>10, InputMoves
  DEF Outside, TxHeld, CompHeld, WorkHeld, Buffers!vars
<1>. QED
  BY <1>1, <1>2, <1>3, <1>4, <1>5, <1>6, <1>7, <1>8, <1>9, <1>10
  DEF Next, EncoderStep, CallStep

(* The encoder implements CodecBuffers, the specification of a codec that   *)
(* BufferPath assumes of the encoder of a daemon: _flush() hands a packet  *)
(* on only while it has a buffer to give away, and nothing goes back to    *)
(* the pool while pop_wait() keeps it waiting.                             *)
THEOREM UsesBuffers == Spec => BufferUse
<1>1. Init => Buffers!Init
  <2>1. Init => TxHeld + CompHeld + WorkHeld + Len(inflight_buffers) = 2
    <3>1. FreshBuffer # NoBuffer
      BY Sizes DEF FreshBuffer, NoBuffer
    <3>. QED BY <3>1 DEF Init, TxHeld, CompHeld, WorkHeld
  <2>2. PoolSize - 2 \in Nat
    BY EncoderAssumption
  <2>. QED BY <2>1, <2>2 DEF Init, InputHeld, Buffers!Init, Buffers!Own
<1>2. IInv /\ IInv' /\ [Next]_vars => [Buffers!Next]_Buffers!vars
  BY UseNow, UseNext, UseStep
<1>. QED BY <1>1, <1>2, Invariant, PTL DEF Spec, BufferUse, Buffers!Spec
=============================================================================
