---------------------------- MODULE PacketEncoder ----------------------------
(***************************************************************************)
(* PacketEncoder of src/src/encoder.cpp: it packs Ethernet frames, whole   *)
(* or in parts, compressed or not, into encapsulating packets of at most   *)
(* L4MTU bytes.                                                            *)
(*                                                                         *)
(* One thread, the encoder handler of a remote node, calls encode() and    *)
(* flush().  It can be held up in one place only: _flush() hands the       *)
(* packet to the socket writer and then waits in pop_wait() for an         *)
(* available buffer.  A call is therefore cut into steps there, and at the *)
(* turns of the loop over the parts of a frame; pc says which step is      *)
(* next and resume where a call goes on after pop_wait().                  *)
(*                                                                         *)
(* Two threads share the available pool with it.  The one that reads the   *)
(* tap takes a buffer whenever there is one, reads a frame into it and     *)
(* queues it in the encoder pool, whatever the encoder is doing; the one   *)
(* that writes the socket returns the buffers of sent packets.             *)
(***************************************************************************)
EXTENDS Codec

CONSTANTS
  PacketFormat,     \* packet_format of the node
  CompressedSizes,  \* sizes that compress() may return
  PoolSize,         \* buffers in the available pool before the constructor
  Frames            \* frames [id, size] the tap interface delivers

(* compress() does not fail: a buffer is ten per cent larger than the       *)
(* largest frame, which is more than LZ4 and ZSTD need for any input.       *)
ASSUME EncoderAssumption ==
  /\ PacketFormat \in Formats
  /\ CompressedSizes \subseteq 1..BufferSize
  /\ PoolSize \in Nat /\ PoolSize >= 3
  /\ Frames \subseteq [id : Nat, size : Nat \ {0}]

VARIABLES
  tap_buffer,        \* TRUE iff the tap reader has a buffer to read into
  encoder_pool,      \* frames read and not yet taken by the encoder
  sequence,          \* sequence number of the next packet
  opt_len,           \* option headers counted into the packet header
  packet_count,      \* items in the packet
  tx_buffer,         \* the packet being filled: [size, items]
  comp_buffer,       \* TRUE iff the compression buffer is in place
  inflight_buffers,  \* ids of the frames whose raw buffers are kept
  dictionary,        \* ids of the frames the LZ4 stream refers to
  work,              \* the frame being split: [blob, pos, part]
  pc,                \* next step of the call in progress, or "idle"
  resume,            \* step after pop_wait()
  tx_buffer_pool,    \* packets for the socket writer
  available          \* buffers in the available pool

input == <<tap_buffer, encoder_pool>>
packet == <<opt_len, packet_count, tx_buffer>>
stream == <<inflight_buffers, dictionary>>
vars == <<input, sequence, packet, comp_buffer, stream, work, pc, resume,
          tx_buffer_pool, available>>

NoBuffer == [size |-> 0, items |-> <<>>]
FreshBuffer == [size |-> HeaderSize, items |-> <<>>]
NoWork == [blob |-> [frame |-> Corrupt, format |-> "NONE",
                     dictionary |-> <<>>, total |-> 0],
           pos |-> 0, part |-> 0]

-----------------------------------------------------------------------------
(* Mutant: the option header is not counted. *)
MaxPayloadSize_NoOption(size) ==
  LET overhead == size + (IF size = 0 THEN HeaderSize ELSE 0)
  IN  IF overhead >= L4MTU THEN 0 ELSE L4MTU - overhead

(* Payload that still fits behind one more option header. *)
MaxPayloadSize(size) ==
  LET overhead == size + OptionSize + (IF size = 0 THEN HeaderSize ELSE 0)
  IN  IF overhead >= L4MTU THEN 0 ELSE L4MTU - overhead

Room == MaxPayloadSize(tx_buffer.size)

(* What the frame is sent as: itself or the output of compress(). *)
Blobs(f) ==
  IF IsCompressed(PacketFormat)
  THEN [frame : {f}, format : {PacketFormat}, total : CompressedSizes,
        dictionary : {IF PacketFormat = "LZ4" THEN dictionary ELSE <<>>}]
  ELSE [frame : {f}, format : {"NONE"}, total : {f.size}, dictionary : {<<>>}]

(* One more option header and payload; opt_len counts the first only. *)
AddItem(item) ==
  /\ tx_buffer' = [size  |-> tx_buffer.size + OptionSize + item.payload_length,
                   items |-> Append(tx_buffer.items, item)]
  /\ opt_len' = IF packet_count = 0 THEN opt_len + 1 ELSE opt_len
  /\ packet_count' = packet_count + 1

(* Mutants: sequence never wraps; it wraps to 0. *)
WrappedSequence_Never == sequence
WrappedSequence_Zero == IF sequence = SeqMax THEN 0 ELSE sequence

(* The value of sequence that the packet is sent with. *)
WrappedSequence == IF sequence = SeqMax THEN 1 ELSE sequence

(* Mutant: the call goes on without waiting for a buffer. *)
SendPacket_NoWait(size, items, optlen, next) ==
  /\ tx_buffer_pool' = Append(tx_buffer_pool,
       [seq |-> WrappedSequence, fault |-> "none", opt_len |-> optlen,
        size |-> size, items |-> items])
  /\ sequence' = WrappedSequence + 1
  /\ tx_buffer' = NoBuffer
  /\ pc' = next
  /\ UNCHANGED resume

(* _flush() up to pop_wait(), of a packet that has the given content. *)
SendPacket(size, items, optlen, next) ==
  /\ tx_buffer_pool' = Append(tx_buffer_pool,
       [seq |-> WrappedSequence, fault |-> "none", opt_len |-> optlen,
        size |-> size, items |-> items])
  /\ sequence' = WrappedSequence + 1
  /\ tx_buffer' = NoBuffer
  /\ pc' = "getbuf"
  /\ resume' = next

(* _flush(): a packet that has its header only is not sent. *)
FlushTx(next) ==
  /\ IF tx_buffer.size = HeaderSize
     THEN /\ pc' = next
          /\ UNCHANGED <<tx_buffer_pool, sequence, tx_buffer, resume>>
     ELSE SendPacket(tx_buffer.size, tx_buffer.items, opt_len, next)
  /\ UNCHANGED <<opt_len, packet_count>>

(* Mutant: the compressor is not reset. *)
FlushInflight_NoReset ==
  /\ inflight_buffers' = <<>>
  /\ UNCHANGED dictionary

(* _flushInflight(): raw buffers go back, the compressor starts afresh. *)
FlushInflight ==
  /\ inflight_buffers' = <<>>
  /\ dictionary' = IF inflight_buffers = <<>> THEN dictionary ELSE <<>>

-----------------------------------------------------------------------------
(* The constructor takes a buffer for compression and one for packets. *)
Init ==
  /\ tap_buffer = FALSE /\ encoder_pool = <<>>
  /\ sequence = 1
  /\ opt_len = 0 /\ packet_count = 0
  /\ tx_buffer = FreshBuffer
  /\ comp_buffer = TRUE
  /\ inflight_buffers = <<>> /\ dictionary = <<>>
  /\ work = NoWork
  /\ pc = "idle" /\ resume = "idle"
  /\ tx_buffer_pool = <<>>
  /\ available = PoolSize - 2

(* A new process: the constructor again, with new pools. *)
Construct ==
  /\ tap_buffer' = FALSE /\ encoder_pool' = <<>>
  /\ sequence' = 1
  /\ opt_len' = 0 /\ packet_count' = 0
  /\ tx_buffer' = FreshBuffer
  /\ comp_buffer' = TRUE
  /\ inflight_buffers' = <<>> /\ dictionary' = <<>>
  /\ work' = NoWork
  /\ pc' = "idle" /\ resume' = "idle"
  /\ tx_buffer_pool' = <<>>
  /\ available' = PoolSize - 2

(* tunnel_tap_read_handler: pop_wait() returns, whatever the encoder does. *)
TapPop ==
  /\ ~tap_buffer /\ available > 0
  /\ tap_buffer' = TRUE
  /\ available' = available - 1
  /\ UNCHANGED <<encoder_pool, sequence, packet, comp_buffer, stream, work, pc,
                 resume, tx_buffer_pool>>

(* A frame is read and queued for this node. *)
ReadFrame(f) ==
  /\ tap_buffer
  /\ tap_buffer' = FALSE
  /\ encoder_pool' = Append(encoder_pool, f)
  /\ UNCHANGED <<sequence, packet, comp_buffer, stream, work, pc, resume,
                 tx_buffer_pool, available>>

(* encode() of a frame above the L2MTU: its buffer goes straight back.     *)
RefuseFrame(f) ==
  /\ pc = "idle"
  /\ f.size > L2MTU
  /\ available' = available + 1
  /\ UNCHANGED <<sequence, packet, comp_buffer, stream, work, pc, resume,
                 tx_buffer_pool>>

(* encode() up to the choice between a whole and a split frame.  The raw   *)
(* buffer stays in flight while the compressor may refer to it, and the    *)
(* compressed blob is in the compression buffer.                           *)
StartFrame(f) ==
  /\ pc = "idle"
  /\ f.size <= L2MTU
  /\ IF IsCompressed(PacketFormat)
     THEN /\ comp_buffer' = FALSE
          /\ inflight_buffers' = Append(inflight_buffers, f.id)
          /\ dictionary' = Learn(dictionary, PacketFormat, f)
     ELSE UNCHANGED <<comp_buffer, stream>>
  /\ UNCHANGED <<sequence, resume, tx_buffer_pool, available>>

EncodeComplete(f) ==
  /\ StartFrame(f)
  /\ \E blob \in Blobs(f) :
       /\ blob.total <= Room
       /\ AddItem(Item("COMPLETE", 0, blob, 0, blob.total))
       /\ work' = [blob |-> blob, pos |-> blob.total, part |-> 0]
  /\ pc' = "tail"

EncodePartial(f) ==
  /\ StartFrame(f)
  /\ \E blob \in Blobs(f) :
       /\ blob.total > Room
       /\ work' = [blob |-> blob, pos |-> 0, part |-> 1]
  /\ pc' = "part"
  /\ UNCHANGED packet

Encode(f) == RefuseFrame(f) \/ EncodeComplete(f) \/ EncodePartial(f)

(* _tunnel_encoder_handler: the next frame of those it got. *)
EncodeFrame ==
  /\ encoder_pool # <<>>
  /\ Encode(Head(encoder_pool))
  /\ encoder_pool' = Tail(encoder_pool)
  /\ UNCHANGED tap_buffer

(* Mutant: once a full packet is sent the same part is due again. *)
EncodePart_Again ==
  /\ pc = "part"
  /\ work.pos < work.blob.total
  /\ LET left == work.blob.total - work.pos
         len  == IF left > Room THEN Room ELSE left
         type == IF left = len THEN "PARTIAL_COMPLETE" ELSE "PARTIAL"
         item == Item(type, work.part, work.blob, work.pos, len)
         size == tx_buffer.size + OptionSize + len
     IN  IF size = L4MTU
         THEN /\ SendPacket(size, Append(tx_buffer.items, item),
                            IF packet_count = 0 THEN opt_len + 1 ELSE opt_len,
                            "part")
              /\ UNCHANGED <<work, opt_len, packet_count>>
         ELSE /\ work' = [work EXCEPT !.pos = @ + len, !.part = @ + 1]
              /\ AddItem(item)
              /\ UNCHANGED <<sequence, pc, resume, tx_buffer_pool>>
  /\ UNCHANGED <<input, comp_buffer, stream, available>>

(* One turn of the loop over the parts; a full packet is sent at once. *)
EncodePart ==
  /\ pc = "part"
  /\ work.pos < work.blob.total
  /\ LET left == work.blob.total - work.pos
         len  == IF left > Room THEN Room ELSE left
         type == IF left = len THEN "PARTIAL_COMPLETE" ELSE "PARTIAL"
         item == Item(type, work.part, work.blob, work.pos, len)
         size == tx_buffer.size + OptionSize + len
     IN  /\ work' = [blob |-> work.blob, pos |-> work.pos + len,
                      part |-> work.part + 1]
         /\ IF size = L4MTU
            THEN /\ SendPacket(size, Append(tx_buffer.items, item),
                               IF packet_count = 0 THEN opt_len + 1 ELSE opt_len,
                               "part")
                 /\ UNCHANGED <<opt_len, packet_count>>
            ELSE /\ AddItem(item)
                 /\ UNCHANGED <<sequence, pc, resume, tx_buffer_pool>>
  /\ UNCHANGED <<input, comp_buffer, stream, available>>

(* After the last part the compressor starts afresh. *)
EndParts ==
  /\ pc = "part"
  /\ work.pos = work.blob.total
  /\ FlushInflight
  /\ available' = available + Len(inflight_buffers)
  /\ pc' = "tail"
  /\ UNCHANGED <<input, sequence, packet, comp_buffer, work, resume,
                 tx_buffer_pool>>

(* Mutant: the buffer goes back and is kept for compression as well. *)
ReleaseBlob_Twice(pool) ==
  /\ work' = NoWork
  /\ comp_buffer' = TRUE
  /\ available' = pool + 1

(* The buffer of the blob becomes the compression buffer if that is        *)
(* missing, and goes back to the pool otherwise.                           *)
ReleaseBlob(pool) ==
  /\ work' = NoWork
  /\ comp_buffer' = TRUE
  /\ available' = IF comp_buffer THEN pool + 1 ELSE pool

(* The end of encode(): a packet without room for more is sent. *)
EncodeTail ==
  /\ pc = "tail"
  /\ IF Room < FlushReserve
     THEN /\ FlushTx("finish")
          /\ UNCHANGED <<work, comp_buffer, available>>
     ELSE /\ ReleaseBlob(available)
          /\ pc' = "idle"
          /\ UNCHANGED <<sequence, packet, resume, tx_buffer_pool>>
  /\ UNCHANGED <<input, stream>>

EncodeFinish ==
  /\ pc = "finish"
  /\ FlushInflight
  /\ ReleaseBlob(available + Len(inflight_buffers))
  /\ pc' = "idle"
  /\ UNCHANGED <<input, sequence, packet, resume, tx_buffer_pool>>

(* flush(), which the handler calls when no frame came within the timeout;  *)
(* one that is queued as wait_for() expires does not keep it from it.      *)
Flush ==
  /\ pc = "idle"
  /\ FlushTx("flushed")
  /\ UNCHANGED <<input, comp_buffer, stream, work, available>>

(* Mutant: what is in flight stays when the packet is gone. *)
EndFlush_KeepInflight ==
  /\ pc = "flushed"
  /\ pc' = "idle"
  /\ UNCHANGED <<input, sequence, packet, comp_buffer, stream, work, resume,
                 tx_buffer_pool, available>>

EndFlush ==
  /\ pc = "flushed"
  /\ FlushInflight
  /\ available' = available + Len(inflight_buffers)
  /\ pc' = "idle"
  /\ UNCHANGED <<input, sequence, packet, comp_buffer, work, resume,
                 tx_buffer_pool>>

(* _getTxBuffer(): pop_wait() returns, the new packet has its header only. *)
GetTxBuffer ==
  /\ pc = "getbuf"
  /\ available > 0
  /\ available' = available - 1
  /\ tx_buffer' = FreshBuffer
  /\ opt_len' = 0 /\ packet_count' = 0
  /\ pc' = resume /\ resume' = "idle"
  /\ UNCHANGED <<input, sequence, comp_buffer, stream, work, tx_buffer_pool>>

(* _socket_write_handler: a packet is sent and its buffer goes back. *)
SocketWrite ==
  /\ tx_buffer_pool # <<>>
  /\ tx_buffer_pool' = Tail(tx_buffer_pool)
  /\ available' = available + 1
  /\ UNCHANGED <<input, sequence, packet, comp_buffer, stream, work, pc, resume>>

(* The steps of a call, without and with the return of pop_wait(). *)
CallStep == EncodePart \/ EndParts \/ EncodeTail \/ EncodeFinish \/ EndFlush

EncoderStep == CallStep \/ GetTxBuffer

Next ==
  \/ TapPop
  \/ \E f \in Frames : ReadFrame(f)
  \/ EncodeFrame
  \/ EncoderStep
  \/ Flush
  \/ SocketWrite

Spec == Init /\ [][Next]_vars

(* A thread that can run does run.  Nothing says that pop_wait() returns,   *)
(* for the other threads may have all the buffers.                         *)
FairSpec == Spec /\ WF_vars(CallStep)

-----------------------------------------------------------------------------
FrameType == [id : Nat, size : Nat]
BlobType == [frame : FrameType, format : Formats, total : Nat,
             dictionary : Seq(Nat)]
ItemType == [type : ItemTypes, part : Nat, format : Formats,
             packet_size : Nat, payload_length : Nat, blob : BlobType,
             pos : Nat]
PacketType == [seq : Nat, fault : {"none"}, opt_len : Nat, size : Nat,
               items : Seq(ItemType)]

TypeOK ==
  /\ tap_buffer \in BOOLEAN /\ encoder_pool \in Seq(FrameType)
  /\ sequence \in 1..SeqMax
  /\ opt_len \in Nat /\ packet_count \in Nat
  /\ tx_buffer \in [size : Nat, items : Seq(ItemType)]
  /\ comp_buffer \in BOOLEAN
  /\ inflight_buffers \in Seq(Nat) /\ dictionary \in Seq(Nat)
  /\ work \in [blob : BlobType, pos : Nat, part : Nat]
  /\ pc \in {"idle", "part", "tail", "finish", "flushed", "getbuf"}
  /\ resume \in {"idle", "part", "finish", "flushed"}
  /\ tx_buffer_pool \in Seq(PacketType)
  /\ available \in Nat

(* Every packet handed to the socket writer fits the path (encoder.cpp     *)
(* adds parts up to exactly l4mtu), holds at least one item and announces  *)
(* exactly one option header, which is all the decoder accepts.            *)
PacketsFit ==
  /\ tx_buffer.size <= L4MTU
  /\ \A i \in DOMAIN tx_buffer_pool :
       LET p == tx_buffer_pool[i]
       IN  p.size \in (HeaderSize + OptionSize)..L4MTU /\ p.opt_len = 1

(* The loop over the parts makes progress: whenever another part is due    *)
(* there is room for at least one byte of it, so no empty part is sent and *)
(* the loop cannot spin on a packet that is never exactly full.            *)
RoomForPart ==
  pc = "part" /\ work.pos < work.blob.total => Room > 0

(* After flush() or a full packet has left a packet with its header only,  *)
(* no raw buffer is kept and the compressor has no memory: the handler     *)
(* stops timing out then, so nothing would ever release them.              *)
NothingStranded ==
  pc = "idle" /\ tx_buffer.size = HeaderSize =>
    inflight_buffers = <<>> /\ dictionary = <<>>

(* encoder.cpp:232: the raw buffers the compressor refers to are kept      *)
(* around; every frame in the LZ4 dictionary is still in flight.           *)
DictionaryInFlight ==
  PacketFormat = "LZ4" => dictionary = inflight_buffers

(* No buffer is lost or returned twice on any path through the encoder.    *)
TxHeld    == IF tx_buffer = NoBuffer THEN 0 ELSE 1
CompHeld  == IF comp_buffer THEN 1 ELSE 0
WorkHeld  == IF work = NoWork THEN 0 ELSE 1
QueueHeld == Len(inflight_buffers) + Len(tx_buffer_pool)
InputHeld == (IF tap_buffer THEN 1 ELSE 0) + Len(encoder_pool)

BufferConservation ==
  available + InputHeld + (TxHeld + CompHeld + WorkHeld) + QueueHeld = PoolSize

(* While _flush() waits for a buffer (encoder.cpp:64) it returns none, and  *)
(* it never sends two packets without one in between: the encoder uses the *)
(* pool as CodecBuffers says.                                              *)
Buffers == INSTANCE CodecBuffers WITH
  outside <- available + InputHeld,
  held    <- TxHeld + CompHeld + WorkHeld + Len(inflight_buffers),
  queue   <- Len(tx_buffer_pool),
  waiting <- pc = "getbuf"

BufferUse == Buffers!Spec

(* Packets leave with consecutive numbers, 1 follows SeqMax - 1, and       *)
(* SeqMax is never sent: what is_sequence_wrapping() relies on.            *)
Successor(seq) == IF seq = SeqMax - 1 THEN 1 ELSE seq + 1

SequenceContinuous ==
  /\ \A i \in DOMAIN tx_buffer_pool : tx_buffer_pool[i].seq \in 1..(SeqMax - 1)
  /\ \A i \in 1..(Len(tx_buffer_pool) - 1) :
       tx_buffer_pool[i + 1].seq = Successor(tx_buffer_pool[i].seq)

(* Every call to encode() and flush() comes to an end, unless a pop_wait()  *)
(* in it (encoder.cpp:66) never returns: there is no other place where it  *)
(* can be held up or go round for ever.  When that one returns is a matter *)
(* of all the threads at the pool, see BufferPath.                         *)
CallsReturn == (pc # "idle") ~> (pc = "idle" \/ [](pc = "getbuf"))
=============================================================================
