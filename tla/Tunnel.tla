-------------------------------- MODULE Tunnel --------------------------------
(***************************************************************************)
(* One direction of the tunnel between two nodes: the tap reader and the   *)
(* encoder handler of the sending node (src/src/remote_node.cpp), its      *)
(* socket writer, the UDP network, and the decoder of the receiving node   *)
(* with its tap writer.                                                    *)
(*                                                                         *)
(* The network may lose, duplicate and reorder packets as far as Faults    *)
(* says, at most MaxFaults times; it does not alter them.  The node may    *)
(* restart: a new encoder starts, at sequence number 1, while the decoder  *)
(* of the peer keeps its state.                                            *)
(***************************************************************************)
EXTENDS Codec, Functions

CONSTANTS
  PacketFormat, CompressedSizes,  \* see PacketEncoder
  PoolSize,                       \* buffers in the pool of either node
  FrameSizes,                     \* sizes of the frames that are sent
  MaxFrames,                      \* bound: frames sent
  MaxWire,                        \* bound: packets under way
  Faults,                         \* subset of FaultKinds
  MaxFaults                       \* bound: faults that happen

FaultKinds == {"lose", "duplicate", "reorder", "restart"}

ASSUME TunnelAssumption ==
  /\ PacketFormat \in Formats
  /\ CompressedSizes \subseteq 1..BufferSize
  /\ PoolSize \in Nat /\ PoolSize >= 3
  /\ FrameSizes \subseteq 1..L2MTU
  /\ MaxFrames \in Nat /\ MaxWire \in Nat \ {0} /\ MaxFaults \in Nat
  /\ Faults \subseteq FaultKinds
  /\ SeqMax >= 5  \* else the wrap from SeqMax - 1 to 1 goes unnoticed

VARIABLES
  tap_buffer, encoder_pool, sequence, opt_len, packet_count, enc_tx_buffer,
  comp_buffer, enc_inflight, enc_dictionary, enc_work, enc_pc, resume,
  socket_write_pool, enc_available,
  timed,      \* TRUE iff the encoder handler waits for frames with a timeout
  wire,       \* packets in the network, oldest first
  first_packet, last_sequence, last_part, last_format, last_orig_packet_size,
  dec_tx_buffer, dec_inflight, dec_dictionary, dec_work, dec_pc,
  tap_write_pool, dec_available,
  faults,     \* number of faults so far
  happened,   \* kinds of the faults so far
  damaged,    \* ids of the frames of which something was lost
  taken,      \* frames that left the encoder pool, for the encoder or lost
  delivered   \* frames written to the tap of the receiver

enc_vars == <<tap_buffer, encoder_pool, sequence, opt_len, packet_count,
              enc_tx_buffer, comp_buffer, enc_inflight, enc_dictionary,
              enc_work, enc_pc, resume, socket_write_pool, enc_available>>
dec_vars == <<first_packet, last_sequence, last_part, last_format,
              last_orig_packet_size, dec_tx_buffer, dec_inflight,
              dec_dictionary, dec_work, dec_pc, tap_write_pool, dec_available>>
net_vars == <<wire, faults, happened, damaged>>
vars == <<enc_vars, timed, net_vars, dec_vars, taken, delivered>>

Enc == INSTANCE PacketEncoder WITH
  Frames <- [id : 1..MaxFrames, size : FrameSizes],
  tx_buffer <- enc_tx_buffer, inflight_buffers <- enc_inflight,
  dictionary <- enc_dictionary, work <- enc_work, pc <- enc_pc,
  tx_buffer_pool <- socket_write_pool, available <- enc_available

Dec == INSTANCE PacketDecoder WITH
  Packets <- {},
  tx_buffer <- dec_tx_buffer, inflight_buffers <- dec_inflight,
  dictionary <- dec_dictionary, work <- dec_work, pc <- dec_pc,
  tx_buffer_pool <- tap_write_pool, available <- dec_available

(* The frames read from the tap of the sender. *)
accepted == taken \o encoder_pool

-----------------------------------------------------------------------------
Init ==
  /\ Enc!Init /\ Dec!Init
  /\ timed = TRUE
  /\ wire = <<>> /\ faults = 0 /\ happened = {} /\ damaged = {}
  /\ taken = <<>> /\ delivered = <<>>

TapPop ==
  /\ Enc!TapPop
  /\ UNCHANGED <<timed, net_vars, dec_vars, taken, delivered>>

ReadFrame ==
  /\ Len(accepted) < MaxFrames
  /\ \E size \in FrameSizes :
       Enc!ReadFrame([id |-> Len(accepted) + 1, size |-> size])
  /\ UNCHANGED <<timed, net_vars, dec_vars, taken, delivered>>

(* _tunnel_encoder_handler: a frame came; from now on it waits 1 ms. *)
EncodeFrame ==
  /\ Enc!EncodeFrame
  /\ taken' = Append(taken, Head(encoder_pool))
  /\ timed' = TRUE
  /\ UNCHANGED <<net_vars, dec_vars, delivered>>

(* No frame came in time: flush, and wait for the next one without limit. *)
Timeout ==
  /\ timed
  /\ Enc!Flush
  /\ timed' = FALSE
  /\ UNCHANGED <<net_vars, dec_vars, taken, delivered>>

EncoderStep ==
  /\ Enc!EncoderStep
  /\ UNCHANGED <<timed, net_vars, dec_vars, taken, delivered>>

(* _socket_write_handler: sendto(). *)
Send ==
  /\ Len(wire) < MaxWire
  /\ Enc!SocketWrite
  /\ wire' = Append(wire, Head(socket_write_pool))
  /\ UNCHANGED <<timed, faults, happened, damaged, dec_vars, taken, delivered>>

WithoutPacket(i) == SubSeq(wire, 1, i - 1) \o SubSeq(wire, i + 1, Len(wire))

(* The oldest packet arrives and is handed to the decoder. *)
Arrive ==
  /\ wire # <<>>
  /\ Dec!Receive(Head(wire))
  /\ wire' = Tail(wire)
  /\ UNCHANGED <<enc_vars, timed, faults, happened, damaged, taken, delivered>>

Fault(kind) ==
  /\ kind \in Faults
  /\ faults < MaxFaults
  /\ faults' = faults + 1
  /\ happened' = happened \union {kind}

(* A packet overtakes older ones. *)
Overtake ==
  /\ Fault("reorder")
  /\ \E i \in 2..Len(wire) : wire' = <<wire[i]>> \o WithoutPacket(i)
  /\ UNCHANGED <<enc_vars, timed, damaged, dec_vars, taken, delivered>>

Duplicate ==
  /\ Fault("duplicate")
  /\ \E i \in DOMAIN wire : wire' = Append(wire, wire[i])
  /\ UNCHANGED <<enc_vars, timed, damaged, dec_vars, taken, delivered>>

FramesIn(p) == {p.items[i].blob.frame.id : i \in DOMAIN p.items}

Lose ==
  /\ Fault("lose")
  /\ wire # <<>>
  /\ wire' = Tail(wire)
  /\ damaged' = damaged \union FramesIn(Head(wire))
  /\ UNCHANGED <<enc_vars, timed, dec_vars, taken, delivered>>

(* Frames of which the sending node has bytes. *)
Held ==
  (UNION {FramesIn(p) : p \in {enc_tx_buffer} \union Range(socket_write_pool)})
  \union {enc_work.blob.frame.id} \union {f.id : f \in Range(encoder_pool)}

(* The process of the sending node is stopped and started again: what it   *)
(* held is gone, what was handed to sendto() is on its way.                *)
Restart ==
  /\ Fault("restart")
  /\ Enc!Construct
  /\ timed' = TRUE
  /\ damaged' = damaged \union Held
  /\ taken' = accepted
  /\ UNCHANGED <<wire, dec_vars, delivered>>

DecoderStep ==
  /\ Dec!DecoderStep
  /\ UNCHANGED <<enc_vars, timed, net_vars, taken, delivered>>

(* tunnel_tap_write_handler *)
TapWrite ==
  /\ Dec!TapWrite
  /\ delivered' = Append(delivered, Head(tap_write_pool))
  /\ UNCHANGED <<enc_vars, timed, net_vars, taken>>

Next ==
  \/ TapPop \/ ReadFrame \/ EncodeFrame \/ Timeout \/ EncoderStep \/ Send
  \/ Arrive \/ Overtake \/ Duplicate \/ Lose \/ Restart
  \/ DecoderStep \/ TapWrite

Spec == Init /\ [][Next]_vars

(* Every thread that can run does, and the timeout of the handler expires. *)
(* A pop_wait() that found the pool empty might wait for ever, see         *)
(* BufferPath: this is meant for pools that never run dry.                 *)
Fairness ==
  /\ WF_vars(EncodeFrame) /\ WF_vars(Timeout) /\ WF_vars(EncoderStep)
  /\ WF_vars(Send) /\ WF_vars(Arrive) /\ WF_vars(DecoderStep) /\ WF_vars(TapWrite)

FairSpec == Spec /\ Fairness

-----------------------------------------------------------------------------
(* The service that the faults so far leave. *)
Service ==
  IF happened = {} THEN "fifo"
  ELSE IF happened \subseteq {"lose", "restart"} THEN "ordered" ELSE "any"

Transport == INSTANCE FrameTransport WITH
  Sizes <- FrameSizes, service <- Service

(* The tunnel implements the service: until something fails every frame     *)
(* comes out, once and in order, however frames and timeouts interleave    *)
(* and also when the sequence number wraps; after losses, or after a       *)
(* restart of the sender, which begins again with number 1 and no          *)
(* dictionary, frames may be missing, but none comes out altered, again or *)
(* too late; after a duplicate or an overtaking still none is altered.     *)
(* (A loss of the very packet that follows a restart defeats the sequence  *)
(* check, as one at the wrap does: no run has both faults.)                *)
TransportSpec == Transport!Spec

(* No frame that comes out of the tunnel is made of the bytes of two, or   *)
(* decompressed with the wrong dictionary (decoder.cpp:179: "Check if      *)
(* we're in sequence if not we've lost packets").                          *)
Integrity ==
  \A i \in DOMAIN delivered :
    \E j \in DOMAIN accepted : delivered[i] = accepted[j]

(* Unless something fails, everything that was accepted comes out at last, *)
(* though the last frames do not fill a packet and nothing follows them.   *)
AllDelivered ==
  \A n \in 1..MaxFrames :
    Len(accepted) >= n ~> Len(delivered) >= n \/ faults > 0

(* A lost packet costs the frames it has bytes of, a restart those the      *)
(* sender had bytes of, and no other: when all that is left has been       *)
(* worked off, every other frame has come out.  (Packets out of order cost *)
(* the decoder more, and it may.)                                          *)
Quiescent ==
  /\ encoder_pool = <<>> /\ enc_pc = "idle" /\ ~timed /\ socket_write_pool = <<>>
  /\ wire = <<>> /\ dec_pc = "idle" /\ tap_write_pool = <<>>

DamageContained ==
  Quiescent /\ Service # "any" =>
    \A i \in DOMAIN accepted :
      i \in damaged \/ \E j \in DOMAIN delivered : delivered[j] = accepted[i]
=============================================================================
