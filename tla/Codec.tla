-------------------------------- MODULE Codec --------------------------------
(***************************************************************************)
(* The wire format that the packet encoder and the packet decoder share    *)
(* (src/src/codec.hpp), the comparison of sequence numbers                 *)
(* (src/src/util.cpp) and what the compression libraries promise.          *)
(*                                                                         *)
(* Bytes are not modelled.  A "blob" is what the encoder sends of one      *)
(* Ethernet frame: the frame itself or its compressed form.  An item       *)
(* carries the bytes pos .. pos + len - 1 of a blob, so whether a receiver *)
(* has put the right bytes together is a question about blobs, positions   *)
(* and lengths.  The frame a blob belongs to and the dictionary it was     *)
(* compressed with are not on the wire; no guard of the decoder reads      *)
(* them, only the outcome of decompression and the properties do.          *)
(***************************************************************************)
EXTENDS Integers, Sequences

CONSTANTS
  L2MTU,       \* largest Ethernet frame the tunnel accepts
  L4MTU,       \* largest UDP payload the tunnel sends
  BufferSize,  \* capacity of a packet buffer
  SeqMax       \* UINT32_MAX, the largest value of a sequence number

(* The sizes of the two headers, in bytes. *)
HeaderSize == 8
OptionSize == 8

(* Mutant: a packet is kept until it is exactly full. *)
FlushReserve_None == 0

(* Free space below which the encoder sends what it has. *)
FlushReserve == HeaderSize + 10 * OptionSize

(* The codecs keep sizes and positions in a uint16_t.                       *)
PosRange == 65536

(* main.cpp accepts a tx_size of 1200 or more, so the real L4MTU is far     *)
(* above this bound; a buffer is the L2MTU plus ten per cent, and so far    *)
(* below the last one.                                                     *)
ASSUME SizeAssumption ==
  /\ L2MTU \in Nat /\ L4MTU \in Nat /\ BufferSize \in Nat
  /\ L4MTU >= HeaderSize + OptionSize + FlushReserve
  /\ BufferSize >= L4MTU
  /\ BufferSize >= L2MTU
  /\ BufferSize + OptionSize < PosRange

ASSUME SeqAssumption == SeqMax \in Nat /\ SeqMax > 2

-----------------------------------------------------------------------------
(* PacketHeaderOptionFormatType and PacketHeaderOptionType; OTHER stands   *)
(* for the values of the format byte that have no name.                    *)
Formats      == {"NONE", "LZ4", "ZSTD"}
AnyFormat    == Formats \union {"OTHER"}
IsCompressed(format) == format \in {"LZ4", "ZSTD"}

ItemTypes    == {"COMPLETE", "PARTIAL", "PARTIAL_COMPLETE"}
IsPartial(type)  == type \in {"PARTIAL", "PARTIAL_COMPLETE"}
IsComplete(type) == type \in {"COMPLETE", "PARTIAL_COMPLETE"}

(* A frame that is read from or written to the tap interface. *)
Corrupt == [id |-> 0, size |-> 0]

(* One PacketHeaderOption and the payload behind it. *)
Item(type, part, blob, pos, len) ==
  [type |-> type, part |-> part, format |-> blob.format,
   packet_size |-> blob.frame.size, payload_length |-> len,
   blob |-> blob, pos |-> pos]

(* uint32 arithmetic of the decoder: sequence numbers are 0 .. SeqMax. *)
Wrap32(n) == n % (SeqMax + 1)

(* Mutant: a wrap is never recognised. *)
is_sequence_wrapping_never(cur, prev) == FALSE

is_sequence_wrapping(cur, prev) ==
  cur < prev /\ prev - cur > SeqMax \div 2

-----------------------------------------------------------------------------
(* A chunk is the part of a blob that an item brought.  Whole says that the *)
(* chunks are one blob, in order and without a gap.                         *)
Chunk(item) ==
  [blob |-> item.blob, pos |-> item.pos, len |-> item.payload_length]

Whole(chunks) ==
  /\ chunks # <<>>
  /\ \A i \in DOMAIN chunks :
       /\ chunks[i].blob = chunks[1].blob
       /\ chunks[i].pos =
            IF i = 1 THEN 0 ELSE chunks[i - 1].pos + chunks[i - 1].len
  /\ LET last == chunks[Len(chunks)]
     IN  last.pos + last.len = last.blob.total

(* What the decompressor may return for the given input, with the given     *)
(* stream dictionary: a frame, or NotDecompressed for a negative result.    *)
(* The right input with the right dictionary gives back the frame.          *)
(* Anything else is an error or, as neither format is sent with a checksum, *)
(* possibly wrong bytes that have the expected size (any other size is      *)
(* refused just like an error).  Only LZ4 carries a dictionary from one     *)
(* frame to the next.                                                       *)
NotDecompressed == [frame |-> Corrupt, size |-> -1]

Decompress(chunks, format, dictionary, packet_size) ==
  IF /\ Whole(chunks)
     /\ chunks[1].blob.format = format
     /\ format = "LZ4" => chunks[1].blob.dictionary = dictionary
  THEN {[frame |-> chunks[1].blob.frame, size |-> chunks[1].blob.frame.size]}
  ELSE {NotDecompressed, [frame |-> Corrupt, size |-> packet_size]}

(* The frame that uncompressed chunks make up. *)
Plain(chunks, size) ==
  [frame |-> IF Whole(chunks) /\ chunks[1].blob.format = "NONE"
             THEN chunks[1].blob.frame ELSE Corrupt,
   size  |-> size]

(* What the LZ4 stream remembers after a frame; a ZSTD frame stands alone.  *)
Learn(dictionary, format, frame) ==
  IF format = "LZ4" THEN Append(dictionary, frame.id) ELSE dictionary
=============================================================================
