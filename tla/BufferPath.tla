------------------------------ MODULE BufferPath ------------------------------
(***************************************************************************)
(* The way of the packet buffers through the threads of one daemon, in one *)
(* of its two directions, which share no buffer:                           *)
(*   send     tap reader -> encoders -> one socket writer per node,        *)
(*   receive  socket reader -> decoders -> tap writer,                     *)
(* and from the writers back to one available pool (src/src/               *)
(* packet_switch.cpp, remote_node.cpp).  Buffers only: what is in them is  *)
(* the business of PacketEncoder, PacketDecoder and Switch.                *)
(*                                                                         *)
(* A thread is cut where another one may come in: at every pop_wait(),     *)
(* wait() and push() of a pool.  A codec does between them what            *)
(* CodecBuffers allows.  Inputs that a reader refuses stay in the buffer   *)
(* they are in and are not modelled.                                       *)
(*                                                                         *)
(* Reader and codecs share the available pool, and sleep in its pop_wait() *)
(* when they find it empty (src/src/libaccl/buffer_pool.hpp).  Each push,  *)
(* of one buffer or of a list, wakes up one of them, which does not look   *)
(* again whether there is a buffer; front() of the empty pool is taken to  *)
(* end the daemon.  Wake-ups for nothing are left to BufferPool.  Every    *)
(* other pool has one thread that takes from it.                           *)
(*                                                                         *)
(* The decompressor of LZ4 goes on referring to the frame it wrote last;   *)
(* the buffer of that frame carries the node as a mark until the stream is *)
(* reset or another frame takes its place.  All nodes send LZ4 here: any   *)
(* other format would leave no marks.  Marks are left only where there is  *)
(* a single node: between several nothing is said of them.                 *)
(***************************************************************************)
EXTENDS Integers, Sequences, FiniteSets, Functions

CONSTANTS
  Nodes,     \* the remote nodes there may be
  Tap,       \* the tap writer, among the writers
  PoolSize,  \* buffers in the available pool at first
  Slots,     \* SETH_MAX_RECVMM_MESSAGES
  MaxKept    \* bound: buffers that a codec keeps in flight

(* Among the threads that take from the available pool, and among the       *)
(* marks.                                                                  *)
Reader == Tap
NoMark == Tap

ASSUME BufferPathAssumption ==
  /\ Tap \notin Nodes /\ IsFiniteSet(Nodes) /\ Nodes # {}
  /\ Slots \in Nat \ {0} /\ MaxKept \in Nat
  /\ PoolSize \in Nat /\ PoolSize > (2 + MaxKept) * Cardinality(Nodes) + Slots

VARIABLES
  path,        \* "send" or "receive"
  peers,       \* the remote nodes
  available,   \* marks of the buffers in the available pool, next one first
  asleep,      \* threads that sleep in its pop_wait()
  woken,       \* threads that were notified there and have not the lock yet
  missed,      \* TRUE iff several buffers came in one list while several
               \* threads slept: all but one of these sleep on
  crashed,     \* TRUE iff a thread woke up and found the pool empty
  reader,      \* tap or socket reader: [pc, held, left, todo]
  received,    \* packets of each node that the socket reader has sorted
  codec_pool,  \* encoder_pool or decoder_pool of each node
  codec,       \* encoder or decoder: [pc, resume, batch, hand, kept, open]
  write_pool,  \* socket_write_pool of each node, tap_write_pool: [from, mark]
  writer       \* what each writer took out of its pool

setting == <<path, peers>>
sleeping == <<asleep, woken, missed, crashed>>
pool == <<available, sleeping>>
reading == <<reader, received>>
coding == <<codec_pool, codec>>
writing == <<write_pool, writer>>
vars == <<setting, pool, reading, coding, writing>>

WriterOf(n) == IF path = "send" THEN n ELSE Tap

(* open: the encoder has a packet begun, and its handler waits with timeout; *)
(* resume: what a codec that gets a buffer was at.                         *)
Idle == [pc |-> "idle", resume |-> "call", batch |-> 0, hand |-> 0, kept |-> 0,
         open |-> FALSE]

(* After the constructors, and the loop that fills the slots of recvmmsg(). *)
Init ==
  /\ path \in {"send", "receive"}
  /\ peers \in (SUBSET Nodes) \ {{}}
  /\ reader = IF path = "send"
              THEN [pc |-> "get", held |-> 0, left |-> 0, todo |-> {}]
              ELSE [pc |-> "recv", held |-> Slots, left |-> 0, todo |-> {}]
  /\ available = [i \in 1..(PoolSize - 2 * Cardinality(peers) - reader.held) |-> NoMark]
  /\ asleep = {} /\ woken = {} /\ missed = FALSE /\ crashed = FALSE
  /\ received = [n \in Nodes |-> 0]
  /\ codec_pool = [n \in Nodes |-> 0]
  /\ codec = [n \in Nodes |-> Idle]
  /\ write_pool = [w \in Nodes \union {Tap} |-> <<>>]
  /\ writer = [w \in Nodes \union {Tap} |-> <<>>]

(* pop_wait() by thread t, which finds a buffer at once or after a wake-up, *)
Pop(t) ==
  /\ t \notin asleep /\ available # <<>>
  /\ available' = Tail(available)
  /\ woken' = woken \ {t}
  /\ UNCHANGED <<asleep, missed, crashed>>

(* cv.notify_one() after count buffers were pushed: one sleeper wakes up.   *)
NotifyOne(count) ==
  /\ \/ asleep = {} /\ UNCHANGED <<asleep, woken>>
     \/ \E t \in asleep : asleep' = asleep \ {t} /\ woken' = woken \union {t}
  /\ missed' = (missed \/ (count > 1 /\ \E t, u \in asleep : t # u))
  /\ UNCHANGED crashed

Free(count) == [i \in 1..count |-> NoMark]

-----------------------------------------------------------------------------
(* tunnel_tap_read_handler: a buffer, then a frame. *)
GetFrameBuffer ==
  /\ reader.pc = "get"
  /\ Pop(Reader)
  /\ reader' = [reader EXCEPT !.pc = "read", !.held = 1]
  /\ UNCHANGED <<setting, received, coding, writing>>

Encode(n) == codec_pool' = [codec_pool EXCEPT ![n] = @ + 1]

(* A frame for one node, or for all when there is one only. *)
ReadUnicast ==
  /\ reader.pc = "read"
  /\ \E n \in peers : Encode(n)
  /\ reader' = [reader EXCEPT !.pc = "get", !.held = 0]
  /\ UNCHANGED <<setting, pool, received, codec, writing>>

ReadGroup ==
  /\ reader.pc = "read"
  /\ Cardinality(peers) > 1
  /\ reader' = [reader EXCEPT !.pc = "copy", !.todo = peers]
  /\ UNCHANGED <<setting, pool, received, coding, writing>>

(* All nodes but the last, in the order of their addresses, get a copy, in a*)
(* buffer that has to be there; the last one gets the frame itself.        *)
CopyFrame ==
  /\ reader.pc = "copy"
  /\ Cardinality(reader.todo) > 1
  /\ Pop(Reader)
  /\ \E n \in reader.todo :
       Encode(n) /\ reader' = [reader EXCEPT !.todo = @ \ {n}]
  /\ UNCHANGED <<setting, received, codec, writing>>

PassFrame ==
  /\ reader.pc = "copy"
  /\ Cardinality(reader.todo) = 1
  /\ \E n \in reader.todo : Encode(n)
  /\ reader' = [reader EXCEPT !.pc = "get", !.held = 0, !.todo = {}]
  /\ UNCHANGED <<setting, pool, received, codec, writing>>

TapReader == GetFrameBuffer \/ CopyFrame \/ PassFrame

-----------------------------------------------------------------------------
(* Mutant: there is one message more than there are slots. *)
RecvMmsg_OneMore ==
  /\ reader.pc = "recv"
  /\ \E num_received \in 1..(Slots + 1) :
       reader' = [reader EXCEPT !.pc = "sort", !.left = num_received]
  /\ UNCHANGED <<setting, pool, received, coding, writing>>

(* tunnel_socket_read_handler: recvmmsg() fills some of the slots. *)
RecvMmsg ==
  /\ reader.pc = "recv"
  /\ \E num_received \in 1..Slots :
       reader' = [reader EXCEPT !.pc = "sort", !.left = num_received]
  /\ UNCHANGED <<setting, pool, received, coding, writing>>

(* A packet goes to the list of its node, *)
SortPacket ==
  /\ reader.pc = "sort" /\ reader.left > 0
  /\ \E n \in peers : received' = [received EXCEPT ![n] = @ + 1]
  /\ reader' = [reader EXCEPT !.pc = "slot", !.held = @ - 1]
  /\ UNCHANGED <<setting, pool, coding, writing>>

(* and its slot needs another buffer before the next one is looked at. *)
FillSlot ==
  /\ reader.pc = "slot"
  /\ Pop(Reader)
  /\ reader' = [reader EXCEPT !.pc = "sort", !.held = @ + 1, !.left = @ - 1]
  /\ UNCHANGED <<setting, received, coding, writing>>

(* Mutants: the lists are not cleared; only one is pushed. *)
PushReceived_Again ==
  /\ reader.pc = "sort" /\ reader.left = 0
  /\ codec_pool' = [n \in Nodes |-> codec_pool[n] + received[n]]
  /\ reader' = [reader EXCEPT !.pc = "recv"]
  /\ UNCHANGED <<setting, pool, received, codec, writing>>

PushReceived_First ==
  /\ reader.pc = "sort" /\ reader.left = 0
  /\ \E n \in peers :
       /\ received[n] > 0
       /\ codec_pool' = [codec_pool EXCEPT ![n] = @ + received[n]]
       /\ received' = [received EXCEPT ![n] = 0]
  /\ reader' = [reader EXCEPT !.pc = "recv"]
  /\ UNCHANGED <<setting, pool, codec, writing>>

(* Only when all slots are filled again do the decoders get the packets. *)
PushReceived ==
  /\ reader.pc = "sort" /\ reader.left = 0
  /\ codec_pool' = [n \in Nodes |-> codec_pool[n] + received[n]]
  /\ received' = [n \in Nodes |-> 0]
  /\ reader' = [reader EXCEPT !.pc = "recv"]
  /\ UNCHANGED <<setting, pool, codec, writing>>

SocketReader == SortPacket \/ FillSlot \/ PushReceived

-----------------------------------------------------------------------------
(* _tunnel_encoder_handler, _tunnel_decoder_handler: everything that waits  *)
(* is taken at once and worked off from a list of the thread's own, one    *)
(* call after the other.                                                   *)
NextCall(c) ==
  IF c.batch = 0 THEN [c EXCEPT !.pc = "idle", !.hand = 0]
  ELSE [c EXCEPT !.pc = "call", !.hand = 1, !.batch = @ - 1, !.open = FALSE]

TakeBatch(n) ==
  /\ codec[n].pc = "idle" /\ codec_pool[n] > 0
  /\ codec' = [codec EXCEPT ![n] = NextCall([@ EXCEPT !.batch = codec_pool[n]])]
  /\ codec_pool' = [codec_pool EXCEPT ![n] = 0]
  /\ UNCHANGED <<setting, pool, reading, writing>>

(* Marks of a node whose stream was reset, or refers to another frame now. *)
Unmark(marks, n) == [i \in DOMAIN marks |-> IF marks[i] = n THEN NoMark ELSE marks[i]]
UnmarkQueue(queue, n) ==
  [i \in DOMAIN queue |-> IF queue[i].mark = n THEN [queue[i] EXCEPT !.mark = NoMark] ELSE queue[i]]

(* A packet or frame is ready; the codec needs a buffer for the next one.   *)
HandOver(n, mark) ==
  /\ write_pool' = [write_pool EXCEPT ![WriterOf(n)] =
       Append(UnmarkQueue(@, mark), [from |-> n, mark |-> mark])]
  /\ writer' = [writer EXCEPT ![WriterOf(n)] = UnmarkQueue(@, mark)]
  /\ available' = Unmark(available, mark)
  /\ codec' = [codec EXCEPT ![n].pc = "getbuf", ![n].open = FALSE,
                            ![n].resume = IF codec[n].pc = "call" THEN "call" ELSE "flush"]

Emit(n) ==
  /\ codec[n].pc = "call"
  /\ HandOver(n, IF path = "receive" /\ peers = {n} THEN n ELSE NoMark)
  /\ UNCHANGED <<setting, sleeping, reading, codec_pool>>

(* wait_for() of the encoder handler ran into its timeout. *)
Timeout(n) ==
  /\ path = "send"
  /\ codec[n].pc = "idle" /\ codec_pool[n] = 0 /\ codec[n].open
  /\ HandOver(n, NoMark)
  /\ UNCHANGED <<setting, sleeping, reading, codec_pool>>

(* _flushInflight() resets the stream, and what was kept goes back, in one  *)
(* list with the given number of other buffers, if there is any.           *)
FlushInflight(n, others) ==
  /\ available' = Unmark(available, n) \o Free(codec[n].kept + others)
  /\ IF codec[n].kept + others > 0
     THEN NotifyOne(codec[n].kept + others) ELSE UNCHANGED sleeping
  /\ write_pool' = [w \in DOMAIN write_pool |-> UnmarkQueue(write_pool[w], n)]
  /\ writer' = [w \in DOMAIN writer |-> UnmarkQueue(writer[w], n)]

(* Mutant: what is kept goes back before the new buffer is there. *)
GetTxBuffer_FlushFirst(n) ==
  /\ codec[n].pc = "getbuf"
  /\ IF codec[n].kept > 0
     THEN /\ FlushInflight(n, 0)
          /\ codec' = [codec EXCEPT ![n].kept = 0]
     ELSE /\ Pop(n)
          /\ codec' = [codec EXCEPT ![n].pc = codec[n].resume, ![n].resume = "call"]
          /\ UNCHANGED writing
  /\ UNCHANGED <<setting, reading, codec_pool>>

(* _getTxBuffer(), within encode() or decode(), or within flush(). *)
GetTxBuffer(n) ==
  /\ codec[n].pc = "getbuf"
  /\ Pop(n)
  /\ codec' = [codec EXCEPT ![n].pc = codec[n].resume, ![n].resume = "call"]
  /\ UNCHANGED <<setting, reading, codec_pool, writing>>

EndFlush(n) ==
  /\ codec[n].pc = "flush"
  /\ FlushInflight(n, 0)
  /\ codec' = [codec EXCEPT ![n].pc = "idle", ![n].kept = 0]
  /\ UNCHANGED <<setting, reading, codec_pool>>

(* Within a call the decoder gives back what it kept when it lost track or  *)
(* has put a frame together; the encoder after a split frame, together with*)
(* that frame if it was compressed, and after any that filled its packet.  *)
FlushKept(n) ==
  /\ codec[n].pc = "call"
  /\ FlushInflight(n, 0)
  /\ codec' = [codec EXCEPT ![n].kept = 0]
  /\ UNCHANGED <<setting, reading, codec_pool>>

FlushFrame(n) ==
  /\ path = "send" /\ codec[n].pc = "call" /\ codec[n].hand = 1
  /\ FlushInflight(n, 1)
  /\ codec' = [codec EXCEPT ![n].kept = 0, ![n].hand = 0]
  /\ UNCHANGED <<setting, reading, codec_pool>>

(* At its end a call keeps the buffer in flight, or returns it: decode()    *)
(* with all that was kept, encode() alone unless it did already.  (decode()*)
(* would return it alone with less than a header, but the socket reader    *)
(* lets none pass.)  What the encoder keeps belongs to a packet begun.     *)
KeepInput(n) ==
  /\ codec[n].pc = "call" /\ codec[n].hand = 1 /\ codec[n].kept < MaxKept
  /\ codec' = [codec EXCEPT ![n] = NextCall([@ EXCEPT !.kept = codec[n].kept + 1,
                                                      !.open = path = "send"])]
  /\ UNCHANGED <<setting, pool, reading, codec_pool, writing>>

ReturnPacket(n) ==
  /\ path = "receive" /\ codec[n].pc = "call"
  /\ FlushInflight(n, 1)
  /\ codec' = [codec EXCEPT ![n] = NextCall([@ EXCEPT !.kept = 0])]
  /\ UNCHANGED <<setting, reading, codec_pool>>

(* push() of one buffer, if the call still has it. *)
ReturnFrame(n) ==
  /\ path = "send" /\ codec[n].pc = "call"
  /\ IF codec[n].hand = 1
     THEN available' = Append(available, NoMark) /\ NotifyOne(1)
     ELSE UNCHANGED pool
  /\ \E open \in BOOLEAN :
       /\ codec[n].kept > 0 => open
       /\ codec' = [codec EXCEPT ![n] = NextCall([@ EXCEPT !.open = open])]
  /\ UNCHANGED <<setting, reading, codec_pool, writing>>

Codec(n) ==
  \/ TakeBatch(n)
  \/ Emit(n) \/ Timeout(n) \/ GetTxBuffer(n) \/ EndFlush(n)
  \/ FlushKept(n) \/ FlushFrame(n)
  \/ KeepInput(n) \/ ReturnPacket(n) \/ ReturnFrame(n)

-----------------------------------------------------------------------------
(* _socket_write_handler, tunnel_tap_write_handler: everything that waits   *)
(* is taken, written,                                                      *)
TakeWrites(w) ==
  /\ writer[w] = <<>> /\ write_pool[w] # <<>>
  /\ writer' = [writer EXCEPT ![w] = write_pool[w]]
  /\ write_pool' = [write_pool EXCEPT ![w] = <<>>]
  /\ UNCHANGED <<setting, pool, reading, coding>>

Marks(queue) == [i \in DOMAIN queue |-> queue[i].mark]

(* Mutant: returned buffers are the first to be used again. *)
ReturnWritten_Front(w) ==
  /\ writer[w] # <<>>
  /\ available' = Marks(writer[w]) \o available
  /\ NotifyOne(Len(writer[w]))
  /\ writer' = [writer EXCEPT ![w] = <<>>]
  /\ UNCHANGED <<setting, reading, coding, write_pool>>

(* and only then returned, to the end of the pool. *)
ReturnWritten(w) ==
  /\ writer[w] # <<>>
  /\ available' = available \o Marks(writer[w])
  /\ NotifyOne(Len(writer[w]))
  /\ writer' = [writer EXCEPT ![w] = <<>>]
  /\ UNCHANGED <<setting, reading, coding, write_pool>>

-----------------------------------------------------------------------------
(* A thread comes to pop_wait() and finds the pool empty: it goes to sleep. *)
Wants(t) ==
  IF t = Reader
  THEN reader.pc \in {"get", "slot"} \/ (reader.pc = "copy" /\ Cardinality(reader.todo) > 1)
  ELSE codec[t].pc = "getbuf"

Sleep(t) ==
  /\ Wants(t) /\ t \notin asleep \union woken
  /\ available = <<>>
  /\ asleep' = asleep \union {t}
  /\ UNCHANGED <<setting, available, woken, missed, crashed, reading, coding, writing>>

(* It is notified, and another one takes the buffer before it has the lock. *)
PopNothing(t) ==
  /\ t \in woken /\ available = <<>>
  /\ crashed' = TRUE
  /\ UNCHANGED <<setting, available, asleep, woken, missed, reading, coding, writing>>

Next ==
  /\ ~crashed
  /\ \/ TapReader \/ ReadUnicast \/ ReadGroup
     \/ SocketReader \/ RecvMmsg
     \/ \E n \in peers : Codec(n)
     \/ \E w \in Nodes \union {Tap} : TakeWrites(w) \/ ReturnWritten(w)
     \/ \E t \in peers \union {Reader} : Sleep(t) \/ PopNothing(t)

Spec == Init /\ [][Next]_vars

-----------------------------------------------------------------------------
Entries(n) == [from : {n}, mark : {NoMark, n}]

TypeOK ==
  /\ path \in {"send", "receive"} /\ peers \subseteq Nodes
  /\ Len(available) <= PoolSize
  /\ Range(available) \subseteq (IF path = "send" THEN {NoMark} ELSE {NoMark} \union peers)
  /\ reader.pc \in (IF path = "send" THEN {"get", "read", "copy"}
                    ELSE {"recv", "sort", "slot"})
  /\ asleep \union woken \subseteq peers \union {Reader} /\ asleep \intersect woken = {}
  /\ \A t \in asleep \union woken : Wants(t)
  /\ missed \in BOOLEAN /\ crashed \in BOOLEAN
  /\ reader.held \in 0..Slots /\ reader.left \in 0..Slots
  /\ \A n \in Nodes :
       /\ codec[n].pc \in {"idle", "call", "getbuf", "flush"}
       /\ codec[n].resume \in {"call", "flush"}
       /\ codec[n].hand \in {0, 1} /\ codec[n].kept \in 0..MaxKept
       /\ codec[n].pc = "flush" => path = "send"
  /\ \A w \in Nodes \union {Tap} :
       Range(write_pool[w] \o writer[w]) \subseteq UNION {Entries(n) : n \in Nodes}

(* The sum of the values of a function with a finite domain. *)
Total(count) == Cardinality(UNION {{x} \X (1..count[x]) : x \in DOMAIN count})

(* No buffer is lost or doubled, wherever a batch is: in the slots and the  *)
(* lists of the socket reader, in a pool, in a thread's own list, with a   *)
(* codec or with a writer.                                                 *)
HeldBy(n) ==
  2 - (IF codec[n].pc = "getbuf" THEN 1 ELSE 0) + codec[n].hand + codec[n].kept

CodecShare ==
  [n \in peers |-> received[n] + codec_pool[n] + codec[n].batch + HeldBy(n)]

WriterShare ==
  [w \in Nodes \union {Tap} |-> Len(write_pool[w]) + Len(writer[w])]

BufferConservation ==
  Len(available) + reader.held + Total(CodecShare) + Total(WriterShare) = PoolSize

Backlog ==
  Total([n \in peers |-> received[n] + codec_pool[n] + codec[n].batch + codec[n].hand])

(* Nothing moves but what comes from outside: all threads sleep, or wait for*)
(* input; for a buffer, or to be given something.                          *)
Quiet ==
  /\ ~crashed
  /\ reader.pc \in {"read", "recv"} \/ Reader \in asleep
  /\ \A n \in peers :
       \/ codec[n].pc = "idle" /\ codec_pool[n] = 0 /\ ~codec[n].open
       \/ n \in asleep
  /\ \A w \in Nodes \union {Tap} : write_pool[w] = <<>> /\ writer[w] = <<>>

(* All threads may come to wait for each other: for a buffer, while the     *)
(* buffers wait for them (encoder.cpp:64, decoder.cpp:37,                  *)
(* packet_switch.cpp:207, :261 and :452).  They can, for good, but only    *)
(* when so many frames or packets have piled up that the rest of the pool  *)
(* is what the threads own, or when several of them slept and one list of  *)
(* buffers woke up a single one (buffer_pool.hpp:191); otherwise everything *)
(* that was read has gone through when nothing moves any more.             *)
Reserve ==
  Cardinality(peers) * (2 + MaxKept) + (IF path = "send" THEN 1 ELSE Slots)

DrainedOrFlooded ==
  Quiet =>
    \/ Backlog = 0 /\ asleep = {}
    \/ Backlog > PoolSize - Reserve
    \/ missed

(* decoder.cpp:399 hands the buffer that is the LZ4 dictionary to the tap   *)
(* writer, which returns it to the pool.  It is taken from there, to be    *)
(* overwritten, no sooner than every other buffer; so between two nodes    *)
(* only in the moment when the pool runs dry.                              *)
DictionaryKept ==
  [][Cardinality(peers) = 1 /\ available # <<>> /\ Head(available) # NoMark
       /\ available' = Tail(available)
     => available' = <<>>]_vars

(* Every codec uses the pool as the packet encoder and decoder do.          *)
From(queue, n) == Cardinality({i \in DOMAIN queue : queue[i].from = n})

Handed(n) == From(write_pool[WriterOf(n)], n) + From(writer[WriterOf(n)], n)

C(n) == INSTANCE CodecBuffers WITH
  held    <- HeldBy(n),
  queue   <- Handed(n),
  outside <- PoolSize - HeldBy(n) - Handed(n),
  waiting <- codec[n].pc = "getbuf"

CodecContract ==
  /\ \A n \in peers : C(n)!Init
  /\ [][\A n \in peers : UNCHANGED C(n)!vars \/ C(n)!Next]_vars
=============================================================================
