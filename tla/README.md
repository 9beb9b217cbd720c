# Superethd: a verification project

Superethd connects Ethernet segments: every node reads frames from a tap
interface, packs them (compressed or not, whole or in parts) into UDP packets,
and sends those to the other nodes, which put the frames together again and
write them to their taps. A forwarding database per node decides which node a
frame goes to. This directory holds TLA+ modules for that program, TLC
configurations that check them on small instances, and TLAPS proofs about every
component of a daemon, and about two of them with the network between, for every size.

Paths below are relative to `src/src/` of the repository.

- [The system](#the-system): its parts, their state, what is hard about them
- [The modules](#the-modules): which module models what, and how
- [The runs](#the-runs): what each one shows, bounds, fairness
- [Where code and comments differ](#where-code-and-comments-differ)
- [The proofs](#the-proofs)
- [What is not modelled](#what-is-not-modelled)
- [The plan](#the-plan)

## The system

### Threads and queues

A node runs five kinds of threads. Everything they exchange goes through
buffer pools (`libaccl/buffer_pool.hpp`), queues behind a mutex and a condition
variable.

```
 tap --> tap reader --> encoder_pool --> encoder handler --> socket_write_pool --> socket writer --> UDP
          |   ^          (per remote node, three threads for each remote node)          |
          |   +------------ available_rx_buffer_pool <----------------------------------+
          +--> FDB <-- FDB thread
          |
 tap <-- tap writer <-- tap_write_pool <-- decoder handler <-- decoder_pool <-- socket reader <-- UDP
                            (one)            (per remote node)                      (one)
```

Buffers go round: a reader takes an empty one from an available pool, and the
thread at the end of the chain puts it back. An available pool is shared by all
the remote nodes of a node and by the reader that feeds them.

### Components

| Component | State | Operations | Correct if |
|---|---|---|---|
| packet encoder (`encoder.cpp`) | sequence number, packet being filled, option count, compression buffer, raw buffers in flight, LZ4 stream | `encode()`, `flush()` | packets fit the path; numbers have no gap; nothing is stuck after a flush; the dictionary refers to live buffers; no buffer is lost |
| packet decoder (`decoder.cpp`) | last sequence number, parts collected, their format and size, packets in flight, LZ4 stream | `decode()` | never delivers bytes of two frames as one; state and buffers are in order after every early return; every call ends |
| wire format (`codec.hpp`, `util.cpp`) | none | headers, sequence wrap test | both ends read the same packet |
| remote node (`remote_node.cpp`) | timeout of the encoder handler, its pools | encoder handler, socket writer, decoder handler | what is read from the tap comes out once and in order, as far as the network allows |
| buffer pool (`libaccl/buffer_pool.hpp`) | queue, sleepers | `push()`, `pop_wait()`, `wait()`, `wait_for()` | one owner per buffer; no lost wake-up; returns mean what the comments say |
| packet switch (`packet_switch.cpp`) | FDB, tap and socket threads, available pools | tap reader, tap writer, FDB thread | no loops; a frame goes where its destination is |
| buffer path (`packet_switch.cpp`, `remote_node.cpp`) | available pools, pools and batches of every thread, slots of `recvmmsg()` | readers, codecs, writers | no batch is lost; everything drains unless the daemon is flooded or a wake-up is missed; a dictionary is not overwritten |
| life cycle (`superethd.cpp`, `packet_switch.cpp`, `tap_interface.cpp`) | stop flag, online flag, threads | `start_seth()`, `start()`, `wait()`, `stop()`, the signal | what comes before everything runs is not forgotten; `main()` returns last |
| forwarding database (`fdb.cpp`, `fdb_entry.cpp`) | table MAC -> (node, last seen) | `add()`, `get()`, `updateLastSeen()`, `expireEntries()` | who talks stays, who is silent goes |
| stream compressors (`libaccl/stream_compressor*.cpp`) | LZ4 and ZSTD streams | `compress()`, `decompress()`, resets | both ends of a stream are in step |
| program start (`main.cpp`, `util.cpp`, constructors of `PacketSwitch` and `RemoteNode`) | settled options; sizes, pools and keys of the nodes | options, file and defaults; limits; address helpers | every configuration it accepts gives the codecs sizes they work with; a peer is recognised by its address |
| logging, statistic, test kit | | | see [What is not modelled](#what-is-not-modelled) |

### What is hard about it

`PROJECT.json` lists each hazard with its line; in short:

- **Streams over datagrams.** Encoder and decoder each keep state from packet to
  packet (parts of a frame, an LZ4 dictionary) and reset it by their own rules.
  A lost, repeated, overtaken packet or a restarted sender must not make the
  two rules disagree in a way that produces a wrong frame.
- **The sequence number wraps** past `UINT32_MAX`, which is skipped, to 1. The
  decoder recognises the wrap by a distance.
- **Buffers are moved by hand.** Each early return of `decode()` and each branch
  of `encode()` has to return what it holds, once; the threads deadlock slowly
  when one forgets.
- **A thread waits in the middle of a call.** `encode()` and `decode()` wait for
  a buffer while they hold others, and another thread has to provide it, while a third one may take it.
- **`BufferPool` does not look again after waiting.** What a return value means
  depends on what other threads did between the notification and the wake-up. A list of buffers wakes up one
  thread, however many sleep.
- **The handlers lock the FDB twice.** They look an address up under the shared lock
  and add it under the unique one; the other handler and the expiry come
  between.
- **Everybody waits for the same pool.** Readers and codecs of all nodes take buffers
  from it, and what would give some back may be queued behind a thread that waits.
- **Threads run before and after their time.** The readers run before the threads of the remote nodes and before the
  interface is up, and `stop()` sets a flag that sleeping threads do not see.
- **Limits are checked in three places** (`main()`, `PacketSwitch`, `RemoteNode`), each for its own
  number; the codecs depend on all of them together.

## The modules

| Module | Models | Extends or uses |
|---|---|---|
| `Codec` | wire format, wrap test, compression libraries | |
| `PacketEncoder` | `PacketEncoder`; tap reader, encoder pool and socket writer as its environment | `Codec` |
| `PacketDecoder` | `PacketDecoder`; socket reader and tap writer as its environment | `Codec` |
| `CodecBuffers` | abstract: how a codec uses the available pool | implemented by `PacketEncoder`, `PacketDecoder`, and every codec of `BufferPath` |
| `FrameTransport` | abstract: what one direction of a tunnel promises | |
| `Tunnel` | tap reader, encoder handler, socket writer, UDP, decoder, tap writer | `PacketEncoder`, `PacketDecoder` by `INSTANCE`; implements `FrameTransport` |
| `BufferPool` | `accl::BufferPool` | |
| `FDB` | forwarding database, as operators on a table | |
| `Switch` | tap reader, tap writer, FDB thread of several nodes | `FDB` |
| `BufferPath` | the buffers of all threads of a node: tap reader, socket reader with its batches, codecs, writers; who sleeps in `pop_wait()` | `CodecBuffers` by `INSTANCE` |
| `Lifecycle` | `start_seth()`, start and end of all threads, SIGUSR1, failures | |
| `Config` | `main()` and the constructors, up to the running daemon or its refusal | `Codec` by `INSTANCE`, for the sizes it assumes |
| `PacketEncoder_proofs`, `PacketDecoder_proofs`, `BufferPool_proofs`, `BufferPath_proofs`, `Switch_proofs`, `Lifecycle_proofs`, `Config_proofs`, `Tunnel_proofs` | theorems | the module they are about |
| `MC_PacketEncoder`, `MC_PacketDecoder`, `MC_Switch`, `MC_BufferPath`, `MC_Config` | sets, functions and symmetry for the runs | the module they are about |

The definitions whose comment begins with "Mutant" are wrong versions of the
definition below them, with an error that is easily made there. They are used
by nothing; put in place of the right version, each makes the property listed
with it in `PROJECT.json` fail, so the property says something about the code.

### Codec, PacketEncoder, PacketDecoder

Bytes are not modelled. What the encoder sends of a frame, the frame or its
compressed form, is a *blob*; an item of a packet carries the bytes
`pos .. pos+len-1` of a blob. A blob records the frame and the dictionary it
was compressed with. That is not on the wire, and no guard of the decoder reads
it: it decides only what decompression may return (`Decompress`) and is what
the properties speak of. Decompression of anything but the right bytes with the
right dictionary fails or yields a *corrupt* frame of the expected size;
both are explored, because the LZ4 blocks and the ZSTD frames the program makes have no checksum.

| TLA+ | C++ |
|---|---|
| `sequence`, `opt_len`, `packet_count`, `tx_buffer` | members of `PacketEncoder` and the header at the front of `tx_buffer` |
| `comp_buffer`, `inflight_buffers`, `dictionary` | `comp_buffer` held or not, `inflight_buffers`, the compressor's LZ4 stream |
| `work`, `pc`, `resume` | local variables and position of the call in progress |
| `tap_buffer`, `encoder_pool`; `TapPop`, `ReadFrame` | the buffer in the hands of the tap reader, the frames it has queued; `pop_wait()` and the rest of its handler, at any time |
| `EncodeFrame`: `Encode = RefuseFrame, EncodeComplete, EncodePartial`, then `EncodePart*`, `EndParts`, `EncodeTail`, `EncodeFinish` | `encode()` from top to bottom |
| `Flush`, `EndFlush`; `SendPacket`, `FlushTx`; `GetTxBuffer` | `flush()`; `_flush()`; `_getTxBuffer()` |
| `last_part`, `last_format`, `last_orig_packet_size`, `tx_buffer` | the decoder's reassembly state |
| `RefuseShort`, `RefuseHeader`, `RefuseOptions`, `AcceptPacket` | `decode()` up to its loop, with each early return |
| `DropItem`, `SkipPart`, `StorePart`, `DeliverFrame`, `GetTxBuffer`, `FinishPacket`, `Spin` | one turn of the loop over the items and the end of the call |
| `NextPos`, `NextIndex` | `packet_header_pos`, a `uint16_t`, and the item that the loop finds there |

A call is one action as far as nothing can come in between. It is cut where
the thread waits for a buffer (`pc = "getbuf"`), and at the turns of loops;
the other threads touch none of the encoder's or decoder's own members, so
finer steps would show nothing more. Buffers of an available pool are counted,
not named. `Spin` is the turn of the loop that changes nothing, at an item of a type that is none.

The items of a packet are what `decode()` finds when it walks through the payload from option header to option header
(`ItemStarts`). A part that is not expected is skipped before its length is checked (`decoder.cpp:461`), and the position
is computed in 16 bits: so it may lead out of the packet, or over 65536 back into it. `WellFormed` says how any bytes can be read: the items are
what the loop finds one after the other until it leaves the packet or comes to a place where it was before (`Circular`),
and of the last one some bytes may be missing.

`CodecBuffers` forgets everything but the number of buffers: a codec takes one with each frame
or packet, keeps some, gives others back, and waits after each one it hands on. `BufferUse` in
both codecs says that they implement it; `BufferPath` builds on it.

Option and packet headers have their real size of 8 bytes, and `L2MTU`, `L4MTU`
and the flush reserve have real values: it is the boundaries between them that
matter. Sequence numbers are `0..SeqMax` with the wrap of `uint32_t`
arithmetic; `SeqMax` is `UINT32_MAX` in the code and a small number in the runs.

### Tunnel and FrameTransport

`Tunnel` instantiates the encoder of one node and the decoder of its peer and
puts a network between: `wire` is a sequence of packets of which the oldest
arrives (`Arrive`), and `Faults` chooses whether packets may be lost, repeated or
overtaken (`Lose`, `Duplicate`, `Overtake`) and whether the sending process may
be restarted (`Restart`: the encoder is constructed again, what it held is lost, the decoder of the
peer goes on). The handler's timeout is `timed`: with a frame it waits
for 1 ms from then on, when the time is over it flushes and waits without limit.

`FrameTransport` knows the accepted frames (what the tap reader has queued), the delivered ones, and three levels of
service: *fifo* (every frame, once, in order), *ordered* (frames may be missing),
*any* (frames may be missing, repeated and out of order, but never altered). A
fault may weaken the service. The refinement mapping takes `delivered` as it is, puts `accepted` together from the frames that have left the encoder pool (`taken`)
and those in it, and derives the service from the faults so far;
`TransportSpec` is the abstract specification under it.

### BufferPool

Every method holds the mutex from start to return except while it sleeps, so it
is one action up to its return or its sleep (`TakeAtOnce`, `Sleep`) and another
from the moment it has the mutex again (`ReturnTaken`, `ReturnExpired`).
Between `notify_one()` and that moment the thread is "awake" and everybody else
may go first. As in the code, `pop_wait()` and `wait()` do not test the pool
again then. A thread can also be "stirred", woken up for nothing: without reason, as the standard allows
(`WakeSpuriously`), or by an empty list, which the socket reader pushes to nodes that a batch brought nothing for
(`PushNothing`, `packet_switch.cpp:457`). A result remembers that its sleep ended so, because the promises of the
comments cannot hold for it. `front()` of an empty queue is undefined; the model returns without a buffer.

There are two kinds of pools. Those of the encoder, the decoder and the writers have one thread that takes from them, with `wait()` or
`wait_for()`. From the available pools the reader and all codecs take, with `pop_wait()`; what the wake-ups of
that method do to the daemon is in `BufferPath`.

### FDB and Switch

`FDB` has one operator for each method of the table. `Switch` runs, for each of
several nodes, the tap reader (`ReadTap`, `LearnLocal`, `ForwardUnicast`,
`ForwardGroup`, `CopyToNode`, `SendOriginal`, `GetBuffer`), the tap writer
(`TakeFrame`, `LearnRemote`, `WriteTap`) and the FDB thread (`ExpireEntries`).
A handler is cut at each section under `fdb_mtx` and at each `pop_wait()`.
The tunnels between the nodes are one action, `Carry`, which takes the oldest
frame to the peer and returns its buffer: the *fifo* service of
`FrameTransport`. A receiver that does not list the sender drops its packets.
`Tick` and `Move` are the environment: time passes, a station is plugged in
elsewhere. `heard` and `written` record what happened, for the properties only.

Every frame comes to the tap reader that a station sends to another one, also when both are behind the same tap (as a
bridge passes on frames whose destination it does not know). A local destination leads to a null pointer in the code. The model's tap reader
then has `pc = "crashed"`, and no thread of its node takes a step any more (`Running`); what other nodes send it is lost.

### BufferPath

One module for both directions, as they have the same shape: a reader that takes buffers from the available pool, a codec
per remote node, writers that return the buffers. `path` says which. Frames are left out; a codec does
with its buffers whatever `CodecBuffers` allows, and `CodecContract` checks that it does no more.

| TLA+ | C++ |
|---|---|
| `reader` | tap reader (`get`, `read`, `copy`) or socket reader (`recv`, `sort`, `slot`) with the buffers in its hands |
| `received` | `received_buffers`, the lists of the socket reader |
| `codec_pool`, `codec` | `encoder_pool` or `decoder_pool` of each node; its handler: batch left, buffer in hand, buffers in flight, and whether the encoder has a packet begun |
| `write_pool`, `writer` | `socket_write_pool` of each node or the one `tap_write_pool`; what the writer took and has not returned |
| `available` | the available pool, first in first out; a mark is the node whose LZ4 decompressor still refers to the buffer; marks are kept only if there is a single node |
| `asleep`, `woken` | the threads in `cv.wait()` of its `pop_wait()`, and those that were notified and have not the mutex yet |

A thread is cut at every operation of a pool, because other threads come in there: in particular, the socket reader
waits for a buffer for each slot (`FillSlot`) before any decoder sees the batch (`PushReceived`), and writers return
their buffers only after the whole batch (`ReturnWritten`).

A thread that finds the available pool empty goes to sleep (`Sleep`). Each `push()`, of one buffer or of a list, wakes up one sleeper (`NotifyOne`), which
takes a buffer later, when it has the mutex (`Pop`); others may come before it, and if they leave nothing it takes the front of
an empty queue (`PopNothing`: the daemon ends, `crashed`). When a list of several buffers comes while several threads sleep,
all but one sleep on in front of buffers; `missed` records that this has happened.

### Lifecycle

The main thread is `stage` and `next`, its position in the order in which threads are started and joined. A thread comes to its loop,
where it looks at `stop_flag`; sleeps in `read()`, `recvmmsg()`, `sleep()` or its pool; or has ended. One turn of a loop and the
look at the flag behind it are one step: a signal in between might as well have come before the turn, which does not read the flag. When the process ends
its threads and pools are gone. `pending` has the threads whose pool is not empty. The signal may come at any moment; before the handler is
registered it kills, before the switch exists it follows a null pointer. Every call of the start and of the threads
that may fail does so in some behaviour (`ConstructFails`, `StartFails`, `ThreadFails`).

### Config

The start is sequential: `main()` settles the options (command line before file before default) and checks them
(`Refuse`, `Abort`, `Accept`), then the constructors check again and derive what the daemon works with
(`RefuseSwitch`, `Construct`). What varies is the input, and every combination of a command line and a file is an
initial state. Numbers are numbers; a name is absent, valid or invalid; an address has a family, a prefix that is zero
or not, `0xFFFF` or other bytes at 10 and 11, and a host, which is what the helpers of `util.cpp` look at. Destinations
are a set. `RefuseSwitch` has no guard, for the tap interface and the socket may fail for reasons of the kernel.
The names of the limits are those of `common.hpp`. `C(l4mtu)` is the `Codec` that a node with that `l4mtu` runs.

## The runs

Every run finishes with no error except the three marked with V, which find the violation
described in the next section. State counts are of distinct states.

| Run | Configuration | States | Shows |
|---|---|---|---|
| `encoder_lz4` | `MC_PacketEncoder.cfg` | 164829 | `TypeOK`, `PacketsFit`, `RoomForPart`, `SequenceContinuous`, `NothingStranded`, `DictionaryInFlight`, `BufferConservation`, `CallsReturn`, `BufferUse` |
| `decoder_alone` | `MC_PacketDecoder.cfg` | 17069 | `TypeOK`, `Housekeeping`, `BufferConservation`, `CallsReturn`, `BufferUse` |
| `tunnel_lz4` | `Tunnel_lz4.cfg` | 118296 | `TransportSpec`, `AllDelivered` |
| `tunnel_loss` | `Tunnel_loss.cfg` | 1887405 | `TransportSpec`, `DamageContained` |
| `tunnel_wrap_loss` V | `Tunnel_wrap_loss.cfg` | | `Integrity` |
| `switch_mesh` | `MC_Switch.cfg` | 1455865 | `TypeOK`, `SplitHorizon`, `LearnedPlace`, `GroupDelivered`, `TalkersKnown`, `SilentForgotten` |
| `switch_local` V | `MC_Switch_local.cfg` | | `LocalIgnored` |
| `buffer_path` | `MC_BufferPath.cfg` | 3635649 | `TypeOK`, `BufferConservation`, `DrainedOrFlooded`, `DictionaryKept`, `CodecContract` |
| `lifecycle` | `Lifecycle.cfg` | 70680 | `TypeOK`, `NothingForgotten`, `ExitsLast` |
| `config_start` | `MC_Config.cfg` | 2611 | `TypeOK`, `CodecSized`, `PathRespected`, `PeersRecognised`, `PoolsSuffice` |
| `pool` | `BufferPool.cfg` | 5104 | `OneOwner`, `NoLostWakeup`, `TrueIfBuffers` |
| `pool_poppers` V | `BufferPool_poppers.cfg` | | `PopGetsBuffer` |

**encoder_lz4.** An MTU of 3000 (`L2MTU` 3022, buffers of 3324) and a path of 1452
bytes. The largest frame compresses to 353, 1428 or 1789 bytes: a quarter of a packet, so that up to four frames are in flight between calls, with the
dictionary to match, and four of them fill a packet exactly; a size that leaves less than the flush reserve of an empty packet and is split in
any other; and a quarter more than a packet holds, which is always split. All sums are multiples of a quarter, so there are
few fill levels. Frames above the MTU, flushes with and without frames in flight, and a number that wraps after three
packets come in any order. A pool of six buffers leaves four for the tap reader, its queue, frames in flight and packets in the
socket queue, in any combination; it also makes the state space finite, without any
other bound. The proofs cover every format and size.

**decoder_alone.** Every packet of a set of about 60 may follow every other: whole
frames, first, middle and last parts, compressed or not, several items in a packet,
truncated ones, the packets of a peer with a larger MTU, a format without a
name, items of a type that is none, parts whose length leads the position in a circle (to themselves, to a frame before them, or into
its payload), wrong option counts, with sequence numbers at 0, 1 and the largest.
`CallsReturn` excepts the items of no type and the circular packets, and no others. The pool has six buffers, two more than a split frame needs; the deadlock of
a smaller pool is described below.

**tunnel_lz4.** Three frames, whole or split, each of which compresses well or hardly.
`SeqMax` is 5, so the number wraps in every longer behaviour (with less than 5
the distance test could not work; `TunnelAssumption`). Frames and timeouts
interleave freely. Without a fault the service is *fifo* and
everything comes out in the end. The pools have twelve buffers each; with nine or more no
codec ever finds its pool empty, as three frames do not take up the rest: this run is not about floods. A restart of the sender may come at any point,
and then *ordered* remains.

**tunnel_loss.** MTU 3000 with LZ4 frames of one or of three parts, three
frames, any two faults: packets lost, repeated or overtaken. `DamageContained` looks at the quiescent states after
losses: every frame none of whose packets was lost has come out. `TransportSpec` says after any of the faults
that whatever comes out was read from the tap, and that it is in order if packets were only lost. `SeqMax` is 50 and out of reach.
At most two packets are under way (`MaxWire`), so a packet overtakes one other, or with both faults two; loss does not depend on the bound. A pool of five is the
least with which neither codec of three-part frames can come to wait for ever; a larger one adds only waiting packets.

**switch_mesh.** Three nodes that list each other, two stations at different nodes, two frames,
two buffers per node: the least that makes the copies of a group frame wait
while the reader holds the original. Three nodes are the smallest mesh in which a
forwarded frame could circle; two frames let each station learn from the other's
frame and answer. Entries live for less than a second and the FDB threads run every second, so in the one event of
`MaxEvents`, a second or a move, lookup, refresh, add and expiry of the same address interleave in both orders on three nodes.

**switch_local.** Two stations behind the tap of one of two nodes, three frames, no time and no move: the tap reader learns the one, and crashes
when the other one sends it a frame. In `switch_mesh` a reader can crash only after the single move, and then
no frame is on its way to its node: that one which is does no harm, `GroupsDelivered` and `NoLoops` show, and no run.

**buffer_path.** One and two remote nodes in either direction, nine buffers (the least pool of `BufferPathAssumption`), two slots, one buffer in flight per codec.
All that matters is reached: everybody waits for everybody, in both directions, in a flood and after a missed wake-up; a woken thread finds nothing; the pool
runs dry while a dictionary is in it. The nodes differ in their names only, hence the symmetry.

**lifecycle.** One remote node, so seven threads, with every failure and any number of signals.

**config_start.** MTU and packet size below, at and above each limit, given or not; no, one or two destinations,
IPv4, IPv6, mapped, one that only looks mapped, one that does not parse, and two spellings of one node; sources,
ports and names of every kind; files that are missing, do not parse, hold a word for a number, or hold other values.
The start does not loop, so these sets are the only bounds.

**pool.** Three buffers, one waiting thread, `wait()` and `wait_for()` with and without a limit, wake-ups for nothing: a pool with one
taker, as the daemon has them. **pool_poppers.** The same with two threads in `pop_wait()`, as at the available pools.

### Fairness

- *Encoder*: weak fairness of the steps of the thread in a call, but not of the return of `pop_wait()`: whether a buffer is left for it is up to
  all the threads at the pool. So `CallsReturn` says that a call ends or stays in `pop_wait()` for ever.
- *Decoder, tunnel*: weak fairness of the steps of the thread in a call, there with `pop_wait()`, as nobody else takes from the pool of the run or it does not run dry,
  of the socket writer and of the tap writer, each a thread that loops for ever on
  its own queue. No fairness for frames, flushes or arriving packets, except
  that in the tunnel the network hands over what it has not lost and
  the timeout of `wait_for()` expires.
- *Lifecycle*: weak fairness of the main thread, of each thread that was started or has something in its pool, of
  the timeout and of `sleep()`. Frames, packets, signals and failures need not come.
- *Switch, buffer path, pool*: none. `GroupDelivered`, `DrainedOrFlooded` and `NoLostWakeup` say of states in which nothing moves any more that nothing is due.

`CHECK_DEADLOCK FALSE` is set for the encoder, which waits for ever when all buffers are frames queued behind it; where the bounds on frames, faults and
time end the behaviour, the tunnel and the switch; for the start and the life cycle, which end; and for the buffer path,
where the daemon may stand still, which `DrainedOrFlooded` is about.

## Where code and comments differ

- **A loss next to the wrap joins two frames** (`tunnel_wrap_loss`,
  `decoder.cpp:190`). A number that is smaller than expected by more than half the
  range is taken for the wrap, and the collected parts are kept, whether or not
  packets were lost between. With equal frame sizes the last part of another frame then fits. The
  comment at `decoder.cpp:179` wants to know whether packets were lost.
  Before half of the numbers are used up no such thing happens (`FramesIntact`). A restart of the sender followed by the loss
  of its first packet has the same effect: the new packet 2 continues the frame that the old packet 1 began (the Tunnel with `Faults = {"lose", "restart"}`, for which there is no run).
- **A frame for a local station** (`switch_local`, `packet_switch.cpp:276`). The
  comment at line 271 says a frame with a local target is ignored; `isLocal()`
  is not tested, and the null destination is followed. Two stations behind one tap are enough, when the one that was heard is sent a frame by the other.
- **Two threads in `pop_wait()`** (`pool_poppers`, `buffer_pool.hpp:143`). One is
  notified, the other takes the buffer before it has the mutex, and the first
  takes the front of an empty queue. The available pools have several threads in
  `pop_wait()`. The same two threads can also be left asleep in front of
  buffers when a list is pushed, which notifies one of them: see `DrainedOrFlooded`.

Smaller ones are in the models as the code has them, without a run:

- `wait_for()` returns true without buffers after a wake-up for nothing, though its comment promises
  buffers (`buffer_pool.hpp:237`; callers tolerate it).
- A payload format without a name is treated as not compressed, because the branch that refuses it
  (`decoder.cpp:357`) is nested in the condition that the format is known.
- `mtu_mutiplier` (`packet_switch.cpp:82`) is the outcome of a comparison, so the pools have 5000 buffers per destination
  and do not grow with the packets per frame, as the comment there says. `PoolsSuffice` shows that they are larger than what the threads own.
- `is_ipv4()` (`util.cpp:92`) tests two bytes of an IPv6 address and says no for an IPv4 address. Packets to an IPv6 peer
  with `0xFFFF` at bytes 10 and 11 can be 20 bytes too large, which `PathRespected` excepts; those to an IPv4
  peer are 20 bytes smaller than they could be.
- An IPv4 `--src` is accepted by `main()`, whose comment says it is converted to IPv6 (`main.cpp:333`), and can
  then not be bound to the IPv6 socket (`Bindable`).
- `--mtu` below 1500 without `--txsize` is refused, as the default packet size then exceeds it.
- A word for a number in the configuration file ends the program by an exception nobody catches (`Abort`).

- **`stop()` does not end the daemon.** The handler of SIGUSR1 says "Exiting..." (`superethd.cpp:33`) and sets a flag
  that a thread reads only at the top of its loop; threads that sleep in a pool or in a `read()` stay there, and `wait()`, which joins all of them, with
  them. So in `Lifecycle` a behaviour with a signal and no frame or packet after it never gets to `stage = "exited"`: TLC refutes `stop_flag ~> ~Alive` under `FairSpec`,
  and no property here says that the daemon ends. What holds is the safe side, `ExitsLast`. SIGUSR1 before the constructor has returned
  follows a null pointer, and `stop_flag` is never initialised, so a daemon may also be born stopped.
- **A direction may stop for good** (`BufferPath`), in two ways. In a flood: once every buffer beyond those of the threads is a frame or packet
  that waits for a codec, the codecs wait for a buffer to go on, and so does the reader. And by a missed wake-up: once the pool has run dry with two threads asleep in
  `pop_wait()`, a writer that returns a list wakes up one of them (`buffer_pool.hpp:191`), and the other may sleep on with buffers there and no flood, until some later
  `push()` picks it. `DrainedOrFlooded` shows that there is no third way: with
  the sizes of the program both need some 5000 buffers per destination under way at once.
- **The LZ4 dictionary is in a buffer that is given away** (`decoder.cpp:399`). With one remote node it is taken out of the pool again
  only when the pool runs dry (`DictionaryKept`); with two it comes up in turn, when the other node's decoder or the socket reader takes buffers faster than this
  one decodes the rest of its packet.
- **Two kinds of packets stop a decoder**: one with an item of a type that is none (`decoder.cpp:409`), at which the loop does not move on; and one with an
  unexpected part whose length leads the 16 bit position back to an item before (`decoder.cpp:461`, `decoder.cpp:581`), for example at position 8 with a `payload_length` of 65528. No
  encoder of the repository makes either. `CallsReturn` shows of every other packet of the run that its call ends.

Limits that the models make visible, and that hold by the sizes the program chooses:
the decoder waits for a buffer while it holds the packets of the frame's earlier parts
(`decoder.cpp:565`), so a pool not larger than a frame has parts stops it.

## The proofs

`tlapm` checks the eight modules completely. What is proved is the safety of each component, and of the tunnel that two of them make, for all values of the constants, from the
`ASSUME`s of the modules, which TLC evaluates in the runs and which the code justifies:

| Assumption | Says | Because |
|---|---|---|
| `Codec!SizeAssumption` | a packet has room for a header, an option header and the flush reserve; buffers hold a packet and a frame, and with an option header less than 65536 bytes; `SeqMax > 2` | `SizesAlwaysRight`: the constructors make no codec without it |
| `EncoderAssumption`, `DecoderAssumption` | pools have at least three buffers, frames are not empty | the pools have 5000 per destination |
| `TunnelAssumption` | pools have at least three buffers, compressed frames fit their buffer and are not empty; `SeqMax >= 5` | as above; `comp_buffer` is given to the compressors with its size; `SeqMax` is `UINT32_MAX` |
| `PacketsAssumption` | the items of a packet are what the loop finds until it leaves the packet or repeats itself | any bytes can be read so, see above |
| `SwitchAssumption` | finitely many nodes, each with a peer and not its own; two buffers or more | `main()` asks for a destination; a pool of one buffer could not even copy a frame |
| `BufferPathAssumption` | the pool is larger than what the threads own: two buffers and `MaxKept` per codec, and `Slots`; the tap writer is no remote node | `PoolsAlwaysSuffice` for decoders; an encoder keeps at most what fits into one packet, and 9218 bytes have room for 1024 items of one byte, far from 5000 |
| `ConfigAssumption` | options are of their type, destinations finite | |

### Packet encoder

For every MTU, path, buffer and pool size, every set of frames, every format and
every size `compress()` may return, with `Spec` of `PacketEncoder`:

| Theorem | Property |
|---|---|
| `TypeCorrect` | `TypeOK` |
| `PacketsAlwaysFit` | `PacketsFit` |
| `PartsAlwaysFit` | `RoomForPart` |
| `DictionaryAlwaysInFlight` | `DictionaryInFlight` |
| `NothingEverStranded` | `NothingStranded` |
| `BuffersConserved` | `BufferConservation` |
| `SequenceAlwaysContinuous` | `SequenceContinuous` |
| `UsesBuffers` | `BufferUse` |

`TypeOK` is inductive. The others are not: they speak of the packet and of what is
in flight without saying at which point of a call that is so. The inductive
invariant `IInv` adds

- `PacketShape`: the packet is a buffer unless a new one is awaited; it has its
  header only exactly if nothing was added, and then no option is counted;
- `WorkInHand`: where in a call there is a frame in hand, and that its position is
  within the blob;
- `RoomKept`: between calls, and at each part, the packet has room, because the end of `encode()`
  sends a packet that keeps less than the reserve;
- `StreamKept`: the dictionary is what is in flight, and both are empty when
  a call has sent the packet last;
- `SequenceKept`: the packets in the queue are numbered up to the present number.

There is one lemma per action and conjunct; arithmetic on sizes, facts about sequences and the
action's case split are kept in steps of their own.

`UsesBuffers` is a refinement: each action is a step of `CodecBuffers` or a stutter under the mapping in `PacketEncoder`.
The invariant supplies what the abstract guards ask for, above all that a packet is handed on only by a codec that has one.

### Packet decoder

For every set of packets, well formed, damaged or foreign, in any order:

| Theorem | Property |
|---|---|
| `TypeCorrect` | `TypeOK` |
| `AlwaysHousekept` | `Housekeeping` |
| `BuffersConserved` | `BufferConservation` |
| `UsesBuffers` | `BufferUse` |

`IInv` adds `WorkInPacket`, the position in the packet is the start of an item, which is inside it, and `StreamInStep`: the packets kept back
are those of the parts collected, one more at the end of a call that flushes, and where a stream must have been reset already.

### Buffer pool

For every set of buffers and every choice of methods:

| Theorem | Property | Condition |
|---|---|---|
| `EveryBufferOwned` | `OneOwner` | none: any number of waiters |
| `WakeupNeverLost` | `NoLostWakeup` | `Single`: one thread waits on the pool |
| `TrueMeansBuffers` | `TrueIfBuffers` | `Single` |

`TrueIfBuffers` excepts a thread that was woken for nothing. `Single` is so of the encoder, decoder, socket write and tap write
pools, on which `wait()` and `wait_for()` are called, and not of the available pools. `OneOwner` is inductive with `TypeOK`. For `NoLostWakeup` the strengthening is that the
waiter sleeps in front of an empty pool only: the push that ends this wakes it. For the last one it is a
handshake in both directions: once the thread is awake for a buffer the pool cannot become empty before it looks,
because nobody else takes buffers out.

### Switch

For every number of nodes, stations and frames, every relation of who lists whom, and every pool, expire time and period:

| Theorem | Property | Invariant |
|---|---|---|
| `TypeCorrect` | `TypeOK` | `PoolInv` |
| `NoLoops` | `SplitHorizon` | `RouteInv` |
| `TalkersAlwaysKnown`, `SilentAlwaysForgotten` | `TalkersKnown`, `SilentForgotten` | `AgesInv` |
| `GroupsDelivered` | `GroupDelivered` | `DeliveryInv` |
| `PlacesLearned` | `LearnedPlace` | `PlaceInv` |

- `RouteInv`: a frame is what was read under its number (`AllGenuine`), and on its way to a node it is in one stage only, once: to be copied,
  in the tunnel, waiting for the tap writer, in its hand, or written (`OneStage`, `AllDistinct`). So it cannot be written twice,
  and what comes out of a tunnel comes from the node at its other end.
- `AgesInv`: an entry was seen no earlier than its station's last frame was handled, and nothing is later than the clock; so the expiry
  takes no entry of a station that was heard in time, also when it comes between lookup and add.
- `PoolInv`: a buffer is available, in the reader's hand, or holds a frame for some node. With two or more a waiting reader waits only for frames that are under way. (A frame of a crashed reader stays in its hand.)
- `DeliveryInv`: a group frame is in one of those stages to every node that is to have it. When nothing moves any more only the last stage is left, or one of the two nodes has crashed.
- `PlaceInv`: until the first move frames come from where their source is, and tables and frames under way point to where the destination is.

The tunnels between the nodes are the *fifo* service of `FrameTransport`; the rest is as in the code.

### Buffer path

For any number of nodes, slots, buffers and batches, in both directions:

| Theorem | Property |
|---|---|
| `TypeCorrect` | `TypeOK` |
| `BuffersConserved` | `BufferConservation` |
| `DrainsUnlessFlooded` | `DrainedOrFlooded` |
| `CodecsUsePool` | `CodecContract` |
| `DictionarySafe` | `DictionaryKept` |

`BufferConservation` is inductive with `Typed`, which says where in its code each thread has how many buffers. It adds up over the nodes, with
`Total(count)` as the cardinality of a set of pairs; six lemmas give the sum what it needs: a step at one node changes it by as much, it is at least
any of its summands, and so on. An action moves buffers at one codec and one writer (`Balanced`); `Balance` concludes for all of them.

`DrainsUnlessFlooded` is arithmetic on the conserved sum, and on who sleeps. `SleepInv` says that only threads that want a buffer sleep or are woken, and
(`NoneMissed`) that as long as no list came to several sleepers there are no more buffers than woken threads while anybody sleeps: each push adds one of both, and each thread that takes
a buffer without having slept makes it one less. So when nothing moves and some thread sleeps, nobody is woken and the pool is empty; the writers have nothing,
so every buffer is with a reader, owned by a codec, or in the backlog. If nobody sleeps, nothing waits.

`CodecsUsePool` maps every codec to `CodecBuffers` at once. Together with `UsesBuffers` of the two codecs it closes the composition: they do with buffers no more
than `CodecBuffers` allows, and the threads around them keep to its other side. The guard `outside > 0` comes from conservation: a buffer
that the codec takes was not its own.

`DictionarySafe` needs the order of the buffers: in pool, writer's batch and write pool, from front to back, only the very last may bear
a mark (`LastMarked`), since a new mark goes to the end and removes the old one.

### Life cycle

For any number of remote nodes:

| Theorem | Property |
|---|---|
| `TypeCorrect` | `TypeOK` |
| `NobodyLeft` | `ExitsLast` |

`LifeInv` says up to which thread `start()` has come, that those before it were started (`Started`), and that those before the one
`wait()` is at have ended (`Joined`).

### Start

For every command line, file and set of hosts:

| Theorem | Property |
|---|---|
| `SizesAlwaysRight` | `CodecSized` |
| `PathAlwaysRespected` | `PathRespected` |
| `PeersAlwaysRecognised` | `PeersRecognised` |
| `TypeCorrect` | `TypeOK` |
| `PoolsAlwaysSuffice` | `PoolsSuffice` |

`IInv` says that what was accepted passed the limits and that a running daemon has what the constructors derive from
it (`Derived`). The rest is arithmetic on the limits (no 16-bit sum overflows; the smallest packet has room for its
headers; a buffer of the MTU's frame and a tenth holds a packet) and on the two forms of an address (both have the
same key, and the key determines the form the kernel reports).
`SizesAlwaysRight` closes a gap between the modules: the encoder is proved correct under `Codec`'s
`SizeAssumption`, and no daemon runs an encoder without it. `PoolsAlwaysSuffice` does the same for the pool of `BufferPath`: a frame of the largest MTU has
at most ten parts in packets of the smallest path, and every destination brings 5000 buffers.

### Tunnel

For all sizes, formats, pools, numbers of frames, packets under way and faults:

| Theorem | Property | Under |
|---|---|---|
| `FaultFreeTransport` | `TransportSpec`: every frame comes out, complete, once and in order | `Faults = {}` |
| `FaultyTransport` | `TransportSpec`: what is left of that after faults | `FaultsApart`, `[]Early` |
| `FramesIntact` | `Integrity`: nothing that comes out is altered | `FaultsApart`, `[]Early` |
| `DamageIsContained` | `DamageContained`: only frames are missing of which bytes were lost | `FaultsApart`, `[]Early` |

Without faults the number may wrap as often as it likes. With them, two things are excluded, and both are what
refutes the properties otherwise:

- `Early`: the encoder has used up no more than half of the numbers (2^31 packets since its start) if `Faults` is not empty. From then on a
  number may be so far behind the one expected that it is taken for the wrap, as in `tunnel_wrap_loss`, and the parts collected are kept.
- `FaultsApart`: restarts are not mixed with other faults. After a restart the numbers begin with 1 again, and if packet 1 is lost, packet 2 may be
  taken for the successor of the packet 1 of before. Any mixture of losses, duplicates and overtakings is allowed.

`Early` is about the sender alone, so it does not restrict what the network does, and the run `tunnel_loss` stays within it: its nine packets are far
from half of 50.

`TunnelInv` has four parts, each of which needs those before it:

- `Base`: whatever happens, what is under way is well formed. Each packet is a piece of a *stream*: its items follow each other from point to point, a point
  being what the next item must be (`Fresh`: a new frame, with this dictionary; `Inside`: this part of this blob, at this position).
  The encoder is at a point itself (`EncPoint`), and so is the decoder in the middle of a packet. Behind a packet both ends
  forget the dictionary that its last whole frame left (`End`). What the decoder has collected is the beginning of one blob, up to where it says.
  The items of a packet lie one behind the other and end with it (`Laid`), and the encoder never exceeds `L4MTU` (`EncRoom`): so the decoder's 16 bit position does not wrap here (`NextPlace`).
  The frames taken out of the encoder pool are those up to a number, and those still in it come next (`TakenGood`, `QueueGood`).
- `Low`: as long as the sender is early, so are the packets under way and the decoder, so its wrap test never applies.
- `Ord`, until something is repeated or overtakes: packets under way continue each other in number and point (`Chain`), but
  for a `Junction` where a loss or a restart took something away; and when the number is the one awaited, the decoder is in step with
  the point at which the next packet begins (`Sync`): it has what the item there continues, or it has nothing and the item will be skipped.
- `Links`, for losses, duplicates and overtakings, when order is lost: of all packets that are under way, any two with consecutive numbers continue
  each other, and the one after the decoder's last, if there is one, continues what the decoder has. That is what makes the comparison of a number enough to keep frames intact.

The step of the proof that matters is `Arrive`: the check at `decoder.cpp:179` keeps the collected parts only if the packet begins where they end.
All other steps keep every point where it is, or move both ends of it.

`DamageIsContained` needs more, the accounting of frames (`Accounted`): between two packets under way that do not continue each other, all frames are damaged (`Seams`);
the frames before the packet the decoder will read, and before the item it is at, have come out or are damaged (`DecFront`, `DecHand`); and if the decoder is about to find a
later part without having the earlier ones, that frame is damaged. When nothing moves any more (`Quiescent`) that is all frames accepted, for then the encoder pool is empty.

Of the wrap the proof uses one fact: the number the encoder sends after `s`, which at the end of the range is 1 (`Succ`), passes the decoder's check when `s` was the last. That needs `SeqMax >= 5`.

### Only model-checked

- Liveness (`CallsReturn`, `AllDelivered`, `NothingForgotten`): the prover has no rules for fairness, which needs `ENABLED`.
  So of the tunnel it is proved what comes out and in which order, not that it does.
- Where the items of a packet lie, by unfolding the recursive `ItemStarts`: the decoder's proofs use it through `WellFormed`, its recursion equation,
  which TLC evaluates for every packet of `MC_PacketDecoder`; induction over data is not available.

## What is not modelled

- *Bytes*: layout, byte order, checksums, the algorithms of LZ4 and ZSTD, the wording of logs and debug output.
- *Tap interface* (`tap_interface.cpp`): names, hardware address and the requests to the kernel; that they may fail is in `Lifecycle`.
- *Torn values*: two threads may write the same time stamp at once (`packet_switch.cpp:238`), and `stop_flag` is not atomic; both are read and
  written as wholes here.
- *Logs of errors in threads*: they change nothing. Failing `malloc()` and an address the kernel does not know end the process as other failures do.
- *Statistic, sequence data generator, packet construction kit*: used by tests, or read by nobody.
- *`tunnel.cpp`*: excluded from compilation.

## The plan

Done: all modules, and the proofs of the encoder, the decoder, the buffer pool, the buffer path, the switch, the life cycle, the start and the tunnel.

What would come next:

1. The tunnel with restarts and other faults together, under the condition that the first packet after a restart is not lost while packets of before the restart may continue.
2. The tunnel beyond half of the numbers, under the condition that no packet is lost next to the wrap.
3. The switch on top of `FrameTransport` with the services *ordered* and *any*, instead of *fifo*.
