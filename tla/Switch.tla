--------------------------------- MODULE Switch ---------------------------------
(***************************************************************************)
(* The packet switches of several nodes (src/src/packet_switch.cpp), each  *)
(* with its tap reader, tap writer and FDB thread, connected by tunnels    *)
(* that deliver in order (FrameTransport).                                 *)
(*                                                                         *)
(* A handler is cut where another thread of the node may come in: each     *)
(* section under fdb_mtx is a step, and so is each pop_wait() and push().  *)
(* The tap interface is online (Lifecycle has the start, when tap writers  *)
(* drop what comes too early); a frame with a group address as its source  *)
(* changes nothing in either handler and is not sent here, and no station  *)
(* sends to itself.  Stations of one node may send to each other.          *)
(***************************************************************************)
EXTENDS FDB, Integers, Sequences, FiniteSets

CONSTANTS
  Nodes,     \* the nodes: positive numbers, ordered like their keys
  Peers,     \* remote_nodes of each node
  MACs,      \* the stations
  Home,      \* the node a station is at first
  PoolSize,  \* buffers in available_rx_buffer_pool (thousands)
  Period,    \* seconds between two runs of the FDB thread (10)
  MaxFrames, \* bound: frames the stations send
  MaxEvents  \* bound: seconds that pass and moves of stations, together

Group == "group"  \* a broadcast or multicast address

ASSUME SwitchAssumption ==
  /\ Nodes \subseteq Nat \ {Local} /\ IsFiniteSet(Nodes)
  /\ Peers \in [Nodes -> SUBSET Nodes] /\ \A n \in Nodes : n \notin Peers[n]
  /\ \A n \in Nodes : Peers[n] # {}
  /\ Home \in [MACs -> Nodes] /\ Group \notin MACs
  /\ PoolSize \in Nat \ {0, 1} /\ Period \in Nat \ {0}
  /\ MaxFrames \in Nat /\ MaxEvents \in Nat

VARIABLES
  clock,         \* steady_clock, in seconds
  place,         \* node a station is at
  fdb,           \* forwarding database of each node
  due,           \* time the FDB thread of a node runs next
  reader,        \* tap reader of each node: [pc, frame, todo]
  writer,        \* tap writer of each node: [pc, frame, from]
  available,     \* buffers in available_rx_buffer_pool of each node
  encoder_pool,  \* frames on the way from one node to another
  tap_write_pool,\* frames for the tap writer of each node: [frame, from]
  sent,          \* frames read from the taps so far
  written,       \* frames written to the tap of each node
  heard,         \* when a node last handled a frame of a station
  moves          \* moves so far

time == <<clock, due>>
stations == <<place, sent, moves>>
tunnels == <<encoder_pool, available>>
vars == <<time, stations, fdb, reader, writer, tunnels, tap_write_pool,
          written, heard>>

NoFrame == [id |-> 0, src |-> Group, dst |-> Group, origin |-> Local]
NotYet == 0 - ExpireTime - Period - 1

(* The FDB thread runs for the first time at the start, and finds nothing   *)
(* that is old enough.                                                     *)
Init ==
  /\ clock = 0 /\ place = Home
  /\ fdb = [n \in Nodes |-> EmptyTable]
  /\ due = [n \in Nodes |-> Period]
  /\ reader = [n \in Nodes |-> [pc |-> "read", frame |-> NoFrame, todo |-> {}]]
  /\ writer = [n \in Nodes |-> [pc |-> "wait", frame |-> NoFrame, from |-> Local]]
  /\ available = [n \in Nodes |-> PoolSize - 1]
  /\ encoder_pool = [n \in Nodes |-> [m \in Peers[n] |-> <<>>]]
  /\ tap_write_pool = [n \in Nodes |-> <<>>]
  /\ sent = <<>> /\ moves = 0
  /\ written = [n \in Nodes |-> <<>>]
  /\ heard = [n \in Nodes |-> [mac \in MACs |-> NotYet]]

(* A null pointer ends the process, with all its threads. *)
Running(n) == reader[n].pc # "crashed"

Reading(n, pc) == reader' = [reader EXCEPT ![n].pc = pc]

(* The section under the shared lock: find and refresh. *)
Lookup(n, mac) ==
  /\ fdb' = IF Knows(fdb[n], mac)
            THEN [fdb EXCEPT ![n] = UpdateLastSeen(fdb[n], mac, clock)] ELSE fdb
  /\ heard' = [heard EXCEPT ![n][mac] = clock]

AfterLookup(n, mac, next) == IF Knows(fdb[n], mac) THEN next ELSE "learn"

(* The section under the unique lock: add. *)
Learn(n, mac, dest) ==
  /\ fdb' = [fdb EXCEPT ![n] = Add(fdb[n], mac, dest, clock)]
  /\ UNCHANGED heard

-----------------------------------------------------------------------------
(* tunnel_tap_read_handler: a frame of a station is read, its source looked *)
(* up.                                                                     *)
ReadTap(n) ==
  /\ reader[n].pc = "read"
  /\ Len(sent) < MaxFrames
  /\ \E src \in MACs, dst \in MACs \union {Group} :
       /\ place[src] = n /\ src # dst
       /\ reader' = [reader EXCEPT ![n] =
            [pc |-> AfterLookup(n, src, "forward"), todo |-> {},
             frame |-> [id |-> Len(sent) + 1, src |-> src, dst |-> dst, origin |-> n]]]
       /\ Lookup(n, src)
  /\ sent' = Append(sent, reader'[n].frame)
  /\ UNCHANGED <<time, place, moves, writer, tunnels, tap_write_pool, written>>

LearnLocal(n) ==
  /\ reader[n].pc = "learn"
  /\ Learn(n, reader[n].frame.src, Local)
  /\ Reading(n, "forward")
  /\ UNCHANGED <<time, stations, writer, tunnels, tap_write_pool, written>>

Queue(n, m) ==
  encoder_pool' = [encoder_pool EXCEPT ![n][m] = Append(@, reader[n].frame)]

(* A unicast frame goes to the node its destination is behind.  The code   *)
(* does not test isLocal(), so a local destination is a null pointer.      *)
ForwardUnicast(n) ==
  /\ reader[n].pc = "forward"
  /\ LET dst == reader[n].frame.dst
     IN  /\ dst # Group
         /\ IF ~Knows(fdb[n], dst)
            THEN Reading(n, "read") /\ UNCHANGED encoder_pool
            ELSE IF fdb[n][dst].dest = Local
                 THEN Reading(n, "crashed") /\ UNCHANGED encoder_pool
                 ELSE Reading(n, "getbuf") /\ Queue(n, fdb[n][dst].dest)
  /\ UNCHANGED <<time, stations, fdb, writer, available, tap_write_pool, written, heard>>

(* A group frame goes to all remote nodes ... *)
ForwardGroup(n) ==
  /\ reader[n].pc = "forward"
  /\ reader[n].frame.dst = Group
  /\ reader' = [reader EXCEPT ![n].pc = "group", ![n].todo = Peers[n]]
  /\ UNCHANGED <<time, stations, fdb, writer, tunnels, tap_write_pool, written, heard>>

NextNode(todo) == CHOOSE m \in todo : \A k \in todo : m <= k

(* ... as a copy, for which a buffer has to be there, to all but the last, *)
CopyToNode(n) ==
  /\ reader[n].pc = "group"
  /\ Cardinality(reader[n].todo) > 1
  /\ available[n] > 0
  /\ available' = [available EXCEPT ![n] = @ - 1]
  /\ Queue(n, NextNode(reader[n].todo))
  /\ reader' = [reader EXCEPT ![n].todo = @ \ {NextNode(@)}]
  /\ UNCHANGED <<time, stations, fdb, writer, tap_write_pool, written, heard>>

(* Mutants: the last node is skipped; the next frame is read into the       *)
(* buffer that was handed over.                                            *)
SendOriginal_Skip(n) ==
  /\ reader[n].pc = "group"
  /\ Cardinality(reader[n].todo) = 1
  /\ reader' = [reader EXCEPT ![n].pc = "read", ![n].todo = {}]
  /\ UNCHANGED <<time, stations, fdb, writer, tunnels, tap_write_pool, written, heard>>

SendOriginal_Keep(n) ==
  /\ reader[n].pc = "group"
  /\ Cardinality(reader[n].todo) = 1
  /\ Queue(n, NextNode(reader[n].todo))
  /\ reader' = [reader EXCEPT ![n].pc = "read", ![n].todo = {}]
  /\ UNCHANGED <<time, stations, fdb, writer, available, tap_write_pool, written, heard>>

(* and in its own buffer to the last. *)
SendOriginal(n) ==
  /\ reader[n].pc = "group"
  /\ Cardinality(reader[n].todo) = 1
  /\ Queue(n, NextNode(reader[n].todo))
  /\ reader' = [reader EXCEPT ![n].pc = "getbuf", ![n].todo = {}]
  /\ UNCHANGED <<time, stations, fdb, writer, available, tap_write_pool, written, heard>>

GetBuffer(n) ==
  /\ reader[n].pc = "getbuf"
  /\ available[n] > 0
  /\ available' = [available EXCEPT ![n] = @ - 1]
  /\ Reading(n, "read")
  /\ UNCHANGED <<time, stations, fdb, writer, encoder_pool, tap_write_pool, written, heard>>

TapReader(n) ==
  \/ LearnLocal(n) \/ ForwardUnicast(n) \/ ForwardGroup(n)
  \/ CopyToNode(n) \/ SendOriginal(n) \/ GetBuffer(n)

-----------------------------------------------------------------------------
(* Encoder, socket writer, network, socket reader and decoder: the oldest   *)
(* frame arrives, and its buffer goes back.  The socket reader takes        *)
(* packets from its own remote nodes only; a node that has crashed takes    *)
(* none.                                                                   *)
Carry(n, m) ==
  /\ Running(n) /\ encoder_pool[n][m] # <<>>
  /\ encoder_pool' = [encoder_pool EXCEPT ![n][m] = Tail(@)]
  /\ available' = [available EXCEPT ![n] = @ + 1]
  /\ tap_write_pool' =
       IF n \in Peers[m] /\ Running(m)
       THEN [tap_write_pool EXCEPT ![m] =
               Append(@, [frame |-> Head(encoder_pool[n][m]), from |-> n])]
       ELSE tap_write_pool
  /\ UNCHANGED <<time, stations, fdb, reader, writer, written, heard>>

(* tunnel_tap_write_handler *)
TakeFrame(n) ==
  /\ writer[n].pc = "wait"
  /\ tap_write_pool[n] # <<>>
  /\ LET next == Head(tap_write_pool[n])
     IN  /\ writer' = [writer EXCEPT ![n] =
              [pc |-> AfterLookup(n, next.frame.src, "write"),
               frame |-> next.frame, from |-> next.from]]
         /\ Lookup(n, next.frame.src)
  /\ tap_write_pool' = [tap_write_pool EXCEPT ![n] = Tail(@)]
  /\ UNCHANGED <<time, stations, reader, tunnels, written>>

(* Mutant: the source is entered as if it were local. *)
LearnRemote_Local(n) ==
  /\ writer[n].pc = "learn"
  /\ Learn(n, writer[n].frame.src, Local)
  /\ writer' = [writer EXCEPT ![n].pc = "write"]
  /\ UNCHANGED <<time, stations, reader, tunnels, tap_write_pool, written>>

LearnRemote(n) ==
  /\ writer[n].pc = "learn"
  /\ Learn(n, writer[n].frame.src, writer[n].from)
  /\ writer' = [writer EXCEPT ![n].pc = "write"]
  /\ UNCHANGED <<time, stations, reader, tunnels, tap_write_pool, written>>

(* Mutant: a group frame is passed on to the other nodes. *)
WriteTap_Flood(n) ==
  /\ writer[n].pc = "write"
  /\ written' = [written EXCEPT ![n] = Append(@, writer[n].frame)]
  /\ writer' = [writer EXCEPT ![n].pc = "wait"]
  /\ encoder_pool' = IF writer[n].frame.dst # Group THEN encoder_pool
       ELSE [encoder_pool EXCEPT ![n] =
              [m \in Peers[n] |-> IF m = writer[n].from THEN @[m]
                                  ELSE Append(@[m], writer[n].frame)]]
  /\ UNCHANGED <<time, stations, fdb, reader, available, tap_write_pool, heard>>

(* A frame from a tunnel goes to the tap, and nowhere else. *)
WriteTap(n) ==
  /\ writer[n].pc = "write"
  /\ written' = [written EXCEPT ![n] = Append(@, writer[n].frame)]
  /\ writer' = [writer EXCEPT ![n].pc = "wait"]
  /\ UNCHANGED <<time, stations, fdb, reader, tunnels, tap_write_pool, heard>>

TapWriter(n) == Running(n) /\ (TakeFrame(n) \/ LearnRemote(n) \/ WriteTap(n))

(* fdb_handler *)
ExpireEntries(n) ==
  /\ Running(n) /\ clock >= due[n]
  /\ fdb' = [fdb EXCEPT ![n] = Expire(fdb[n], clock)]
  /\ due' = [due EXCEPT ![n] = clock + Period]
  /\ UNCHANGED <<clock, stations, reader, writer, tunnels, tap_write_pool, written, heard>>

-----------------------------------------------------------------------------
(* The FDB thread is not held up for a second. *)
Tick ==
  /\ clock + moves < MaxEvents
  /\ \A n \in Nodes : Running(n) => clock < due[n]
  /\ clock' = clock + 1
  /\ UNCHANGED <<due, stations, fdb, reader, writer, tunnels, tap_write_pool, written, heard>>

(* A station is plugged in elsewhere. *)
Move ==
  /\ clock + moves < MaxEvents
  /\ moves' = moves + 1
  /\ \E mac \in MACs, n \in Nodes :
       n # place[mac] /\ place' = [place EXCEPT ![mac] = n]
  /\ UNCHANGED <<time, sent, fdb, reader, writer, tunnels, tap_write_pool, written, heard>>

Next ==
  \/ \E n \in Nodes : ReadTap(n) \/ TapReader(n) \/ TapWriter(n) \/ ExpireEntries(n)
  \/ \E n \in Nodes : \E m \in Peers[n] : Carry(n, m)
  \/ Tick \/ Move

Spec == Init /\ [][Next]_vars

-----------------------------------------------------------------------------
TypeOK ==
  /\ clock \in Nat /\ place \in [MACs -> Nodes]
  /\ \A n \in Nodes :
       /\ DOMAIN fdb[n] \subseteq MACs
       /\ \A mac \in DOMAIN fdb[n] :
            /\ fdb[n][mac].dest \in {Local} \union Peers[n]
            /\ fdb[n][mac].last_seen \in 0..clock
       /\ reader[n].pc \in {"read", "learn", "forward", "group", "getbuf", "crashed"}
       /\ reader[n].todo \subseteq Peers[n]
       /\ writer[n].pc \in {"wait", "learn", "write"}
       /\ available[n] \in 0..PoolSize

(* README.md:21: "split horizon switching which prevents loops of traffic   *)
(* between nodes": no frame is written to a tap twice, or to the tap it     *)
(* was read from, whatever the switches have learned.                      *)
SplitHorizon ==
  \A n \in Nodes : \A i \in DOMAIN written[n] :
    /\ written[n][i].origin # n
    /\ \A j \in DOMAIN written[n] : written[n][i].id = written[n][j].id => i = j

(* An address is entered under the node it is at, though reader and writer *)
(* look it up and add it in two sections; so a unicast frame is written to *)
(* no tap but its destination's, until a station moves.                    *)
LearnedPlace ==
  moves = 0 => \A n \in Nodes :
    /\ \A mac \in DOMAIN fdb[n] :
         fdb[n][mac].dest = IF place[mac] = n THEN Local ELSE place[mac]
    /\ \A i \in DOMAIN written[n] :
         written[n][i].dst \in {Group} \union {mac \in MACs : place[mac] = n}

(* fdb_handler: entries without traffic for the expire time are removed.   *)
(* An address that was looked up since then is known, or about to be added *)
(* again, however lookup, refresh, add and expiry interleave.              *)
Adding(n, mac) ==
  \/ reader[n].pc = "learn" /\ reader[n].frame.src = mac
  \/ writer[n].pc = "learn" /\ writer[n].frame.src = mac

TalkersKnown ==
  \A n \in Nodes, mac \in MACs :
    heard[n][mac] + ExpireTime >= clock => Knows(fdb[n], mac) \/ Adding(n, mac)

(* No entry, wherever it points, that was silent for longer than the       *)
(* expire time when the FDB thread ran last, at due - Period, is left or   *)
(* comes back by an add of the other threads with an old time.             *)
SilentForgotten ==
  \A n \in Nodes : \A mac \in DOMAIN fdb[n] :
    fdb[n][mac].last_seen + ExpireTime >= due[n] - Period

(* No thread has anything left to do, or can do it. *)
Quiet ==
  \A n \in Nodes : Running(n) =>
    /\ \/ reader[n].pc = "read"
       \/ reader[n].pc \in {"group", "getbuf"} /\ available[n] = 0
    /\ writer[n].pc = "wait" /\ tap_write_pool[n] = <<>>
    /\ \A m \in Peers[n] : encoder_pool[n][m] = <<>>

(* A group frame reaches every other node that lists the sender, although  *)
(* the copies need more buffers than the pool may have: when nothing moves *)
(* any more, it is at all of them, unless its sender or they have crashed. *)
GroupDelivered ==
  Quiet => \A i \in DOMAIN sent :
    sent[i].dst = Group /\ Running(sent[i].origin) =>
      \A m \in Peers[sent[i].origin] :
        sent[i].origin \in Peers[m] /\ Running(m) =>
          \E j \in DOMAIN written[m] : written[m][j] = sent[i]

(* packet_switch.cpp:271: "If we don't have a target or the target is      *)
(* local, then we need ignore this packet and just continue".              *)
LocalIgnored == \A n \in Nodes : Running(n)
=============================================================================
