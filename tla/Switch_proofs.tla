---------------------------- MODULE Switch_proofs ----------------------------
(***************************************************************************)
(* Type correctness of the switches and the safety properties their run    *)
(* checks, for every number of nodes and stations, every relation between  *)
(* the nodes, and every pool, expire time and period.                      *)
(***************************************************************************)
EXTENDS Switch, SequenceTheorems, FiniteSetTheorems, WellFoundedInduction, TLAPS

Elements(queue) == {queue[i] : i \in DOMAIN queue}

FrameType ==
  [id : Nat, src : MACs \union {Group}, dst : MACs \union {Group},
   origin : Nodes \union {Local}]

EntryType(n) == [dest : {Local} \union Peers[n], last_seen : Nat]

TableType(n) == UNION {[known -> EntryType(n)] : known \in SUBSET MACs}

(* What TypeOK leaves open: the shape of the frames and of the queues they *)
(* are in.                                                                 *)
ClockTyped == clock \in Nat /\ moves \in Nat /\ due \in [Nodes -> Int]

StationsTyped == place \in [MACs -> Nodes] /\ sent \in Seq(FrameType)

TablesTyped ==
  /\ DOMAIN fdb = Nodes /\ \A n \in Nodes : fdb[n] \in TableType(n)
  /\ heard \in [Nodes -> [MACs -> Int]]

ReaderType ==
  [pc : {"read", "learn", "forward", "group", "getbuf", "crashed"},
   frame : FrameType, todo : SUBSET Nodes]

ThreadsTyped ==
  /\ reader \in [Nodes -> ReaderType]
  /\ writer \in [Nodes -> [pc : {"wait", "learn", "write"}, frame : FrameType,
                           from : Nodes \union {Local}]]
  /\ \A n \in Nodes : reader[n].todo \subseteq Peers[n]

PoolsTyped ==
  /\ available \in [Nodes -> Int]
  /\ DOMAIN encoder_pool = Nodes
  /\ \A n \in Nodes : encoder_pool[n] \in [Peers[n] -> Seq(FrameType)]
  /\ tap_write_pool \in [Nodes -> Seq([frame : FrameType, from : Nodes])]
  /\ written \in [Nodes -> Seq(FrameType)]

Typed == ClockTyped /\ StationsTyped /\ TablesTyped /\ ThreadsTyped /\ PoolsTyped

(* Whom a thread deals with: what it reads, it has seen in its own station;  *)
(* what it writes comes from a remote node of its own.                     *)
Talking ==
  \A n \in Nodes :
    /\ reader[n].pc # "read" => reader[n].frame.src \in MACs
    /\ writer[n].pc # "wait" =>
         writer[n].frame.src \in MACs /\ writer[n].from \in Peers[n]
    /\ \A e \in Elements(tap_write_pool[n]) :
         e.frame.src \in MACs /\ e.from \in Peers[n]
    /\ \A m \in Peers[n] : \A f \in Elements(encoder_pool[n][m]) : f.src \in MACs

-----------------------------------------------------------------------------
LEMMA NodeFacts ==
  /\ Nodes \subseteq Nat \ {Local} /\ IsFiniteSet(Nodes)
  /\ DOMAIN Peers = Nodes
  /\ \A n \in Nodes : Peers[n] \subseteq Nodes /\ n \notin Peers[n]
  /\ \A n \in Nodes : IsFiniteSet(Peers[n])
BY SwitchAssumption, FS_Subset DEF SwitchAssumption

(* The copies go to a node that is still to be served: a finite set of      *)
(* numbers has a least one, since the numbers below it are the fewest.     *)
LEMMA NextNodeIn ==
  ASSUME NEW todo \in SUBSET Nodes, todo # {}
  PROVE  NextNode(todo) \in todo
<1> DEFINE below(m) == {k \in Nodes : k < m}
           T == {below(m) : m \in todo}
           R == StrictSubsetOrdering(Nodes)
<1>1. IsWellFoundedOn(R, SUBSET Nodes)
  BY NodeFacts, FS_StrictSubsetOrderingWellFounded, FS_FiniteSubsetsOfFinite
<1>2. T \subseteq SUBSET Nodes /\ T # {}
  OBVIOUS
<1>3. PICK t \in T : \A u \in T : ~(<<u, t>> \in R)
  <2> HIDE DEF T, R
  <2> QED BY <1>1, <1>2, WFMin
<1>4. PICK m \in todo : t = below(m)
  OBVIOUS
<1>5. ASSUME NEW k \in todo PROVE m <= k
  <2>1. k \in Nat /\ m \in Nat /\ k \in Nodes
    BY NodeFacts
  <2>2. SUFFICES ASSUME k < m PROVE FALSE
    BY <2>1
  <2>3. k \in below(m) /\ k \notin below(k)
    BY <2>1, <2>2
  <2>4. ASSUME NEW j \in Nodes, j < k PROVE j < m
    BY <2>1, <2>2, <2>4, NodeFacts
  <2>5. <<below(k), below(m)>> \in R
    BY <2>3, <2>4 DEF StrictSubsetOrdering
  <2> QED
    BY <1>3, <1>4, <2>5
<1> QED
  BY <1>5 DEF NextNode

(* The elements of what is left of a queue were in it. *)
LEMMA TailFacts ==
  ASSUME NEW S, NEW s \in Seq(S), s # <<>>
  PROVE  /\ Len(s) \in Nat \ {0} /\ DOMAIN s = 1..Len(s)
         /\ Head(s) \in S /\ Head(s) = s[1]
         /\ Tail(s) \in Seq(S) /\ Len(Tail(s)) = Len(s) - 1
         /\ DOMAIN Tail(s) = 1..(Len(s) - 1)
         /\ \A i \in DOMAIN Tail(s) : i + 1 \in DOMAIN s /\ Tail(s)[i] = s[i + 1]
<1>1. /\ Len(s) \in Nat /\ DOMAIN s = 1..Len(s)
      /\ Head(s) \in S /\ Head(s) = s[1]
      /\ Tail(s) \in Seq(S) /\ Len(Tail(s)) = Len(s) - 1
  BY HeadTailProperties, LenProperties
<1>2. Len(s) # 0
  BY EmptySeq
<1>3. DOMAIN Tail(s) = 1..(Len(s) - 1)
  BY <1>1, LenProperties
<1>4. \A i \in 1..(Len(s) - 1) : Tail(s)[i] = s[i + 1]
  BY <1>1, HeadTailProperties
<1> QED
  BY <1>1, <1>2, <1>3, <1>4

(* The elements of a queue with one more at its end. *)
LEMMA AppendFacts ==
  ASSUME NEW S, NEW s \in Seq(S), NEW e \in S
  PROVE  /\ Len(s) \in Nat /\ DOMAIN s = 1..Len(s)
         /\ Append(s, e) \in Seq(S) /\ Len(Append(s, e)) = Len(s) + 1
         /\ DOMAIN Append(s, e) = 1..(Len(s) + 1)
         /\ \A i \in DOMAIN s : Append(s, e)[i] = s[i]
         /\ Append(s, e)[Len(s) + 1] = e
<1>1. /\ Len(s) \in Nat /\ DOMAIN s = 1..Len(s)
      /\ Append(s, e) \in Seq(S) /\ Len(Append(s, e)) = Len(s) + 1
  BY AppendProperties, LenProperties
<1>2. DOMAIN Append(s, e) = 1..(Len(s) + 1)
  BY <1>1, LenProperties
<1> QED
  BY <1>1, <1>2, AppendProperties

LEMMA TailElements ==
  ASSUME NEW S, NEW s \in Seq(S), s # <<>>
  PROVE  /\ Head(s) \in Elements(s) /\ Elements(s) \subseteq S
         /\ Elements(s) = {Head(s)} \union Elements(Tail(s))
<1>1. /\ Len(s) \in Nat \ {0} /\ DOMAIN s = 1..Len(s)
      /\ Head(s) \in S /\ Head(s) = s[1]
      /\ DOMAIN Tail(s) = 1..(Len(s) - 1)
      /\ \A i \in DOMAIN Tail(s) : i + 1 \in DOMAIN s /\ Tail(s)[i] = s[i + 1]
  BY TailFacts
<1>2. ASSUME NEW i \in DOMAIN s PROVE s[i] = Head(s) \/ s[i] \in Elements(Tail(s))
  <2>1. i # 1 => i - 1 \in DOMAIN Tail(s) /\ (i - 1) + 1 = i
    BY <1>1
  <2> QED
    BY <1>1, <2>1 DEF Elements
<1>3. \A i \in DOMAIN s : s[i] \in S
  BY <1>1, ElementOfSeq
<1>4. 1 \in DOMAIN s
  BY <1>1
<1> QED
  BY <1>1, <1>2, <1>3, <1>4 DEF Elements

LEMMA AppendElements ==
  ASSUME NEW S, NEW s \in Seq(S), NEW e \in S
  PROVE  Elements(Append(s, e)) = Elements(s) \union {e}
<1>1. /\ Len(s) \in Nat /\ DOMAIN s = 1..Len(s)
      /\ DOMAIN Append(s, e) = 1..(Len(s) + 1)
      /\ \A i \in DOMAIN s : Append(s, e)[i] = s[i]
      /\ Append(s, e)[Len(s) + 1] = e
  BY AppendFacts
<1>2. DOMAIN Append(s, e) = DOMAIN s \union {Len(s) + 1}
  BY <1>1
<1> QED
  BY <1>1, <1>2 DEF Elements

(* What the operators of the forwarding database keep. *)
LEMMA AddTyped ==
  ASSUME NEW n \in Nodes, NEW table \in TableType(n), NEW mac \in MACs,
         NEW dest \in {Local} \union Peers[n], NEW now \in Nat
  PROVE  Add(table, mac, dest, now) \in TableType(n)
<1> DEFINE new == Add(table, mac, dest, now)
<1>1. PICK known \in SUBSET MACs : table \in [known -> EntryType(n)]
  BY DEF TableType
<1>2. [dest |-> dest, last_seen |-> now] \in EntryType(n)
  BY DEF EntryType
<1>3. new \in [known \union {mac} -> EntryType(n)]
  BY <1>1, <1>2 DEF Add, Knows
<1> QED
  BY <1>3 DEF TableType

LEMMA UpdateTyped ==
  ASSUME NEW n \in Nodes, NEW table \in TableType(n), NEW mac \in DOMAIN table,
         NEW now \in Nat
  PROVE  UpdateLastSeen(table, mac, now) \in TableType(n)
<1>1. PICK known \in SUBSET MACs : table \in [known -> EntryType(n)]
  BY DEF TableType
<1>2. UpdateLastSeen(table, mac, now) \in [known -> EntryType(n)]
  BY <1>1 DEF UpdateLastSeen, EntryType
<1> QED
  BY <1>2 DEF TableType

LEMMA ExpireTyped ==
  ASSUME NEW n \in Nodes, NEW table \in TableType(n), NEW now \in Nat
  PROVE  Expire(table, now) \in TableType(n)
<1>1. PICK known \in SUBSET MACs : table \in [known -> EntryType(n)]
  BY DEF TableType
<1>2. Expire(table, now) \in
        [{x \in known : now - table[x].last_seen <= ExpireTime} -> EntryType(n)]
  BY <1>1 DEF Expire
<1> QED
  BY <1>1, <1>2 DEF TableType

(* The two sections under the mutex of the forwarding database. *)
LEMMA LookupTyped ==
  ASSUME Typed, NEW n \in Nodes, NEW mac \in MACs, Lookup(n, mac)
  PROVE  TablesTyped'
<1>1. heard' \in [Nodes -> [MACs -> Int]]
  BY DEF Typed, ClockTyped, TablesTyped, Lookup
<1>2. CASE Knows(fdb[n], mac)
  <2>1. UpdateLastSeen(fdb[n], mac, clock) \in TableType(n)
    BY <1>2, UpdateTyped DEF Typed, ClockTyped, TablesTyped, Knows
  <2> QED
    BY <1>1, <1>2, <2>1 DEF Typed, TablesTyped, Lookup
<1>3. CASE ~Knows(fdb[n], mac)
  BY <1>1, <1>3 DEF Typed, TablesTyped, Lookup
<1> QED
  BY <1>2, <1>3

LEMMA LearnTyped ==
  ASSUME Typed, NEW n \in Nodes, NEW mac \in MACs,
         NEW dest \in {Local} \union Peers[n], Learn(n, mac, dest)
  PROVE  TablesTyped'
<1>1. Add(fdb[n], mac, dest, clock) \in TableType(n)
  BY AddTyped DEF Typed, ClockTyped, TablesTyped
<1> QED
  BY <1>1 DEF Typed, TablesTyped, Learn

LEMMA ReaderStep ==
  ASSUME Typed, NEW n \in Nodes, NEW r \in ReaderType, r.todo \subseteq Peers[n],
         reader' = [reader EXCEPT ![n] = r], UNCHANGED writer
  PROVE  ThreadsTyped'
BY DEF Typed, ThreadsTyped

LEMMA QueueTyped ==
  ASSUME Typed, NEW n \in Nodes, NEW m \in Peers[n], Queue(n, m)
  PROVE  /\ DOMAIN encoder_pool' = Nodes
         /\ \A k \in Nodes : encoder_pool'[k] \in [Peers[k] -> Seq(FrameType)]
<1>1. reader[n].frame \in FrameType
  BY DEF Typed, ThreadsTyped, ReaderType
<1>2. Append(encoder_pool[n][m], reader[n].frame) \in Seq(FrameType)
  BY <1>1, AppendProperties DEF Typed, PoolsTyped
<1> QED
  BY <1>2 DEF Typed, PoolsTyped, Queue

-----------------------------------------------------------------------------
(* Types, and whom a thread deals with, from state to state. *)
TalkingTyped == Typed /\ Talking

LEMMA InitTyped == Init => TalkingTyped
<1> SUFFICES ASSUME Init PROVE TalkingTyped
  OBVIOUS
<1> USE DEF Init
<1>1. NoFrame \in FrameType /\ NotYet \in Int
  BY ExpireAssumption, SwitchAssumption DEF NoFrame, NotYet, FrameType, SwitchAssumption
<1>2. ClockTyped /\ StationsTyped
  BY SwitchAssumption DEF ClockTyped, StationsTyped, SwitchAssumption
<1>3. TablesTyped
  <2>1. EmptyTable \in [{} -> EntryType(Local)] /\ DOMAIN EmptyTable = {}
    BY DEF EmptyTable
  <2>2. ASSUME NEW n \in Nodes PROVE EmptyTable \in [{} -> EntryType(n)]
    BY <2>1
  <2>3. ASSUME NEW n \in Nodes PROVE fdb[n] \in TableType(n)
    BY <2>2 DEF TableType
  <2> QED
    BY <1>1, <2>3 DEF TablesTyped
<1>4. ThreadsTyped
  BY <1>1 DEF ThreadsTyped, ReaderType
<1>5. PoolsTyped
  BY SwitchAssumption DEF PoolsTyped, SwitchAssumption
<1>6. Talking
  BY DEF Talking, Elements
<1> QED
  BY <1>2, <1>3, <1>4, <1>5, <1>6 DEF TalkingTyped, Typed

LEMMA TypedReadTap ==
  ASSUME TalkingTyped, NEW n \in Nodes, ReadTap(n)
  PROVE  TalkingTyped'
<1> USE DEF TalkingTyped
<1>1. PICK src \in MACs, dst \in MACs \union {Group} :
        /\ reader' = [reader EXCEPT ![n] =
             [pc |-> AfterLookup(n, src, "forward"), todo |-> {},
              frame |-> [id |-> Len(sent) + 1, src |-> src, dst |-> dst, origin |-> n]]]
        /\ Lookup(n, src)
  BY DEF ReadTap
<1> DEFINE frame == [id |-> Len(sent) + 1, src |-> src, dst |-> dst, origin |-> n]
<1>2. sent \in Seq(FrameType) /\ Len(sent) \in Nat
  BY LenProperties DEF Typed, StationsTyped
<1>3. frame \in FrameType
  BY <1>2 DEF FrameType
<1>4. AfterLookup(n, src, "forward") \in {"learn", "forward"}
  BY DEF AfterLookup
<1>5. DOMAIN reader = Nodes
  BY DEF Typed, ThreadsTyped, ReaderType
<1>6. reader'[n] = [pc |-> AfterLookup(n, src, "forward"), todo |-> {}, frame |-> frame]
  BY <1>1, <1>5
<1>7. sent' = Append(sent, frame)
  BY <1>6 DEF ReadTap
<1>8. sent' \in Seq(FrameType)
  BY <1>2, <1>3, <1>7, AppendProperties
<1>9. TablesTyped'
  BY <1>1, LookupTyped
<1>10. ThreadsTyped'
  BY <1>1, <1>3, <1>4, <1>6 DEF ReadTap, Typed, ThreadsTyped, ReaderType
<1>11. ClockTyped' /\ StationsTyped' /\ PoolsTyped'
  BY <1>8 DEF ReadTap, Typed, ClockTyped, StationsTyped, PoolsTyped, time, tunnels
<1>12. Talking'
  <2>1. \A k \in Nodes : reader'[k].pc # "read" => reader'[k].frame.src \in MACs
    BY <1>1, <1>5, <1>6 DEF Talking
  <2> QED
    BY <2>1 DEF Talking, ReadTap, tunnels
<1> QED
  BY <1>9, <1>10, <1>11, <1>12 DEF Typed

LEMMA TypedLearnLocal ==
  ASSUME TalkingTyped, NEW n \in Nodes, LearnLocal(n)
  PROVE  TalkingTyped'
<1> USE DEF TalkingTyped
<1>1. TablesTyped'
  BY LearnTyped DEF LearnLocal, Talking
<1>2. ThreadsTyped'
  BY DEF LearnLocal, Reading, Typed, ThreadsTyped, ReaderType
<1>3. ClockTyped' /\ StationsTyped' /\ PoolsTyped'
  BY DEF LearnLocal, Typed, ClockTyped, StationsTyped, PoolsTyped, time, tunnels, stations
<1>4. Talking'
  BY DEF Talking, LearnLocal, Reading, Typed, ThreadsTyped, ReaderType, tunnels
<1> QED
  BY <1>1, <1>2, <1>3, <1>4 DEF Typed

(* What a frame in the hand of the tap reader is queued with. *)
LEMMA QueueTalking ==
  ASSUME TalkingTyped, NEW n \in Nodes, NEW m \in Peers[n], Queue(n, m),
         reader[n].pc # "read"
  PROVE  \A k \in Nodes : \A l \in Peers[k] : \A f \in Elements(encoder_pool'[k][l]) :
           f.src \in MACs
<1> DEFINE queue == encoder_pool[n][m]
<1>1. queue \in Seq(FrameType) /\ reader[n].frame \in FrameType
  BY DEF TalkingTyped, Typed, PoolsTyped, ThreadsTyped, ReaderType
<1>2. encoder_pool' = [encoder_pool EXCEPT ![n] =
                         [encoder_pool[n] EXCEPT ![m] = Append(queue, reader[n].frame)]]
  BY DEF Queue
<1>3. Elements(Append(queue, reader[n].frame)) = Elements(queue) \union {reader[n].frame}
  BY <1>1, AppendElements
<1>4. \A f \in Elements(Append(queue, reader[n].frame)) : f.src \in MACs
  BY <1>3 DEF TalkingTyped, Talking
<1> QED
  BY <1>2, <1>4 DEF TalkingTyped, Typed, PoolsTyped, Talking

LEMMA TypedForwardUnicast ==
  ASSUME TalkingTyped, NEW n \in Nodes, ForwardUnicast(n)
  PROVE  TalkingTyped'
<1> USE DEF TalkingTyped
<1> DEFINE dst == reader[n].frame.dst
<1>1. Knows(fdb[n], dst) => fdb[n][dst].dest \in {Local} \union Peers[n]
  <2>1. PICK known \in SUBSET MACs : fdb[n] \in [known -> EntryType(n)]
    BY DEF Typed, TablesTyped, TableType
  <2> QED
    BY <2>1 DEF EntryType, Knows
<1>2. \/ UNCHANGED encoder_pool
      \/ \E m \in Peers[n] : Queue(n, m)
  BY <1>1 DEF ForwardUnicast
<1>3. reader[n].pc # "read"
  BY DEF ForwardUnicast
<1>4. /\ DOMAIN encoder_pool' = Nodes
      /\ \A k \in Nodes : encoder_pool'[k] \in [Peers[k] -> Seq(FrameType)]
  BY <1>2, QueueTyped DEF Typed, PoolsTyped
<1>5. \A k \in Nodes : \A l \in Peers[k] : \A f \in Elements(encoder_pool'[k][l]) :
        f.src \in MACs
  BY <1>2, <1>3, QueueTalking DEF Talking
<1>6. \E pc \in {"read", "crashed", "getbuf"} : Reading(n, pc)
  BY DEF ForwardUnicast
<1>7. ThreadsTyped'
  BY <1>6 DEF ForwardUnicast, Reading, Typed, ThreadsTyped, ReaderType
<1>8. ClockTyped' /\ StationsTyped' /\ TablesTyped' /\ PoolsTyped'
  BY <1>4 DEF ForwardUnicast, Typed, ClockTyped, StationsTyped, TablesTyped, PoolsTyped,
              time, stations
<1>9. Talking'
  BY <1>5, <1>6, <1>3 DEF Talking, ForwardUnicast, Reading, Typed, ThreadsTyped, ReaderType
<1> QED
  BY <1>7, <1>8, <1>9 DEF Typed

LEMMA TypedForwardGroup ==
  ASSUME TalkingTyped, NEW n \in Nodes, ForwardGroup(n)
  PROVE  TalkingTyped'
<1> USE DEF TalkingTyped
<1>1. ThreadsTyped'
  <2> DEFINE r == [reader[n] EXCEPT !.pc = "group", !.todo = Peers[n]]
  <2>1. reader' = [reader EXCEPT ![n] = r]
    BY DEF ForwardGroup
  <2>2. Peers[n] \in SUBSET Nodes /\ reader[n] \in ReaderType
    BY NodeFacts DEF Typed, ThreadsTyped, ReaderType
  <2>3. r \in ReaderType /\ r.todo \subseteq Peers[n]
    BY <2>2 DEF ReaderType
  <2> HIDE DEF r
  <2> QED
    BY <2>1, <2>3, ReaderStep DEF ForwardGroup
<1>2. ClockTyped' /\ StationsTyped' /\ TablesTyped' /\ PoolsTyped'
  BY DEF ForwardGroup, Typed, ClockTyped, StationsTyped, TablesTyped, PoolsTyped,
         time, stations, tunnels
<1>3. Talking'
  BY DEF Talking, ForwardGroup, Typed, ThreadsTyped, ReaderType, tunnels
<1> QED
  BY <1>1, <1>2, <1>3 DEF Typed

(* A frame for a group goes to one more node, whichever buffer it is in. *)
LEMMA TypedGroupQueue ==
  ASSUME TalkingTyped, NEW n \in Nodes, reader[n].pc = "group", reader[n].todo # {}
  PROVE  LET m == NextNode(reader[n].todo)
         IN  /\ m \in reader[n].todo /\ m \in Peers[n]
             /\ Queue(n, m) =>
                  /\ DOMAIN encoder_pool' = Nodes
                  /\ \A k \in Nodes : encoder_pool'[k] \in [Peers[k] -> Seq(FrameType)]
                  /\ \A k \in Nodes : \A l \in Peers[k] : \A f \in Elements(encoder_pool'[k][l]) :
                       f.src \in MACs
<1> DEFINE m == NextNode(reader[n].todo)
<1>1. reader[n].todo \subseteq Peers[n] /\ reader[n].todo \subseteq Nodes
  BY DEF TalkingTyped, Typed, ThreadsTyped, ReaderType
<1>2. m \in reader[n].todo /\ m \in Peers[n]
  BY <1>1, NextNodeIn
<1> HIDE DEF m
<1>3. Queue(n, m) =>
        /\ DOMAIN encoder_pool' = Nodes
        /\ \A k \in Nodes : encoder_pool'[k] \in [Peers[k] -> Seq(FrameType)]
  BY <1>2, QueueTyped DEF TalkingTyped
<1>4. Queue(n, m) =>
        \A k \in Nodes : \A l \in Peers[k] : \A f \in Elements(encoder_pool'[k][l]) :
           f.src \in MACs
  BY <1>2, QueueTalking
<1> QED
  BY <1>2, <1>3, <1>4 DEF m

LEMMA TodoCounted ==
  ASSUME TalkingTyped, NEW n \in Nodes
  PROVE  /\ IsFiniteSet(reader[n].todo) /\ Cardinality(reader[n].todo) \in Nat
         /\ Cardinality(reader[n].todo) = 0 <=> reader[n].todo = {}
BY NodeFacts, FS_Subset, FS_CardinalityType, FS_EmptySet
   DEF TalkingTyped, Typed, ThreadsTyped, ReaderType

LEMMA TypedCopyToNode ==
  ASSUME TalkingTyped, NEW n \in Nodes, CopyToNode(n)
  PROVE  TalkingTyped'
<1> USE DEF TalkingTyped
<1>1. reader[n].todo # {} /\ reader[n].pc = "group"
  BY TodoCounted DEF CopyToNode
<1> DEFINE m == NextNode(reader[n].todo)
<1>2. reader' = [reader EXCEPT ![n].todo = @ \ {m}]
  BY DEF CopyToNode
<1>3. Queue(n, m)
  BY DEF CopyToNode
<1>4. /\ DOMAIN encoder_pool' = Nodes
      /\ \A k \in Nodes : encoder_pool'[k] \in [Peers[k] -> Seq(FrameType)]
      /\ \A k \in Nodes : \A l \in Peers[k] : \A f \in Elements(encoder_pool'[k][l]) :
           f.src \in MACs
  BY <1>1, <1>3, TypedGroupQueue
<1> HIDE DEF m
<1>5. ThreadsTyped'
  BY <1>2 DEF CopyToNode, Typed, ThreadsTyped, ReaderType
<1>6. ClockTyped' /\ StationsTyped' /\ TablesTyped' /\ PoolsTyped'
  <2>1. available' \in [Nodes -> Int]
    BY DEF CopyToNode, Typed, PoolsTyped
  <2>2. PoolsTyped'
    BY <1>4, <2>1 DEF CopyToNode, Typed, PoolsTyped
  <2> QED
    BY <2>2 DEF CopyToNode, Typed, ClockTyped, StationsTyped, TablesTyped, time, stations
<1>7. Talking'
  BY <1>2, <1>4 DEF Talking, CopyToNode, Typed, ThreadsTyped, ReaderType
<1> QED
  BY <1>5, <1>6, <1>7 DEF Typed

LEMMA TypedSendOriginal ==
  ASSUME TalkingTyped, NEW n \in Nodes, SendOriginal(n)
  PROVE  TalkingTyped'
<1> USE DEF TalkingTyped
<1>1. reader[n].todo # {} /\ reader[n].pc = "group"
  BY TodoCounted DEF SendOriginal
<1>2. Queue(n, NextNode(reader[n].todo))
  BY DEF SendOriginal
<1>3. /\ DOMAIN encoder_pool' = Nodes
      /\ \A k \in Nodes : encoder_pool'[k] \in [Peers[k] -> Seq(FrameType)]
      /\ \A k \in Nodes : \A l \in Peers[k] : \A f \in Elements(encoder_pool'[k][l]) :
           f.src \in MACs
  BY <1>1, <1>2, TypedGroupQueue
<1>4. ThreadsTyped'
  <2> DEFINE r == [reader[n] EXCEPT !.pc = "getbuf", !.todo = {}]
  <2>1. reader' = [reader EXCEPT ![n] = r]
    BY DEF SendOriginal
  <2>2. reader[n] \in ReaderType
    BY DEF Typed, ThreadsTyped, ReaderType
  <2>3. r \in ReaderType /\ r.todo \subseteq Peers[n]
    BY <2>2 DEF ReaderType
  <2> HIDE DEF r
  <2> QED
    BY <2>1, <2>3, ReaderStep DEF SendOriginal
<1>5. ClockTyped' /\ StationsTyped' /\ TablesTyped' /\ PoolsTyped'
  BY <1>3 DEF SendOriginal, Typed, ClockTyped, StationsTyped, TablesTyped, PoolsTyped,
              time, stations
<1>6. Talking'
  BY <1>1, <1>3 DEF Talking, SendOriginal, Typed, ThreadsTyped, ReaderType
<1> QED
  BY <1>4, <1>5, <1>6 DEF Typed

LEMMA TypedGetBuffer ==
  ASSUME TalkingTyped, NEW n \in Nodes, GetBuffer(n)
  PROVE  TalkingTyped'
<1> USE DEF TalkingTyped
<1>1. ThreadsTyped'
  BY DEF GetBuffer, Reading, Typed, ThreadsTyped, ReaderType
<1>2. ClockTyped' /\ StationsTyped' /\ TablesTyped' /\ PoolsTyped'
  <2>1. available' \in [Nodes -> Int]
    BY DEF GetBuffer, Typed, PoolsTyped
  <2>2. PoolsTyped'
    BY <2>1 DEF GetBuffer, Typed, PoolsTyped
  <2> QED
    BY <2>2 DEF GetBuffer, Typed, ClockTyped, StationsTyped, TablesTyped, time, stations
<1>3. Talking'
  BY DEF Talking, GetBuffer, Reading, Typed, ThreadsTyped, ReaderType
<1> QED
  BY <1>1, <1>2, <1>3 DEF Typed

(* A frame from n is taken up at m, *)
Reached(n, m) == n \in Peers[m] /\ Running(m)

(* and the queues then. *)
LEMMA CarryQueues ==
  ASSUME TalkingTyped, NEW n \in Nodes, NEW m \in Peers[n], Carry(n, m)
  PROVE  LET queue == encoder_pool[n][m]
             entry == [frame |-> Head(queue), from |-> n]
         IN  /\ m \in Nodes
             /\ queue \in Seq(FrameType) /\ queue # <<>>
             /\ tap_write_pool[m] \in Seq([frame : FrameType, from : Nodes])
             /\ entry \in [frame : FrameType, from : Nodes]
             /\ encoder_pool' = [encoder_pool EXCEPT ![n] =
                                   [encoder_pool[n] EXCEPT ![m] = Tail(queue)]]
             /\ Reached(n, m) =>
                  tap_write_pool' =
                    [tap_write_pool EXCEPT ![m] = Append(tap_write_pool[m], entry)]
             /\ ~Reached(n, m) => UNCHANGED tap_write_pool
<1> DEFINE queue == encoder_pool[n][m]
<1>1. m \in Nodes
  BY NodeFacts
<1>2. queue \in Seq(FrameType) /\ queue # <<>>
  BY DEF Carry, TalkingTyped, Typed, PoolsTyped
<1>3. Head(queue) \in FrameType
  BY <1>2, TailFacts
<1> QED
  BY <1>1, <1>2, <1>3 DEF Carry, Reached, TalkingTyped, Typed, PoolsTyped

LEMMA TypedCarry ==
  ASSUME TalkingTyped, NEW n \in Nodes, NEW m \in Peers[n], Carry(n, m)
  PROVE  TalkingTyped'
<1> USE DEF TalkingTyped
<1> DEFINE queue == encoder_pool[n][m]
           entry == [frame |-> Head(queue), from |-> n]
           E == [frame : FrameType, from : Nodes]
<1>1. /\ m \in Nodes /\ queue \in Seq(FrameType) /\ queue # <<>>
      /\ tap_write_pool[m] \in Seq(E) /\ entry \in E
      /\ encoder_pool' = [encoder_pool EXCEPT ![n] =
                            [encoder_pool[n] EXCEPT ![m] = Tail(queue)]]
      /\ Reached(n, m) =>
           tap_write_pool' = [tap_write_pool EXCEPT ![m] = Append(tap_write_pool[m], entry)]
      /\ ~Reached(n, m) => UNCHANGED tap_write_pool
  BY CarryQueues
<1>2. /\ Tail(queue) \in Seq(FrameType) /\ Head(queue) \in Elements(queue)
      /\ Elements(Tail(queue)) \subseteq Elements(queue)
  BY <1>1, TailFacts, TailElements
<1>3. /\ Append(tap_write_pool[m], entry) \in Seq(E)
      /\ Elements(Append(tap_write_pool[m], entry)) = Elements(tap_write_pool[m]) \union {entry}
  <2> HIDE DEF entry, E, queue
  <2>1. Append(tap_write_pool[m], entry) \in Seq(E)
    BY <1>1, AppendFacts
  <2> QED
    BY <1>1, <2>1, AppendElements
<1>4. available' \in [Nodes -> Int]
  BY DEF Carry, Typed, PoolsTyped
<1>5. /\ DOMAIN encoder_pool' = Nodes
      /\ \A k \in Nodes : encoder_pool'[k] \in [Peers[k] -> Seq(FrameType)]
  BY <1>1, <1>2 DEF Typed, PoolsTyped
<1>6. tap_write_pool' \in [Nodes -> Seq(E)]
  BY <1>1, <1>3 DEF Typed, PoolsTyped
<1>7. PoolsTyped'
  BY <1>4, <1>5, <1>6 DEF Carry, Typed, PoolsTyped
<1>8. ClockTyped' /\ StationsTyped' /\ TablesTyped' /\ ThreadsTyped'
  BY DEF Carry, Typed, ClockTyped, StationsTyped, TablesTyped, ThreadsTyped, time, stations
<1>9. \A k \in Nodes : \A l \in Peers[k] : \A f \in Elements(encoder_pool'[k][l]) :
        f.src \in MACs
  BY <1>1, <1>2 DEF Talking, Typed, PoolsTyped
<1>10. entry.frame.src \in MACs /\ entry.from = n
  BY <1>2 DEF Talking
<1>11. \A k \in Nodes : \A e \in Elements(tap_write_pool'[k]) :
         e.frame.src \in MACs /\ e.from \in Peers[k]
  <2> HIDE DEF entry, queue
  <2> QED BY <1>1, <1>3, <1>10 DEF Talking, Typed, PoolsTyped, Reached
<1>12. Talking'
  BY <1>9, <1>11 DEF Talking, Carry
<1> QED
  BY <1>7, <1>8, <1>12 DEF Typed

LEMMA TypedTakeFrame ==
  ASSUME TalkingTyped, NEW n \in Nodes, TakeFrame(n)
  PROVE  TalkingTyped'
<1> USE DEF TalkingTyped
<1> DEFINE queue == tap_write_pool[n]
           next == Head(queue)
           E == [frame : FrameType, from : Nodes]
<1>1. queue \in Seq(E) /\ queue # <<>>
  BY DEF TakeFrame, Typed, PoolsTyped
<1>2. /\ next \in E /\ Tail(queue) \in Seq(E) /\ next \in Elements(queue)
      /\ Elements(Tail(queue)) \subseteq Elements(queue)
  <2> HIDE DEF E, queue
  <2>1. Head(queue) \in E /\ Tail(queue) \in Seq(E)
    BY <1>1, TailFacts
  <2> QED
    BY <1>1, <2>1, TailElements
<1>3. next.frame.src \in MACs /\ next.from \in Peers[n]
  BY <1>2 DEF Talking
<1>4. /\ writer' = [writer EXCEPT ![n] =
           [pc |-> AfterLookup(n, next.frame.src, "write"),
            frame |-> next.frame, from |-> next.from]]
      /\ Lookup(n, next.frame.src)
      /\ tap_write_pool' = [tap_write_pool EXCEPT ![n] = Tail(queue)]
  BY DEF TakeFrame
<1> HIDE DEF next
<1>5. TablesTyped'
  BY <1>3, <1>4, LookupTyped
<1>6. AfterLookup(n, next.frame.src, "write") \in {"learn", "write"}
  BY DEF AfterLookup
<1>7. ThreadsTyped'
  BY <1>2, <1>4, <1>6 DEF TakeFrame, Typed, ThreadsTyped
<1>8. PoolsTyped'
  <2>1. tap_write_pool' \in [Nodes -> Seq(E)]
    BY <1>2, <1>4 DEF Typed, PoolsTyped
  <2> QED
    BY <2>1 DEF TakeFrame, Typed, PoolsTyped, tunnels
<1>9. ClockTyped' /\ StationsTyped'
  BY DEF TakeFrame, Typed, ClockTyped, StationsTyped, time, stations
<1>10. \A k \in Nodes : writer'[k].pc # "wait" =>
         writer'[k].frame.src \in MACs /\ writer'[k].from \in Peers[k]
  BY <1>3, <1>4 DEF Talking, Typed, ThreadsTyped
<1>11. \A k \in Nodes : \A e \in Elements(tap_write_pool'[k]) :
         e.frame.src \in MACs /\ e.from \in Peers[k]
  BY <1>2, <1>4 DEF Talking, Typed, PoolsTyped
<1>12. Talking'
  BY <1>10, <1>11 DEF Talking, TakeFrame, tunnels
<1> QED
  BY <1>5, <1>7, <1>8, <1>9, <1>12 DEF Typed

LEMMA TypedLearnRemote ==
  ASSUME TalkingTyped, NEW n \in Nodes, LearnRemote(n)
  PROVE  TalkingTyped'
<1> USE DEF TalkingTyped
<1>1. TablesTyped'
  BY LearnTyped DEF LearnRemote, Talking
<1>2. ThreadsTyped'
  BY DEF LearnRemote, Typed, ThreadsTyped
<1>3. ClockTyped' /\ StationsTyped' /\ PoolsTyped'
  BY DEF LearnRemote, Typed, ClockTyped, StationsTyped, PoolsTyped, time, tunnels, stations
<1>4. Talking'
  BY DEF Talking, LearnRemote, Typed, ThreadsTyped, tunnels
<1> QED
  BY <1>1, <1>2, <1>3, <1>4 DEF Typed

LEMMA TypedWriteTap ==
  ASSUME TalkingTyped, NEW n \in Nodes, WriteTap(n)
  PROVE  TalkingTyped'
<1> USE DEF TalkingTyped
<1>1. writer[n].frame \in FrameType
  BY DEF Typed, ThreadsTyped
<1>2. ThreadsTyped'
  BY DEF WriteTap, Typed, ThreadsTyped
<1>3. written' \in [Nodes -> Seq(FrameType)]
  BY <1>1, AppendProperties DEF WriteTap, Typed, PoolsTyped
<1>4. ClockTyped' /\ StationsTyped' /\ TablesTyped' /\ PoolsTyped'
  BY <1>3 DEF WriteTap, Typed, ClockTyped, StationsTyped, TablesTyped, PoolsTyped,
              time, tunnels, stations
<1>5. Talking'
  BY DEF Talking, WriteTap, Typed, ThreadsTyped, tunnels
<1> QED
  BY <1>2, <1>4, <1>5 DEF Typed

LEMMA TypedExpireEntries ==
  ASSUME TalkingTyped, NEW n \in Nodes, ExpireEntries(n)
  PROVE  TalkingTyped'
<1> USE DEF TalkingTyped
<1>1. Expire(fdb[n], clock) \in TableType(n)
  BY ExpireTyped DEF Typed, ClockTyped, TablesTyped
<1>2. TablesTyped'
  BY <1>1 DEF ExpireEntries, Typed, TablesTyped
<1>3. clock + Period \in Int
  BY SwitchAssumption DEF SwitchAssumption, Typed, ClockTyped
<1>4. ClockTyped'
  BY <1>3 DEF ExpireEntries, Typed, ClockTyped, stations
<1>5. StationsTyped' /\ ThreadsTyped' /\ PoolsTyped' /\ Talking'
  BY DEF ExpireEntries, Typed, StationsTyped, ThreadsTyped, PoolsTyped, Talking,
         tunnels, stations
<1> QED
  BY <1>2, <1>4, <1>5 DEF Typed

LEMMA TypedTick ==
  ASSUME TalkingTyped, Tick
  PROVE  TalkingTyped'
<1>1. ClockTyped'
  BY DEF Tick, TalkingTyped, Typed, ClockTyped, stations
<1>2. Talking'
  BY DEF Tick, TalkingTyped, Talking, tunnels
<1> QED
  BY <1>1, <1>2 DEF Tick, TalkingTyped, Typed, StationsTyped, TablesTyped, ThreadsTyped,
                    PoolsTyped, tunnels, stations

LEMMA TypedMove ==
  ASSUME TalkingTyped, Move
  PROVE  TalkingTyped'
<1>1. StationsTyped'
  BY DEF Move, TalkingTyped, Typed, StationsTyped
<1>2. Talking'
  BY DEF Move, TalkingTyped, Talking, tunnels
<1>3. ClockTyped'
  BY DEF Move, TalkingTyped, Typed, ClockTyped, time
<1> QED
  BY <1>1, <1>2, <1>3 DEF Move, TalkingTyped, Typed, TablesTyped, ThreadsTyped,
                          PoolsTyped, tunnels

LEMMA TypedStutter ==
  ASSUME TalkingTyped, UNCHANGED vars
  PROVE  TalkingTyped'
<1>1. Talking'
  BY DEF vars, TalkingTyped, Talking, tunnels
<1> QED
  BY <1>1 DEF vars, TalkingTyped, Typed, ClockTyped, StationsTyped, TablesTyped,
              ThreadsTyped, PoolsTyped, tunnels, stations, time

(* Which step a step is. *)
LEMMA Steps ==
  ASSUME [Next]_vars
  PROVE  \/ \E n \in Nodes :
              \/ ReadTap(n) \/ LearnLocal(n) \/ ForwardUnicast(n) \/ ForwardGroup(n)
              \/ CopyToNode(n) \/ SendOriginal(n) \/ GetBuffer(n)
              \/ TakeFrame(n) \/ LearnRemote(n) \/ WriteTap(n) \/ ExpireEntries(n)
         \/ \E n \in Nodes : \E m \in Peers[n] : Carry(n, m)
         \/ Tick \/ Move \/ UNCHANGED vars
BY DEF Next, TapReader, TapWriter

LEMMA NextTyped == TalkingTyped /\ [Next]_vars => TalkingTyped'
<1> SUFFICES ASSUME TalkingTyped, [Next]_vars PROVE TalkingTyped'
  OBVIOUS
<1> QED
  BY Steps, TypedReadTap, TypedLearnLocal, TypedForwardUnicast, TypedForwardGroup,
     TypedCopyToNode, TypedSendOriginal, TypedGetBuffer, TypedTakeFrame,
     TypedLearnRemote, TypedWriteTap, TypedExpireEntries, TypedCarry, TypedTick,
     TypedMove, TypedStutter

LEMMA AlwaysTyped == Spec => []TalkingTyped
<1>1. Init => TalkingTyped
  BY InitTyped
<1>2. TalkingTyped /\ [Next]_vars => TalkingTyped'
  BY NextTyped
<1> QED
  BY <1>1, <1>2, PTL DEF Spec

-----------------------------------------------------------------------------
(* Times.  What TalkersKnown and SilentForgotten rest on: an entry was seen *)
(* no earlier than the last frame of its station was handled, and nothing  *)
(* is later than the clock.                                                *)
Ages ==
  \A n \in Nodes :
    /\ due[n] - Period <= clock
    /\ \A mac \in MACs : heard[n][mac] <= clock
    /\ \A mac \in DOMAIN fdb[n] :
         heard[n][mac] <= fdb[n][mac].last_seen /\ fdb[n][mac].last_seen <= clock

AgesInv == TalkingTyped /\ Ages /\ TalkersKnown /\ SilentForgotten

LEMMA Times ==
  ASSUME TalkingTyped
  PROVE  /\ clock \in Nat /\ ExpireTime \in Nat /\ Period \in Nat \ {0}
         /\ \A n \in Nodes :
              /\ due[n] \in Int
              /\ \A mac \in MACs : heard[n][mac] \in Int
              /\ DOMAIN fdb[n] \subseteq MACs
              /\ \A mac \in DOMAIN fdb[n] :
                   /\ fdb[n][mac].last_seen \in Nat
                   /\ fdb[n][mac].dest \in {Local} \union Peers[n]
<1>1. /\ clock \in Nat /\ due \in [Nodes -> Int]
      /\ heard \in [Nodes -> [MACs -> Int]]
  BY DEF TalkingTyped, Typed, ClockTyped, TablesTyped
<1>2. ASSUME NEW n \in Nodes
      PROVE  /\ DOMAIN fdb[n] \subseteq MACs
             /\ \A mac \in DOMAIN fdb[n] :
                  /\ fdb[n][mac].last_seen \in Nat
                  /\ fdb[n][mac].dest \in {Local} \union Peers[n]
  <2>1. PICK known \in SUBSET MACs : fdb[n] \in [known -> EntryType(n)]
    BY DEF TalkingTyped, Typed, TablesTyped, TableType
  <2>2. \A e \in EntryType(n) : e.last_seen \in Nat /\ e.dest \in {Local} \union Peers[n]
    BY DEF EntryType
  <2> QED
    BY <2>1, <2>2
<1> QED
  BY <1>1, <1>2, ExpireAssumption, SwitchAssumption DEF SwitchAssumption

(* What the two sections do to the tables. *)
LEMMA LookupEffect ==
  ASSUME TalkingTyped, NEW n \in Nodes, NEW mac \in MACs, Lookup(n, mac)
  PROVE  /\ \A k \in Nodes : \A x \in MACs :
              heard'[k][x] = IF k = n /\ x = mac THEN clock ELSE heard[k][x]
         /\ \A k \in Nodes :
              /\ DOMAIN fdb'[k] = DOMAIN fdb[k]
              /\ \A x \in DOMAIN fdb[k] :
                   /\ fdb'[k][x].dest = fdb[k][x].dest
                   /\ fdb'[k][x].last_seen =
                        IF k = n /\ x = mac THEN clock ELSE fdb[k][x].last_seen
<1>1. \A k \in Nodes : \A x \in MACs :
        heard'[k][x] = IF k = n /\ x = mac THEN clock ELSE heard[k][x]
  BY DEF Lookup, TalkingTyped, Typed, TablesTyped
<1>2. DOMAIN fdb = Nodes
  BY DEF TalkingTyped, Typed, TablesTyped
<1>3. PICK known \in SUBSET MACs : fdb[n] \in [known -> EntryType(n)]
  BY DEF TalkingTyped, Typed, TablesTyped, TableType
<1>4. CASE Knows(fdb[n], mac)
  <2> DEFINE new == UpdateLastSeen(fdb[n], mac, clock)
  <2>1. fdb' = [fdb EXCEPT ![n] = new]
    BY <1>4 DEF Lookup
  <2>2. /\ DOMAIN new = known
        /\ \A x \in known : new[x].dest = fdb[n][x].dest
        /\ \A x \in known : new[x].last_seen = IF x = mac THEN clock ELSE fdb[n][x].last_seen
    BY <1>3, <1>4 DEF UpdateLastSeen, EntryType, Knows
  <2> HIDE DEF new
  <2> QED
    BY <1>1, <1>2, <1>3, <2>1, <2>2
<1>5. CASE ~Knows(fdb[n], mac)
  BY <1>1, <1>5 DEF Lookup, Knows
<1> QED
  BY <1>4, <1>5

LEMMA LearnEffect ==
  ASSUME TalkingTyped, NEW n \in Nodes, NEW mac, NEW dest, Learn(n, mac, dest)
  PROVE  /\ heard' = heard
         /\ \A k \in Nodes :
              /\ DOMAIN fdb'[k] = DOMAIN fdb[k] \union (IF k = n THEN {mac} ELSE {})
              /\ \A x \in DOMAIN fdb'[k] :
                   fdb'[k][x] = IF x \in DOMAIN fdb[k] THEN fdb[k][x]
                                ELSE [dest |-> dest, last_seen |-> clock]
<1>1. DOMAIN fdb = Nodes
  BY DEF TalkingTyped, Typed, TablesTyped
<1>2. fdb' = [fdb EXCEPT ![n] = Add(fdb[n], mac, dest, clock)] /\ heard' = heard
  BY DEF Learn
<1> QED
  BY <1>1, <1>2 DEF Add, Knows

LEMMA LookupAges ==
  ASSUME AgesInv, NEW n \in Nodes, NEW mac \in MACs, Lookup(n, mac), UNCHANGED time
  PROVE  Ages' /\ SilentForgotten'
<1> USE DEF AgesInv
<1>1. clock' = clock /\ due' = due
  BY DEF time
<1>2. ASSUME NEW k \in Nodes
      PROVE  /\ due'[k] - Period <= clock'
             /\ \A x \in MACs : heard'[k][x] <= clock'
  BY <1>1, Times, LookupEffect DEF Ages
<1>3. ASSUME NEW k \in Nodes, NEW x \in DOMAIN fdb'[k]
      PROVE  /\ heard'[k][x] <= fdb'[k][x].last_seen
             /\ fdb'[k][x].last_seen <= clock'
             /\ fdb'[k][x].last_seen + ExpireTime >= due'[k] - Period
  <2>1. x \in DOMAIN fdb[k] /\ x \in MACs
    BY Times, LookupEffect
  <2> DEFINE old == fdb[k][x].last_seen
             d == due[k]
             h == heard[k][x]
  <2>2. old \in Nat /\ d \in Int /\ h \in Int /\ clock \in Nat /\ ExpireTime \in Nat
        /\ Period \in Nat
    BY <2>1, Times
  <2>3. h <= old /\ old <= clock /\ d - Period <= clock /\ old + ExpireTime >= d - Period
    BY <2>1 DEF Ages, SilentForgotten
  <2>4. fdb'[k][x].last_seen = (IF k = n /\ x = mac THEN clock ELSE old)
        /\ heard'[k][x] = (IF k = n /\ x = mac THEN clock ELSE h)
        /\ due'[k] = d
    BY <1>1, <2>1, LookupEffect
  <2> HIDE DEF old, d, h
  <2> QED
    BY <1>1, <2>2, <2>3, <2>4
<1> QED
  BY <1>2, <1>3 DEF Ages, SilentForgotten

LEMMA LearnAges ==
  ASSUME AgesInv, NEW n \in Nodes, NEW mac \in MACs, NEW dest, Learn(n, mac, dest),
         UNCHANGED time
  PROVE  Ages' /\ SilentForgotten'
<1> USE DEF AgesInv
<1>1. clock' = clock /\ due' = due /\ heard' = heard
  BY LearnEffect DEF time
<1>2. ASSUME NEW k \in Nodes
      PROVE  /\ due'[k] - Period <= clock'
             /\ \A x \in MACs : heard'[k][x] <= clock'
  BY <1>1 DEF Ages
<1>3. ASSUME NEW k \in Nodes, NEW x \in DOMAIN fdb'[k]
      PROVE  /\ heard'[k][x] <= fdb'[k][x].last_seen
             /\ fdb'[k][x].last_seen <= clock'
             /\ fdb'[k][x].last_seen + ExpireTime >= due'[k] - Period
  <2>1. CASE x \in DOMAIN fdb[k]
    <3>1. fdb'[k][x] = fdb[k][x]
      BY <2>1, LearnEffect
    <3> QED
      BY <1>1, <2>1, <3>1 DEF Ages, SilentForgotten
  <2>2. CASE x \notin DOMAIN fdb[k]
    <3>1. x \in MACs /\ fdb'[k][x] = [dest |-> dest, last_seen |-> clock]
      BY <2>2, LearnEffect, Times
    <3> DEFINE d == due[k]
               h == heard[k][x]
    <3>2. d \in Int /\ h \in Int /\ clock \in Nat /\ ExpireTime \in Nat /\ Period \in Nat
      BY <3>1, Times
    <3>3. h <= clock /\ d - Period <= clock
      BY <3>1 DEF Ages
    <3>4. fdb'[k][x].last_seen = clock /\ due'[k] = d /\ heard'[k][x] = h
      BY <1>1, <3>1
    <3> HIDE DEF d, h
    <3> QED
      BY <1>1, <3>2, <3>3, <3>4
  <2> QED
    BY <2>1, <2>2
<1> QED
  BY <1>2, <1>3 DEF Ages, SilentForgotten

(* The steps that have to do with the tables. *)
LEMMA AgesReadTap ==
  ASSUME AgesInv, NEW n \in Nodes, ReadTap(n)
  PROVE  Ages' /\ TalkersKnown' /\ SilentForgotten'
<1> USE DEF AgesInv
<1>1. PICK src \in MACs, dst \in MACs \union {Group} :
        /\ reader' = [reader EXCEPT ![n] =
             [pc |-> AfterLookup(n, src, "forward"), todo |-> {},
              frame |-> [id |-> Len(sent) + 1, src |-> src, dst |-> dst, origin |-> n]]]
        /\ Lookup(n, src)
  BY DEF ReadTap
<1>2. UNCHANGED time /\ UNCHANGED writer /\ reader[n].pc = "read"
  BY DEF ReadTap
<1>3. DOMAIN reader = Nodes
  BY DEF TalkingTyped, Typed, ThreadsTyped
<1>4. ASSUME NEW k \in Nodes, NEW x \in MACs, heard'[k][x] + ExpireTime >= clock'
      PROVE  Knows(fdb'[k], x) \/ Adding(k, x)'
  <2>1. Knows(fdb'[k], x) <=> Knows(fdb[k], x)
    BY <1>1, LookupEffect DEF Knows
  <2>2. CASE k = n /\ x = src
    <3>1. /\ reader'[n].pc = AfterLookup(n, src, "forward")
          /\ reader'[n].frame.src = src
      BY <1>1, <1>3
    <3> QED
      BY <2>1, <2>2, <3>1 DEF AfterLookup, Adding
  <2>3. CASE ~(k = n /\ x = src)
    <3>1. heard'[k][x] = heard[k][x] /\ clock' = clock
      BY <1>1, <1>2, <2>3, LookupEffect DEF time
    <3>2. Knows(fdb[k], x) \/ Adding(k, x)
      BY <1>4, <3>1 DEF TalkersKnown
    <3>3. k # n => reader'[k] = reader[k]
      BY <1>1, <1>3
    <3> QED
      BY <1>2, <2>1, <3>2, <3>3 DEF Adding
  <2> QED
    BY <2>2, <2>3
<1> QED
  BY <1>1, <1>2, <1>4, LookupAges DEF TalkersKnown

LEMMA AgesTakeFrame ==
  ASSUME AgesInv, NEW n \in Nodes, TakeFrame(n)
  PROVE  Ages' /\ TalkersKnown' /\ SilentForgotten'
<1> USE DEF AgesInv
<1> DEFINE next == Head(tap_write_pool[n])
           src == next.frame.src
<1>1. /\ writer' = [writer EXCEPT ![n] =
           [pc |-> AfterLookup(n, src, "write"), frame |-> next.frame, from |-> next.from]]
      /\ Lookup(n, src)
      /\ UNCHANGED time /\ UNCHANGED reader /\ writer[n].pc = "wait"
  BY DEF TakeFrame
<1>2. src \in MACs
  <2>1. /\ tap_write_pool[n] \in Seq([frame : FrameType, from : Nodes])
        /\ tap_write_pool[n] # <<>>
    BY DEF TakeFrame, TalkingTyped, Typed, PoolsTyped
  <2>2. next \in Elements(tap_write_pool[n])
    BY <2>1, TailElements
  <2> QED
    BY <2>2 DEF TalkingTyped, Talking
<1>3. DOMAIN writer = Nodes
  BY DEF TalkingTyped, Typed, ThreadsTyped
<1>4. /\ writer'[n].pc = AfterLookup(n, src, "write") /\ writer'[n].frame.src = src
      /\ \A k \in Nodes : k # n => writer'[k] = writer[k]
  BY <1>1, <1>3
<1> HIDE DEF src, next
<1>5. ASSUME NEW k \in Nodes, NEW x \in MACs, heard'[k][x] + ExpireTime >= clock'
      PROVE  Knows(fdb'[k], x) \/ Adding(k, x)'
  <2>1. Knows(fdb'[k], x) <=> Knows(fdb[k], x)
    BY <1>1, <1>2, LookupEffect DEF Knows
  <2>2. CASE k = n /\ x = src
    BY <1>4, <2>1, <2>2 DEF AfterLookup, Adding
  <2>3. CASE ~(k = n /\ x = src)
    <3>1. heard'[k][x] = heard[k][x] /\ clock' = clock
      BY <1>1, <1>2, <2>3, LookupEffect DEF time
    <3>2. Knows(fdb[k], x) \/ Adding(k, x)
      BY <1>5, <3>1 DEF TalkersKnown
    <3> QED
      BY <1>1, <1>4, <2>1, <3>2 DEF Adding
  <2> QED
    BY <2>2, <2>3
<1> QED
  BY <1>1, <1>2, <1>5, LookupAges DEF TalkersKnown

(* After a section that adds, the address is known; so it may be done with. *)
LEMMA AgesLearn ==
  ASSUME AgesInv, NEW n \in Nodes, LearnLocal(n) \/ LearnRemote(n)
  PROVE  Ages' /\ TalkersKnown' /\ SilentForgotten'
<1> USE DEF AgesInv
<1>1. PICK mac \in MACs, dest \in Nodes \union {Local} :
        /\ Learn(n, mac, dest) /\ UNCHANGED time
        /\ \A k \in Nodes : \A x \in MACs :
             Adding(k, x) => Adding(k, x)' \/ (k = n /\ x = mac)
  <2>1. CASE LearnLocal(n)
    <3>1. /\ Learn(n, reader[n].frame.src, Local)
          /\ reader[n].frame.src \in MACs /\ UNCHANGED time /\ UNCHANGED writer
      BY <2>1 DEF LearnLocal, TalkingTyped, Talking
    <3>2. \A k \in Nodes : k # n => reader'[k] = reader[k]
      BY <2>1 DEF LearnLocal, Reading, TalkingTyped, Typed, ThreadsTyped
    <3>3. \A k \in Nodes : \A x \in MACs :
            Adding(k, x) => Adding(k, x)' \/ (k = n /\ x = reader[n].frame.src)
      <4> SUFFICES ASSUME NEW k \in Nodes, NEW x \in MACs, Adding(k, x),
                          ~(k = n /\ x = reader[n].frame.src)
                   PROVE  Adding(k, x)'
        OBVIOUS
      <4>1. \/ writer[k].pc = "learn" /\ writer[k].frame.src = x
            \/ reader[k].pc = "learn" /\ reader[k].frame.src = x /\ k # n
        BY DEF Adding
      <4>2. writer' = writer
        BY <3>1
      <4> QED
        BY <3>2, <4>1, <4>2 DEF Adding
    <3> QED
      BY <3>1, <3>3
  <2>2. CASE LearnRemote(n)
    <3>1. /\ Learn(n, writer[n].frame.src, writer[n].from)
          /\ writer[n].frame.src \in MACs /\ writer[n].from \in Peers[n]
          /\ UNCHANGED time /\ UNCHANGED reader
      BY <2>2 DEF LearnRemote, TalkingTyped, Talking
    <3>2. \A k \in Nodes : k # n => writer'[k] = writer[k]
      BY <2>2 DEF LearnRemote, TalkingTyped, Typed, ThreadsTyped
    <3>3. \A k \in Nodes : \A x \in MACs :
            Adding(k, x) => Adding(k, x)' \/ (k = n /\ x = writer[n].frame.src)
      <4> SUFFICES ASSUME NEW k \in Nodes, NEW x \in MACs, Adding(k, x),
                          ~(k = n /\ x = writer[n].frame.src)
                   PROVE  Adding(k, x)'
        OBVIOUS
      <4>1. \/ reader[k].pc = "learn" /\ reader[k].frame.src = x
            \/ writer[k].pc = "learn" /\ writer[k].frame.src = x /\ k # n
        BY DEF Adding
      <4>2. reader' = reader
        BY <3>1
      <4> QED
        BY <3>2, <4>1, <4>2 DEF Adding
    <3> QED
      BY <3>1, <3>3, NodeFacts
  <2> QED
    BY <2>1, <2>2
<1>2. ASSUME NEW k \in Nodes, NEW x \in MACs, heard'[k][x] + ExpireTime >= clock'
      PROVE  Knows(fdb'[k], x) \/ Adding(k, x)'
  <2>1. heard' = heard /\ clock' = clock
    BY <1>1, LearnEffect DEF time
  <2>2. Knows(fdb[k], x) \/ Adding(k, x)
    BY <1>2, <2>1 DEF TalkersKnown
  <2>3. DOMAIN fdb'[k] = DOMAIN fdb[k] \union (IF k = n THEN {mac} ELSE {})
    BY <1>1, LearnEffect
  <2>4. /\ Knows(fdb[k], x) => Knows(fdb'[k], x)
        /\ k = n /\ x = mac => Knows(fdb'[k], x)
    BY <2>3 DEF Knows
  <2> QED
    BY <1>1, <2>2, <2>4
<1> QED
  BY <1>1, <1>2, LearnAges DEF TalkersKnown

LEMMA AgesExpire ==
  ASSUME AgesInv, NEW n \in Nodes, ExpireEntries(n)
  PROVE  Ages' /\ TalkersKnown' /\ SilentForgotten'
<1> USE DEF AgesInv
<1>1. /\ clock' = clock /\ heard' = heard /\ reader' = reader /\ writer' = writer
      /\ fdb' = [fdb EXCEPT ![n] = Expire(fdb[n], clock)]
      /\ due' = [due EXCEPT ![n] = clock + Period]
  BY DEF ExpireEntries
<1>2. /\ DOMAIN fdb = Nodes /\ DOMAIN due = Nodes
  BY DEF TalkingTyped, Typed, TablesTyped, ClockTyped
<1>3. ASSUME NEW k \in Nodes
      PROVE  /\ due'[k] = IF k = n THEN clock + Period ELSE due[k]
             /\ \A x \in DOMAIN fdb'[k] : x \in DOMAIN fdb[k] /\ fdb'[k][x] = fdb[k][x]
             /\ \A x \in DOMAIN fdb[k] :
                  \/ x \in DOMAIN fdb'[k]
                  \/ k = n /\ ~(clock - fdb[n][x].last_seen <= ExpireTime)
             /\ k = n => \A x \in DOMAIN fdb'[k] : clock - fdb[n][x].last_seen <= ExpireTime
  BY <1>1, <1>2 DEF Expire
<1>4. ASSUME NEW k \in Nodes
      PROVE  /\ due'[k] - Period <= clock'
             /\ \A x \in MACs : heard'[k][x] <= clock'
  <2>1. clock \in Nat /\ Period \in Nat /\ due[k] - Period <= clock
    BY Times DEF Ages
  <2>2. (clock + Period) - Period <= clock
    BY <2>1
  <2> QED
    BY <1>1, <1>3, <2>1, <2>2 DEF Ages
<1>5. ASSUME NEW k \in Nodes, NEW x \in DOMAIN fdb'[k]
      PROVE  /\ heard'[k][x] <= fdb'[k][x].last_seen
             /\ fdb'[k][x].last_seen <= clock'
             /\ fdb'[k][x].last_seen + ExpireTime >= due'[k] - Period
  <2>1. x \in DOMAIN fdb[k] /\ fdb'[k][x] = fdb[k][x]
    BY <1>3
  <2> DEFINE old == fdb[k][x].last_seen
  <2>2. old \in Nat /\ clock \in Nat /\ ExpireTime \in Nat /\ Period \in Nat
    BY <2>1, Times
  <2>3. /\ old + ExpireTime >= due[k] - Period
        /\ k = n => clock - old <= ExpireTime
    BY <1>3, <2>1 DEF SilentForgotten
  <2>4. fdb'[k][x].last_seen = old
    BY <2>1
  <2> HIDE DEF old
  <2>5. k = n => old + ExpireTime >= (clock + Period) - Period
    BY <2>2, <2>3
  <2>6. old + ExpireTime >= due'[k] - Period
    BY <1>3, <2>3, <2>5
  <2> USE DEF old
  <2> QED
    BY <1>1, <2>1, <2>4, <2>6 DEF Ages
<1>6. ASSUME NEW k \in Nodes, NEW x \in MACs, heard'[k][x] + ExpireTime >= clock'
      PROVE  Knows(fdb'[k], x) \/ Adding(k, x)'
  <2>1. Knows(fdb[k], x) \/ Adding(k, x)
    BY <1>1, <1>6 DEF TalkersKnown
  <2>2. ASSUME x \in DOMAIN fdb[k] PROVE x \in DOMAIN fdb'[k]
    <3> DEFINE old == fdb[k][x].last_seen
               h == heard[k][x]
    <3>1. old \in Nat /\ h \in Int /\ clock \in Nat /\ ExpireTime \in Nat
      BY <2>2, Times
    <3>2. h <= old /\ h + ExpireTime >= clock
      BY <1>1, <1>6, <2>2 DEF Ages
    <3>3. x \in DOMAIN fdb'[k] \/ ~(clock - old <= ExpireTime)
      BY <1>3, <2>2
    <3> HIDE DEF old, h
    <3> QED
      BY <3>1, <3>2, <3>3
  <2> QED
    BY <1>1, <2>1, <2>2 DEF Knows, Adding
<1> QED
  BY <1>4, <1>5, <1>6 DEF Ages, TalkersKnown, SilentForgotten

LEMMA AgesTick ==
  ASSUME AgesInv, Tick
  PROVE  Ages' /\ TalkersKnown' /\ SilentForgotten'
<1> USE DEF AgesInv
<1>1. /\ clock' = clock + 1 /\ UNCHANGED <<due, fdb, heard, reader, writer>>
  BY DEF Tick
<1>2. clock \in Nat /\ ExpireTime \in Nat /\ Period \in Nat
  BY Times
<1>3. Ages'
  <2>1. ASSUME NEW i \in Int, i <= clock PROVE i <= clock + 1
    BY <1>2, <2>1
  <2>2. ASSUME NEW k \in Nodes
        PROVE  /\ due[k] - Period <= clock + 1
               /\ \A x \in MACs : heard[k][x] <= clock + 1
               /\ \A x \in DOMAIN fdb[k] : fdb[k][x].last_seen <= clock + 1
    BY <1>2, <2>1, Times DEF Ages
  <2> QED
    BY <1>1, <2>2 DEF Ages
<1>4. TalkersKnown'
  <2>1. ASSUME NEW i \in Int, i + ExpireTime >= clock + 1 PROVE i + ExpireTime >= clock
    BY <1>2, <2>1
  <2>2. \A k \in Nodes : \A x \in MACs : heard[k][x] \in Int
    BY Times
  <2> QED
    BY <1>1, <2>1, <2>2 DEF TalkersKnown, Adding
<1> QED
  BY <1>1, <1>3, <1>4 DEF SilentForgotten

(* The others have nothing to do with them. *)
LEMMA AgesOther ==
  ASSUME AgesInv, UNCHANGED <<time, fdb, heard>>,
         \A k \in Nodes : \A x \in MACs : Adding(k, x) => Adding(k, x)'
  PROVE  Ages' /\ TalkersKnown' /\ SilentForgotten'
<1> USE DEF AgesInv
<1>1. TalkersKnown'
  BY DEF TalkersKnown, time
<1> QED
  BY <1>1 DEF Ages, SilentForgotten, time

LEMMA NextAges == AgesInv /\ [Next]_vars => AgesInv'
<1> SUFFICES ASSUME AgesInv, [Next]_vars PROVE AgesInv'
  OBVIOUS
<1>1. TalkingTyped'
  BY NextTyped DEF AgesInv
<1> DEFINE Same == UNCHANGED <<time, fdb, heard>>
           Still == \A k \in Nodes : \A x \in MACs : Adding(k, x) => Adding(k, x)'
<1>2. SUFFICES ASSUME Same, Still PROVE Ages' /\ TalkersKnown' /\ SilentForgotten'
  <2>1. CASE Same /\ Still
    BY <1>1, <1>2, <2>1, AgesOther DEF AgesInv
  <2>2. ASSUME NEW n \in Nodes,
               ForwardUnicast(n) \/ ForwardGroup(n) \/ CopyToNode(n) \/ SendOriginal(n)
                 \/ GetBuffer(n)
        PROVE  Same /\ Still
    <3>1. Same /\ writer' = writer /\ reader[n].pc # "learn"
      BY <2>2 DEF ForwardUnicast, ForwardGroup, CopyToNode, SendOriginal, GetBuffer
    <3>2. \A k \in Nodes : k # n => reader'[k] = reader[k]
      BY <2>2 DEF ForwardUnicast, ForwardGroup, CopyToNode, SendOriginal, GetBuffer,
                  Reading, AgesInv, TalkingTyped, Typed, ThreadsTyped
    <3> QED
      BY <3>1, <3>2 DEF Adding
  <2>3. ASSUME NEW n \in Nodes, WriteTap(n) PROVE Same /\ Still
    <3>1. Same /\ reader' = reader /\ writer[n].pc # "learn"
      BY <2>3 DEF WriteTap
    <3>2. \A k \in Nodes : k # n => writer'[k] = writer[k]
      BY <2>3 DEF WriteTap, AgesInv, TalkingTyped, Typed, ThreadsTyped
    <3> QED
      BY <3>1, <3>2 DEF Adding
  <2>4. ASSUME Move \/ UNCHANGED vars \/ \E n \in Nodes : \E m \in Peers[n] : Carry(n, m)
        PROVE  Same /\ Still
    <3>1. Same /\ reader' = reader /\ writer' = writer
      BY <2>4 DEF Move, Carry, vars
    <3> QED
      BY <3>1 DEF Adding
  <2> QED
    BY <1>1, <2>1, <2>2, <2>3, <2>4, Steps, AgesReadTap, AgesTakeFrame, AgesLearn,
       AgesExpire, AgesTick DEF AgesInv
<1> QED
  BY <1>2, AgesOther

-----------------------------------------------------------------------------
(* Frames.  On its way to a node a frame is pending in the tap reader, in   *)
(* the tunnel, waiting for the tap writer, in its hand, or written.        *)
Pending(n, m) ==
  IF reader[n].pc \in {"learn", "forward"} \/ (reader[n].pc = "group" /\ m \in reader[n].todo)
  THEN {reader[n].frame} ELSE {}
InTunnel(n, m) == Elements(encoder_pool[n][m])
Waiting(m) == {e.frame : e \in Elements(tap_write_pool[m])}
Writing(m) == IF writer[m].pc = "wait" THEN {} ELSE {writer[m].frame}
Written(m) == Elements(written[m])
Arrived(m) == Waiting(m) \union Writing(m) \union Written(m)

(* A frame is what was sent under its number, by the node it comes from. *)
Genuine(f) == f.id \in DOMAIN sent /\ sent[f.id] = f

AllGenuine ==
  /\ \A i \in DOMAIN sent :
       sent[i].id = i /\ sent[i].src \in MACs /\ sent[i].origin \in Nodes
  /\ \A n \in Nodes :
       /\ reader[n].pc # "read" => Genuine(reader[n].frame) /\ reader[n].frame.origin = n
       /\ writer[n].pc # "wait" =>
            Genuine(writer[n].frame) /\ writer[n].frame.origin = writer[n].from
       /\ \A m \in Peers[n] : \A f \in InTunnel(n, m) : Genuine(f) /\ f.origin = n
       /\ \A e \in Elements(tap_write_pool[n]) : Genuine(e.frame) /\ e.frame.origin = e.from
       /\ \A f \in Written(n) : Genuine(f) /\ f.origin \in Peers[n]

(* A frame is on its way to a node once. *)
Distinct(queue) == \A i, j \in DOMAIN queue : queue[i] = queue[j] => i = j

AllDistinct ==
  \A n \in Nodes :
    /\ Distinct(tap_write_pool[n]) /\ Distinct(written[n])
    /\ \A m \in Peers[n] : Distinct(encoder_pool[n][m])

OneStage ==
  /\ \A m \in Nodes :
       /\ Waiting(m) \intersect Writing(m) = {}
       /\ (Waiting(m) \union Writing(m)) \intersect Written(m) = {}
  /\ \A n \in Nodes : \A m \in Peers[n] :
       /\ InTunnel(n, m) \intersect Arrived(m) = {}
       /\ Pending(n, m) \intersect (InTunnel(n, m) \union Arrived(m)) = {}

RouteInv == TalkingTyped /\ AllGenuine /\ AllDistinct /\ OneStage

LEMMA DistinctTail ==
  ASSUME NEW S, NEW s \in Seq(S), s # <<>>, Distinct(s)
  PROVE  Distinct(Tail(s)) /\ Head(s) \notin Elements(Tail(s))
<1>1. /\ Len(s) \in Nat \ {0} /\ DOMAIN s = 1..Len(s) /\ Head(s) = s[1]
      /\ DOMAIN Tail(s) = 1..(Len(s) - 1)
      /\ \A i \in DOMAIN Tail(s) : i + 1 \in DOMAIN s /\ Tail(s)[i] = s[i + 1]
  BY TailFacts
<1>2. ASSUME NEW i \in DOMAIN Tail(s), NEW j \in DOMAIN Tail(s), Tail(s)[i] = Tail(s)[j]
      PROVE  i = j
  <2>1. i + 1 \in DOMAIN s /\ j + 1 \in DOMAIN s /\ s[i + 1] = s[j + 1]
    BY <1>1, <1>2
  <2>2. i + 1 = j + 1
    BY <2>1 DEF Distinct
  <2> QED
    BY <1>1, <2>2
<1>3. ASSUME NEW i \in DOMAIN Tail(s) PROVE Tail(s)[i] # Head(s)
  <2>1. i + 1 \in DOMAIN s /\ 1 \in DOMAIN s /\ i + 1 # 1
    BY <1>1
  <2> QED
    BY <1>1, <2>1 DEF Distinct
<1> QED
  BY <1>2, <1>3 DEF Distinct, Elements

LEMMA DistinctAppend ==
  ASSUME NEW S, NEW s \in Seq(S), NEW e \in S, Distinct(s), e \notin Elements(s)
  PROVE  Distinct(Append(s, e))
<1>1. /\ Len(s) \in Nat /\ DOMAIN s = 1..Len(s)
      /\ DOMAIN Append(s, e) = 1..(Len(s) + 1)
      /\ \A i \in DOMAIN s : Append(s, e)[i] = s[i]
      /\ Append(s, e)[Len(s) + 1] = e
  BY AppendFacts
<1>2. DOMAIN Append(s, e) = DOMAIN s \union {Len(s) + 1}
  BY <1>1
<1>3. \A i \in DOMAIN s : s[i] # e
  BY DEF Elements
<1> QED
  BY <1>1, <1>2, <1>3 DEF Distinct

LEMMA InitRoute == Init => RouteInv
<1> SUFFICES ASSUME Init PROVE RouteInv
  OBVIOUS
<1>1. /\ sent = <<>>
      /\ \A n \in Nodes :
           /\ reader[n].pc = "read" /\ writer[n].pc = "wait"
           /\ tap_write_pool[n] = <<>> /\ written[n] = <<>>
           /\ \A m \in Peers[n] : encoder_pool[n][m] = <<>>
  BY DEF Init
<1>2. Elements(<<>>) = {} /\ Distinct(<<>>)
  BY DEF Elements, Distinct
<1>3. /\ \A n \in Nodes : Waiting(n) = {} /\ Writing(n) = {} /\ Written(n) = {}
      /\ \A n \in Nodes : \A m \in Peers[n] : InTunnel(n, m) = {} /\ Pending(n, m) = {}
  BY <1>1, <1>2 DEF Waiting, Writing, Written, InTunnel, Pending
<1>4. AllGenuine
  BY <1>1, <1>2, <1>3 DEF AllGenuine
<1>5. AllDistinct /\ OneStage
  BY <1>1, <1>2, <1>3 DEF AllDistinct, OneStage, Arrived
<1> QED
  BY InitTyped, <1>4, <1>5 DEF RouteInv

(* A frame is read: it is new. *)
LEMMA RouteReadTap ==
  ASSUME RouteInv, NEW n \in Nodes, ReadTap(n)
  PROVE  AllGenuine' /\ AllDistinct' /\ OneStage'
<1> USE DEF RouteInv
<1>1. PICK src \in MACs, dst \in MACs \union {Group} :
        /\ reader' = [reader EXCEPT ![n] =
             [pc |-> AfterLookup(n, src, "forward"), todo |-> {},
              frame |-> [id |-> Len(sent) + 1, src |-> src, dst |-> dst, origin |-> n]]]
        /\ Lookup(n, src)
  BY DEF ReadTap
<1>2. PICK new : new = [id |-> Len(sent) + 1, src |-> src, dst |-> dst, origin |-> n]
  OBVIOUS
<1>3. /\ UNCHANGED <<writer, encoder_pool, tap_write_pool, written>>
      /\ sent' = Append(sent, reader'[n].frame)
  BY DEF ReadTap, tunnels
<1>4. DOMAIN reader = Nodes /\ sent \in Seq(FrameType)
  BY DEF TalkingTyped, Typed, ThreadsTyped, StationsTyped
<1>5. reader'[n].frame = new /\ \A k \in Nodes : k # n => reader'[k] = reader[k]
  BY <1>1, <1>2, <1>4
<1>6. Len(sent) \in Nat /\ DOMAIN sent = 1..Len(sent) /\ new \in FrameType
  BY <1>2, <1>4, LenProperties DEF FrameType
<1>7. /\ DOMAIN sent' = 1..(Len(sent) + 1)
      /\ \A i \in DOMAIN sent : sent'[i] = sent[i]
      /\ sent'[Len(sent) + 1] = new
  BY <1>3, <1>4, <1>5, <1>6, AppendFacts
<1>8. /\ new.id = Len(sent) + 1 /\ new.src \in MACs /\ new.origin = n
      /\ new.id \notin DOMAIN sent /\ DOMAIN sent' = DOMAIN sent \union {new.id}
  BY <1>2, <1>6, <1>7
<1>9. ASSUME NEW f, Genuine(f) PROVE Genuine(f)' /\ f # new
  BY <1>7, <1>8, <1>9 DEF Genuine
<1>10. new.id \in DOMAIN sent' /\ sent'[new.id] = new
  BY <1>7, <1>8
<1>11. AllGenuine'
  <2>1. \A i \in DOMAIN sent' :
          sent'[i].id = i /\ sent'[i].src \in MACs /\ sent'[i].origin \in Nodes
    BY <1>7, <1>8 DEF AllGenuine
  <2>2. ASSUME NEW k \in Nodes, reader'[k].pc # "read"
        PROVE  Genuine(reader[k].frame)' /\ reader'[k].frame.origin = k
    <3>1. CASE k = n
      BY <1>5, <1>8, <1>10, <3>1 DEF Genuine
    <3>2. CASE k # n
      <4>1. Genuine(reader[k].frame) /\ reader[k].frame.origin = k
        BY <1>5, <2>2, <3>2 DEF AllGenuine
      <4>2. reader'[k].frame = reader[k].frame
        BY <1>5, <3>2
      <4> QED
        BY <1>7, <1>8, <4>1, <4>2 DEF Genuine
    <3> QED
      BY <3>1, <3>2
  <2>3. ASSUME NEW k \in Nodes
        PROVE  /\ writer[k].pc # "wait" => Genuine(writer[k].frame)'
               /\ \A m \in Peers[k] : \A f \in InTunnel(k, m) : Genuine(f)'
               /\ \A e \in Elements(tap_write_pool[k]) : Genuine(e.frame)'
               /\ \A f \in Written(k) : Genuine(f)'
    <3>1. Genuine(writer[k].frame) => Genuine(writer[k].frame)'
      BY <1>3, <1>7, <1>8 DEF Genuine
    <3>2. \A e \in Elements(tap_write_pool[k]) : Genuine(e.frame) => Genuine(e.frame)'
      BY <1>7, <1>8 DEF Genuine
    <3> QED
      BY <1>9, <3>1, <3>2 DEF AllGenuine
  <2> QED
    BY <1>3, <2>1, <2>2, <2>3 DEF AllGenuine, InTunnel, Written
<1>12. AllDistinct'
  BY <1>3 DEF AllDistinct
<1>13. OneStage'
  <2>1. ASSUME NEW m \in Nodes
        PROVE  /\ Waiting(m)' = Waiting(m) /\ Writing(m)' = Writing(m)
               /\ Written(m)' = Written(m) /\ Arrived(m)' = Arrived(m)
               /\ new \notin Arrived(m)
    BY <1>3, <1>9 DEF Waiting, Writing, Written, Arrived, AllGenuine
  <2>2. ASSUME NEW k \in Nodes, NEW m \in Peers[k]
        PROVE  /\ InTunnel(k, m)' = InTunnel(k, m) /\ new \notin InTunnel(k, m)
               /\ Pending(k, m)' \subseteq (IF k = n THEN {new} ELSE Pending(k, m))
    BY <1>3, <1>5, <1>9 DEF InTunnel, AllGenuine, Pending
  <2>3. \A k \in Nodes : Peers[k] \subseteq Nodes
    BY NodeFacts
  <2>4. ASSUME NEW k \in Nodes, NEW m \in Peers[k]
        PROVE  /\ InTunnel(k, m)' \intersect Arrived(m)' = {}
               /\ Pending(k, m)' \intersect (InTunnel(k, m)' \union Arrived(m)') = {}
    BY <2>1, <2>2, <2>3 DEF OneStage
  <2> QED
    BY <2>1, <2>4 DEF OneStage
<1> QED
  BY <1>11, <1>12, <1>13

(* Nothing moves on, but a tap reader may be done with a frame. *)
LEMMA RouteStays ==
  ASSUME RouteInv, UNCHANGED <<sent, encoder_pool, tap_write_pool, written>>,
         \A k \in Nodes :
           /\ reader'[k].frame = reader[k].frame
           /\ reader'[k].pc # "read" => reader[k].pc # "read"
           /\ writer'[k].frame = writer[k].frame /\ writer'[k].from = writer[k].from
           /\ writer'[k].pc = "wait" <=> writer[k].pc = "wait",
         \A k \in Nodes : \A m \in Peers[k] : Pending(k, m)' \subseteq Pending(k, m)
  PROVE  AllGenuine' /\ AllDistinct' /\ OneStage'
<1> USE DEF RouteInv
<1>1. ASSUME NEW m \in Nodes
      PROVE  /\ Waiting(m)' = Waiting(m) /\ Writing(m)' = Writing(m)
             /\ Written(m)' = Written(m) /\ Arrived(m)' = Arrived(m)
  BY DEF Waiting, Writing, Written, Arrived
<1>2. ASSUME NEW k \in Nodes, NEW m \in Peers[k] PROVE InTunnel(k, m)' = InTunnel(k, m)
  BY DEF InTunnel
<1>3. AllGenuine'
  BY <1>1, <1>2 DEF AllGenuine, Genuine
<1>4. AllDistinct'
  BY DEF AllDistinct
<1>5. \A k \in Nodes : Peers[k] \subseteq Nodes
  BY NodeFacts
<1>6. OneStage'
  BY <1>1, <1>2, <1>5 DEF OneStage
<1> QED
  BY <1>3, <1>4, <1>6

(* A frame moves one stage on. *)
LEMMA QueueStages ==
  ASSUME TalkingTyped, NEW n \in Nodes, NEW m \in Peers[n], Queue(n, m),
         UNCHANGED <<tap_write_pool, writer, written>>
  PROVE  /\ \A k \in Nodes : \A x \in Peers[k] :
              InTunnel(k, x)' = InTunnel(k, x) \union
                                  (IF k = n /\ x = m THEN {reader[n].frame} ELSE {})
         /\ \A x \in Nodes : /\ Waiting(x)' = Waiting(x) /\ Writing(x)' = Writing(x)
                             /\ Written(x)' = Written(x) /\ Arrived(x)' = Arrived(x)
<1> DEFINE queue == encoder_pool[n][m]
<1>1. queue \in Seq(FrameType) /\ reader[n].frame \in FrameType
  BY DEF TalkingTyped, Typed, PoolsTyped, ThreadsTyped, ReaderType
<1>2. encoder_pool' = [encoder_pool EXCEPT ![n] =
                         [encoder_pool[n] EXCEPT ![m] = Append(queue, reader[n].frame)]]
  BY DEF Queue
<1>3. Elements(Append(queue, reader[n].frame)) = Elements(queue) \union {reader[n].frame}
  BY <1>1, AppendElements
<1>4. \A k \in Nodes : \A x \in Peers[k] :
        encoder_pool'[k][x] = IF k = n /\ x = m THEN Append(queue, reader[n].frame)
                              ELSE encoder_pool[k][x]
  BY <1>2 DEF TalkingTyped, Typed, PoolsTyped
<1>5. \A x \in Nodes : /\ Waiting(x)' = Waiting(x) /\ Writing(x)' = Writing(x)
                       /\ Written(x)' = Written(x) /\ Arrived(x)' = Arrived(x)
  BY DEF Waiting, Writing, Written, Arrived
<1> QED
  BY <1>3, <1>4, <1>5 DEF InTunnel

LEMMA CarryStages ==
  ASSUME TalkingTyped, NEW n \in Nodes, NEW m \in Peers[n], Carry(n, m)
  PROVE  \E f \in InTunnel(n, m) :
           /\ f = Head(encoder_pool[n][m])
           /\ InTunnel(n, m) = InTunnel(n, m)' \union {f}
           /\ \A k \in Nodes : \A x \in Peers[k] :
                ~(k = n /\ x = m) => InTunnel(k, x)' = InTunnel(k, x)
           /\ Waiting(m)' = Waiting(m) \union (IF Reached(n, m) THEN {f} ELSE {})
           /\ \A x \in Nodes : x # m => Waiting(x)' = Waiting(x)
           /\ \A x \in Nodes : Writing(x)' = Writing(x) /\ Written(x)' = Written(x)
           /\ \A k \in Nodes : \A x \in Peers[k] : Pending(k, x)' = Pending(k, x)
           /\ Reached(n, m) =>
                Elements(tap_write_pool[m])' =
                  Elements(tap_write_pool[m]) \union {[frame |-> f, from |-> n]}
<1>0. PICK queue, entry, f :
        /\ queue = encoder_pool[n][m] /\ f = Head(queue)
        /\ entry = [frame |-> f, from |-> n]
  OBVIOUS
<1>1. /\ m \in Nodes /\ queue \in Seq(FrameType) /\ queue # <<>>
      /\ tap_write_pool[m] \in Seq([frame : FrameType, from : Nodes])
      /\ entry \in [frame : FrameType, from : Nodes]
      /\ encoder_pool' = [encoder_pool EXCEPT ![n] =
                            [encoder_pool[n] EXCEPT ![m] = Tail(queue)]]
      /\ Reached(n, m) =>
           tap_write_pool' = [tap_write_pool EXCEPT ![m] = Append(tap_write_pool[m], entry)]
      /\ ~Reached(n, m) => UNCHANGED tap_write_pool
  BY <1>0, CarryQueues
<1>2. f \in Elements(queue) /\ Elements(queue) = {f} \union Elements(Tail(queue))
  BY <1>0, <1>1, TailElements
<1>3. Elements(Append(tap_write_pool[m], entry)) = Elements(tap_write_pool[m]) \union {entry}
  <2>1. PICK E : E = [frame : FrameType, from : Nodes]
    OBVIOUS
  <2>2. tap_write_pool[m] \in Seq(E) /\ entry \in E
    BY <1>1, <2>1
  <2> QED
    BY <2>2, AppendElements
<1>4. \A k \in Nodes : \A x \in Peers[k] :
        encoder_pool'[k][x] = IF k = n /\ x = m THEN Tail(queue) ELSE encoder_pool[k][x]
  BY <1>1 DEF TalkingTyped, Typed, PoolsTyped
<1>5. DOMAIN tap_write_pool = Nodes
  BY DEF TalkingTyped, Typed, PoolsTyped
<1>6. /\ \A x \in Nodes : x # m => tap_write_pool'[x] = tap_write_pool[x]
      /\ Elements(tap_write_pool'[m]) =
           Elements(tap_write_pool[m]) \union (IF Reached(n, m) THEN {entry} ELSE {})
  BY <1>1, <1>3, <1>5
<1>7. Waiting(m)' = Waiting(m) \union (IF Reached(n, m) THEN {f} ELSE {})
  BY <1>0, <1>6 DEF Waiting
<1>8. UNCHANGED <<reader, writer, written>>
  BY DEF Carry
<1>9. \A x \in Nodes : x # m => Waiting(x)' = Waiting(x)
  BY <1>6 DEF Waiting
<1>10. /\ \A x \in Nodes : Writing(x)' = Writing(x) /\ Written(x)' = Written(x)
       /\ \A k \in Nodes : \A x \in Peers[k] : Pending(k, x)' = Pending(k, x)
  BY <1>8 DEF Writing, Written, Pending
<1>11. /\ f \in InTunnel(n, m) /\ InTunnel(n, m) = InTunnel(n, m)' \union {f}
       /\ \A k \in Nodes : \A x \in Peers[k] :
            ~(k = n /\ x = m) => InTunnel(k, x)' = InTunnel(k, x)
  BY <1>0, <1>2, <1>4 DEF InTunnel
<1> QED
  BY <1>0, <1>6, <1>7, <1>9, <1>10, <1>11

LEMMA TakeStages ==
  ASSUME TalkingTyped, NEW n \in Nodes, TakeFrame(n)
  PROVE  \E e \in Elements(tap_write_pool[n]) :
           /\ e = Head(tap_write_pool[n])
           /\ Elements(tap_write_pool[n]) = Elements(tap_write_pool[n])' \union {e}
           /\ writer'[n].frame = e.frame /\ writer'[n].from = e.from
           /\ writer'[n].pc # "wait" /\ writer[n].pc = "wait"
           /\ Writing(n) = {} /\ Writing(n)' = {e.frame}
           /\ \A x \in Nodes : x # n =>
                /\ tap_write_pool'[x] = tap_write_pool[x] /\ writer'[x] = writer[x]
                /\ Waiting(x)' = Waiting(x) /\ Writing(x)' = Writing(x)
           /\ \A x \in Nodes : Written(x)' = Written(x)
           /\ \A k \in Nodes : \A x \in Peers[k] :
                InTunnel(k, x)' = InTunnel(k, x) /\ Pending(k, x)' = Pending(k, x)
<1>0. PICK queue, e : queue = tap_write_pool[n] /\ e = Head(queue)
  OBVIOUS
<1>1. /\ writer' = [writer EXCEPT ![n] =
           [pc |-> AfterLookup(n, e.frame.src, "write"), frame |-> e.frame, from |-> e.from]]
      /\ tap_write_pool' = [tap_write_pool EXCEPT ![n] = Tail(queue)]
      /\ UNCHANGED <<reader, encoder_pool, written>>
      /\ writer[n].pc = "wait" /\ queue # <<>>
  BY <1>0 DEF TakeFrame, tunnels
<1>2. queue \in Seq([frame : FrameType, from : Nodes])
  BY <1>0 DEF TalkingTyped, Typed, PoolsTyped
<1>3. e \in Elements(queue) /\ Elements(queue) = {e} \union Elements(Tail(queue))
  BY <1>0, <1>1, <1>2, TailElements
<1>4. DOMAIN writer = Nodes /\ DOMAIN tap_write_pool = Nodes
  BY DEF TalkingTyped, Typed, PoolsTyped, ThreadsTyped
<1>5. AfterLookup(n, e.frame.src, "write") # "wait"
  BY DEF AfterLookup
<1>6. /\ writer'[n].frame = e.frame /\ writer'[n].from = e.from /\ writer'[n].pc # "wait"
      /\ tap_write_pool'[n] = Tail(queue)
      /\ \A x \in Nodes : x # n =>
           tap_write_pool'[x] = tap_write_pool[x] /\ writer'[x] = writer[x]
  BY <1>1, <1>4, <1>5
<1>7. /\ Writing(n) = {} /\ Writing(n)' = {e.frame}
      /\ \A x \in Nodes : x # n => Waiting(x)' = Waiting(x) /\ Writing(x)' = Writing(x)
  BY <1>1, <1>6 DEF Waiting, Writing
<1>8. /\ \A x \in Nodes : Written(x)' = Written(x)
      /\ \A k \in Nodes : \A x \in Peers[k] :
           InTunnel(k, x)' = InTunnel(k, x) /\ Pending(k, x)' = Pending(k, x)
  BY <1>1 DEF Written, InTunnel, Pending
<1> QED
  BY <1>0, <1>1, <1>3, <1>6, <1>7, <1>8

LEMMA WriteStages ==
  ASSUME TalkingTyped, NEW n \in Nodes, WriteTap(n)
  PROVE  LET f == writer[n].frame
         IN  /\ f \in FrameType /\ writer[n].pc # "wait" /\ writer'[n].pc = "wait"
             /\ written[n] \in Seq(FrameType) /\ written'[n] = Append(written[n], f)
             /\ Writing(n) = {f} /\ Writing(n)' = {}
             /\ Written(n)' = Written(n) \union {f}
             /\ \A x \in Nodes : x # n =>
                  /\ written'[x] = written[x] /\ writer'[x] = writer[x]
                  /\ Written(x)' = Written(x) /\ Writing(x)' = Writing(x)
             /\ \A x \in Nodes : Waiting(x)' = Waiting(x)
             /\ \A k \in Nodes : \A x \in Peers[k] :
                  InTunnel(k, x)' = InTunnel(k, x) /\ Pending(k, x)' = Pending(k, x)
<1>0. PICK f : f = writer[n].frame
  OBVIOUS
<1>1. /\ written' = [written EXCEPT ![n] = Append(written[n], f)]
      /\ writer' = [writer EXCEPT ![n].pc = "wait"]
      /\ UNCHANGED <<reader, encoder_pool, tap_write_pool>>
      /\ writer[n].pc = "write"
  BY <1>0 DEF WriteTap, tunnels
<1>2. /\ f \in FrameType /\ written[n] \in Seq(FrameType)
      /\ DOMAIN written = Nodes
  BY <1>0 DEF TalkingTyped, Typed, PoolsTyped, ThreadsTyped
<1>3. /\ writer'[n].pc = "wait"
      /\ \A x \in Nodes : x # n => writer'[x] = writer[x]
  BY <1>1 DEF TalkingTyped, Typed, ThreadsTyped
<1>4. /\ written'[n] = Append(written[n], f)
      /\ \A x \in Nodes : x # n => written'[x] = written[x]
  BY <1>1, <1>2
<1>5. Elements(Append(written[n], f)) = Elements(written[n]) \union {f}
  BY <1>2, AppendElements
<1>6. /\ Writing(n) = {f} /\ Writing(n)' = {} /\ Written(n)' = Written(n) \union {f}
      /\ \A x \in Nodes : x # n => Written(x)' = Written(x) /\ Writing(x)' = Writing(x)
  BY <1>0, <1>1, <1>3, <1>4, <1>5 DEF Writing, Written
<1>7. /\ \A x \in Nodes : Waiting(x)' = Waiting(x)
      /\ \A k \in Nodes : \A x \in Peers[k] :
           InTunnel(k, x)' = InTunnel(k, x) /\ Pending(k, x)' = Pending(k, x)
  BY <1>1 DEF Waiting, InTunnel, Pending
<1> QED
  BY <1>0, <1>1, <1>2, <1>3, <1>4, <1>6, <1>7

LEMMA RouteQueue ==
  ASSUME RouteInv, NEW n \in Nodes, NEW m \in Peers[n], Queue(n, m),
         UNCHANGED <<sent, tap_write_pool, writer, written>>,
         reader[n].pc # "read", reader[n].frame \in Pending(n, m), Pending(n, m)' = {},
         \A k \in Nodes :
           /\ reader'[k].frame = reader[k].frame
           /\ reader'[k].pc # "read" => reader[k].pc # "read",
         \A k \in Nodes : \A x \in Peers[k] : Pending(k, x)' \subseteq Pending(k, x)
  PROVE  AllGenuine' /\ AllDistinct' /\ OneStage'
<1> USE DEF RouteInv
<1>0. PICK f : f = reader[n].frame
  OBVIOUS
<1>1. /\ \A k \in Nodes : \A x \in Peers[k] :
           InTunnel(k, x)' = InTunnel(k, x) \union (IF k = n /\ x = m THEN {f} ELSE {})
      /\ \A x \in Nodes : /\ Waiting(x)' = Waiting(x) /\ Writing(x)' = Writing(x)
                          /\ Written(x)' = Written(x) /\ Arrived(x)' = Arrived(x)
  BY <1>0, QueueStages
<1>2. Genuine(f) /\ f.origin = n
  BY <1>0 DEF AllGenuine
<1>3. \A k \in Nodes : Peers[k] \subseteq Nodes
  BY NodeFacts
<1>4. f \notin InTunnel(n, m) /\ f \notin Arrived(m)
  BY <1>0 DEF OneStage
<1>5. AllGenuine'
  BY <1>1, <1>2 DEF AllGenuine, Genuine
<1>6. AllDistinct'
  <2>1. encoder_pool[n][m] \in Seq(FrameType) /\ f \in FrameType
    BY <1>0 DEF TalkingTyped, Typed, PoolsTyped, ThreadsTyped, ReaderType
  <2>2. Distinct(Append(encoder_pool[n][m], f))
    BY <1>4, <2>1, DistinctAppend DEF AllDistinct, InTunnel
  <2>3. \A k \in Nodes : \A x \in Peers[k] :
          encoder_pool'[k][x] = IF k = n /\ x = m THEN Append(encoder_pool[n][m], f)
                                ELSE encoder_pool[k][x]
    BY <1>0 DEF TalkingTyped, Typed, PoolsTyped, Queue
  <2> QED
    BY <2>2, <2>3 DEF AllDistinct
<1>7. ASSUME NEW k \in Nodes, NEW x \in Peers[k]
      PROVE  /\ InTunnel(k, x)' \intersect Arrived(x)' = {}
             /\ Pending(k, x)' \intersect (InTunnel(k, x)' \union Arrived(x)') = {}
  BY <1>1, <1>3, <1>4 DEF OneStage
<1> QED
  BY <1>1, <1>5, <1>6, <1>7 DEF OneStage

LEMMA RouteCarry ==
  ASSUME RouteInv, NEW n \in Nodes, NEW m \in Peers[n], Carry(n, m)
  PROVE  AllGenuine' /\ AllDistinct' /\ OneStage'
<1> USE DEF RouteInv
<1>1. PICK f \in InTunnel(n, m) :
           /\ f = Head(encoder_pool[n][m])
           /\ InTunnel(n, m) = InTunnel(n, m)' \union {f}
           /\ \A k \in Nodes : \A x \in Peers[k] :
                ~(k = n /\ x = m) => InTunnel(k, x)' = InTunnel(k, x)
           /\ Waiting(m)' = Waiting(m) \union (IF Reached(n, m) THEN {f} ELSE {})
           /\ \A x \in Nodes : x # m => Waiting(x)' = Waiting(x)
           /\ \A x \in Nodes : Writing(x)' = Writing(x) /\ Written(x)' = Written(x)
           /\ \A k \in Nodes : \A x \in Peers[k] : Pending(k, x)' = Pending(k, x)
           /\ Reached(n, m) =>
                Elements(tap_write_pool[m])' =
                  Elements(tap_write_pool[m]) \union {[frame |-> f, from |-> n]}
  BY CarryStages
<1>2. UNCHANGED <<sent, reader, writer, written>>
  BY DEF Carry, stations
<1>3. PICK queue, entry :
        queue = encoder_pool[n][m] /\ entry = [frame |-> f, from |-> n]
  OBVIOUS
<1>4. /\ m \in Nodes /\ queue \in Seq(FrameType) /\ queue # <<>>
      /\ tap_write_pool[m] \in Seq([frame : FrameType, from : Nodes])
      /\ entry \in [frame : FrameType, from : Nodes]
      /\ encoder_pool' = [encoder_pool EXCEPT ![n] =
                            [encoder_pool[n] EXCEPT ![m] = Tail(queue)]]
      /\ Reached(n, m) =>
           tap_write_pool' = [tap_write_pool EXCEPT ![m] = Append(tap_write_pool[m], entry)]
      /\ ~Reached(n, m) => UNCHANGED tap_write_pool
  BY <1>1, <1>3, CarryQueues
<1>5. /\ \A k \in Nodes : \A x \in Peers[k] :
           encoder_pool'[k][x] = IF k = n /\ x = m THEN Tail(queue) ELSE encoder_pool[k][x]
      /\ \A x \in Nodes : x # m => tap_write_pool'[x] = tap_write_pool[x]
      /\ tap_write_pool'[m] = IF Reached(n, m) THEN Append(tap_write_pool[m], entry)
                              ELSE tap_write_pool[m]
  BY <1>4 DEF TalkingTyped, Typed, PoolsTyped
<1>6. Genuine(f) /\ f.origin = n
  BY <1>1 DEF AllGenuine
<1>7. \A k \in Nodes : Peers[k] \subseteq Nodes
  BY NodeFacts
<1>8. Distinct(Tail(queue)) /\ f \notin InTunnel(n, m)'
  <2>1. Distinct(queue)
    BY <1>3 DEF AllDistinct
  <2>2. Distinct(Tail(queue)) /\ Head(queue) \notin Elements(Tail(queue))
    BY <1>4, <2>1, DistinctTail
  <2> QED
    BY <1>1, <1>3, <1>5, <2>2 DEF InTunnel
<1>9. f \notin Arrived(m) /\ f \notin Pending(n, m)
  BY <1>1 DEF OneStage
<1>10. AllGenuine'
  <2>1. ASSUME NEW k \in Nodes, NEW x \in Peers[k], NEW g \in InTunnel(k, x)'
        PROVE  Genuine(g) /\ g.origin = k
    BY <1>1, <2>1 DEF AllGenuine
  <2>2. ASSUME NEW x \in Nodes, NEW e \in Elements(tap_write_pool[x])'
        PROVE  Genuine(e.frame) /\ e.frame.origin = e.from
    BY <1>1, <1>3, <1>5, <1>6, <2>2 DEF AllGenuine
  <2> QED
    BY <1>1, <1>2, <2>1, <2>2 DEF AllGenuine, Genuine
<1>11. AllDistinct'
  <2>1. Reached(n, m) => Distinct(Append(tap_write_pool[m], entry))
    <3>1. PICK E : E = [frame : FrameType, from : Nodes]
      OBVIOUS
    <3>2. tap_write_pool[m] \in Seq(E) /\ entry \in E
      BY <1>4, <3>1
    <3>3. entry \notin Elements(tap_write_pool[m])
      BY <1>3, <1>9 DEF Arrived, Waiting
    <3> QED
      BY <1>4, <3>2, <3>3, DistinctAppend DEF AllDistinct
  <2> QED
    BY <1>2, <1>5, <1>8, <2>1 DEF AllDistinct
<1>12. OneStage'
  <2>1. \A x \in Nodes :
          Arrived(x)' = Arrived(x) \union (IF x = m /\ Reached(n, m) THEN {f} ELSE {})
    BY <1>1 DEF Arrived
  <2>2. ASSUME NEW x \in Nodes
        PROVE  /\ Waiting(x)' \intersect Writing(x)' = {}
               /\ (Waiting(x)' \union Writing(x)') \intersect Written(x)' = {}
    BY <1>1, <1>9 DEF OneStage, Arrived
  <2>3. ASSUME NEW k \in Nodes, NEW x \in Peers[k]
        PROVE  /\ InTunnel(k, x)' \intersect Arrived(x)' = {}
               /\ Pending(k, x)' \intersect (InTunnel(k, x)' \union Arrived(x)') = {}
    <3>1. x \in Nodes
      BY <1>7
    <3>2. CASE x # m
      <4>1. /\ InTunnel(k, x)' = InTunnel(k, x) /\ Arrived(x)' = Arrived(x)
            /\ Pending(k, x)' = Pending(k, x)
        BY <1>1, <2>1, <3>1, <3>2
      <4> QED
        BY <4>1 DEF OneStage
    <3>3. CASE x = m /\ k # n
      <4>1. /\ InTunnel(k, x)' = InTunnel(k, x) /\ Pending(k, x)' = Pending(k, x)
            /\ Arrived(x)' \subseteq Arrived(x) \union {f}
        BY <1>1, <2>1, <3>1, <3>3
      <4>2. f \notin InTunnel(k, x)
        BY <1>6, <3>3 DEF AllGenuine
      <4>3. f \notin Pending(k, x)
        BY <1>6, <3>3 DEF AllGenuine, Pending
      <4> QED
        BY <4>1, <4>2, <4>3 DEF OneStage
    <3>4. CASE x = m /\ k = n
      <4>1. /\ InTunnel(k, x)' \subseteq InTunnel(k, x) /\ f \notin InTunnel(k, x)'
            /\ Pending(k, x)' = Pending(k, x) /\ f \notin Pending(k, x)
            /\ Arrived(x)' \subseteq Arrived(x) \union {f}
        BY <1>1, <1>8, <1>9, <2>1, <3>1, <3>4
      <4> QED
        BY <4>1 DEF OneStage
    <3> QED
      BY <3>2, <3>3, <3>4
  <2> QED
    BY <2>2, <2>3 DEF OneStage
<1> QED
  BY <1>10, <1>11, <1>12

LEMMA RouteTakeFrame ==
  ASSUME RouteInv, NEW n \in Nodes, TakeFrame(n)
  PROVE  AllGenuine' /\ AllDistinct' /\ OneStage'
<1> USE DEF RouteInv
<1>1. PICK e \in Elements(tap_write_pool[n]) :
           /\ e = Head(tap_write_pool[n])
           /\ Elements(tap_write_pool[n]) = Elements(tap_write_pool[n])' \union {e}
           /\ writer'[n].frame = e.frame /\ writer'[n].from = e.from
           /\ writer'[n].pc # "wait" /\ writer[n].pc = "wait"
           /\ Writing(n) = {} /\ Writing(n)' = {e.frame}
           /\ \A x \in Nodes : x # n =>
                /\ tap_write_pool'[x] = tap_write_pool[x] /\ writer'[x] = writer[x]
                /\ Waiting(x)' = Waiting(x) /\ Writing(x)' = Writing(x)
           /\ \A x \in Nodes : Written(x)' = Written(x)
           /\ \A k \in Nodes : \A x \in Peers[k] :
                InTunnel(k, x)' = InTunnel(k, x) /\ Pending(k, x)' = Pending(k, x)
  BY TakeStages
<1>2. UNCHANGED <<sent, reader, encoder_pool, written>>
  BY DEF TakeFrame, stations, tunnels
<1>3. PICK E, queue : E = [frame : FrameType, from : Nodes] /\ queue = tap_write_pool[n]
  OBVIOUS
<1>4. /\ queue \in Seq(E) /\ queue # <<>>
      /\ tap_write_pool' = [tap_write_pool EXCEPT ![n] = Tail(queue)]
      /\ DOMAIN tap_write_pool = Nodes
  BY <1>3 DEF TakeFrame, TalkingTyped, Typed, PoolsTyped
<1>5. Distinct(Tail(queue)) /\ e \notin Elements(Tail(queue))
  BY <1>1, <1>3, <1>4, DistinctTail DEF AllDistinct
<1>6. Genuine(e.frame) /\ e.frame.origin = e.from
  BY <1>1 DEF AllGenuine
<1>7. \A k \in Nodes : Peers[k] \subseteq Nodes
  BY NodeFacts
<1>8. e.frame \in Waiting(n)
  BY <1>1 DEF Waiting
<1>9. /\ Waiting(n) = Waiting(n)' \union {e.frame}
  BY <1>1 DEF Waiting
<1>10. e.frame \notin Waiting(n)'
  <2>1. SUFFICES ASSUME NEW d \in Elements(tap_write_pool[n])', d.frame = e.frame
                 PROVE  FALSE
    BY DEF Waiting
  <2>2. d \in Elements(queue) /\ e \in Elements(queue)
    BY <1>1, <1>3, <2>1
  <2>3. d.from = e.from
    BY <1>3, <1>6, <2>1, <2>2 DEF AllGenuine
  <2>4. d \in E /\ e \in E
    BY <1>4, <2>2, TailElements
  <2>5. d = e
    BY <1>3, <2>1, <2>3, <2>4
  <2> QED
    BY <1>4, <1>5, <2>1, <2>5
<1>11. AllGenuine'
  <2>1. ASSUME NEW x \in Nodes, NEW d \in Elements(tap_write_pool[x])'
        PROVE  Genuine(d.frame) /\ d.frame.origin = d.from
    BY <1>1, <2>1 DEF AllGenuine
  <2>2. ASSUME NEW x \in Nodes, writer'[x].pc # "wait"
        PROVE  /\ Genuine(writer[x].frame)'
               /\ writer'[x].frame.origin = writer'[x].from
    <3>1. CASE x = n
      BY <1>1, <1>2, <1>6, <3>1 DEF Genuine
    <3>2. CASE x # n
      BY <1>1, <1>2, <2>2, <3>2 DEF Genuine, AllGenuine
    <3> QED
      BY <3>1, <3>2
  <2> QED
    BY <1>1, <1>2, <2>1, <2>2 DEF AllGenuine, Genuine
<1>12. AllDistinct'
  BY <1>2, <1>4, <1>5 DEF AllDistinct
<1>13. ASSUME NEW x \in Nodes
       PROVE  /\ Arrived(x)' = Arrived(x)
              /\ Waiting(x)' \intersect Writing(x)' = {}
              /\ (Waiting(x)' \union Writing(x)') \intersect Written(x)' = {}
  <2>1. CASE x = n
    BY <1>1, <1>8, <1>9, <1>10, <2>1 DEF OneStage, Arrived
  <2>2. CASE x # n
    BY <1>1, <2>2 DEF OneStage, Arrived
  <2> QED
    BY <2>1, <2>2
<1>14. OneStage'
  BY <1>1, <1>7, <1>13 DEF OneStage
<1> QED
  BY <1>11, <1>12, <1>14

LEMMA RouteWriteTap ==
  ASSUME RouteInv, NEW n \in Nodes, WriteTap(n)
  PROVE  AllGenuine' /\ AllDistinct' /\ OneStage'
<1> USE DEF RouteInv
<1>0. PICK f : f = writer[n].frame
  OBVIOUS
<1>1.    /\ f \in FrameType /\ writer[n].pc # "wait" /\ writer'[n].pc = "wait"
         /\ written[n] \in Seq(FrameType) /\ written'[n] = Append(written[n], f)
         /\ Writing(n) = {f} /\ Writing(n)' = {}
         /\ Written(n)' = Written(n) \union {f}
         /\ \A x \in Nodes : x # n =>
              /\ written'[x] = written[x] /\ writer'[x] = writer[x]
              /\ Written(x)' = Written(x) /\ Writing(x)' = Writing(x)
         /\ \A x \in Nodes : Waiting(x)' = Waiting(x)
         /\ \A k \in Nodes : \A x \in Peers[k] :
              InTunnel(k, x)' = InTunnel(k, x) /\ Pending(k, x)' = Pending(k, x)
  BY <1>0, WriteStages
<1>2. UNCHANGED <<sent, reader, encoder_pool, tap_write_pool>>
  BY DEF WriteTap, stations, tunnels
<1>3. Genuine(f) /\ f.origin \in Peers[n]
  BY <1>0, <1>1 DEF AllGenuine, TalkingTyped, Talking
<1>4. \A k \in Nodes : Peers[k] \subseteq Nodes
  BY NodeFacts
<1>5. f \notin Written(n) /\ f \notin Waiting(n)
  BY <1>1 DEF OneStage
<1>6. AllGenuine'
  <2>1. ASSUME NEW x \in Nodes, NEW g \in Written(x)'
        PROVE  Genuine(g) /\ g.origin \in Peers[x]
    BY <1>1, <1>3, <2>1 DEF AllGenuine
  <2>2. ASSUME NEW x \in Nodes, writer'[x].pc # "wait"
        PROVE  Genuine(writer[x].frame)' /\ writer'[x].frame.origin = writer'[x].from
    BY <1>1, <1>2, <2>2 DEF AllGenuine, Genuine
  <2> QED
    BY <1>1, <1>2, <2>1, <2>2 DEF AllGenuine, Genuine
<1>7. AllDistinct'
  <2>1. Distinct(Append(written[n], f))
    BY <1>1, <1>5, DistinctAppend DEF AllDistinct, Written
  <2> QED
    BY <1>1, <1>2, <2>1 DEF AllDistinct
<1>8. ASSUME NEW x \in Nodes
      PROVE  /\ Arrived(x)' = Arrived(x)
             /\ Waiting(x)' \intersect Writing(x)' = {}
             /\ (Waiting(x)' \union Writing(x)') \intersect Written(x)' = {}
  <2>1. CASE x = n
    BY <1>1, <1>5, <2>1 DEF OneStage, Arrived
  <2>2. CASE x # n
    BY <1>1, <2>2 DEF OneStage, Arrived
  <2> QED
    BY <2>1, <2>2
<1>9. OneStage'
  BY <1>1, <1>4, <1>8 DEF OneStage
<1> QED
  BY <1>6, <1>7, <1>9

(* What the tap reader still has to send, step by step. *)
LEMMA PendingSteps ==
  ASSUME TalkingTyped, NEW n \in Nodes
  PROVE  /\ LearnLocal(n) \/ ForwardGroup(n) \/ GetBuffer(n) =>
              \A k \in Nodes : \A x \in Peers[k] : Pending(k, x)' = Pending(k, x)
         /\ ForwardUnicast(n) =>
              /\ \A k \in Nodes : \A x \in Peers[k] :
                   Pending(k, x)' = IF k = n THEN {} ELSE Pending(k, x)
              /\ \A x \in Peers[n] : Pending(n, x) = {reader[n].frame}
<1>1. DOMAIN reader = Nodes /\ reader[n] \in ReaderType
  BY DEF TalkingTyped, Typed, ThreadsTyped
<1>2. ASSUME LearnLocal(n) \/ ForwardGroup(n) \/ GetBuffer(n),
             NEW k \in Nodes, NEW x \in Peers[k]
      PROVE  Pending(k, x)' = Pending(k, x)
  <2>1. CASE LearnLocal(n)
    BY <1>1, <2>1 DEF LearnLocal, Reading, ReaderType, Pending
  <2>2. CASE ForwardGroup(n)
    BY <1>1, <2>2 DEF ForwardGroup, ReaderType, Pending
  <2>3. CASE GetBuffer(n)
    BY <1>1, <2>3 DEF GetBuffer, Reading, ReaderType, Pending
  <2> QED
    BY <1>2, <2>1, <2>2, <2>3
<1>3. ASSUME ForwardUnicast(n), NEW k \in Nodes, NEW x \in Peers[k]
      PROVE  /\ Pending(k, x)' = IF k = n THEN {} ELSE Pending(k, x)
             /\ k = n => Pending(k, x) = {reader[n].frame}
  <2>1. PICK pc \in {"read", "crashed", "getbuf"} : reader' = [reader EXCEPT ![n].pc = pc]
    BY <1>3 DEF ForwardUnicast, Reading
  <2>2. reader[n].pc = "forward" /\ reader'[n].pc = pc /\ \A l \in Nodes : l # n => reader'[l] = reader[l]
    BY <1>1, <1>3, <2>1 DEF ForwardUnicast, ReaderType
  <2> QED
    BY <2>2 DEF Pending
<1> QED
  BY <1>2, <1>3

LEMMA PendingGroupSteps ==
  ASSUME TalkingTyped, NEW n \in Nodes, CopyToNode(n) \/ SendOriginal(n)
  PROVE  LET m == NextNode(reader[n].todo)
         IN  /\ m \in Peers[n] /\ Queue(n, m)
             /\ Pending(n, m) = {reader[n].frame}
             /\ \A k \in Nodes : \A x \in Peers[k] :
                  Pending(k, x)' = IF k = n /\ x = m THEN {} ELSE Pending(k, x)
<1>0. PICK m : m = NextNode(reader[n].todo)
  OBVIOUS
<1>1. reader[n].pc = "group" /\ reader[n].todo # {}
  BY TodoCounted DEF CopyToNode, SendOriginal
<1>2. m \in reader[n].todo /\ m \in Peers[n] /\ Queue(n, m)
  BY <1>0, <1>1, TypedGroupQueue DEF CopyToNode, SendOriginal
<1>3. DOMAIN reader = Nodes /\ reader[n] \in ReaderType
  BY DEF TalkingTyped, Typed, ThreadsTyped
<1>4. CASE CopyToNode(n)
  <2>1. reader' = [reader EXCEPT ![n].todo = @ \ {m}]
    BY <1>0, <1>4 DEF CopyToNode
  <2>2. /\ reader'[n].pc = "group" /\ reader'[n].frame = reader[n].frame
        /\ reader'[n].todo = reader[n].todo \ {m}
        /\ \A l \in Nodes : l # n => reader'[l] = reader[l]
    BY <1>1, <1>3, <2>1 DEF ReaderType
  <2>3. /\ Pending(n, m) = {reader[n].frame}
        /\ \A k \in Nodes : \A x \in Peers[k] :
             Pending(k, x)' = IF k = n /\ x = m THEN {} ELSE Pending(k, x)
    BY <1>1, <1>2, <2>2 DEF Pending
  <2> QED
    BY <1>0, <1>2, <2>3
<1>5. CASE SendOriginal(n)
  <2>1. reader' = [reader EXCEPT ![n].pc = "getbuf", ![n].todo = {}]
    BY <1>5 DEF SendOriginal
  <2>2. /\ reader'[n].pc = "getbuf"
        /\ \A l \in Nodes : l # n => reader'[l] = reader[l]
    BY <1>3, <2>1 DEF ReaderType
  <2>3. reader[n].todo = {m}
    BY <1>2, <1>5, TodoCounted, FS_Singleton DEF SendOriginal
  <2>4. /\ Pending(n, m) = {reader[n].frame}
        /\ \A k \in Nodes : \A x \in Peers[k] :
             Pending(k, x)' = IF k = n /\ x = m THEN {} ELSE Pending(k, x)
    BY <1>1, <2>2, <2>3 DEF Pending
  <2> QED
    BY <1>0, <1>2, <2>4
<1> QED
  BY <1>4, <1>5

(* What the steps of the tap reader leave of the frame in its hand. *)
LEMMA ReaderFrames ==
  ASSUME TalkingTyped, NEW n \in Nodes,
         LearnLocal(n) \/ ForwardUnicast(n) \/ ForwardGroup(n) \/ CopyToNode(n)
           \/ SendOriginal(n) \/ GetBuffer(n)
  PROVE  /\ \A k \in Nodes :
              /\ reader'[k].frame = reader[k].frame
              /\ reader'[k].pc # "read" => reader[k].pc # "read"
         /\ reader[n].pc # "read"
         /\ UNCHANGED <<stations, writer, tap_write_pool, written>>
<1>1. DOMAIN reader = Nodes /\ reader[n] \in ReaderType
  BY DEF TalkingTyped, Typed, ThreadsTyped
<1>2. /\ reader[n].pc # "read"
      /\ UNCHANGED <<stations, writer, tap_write_pool, written>>
  BY DEF LearnLocal, ForwardUnicast, ForwardGroup, CopyToNode, SendOriginal, GetBuffer
<1>3. reader'[n].frame = reader[n].frame /\ \A k \in Nodes : k # n => reader'[k] = reader[k]
  <2>1. CASE LearnLocal(n) \/ ForwardUnicast(n) \/ GetBuffer(n)
    <3>1. PICK pc : reader' = [reader EXCEPT ![n].pc = pc]
      BY <2>1 DEF LearnLocal, ForwardUnicast, GetBuffer, Reading
    <3> QED
      BY <1>1, <3>1 DEF ReaderType
  <2>2. CASE ForwardGroup(n)
    BY <1>1, <2>2 DEF ForwardGroup, ReaderType
  <2>3. CASE CopyToNode(n)
    BY <1>1, <2>3 DEF CopyToNode, ReaderType
  <2>4. CASE SendOriginal(n)
    BY <1>1, <2>4 DEF SendOriginal, ReaderType
  <2> QED
    BY <2>1, <2>2, <2>3, <2>4
<1> QED
  BY <1>2, <1>3

LEMMA RouteReader ==
  ASSUME RouteInv, NEW n \in Nodes,
         LearnLocal(n) \/ ForwardUnicast(n) \/ ForwardGroup(n) \/ CopyToNode(n)
           \/ SendOriginal(n) \/ GetBuffer(n)
  PROVE  AllGenuine' /\ AllDistinct' /\ OneStage'
<1> USE DEF RouteInv
<1>1. /\ \A k \in Nodes :
           /\ reader'[k].frame = reader[k].frame
           /\ reader'[k].pc # "read" => reader[k].pc # "read"
      /\ reader[n].pc # "read"
      /\ UNCHANGED <<sent, writer, tap_write_pool, written>>
  BY ReaderFrames DEF stations
<1>2. CASE LearnLocal(n) \/ ForwardGroup(n) \/ GetBuffer(n)
  <2>1. \A k \in Nodes : \A x \in Peers[k] : Pending(k, x)' \subseteq Pending(k, x)
    BY <1>2, PendingSteps
  <2>2. UNCHANGED encoder_pool
    BY <1>2 DEF LearnLocal, ForwardGroup, GetBuffer, tunnels
  <2> QED
    BY <1>1, <2>1, <2>2, RouteStays
<1>3. CASE ForwardUnicast(n)
  <2>1. /\ \A k \in Nodes : \A x \in Peers[k] :
             Pending(k, x)' = IF k = n THEN {} ELSE Pending(k, x)
        /\ \A x \in Peers[n] : Pending(n, x) = {reader[n].frame}
    BY <1>3, PendingSteps
  <2>2. \A k \in Nodes : \A x \in Peers[k] : Pending(k, x)' \subseteq Pending(k, x)
    BY <2>1
  <2>3. \/ UNCHANGED encoder_pool
        \/ \E m \in Peers[n] : Queue(n, m)
    BY <1>3, Times DEF ForwardUnicast, Knows
  <2>4. CASE UNCHANGED encoder_pool
    BY <1>1, <2>2, <2>4, RouteStays
  <2>5. ASSUME NEW m \in Peers[n], Queue(n, m)
        PROVE  AllGenuine' /\ AllDistinct' /\ OneStage'
    BY <1>1, <2>1, <2>2, <2>5, RouteQueue
  <2> QED
    BY <2>3, <2>4, <2>5
<1>4. CASE CopyToNode(n) \/ SendOriginal(n)
  <2>1. PICK m \in Peers[n] :
             /\ Queue(n, m)
             /\ Pending(n, m) = {reader[n].frame}
             /\ \A k \in Nodes : \A x \in Peers[k] :
                  Pending(k, x)' = IF k = n /\ x = m THEN {} ELSE Pending(k, x)
    BY <1>4, PendingGroupSteps
  <2>2. /\ \A k \in Nodes : \A x \in Peers[k] : Pending(k, x)' \subseteq Pending(k, x)
        /\ Pending(n, m)' = {} /\ reader[n].frame \in Pending(n, m)
    BY <2>1
  <2> QED
    BY <1>1, <2>1, <2>2, RouteQueue
<1> QED
  BY <1>2, <1>3, <1>4

LEMMA RouteOther ==
  ASSUME RouteInv,
         \/ \E n \in Nodes : LearnRemote(n) \/ ExpireEntries(n)
         \/ Tick \/ Move \/ UNCHANGED vars
  PROVE  AllGenuine' /\ AllDistinct' /\ OneStage'
<1>1. /\ UNCHANGED <<sent, reader, encoder_pool, tap_write_pool, written>>
      /\ \A k \in Nodes :
           /\ writer'[k].frame = writer[k].frame /\ writer'[k].from = writer[k].from
           /\ writer'[k].pc = "wait" <=> writer[k].pc = "wait"
  <2>1. ASSUME NEW n \in Nodes, LearnRemote(n)
        PROVE  /\ writer'[n].frame = writer[n].frame /\ writer'[n].from = writer[n].from
               /\ writer'[n].pc = "write" /\ writer[n].pc = "learn"
               /\ \A k \in Nodes : k # n => writer'[k] = writer[k]
    BY <2>1 DEF LearnRemote, RouteInv, TalkingTyped, Typed, ThreadsTyped
  <2>2. \/ UNCHANGED writer
        \/ \E n \in Nodes : LearnRemote(n)
    BY DEF ExpireEntries, Tick, Move, vars
  <2>3. UNCHANGED <<sent, reader, encoder_pool, tap_write_pool, written>>
    BY DEF LearnRemote, ExpireEntries, Tick, Move, vars, stations, tunnels
  <2>4. ASSUME NEW k \in Nodes
        PROVE  /\ writer'[k].frame = writer[k].frame /\ writer'[k].from = writer[k].from
               /\ writer'[k].pc = "wait" <=> writer[k].pc = "wait"
    <3>1. CASE UNCHANGED writer
      BY <3>1
    <3>2. ASSUME NEW n \in Nodes, LearnRemote(n)
          PROVE  /\ writer'[k].frame = writer[k].frame /\ writer'[k].from = writer[k].from
                 /\ writer'[k].pc = "wait" <=> writer[k].pc = "wait"
      <4>1. CASE k = n
        BY <2>1, <3>2, <4>1
      <4>2. CASE k # n
        BY <2>1, <3>2, <4>2
      <4> QED
        BY <4>1, <4>2
    <3> QED
      BY <2>2, <3>1, <3>2
  <2> QED
    BY <2>3, <2>4
<1>2. \A k \in Nodes : \A x \in Peers[k] : Pending(k, x)' \subseteq Pending(k, x)
  BY <1>1 DEF Pending
<1>3. \A k \in Nodes :
        /\ reader'[k].frame = reader[k].frame
        /\ reader'[k].pc # "read" => reader[k].pc # "read"
  BY <1>1
<1> QED
  BY <1>1, <1>2, <1>3, RouteStays

LEMMA NextRoute == RouteInv /\ [Next]_vars => RouteInv'
<1> SUFFICES ASSUME RouteInv, [Next]_vars PROVE RouteInv'
  OBVIOUS
<1>1. TalkingTyped'
  BY NextTyped DEF RouteInv
<1>2. AllGenuine' /\ AllDistinct' /\ OneStage'
  BY Steps, RouteReadTap, RouteReader, RouteTakeFrame, RouteWriteTap, RouteCarry, RouteOther
<1> QED
  BY <1>1, <1>2 DEF RouteInv

LEMMA RouteHorizon == RouteInv => SplitHorizon
<1> SUFFICES ASSUME RouteInv, NEW n \in Nodes, NEW i \in DOMAIN written[n]
             PROVE  /\ written[n][i].origin # n
                    /\ \A j \in DOMAIN written[n] :
                         written[n][i].id = written[n][j].id => i = j
  BY DEF SplitHorizon
<1>1. ASSUME NEW j \in DOMAIN written[n]
      PROVE  Genuine(written[n][j]) /\ written[n][j].origin \in Peers[n]
  BY DEF RouteInv, AllGenuine, Written, Elements
<1>2. Distinct(written[n])
  BY DEF RouteInv, AllDistinct
<1> QED
  BY <1>1, <1>2, NodeFacts DEF Genuine, Distinct

(* No frame is written to a tap twice, or to the tap it was read from:      *)
(* README.md:21, "split horizon switching which prevents loops of traffic  *)
(* between nodes".  Frames that wait in different stages of the way to a    *)
(* node are different, and tunnels hand over what comes from their own end. *)
THEOREM NoLoops == Spec => []SplitHorizon
<1>1. Init => RouteInv
  BY InitRoute
<1>2. RouteInv /\ [Next]_vars => RouteInv'
  BY NextRoute
<1> QED
  BY <1>1, <1>2, RouteHorizon, PTL DEF Spec

LEMMA InitAges == Init => AgesInv
<1> SUFFICES ASSUME Init PROVE AgesInv
  OBVIOUS
<1>1. \A n \in Nodes : DOMAIN fdb[n] = {} /\ due[n] = Period
  BY DEF Init, EmptyTable
<1>2. /\ clock = 0
      /\ \A n \in Nodes : \A mac \in MACs : heard[n][mac] = 0 - ExpireTime - Period - 1
  BY DEF Init, NotYet
<1>3. /\ ExpireTime \in Nat /\ Period \in Nat
  BY ExpireAssumption, SwitchAssumption DEF SwitchAssumption
<1>4. Period - Period <= 0 /\ 0 - ExpireTime - Period - 1 <= 0
      /\ ~((0 - ExpireTime - Period - 1) + ExpireTime >= 0)
  BY <1>3
<1> QED
  BY <1>1, <1>2, <1>4, InitTyped DEF AgesInv, Ages, TalkersKnown, SilentForgotten

(* A station that a node heard within the expire time is in its table, or   *)
(* about to be added by a thread, however the sections of tap reader, tap  *)
(* writer and FDB thread interleave: an entry that goes is older than the  *)
(* last frame of its station that was handled.                             *)
THEOREM TalkersAlwaysKnown == Spec => []TalkersKnown
<1>1. AgesInv => TalkersKnown
  BY DEF AgesInv
<1> QED
  BY <1>1, InitAges, NextAges, PTL DEF Spec

(* No entry outlives the run of the FDB thread that it was too old for, and *)
(* none comes back by an add with an old time.                             *)
THEOREM SilentAlwaysForgotten == Spec => []SilentForgotten
<1>1. AgesInv => SilentForgotten
  BY DEF AgesInv
<1> QED
  BY <1>1, InitAges, NextAges, PTL DEF Spec

-----------------------------------------------------------------------------
(* Buffers.  A buffer of a pool is available, in the hand of the tap reader *)
(* or holds a frame for some node; so a reader that needs one waits only   *)
(* for frames that are on their way.                                       *)
Outstanding(n) ==
  {p \in Peers[n] \X (Nat \ {0}) : p[2] <= Len(encoder_pool[n][p[1]])}

Holds(n) == IF reader[n].pc = "getbuf" THEN 0 ELSE 1

Conserved ==
  \A n \in Nodes :
    /\ available[n] \in Nat /\ IsFiniteSet(Outstanding(n))
    /\ available[n] + Cardinality(Outstanding(n)) + Holds(n) = PoolSize

PoolInv == TalkingTyped /\ Conserved

LEMMA QueueOutstanding ==
  ASSUME PoolInv, NEW n \in Nodes, NEW m \in Peers[n], Queue(n, m)
  PROVE  /\ IsFiniteSet(Outstanding(n)')
         /\ Cardinality(Outstanding(n)') = Cardinality(Outstanding(n)) + 1
         /\ \A k \in Nodes : k # n => Outstanding(k)' = Outstanding(k)
<1>0. PICK queue, new : queue = encoder_pool[n][m] /\ new = <<m, Len(queue) + 1>>
  OBVIOUS
<1>1. queue \in Seq(FrameType) /\ reader[n].frame \in FrameType
  BY <1>0 DEF PoolInv, TalkingTyped, Typed, PoolsTyped, ThreadsTyped, ReaderType
<1>2. /\ \A x \in Peers[n] : encoder_pool'[n][x] =
           IF x = m THEN Append(queue, reader[n].frame) ELSE encoder_pool[n][x]
      /\ \A k \in Nodes : k # n => encoder_pool'[k] = encoder_pool[k]
  BY <1>0 DEF PoolInv, TalkingTyped, Typed, PoolsTyped, Queue
<1>3. Len(queue) \in Nat /\ Len(Append(queue, reader[n].frame)) = Len(queue) + 1
  BY <1>1, AppendFacts
<1>4. ASSUME NEW p \in Peers[n] \X (Nat \ {0})
      PROVE  p[2] <= Len(encoder_pool'[n][p[1]])
               <=> p[2] <= Len(encoder_pool[n][p[1]]) \/ p = new
  <2>1. CASE p[1] = m
    <3>1. p = new <=> p[2] = Len(queue) + 1
      BY <1>0, <2>1
    <3>2. /\ Len(encoder_pool'[n][p[1]]) = Len(queue) + 1
          /\ Len(encoder_pool[n][p[1]]) = Len(queue)
      BY <1>0, <1>2, <1>3, <2>1
    <3>3. PICK i \in Nat : i = p[2]
      OBVIOUS
    <3>4. PICK l \in Nat : l = Len(queue)
      BY <1>3
    <3> QED
      BY <3>1, <3>2, <3>3, <3>4
  <2>2. CASE p[1] # m
    BY <1>0, <1>2, <2>2
  <2> QED
    BY <2>1, <2>2
<1>5. new \in Peers[n] \X (Nat \ {0}) /\ new \notin Outstanding(n)
  BY <1>0, <1>3 DEF Outstanding
<1>6. Outstanding(n)' = Outstanding(n) \union {new}
  BY <1>4, <1>5 DEF Outstanding
<1>7. \A k \in Nodes : k # n => Outstanding(k)' = Outstanding(k)
  BY <1>2 DEF Outstanding
<1> QED
  BY <1>5, <1>6, <1>7, FS_AddElement DEF PoolInv, Conserved

LEMMA CarryOutstanding ==
  ASSUME PoolInv, NEW n \in Nodes, NEW m \in Peers[n], Carry(n, m)
  PROVE  /\ IsFiniteSet(Outstanding(n)')
         /\ Cardinality(Outstanding(n)') = Cardinality(Outstanding(n)) - 1
         /\ \A k \in Nodes : k # n => Outstanding(k)' = Outstanding(k)
<1>0. PICK queue, old : queue = encoder_pool[n][m] /\ old = <<m, Len(queue)>>
  OBVIOUS
<1>1. queue \in Seq(FrameType) /\ queue # <<>>
  BY <1>0 DEF Carry, PoolInv, TalkingTyped, Typed, PoolsTyped
<1>2. /\ \A x \in Peers[n] : encoder_pool'[n][x] =
           IF x = m THEN Tail(queue) ELSE encoder_pool[n][x]
      /\ \A k \in Nodes : k # n => encoder_pool'[k] = encoder_pool[k]
  BY <1>0 DEF PoolInv, TalkingTyped, Typed, PoolsTyped, Carry
<1>3. Len(queue) \in Nat \ {0} /\ Len(Tail(queue)) = Len(queue) - 1
  BY <1>1, TailFacts
<1>4. ASSUME NEW p \in Peers[n] \X (Nat \ {0})
      PROVE  p[2] <= Len(encoder_pool'[n][p[1]])
               <=> p[2] <= Len(encoder_pool[n][p[1]]) /\ p # old
  <2>1. CASE p[1] = m
    <3>1. p = old <=> p[2] = Len(queue)
      BY <1>0, <2>1
    <3>2. /\ Len(encoder_pool'[n][p[1]]) = Len(queue) - 1
          /\ Len(encoder_pool[n][p[1]]) = Len(queue)
      BY <1>0, <1>2, <1>3, <2>1
    <3>3. PICK i \in Nat : i = p[2]
      OBVIOUS
    <3>4. PICK l \in Nat : l = Len(queue)
      BY <1>1, LenProperties
    <3> QED
      BY <3>1, <3>2, <3>3, <3>4
  <2>2. CASE p[1] # m
    BY <1>0, <1>2, <2>2
  <2> QED
    BY <2>1, <2>2
<1>5. old \in Peers[n] \X (Nat \ {0}) /\ old \in Outstanding(n)
  BY <1>0, <1>3 DEF Outstanding
<1>6. Outstanding(n)' = Outstanding(n) \ {old}
  BY <1>4, <1>5 DEF Outstanding
<1>7. \A k \in Nodes : k # n => Outstanding(k)' = Outstanding(k)
  BY <1>2 DEF Outstanding
<1> QED
  BY <1>5, <1>6, <1>7, FS_RemoveElement DEF PoolInv, Conserved

(* The sum at one node, with names for its parts. *)
LEMMA SumStep ==
  ASSUME NEW a \in Nat, NEW c \in Nat, NEW h \in {0, 1}, a + c + h = PoolSize,
         NEW a2, NEW c2, NEW h2,
         \/ a2 = a /\ c2 = c /\ h2 = h
         \/ a2 = a /\ c2 = c + 1 /\ h = 1 /\ h2 = 0
         \/ a > 0 /\ a2 = a - 1 /\ c2 = c + 1 /\ h2 = h
         \/ a > 0 /\ a2 = a - 1 /\ c2 = c /\ h = 0 /\ h2 = 1
         \/ a2 = a + 1 /\ c2 = c - 1 /\ h2 = h
  PROVE  a2 \in Nat /\ a2 + c2 + h2 = PoolSize
BY SwitchAssumption DEF SwitchAssumption

LEMMA ConservedStep ==
  ASSUME PoolInv, NEW n \in Nodes,
         \A k \in Nodes : k # n =>
           /\ available'[k] = available[k] /\ Outstanding(k)' = Outstanding(k)
           /\ Holds(k)' = Holds(k),
         IsFiniteSet(Outstanding(n)'),
         NEW a, NEW c, NEW h,
         a = available[n], c = Cardinality(Outstanding(n)), h = Holds(n),
         NEW a2, NEW c2, NEW h2,
         a2 = available'[n], c2 = Cardinality(Outstanding(n)'), h2 = Holds(n)',
         \/ a2 = a /\ c2 = c /\ h2 = h
         \/ a2 = a /\ c2 = c + 1 /\ h = 1 /\ h2 = 0
         \/ a > 0 /\ a2 = a - 1 /\ c2 = c + 1 /\ h2 = h
         \/ a > 0 /\ a2 = a - 1 /\ c2 = c /\ h = 0 /\ h2 = 1
         \/ a2 = a + 1 /\ c2 = c - 1 /\ h2 = h
  PROVE  Conserved'
<1>1. a \in Nat /\ c \in Nat /\ h \in {0, 1} /\ a + c + h = PoolSize
  <2>1. c \in Nat
    BY FS_CardinalityType DEF PoolInv, Conserved
  <2>2. h \in {0, 1}
    BY DEF Holds
  <2> QED
    BY <2>1, <2>2 DEF PoolInv, Conserved
<1>2. a2 \in Nat /\ a2 + c2 + h2 = PoolSize
  BY <1>1, SumStep
<1>3. ASSUME NEW k \in Nodes
      PROVE  /\ available'[k] \in Nat /\ IsFiniteSet(Outstanding(k)')
             /\ available'[k] + Cardinality(Outstanding(k)') + Holds(k)' = PoolSize
  <2>1. CASE k = n
    BY <1>2, <2>1
  <2>2. CASE k # n
    BY <2>2 DEF PoolInv, Conserved
  <2> QED
    BY <2>1, <2>2
<1> QED
  BY <1>3 DEF Conserved

LEMMA InitPool == Init => PoolInv
<1> SUFFICES ASSUME Init PROVE PoolInv
  OBVIOUS
<1>1. ASSUME NEW n \in Nodes
      PROVE  available[n] = PoolSize - 1 /\ Outstanding(n) = {} /\ Holds(n) = 1
  <2>1. /\ available[n] = PoolSize - 1 /\ reader[n].pc = "read"
        /\ \A m \in Peers[n] : Len(encoder_pool[n][m]) = 0
    BY DEF Init
  <2>2. \A p \in Peers[n] \X (Nat \ {0}) : ~(p[2] <= Len(encoder_pool[n][p[1]]))
    BY <2>1
  <2> QED
    BY <2>1, <2>2 DEF Outstanding, Holds
<1>2. PoolSize \in Nat \ {0, 1}
  BY SwitchAssumption DEF SwitchAssumption
<1>3. Conserved
  BY <1>1, <1>2, FS_EmptySet DEF Conserved
<1> QED
  BY <1>3, InitTyped DEF PoolInv

(* The tap reader gets, fills or hands over a buffer. *)
LEMMA ConservedReader ==
  ASSUME PoolInv, NEW n \in Nodes,
         ForwardUnicast(n) \/ CopyToNode(n) \/ SendOriginal(n) \/ GetBuffer(n)
  PROVE  Conserved'
<1> USE DEF PoolInv
<1>1. DOMAIN reader = Nodes /\ reader[n] \in ReaderType /\ available \in [Nodes -> Int]
  BY DEF TalkingTyped, Typed, ThreadsTyped, PoolsTyped
<1>2. IsFiniteSet(Outstanding(n))
  BY DEF Conserved
<1>3. CASE ForwardUnicast(n)
  <2>1. reader[n].pc = "forward" /\ available' = available
    BY <1>3 DEF ForwardUnicast
  <2>2. \/ UNCHANGED encoder_pool /\ (Reading(n, "read") \/ Reading(n, "crashed"))
        \/ \E m \in Peers[n] : Queue(n, m) /\ Reading(n, "getbuf")
    BY <1>3, Times DEF ForwardUnicast, Knows
  <2>3. CASE UNCHANGED encoder_pool /\ (Reading(n, "read") \/ Reading(n, "crashed"))
    <3>1. /\ \A k \in Nodes : Outstanding(k)' = Outstanding(k)
          /\ \A k \in Nodes : Holds(k)' = Holds(k)
      BY <1>1, <2>1, <2>3 DEF Outstanding, Holds, Reading, ReaderType
    <3> QED
      BY <1>2, <2>1, <3>1, ConservedStep
  <2>4. ASSUME NEW m \in Peers[n], Queue(n, m), Reading(n, "getbuf")
        PROVE  Conserved'
    <3>1. /\ Holds(n) = 1 /\ Holds(n)' = 0
          /\ \A k \in Nodes : k # n => Holds(k)' = Holds(k)
      BY <1>1, <2>1, <2>4 DEF Holds, Reading, ReaderType
    <3>2. /\ IsFiniteSet(Outstanding(n)')
          /\ Cardinality(Outstanding(n)') = Cardinality(Outstanding(n)) + 1
          /\ \A k \in Nodes : k # n => Outstanding(k)' = Outstanding(k)
      BY <2>4, QueueOutstanding
    <3> QED
      BY <2>1, <3>1, <3>2, ConservedStep
  <2> QED
    BY <2>2, <2>3, <2>4
<1>4. CASE CopyToNode(n) \/ SendOriginal(n)
  <2>1. PICK m \in Peers[n] : Queue(n, m)
    BY <1>4, PendingGroupSteps
  <2>2. /\ IsFiniteSet(Outstanding(n)')
        /\ Cardinality(Outstanding(n)') = Cardinality(Outstanding(n)) + 1
        /\ \A k \in Nodes : k # n => Outstanding(k)' = Outstanding(k)
    BY <2>1, QueueOutstanding
  <2>3. CASE CopyToNode(n)
    <3>1. \A k \in Nodes : Holds(k)' = Holds(k)
      BY <1>1, <2>3 DEF CopyToNode, Holds, ReaderType
    <3>2. /\ available[n] > 0 /\ available'[n] = available[n] - 1
          /\ \A k \in Nodes : k # n => available'[k] = available[k]
      BY <1>1, <2>3 DEF CopyToNode
    <3> QED
      BY <2>2, <3>1, <3>2, ConservedStep
  <2>4. CASE SendOriginal(n)
    <3>1. /\ Holds(n) = 1 /\ Holds(n)' = 0
          /\ \A k \in Nodes : k # n => Holds(k)' = Holds(k)
      BY <1>1, <2>4 DEF SendOriginal, Holds, ReaderType
    <3>2. available' = available
      BY <2>4 DEF SendOriginal
    <3> QED
      BY <2>2, <3>1, <3>2, ConservedStep
  <2> QED
    BY <1>4, <2>3, <2>4
<1>5. CASE GetBuffer(n)
  <2>1. /\ Holds(n) = 0 /\ Holds(n)' = 1
        /\ \A k \in Nodes : k # n => Holds(k)' = Holds(k)
    BY <1>1, <1>5 DEF GetBuffer, Reading, Holds, ReaderType
  <2>2. /\ available[n] > 0 /\ available'[n] = available[n] - 1
        /\ \A k \in Nodes : k # n => available'[k] = available[k]
        /\ \A k \in Nodes : Outstanding(k)' = Outstanding(k)
    BY <1>1, <1>5 DEF GetBuffer, Outstanding
  <2> QED
    BY <1>2, <2>1, <2>2, ConservedStep
<1> QED
  BY <1>3, <1>4, <1>5

LEMMA ConservedOther ==
  ASSUME PoolInv, UNCHANGED <<available, encoder_pool>>,
         \A k \in Nodes : Holds(k)' = Holds(k)
  PROVE  Conserved'
<1>1. \A k \in Nodes : Outstanding(k)' = Outstanding(k)
  BY DEF Outstanding
<1> QED
  BY <1>1 DEF PoolInv, Conserved

LEMMA NextPool == PoolInv /\ [Next]_vars => PoolInv'
<1> SUFFICES ASSUME PoolInv, [Next]_vars PROVE Conserved'
  BY NextTyped DEF PoolInv
<1>0. DOMAIN reader = Nodes /\ \A k \in Nodes : reader[k] \in ReaderType
  BY DEF PoolInv, TalkingTyped, Typed, ThreadsTyped
<1>1. ASSUME NEW n \in Nodes, ReadTap(n) PROVE Conserved'
  <2>1. PICK r : /\ reader' = [reader EXCEPT ![n] = r] /\ r.pc \in {"learn", "forward"}
                 /\ reader[n].pc = "read"
    BY <1>1 DEF ReadTap, AfterLookup
  <2>2. \A k \in Nodes : Holds(k)' = Holds(k)
    BY <1>0, <2>1 DEF Holds
  <2> QED
    BY <1>1, <2>2, ConservedOther DEF ReadTap, tunnels
<1>2. ASSUME NEW n \in Nodes, LearnLocal(n) \/ ForwardGroup(n) PROVE Conserved'
  <2>1. \A k \in Nodes : Holds(k)' = Holds(k)
    <3>1. CASE LearnLocal(n)
      BY <1>0, <3>1 DEF LearnLocal, Reading, Holds, ReaderType
    <3>2. CASE ForwardGroup(n)
      BY <1>0, <3>2 DEF ForwardGroup, Holds, ReaderType
    <3> QED
      BY <1>2, <3>1, <3>2
  <2> QED
    BY <1>2, <2>1, ConservedOther DEF LearnLocal, ForwardGroup, tunnels
<1>3. ASSUME NEW n \in Nodes, NEW m \in Peers[n], Carry(n, m) PROVE Conserved'
  <2>1. /\ IsFiniteSet(Outstanding(n)')
        /\ Cardinality(Outstanding(n)') = Cardinality(Outstanding(n)) - 1
        /\ \A k \in Nodes : k # n => Outstanding(k)' = Outstanding(k)
    BY <1>3, CarryOutstanding
  <2>2. /\ available'[n] = available[n] + 1
        /\ \A k \in Nodes : k # n => available'[k] = available[k]
        /\ \A k \in Nodes : Holds(k)' = Holds(k)
    BY <1>3 DEF Carry, Holds, PoolInv, TalkingTyped, Typed, PoolsTyped
  <2> QED
    BY <2>1, <2>2, ConservedStep
<1>4. ASSUME \/ \E n \in Nodes : \/ TakeFrame(n) \/ LearnRemote(n) \/ WriteTap(n)
                                 \/ ExpireEntries(n)
             \/ Tick \/ Move \/ UNCHANGED vars
      PROVE  Conserved'
  <2>1. UNCHANGED <<available, encoder_pool, reader>>
    BY <1>4 DEF TakeFrame, LearnRemote, WriteTap, ExpireEntries, Tick, Move, vars, tunnels
  <2> QED
    BY <2>1, ConservedOther DEF Holds
<1> QED
  BY <1>1, <1>2, <1>3, <1>4, Steps, ConservedReader

LEMMA AlwaysPool == Spec => []PoolInv
BY InitPool, NextPool, PTL DEF Spec

(* The types of all the switches keep, and that a pool of buffers for frames *)
(* from the tap has at no time fewer than none or more than all of them.   *)
THEOREM TypeCorrect == Spec => []TypeOK
<1>1. PoolInv /\ AgesInv => TypeOK
  <2> SUFFICES ASSUME PoolInv, AgesInv PROVE TypeOK
    OBVIOUS
  <2>1. clock \in Nat /\ place \in [MACs -> Nodes]
    BY DEF PoolInv, TalkingTyped, Typed, ClockTyped, StationsTyped
  <2>2. ASSUME NEW n \in Nodes
        PROVE  /\ DOMAIN fdb[n] \subseteq MACs
               /\ \A mac \in DOMAIN fdb[n] :
                    /\ fdb[n][mac].dest \in {Local} \union Peers[n]
                    /\ fdb[n][mac].last_seen \in 0..clock
    BY <2>1, Times DEF PoolInv, AgesInv, Ages
  <2>3. ASSUME NEW n \in Nodes
        PROVE  /\ reader[n].pc \in {"read", "learn", "forward", "group", "getbuf", "crashed"}
               /\ reader[n].todo \subseteq Peers[n]
               /\ writer[n].pc \in {"wait", "learn", "write"}
    BY DEF PoolInv, TalkingTyped, Typed, ThreadsTyped, ReaderType
  <2>4. ASSUME NEW n \in Nodes PROVE available[n] \in 0..PoolSize
    <3>1. PICK a, c, h : a = available[n] /\ c = Cardinality(Outstanding(n)) /\ h = Holds(n)
      OBVIOUS
    <3>2. a \in Nat /\ c \in Nat /\ h \in {0, 1} /\ a + c + h = PoolSize
      BY <3>1, FS_CardinalityType DEF PoolInv, Conserved, Holds
    <3> QED
      BY <3>1, <3>2
  <2> QED
    BY <2>1, <2>2, <2>3, <2>4 DEF TypeOK
<1> QED
  BY <1>1, AlwaysPool, InitAges, NextAges, PTL DEF Spec

-----------------------------------------------------------------------------
(* Delivery.  A group frame is in one of the stages of its way to every node *)
(* that is to have it.                                                     *)
Accounted ==
  \A i \in DOMAIN sent : sent[i].dst = Group =>
    \A m \in Peers[sent[i].origin] : Reached(sent[i].origin, m) =>
      \/ sent[i] \in Pending(sent[i].origin, m)
      \/ sent[i] \in InTunnel(sent[i].origin, m)
      \/ sent[i] \in Arrived(m)

DeliveryInv == RouteInv /\ PoolInv /\ Accounted

(* A tap reader that has crashed does nothing any more. *)
LEMMA ReaderRuns ==
  ASSUME TalkingTyped, NEW n \in Nodes,
         ReadTap(n) \/ LearnLocal(n) \/ ForwardUnicast(n) \/ ForwardGroup(n)
           \/ CopyToNode(n) \/ SendOriginal(n) \/ GetBuffer(n)
  PROVE  \A k \in Nodes : Running(k)' => Running(k)
<1>1. Running(n)
  BY DEF ReadTap, LearnLocal, ForwardUnicast, ForwardGroup, CopyToNode, SendOriginal,
         GetBuffer, Running
<1>2. \A k \in Nodes : k # n => reader'[k] = reader[k]
  BY DEF ReadTap, LearnLocal, ForwardUnicast, ForwardGroup, CopyToNode, SendOriginal,
         GetBuffer, Reading, TalkingTyped, Typed, ThreadsTyped
<1> QED
  BY <1>1, <1>2 DEF Running

(* One frame and one node, whose stages are known to change for the better. *)
LEMMA AccountedStep ==
  ASSUME RouteInv, Accounted, UNCHANGED sent,
         \A k \in Nodes : Running(k)' => Running(k),
         \A k \in Nodes : \A m \in Peers[k] : \A f \in Pending(k, m) :
           f.dst = Group => f \in Pending(k, m)' \union InTunnel(k, m)' \union Arrived(m)',
         \A k \in Nodes : \A m \in Peers[k] : \A f \in InTunnel(k, m) :
           Reached(k, m) => f \in InTunnel(k, m)' \union Arrived(m)',
         \A m \in Nodes : Arrived(m) \subseteq Arrived(m)'
  PROVE  Accounted'
<1> SUFFICES ASSUME NEW i \in DOMAIN sent, sent[i].dst = Group,
                    NEW m \in Peers[sent[i].origin], Reached(sent[i].origin, m)'
             PROVE  \/ sent[i] \in Pending(sent[i].origin, m)'
                    \/ sent[i] \in InTunnel(sent[i].origin, m)'
                    \/ sent[i] \in Arrived(m)'
  BY DEF Accounted
<1>1. sent[i].origin \in Nodes
  BY DEF RouteInv, AllGenuine
<1>2. m \in Nodes
  BY <1>1, NodeFacts
<1>3. Reached(sent[i].origin, m)
  BY <1>2 DEF Reached
<1> QED
  BY <1>1, <1>2, <1>3 DEF Accounted

LEMMA AccountedReadTap ==
  ASSUME DeliveryInv, NEW n \in Nodes, ReadTap(n)
  PROVE  Accounted'
<1> USE DEF DeliveryInv, RouteInv
<1>1. PICK src \in MACs, dst \in MACs \union {Group} :
        reader' = [reader EXCEPT ![n] =
             [pc |-> AfterLookup(n, src, "forward"), todo |-> {},
              frame |-> [id |-> Len(sent) + 1, src |-> src, dst |-> dst, origin |-> n]]]
  BY DEF ReadTap
<1>2. PICK new : new = [id |-> Len(sent) + 1, src |-> src, dst |-> dst, origin |-> n]
  OBVIOUS
<1>3. /\ UNCHANGED <<writer, encoder_pool, tap_write_pool, written>>
      /\ sent' = Append(sent, reader'[n].frame) /\ reader[n].pc = "read"
  BY DEF ReadTap, tunnels
<1>4. DOMAIN reader = Nodes /\ sent \in Seq(FrameType)
  BY DEF TalkingTyped, Typed, ThreadsTyped, StationsTyped
<1>5. /\ reader'[n].frame = new /\ reader'[n].pc \in {"learn", "forward"}
      /\ \A k \in Nodes : k # n => reader'[k] = reader[k]
  BY <1>1, <1>2, <1>4 DEF AfterLookup
<1>6. Len(sent) \in Nat /\ DOMAIN sent = 1..Len(sent) /\ new \in FrameType
  BY <1>2, <1>4, LenProperties DEF FrameType
<1>7. /\ DOMAIN sent' = DOMAIN sent \union {Len(sent) + 1}
      /\ \A i \in DOMAIN sent : sent'[i] = sent[i]
      /\ sent'[Len(sent) + 1] = new
  BY <1>3, <1>4, <1>5, <1>6, AppendFacts
<1>8. new.origin = n
  BY <1>2
<1>9. \A m \in Nodes : Arrived(m)' = Arrived(m)
  BY <1>3 DEF Arrived, Waiting, Writing, Written
<1>10. \A k \in Nodes : \A m \in Peers[k] :
        /\ InTunnel(k, m)' = InTunnel(k, m)
        /\ k # n => Pending(k, m)' = Pending(k, m)
        /\ k = n => Pending(k, m) = {} /\ Pending(k, m)' = {new}
  BY <1>3, <1>5 DEF InTunnel, Pending
<1>11. SUFFICES ASSUME NEW i \in DOMAIN sent', sent'[i].dst = Group,
                    NEW m \in Peers[sent'[i].origin],
                    sent'[i].origin \in Peers[m], Running(m)'
             PROVE  \/ sent'[i] \in Pending(sent[i].origin, m)'
                    \/ sent'[i] \in InTunnel(sent[i].origin, m)'
                    \/ sent'[i] \in Arrived(m)'
  BY DEF Accounted, Reached
<1>12. CASE i = Len(sent) + 1
  BY <1>5, <1>7, <1>8, <1>10, <1>12 DEF Pending
<1>13. CASE i \in DOMAIN sent
  <2>1. PICK f, k : f = sent[i] /\ k = f.origin
    OBVIOUS
  <2>2. sent'[i] = f /\ k \in Nodes /\ m \in Peers[k] /\ k \in Peers[m] /\ f.dst = Group
    BY <1>7, <1>11, <1>13, <2>1 DEF AllGenuine
  <2>3. m \in Nodes
    BY <2>2, NodeFacts
  <2>4. f \in Pending(k, m) \/ f \in InTunnel(k, m) \/ f \in Arrived(m)
    <3>1. Reached(k, m)
      BY <1>11, <2>2, <2>3, ReaderRuns DEF Reached
    <3> QED
      BY <1>13, <2>1, <2>2, <3>1 DEF Accounted
  <2>5. f \in Pending(k, m)' \/ f \in InTunnel(k, m)' \/ f \in Arrived(m)'
    BY <1>9, <1>10, <2>2, <2>3, <2>4
  <2> QED
    BY <2>1, <2>2, <2>5 DEF Pending, InTunnel
<1> QED
  BY <1>7, <1>12, <1>13

LEMMA AccountedReader ==
  ASSUME DeliveryInv, NEW n \in Nodes,
         LearnLocal(n) \/ ForwardUnicast(n) \/ ForwardGroup(n) \/ CopyToNode(n)
           \/ SendOriginal(n) \/ GetBuffer(n)
  PROVE  Accounted'
<1> USE DEF DeliveryInv, RouteInv
<1>1. UNCHANGED <<sent, writer, tap_write_pool, written>>
  BY ReaderFrames DEF stations
<1>2. \A m \in Nodes : Arrived(m)' = Arrived(m)
  BY <1>1 DEF Arrived, Waiting, Writing, Written
<1>3. \A k \in Nodes : Running(k)' => Running(k)
  BY ReaderRuns
<1>4. CASE LearnLocal(n) \/ ForwardGroup(n) \/ GetBuffer(n)
  <2>1. \A k \in Nodes : \A m \in Peers[k] :
          Pending(k, m)' = Pending(k, m) /\ InTunnel(k, m)' = InTunnel(k, m)
    <3>1. UNCHANGED encoder_pool
      BY <1>4 DEF LearnLocal, ForwardGroup, GetBuffer, tunnels
    <3> QED
      BY <1>4, <3>1, PendingSteps DEF InTunnel
  <2> QED
    BY <1>1, <1>2, <2>1, <1>3, AccountedStep
<1>5. CASE ForwardUnicast(n)
  <2>1. /\ \A k \in Nodes : \A x \in Peers[k] :
             Pending(k, x)' = IF k = n THEN {} ELSE Pending(k, x)
        /\ \A x \in Peers[n] : Pending(n, x) = {reader[n].frame}
        /\ reader[n].frame.dst # Group
    BY <1>5, PendingSteps DEF ForwardUnicast
  <2>2. \/ UNCHANGED encoder_pool
        \/ \E m \in Peers[n] : Queue(n, m)
    BY <1>5, Times DEF ForwardUnicast, Knows
  <2>3. \A k \in Nodes : \A x \in Peers[k] : InTunnel(k, x) \subseteq InTunnel(k, x)'
    BY <1>1, <2>2, QueueStages DEF InTunnel
  <2> QED
    BY <1>1, <1>2, <2>1, <2>3, <1>3, AccountedStep
<1>6. CASE CopyToNode(n) \/ SendOriginal(n)
  <2>1. PICK m \in Peers[n] :
             /\ Queue(n, m)
             /\ Pending(n, m) = {reader[n].frame}
             /\ \A k \in Nodes : \A x \in Peers[k] :
                  Pending(k, x)' = IF k = n /\ x = m THEN {} ELSE Pending(k, x)
    BY <1>6, PendingGroupSteps
  <2>2. \A k \in Nodes : \A x \in Peers[k] :
          InTunnel(k, x)' = InTunnel(k, x) \union
                              (IF k = n /\ x = m THEN {reader[n].frame} ELSE {})
    BY <1>1, <2>1, QueueStages
  <2> QED
    BY <1>1, <1>2, <2>1, <2>2, <1>3, AccountedStep
<1> QED
  BY <1>4, <1>5, <1>6

LEMMA AccountedCarry ==
  ASSUME DeliveryInv, NEW n \in Nodes, NEW m \in Peers[n], Carry(n, m)
  PROVE  Accounted'
<1> USE DEF DeliveryInv, RouteInv
<1>1. PICK f \in InTunnel(n, m) :
           /\ InTunnel(n, m) = InTunnel(n, m)' \union {f}
           /\ \A k \in Nodes : \A x \in Peers[k] :
                ~(k = n /\ x = m) => InTunnel(k, x)' = InTunnel(k, x)
           /\ Waiting(m)' = Waiting(m) \union (IF Reached(n, m) THEN {f} ELSE {})
           /\ \A x \in Nodes : x # m => Waiting(x)' = Waiting(x)
           /\ \A x \in Nodes : Writing(x)' = Writing(x) /\ Written(x)' = Written(x)
           /\ \A k \in Nodes : \A x \in Peers[k] : Pending(k, x)' = Pending(k, x)
  BY CarryStages
<1>2. \A x \in Nodes :
        Arrived(x)' = Arrived(x) \union (IF x = m /\ Reached(n, m) THEN {f} ELSE {})
  BY <1>1 DEF Arrived
<1>3. m \in Nodes /\ UNCHANGED <<sent, reader>>
  BY NodeFacts DEF Carry, stations
<1>4. \A k \in Nodes : Running(k)' => Running(k)
  BY <1>3 DEF Running
<1> QED
  BY <1>1, <1>2, <1>3, <1>4, AccountedStep

LEMMA AccountedWriter ==
  ASSUME DeliveryInv, NEW n \in Nodes, TakeFrame(n) \/ LearnRemote(n) \/ WriteTap(n)
  PROVE  Accounted'
<1> USE DEF DeliveryInv, RouteInv
<1>1. UNCHANGED <<sent, reader, encoder_pool>>
  BY DEF TakeFrame, LearnRemote, WriteTap, stations, tunnels
<1>2. \A k \in Nodes : \A x \in Peers[k] :
        Pending(k, x)' = Pending(k, x) /\ InTunnel(k, x)' = InTunnel(k, x)
  BY <1>1 DEF Pending, InTunnel
<1>3. \A x \in Nodes : Arrived(x) \subseteq Arrived(x)'
  <2>1. CASE TakeFrame(n)
    <3>1. PICK e \in Elements(tap_write_pool[n]) :
               /\ Elements(tap_write_pool[n]) = Elements(tap_write_pool[n])' \union {e}
               /\ Writing(n) = {} /\ Writing(n)' = {e.frame}
               /\ \A x \in Nodes : x # n =>
                    Waiting(x)' = Waiting(x) /\ Writing(x)' = Writing(x)
               /\ \A x \in Nodes : Written(x)' = Written(x)
      BY <2>1, TakeStages
    <3>2. Waiting(n) = Waiting(n)' \union {e.frame}
      BY <3>1 DEF Waiting
    <3> QED
      BY <3>1, <3>2 DEF Arrived
  <2>2. CASE LearnRemote(n)
    <3>1. UNCHANGED <<tap_write_pool, written>>
      BY <2>2 DEF LearnRemote
    <3>2. \A x \in Nodes : Writing(x)' = Writing(x)
      <4>1. /\ writer' = [writer EXCEPT ![n].pc = "write"] /\ writer[n].pc = "learn"
        BY <2>2 DEF LearnRemote
      <4> QED
        BY <4>1 DEF Writing, TalkingTyped, Typed, ThreadsTyped
    <3> QED
      BY <3>1, <3>2 DEF Arrived, Waiting, Written
  <2>3. CASE WriteTap(n)
    <3>1. PICK f :
               /\ Writing(n) = {f} /\ Writing(n)' = {}
               /\ Written(n)' = Written(n) \union {f}
               /\ \A x \in Nodes : x # n =>
                    Written(x)' = Written(x) /\ Writing(x)' = Writing(x)
               /\ \A x \in Nodes : Waiting(x)' = Waiting(x)
      BY <2>3, WriteStages
    <3> QED
      BY <3>1 DEF Arrived
  <2> QED
    BY <2>1, <2>2, <2>3
<1>4. \A k \in Nodes : Running(k)' => Running(k)
  BY <1>1 DEF Running
<1> QED
  BY <1>1, <1>2, <1>3, <1>4, AccountedStep

LEMMA NextDelivery == DeliveryInv /\ [Next]_vars => DeliveryInv'
<1> SUFFICES ASSUME DeliveryInv, [Next]_vars PROVE Accounted'
  BY NextRoute, NextPool DEF DeliveryInv
<1>1. ASSUME \/ \E n \in Nodes : ExpireEntries(n)
             \/ Tick \/ Move \/ UNCHANGED vars
      PROVE  Accounted'
  <2>1. UNCHANGED <<sent, reader, writer, encoder_pool, tap_write_pool, written>>
    BY <1>1 DEF ExpireEntries, Tick, Move, vars, stations, tunnels
  <2>2. /\ \A x \in Nodes : Arrived(x)' = Arrived(x)
        /\ \A k \in Nodes : \A x \in Peers[k] :
             Pending(k, x)' = Pending(k, x) /\ InTunnel(k, x)' = InTunnel(k, x)
    BY <2>1 DEF Arrived, Waiting, Writing, Written, Pending, InTunnel
  <2>3. \A k \in Nodes : Running(k)' => Running(k)
    BY <2>1 DEF Running
  <2> QED
    BY <2>1, <2>2, <2>3, AccountedStep DEF DeliveryInv
<1> QED
  BY <1>1, Steps, AccountedReadTap, AccountedReader, AccountedCarry, AccountedWriter

LEMMA InitDelivery == Init => DeliveryInv
<1>1. Init => Accounted
  BY DEF Init, Accounted
<1> QED
  BY <1>1, InitRoute, InitPool DEF DeliveryInv

(* When nothing moves any more, a pool whose frames have all gone has a      *)
(* buffer for the tap reader, so that none is stuck with a frame; what is  *)
(* in none of the earlier stages was written.                              *)
LEMMA QuietDelivery == DeliveryInv => GroupDelivered
<1> SUFFICES ASSUME DeliveryInv, Quiet,
                    NEW i \in DOMAIN sent, sent[i].dst = Group, Running(sent[i].origin),
                    NEW m \in Peers[sent[i].origin], Reached(sent[i].origin, m)
             PROVE  \E j \in DOMAIN written[m] : written[m][j] = sent[i]
  BY DEF GroupDelivered, Reached
<1>1. PICK n \in Nodes : n = sent[i].origin
  BY DEF DeliveryInv, RouteInv, AllGenuine
<1>2. m \in Peers[n] /\ m \in Nodes /\ Running(n) /\ Running(m)
  BY <1>1, NodeFacts DEF Reached
<1>3. Elements(<<>>) = {}
  BY DEF Elements
<1>4. InTunnel(n, m) = {} /\ Waiting(m) = {} /\ Writing(m) = {}
  BY <1>2, <1>3 DEF Quiet, InTunnel, Waiting, Writing
<1>5. reader[n].pc = "read"
  <2>1. Outstanding(n) = {}
    BY <1>2 DEF Quiet, Outstanding
  <2>2. Cardinality(Outstanding(n)) = 0
    BY <2>1, FS_EmptySet
  <2>3. /\ available[n] \in Nat /\ available[n] + 0 + Holds(n) = PoolSize
        /\ PoolSize \in Nat \ {0, 1} /\ Holds(n) \in {0, 1}
    BY <2>2, SwitchAssumption DEF DeliveryInv, PoolInv, Conserved, Holds
  <2>4. \A a \in Nat, h \in {0, 1}, size \in Nat \ {0, 1} : a + 0 + h = size => a # 0
    OBVIOUS
  <2>5. available[n] # 0
    BY <2>3, <2>4
  <2> QED
    BY <1>2, <2>5 DEF Quiet
<1>6. Pending(n, m) = {}
  BY <1>5 DEF Pending
<1>7. sent[i] \in Written(m)
  BY <1>1, <1>2, <1>4, <1>6 DEF DeliveryInv, Accounted, Arrived
<1> QED
  BY <1>7 DEF Written, Elements

(* A group frame reaches every other node that lists its sender, for any     *)
(* pool of two buffers or more, however many copies it needs: the tap       *)
(* reader waits only for buffers that are on their way, and they come back. *)
THEOREM GroupsDelivered == Spec => []GroupDelivered
BY InitDelivery, NextDelivery, QuietDelivery, PTL DEF Spec

-----------------------------------------------------------------------------
(* Places.  As long as no station has moved, frames come from the node their *)
(* source is at and are on the way to the one their destination is at, and *)
(* the tables say so.                                                      *)
Addressed(f, m) == f.dst \in MACs => place[f.dst] = m

SentFromPlace ==
  \A i \in DOMAIN sent : place[sent[i].src] = sent[i].origin

TablesRight ==
  \A n \in Nodes : \A mac \in DOMAIN fdb[n] :
    fdb[n][mac].dest = IF place[mac] = n THEN Local ELSE place[mac]

StagesRight ==
  /\ \A n \in Nodes : \A m \in Peers[n] : \A f \in InTunnel(n, m) : Addressed(f, m)
  /\ \A m \in Nodes : \A f \in Arrived(m) : Addressed(f, m)

GroupInHand == \A n \in Nodes : reader[n].pc = "group" => reader[n].frame.dst = Group

PlaceInv ==
  RouteInv /\ GroupInHand /\ (moves = 0 => SentFromPlace /\ TablesRight /\ StagesRight)

LEMMA PlaceLearned == PlaceInv => LearnedPlace
<1> SUFFICES ASSUME PlaceInv, moves = 0, NEW n \in Nodes
             PROVE  /\ \A mac \in DOMAIN fdb[n] :
                         fdb[n][mac].dest = IF place[mac] = n THEN Local ELSE place[mac]
                    /\ \A i \in DOMAIN written[n] :
                         written[n][i].dst \in
                           {Group} \union {mac \in MACs : place[mac] = n}
  BY DEF LearnedPlace
<1>1. ASSUME NEW i \in DOMAIN written[n]
      PROVE  written[n][i].dst \in {Group} \union {mac \in MACs : place[mac] = n}
  <2>1. PICK f : f = written[n][i]
    OBVIOUS
  <2>2. f \in Arrived(n)
    BY <2>1 DEF Arrived, Written, Elements
  <2>3. f \in FrameType
    BY <2>1, LenProperties, ElementOfSeq DEF PlaceInv, RouteInv, TalkingTyped, Typed, PoolsTyped
  <2> QED
    BY <2>1, <2>2, <2>3 DEF PlaceInv, StagesRight, Addressed, FrameType
<1> QED
  BY <1>1 DEF PlaceInv, TablesRight

(* A thread enters what it handles under the right node. *)
LEMMA LearnRight ==
  ASSUME PlaceInv, moves = 0, UNCHANGED place, NEW n \in Nodes,
         \/ LearnLocal(n) \/ LearnRemote(n)
  PROVE  TablesRight'
<1> USE DEF PlaceInv, RouteInv
<1>1. PICK mac, dest : /\ mac \in MACs /\ Learn(n, mac, dest)
                       /\ dest = IF place[mac] = n THEN Local ELSE place[mac]
  <2>1. CASE LearnLocal(n)
    <3>1. PICK f : f = reader[n].frame
      OBVIOUS
    <3>2. Learn(n, f.src, Local) /\ reader[n].pc # "read"
      BY <2>1, <3>1 DEF LearnLocal
    <3>3. Genuine(f) /\ f.origin = n /\ f.src \in MACs
      BY <3>1, <3>2 DEF AllGenuine, TalkingTyped, Talking
    <3>4. place[f.src] = n
      BY <3>3 DEF SentFromPlace, Genuine
    <3> QED
      BY <3>2, <3>3, <3>4
  <2>2. CASE LearnRemote(n)
    <3>1. PICK f, from : f = writer[n].frame /\ from = writer[n].from
      OBVIOUS
    <3>2. Learn(n, f.src, from) /\ writer[n].pc # "wait"
      BY <2>2, <3>1 DEF LearnRemote
    <3>3. Genuine(f) /\ f.origin = from /\ f.src \in MACs /\ from \in Peers[n]
      BY <3>1, <3>2 DEF AllGenuine, TalkingTyped, Talking
    <3>4. place[f.src] = from /\ from # n
      BY <3>3, NodeFacts DEF SentFromPlace, Genuine
    <3> QED
      BY <3>2, <3>3, <3>4
  <2> QED
    BY <2>1, <2>2
<1>2. ASSUME NEW k \in Nodes, NEW x \in DOMAIN fdb'[k]
      PROVE  fdb'[k][x].dest = IF place[x] = k THEN Local ELSE place[x]
  <2>1. /\ DOMAIN fdb'[k] = DOMAIN fdb[k] \union (IF k = n THEN {mac} ELSE {})
        /\ fdb'[k][x] = IF x \in DOMAIN fdb[k] THEN fdb[k][x]
                        ELSE [dest |-> dest, last_seen |-> clock]
    BY <1>1, LearnEffect
  <2>2. CASE x \in DOMAIN fdb[k]
    BY <2>1, <2>2 DEF TablesRight
  <2>3. CASE x \notin DOMAIN fdb[k]
    BY <1>1, <2>1, <2>3
  <2> QED
    BY <2>2, <2>3
<1> QED
  BY <1>2 DEF TablesRight

LEMMA LookupRight ==
  ASSUME PlaceInv, moves = 0, UNCHANGED place, NEW n \in Nodes, NEW mac \in MACs,
         Lookup(n, mac)
  PROVE  TablesRight'
BY LookupEffect DEF PlaceInv, RouteInv, TablesRight

LEMMA PlaceReadTap ==
  ASSUME PlaceInv, NEW n \in Nodes, ReadTap(n)
  PROVE  GroupInHand' /\ (moves' = 0 => SentFromPlace' /\ TablesRight' /\ StagesRight')
<1> USE DEF PlaceInv, RouteInv
<1>1. PICK src \in MACs, dst \in MACs \union {Group} :
        /\ place[src] = n
        /\ reader' = [reader EXCEPT ![n] =
             [pc |-> AfterLookup(n, src, "forward"), todo |-> {},
              frame |-> [id |-> Len(sent) + 1, src |-> src, dst |-> dst, origin |-> n]]]
        /\ Lookup(n, src)
  BY DEF ReadTap
<1>2. PICK new : new = [id |-> Len(sent) + 1, src |-> src, dst |-> dst, origin |-> n]
  OBVIOUS
<1>3. /\ UNCHANGED <<writer, encoder_pool, tap_write_pool, written, place, moves>>
      /\ sent' = Append(sent, reader'[n].frame)
  BY DEF ReadTap, tunnels
<1>4. DOMAIN reader = Nodes /\ sent \in Seq(FrameType)
  BY DEF TalkingTyped, Typed, ThreadsTyped, StationsTyped
<1>5. /\ reader'[n].frame = new /\ reader'[n].pc # "group"
      /\ \A k \in Nodes : k # n => reader'[k] = reader[k]
  BY <1>1, <1>2, <1>4 DEF AfterLookup
<1>6. Len(sent) \in Nat /\ new \in FrameType
  BY <1>2, <1>4, LenProperties DEF FrameType
<1>7. /\ \A i \in DOMAIN sent' : i \in DOMAIN sent \/ i = Len(sent) + 1
      /\ \A i \in DOMAIN sent : sent'[i] = sent[i]
      /\ sent'[Len(sent) + 1] = new
  BY <1>3, <1>4, <1>5, <1>6, AppendFacts
<1>8. GroupInHand'
  BY <1>5 DEF GroupInHand
<1>9. ASSUME moves' = 0 PROVE SentFromPlace' /\ TablesRight' /\ StagesRight'
  <2>1. moves = 0
    BY <1>3, <1>9
  <2>2. new.src = src /\ new.dst = dst /\ new.origin = n
    BY <1>2
  <2>3. SentFromPlace'
    BY <1>1, <1>3, <1>7, <2>1, <2>2 DEF SentFromPlace
  <2>4. TablesRight'
    BY <1>1, <1>3, <2>1, LookupRight
  <2>5. StagesRight'
    <3>1. StagesRight
      BY <2>1
    <3> QED
      BY <1>3, <3>1 DEF StagesRight, InTunnel, Arrived, Waiting, Writing, Written, Addressed
  <2> QED
    BY <2>3, <2>4, <2>5
<1> QED
  BY <1>8, <1>9

(* The tap reader passes a frame on to the node it is for. *)
LEMMA PlaceReader ==
  ASSUME PlaceInv, NEW n \in Nodes,
         LearnLocal(n) \/ ForwardUnicast(n) \/ ForwardGroup(n) \/ CopyToNode(n)
           \/ SendOriginal(n) \/ GetBuffer(n)
  PROVE  GroupInHand' /\ (moves' = 0 => SentFromPlace' /\ TablesRight' /\ StagesRight')
<1> USE DEF PlaceInv, RouteInv
<1>1. /\ \A k \in Nodes : reader'[k].frame = reader[k].frame
      /\ UNCHANGED <<stations, writer, tap_write_pool, written>>
      /\ UNCHANGED <<place, sent, moves>>
  BY ReaderFrames DEF stations
<1>2. DOMAIN reader = Nodes /\ reader[n] \in ReaderType
  BY DEF TalkingTyped, Typed, ThreadsTyped
<1>3. GroupInHand'
  <2>1. \A k \in Nodes : k # n => reader'[k] = reader[k]
    BY <1>2 DEF LearnLocal, ForwardUnicast, ForwardGroup, CopyToNode, SendOriginal,
                GetBuffer, Reading
  <2>2. reader'[n].pc = "group" => reader[n].frame.dst = Group
    <3>1. CASE LearnLocal(n) \/ ForwardUnicast(n) \/ GetBuffer(n)
      <4>1. PICK pc \in {"forward", "read", "crashed", "getbuf"} :
              reader' = [reader EXCEPT ![n].pc = pc]
        BY <3>1 DEF LearnLocal, ForwardUnicast, GetBuffer, Reading
      <4> QED
        BY <1>2, <4>1 DEF ReaderType
    <3>2. CASE ForwardGroup(n) \/ CopyToNode(n) \/ SendOriginal(n)
      BY <3>2 DEF ForwardGroup, CopyToNode, SendOriginal, GroupInHand
    <3> QED
      BY <3>1, <3>2
  <2> QED
    BY <1>1, <2>1, <2>2 DEF GroupInHand
<1>4. ASSUME moves' = 0 PROVE SentFromPlace' /\ TablesRight' /\ StagesRight'
  <2>1. moves = 0
    BY <1>1, <1>4
  <2>2. SentFromPlace'
    BY <1>1, <2>1 DEF SentFromPlace
  <2>3. TablesRight'
    <3>1. CASE LearnLocal(n)
      BY <1>1, <2>1, <3>1, LearnRight
    <3>2. CASE ~LearnLocal(n)
      <4>1. fdb' = fdb
        BY <3>2 DEF ForwardUnicast, ForwardGroup, CopyToNode, SendOriginal, GetBuffer
      <4> QED
        BY <1>1, <2>1, <4>1 DEF TablesRight
    <3> QED
      BY <3>1, <3>2
  <2>4. \A m \in Nodes : Arrived(m)' = Arrived(m)
    BY <1>1 DEF Arrived, Waiting, Writing, Written
  <2>5. \/ UNCHANGED encoder_pool
        \/ \E m \in Peers[n] : Queue(n, m) /\ Addressed(reader[n].frame, m)
    <3>1. CASE LearnLocal(n) \/ ForwardGroup(n) \/ GetBuffer(n)
      BY <3>1 DEF LearnLocal, ForwardGroup, GetBuffer, tunnels
    <3>2. CASE ForwardUnicast(n)
      <4>1. PICK dst : dst = reader[n].frame.dst
        OBVIOUS
      <4>2. \/ UNCHANGED encoder_pool
            \/ /\ dst \in DOMAIN fdb[n] /\ fdb[n][dst].dest # Local
               /\ Queue(n, fdb[n][dst].dest)
        BY <3>2, <4>1 DEF ForwardUnicast, Knows
      <4>3. ASSUME dst \in DOMAIN fdb[n], fdb[n][dst].dest # Local
            PROVE  fdb[n][dst].dest \in Peers[n] /\ place[dst] = fdb[n][dst].dest
        BY <2>1, <4>3, Times DEF TablesRight
      <4> QED
        BY <4>1, <4>2, <4>3 DEF Addressed
    <3>3. CASE CopyToNode(n) \/ SendOriginal(n)
      <4>1. PICK m \in Peers[n] : Queue(n, m)
        BY <3>3, PendingGroupSteps
      <4>2. reader[n].frame.dst \notin MACs
        BY <3>3, SwitchAssumption DEF CopyToNode, SendOriginal, GroupInHand, SwitchAssumption
      <4> QED
        BY <4>1, <4>2 DEF Addressed
    <3> QED
      BY <3>1, <3>2, <3>3
  <2>6. ASSUME NEW k \in Nodes, NEW m \in Peers[k], NEW f \in InTunnel(k, m)'
        PROVE  Addressed(f, m)
    <3>1. CASE UNCHANGED encoder_pool
      BY <2>1, <2>6, <3>1 DEF StagesRight, InTunnel
    <3>2. ASSUME NEW x \in Peers[n], Queue(n, x), Addressed(reader[n].frame, x)
          PROVE  Addressed(f, m)
      <4>1. InTunnel(k, m)' = InTunnel(k, m) \union
                                (IF k = n /\ m = x THEN {reader[n].frame} ELSE {})
        BY <1>1, <3>2, QueueStages
      <4> QED
        BY <2>1, <2>6, <3>2, <4>1 DEF StagesRight
    <3> QED
      BY <2>5, <3>1, <3>2
  <2>7. StagesRight'
    BY <1>1, <2>1, <2>4, <2>6 DEF StagesRight, Addressed
  <2> QED
    BY <2>2, <2>3, <2>7
<1> QED
  BY <1>3, <1>4

LEMMA PlaceCarry ==
  ASSUME PlaceInv, NEW n \in Nodes, NEW m \in Peers[n], Carry(n, m)
  PROVE  GroupInHand' /\ (moves' = 0 => SentFromPlace' /\ TablesRight' /\ StagesRight')
<1> USE DEF PlaceInv, RouteInv
<1>1. PICK f \in InTunnel(n, m) :
           /\ InTunnel(n, m) = InTunnel(n, m)' \union {f}
           /\ \A k \in Nodes : \A x \in Peers[k] :
                ~(k = n /\ x = m) => InTunnel(k, x)' = InTunnel(k, x)
           /\ Waiting(m)' = Waiting(m) \union (IF Reached(n, m) THEN {f} ELSE {})
           /\ \A x \in Nodes : x # m => Waiting(x)' = Waiting(x)
           /\ \A x \in Nodes : Writing(x)' = Writing(x) /\ Written(x)' = Written(x)
  BY CarryStages
<1>2. UNCHANGED <<place, sent, moves, fdb, reader>>
  BY DEF Carry, stations
<1>3. ASSUME moves = 0 PROVE StagesRight'
  <2>1. Addressed(f, m) /\ StagesRight
    BY <1>3 DEF StagesRight
  <2>2. \A k \in Nodes : \A x \in Peers[k] : InTunnel(k, x)' \subseteq InTunnel(k, x)
    BY <1>1
  <2>3. \A x \in Nodes :
          Arrived(x)' \subseteq Arrived(x) \union (IF x = m THEN {f} ELSE {})
    BY <1>1 DEF Arrived
  <2>4. ASSUME NEW x \in Nodes, NEW g \in Arrived(x)' PROVE Addressed(g, x)
    BY <2>1, <2>3, <2>4 DEF StagesRight
  <2> QED
    BY <1>2, <2>1, <2>2, <2>4 DEF StagesRight, Addressed
<1> QED
  BY <1>2, <1>3 DEF GroupInHand, SentFromPlace, TablesRight

LEMMA PlaceWriter ==
  ASSUME PlaceInv, NEW n \in Nodes, TakeFrame(n) \/ LearnRemote(n) \/ WriteTap(n)
  PROVE  GroupInHand' /\ (moves' = 0 => SentFromPlace' /\ TablesRight' /\ StagesRight')
<1> USE DEF PlaceInv, RouteInv
<1>1. UNCHANGED <<place, sent, moves, reader, encoder_pool>>
  BY DEF TakeFrame, LearnRemote, WriteTap, stations, tunnels
<1>2. \A x \in Nodes : Arrived(x)' \subseteq Arrived(x)
  <2>1. CASE TakeFrame(n)
    <3>1. PICK e \in Elements(tap_write_pool[n]) :
               /\ Elements(tap_write_pool[n]) = Elements(tap_write_pool[n])' \union {e}
               /\ Writing(n)' = {e.frame}
               /\ \A x \in Nodes : x # n =>
                    Waiting(x)' = Waiting(x) /\ Writing(x)' = Writing(x)
               /\ \A x \in Nodes : Written(x)' = Written(x)
      BY <2>1, TakeStages
    <3>2. Waiting(n) = Waiting(n)' \union {e.frame}
      BY <3>1 DEF Waiting
    <3> QED
      BY <3>1, <3>2 DEF Arrived
  <2>2. CASE LearnRemote(n)
    <3>1. UNCHANGED <<tap_write_pool, written>>
      BY <2>2 DEF LearnRemote
    <3>2. \A x \in Nodes : Writing(x)' = Writing(x)
      <4>1. /\ writer' = [writer EXCEPT ![n].pc = "write"] /\ writer[n].pc = "learn"
        BY <2>2 DEF LearnRemote
      <4> QED
        BY <4>1 DEF Writing, TalkingTyped, Typed, ThreadsTyped
    <3> QED
      BY <3>1, <3>2 DEF Arrived, Waiting, Written
  <2>3. CASE WriteTap(n)
    <3>1. PICK f :
               /\ Writing(n) = {f} /\ Writing(n)' = {}
               /\ Written(n)' = Written(n) \union {f}
               /\ \A x \in Nodes : x # n =>
                    Written(x)' = Written(x) /\ Writing(x)' = Writing(x)
               /\ \A x \in Nodes : Waiting(x)' = Waiting(x)
      BY <2>3, WriteStages
    <3> QED
      BY <3>1 DEF Arrived
  <2> QED
    BY <2>1, <2>2, <2>3
<1>3. ASSUME moves = 0 PROVE StagesRight' /\ SentFromPlace'
  BY <1>1, <1>2, <1>3 DEF StagesRight, InTunnel, Addressed, SentFromPlace
<1>4. ASSUME moves = 0 PROVE TablesRight'
  <2>1. CASE TakeFrame(n)
    <3>1. PICK e \in Elements(tap_write_pool[n]) : e = Head(tap_write_pool[n])
      BY <2>1, TakeStages
    <3>2. e.frame.src \in MACs /\ Lookup(n, e.frame.src)
      BY <2>1, <3>1 DEF TakeFrame, TalkingTyped, Talking
    <3> QED
      BY <1>1, <1>4, <3>2, LookupRight
  <2>2. CASE LearnRemote(n)
    BY <1>1, <1>4, <2>2, LearnRight
  <2>3. CASE WriteTap(n)
    BY <1>1, <1>4, <2>3 DEF WriteTap, TablesRight
  <2> QED
    BY <2>1, <2>2, <2>3
<1> QED
  BY <1>1, <1>3, <1>4 DEF GroupInHand

LEMMA PlaceOther ==
  ASSUME PlaceInv,
         \/ \E n \in Nodes : ExpireEntries(n)
         \/ Tick \/ Move \/ UNCHANGED vars
  PROVE  GroupInHand' /\ (moves' = 0 => SentFromPlace' /\ TablesRight' /\ StagesRight')
<1> USE DEF PlaceInv, RouteInv
<1>1. UNCHANGED <<sent, reader, writer, encoder_pool, tap_write_pool, written>>
  BY DEF ExpireEntries, Tick, Move, vars, stations, tunnels
<1>2. CASE Move
  <2>1. moves' # 0
    BY <1>2 DEF Move, TalkingTyped, Typed, ClockTyped
  <2> QED
    BY <1>1, <2>1 DEF GroupInHand
<1>3. CASE ~Move
  <2>1. UNCHANGED <<place, moves>>
    BY <1>3 DEF ExpireEntries, Tick, vars, stations
  <2>2. \A k \in Nodes : \A x \in DOMAIN fdb'[k] :
          x \in DOMAIN fdb[k] /\ fdb'[k][x] = fdb[k][x]
    <3>1. CASE UNCHANGED fdb
      BY <3>1
    <3>2. ASSUME NEW n \in Nodes, ExpireEntries(n)
          PROVE  \A k \in Nodes : \A x \in DOMAIN fdb'[k] :
                   x \in DOMAIN fdb[k] /\ fdb'[k][x] = fdb[k][x]
      BY <3>2 DEF ExpireEntries, Expire, TalkingTyped, Typed, TablesTyped
    <3> QED
      BY <1>3, <3>1, <3>2 DEF Tick, vars
  <2> QED
    BY <1>1, <2>1, <2>2 DEF GroupInHand, SentFromPlace, TablesRight, StagesRight, InTunnel,
         Arrived, Waiting, Writing, Written, Addressed
<1> QED
  BY <1>2, <1>3

LEMMA NextPlace == PlaceInv /\ [Next]_vars => PlaceInv'
<1> SUFFICES ASSUME PlaceInv, [Next]_vars
             PROVE  GroupInHand' /\ (moves' = 0 => SentFromPlace' /\ TablesRight' /\ StagesRight')
  BY NextRoute DEF PlaceInv
<1> QED
  BY Steps, PlaceReadTap, PlaceReader, PlaceCarry, PlaceWriter, PlaceOther

LEMMA InitPlace == Init => PlaceInv
<1> SUFFICES ASSUME Init PROVE PlaceInv
  OBVIOUS
<1>1. /\ \A n \in Nodes : DOMAIN fdb[n] = {} /\ reader[n].pc = "read"
      /\ DOMAIN sent = {}
  BY DEF Init, EmptyTable
<1>2. Elements(<<>>) = {}
  BY DEF Elements
<1>3. /\ \A n \in Nodes : Arrived(n) = {}
      /\ \A n \in Nodes : \A m \in Peers[n] : InTunnel(n, m) = {}
  BY <1>2 DEF Init, Arrived, Waiting, Writing, Written, InTunnel
<1> QED
  BY <1>1, <1>3, InitRoute DEF PlaceInv, GroupInHand, SentFromPlace, TablesRight, StagesRight

(* Until a station moves, every table says where the stations are, and no    *)
(* unicast frame is written to a tap its destination is not behind, however *)
(* lookup and add of tap reader and tap writer interleave.                 *)
THEOREM PlacesLearned == Spec => []LearnedPlace
BY InitPlace, NextPlace, PlaceLearned, PTL DEF Spec
===============================================================================
