--------------------------- MODULE Lifecycle_proofs ---------------------------
(***************************************************************************)
(* Proofs about the life of the daemon, for any number of remote nodes.    *)
(***************************************************************************)
EXTENDS Lifecycle, SequenceTheorems, TLAPS

-----------------------------------------------------------------------------
(* The threads. *)
LEMMA OrderFacts ==
  /\ Len(ThreadOrder) = 4 + 3 * Nodes /\ Len(SwitchThreads) = 4
  /\ DOMAIN ThreadOrder = 1..(4 + 3 * Nodes)
  /\ \A i \in 1..(4 + 3 * Nodes) : ThreadOrder[i] \in Threads
<1>1. PICK len \in Nat : len = 4 + 3 * Nodes
  BY LifecycleAssumption
<1>2. DOMAIN ThreadOrder = 1..len
  BY <1>1 DEF ThreadOrder
<1>3. \A i \in 1..len : ThreadOrder[i] \in Threads
  BY <1>2 DEF Threads, Range
<1>4. ThreadOrder = [i \in 1..len |-> ThreadOrder[i]]
  BY <1>1 DEF ThreadOrder
<1>5. ThreadOrder \in Seq(Threads)
  BY <1>3, <1>4, IsASeq
<1>6. Len(ThreadOrder) = len
  BY <1>1, <1>2, <1>5, LenProperties
<1>7. Len(SwitchThreads) = 4
  BY DEF SwitchThreads
<1> QED
  BY <1>1, <1>2, <1>3, <1>6, <1>7

LEMMA SwitchThread == Thread("tap_write", 0) \in PoolThreads
<1>1. 3 \in 1..(4 + 3 * Nodes)
  BY LifecycleAssumption
<1>2. ThreadOrder[3] = Thread("tap_write", 0)
  BY <1>1 DEF ThreadOrder, SwitchThreads, Thread
<1> QED
  BY <1>1, <1>2, OrderFacts DEF PoolThreads, Thread

LEMMA NodeThreadsAre ==
  ASSUME NEW n \in 1..Nodes, NEW k \in 1..3
  PROVE  Thread(NodeThreads[k], n) \in PoolThreads
<1>1. PICK i : i = 3 * (n - 1) + k + 4
  OBVIOUS
<1>2. /\ i \in 1..(4 + 3 * Nodes) /\ ~(i <= 4)
      /\ i - 5 = 3 * (n - 1) + (k - 1)
  BY <1>1, LifecycleAssumption
<1>3. (i - 5) % 3 = k - 1 /\ (i - 5) \div 3 = n - 1
  BY <1>2, LifecycleAssumption
<1>4. ThreadOrder[i] = Thread(NodeThreads[k], n)
  BY <1>2, <1>3, LifecycleAssumption DEF ThreadOrder, Thread
<1>5. NodeThreads[k] \notin {"tap_read", "socket_read", "fdb"}
  BY DEF NodeThreads
<1> QED
  BY <1>2, <1>4, <1>5, OrderFacts DEF PoolThreads, Thread

LEMMA NodePools ==
  ASSUME NEW n \in 1..Nodes
  PROVE  /\ Thread("decoder", n) \in PoolThreads
         /\ Thread("encoder", n) \in PoolThreads
         /\ Thread("socket_write", n) \in PoolThreads
<1>1. /\ NodeThreads[1] = "decoder" /\ NodeThreads[2] = "encoder"
      /\ NodeThreads[3] = "socket_write"
  BY DEF NodeThreads
<1> QED
  BY <1>1, NodeThreadsAre

-----------------------------------------------------------------------------
(* Where the main thread stands says which thread is the next; those before *)
(* it are started, or joined, and a thread that has ended stays so.         *)
Stages ==
  {"register", "construct", "create", "priority", "nodes", "tap", "wait"} \union Ends

Typed ==
  /\ stage \in Stages /\ next \in Nat
  /\ stop_flag \in BOOLEAN /\ online \in BOOLEAN
  /\ status \in [Threads -> {"none", "top", "asleep", "ended"}]
  /\ pending \subseteq PoolThreads /\ timed \subseteq 1..Nodes

Last == 4 + 3 * Nodes

Position ==
  /\ stage \in {"register", "construct"} => next = 1
  /\ stage = "create" => next \in 1..4
  /\ stage = "priority" => next = 5
  /\ stage = "nodes" => next \in 5..Last
  /\ stage = "tap" => next = Last + 1
  /\ stage = "wait" => next \in 1..Last

Started ==
  stage \in {"register", "construct", "create", "priority", "nodes", "tap"} =>
    \A i \in 1..Last : i < next => status[ThreadOrder[i]] # "none"

Joined ==
  stage = "wait" =>
    \A i \in 1..Last : /\ status[ThreadOrder[i]] # "none"
                       /\ i < next => status[ThreadOrder[i]] = "ended"

LifeInv == Typed /\ Position /\ Started /\ Joined

LEMMA InitLife == Init => LifeInv
<1> SUFFICES ASSUME Init PROVE LifeInv
  OBVIOUS
<1>1. Typed
  BY DEF Init, Typed, Stages
<1>2. Position /\ Joined
  BY DEF Init, Position, Joined
<1>3. Started
  BY DEF Init, Started
<1> QED
  BY <1>1, <1>2, <1>3 DEF LifeInv

LEMMA LifeEnds ==
  ASSUME LifeInv, NEW how \in Ends, End(how)
  PROVE  LifeInv'
<1>1. stage' \in Ends /\ next' = next
  BY DEF End
<1>2. Typed'
  BY DEF End, LifeInv, Typed, Stages
<1>3. Position' /\ Started' /\ Joined'
  BY <1>1 DEF Ends, Position, Started, Joined
<1> QED
  BY <1>2, <1>3 DEF LifeInv

LEMMA LifeStart ==
  ASSUME LifeInv, StartThread, stage \in {"create", "nodes"},
         stage' \in {"create", "priority", "nodes", "tap"}, Position'
  PROVE  LifeInv'
<1>1. next \in 1..Last /\ next' = next + 1 /\ next \in Nat /\ Last \in Nat
  BY LifecycleAssumption DEF StartThread, LifeInv, Position, Typed, Last
<1>2. PICK t : t = ThreadOrder[next]
  OBVIOUS
<1>3. t \in Threads /\ status' = [status EXCEPT ![t] = "top"]
  BY <1>1, <1>2, OrderFacts DEF StartThread, Last
<1>4. Typed'
  <2>1. stage' \in Stages
    BY DEF Stages
  <2>2. status' \in [Threads -> {"none", "top", "asleep", "ended"}]
    BY <1>3 DEF LifeInv, Typed
  <2>3. next' \in Nat
    BY <1>1
  <2> QED
    BY <2>1, <2>2, <2>3 DEF StartThread, LifeInv, Typed
<1>5. Started'
  <2> SUFFICES ASSUME NEW i \in 1..Last, i < next' PROVE status'[ThreadOrder[i]] # "none"
    BY DEF Started
  <2>1. ThreadOrder[i] \in Threads
    BY OrderFacts DEF Last
  <2>2. CASE i = next
    BY <1>2, <1>3, <2>2, <2>1 DEF LifeInv, Typed
  <2>3. CASE i < next
    <3>1. status[ThreadOrder[i]] # "none"
      BY <2>3 DEF LifeInv, Started
    <3> QED
      BY <1>3, <2>1, <3>1 DEF LifeInv, Typed
  <2> QED
    BY <1>1, <2>2, <2>3
<1>6. Joined'
  BY DEF Joined
<1> QED
  BY <1>4, <1>5, <1>6 DEF LifeInv

(* What a thread does leaves the main thread where it is. *)
LEMMA LifeThread ==
  ASSUME LifeInv, UNCHANGED <<stage, next>>, Alive,
         NEW t \in Threads, status[t] \in {"top", "asleep"},
         NEW s \in {"ended", "asleep"}, status' = [status EXCEPT ![t] = s],
         stop_flag' \in BOOLEAN, online' \in BOOLEAN,
         pending' \subseteq PoolThreads, timed' \subseteq 1..Nodes
  PROVE  LifeInv'
<1>1. Typed'
  BY DEF LifeInv, Typed, Stages
<1>2. Position'
  BY DEF LifeInv, Position
<1>3. \A k \in Threads : /\ status[k] # "none" => status'[k] # "none"
                         /\ status[k] = "ended" => status'[k] = "ended"
  BY DEF LifeInv, Typed
<1>4. Started'
  BY <1>3, OrderFacts DEF LifeInv, Started, Last
<1>5. Joined'
  BY <1>3, OrderFacts DEF LifeInv, Joined, Last
<1> QED
  BY <1>1, <1>2, <1>4, <1>5 DEF LifeInv

LEMMA LifePass ==
  ASSUME LifeInv, UNCHANGED <<stage, next, stop_flag, online>>, timed' \subseteq 1..Nodes,
         NEW kind, NEW n, Asleep(kind, n), Thread(kind, n) \in Threads,
         NEW others \in SUBSET PoolThreads, Pass(Thread(kind, n), others)
  PROVE  LifeInv'
<1>1. PICK t \in Threads : t = Thread(kind, n)
  OBVIOUS
<1>2. /\ Alive /\ status[t] = "asleep"
      /\ \E s \in {"ended", "asleep"} : status' = [status EXCEPT ![t] = s]
      /\ pending' \subseteq PoolThreads
  BY <1>1 DEF Asleep, Pass, LoopTop, LifeInv, Typed
<1>3. stop_flag' \in BOOLEAN /\ online' \in BOOLEAN
  BY DEF LifeInv, Typed
<1> QED
  BY <1>2, <1>3, LifeThread

LEMMA SwitchThreadsAre ==
  /\ Thread("tap_read", 0) \in Threads /\ Thread("socket_read", 0) \in Threads
  /\ Thread("tap_write", 0) \in Threads /\ Thread("fdb", 0) \in Threads
<1>1. \A i \in 1..4 : i \in 1..(4 + 3 * Nodes) /\ i <= 4
  BY LifecycleAssumption
<1>2. \A i \in 1..4 : Thread(SwitchThreads[i], 0) \in Threads
  <2> SUFFICES ASSUME NEW i \in 1..4 PROVE Thread(SwitchThreads[i], 0) \in Threads
    OBVIOUS
  <2>1. ThreadOrder[i] = Thread(SwitchThreads[i], 0)
    BY <1>1 DEF ThreadOrder, Thread
  <2> QED
    BY <1>1, <2>1, OrderFacts
<1>3. /\ SwitchThreads[1] = "tap_read" /\ SwitchThreads[2] = "socket_read"
      /\ SwitchThreads[3] = "tap_write" /\ SwitchThreads[4] = "fdb"
  BY DEF SwitchThreads
<1>4. 1 \in 1..4 /\ 2 \in 1..4 /\ 3 \in 1..4 /\ 4 \in 1..4
  OBVIOUS
<1> QED
  BY <1>2, <1>3, <1>4

LEMMA LifeMain ==
  ASSUME LifeInv, Main \/ ConstructFails \/ StartFails \/ Signal
  PROVE  LifeInv'
<1> USE DEF LifeInv
<1>1. Last \in Nat /\ Last >= 7
  BY LifecycleAssumption DEF Last
<1>2. CASE Register \/ Construct \/ SetPriority
  <2>1. CASE Register
    <3>1. stage = "register" /\ stage' = "construct" /\ UNCHANGED status /\ next' = next
      BY <2>1 DEF Register, work
    <3>2. Typed'
      BY <2>1 DEF Register, work, Typed, Stages
    <3>3. Position' /\ Started' /\ Joined'
      BY <3>1 DEF Position, Started, Joined
    <3> QED
      BY <3>2, <3>3
  <2>2. CASE Construct
    <3>1. stage = "construct" /\ stage' = "create" /\ UNCHANGED status /\ next' = next
      BY <2>2 DEF Construct, work
    <3>2. Typed'
      BY <2>2 DEF Construct, work, Typed, Stages
    <3>3. Position' /\ Started' /\ Joined'
      BY <3>1 DEF Position, Started, Joined
    <3> QED
      BY <3>2, <3>3
  <2>3. CASE SetPriority
    <3>1. next' = 5 /\ stage' = "nodes" /\ stage = "priority" /\ UNCHANGED status
      BY <2>3 DEF SetPriority, Position, work
    <3>2. Typed'
      BY <2>3 DEF SetPriority, work, Typed, Stages
    <3>3. Position' /\ Joined'
      BY <1>1, <3>1 DEF Position, Joined
    <3>4. Started'
      BY <3>1, <2>3 DEF SetPriority, Started
    <3> QED
      BY <3>2, <3>3, <3>4
  <2> QED
    BY <1>2, <2>1, <2>2, <2>3
<1>3. CASE CreateThread
  <2>1. /\ stage = "create" /\ next \in 1..4 /\ next' = next + 1
        /\ stage' = IF next = 4 THEN "priority" ELSE "create"
    BY <1>3, OrderFacts DEF CreateThread, StartThread, Position
  <2>2. Position'
    BY <2>1 DEF Position
  <2> QED
    BY <1>3, <2>1, <2>2, LifeStart DEF CreateThread
<1>4. CASE StartNode
  <2>1. /\ stage = "nodes" /\ next \in 5..Last /\ next' = next + 1
        /\ stage' = IF next = Last THEN "tap" ELSE "nodes"
    BY <1>4, OrderFacts DEF StartNode, StartThread, Position, Last
  <2>2. Position'
    BY <1>1, <2>1 DEF Position
  <2> QED
    BY <1>4, <2>1, <2>2, LifeStart DEF StartNode
<1>5. CASE BringUp
  <2>1. /\ stage = "tap" /\ stage' = "wait" /\ next' = 1 /\ next = Last + 1
        /\ UNCHANGED status
    BY <1>5 DEF BringUp, Position, work
  <2>2. Typed'
    BY <1>5 DEF BringUp, work, Typed, Stages
  <2>3. Position' /\ Started'
    BY <1>1, <2>1 DEF Position, Started
  <2>4. \A i \in 1..Last : status[ThreadOrder[i]] # "none" /\ ~(i < 1)
    BY <1>1, <2>1 DEF Started
  <2>5. Joined'
    BY <2>1, <2>4 DEF Joined
  <2> QED
    BY <2>2, <2>3, <2>5
<1>6. CASE Join
  <2>1. CASE next = Last
    <3>1. End("exited")
      BY <1>6, <2>1, OrderFacts DEF Join, Last
    <3> QED
      BY <3>1, LifeEnds DEF Ends
  <2>2. CASE next # Last
    <3>1. /\ stage = "wait" /\ stage' = "wait" /\ next \in 1..Last /\ next' = next + 1
          /\ status[ThreadOrder[next]] = "ended"
          /\ UNCHANGED <<status, pending, timed, stop_flag, online>>
      BY <1>6, <2>2, OrderFacts DEF Join, Last, Position, work
    <3>2. Typed'
      BY <3>1 DEF Typed, Stages
    <3>3. Position' /\ Started'
      BY <1>1, <2>2, <3>1 DEF Position, Started
    <3>4. \A i \in 1..Last : i < next + 1 => i = next \/ i < next
      BY <3>1
    <3>5. Joined'
      BY <3>1, <3>4 DEF Joined
    <3> QED
      BY <3>2, <3>3, <3>5
  <2> QED
    BY <2>1, <2>2
<1>7. CASE ConstructFails \/ StartFails
  BY <1>7, LifeEnds DEF ConstructFails, StartFails, Fail, Ends
<1>8. CASE Signal
  <2>1. CASE stage \in {"register", "construct"}
    <3>1. End("killed") \/ End("crashed")
      BY <1>8, <2>1 DEF Signal
    <3> QED
      BY <3>1, LifeEnds DEF Ends
  <2>2. CASE stage \notin {"register", "construct"}
    <3>1. stop_flag' = TRUE /\ UNCHANGED <<stage, next, online, status, pending, timed>>
      BY <1>8, <2>2 DEF Signal, main, work
    <3>2. Typed'
      BY <3>1 DEF Typed, Stages
    <3>3. Position' /\ Started' /\ Joined'
      BY <3>1 DEF Position, Started, Joined
    <3> QED
      BY <3>2, <3>3
  <2> QED
    BY <2>1, <2>2
<1> QED
  BY <1>2, <1>3, <1>4, <1>5, <1>6, <1>7, <1>8 DEF Main

LEMMA NextLife == LifeInv /\ [Next]_vars => LifeInv'
<1> SUFFICES ASSUME LifeInv, [Next]_vars PROVE LifeInv'
  OBVIOUS
<1>1. \A n \in 1..Nodes : /\ Thread("decoder", n) \in PoolThreads
                          /\ Thread("encoder", n) \in PoolThreads
                          /\ Thread("socket_write", n) \in PoolThreads
  BY NodePools
<1>2. PoolThreads \subseteq Threads /\ timed \subseteq 1..Nodes
  BY DEF PoolThreads, LifeInv, Typed
<1>3. ASSUME NEW t \in Threads, Enter(t) PROVE LifeInv'
  <2>1. \E s \in {"ended", "asleep"} : status' = [status EXCEPT ![t] = s]
    BY <1>3 DEF Enter, LoopTop
  <2>2. /\ stop_flag' \in BOOLEAN /\ online' \in BOOLEAN
        /\ pending' \subseteq PoolThreads /\ timed' \subseteq 1..Nodes
    BY <1>3 DEF Enter, LifeInv, Typed
  <2> QED
    BY <1>3, <2>1, <2>2, LifeThread DEF Enter, main
<1>4. ASSUME NEW n \in 1..Nodes, NodeThread(n) PROVE LifeInv'
  <2>1. {} \in SUBSET PoolThreads /\ {Thread("tap_write", 0)} \in SUBSET PoolThreads
    BY SwitchThread
  <2>2. \A p \in Packets(n) : p \in SUBSET PoolThreads
    BY <1>1 DEF Packets
  <2>3. CASE Decode(n)
    BY <1>1, <1>2, <2>1, <2>3, LifePass DEF Decode, main
  <2>4. CASE Encode(n)
    <3>1. timed' \subseteq 1..Nodes
      BY <1>2, <2>4 DEF Encode
    <3> QED
      BY <1>1, <1>2, <2>2, <2>4, <3>1, LifePass DEF Encode, main
  <2>5. CASE Timeout(n)
    <3>1. timed' \subseteq 1..Nodes
      BY <1>2, <2>5 DEF Timeout
    <3> QED
      BY <1>1, <1>2, <2>2, <2>5, <3>1, LifePass DEF Timeout, main
  <2>6. CASE SocketWrite(n)
    BY <1>1, <1>2, <2>1, <2>6, LifePass DEF SocketWrite, main
  <2> QED
    BY <1>4, <2>3, <2>4, <2>5, <2>6 DEF NodeThread
<1>5. CASE TapRead
  <2>1. PICK to \in SUBSET (1..Nodes) :
          Pass(Thread("tap_read", 0), {Thread("encoder", n) : n \in to})
    BY <1>5 DEF TapRead
  <2>2. {Thread("encoder", n) : n \in to} \in SUBSET PoolThreads
    BY <1>1
  <2> QED
    BY <1>2, <1>5, <2>1, <2>2, LifePass, SwitchThreadsAre DEF TapRead, main
<1>6. CASE SocketRead
  <2>1. PICK from \in SUBSET (1..Nodes) :
          Pass(Thread("socket_read", 0), {Thread("decoder", n) : n \in from})
    BY <1>6 DEF SocketRead
  <2>2. {Thread("decoder", n) : n \in from} \in SUBSET PoolThreads
    BY <1>1
  <2> QED
    BY <1>2, <1>6, <2>1, <2>2, LifePass, SwitchThreadsAre DEF SocketRead, main
<1>7. CASE TapWrite
  BY <1>2, <1>7, LifePass, SwitchThreadsAre DEF TapWrite, main
<1>8. CASE FdbWake
  BY <1>2, <1>8, LifePass, SwitchThreadsAre DEF FdbWake, main
<1>9. CASE ThreadFails
  BY <1>9, LifeEnds DEF ThreadFails, Ends
<1>10. CASE UNCHANGED vars
  BY <1>10 DEF vars, work, LifeInv, Typed, Stages, Position, Started, Joined
<1> QED
  BY <1>3, <1>4, <1>5, <1>6, <1>7, <1>8, <1>9, <1>10, LifeMain DEF Next

LEMMA AlwaysLife == Spec => []LifeInv
BY InitLife, NextLife, PTL DEF Spec

-----------------------------------------------------------------------------
(* Every variable keeps its type: what is started or joined next is a       *)
(* thread (packet_switch.cpp:592-611, :640-660, remote_node.cpp), and only  *)
(* threads that have a pool are given anything.                             *)
THEOREM TypeCorrect == Spec => []TypeOK
<1>1. LifeInv => TypeOK
  <2> SUFFICES ASSUME LifeInv PROVE TypeOK
    OBVIOUS
  <2>1. stage \in {"create", "nodes", "wait"} => next \in 1..Last
    BY LifecycleAssumption DEF LifeInv, Position, Last
  <2> QED
    BY <2>1, OrderFacts DEF TypeOK, LifeInv, Typed, Stages, Last
<1> QED
  BY <1>1, AlwaysLife, PTL

(* main() returns, and the switch and its pools are destroyed, only when    *)
(* every thread that uses them has ended: no thread ends before it was     *)
(* started, none comes back, and wait() (packet_switch.cpp:152) joins them *)
(* all.                                                                    *)
THEOREM NobodyLeft == Spec => ExitsLast
<1>. DEFINE AllEnded == stage' = "exited" => \A t \in Threads : status[t] = "ended"
<1>1. LifeInv /\ [Next]_vars => [AllEnded]_vars
  <2> SUFFICES ASSUME LifeInv, Next, stage' = "exited"
               PROVE  \A t \in Threads : status[t] = "ended"
    OBVIOUS
  <2>1. \A k \in 1..Nodes : NodeThread(k) => Alive /\ stage' = stage
    BY DEF NodeThread, Decode, Encode, Timeout, SocketWrite, Asleep, main
  <2>2. \A t \in Threads : Enter(t) => Alive /\ stage' = stage
    BY DEF Enter, main
  <2>3. TapRead \/ SocketRead \/ TapWrite \/ FdbWake => Alive /\ stage' = stage
    BY DEF TapRead, SocketRead, TapWrite, FdbWake, Asleep, main
  <2>4. ~(ConstructFails \/ StartFails \/ Signal \/ ThreadFails)
    BY DEF ConstructFails, StartFails, Fail, End, Signal, ThreadFails, Alive, Ends, main
  <2>5. Main => Join
    BY DEF Main, Register, Construct, CreateThread, SetPriority, StartNode, BringUp
  <2>6. Join
    BY <2>1, <2>2, <2>3, <2>4, <2>5 DEF Next, Alive, Ends
  <2>7. /\ next = Last /\ stage = "wait" /\ Last \in Nat
        /\ status[ThreadOrder[next]] = "ended"
    BY <2>6, OrderFacts, LifecycleAssumption DEF Join, Last
  <2>8. \A i \in 1..Last : status[ThreadOrder[i]] = "ended"
    <3>1. \A i \in 1..Last : i < next \/ i = next
      BY <2>7
    <3> QED
      BY <2>7, <3>1 DEF LifeInv, Joined
  <2> QED
    BY <2>8, OrderFacts DEF Threads, Range, Last
<1> QED
  BY <1>1, AlwaysLife, PTL DEF Spec, ExitsLast
==============================================================================
