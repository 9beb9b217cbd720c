------------------------------ MODULE Lifecycle ------------------------------
(***************************************************************************)
(* The life of the daemon from start_seth() of src/src/superethd.cpp on:   *)
(* the packet switch is constructed, its threads and those of its remote   *)
(* nodes are started while packets may arrive already, the tap interface   *)
(* is brought up, and the main thread joins one thread after the other;    *)
(* SIGUSR1 may come at any time.                                           *)
(*                                                                         *)
(* Of a thread matters whether it was started and is about to look at      *)
(* stop_flag for the first time, sleeps in read(), recvmmsg(), sleep() or  *)
(* the wait of its pool, or has ended; of a pool, whether it holds         *)
(* anything.  That threads may also sleep for want of a buffer is the      *)
(* business of BufferPath.                                                 *)
(***************************************************************************)
EXTENDS Naturals, Sequences, Functions

CONSTANT Nodes  \* number of remote nodes

ASSUME LifecycleAssumption == Nodes \in Nat \ {0}

(* Threads are started in this order, and joined in the same. *)
SwitchThreads == <<"tap_read", "socket_read", "tap_write", "fdb">>
NodeThreads == <<"decoder", "encoder", "socket_write">>

ThreadOrder ==
  [i \in 1..(4 + 3 * Nodes) |->
    IF i <= 4 THEN [kind |-> SwitchThreads[i], node |-> 0]
    ELSE [kind |-> NodeThreads[((i - 5) % 3) + 1], node |-> ((i - 5) \div 3) + 1]]

Threads == Range(ThreadOrder)

(* The others wait on no pool. *)
PoolThreads == {t \in Threads : t.kind \notin {"tap_read", "socket_read", "fdb"}}

Thread(kind, n) == [kind |-> kind, node |-> n]

VARIABLES
  stage,      \* what the main thread is at, or how the process ended
  next,       \* position in ThreadOrder of what it starts or joins next
  stop_flag,
  online,     \* the tap interface is up
  status,     \* of each thread: "none", "top", "asleep" or "ended"
  pending,    \* threads whose pool holds something
  timed       \* nodes whose encoder handler waits with a timeout

vars == <<stage, next, stop_flag, online, status, pending, timed>>
main == <<stage, next>>
work == <<status, pending, timed>>

Ends == {"exited", "refused", "failed", "killed", "crashed", "aborted"}
Alive == stage \notin Ends

(* stop_flag is never initialised, the flag of the tap interface by         *)
(* setMTU() only.                                                          *)
Init ==
  /\ stage = "register" /\ next = 1
  /\ stop_flag \in BOOLEAN /\ online \in BOOLEAN
  /\ status = [t \in Threads |-> "none"]
  /\ pending = {}
  /\ timed = 1..Nodes

-----------------------------------------------------------------------------
(* start_seth(): the handler of SIGUSR1, then the constructor. *)
Register ==
  /\ stage = "register"
  /\ stage' = "construct"
  /\ UNCHANGED <<next, stop_flag, online, work>>

(* It creates the tap interface and sets its MTU; the interface is down.    *)
Construct ==
  /\ stage = "construct"
  /\ stage' = "create"
  /\ online' = FALSE
  /\ UNCHANGED <<next, stop_flag, work>>

(* The process ends, and its threads and pools with it. *)
End(how) ==
  /\ stage' = how
  /\ status' = [t \in Threads |-> "none"]
  /\ pending' = {} /\ timed' = {}
  /\ UNCHANGED <<next, stop_flag, online>>

(* A call to the kernel fails. *)
Fail(at, how) == stage = at /\ End(how)

(* An exception of the constructor, of the tap interface or the socket, is  *)
(* reported; one of start() is caught by nobody.                           *)
ConstructFails == Fail("construct", "refused")

StartFails ==
  Fail("priority", "aborted") \/ Fail("tap", "aborted")

StartThread ==
  /\ status' = [status EXCEPT ![ThreadOrder[next]] = "top"]
  /\ next' = next + 1
  /\ UNCHANGED <<stop_flag, online, pending, timed>>

(* PacketSwitch::start(): the threads of the switch itself, *)
CreateThread ==
  /\ stage = "create"
  /\ StartThread
  /\ stage' = IF next = Len(SwitchThreads) THEN "priority" ELSE "create"

SetPriority ==
  /\ stage = "priority"
  /\ stage' = "nodes"
  /\ UNCHANGED <<next, stop_flag, online, work>>

(* Mutant: the last thread is not started. *)
StartNode_NotLast ==
  /\ stage = "nodes"
  /\ StartThread
  /\ stage' = IF next + 1 = Len(ThreadOrder) THEN "tap" ELSE "nodes"

(* those of the remote nodes, RemoteNode::start(), *)
StartNode ==
  /\ stage = "nodes"
  /\ StartThread
  /\ stage' = IF next = Len(ThreadOrder) THEN "tap" ELSE "nodes"

(* Mutant: the position is not set back. *)
BringUp_KeepNext ==
  /\ stage = "tap"
  /\ online' = TRUE
  /\ stage' = "wait"
  /\ UNCHANGED <<next, stop_flag, work>>

(* and the tap interface, TAPInterface::start(). *)
BringUp ==
  /\ stage = "tap"
  /\ online' = TRUE
  /\ stage' = "wait"
  /\ next' = 1
  /\ UNCHANGED <<stop_flag, work>>

(* Mutant: wait() leaves out the threads of the remote nodes. *)
Join_SwitchOnly ==
  /\ stage = "wait"
  /\ status[ThreadOrder[next]] = "ended"
  /\ IF next = Len(SwitchThreads)
     THEN End("exited")
     ELSE next' = next + 1 /\ UNCHANGED <<stage, stop_flag, online, work>>

(* PacketSwitch::wait(), RemoteNode::wait(); then main() returns. *)
Join ==
  /\ stage = "wait"
  /\ status[ThreadOrder[next]] = "ended"
  /\ IF next = Len(ThreadOrder)
     THEN End("exited")
     ELSE next' = next + 1 /\ UNCHANGED <<stage, stop_flag, online, work>>

Main ==
  \/ Register \/ Construct \/ CreateThread \/ SetPriority
  \/ StartNode \/ BringUp \/ Join

(* SIGUSR1: without the handler it kills; the handler calls stop() of a     *)
(* switch that is not there before the constructor has returned.           *)
Signal ==
  /\ Alive
  /\ CASE stage = "register"  -> End("killed")
       [] stage = "construct" -> End("crashed")
       [] OTHER -> stop_flag' = TRUE /\ UNCHANGED <<main, online, work>>

-----------------------------------------------------------------------------
(* The top of every loop. *)
LoopTop == IF stop_flag THEN "ended" ELSE "asleep"

(* A thread that was started comes to its loop. *)
Enter(t) ==
  /\ Alive /\ status[t] = "top"
  /\ status' = [status EXCEPT ![t] = LoopTop]
  /\ UNCHANGED <<main, stop_flag, online, pending, timed>>

Asleep(kind, n) == Alive /\ status[Thread(kind, n)] = "asleep"

(* The thread wakes, fills the pools of others and is back at the top of its *)
(* loop; a signal in between might as well have come before.               *)
Pass(t, others) ==
  /\ status' = [status EXCEPT ![t] = LoopTop]
  /\ pending' = (pending \ {t}) \union others

(* A frame is read and passed to one or all encoders; a frame that is       *)
(* dropped is followed by another read(), without a look at the flag.  The *)
(* interface is up a little before the process notes that it is.           *)
TapRead ==
  /\ Asleep("tap_read", 0) /\ (online \/ stage = "tap")
  /\ \E to \in (SUBSET (1..Nodes)) \ {{}} :
       Pass(Thread("tap_read", 0), {Thread("encoder", n) : n \in to})
  /\ UNCHANGED <<main, stop_flag, online, timed>>

(* Packets come, some of which are passed on to decoders. *)
SocketRead ==
  /\ Asleep("socket_read", 0)
  /\ \E from \in SUBSET (1..Nodes) :
       Pass(Thread("socket_read", 0), {Thread("decoder", n) : n \in from})
  /\ UNCHANGED <<main, stop_flag, online, timed>>

Decode(n) ==
  /\ Asleep("decoder", n) /\ Thread("decoder", n) \in pending
  /\ \E frames \in {{}, {Thread("tap_write", 0)}} : Pass(Thread("decoder", n), frames)
  /\ UNCHANGED <<main, stop_flag, online, timed>>

Packets(n) == {{}, {Thread("socket_write", n)}}

Encode(n) ==
  /\ Asleep("encoder", n) /\ Thread("encoder", n) \in pending
  /\ \E packets \in Packets(n) : Pass(Thread("encoder", n), packets)
  /\ timed' = timed \union {n}
  /\ UNCHANGED <<main, stop_flag, online>>

(* No frame within 1 ms: flush, and wait for the next one without limit. *)
Timeout(n) ==
  /\ Asleep("encoder", n) /\ Thread("encoder", n) \notin pending
  /\ n \in timed
  /\ \E packets \in Packets(n) : Pass(Thread("encoder", n), packets)
  /\ timed' = timed \ {n}
  /\ UNCHANGED <<main, stop_flag, online>>

(* An error of sendto() is reported and no more. *)
SocketWrite(n) ==
  /\ Asleep("socket_write", n) /\ Thread("socket_write", n) \in pending
  /\ Pass(Thread("socket_write", n), {})
  /\ UNCHANGED <<main, stop_flag, online, timed>>

(* Frames are dropped while the interface is down, and written then. *)
TapWrite ==
  /\ Asleep("tap_write", 0) /\ Thread("tap_write", 0) \in pending
  /\ Pass(Thread("tap_write", 0), {})
  /\ UNCHANGED <<main, stop_flag, online, timed>>

(* fdb_handler: after ten seconds. *)
FdbWake ==
  /\ Asleep("fdb", 0)
  /\ Pass(Thread("fdb", 0), {})
  /\ UNCHANGED <<main, stop_flag, online, timed>>

(* read() fails or finds the end: exit().  recvmmsg() or write() fails: an  *)
(* exception that nobody catches.                                          *)
ThreadFails ==
  \/ Asleep("tap_read", 0) /\ End("failed")
  \/ Asleep("socket_read", 0) /\ End("aborted")
  \/ /\ Asleep("tap_write", 0) /\ Thread("tap_write", 0) \in pending /\ online
     /\ End("aborted")

NodeThread(n) == Decode(n) \/ Encode(n) \/ Timeout(n) \/ SocketWrite(n)

Next ==
  \/ Main \/ ConstructFails \/ StartFails \/ Signal
  \/ \E t \in Threads : Enter(t)
  \/ \E n \in 1..Nodes : NodeThread(n)
  \/ TapRead \/ SocketRead \/ TapWrite \/ FdbWake \/ ThreadFails

Spec == Init /\ [][Next]_vars

(* The scheduler runs every thread that can run, sleep() and the timeout   *)
(* end; nothing makes a frame, a packet, a signal or a failure come.       *)
FairSpec ==
  /\ Spec
  /\ WF_vars(Main)
  /\ \A t \in Threads : WF_vars(Enter(t))
  /\ \A n \in 1..Nodes :
       /\ WF_vars(Decode(n)) /\ WF_vars(Encode(n))
       /\ WF_vars(Timeout(n)) /\ WF_vars(SocketWrite(n))
  /\ WF_vars(TapWrite) /\ WF_vars(FdbWake)

-----------------------------------------------------------------------------
TypeOK ==
  /\ stage \in {"register", "construct", "create", "priority", "nodes", "tap",
                "wait"} \union Ends
  /\ stage \in {"create", "nodes", "wait"} => next \in DOMAIN ThreadOrder
  /\ stop_flag \in BOOLEAN /\ online \in BOOLEAN
  /\ status \in [Threads -> {"none", "top", "asleep", "ended"}]
  /\ pending \subseteq PoolThreads /\ timed \subseteq 1..Nodes

(* What was given to a thread is taken up, also if that was before the      *)
(* thread was started, unless the daemon is told to stop or dies.          *)
NothingForgotten ==
  \A t \in PoolThreads : t \in pending ~> (t \notin pending \/ stop_flag \/ ~Alive)

(* main() returns only when every thread has ended: the switch, which is    *)
(* then destroyed with its pools, is used by none of them any more         *)
(* (PacketSwitch::wait(), packet_switch.cpp:152).                          *)
ExitsLast ==
  [][stage' = "exited" => \A t \in Threads : status[t] = "ended"]_vars
=============================================================================
