------------------------------ MODULE BufferPool ------------------------------
(***************************************************************************)
(* accl::BufferPool of src/src/libaccl/buffer_pool.hpp: a queue of buffers *)
(* behind a mutex and a condition variable.                                *)
(*                                                                         *)
(* Every method runs under the mutex from its start to its return, except  *)
(* while it sleeps in cv.wait() or cv.wait_for().  A method is therefore   *)
(* one action up to its return or its sleep, and a second one from the     *)
(* moment it has the mutex again.  Between the wake-up and that moment any *)
(* other thread may use the pool, and the code does not look again whether *)
(* the pool is empty.                                                      *)
(*                                                                         *)
(* Buffers that are not in the pool are with the threads, which may push   *)
(* them whenever they like.  Only the threads in Waiters block.  One may   *)
(* be stirred, that is, woken up for nothing: without reason, as the       *)
(* standard allows, or because an empty list was pushed.                   *)
(*                                                                         *)
(* There are two kinds of pools.  decoder_pool, encoder_pool and the pools *)
(* of the two writers have one thread that takes from them, with wait() or *)
(* wait_for().  From the two available pools several threads take, with    *)
(* pop_wait().                                                             *)
(***************************************************************************)
EXTENDS Naturals, Sequences, Functions

CONSTANTS
  Buffers,   \* the buffers there are
  Waiters,   \* threads that call the blocking methods
  Methods    \* the blocking methods they call

(* wait_for(0) sleeps without limit. *)
AllMethods == {"pop_wait", "wait", "wait_for", "wait_for(0)"}

ASSUME PoolAssumption == Methods \subseteq AllMethods

VARIABLES
  pool,     \* the buffers in the pool, oldest first
  outside,  \* the buffers with the threads
  pc,       \* of a waiter: "idle", "asleep", "awake", "stirred", "expired"
  method,   \* the blocking method a waiter is in, or was in last
  results   \* what that method returned: [ok, buffers, stirred], the last
            \* telling that its sleep ended for nothing

vars == <<pool, outside, pc, method, results>>

NoResult == [ok |-> FALSE, buffers |-> <<>>, stirred |-> FALSE]

Init ==
  /\ pool = <<>> /\ outside = Buffers
  /\ pc = [t \in Waiters |-> "idle"]
  /\ method = [t \in Waiters |-> "wait"]
  /\ results = [t \in Waiters |-> NoResult]

Asleep == {t \in Waiters : pc[t] = "asleep"}

(* Mutant: nobody is notified. *)
NotifyOne_Nobody(phase) == pc' = pc

(* cv.notify_one(): one of the sleeping threads, if there is any, goes to   *)
(* the given phase.                                                        *)
NotifyOne(phase) ==
  IF Asleep = {} THEN pc' = pc
  ELSE \E t \in Asleep : pc' = [pc EXCEPT ![t] = phase]

(* Mutant: the buffer stays in the pool. *)
Taken_Copied(t, m, rest) ==
  LET taken == IF m = "pop_wait" /\ pool # <<>> THEN <<Head(pool)>> ELSE pool
  IN  /\ results' = [results EXCEPT ![t] =
           [ok |-> TRUE, buffers |-> taken, stirred |-> pc[t] = "stirred"]]
      /\ outside' = outside \union Range(taken)
      /\ pool' = pool

(* Thread t returns from m with the first buffer, or with all of them.      *)
(* rest is what it leaves.  pop_wait() reads front() of an empty pool like *)
(* any other, which is undefined; here it returns without a buffer.        *)
Taken(t, m, rest) ==
  LET taken == IF m = "pop_wait" /\ pool # <<>> THEN <<Head(pool)>> ELSE pool
  IN  /\ results' = [results EXCEPT ![t] =
           [ok |-> TRUE, buffers |-> taken, stirred |-> pc[t] = "stirred"]]
      /\ outside' = outside \union Range(taken)
      /\ pool' = rest

Rest(m) == IF m = "pop_wait" /\ pool # <<>> THEN Tail(pool) ELSE <<>>

-----------------------------------------------------------------------------
(* push() of one buffer *)
Push ==
  /\ \E b \in outside : pool' = Append(pool, b) /\ outside' = outside \ {b}
  /\ NotifyOne("awake")
  /\ UNCHANGED <<method, results>>

(* A list to push, here of at most two buffers.  *)
Batches(set) == {s \in UNION {[1..n -> set] : n \in 1..2} : IsInjective(s)}

(* Mutant: the notification comes before the buffers. *)
PushBatch_NotifyFirst ==
  \/ /\ NotifyOne("awake")
     /\ UNCHANGED <<pool, outside, method, results>>
  \/ /\ \E batch \in Batches(outside) :
          /\ pool' = pool \o batch
          /\ outside' = outside \ Range(batch)
     /\ UNCHANGED <<pc, method, results>>

(* push() of a list of buffers; as long as the list is, one thread is       *)
(* notified.                                                               *)
PushBatch ==
  /\ \E batch \in Batches(outside) :
       /\ pool' = pool \o batch
       /\ outside' = outside \ Range(batch)
  /\ NotifyOne("awake")
  /\ UNCHANGED <<method, results>>

(* The socket reader pushes an empty list to every node whose list it once  *)
(* made and that this batch brought nothing for.                           *)
PushNothing ==
  /\ NotifyOne("stirred")
  /\ UNCHANGED <<pool, outside, method, results>>

(* A blocking method finds buffers. *)
TakeAtOnce(t) ==
  /\ pc[t] = "idle"
  /\ pool # <<>>
  /\ \E m \in Methods :
       /\ Taken(t, m, Rest(m))
       /\ method' = [method EXCEPT ![t] = m]
  /\ UNCHANGED pc

(* It finds none. *)
Sleep(t) ==
  /\ pc[t] = "idle"
  /\ pool = <<>>
  /\ \E m \in Methods : method' = [method EXCEPT ![t] = m]
  /\ pc' = [pc EXCEPT ![t] = "asleep"]
  /\ UNCHANGED <<pool, outside, results>>

WakeSpuriously(t) ==
  /\ pc[t] = "asleep"
  /\ pc' = [pc EXCEPT ![t] = "stirred"]
  /\ UNCHANGED <<pool, outside, method, results>>

(* The time of wait_for() is over, also for a thread that was notified and *)
(* looks at the clock too late.                                            *)
Expire(t) ==
  /\ pc[t] \in {"asleep", "awake", "stirred"}
  /\ method[t] = "wait_for"
  /\ pc' = [pc EXCEPT ![t] = "expired"]
  /\ UNCHANGED <<pool, outside, method, results>>

(* The thread has the mutex again. *)
ReturnTaken(t) ==
  /\ pc[t] \in {"awake", "stirred"}
  /\ Taken(t, method[t], Rest(method[t]))
  /\ pc' = [pc EXCEPT ![t] = "idle"]
  /\ UNCHANGED method

ReturnExpired(t) ==
  /\ pc[t] = "expired"
  /\ results' = [results EXCEPT ![t] = NoResult]
  /\ pc' = [pc EXCEPT ![t] = "idle"]
  /\ UNCHANGED <<pool, outside, method>>

Return(t) == ReturnTaken(t) \/ ReturnExpired(t)

Next ==
  \/ Push \/ PushBatch \/ PushNothing
  \/ \E t \in Waiters :
       TakeAtOnce(t) \/ Sleep(t) \/ WakeSpuriously(t) \/ Expire(t) \/ Return(t)

Spec == Init /\ [][Next]_vars

-----------------------------------------------------------------------------
TypeOK ==
  /\ pool \in Seq(Buffers) /\ outside \subseteq Buffers
  /\ pc \in [Waiters -> {"idle", "asleep", "awake", "stirred", "expired"}]
  /\ method \in [Waiters -> AllMethods]
  /\ results \in [Waiters -> [ok : BOOLEAN, buffers : Seq(Buffers),
                              stirred : BOOLEAN]]

(* A buffer is in the pool once, or with a thread: every buffer that leaves *)
(* the pool is erased from it, and none is lost (_pop, pop_front).         *)
OneOwner ==
  /\ IsInjective(pool)
  /\ Range(pool) \intersect outside = {}
  /\ Range(pool) \union outside = Buffers

(* buffer_pool.hpp:206: wait() is to "wait for the pool to get buffers", so *)
(* no thread is left asleep in front of buffers that nobody comes for.     *)
(* This is for the pools that one thread takes everything from: with two   *)
(* threads a pushed list wakes only one of them, see missed in BufferPath. *)
NoLostWakeup ==
  pool # <<>> /\ Asleep # {} =>
    \E t \in Waiters : pc[t] \in {"awake", "stirred"}

(* buffer_pool.hpp:137: pop_wait() returns a "Buffer popped from the pool",*)
(* unless it was woken for nothing.                                        *)
PopGetsBuffer ==
  \A t \in Waiters :
    pc[t] = "idle" /\ method[t] = "pop_wait" /\ ~results[t].stirred =>
      results[t].buffers # <<>>

(* buffer_pool.hpp:237: wait_for() returns "true If we got buffers", unless *)
(* it was woken for nothing.                                               *)
TrueIfBuffers ==
  \A t \in Waiters :
    /\ pc[t] = "idle" /\ method[t] \in {"wait_for", "wait_for(0)"}
    /\ results[t].ok /\ ~results[t].stirred
    => results[t].buffers # <<>>
=============================================================================
