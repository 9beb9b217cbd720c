--------------------------- MODULE BufferPool_proofs ---------------------------
(***************************************************************************)
(* Proofs about BufferPool, for any set of buffers and all its methods:    *)
(* who owns a buffer with any number of waiters, and what the blocking     *)
(* methods promise to a single thread that waits on a pool, as the encoder *)
(* handler does on encoder_pool.  The available pools have several threads *)
(* in pop_wait(), and there a run refutes PopGetsBuffer.                   *)
(*                                                                         *)
(* The argument for a single waiter: only it takes buffers out.  While it  *)
(* sleeps the pool is empty, for the push that ends that also wakes it;    *)
(* once buffers woke it the pool cannot become empty before it looks.      *)
(***************************************************************************)
EXTENDS BufferPool, TLAPS

(***************************************************************************)
(* Any number of waiters.                                                  *)
(***************************************************************************)
Phases == {"idle", "asleep", "awake", "stirred", "expired"}

Answers == [ok : BOOLEAN, buffers : Seq(Buffers), stirred : BOOLEAN]

(* notify_one() moves a thread from one phase to another, or does nothing. *)
LEMMA NotifyOneTyped ==
  ASSUME TypeOK, NEW phase \in Phases, NotifyOne(phase)
  PROVE  pc' \in [Waiters -> Phases]
BY DEF NotifyOne, TypeOK, Phases

(* A list that is pushed is a sequence without repetition, and not empty.  *)
LEMMA BatchesType ==
  ASSUME NEW S, NEW batch \in Batches(S)
  PROVE  batch \in Seq(S) /\ IsInjective(batch) /\ Len(batch) > 0
<1>1. PICK n \in 1..2 : batch \in [1..n -> S]
  BY DEF Batches
<1>2. IsInjective(batch)
  BY DEF Batches
<1>. QED BY <1>1, <1>2

(* Buffers that are pushed change their owner. *)
LEMMA PushedOwned ==
  ASSUME TypeOK, OneOwner, NEW batch \in Seq(outside), IsInjective(batch),
         pool' = pool \o batch, outside' = outside \ Range(batch)
  PROVE  pool' \in Seq(Buffers) /\ outside' \subseteq Buffers /\ OneOwner'
<1>1. pool \in Seq(Buffers) /\ batch \in Seq(Buffers)
  BY DEF TypeOK
<1>2. pool' \in Seq(Buffers) /\ Len(pool') = Len(pool) + Len(batch)
  BY <1>1
<1>3. \A i \in DOMAIN pool' :
        pool'[i] = IF i <= Len(pool) THEN pool[i] ELSE batch[i - Len(pool)]
  BY <1>1
<1>4. \A i \in DOMAIN batch :
        Len(pool) + i \in DOMAIN pool' /\ pool'[Len(pool) + i] = batch[i]
  BY <1>1
<1>5. \A i \in DOMAIN pool : i \in DOMAIN pool' /\ pool'[i] = pool[i]
  BY <1>1
<1>6. Range(pool') = Range(pool) \union Range(batch)
  <2>1. \A x \in Range(pool') : x \in Range(pool) \union Range(batch)
    BY <1>1, <1>2, <1>3 DEF Range
  <2>2. \A x \in Range(pool) \union Range(batch) : x \in Range(pool')
    BY <1>4, <1>5 DEF Range
  <2>. QED BY <2>1, <2>2
<1>7. Range(batch) \subseteq outside
  BY DEF Range
<1>8. IsInjective(pool')
  <2>1. \A i \in DOMAIN pool, j \in DOMAIN batch : pool[i] # batch[j]
    BY <1>7 DEF OneOwner, Range
  <2>2. ASSUME NEW i \in DOMAIN pool', NEW j \in DOMAIN pool', pool'[i] = pool'[j]
        PROVE  i = j
    <3>1. CASE i <= Len(pool) /\ j <= Len(pool)
      BY <1>1, <1>2, <1>3, <2>2, <3>1 DEF OneOwner, IsInjective
    <3>2. CASE i > Len(pool) /\ j > Len(pool)
      BY <1>1, <1>2, <1>3, <2>2, <3>2 DEF IsInjective
    <3>3. CASE ~(i <= Len(pool) <=> j <= Len(pool))
      BY <1>1, <1>2, <1>3, <2>1, <2>2, <3>3
    <3>. QED BY <1>1, <1>2, <3>1, <3>2, <3>3
  <2>. QED BY <2>2 DEF IsInjective
<1>. QED BY <1>2, <1>6, <1>7, <1>8 DEF OneOwner, TypeOK

(* A thread that returns owns what it took, and nobody else does. *)
LEMMA TakenOwned ==
  ASSUME TypeOK, OneOwner, NEW t \in Waiters, NEW m \in AllMethods,
         Taken(t, m, Rest(m))
  PROVE  /\ pool' \in Seq(Buffers) /\ outside' \subseteq Buffers /\ OneOwner'
         /\ results' \in [Waiters -> Answers]
<1>. DEFINE taken == IF m = "pop_wait" /\ pool # <<>> THEN <<Head(pool)>> ELSE pool
<1>1. pool \in Seq(Buffers)
  BY DEF TypeOK
<1>2. /\ results' = [results EXCEPT ![t] =
           [ok |-> TRUE, buffers |-> taken, stirred |-> pc[t] = "stirred"]]
      /\ outside' = outside \union Range(taken)
      /\ pool' = Rest(m)
  BY DEF Taken
<1>3. /\ taken \in Seq(Buffers) /\ pool' \in Seq(Buffers)
      /\ IsInjective(pool')
      /\ Range(pool') \intersect Range(taken) = {}
      /\ Range(pool') \union Range(taken) = Range(pool)
  <2>1. CASE m = "pop_wait" /\ pool # <<>>
    <3>1. taken = <<Head(pool)>> /\ pool' = Tail(pool)
      BY <1>2, <2>1 DEF Rest
    <3>2. /\ Len(pool) \in Nat \ {0} /\ Head(pool) = pool[1]
          /\ pool' \in Seq(Buffers) /\ Len(pool') = Len(pool) - 1
          /\ \A i \in DOMAIN pool' : i + 1 \in DOMAIN pool /\ pool'[i] = pool[i + 1]
      BY <1>1, <2>1, <3>1
    <3>3. \A i \in DOMAIN pool : i # 1 => i - 1 \in DOMAIN pool' /\ pool'[i - 1] = pool[i]
      BY <1>1, <2>1, <3>1
    <3>4. Range(taken) = {pool[1]}
      BY <3>1, <3>2 DEF Range
    <3>5. IsInjective(pool')
      BY <3>2 DEF OneOwner, IsInjective
    <3>6. \A i \in DOMAIN pool' : pool'[i] # pool[1]
      BY <1>1, <3>2 DEF OneOwner, IsInjective
    <3>7. Range(pool') \intersect Range(taken) = {}
      BY <3>4, <3>6 DEF Range
    <3>8. Range(pool') \union Range(taken) = Range(pool)
      <4>1. Range(pool') \subseteq Range(pool)
        BY <3>2 DEF Range
      <4>2. pool[1] \in Range(pool)
        BY <1>1, <2>1 DEF Range
      <4>3. \A x \in Range(pool) : x = pool[1] \/ x \in Range(pool')
        BY <3>3 DEF Range
      <4>. QED BY <3>4, <4>1, <4>2, <4>3
    <3>. QED BY <1>1, <3>1, <3>2, <3>5, <3>7, <3>8
  <2>2. CASE ~(m = "pop_wait" /\ pool # <<>>)
    <3>1. taken = pool /\ pool' = <<>>
      BY <1>2, <2>2 DEF Rest
    <3>2. Range(pool') = {} /\ IsInjective(pool') /\ pool' \in Seq(Buffers)
      BY <3>1 DEF Range, IsInjective
    <3>. QED BY <1>1, <3>1, <3>2
  <2>. QED BY <2>1, <2>2
<1>4. Range(taken) \subseteq Buffers
  BY <1>3 DEF Range
<1>. HIDE DEF taken
<1>5. results' \in [Waiters -> Answers]
  BY <1>2, <1>3 DEF TypeOK, Answers
<1>6. OneOwner'
  BY <1>2, <1>3 DEF OneOwner
<1>. QED BY <1>2, <1>3, <1>4, <1>5, <1>6 DEF TypeOK

(* Every step of every thread leaves each buffer with one owner. *)
LEMMA OwnerStep ==
  ASSUME TypeOK, OneOwner, [Next]_vars
  PROVE  TypeOK' /\ OneOwner'
<1>. USE PoolAssumption
<1>1. CASE Push
  <2>1. PICK b \in outside : pool' = Append(pool, b) /\ outside' = outside \ {b}
    BY <1>1 DEF Push
  <2>2. /\ <<b>> \in Seq(outside) /\ IsInjective(<<b>>) /\ Range(<<b>>) = {b}
        /\ Append(pool, b) = pool \o <<b>>
    BY DEF IsInjective, Range, TypeOK
  <2>3. pool' \in Seq(Buffers) /\ outside' \subseteq Buffers /\ OneOwner'
    BY <2>1, <2>2, PushedOwned
  <2>. QED BY <1>1, <2>3, NotifyOneTyped DEF Push, TypeOK, Phases
<1>2. CASE PushBatch
  <2>1. PICK batch \in Batches(outside) :
          pool' = pool \o batch /\ outside' = outside \ Range(batch)
    BY <1>2 DEF PushBatch
  <2>2. pool' \in Seq(Buffers) /\ outside' \subseteq Buffers /\ OneOwner'
    BY <2>1, BatchesType, PushedOwned
  <2>. QED BY <1>2, <2>2, NotifyOneTyped DEF PushBatch, TypeOK, Phases
<1>3. ASSUME NEW t \in Waiters, TakeAtOnce(t)
      PROVE  TypeOK' /\ OneOwner'
  <2>1. PICK m \in Methods : Taken(t, m, Rest(m)) /\ method' = [method EXCEPT ![t] = m]
    BY <1>3 DEF TakeAtOnce
  <2>. QED BY <1>3, <2>1, TakenOwned DEF TakeAtOnce, TypeOK, Answers
<1>4. ASSUME NEW t \in Waiters, ReturnTaken(t)
      PROVE  TypeOK' /\ OneOwner'
  <2>1. method[t] \in AllMethods
    BY DEF TypeOK
  <2>. QED BY <1>4, <2>1, TakenOwned DEF ReturnTaken, TypeOK, Answers
<1>5. ASSUME NEW t \in Waiters,
             Sleep(t) \/ WakeSpuriously(t) \/ Expire(t) \/ ReturnExpired(t)
      PROVE  TypeOK' /\ OneOwner'
  <2>1. UNCHANGED <<pool, outside>>
    BY <1>5 DEF Sleep, WakeSpuriously, Expire, ReturnExpired
  <2>2. OneOwner'
    BY <2>1 DEF OneOwner
  <2>3. NoResult \in Answers
    BY DEF NoResult, Answers
  <2>4. method' \in [Waiters -> AllMethods]
    BY <1>5 DEF Sleep, WakeSpuriously, Expire, ReturnExpired, TypeOK
  <2>5. pc' \in [Waiters -> {"idle", "asleep", "awake", "stirred", "expired"}]
    BY <1>5 DEF Sleep, WakeSpuriously, Expire, ReturnExpired, TypeOK
  <2>6. results' \in [Waiters -> Answers]
    BY <1>5, <2>3 DEF Sleep, WakeSpuriously, Expire, ReturnExpired, TypeOK, Answers
  <2>. QED BY <2>1, <2>2, <2>4, <2>5, <2>6 DEF TypeOK, Answers
<1>6. CASE UNCHANGED vars
  BY <1>6 DEF vars, TypeOK, OneOwner
<1>7. CASE PushNothing
  <2>1. OneOwner'
    BY <1>7 DEF PushNothing, OneOwner
  <2>. QED BY <1>7, <2>1, NotifyOneTyped DEF PushNothing, TypeOK, Phases
<1>. QED BY <1>1, <1>2, <1>3, <1>4, <1>5, <1>6, <1>7 DEF Next, Return

(* A pool starts empty, with every buffer outside. *)
LEMMA OwnerInit == Init => TypeOK /\ OneOwner
<1>1. NoResult \in Answers
  BY DEF NoResult, Answers
<1>. QED BY <1>1 DEF Init, TypeOK, OneOwner, AllMethods, IsInjective, Range, Answers

(* push() and the methods that return buffers move them: a buffer is in    *)
(* the pool once, or outside, and never gone.                              *)
THEOREM EveryBufferOwned == Spec => []OneOwner
<1>1. TypeOK /\ OneOwner /\ [Next]_vars => (TypeOK /\ OneOwner)'
  BY OwnerStep
<1>. QED BY <1>1, OwnerInit, PTL DEF Spec

-----------------------------------------------------------------------------
(***************************************************************************)
(* One waiter.                                                             *)
(***************************************************************************)
Single == \A t, u \in Waiters : t = u

SleepsOnEmpty == \A w \in Waiters : pc[w] = "asleep" => pool = <<>>

(* Whoever fills the pool wakes the waiter, and nobody else empties it.    *)
LEMMA SleepStep ==
  ASSUME TypeOK, SleepsOnEmpty, Single, [Next]_vars
  PROVE  SleepsOnEmpty'
<1>1. CASE Push \/ PushBatch \/ PushNothing
  <2>1. PICK phase \in {"awake", "stirred"} : NotifyOne(phase)
    BY <1>1 DEF Push, PushBatch, PushNothing
  <2>2. CASE Asleep = {}
    BY <2>1, <2>2 DEF NotifyOne, Asleep, SleepsOnEmpty
  <2>3. CASE Asleep # {}
    <3>1. PICK t \in Asleep : pc' = [pc EXCEPT ![t] = phase]
      BY <2>1, <2>3 DEF NotifyOne
    <3>. QED BY <3>1 DEF Asleep, Single, SleepsOnEmpty, TypeOK
  <2>. QED BY <2>2, <2>3
<1>2. ASSUME NEW t \in Waiters, TakeAtOnce(t)
      PROVE  SleepsOnEmpty'
  BY <1>2 DEF TakeAtOnce, Single, SleepsOnEmpty
<1>3. ASSUME NEW t \in Waiters, Sleep(t)
      PROVE  SleepsOnEmpty'
  BY <1>3 DEF Sleep, SleepsOnEmpty
<1>4. ASSUME NEW t \in Waiters, WakeSpuriously(t) \/ Expire(t) \/ Return(t)
      PROVE  SleepsOnEmpty'
  <2>1. pc'[t] # "asleep"
    BY <1>4 DEF WakeSpuriously, Expire, Return, ReturnTaken, ReturnExpired, TypeOK
  <2>. QED BY <2>1 DEF Single, SleepsOnEmpty
<1>5. CASE UNCHANGED vars
  BY <1>5 DEF vars, SleepsOnEmpty
<1>. QED BY <1>1, <1>2, <1>3, <1>4, <1>5 DEF Next

(* The one thread that waits on a pool never sleeps in front of buffers,   *)
(* although push() of a list notifies once, and empty lists wake it too.   *)
THEOREM WakeupNeverLost == Single /\ Spec => []NoLostWakeup
<1>. SUFFICES ASSUME Single PROVE Spec => []NoLostWakeup
  OBVIOUS
<1>1. Init => TypeOK /\ OneOwner /\ SleepsOnEmpty
  BY OwnerInit DEF Init, SleepsOnEmpty
<1>2. TypeOK /\ OneOwner /\ SleepsOnEmpty /\ [Next]_vars
        => (TypeOK /\ OneOwner /\ SleepsOnEmpty)'
  BY OwnerStep, SleepStep
<1>3. SleepsOnEmpty => NoLostWakeup
  BY DEF SleepsOnEmpty, NoLostWakeup, Asleep
<1>. QED BY <1>1, <1>2, <1>3, PTL DEF Spec

-----------------------------------------------------------------------------
(* The waiter's phase and the contents of the pool agree. *)
Handshake(w) ==
  /\ pc[w] = "asleep" => pool = <<>>
  /\ pc[w] = "awake" => pool # <<>>
  /\ pc[w] = "expired" => method[w] = "wait_for"

IInv == TypeOK /\ TrueIfBuffers /\ \A w \in Waiters : Handshake(w)

-----------------------------------------------------------------------------
(* Notification wakes only a sleeping thread, and wakes one if there is    *)
(* one (the notify_one() at the end of either push()).                     *)
LEMMA NotifyOneWakes ==
  ASSUME TypeOK, Single, NEW phase \in Phases, NotifyOne(phase)
  PROVE  /\ pc' \in [Waiters -> Phases]
         /\ \A w \in Waiters :
              /\ pc[w] = "asleep" => pc'[w] = phase
              /\ pc[w] # "asleep" => pc'[w] = pc[w]
<1>1. CASE Asleep = {}
  BY <1>1 DEF NotifyOne, Asleep, TypeOK, Phases
<1>2. CASE Asleep # {}
  <2>1. PICK t \in Asleep : pc' = [pc EXCEPT ![t] = phase]
    BY <1>2 DEF NotifyOne
  <2>2. t \in Waiters /\ pc[t] = "asleep"
    BY <2>1 DEF Asleep
  <2>. QED BY <2>1, <2>2 DEF TypeOK, Single, Phases
<1>. QED BY <1>1, <1>2

(* What a thread takes out are buffers, and some if there were any.        *)
LEMMA TakenTyped ==
  ASSUME TypeOK, NEW t \in Waiters, NEW m \in AllMethods,
         pool # <<>> \/ pc[t] = "stirred",
         Taken(t, m, Rest(m))
  PROVE  /\ pool' \in Seq(Buffers) /\ outside' \subseteq Buffers
         /\ results' \in [Waiters -> Answers]
         /\ results'[t].buffers # <<>> \/ results'[t].stirred
         /\ \A u \in Waiters : u # t => results'[u] = results[u]
<1>. DEFINE taken == IF m = "pop_wait" /\ pool # <<>> THEN <<Head(pool)>> ELSE pool
<1>1. pool \in Seq(Buffers) /\ (pool # <<>> => Head(pool) \in Buffers)
  BY DEF TypeOK
<1>2. taken \in Seq(Buffers) /\ (pool # <<>> => taken # <<>>)
  BY <1>1
<1>3. results' = [results EXCEPT ![t] =
           [ok |-> TRUE, buffers |-> taken, stirred |-> pc[t] = "stirred"]]
  BY DEF Taken
<1>4. outside' = outside \union Range(taken)
  BY DEF Taken
<1>5. Range(taken) \subseteq Buffers
  BY <1>2 DEF Range
<1>6. pool' \in Seq(Buffers)
  BY <1>1 DEF Taken, Rest
<1>7. outside' \subseteq Buffers
  BY <1>4, <1>5 DEF TypeOK
<1>8. results \in [Waiters -> Answers]
  BY DEF TypeOK, Answers
<1>. HIDE DEF taken
<1>9. /\ results' \in [Waiters -> Answers]
      /\ results'[t].buffers # <<>> \/ results'[t].stirred
      /\ \A u \in Waiters : u # t => results'[u] = results[u]
  BY <1>2, <1>3, <1>8 DEF Answers
<1>. QED BY <1>6, <1>7, <1>9

-----------------------------------------------------------------------------
(* Either push() leaves the pool with buffers in it. *)
LEMMA PushStep ==
  ASSUME IInv, Single, Push \/ PushBatch
  PROVE  IInv'
<1>1. NotifyOne("awake") /\ UNCHANGED <<method, results>>
  BY DEF Push, PushBatch
<1>2. pool' \in Seq(Buffers) /\ outside' \subseteq Buffers /\ pool' # <<>>
  <2>1. CASE Push
    BY <2>1 DEF Push, IInv, TypeOK
  <2>2. CASE PushBatch
    <3>1. PICK batch \in Batches(outside) :
            pool' = pool \o batch /\ outside' = outside \ Range(batch)
      BY <2>2 DEF PushBatch
    <3>2. batch \in Seq(Buffers) /\ Len(batch) > 0
      BY <3>1, BatchesType DEF IInv, TypeOK
    <3>3. pool' \in Seq(Buffers) /\ Len(pool') = Len(pool) + Len(batch)
      BY <3>1, <3>2 DEF IInv, TypeOK
    <3>4. pool' # <<>>
      BY <3>2, <3>3 DEF IInv, TypeOK
    <3>. QED BY <3>1, <3>3, <3>4 DEF IInv, TypeOK
  <2>. QED BY <2>1, <2>2
<1>3. /\ pc' \in [Waiters -> Phases]
      /\ \A w \in Waiters :
           /\ pc[w] = "asleep" => pc'[w] = "awake"
           /\ pc[w] # "asleep" => pc'[w] = pc[w]
  BY <1>1, NotifyOneWakes DEF IInv, Phases
<1>4. TypeOK'
  BY <1>1, <1>2, <1>3 DEF IInv, TypeOK, Phases
<1>5. TrueIfBuffers'
  BY <1>1, <1>3 DEF IInv, TrueIfBuffers, TypeOK
<1>6. \A w \in Waiters : Handshake(w)'
  BY <1>1, <1>2, <1>3 DEF IInv, Handshake, TypeOK
<1>. QED BY <1>4, <1>5, <1>6 DEF IInv

(* An empty list wakes the waiter for nothing. *)
LEMMA PushNothingStep ==
  ASSUME IInv, Single, PushNothing
  PROVE  IInv'
<1>1. NotifyOne("stirred") /\ UNCHANGED <<pool, outside, method, results>>
  BY DEF PushNothing
<1>2. /\ pc' \in [Waiters -> Phases]
      /\ \A w \in Waiters :
           /\ pc[w] = "asleep" => pc'[w] = "stirred"
           /\ pc[w] # "asleep" => pc'[w] = pc[w]
  BY <1>1, NotifyOneWakes DEF IInv, Phases
<1>3. TypeOK'
  BY <1>1, <1>2 DEF IInv, TypeOK, Phases
<1>4. TrueIfBuffers'
  BY <1>1, <1>2 DEF IInv, TrueIfBuffers, TypeOK
<1>5. \A w \in Waiters : Handshake(w)'
  BY <1>1, <1>2 DEF IInv, Handshake, TypeOK
<1>. QED BY <1>3, <1>4, <1>5 DEF IInv

(* A method that returns, at once or after it was woken up: with buffers,  *)
(* or else the waiter was stirred.                                         *)
LEMMA TakeStep ==
  ASSUME IInv, Single, NEW t \in Waiters, NEW m \in AllMethods,
         pool # <<>> \/ pc[t] = "stirred",
         Taken(t, m, Rest(m)),
         method' = [method EXCEPT ![t] = m], pc' = [pc EXCEPT ![t] = "idle"]
  PROVE  IInv'
<1>1. \A u \in Waiters : u = t
  BY DEF Single
<1>2. /\ pool' \in Seq(Buffers) /\ outside' \subseteq Buffers
      /\ results' \in [Waiters -> Answers]
      /\ results'[t].buffers # <<>> \/ results'[t].stirred
  BY TakenTyped DEF IInv
<1>3. /\ pc' \in [Waiters -> {"idle", "asleep", "awake", "stirred", "expired"}]
      /\ pc'[t] = "idle"
      /\ method' \in [Waiters -> AllMethods]
  BY DEF IInv, TypeOK
<1>4. TypeOK'
  BY <1>2, <1>3 DEF TypeOK, Answers
<1>5. TrueIfBuffers'
  BY <1>1, <1>2 DEF TrueIfBuffers
<1>6. \A w \in Waiters : Handshake(w)'
  BY <1>1, <1>3 DEF Handshake
<1>. QED BY <1>4, <1>5, <1>6 DEF IInv

-----------------------------------------------------------------------------
(* A pool starts empty, with the waiter busy elsewhere. *)
LEMMA InvInit == Init => IInv
BY OwnerInit DEF Init, IInv, TrueIfBuffers, Handshake

(* Every step of every thread keeps the handshake. *)
LEMMA InvStep ==
  ASSUME IInv, Single, [Next]_vars
  PROVE  IInv'
<1>. USE PoolAssumption
<1>1. CASE Push \/ PushBatch \/ PushNothing
  BY <1>1, PushStep, PushNothingStep
<1>2. ASSUME NEW t \in Waiters, TakeAtOnce(t)
      PROVE  IInv'
  <2>1. PICK m \in Methods : Taken(t, m, Rest(m)) /\ method' = [method EXCEPT ![t] = m]
    BY <1>2 DEF TakeAtOnce
  <2>2. pc' = [pc EXCEPT ![t] = "idle"]
    BY <1>2 DEF TakeAtOnce, IInv, TypeOK
  <2>. QED BY <1>2, <2>1, <2>2, TakeStep DEF TakeAtOnce, PoolAssumption
<1>3. ASSUME NEW t \in Waiters, Sleep(t)
      PROVE  IInv'
  <2>1. PICK m \in Methods : method' = [method EXCEPT ![t] = m]
    BY <1>3 DEF Sleep
  <2>2. \A u \in Waiters : u = t
    BY DEF Single
  <2>. QED BY <1>3, <2>1, <2>2 DEF Sleep, IInv, TypeOK,
             TrueIfBuffers, Handshake, PoolAssumption
<1>4. ASSUME NEW t \in Waiters, WakeSpuriously(t)
      PROVE  IInv'
  BY <1>4 DEF WakeSpuriously, IInv, TypeOK, TrueIfBuffers, Handshake
<1>5. ASSUME NEW t \in Waiters, Expire(t)
      PROVE  IInv'
  BY <1>5 DEF Expire, IInv, TypeOK, TrueIfBuffers, Handshake
<1>6. ASSUME NEW t \in Waiters, ReturnTaken(t)
      PROVE  IInv'
  <2>1. (pool # <<>> \/ pc[t] = "stirred") /\ method[t] \in AllMethods
    BY <1>6 DEF ReturnTaken, IInv, Handshake, TypeOK
  <2>2. method' = [method EXCEPT ![t] = method[t]]
    BY <1>6 DEF ReturnTaken, IInv, TypeOK
  <2>. QED BY <1>6, <2>1, <2>2, TakeStep DEF ReturnTaken
<1>7. ASSUME NEW t \in Waiters, ReturnExpired(t)
      PROVE  IInv'
  <2>1. method[t] = "wait_for"
    BY <1>7 DEF ReturnExpired, IInv, Handshake
  <2>2. NoResult \in Answers /\ ~NoResult.ok
    BY DEF NoResult, Answers
  <2>. QED BY <1>7, <2>1, <2>2 DEF ReturnExpired, IInv, TypeOK, Answers,
             TrueIfBuffers, Handshake
<1>8. CASE UNCHANGED vars
  BY <1>8 DEF vars, IInv, TypeOK, TrueIfBuffers, Handshake
<1>. QED BY <1>1, <1>2, <1>3, <1>4, <1>5, <1>6, <1>7, <1>8 DEF Next, Return

(* The inductive invariant of a pool with one waiter. *)
LEMMA Invariant == Single /\ Spec => []IInv
<1>. SUFFICES ASSUME Single PROVE Spec => []IInv
  OBVIOUS
<1>1. IInv /\ [Next]_vars => IInv'
  BY InvStep
<1>. QED BY <1>1, InvInit, PTL DEF Spec

-----------------------------------------------------------------------------
(* wait_for() tells the truth about buffers, as long as no second thread   *)
(* waits on the pool and it is not woken for nothing.                      *)
THEOREM TrueMeansBuffers == Single /\ Spec => []TrueIfBuffers
<1>1. IInv => TrueIfBuffers
  BY DEF IInv
<1>. QED BY <1>1, Invariant, PTL
=============================================================================
