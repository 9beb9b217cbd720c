-------------------------- MODULE BufferPath_proofs --------------------------
(***************************************************************************)
(* Proofs about the way of the packet buffers, for any number of remote    *)
(* nodes, slots and buffers that the assumption of BufferPath allows.      *)
(***************************************************************************)
EXTENDS BufferPath, SequenceTheorems, FiniteSetTheorems, TLAPS

-----------------------------------------------------------------------------
(* Sums: Total(count) counts the pairs of an argument and a number up to    *)
(* the value there.                                                        *)
Pairs(count) == UNION {{x} \X (1..count[x]) : x \in DOMAIN count}

LEMMA PairsAre ==
  ASSUME NEW S, NEW f \in [S -> Nat]
  PROVE  Pairs(f) = {p \in S \X (Nat \ {0}) : p[2] <= f[p[1]]}
<1>1. ASSUME NEW p \in Pairs(f)
      PROVE  p \in S \X (Nat \ {0}) /\ p[2] <= f[p[1]]
  <2>1. PICK x \in S : p \in {x} \X (1..f[x])
    BY <1>1 DEF Pairs
  <2> QED
    BY <2>1
<1>2. ASSUME NEW p \in S \X (Nat \ {0}), p[2] <= f[p[1]]
      PROVE  p \in Pairs(f)
  <2>1. p \in {p[1]} \X (1..f[p[1]])
    BY <1>2
  <2> QED
    BY <2>1 DEF Pairs
<1> QED
  BY <1>1, <1>2

LEMMA ColumnCounted ==
  ASSUME NEW x, NEW k \in Nat
  PROVE  IsFiniteSet({x} \X (1..k)) /\ Cardinality({x} \X (1..k)) = k
<1>1. IsFiniteSet({x}) /\ Cardinality({x}) = 1
  BY FS_Singleton
<1>2. IsFiniteSet(1..k) /\ Cardinality(1..k) = k
  BY FS_Interval
<1>3. /\ IsFiniteSet({x} \X (1..k))
      /\ Cardinality({x} \X (1..k)) = Cardinality({x}) * Cardinality(1..k)
  BY <1>1, <1>2, FS_Product, Zenon
<1> QED
  BY <1>1, <1>2, <1>3

LEMMA PairsFinite ==
  ASSUME NEW S, IsFiniteSet(S), NEW f \in [S -> Nat]
  PROVE  IsFiniteSet(Pairs(f)) /\ Total(f) = Cardinality(Pairs(f)) /\ Total(f) \in Nat
<1> DEFINE column(x) == {x} \X (1..f[x])
           T == {column(x) : x \in S}
           g == [x \in S |-> column(x)]
<1>1. g \in Surjection(S, T)
  BY DEF Surjection
<1>2. IsFiniteSet(T)
  <2> HIDE DEF T, g
  <2> QED
    BY <1>1, FS_Surjection
<1>3. \A x \in S : IsFiniteSet(column(x))
  BY ColumnCounted
<1>4. IsFiniteSet(UNION T)
  <2>1. \A t \in T : IsFiniteSet(t)
    BY <1>3
  <2> HIDE DEF T
  <2> QED
    BY <1>2, <2>1, FS_UNION
<1>5. Pairs(f) = UNION T
  BY DEF Pairs
<1>6. Total(f) = Cardinality(Pairs(f))
  BY DEF Total, Pairs
<1> QED
  BY <1>4, <1>5, <1>6, FS_CardinalityType

(* One value changes. *)
LEMMA TotalStep ==
  ASSUME NEW S, IsFiniteSet(S), NEW f \in [S -> Nat], NEW g \in [S -> Nat],
         NEW x \in S, \A y \in S : y # x => g[y] = f[y]
  PROVE  /\ Total(f) \in Nat /\ Total(g) \in Nat
         /\ Total(g) + f[x] = Total(f) + g[x]
<1> DEFINE Rest(h) == {p \in Pairs(h) : p[1] # x}
<1>1. Rest(f) = Rest(g)
  BY PairsAre
<1>2. ASSUME NEW h \in [S -> Nat]
      PROVE  /\ IsFiniteSet(Rest(h)) /\ Total(h) \in Nat /\ Cardinality(Rest(h)) \in Nat
             /\ Total(h) = Cardinality(Rest(h)) + h[x]
  <2>1. Pairs(h) = Rest(h) \union ({x} \X (1..h[x]))
    BY PairsAre
  <2>2. Rest(h) \cap ({x} \X (1..h[x])) = {}
    OBVIOUS
  <2>3. IsFiniteSet(Pairs(h)) /\ Total(h) = Cardinality(Pairs(h)) /\ Total(h) \in Nat
    BY PairsFinite
  <2>4. IsFiniteSet(Rest(h)) /\ Cardinality(Rest(h)) \in Nat
    BY <2>3, FS_Subset, FS_CardinalityType
  <2>5. h[x] \in Nat
    OBVIOUS
  <2>6. IsFiniteSet({x} \X (1..h[x])) /\ Cardinality({x} \X (1..h[x])) = h[x]
    BY <2>5, ColumnCounted
  <2>7. Cardinality(Pairs(h)) = Cardinality(Rest(h)) + h[x] - Cardinality({})
    <3> HIDE DEF Rest
    <3> QED
      BY <2>1, <2>2, <2>4, <2>6, FS_Union
  <2> HIDE DEF Rest
  <2> QED
    BY <2>3, <2>4, <2>5, <2>7, FS_EmptySet
<1>3. f[x] \in Nat /\ g[x] \in Nat
  OBVIOUS
<1> HIDE DEF Rest
<1> QED
  BY <1>1, <1>2, <1>3

(* Values are at most those of another sum. *)
LEMMA TotalAtMost ==
  ASSUME NEW S, IsFiniteSet(S), NEW f \in [S -> Nat], NEW g \in [S -> Nat],
         \A x \in S : f[x] <= g[x]
  PROVE  /\ Total(f) \in Nat /\ Total(g) \in Nat /\ Total(f) <= Total(g)
         /\ (\E x \in S : f[x] < g[x]) => Total(f) < Total(g)
<1>1. Pairs(f) \subseteq Pairs(g)
  <2> SUFFICES ASSUME NEW p \in S \X (Nat \ {0}), p[2] <= f[p[1]] PROVE p[2] <= g[p[1]]
    BY PairsAre
  <2>1. f[p[1]] <= g[p[1]] /\ f[p[1]] \in Nat /\ g[p[1]] \in Nat /\ p[2] \in Nat
    OBVIOUS
  <2> QED
    BY <2>1
<1>2. /\ IsFiniteSet(Pairs(f)) /\ IsFiniteSet(Pairs(g))
      /\ Total(f) = Cardinality(Pairs(f)) /\ Total(g) = Cardinality(Pairs(g))
      /\ Total(f) \in Nat /\ Total(g) \in Nat
  BY PairsFinite
<1>3. Total(f) <= Total(g) /\ (Total(f) = Total(g) => Pairs(f) = Pairs(g))
  BY <1>1, <1>2, FS_Subset
<1>4. ASSUME NEW x \in S, f[x] < g[x] PROVE Pairs(f) # Pairs(g)
  <2>1. f[x] \in Nat /\ g[x] \in Nat \ {0}
    BY <1>4
  <2>2. <<x, g[x]>> \in Pairs(g) /\ <<x, g[x]>> \notin Pairs(f)
    BY <1>4, <2>1, PairsAre
  <2> QED
    BY <2>2
<1> QED
  BY <1>2, <1>3, <1>4

LEMMA TotalConstant ==
  ASSUME NEW S, IsFiniteSet(S), NEW k \in Nat, NEW f \in [S -> Nat], \A x \in S : f[x] = k
  PROVE  Total(f) = Cardinality(S) * k
<1>1. Pairs(f) = S \X (1..k)
  BY PairsAre
<1>2. IsFiniteSet(1..k) /\ Cardinality(1..k) = k
  BY FS_Interval
<1>3. Cardinality(S \X (1..k)) = Cardinality(S) * Cardinality(1..k)
  BY <1>2, FS_Product, Zenon
<1> QED
  BY <1>1, <1>2, <1>3, PairsFinite

(* One value is at most the sum. *)
LEMMA TotalAt ==
  ASSUME NEW S, IsFiniteSet(S), NEW f \in [S -> Nat], NEW x \in S
  PROVE  Total(f) \in Nat /\ f[x] <= Total(f)
<1>1. f[x] \in Nat
  OBVIOUS
<1>2. {x} \X (1..f[x]) \subseteq Pairs(f)
  BY PairsAre
<1>3. Cardinality({x} \X (1..f[x])) = f[x]
  BY <1>1, ColumnCounted
<1> QED
  BY <1>2, <1>3, PairsFinite, FS_Subset

(* The sum of a sum. *)
LEMMA TotalPlus ==
  ASSUME NEW S, IsFiniteSet(S), NEW f \in [S -> Nat], NEW g \in [S -> Nat],
         NEW h \in [S -> Nat], \A x \in S : h[x] = f[x] + g[x]
  PROVE  Total(h) = Total(f) + Total(g)
<1> DEFINE Above == {p \in Pairs(h) : p[2] > f[p[1]]}
           shift == [p \in Pairs(g) |-> <<p[1], p[2] + f[p[1]]>>]
<1>1. Pairs(h) = Pairs(f) \union Above
  <2> SUFFICES ASSUME NEW p \in S \X (Nat \ {0})
               PROVE  p[2] <= h[p[1]] <=> (p[2] <= f[p[1]] \/ (p[2] <= h[p[1]] /\ p[2] > f[p[1]]))
    BY PairsAre
  <2>1. PICK a \in Nat, b \in Nat, c \in Nat, i \in Nat :
          a = f[p[1]] /\ b = g[p[1]] /\ c = h[p[1]] /\ i = p[2]
    OBVIOUS
  <2>2. c = a + b
    BY <2>1
  <2>3. i <= c <=> (i <= a \/ (i <= c /\ i > a))
    BY <2>2
  <2> QED
    BY <2>1, <2>3
<1>2. Pairs(f) \cap Above = {}
  BY PairsAre
<1>3. ASSUME NEW p \in S \X (Nat \ {0})
      PROVE  p \in Pairs(g) <=> <<p[1], p[2] + f[p[1]]>> \in Above
  <2>1. PICK q : q = <<p[1], p[2] + f[p[1]]>>
    OBVIOUS
  <2>2. /\ q \in S \X (Nat \ {0}) /\ q[1] = p[1] /\ q[2] = p[2] + f[p[1]]
        /\ f[p[1]] \in Nat /\ h[p[1]] = f[p[1]] + g[p[1]] /\ g[p[1]] \in Nat
    BY <2>1
  <2>3. q[2] <= h[q[1]] <=> p[2] <= g[p[1]]
    BY <2>2
  <2>4. q[2] > f[q[1]]
    BY <2>2
  <2> QED
    BY <2>1, <2>2, <2>3, <2>4, PairsAre
<1>4. shift \in Bijection(Pairs(g), Above)
  <2>1. shift \in [Pairs(g) -> Above]
    BY <1>3, PairsAre
  <2>2. ASSUME NEW p \in Pairs(g), NEW q \in Pairs(g), shift[p] = shift[q] PROVE p = q
    <3>1. p[1] = q[1] /\ p[2] + f[p[1]] = q[2] + f[p[1]]
      BY <2>2
    <3>2. p \in S \X (Nat \ {0}) /\ q \in S \X (Nat \ {0}) /\ f[p[1]] \in Nat
      BY PairsAre
    <3>3. p[2] = q[2]
      BY <3>1, <3>2
    <3> QED
      BY <3>1, <3>2, <3>3
  <2>3. ASSUME NEW q \in Above PROVE \E p \in Pairs(g) : shift[p] = q
    <3>1. q \in S \X (Nat \ {0}) /\ q[2] > f[q[1]] /\ f[q[1]] \in Nat
      BY PairsAre
    <3>2. PICK p : p = <<q[1], q[2] - f[q[1]]>>
      OBVIOUS
    <3>3. p \in S \X (Nat \ {0}) /\ <<p[1], p[2] + f[p[1]]>> = q
      <4>1. q[2] - f[q[1]] \in Nat \ {0} /\ (q[2] - f[q[1]]) + f[q[1]] = q[2]
        BY <3>1
      <4> QED
        BY <3>1, <3>2, <4>1
    <3> QED
      BY <1>3, <3>3
  <2> HIDE DEF shift, Above
  <2> QED
    <3>1. shift \in Injection(Pairs(g), Above)
      BY <2>1, <2>2 DEF Injection, IsInjective
    <3>2. shift \in Surjection(Pairs(g), Above)
      BY <2>1, <2>3 DEF Surjection
    <3> QED
      BY <3>1, <3>2 DEF Bijection
<1>5. ExistsBijection(Pairs(g), Above)
  BY <1>4 DEF ExistsBijection
<1>6. /\ IsFiniteSet(Pairs(f)) /\ IsFiniteSet(Pairs(g)) /\ IsFiniteSet(Pairs(h))
      /\ Total(f) = Cardinality(Pairs(f)) /\ Total(f) \in Nat
      /\ Total(g) = Cardinality(Pairs(g)) /\ Total(g) \in Nat
      /\ Total(h) = Cardinality(Pairs(h)) /\ Total(h) \in Nat
  BY PairsFinite
<1>7. IsFiniteSet(Above) /\ Cardinality(Above) = Cardinality(Pairs(g))
  <2> HIDE DEF Above
  <2> QED
    BY <1>5, <1>6, FS_Bijection
<1>8. Cardinality(Pairs(h)) = Cardinality(Pairs(f)) + Cardinality(Above) - Cardinality({})
  <2> HIDE DEF Above
  <2> QED
    BY <1>1, <1>2, <1>6, <1>7, FS_Union
<1> HIDE DEF Above
<1> QED
  BY <1>6, <1>7, <1>8, FS_EmptySet

-----------------------------------------------------------------------------
(* Types, and what the place where a thread stands says of its counters.    *)
Writers == Nodes \union {Tap}
MarkSet == IF path = "send" THEN {NoMark} ELSE {NoMark} \union peers
EntryType == {e \in [from : peers, mark : MarkSet] : e.mark \in {NoMark, e.from}}
ReaderType ==
  [pc : {"get", "read", "copy", "recv", "sort", "slot"}, held : Nat, left : Nat,
   todo : SUBSET peers]
CodecType ==
  [pc : {"idle", "call", "getbuf", "flush"}, resume : {"call", "flush"}, batch : Nat,
   hand : {0, 1}, kept : 0..MaxKept, open : BOOLEAN]

SettingTyped ==
  path \in {"send", "receive"} /\ peers \in SUBSET Nodes /\ peers # {}

ReaderState(r) ==
  \/ /\ path = "send" /\ r.left = 0
     /\ \/ r.pc = "get" /\ r.held = 0
        \/ r.pc = "read" /\ r.held = 1
        \/ r.pc = "copy" /\ r.held = 1 /\ r.todo # {}
  \/ /\ path = "receive" /\ r.left <= Slots
     /\ \/ r.pc \in {"recv", "sort"} /\ r.held = Slots
        \/ r.pc = "slot" /\ r.held = Slots - 1 /\ r.left > 0

ReaderTyped ==
  /\ reader \in ReaderType /\ ReaderState(reader)
  /\ received \in [Nodes -> Nat]
  /\ reader.pc \notin {"sort", "slot"} => \A n \in Nodes : received[n] = 0

(* A codec that flushes, or gets the buffer for that, is an encoder between *)
(* two calls.                                                              *)
CodecState(c) ==
  /\ c.pc = "idle" => c.batch = 0 /\ c.hand = 0
  /\ c.hand = 0 => c.pc = "idle" \/ path = "send"
  /\ c.pc = "flush" \/ (c.pc = "getbuf" /\ c.resume = "flush") =>
       path = "send" /\ c.batch = 0 /\ c.hand = 0
  /\ path = "send" /\ c.pc = "idle" /\ c.kept > 0 => c.open

CodecTyped ==
  /\ codec_pool \in [Nodes -> Nat] /\ codec \in [Nodes -> CodecType]
  /\ \A n \in Nodes : CodecState(codec[n])

QueuesTyped ==
  /\ available \in Seq(MarkSet)
  /\ write_pool \in [Writers -> Seq(EntryType)]
  /\ writer \in [Writers -> Seq(EntryType)]

Typed == SettingTyped /\ ReaderTyped /\ CodecTyped /\ QueuesTyped

FlowInv == Typed /\ BufferConservation

LEMMA Setting ==
  /\ Tap \notin Nodes /\ IsFiniteSet(Nodes) /\ IsFiniteSet(Writers)
  /\ Slots \in Nat \ {0} /\ MaxKept \in Nat /\ PoolSize \in Nat
  /\ SettingTyped => IsFiniteSet(peers) /\ \A n \in peers : n \in Nodes /\ WriterOf(n) \in Writers
<1>1. /\ Tap \notin Nodes /\ IsFiniteSet(Nodes)
      /\ Slots \in Nat \ {0} /\ MaxKept \in Nat /\ PoolSize \in Nat
  BY BufferPathAssumption
<1>2. IsFiniteSet(Writers)
  BY <1>1, FS_AddElement DEF Writers
<1>3. SettingTyped => IsFiniteSet(peers) /\ \A n \in peers : n \in Nodes /\ WriterOf(n) \in Writers
  BY <1>1, FS_Subset DEF SettingTyped, WriterOf, Writers
<1> QED
  BY <1>1, <1>2, <1>3

(* Shares are numbers. *)
LEMMA SharesTyped ==
  ASSUME Typed
  PROVE  /\ CodecShare \in [peers -> Nat] /\ WriterShare \in [Writers -> Nat]
         /\ \A n \in Nodes : HeldBy(n) \in Nat
<1>1. ASSUME NEW n \in Nodes PROVE HeldBy(n) \in Nat
  <2>1. codec[n].hand \in {0, 1} /\ codec[n].kept \in Nat
    BY Setting DEF Typed, CodecTyped, CodecType
  <2> QED
    BY <2>1 DEF HeldBy
<1>2. ASSUME NEW n \in peers PROVE received[n] + codec_pool[n] + codec[n].batch + HeldBy(n) \in Nat
  <2>1. n \in Nodes
    BY Setting DEF Typed
  <2>2. received[n] \in Nat /\ codec_pool[n] \in Nat /\ codec[n].batch \in Nat
    BY <2>1 DEF Typed, ReaderTyped, CodecTyped, CodecType
  <2> QED
    BY <1>1, <2>1, <2>2
<1>3. ASSUME NEW w \in Writers PROVE Len(write_pool[w]) + Len(writer[w]) \in Nat
  BY LenProperties DEF Typed, QueuesTyped
<1> QED
  BY <1>1, <1>2, <1>3 DEF CodecShare, WriterShare, Writers

ShareTypes ==
  /\ CodecShare \in [peers -> Nat] /\ WriterShare \in [Writers -> Nat]
  /\ \A n \in Nodes : HeldBy(n) \in Nat

LEMMA SharesTypedNext == Typed' => ShareTypes'
<1>1. Typed => ShareTypes
  BY SharesTyped DEF ShareTypes
<1> QED
  BY <1>1, PTL

Changes(f, ff, n) ==
  /\ Total(f) \in Nat /\ Total(ff) \in Nat /\ f[n] \in Nat /\ ff[n] \in Nat
  /\ Total(ff) + f[n] = Total(f) + ff[n]

LEMMA TotalChanges ==
  ASSUME NEW S, IsFiniteSet(S), NEW f \in [S -> Nat], NEW ff \in [S -> Nat], NEW n \in S,
         \A m \in S : m # n => ff[m] = f[m]
  PROVE  Changes(f, ff, n)
BY TotalStep DEF Changes

(* Buffers are conserved when they are at one codec and one writer. *)
Balanced(n, w) ==
  /\ Len(available') + reader'.held + CodecShare'[n] + WriterShare'[w]
       = Len(available) + reader.held + CodecShare[n] + WriterShare[w]
  /\ \A m \in peers : m # n => CodecShare'[m] = CodecShare[m]
  /\ \A v \in Writers : v # w => WriterShare'[v] = WriterShare[v]

LEMMA Balance ==
  ASSUME Typed, Typed', BufferConservation, UNCHANGED setting,
         NEW n \in peers, NEW w \in Writers, Balanced(n, w)
  PROVE  BufferConservation'
<1>1. peers' = peers
  BY DEF setting
<1>2. PICK f \in [peers -> Nat], g \in [Writers -> Nat] : f = CodecShare /\ g = WriterShare
  BY SharesTyped
<1>3. PICK ff \in [peers -> Nat], gg \in [Writers -> Nat] : ff = CodecShare' /\ gg = WriterShare'
  BY <1>1, SharesTypedNext DEF ShareTypes
<1>4. /\ \A m \in peers : m # n => ff[m] = f[m]
      /\ \A v \in Writers : v # w => gg[v] = g[v]
      /\ IsFiniteSet(peers) /\ IsFiniteSet(Writers)
  BY <1>2, <1>3, Setting DEF Typed, Balanced
<1>5. PICK a \in Nat, aa \in Nat, r \in Nat, rr \in Nat :
        a = Len(available) /\ aa = Len(available') /\ r = reader.held /\ rr = reader'.held
  BY <1>1, LenProperties DEF Typed, QueuesTyped, ReaderTyped, ReaderType
<1>6. PICK c \in Nat, cc \in Nat, q \in Nat, qq \in Nat :
        c = f[n] /\ cc = ff[n] /\ q = g[w] /\ qq = gg[w]
  OBVIOUS
<1>7. aa + rr + cc + qq = a + r + c + q
  BY <1>2, <1>3, <1>5, <1>6 DEF Balanced
<1>8. Changes(f, ff, n) /\ Changes(g, gg, w)
  BY <1>4, TotalChanges, Zenon
<1>9. PICK tf \in Nat, tff \in Nat, tg \in Nat, tgg \in Nat :
        tf = Total(f) /\ tff = Total(ff) /\ tg = Total(g) /\ tgg = Total(gg)
  BY <1>8 DEF Changes
<1>10. tff + c = tf + cc /\ tgg + q = tg + qq
  BY <1>6, <1>8, <1>9 DEF Changes
<1>11. aa + rr + tff + tgg = a + r + tf + tg
  BY <1>7, <1>10
<1>12. a + r + tf + tg = PoolSize
  BY <1>2, <1>5, <1>9 DEF BufferConservation
<1> QED
  BY <1>3, <1>5, <1>9, <1>11, <1>12 DEF BufferConservation

-----------------------------------------------------------------------------
(* What is done to the sequences. *)
LEMMA MarkFacts == SettingTyped => NoMark \in MarkSet
BY DEF MarkSet

LEMMA SettingStays ==
  ASSUME SettingTyped, UNCHANGED setting
  PROVE  /\ SettingTyped' /\ MarkSet' = MarkSet /\ EntryType' = EntryType
         /\ ReaderType' = ReaderType /\ path' = path /\ peers' = peers
         /\ \A n : WriterOf(n)' = WriterOf(n)
BY DEF SettingTyped, setting, MarkSet, EntryType, ReaderType, WriterOf

LEMMA PopFacts ==
  ASSUME NEW M, available \in Seq(M), NEW t, Pop(t)
  PROVE  /\ Len(available) \in Nat /\ Len(available') \in Nat
         /\ Len(available) = Len(available') + 1 /\ available' \in Seq(M)
<1>1. available # <<>> /\ available' = Tail(available)
  BY DEF Pop
<1>2. /\ Tail(available) \in Seq(M) /\ Len(Tail(available)) = Len(available) - 1
      /\ Len(available) \in Nat
  BY <1>1, HeadTailProperties, LenProperties
<1>3. Len(available) # 0
  BY <1>1, EmptySeq
<1>4. Len(Tail(available)) \in Nat /\ Len(available) = Len(Tail(available)) + 1
  BY <1>2, <1>3
<1> QED
  BY <1>1, <1>2, <1>4

LEMMA FreeFacts ==
  ASSUME SettingTyped, NEW count \in Nat
  PROVE  Free(count) \in Seq(MarkSet) /\ Len(Free(count)) = count
<1>1. Free(count) \in Seq(MarkSet)
  BY MarkFacts, IsASeq DEF Free
<1>2. DOMAIN Free(count) = 1..count
  BY DEF Free
<1> QED
  BY <1>1, <1>2, LenProperties

(* A sequence of as many elements. *)
LEMMA MapFacts ==
  ASSUME NEW S, NEW T, NEW s \in Seq(S), NEW t, DOMAIN t = DOMAIN s,
         t = [i \in DOMAIN s |-> t[i]], \A i \in DOMAIN s : t[i] \in T
  PROVE  t \in Seq(T) /\ Len(t) = Len(s)
<1>1. Len(s) \in Nat /\ DOMAIN s = 1..Len(s)
  BY LenProperties
<1>2. t = [i \in 1..Len(s) |-> t[i]] /\ \A i \in 1..Len(s) : t[i] \in T
  BY <1>1
<1>3. t \in Seq(T)
  BY <1>1, <1>2, IsASeq
<1> QED
  BY <1>1, <1>3, LenProperties

LEMMA UnmarkFacts ==
  ASSUME SettingTyped, NEW s \in Seq(MarkSet), NEW n
  PROVE  Unmark(s, n) \in Seq(MarkSet) /\ Len(Unmark(s, n)) = Len(s)
<1>1. \A i \in DOMAIN s : s[i] \in MarkSet
  BY ElementOfSeq, LenProperties
<1>2. PICK t : t = Unmark(s, n)
  OBVIOUS
<1>3. /\ DOMAIN t = DOMAIN s /\ t = [i \in DOMAIN s |-> t[i]]
      /\ \A i \in DOMAIN s : t[i] \in MarkSet
  BY <1>1, <1>2, MarkFacts DEF Unmark
<1> QED
  BY <1>2, <1>3, MapFacts

LEMMA UnmarkQueueFacts ==
  ASSUME SettingTyped, NEW q \in Seq(EntryType), NEW n
  PROVE  /\ UnmarkQueue(q, n) \in Seq(EntryType) /\ Len(UnmarkQueue(q, n)) = Len(q)
         /\ DOMAIN UnmarkQueue(q, n) = DOMAIN q
         /\ \A i \in DOMAIN q : /\ q[i] \in EntryType
                                /\ UnmarkQueue(q, n)[i].from = q[i].from
                                /\ UnmarkQueue(q, n)[i].mark =
                                     IF q[i].mark = n THEN NoMark ELSE q[i].mark
<1>1. \A i \in DOMAIN q : q[i] \in EntryType
  BY ElementOfSeq, LenProperties
<1>2. PICK t : t = UnmarkQueue(q, n)
  OBVIOUS
<1>3. DOMAIN t = DOMAIN q /\ t = [i \in DOMAIN q |-> t[i]]
  BY <1>2 DEF UnmarkQueue
<1>4. ASSUME NEW i \in DOMAIN q
      PROVE  /\ t[i] \in EntryType /\ t[i].from = q[i].from
             /\ t[i].mark = IF q[i].mark = n THEN NoMark ELSE q[i].mark
  <2>1. t[i] = IF q[i].mark = n THEN [q[i] EXCEPT !.mark = NoMark] ELSE q[i]
    BY <1>2 DEF UnmarkQueue
  <2>2. PICK e \in EntryType : e = q[i]
    BY <1>1
  <2>3. e \in [from : peers, mark : MarkSet] /\ e.mark \in {NoMark, e.from}
    BY DEF EntryType
  <2>4. CASE e.mark = n
    <3>1. t[i] = [e EXCEPT !.mark = NoMark]
      BY <2>1, <2>2, <2>4
    <3>2. t[i] \in [from : peers, mark : MarkSet] /\ t[i].mark = NoMark /\ t[i].from = e.from
      BY <2>3, <3>1, MarkFacts
    <3> QED
      BY <2>2, <2>4, <3>2 DEF EntryType
  <2>5. CASE e.mark # n
    BY <2>1, <2>2, <2>5
  <2> QED
    BY <2>4, <2>5
<1>5. t \in Seq(EntryType) /\ Len(t) = Len(q)
  BY <1>3, <1>4, MapFacts
<1> QED
  BY <1>1, <1>2, <1>3, <1>4, <1>5

LEMMA MarksFacts ==
  ASSUME NEW q \in Seq(EntryType)
  PROVE  Marks(q) \in Seq(MarkSet) /\ Len(Marks(q)) = Len(q)
<1>1. \A i \in DOMAIN q : q[i].mark \in MarkSet
  BY ElementOfSeq, LenProperties DEF EntryType
<1>2. PICK t : t = Marks(q)
  OBVIOUS
<1>3. /\ DOMAIN t = DOMAIN q /\ t = [i \in DOMAIN q |-> t[i]]
      /\ \A i \in DOMAIN q : t[i] \in MarkSet
  BY <1>1, <1>2 DEF Marks
<1> QED
  BY <1>2, <1>3, MapFacts

-----------------------------------------------------------------------------
(* What one codec does. *)
CodecBalance(n) ==
  Len(available') + codec_pool'[n] + codec'[n].batch + HeldBy(n)' + WriterShare'[WriterOf(n)]
    = Len(available) + codec_pool[n] + codec[n].batch + HeldBy(n) + WriterShare[WriterOf(n)]

LEMMA CodecStep ==
  ASSUME FlowInv, UNCHANGED <<setting, reading>>, NEW n \in peers,
         codec_pool' \in [Nodes -> Nat], codec' \in [Nodes -> CodecType],
         CodecState(codec'[n]),
         \A m \in Nodes : m # n => codec'[m] = codec[m] /\ codec_pool'[m] = codec_pool[m],
         available' \in Seq(MarkSet),
         write_pool' \in [Writers -> Seq(EntryType)], writer' \in [Writers -> Seq(EntryType)],
         \A w \in Writers : w # WriterOf(n) => WriterShare'[w] = WriterShare[w],
         CodecBalance(n)
  PROVE  FlowInv'
<1>1. /\ SettingTyped' /\ MarkSet' = MarkSet /\ EntryType' = EntryType
      /\ ReaderType' = ReaderType /\ path' = path /\ peers' = peers
  BY SettingStays DEF FlowInv, Typed
<1>2. n \in Nodes /\ WriterOf(n) \in Writers /\ peers \subseteq Nodes
  BY Setting DEF FlowInv, Typed
<1>3. ReaderTyped'
  BY <1>1 DEF FlowInv, Typed, ReaderTyped, ReaderState, reading
<1>4. CodecTyped'
  <2>1. \A m \in Nodes : CodecState(codec'[m])
    BY DEF FlowInv, Typed, CodecTyped
  <2>2. \A m \in Nodes : CodecState(codec[m])'
    BY <1>1, <2>1 DEF CodecState
  <2> QED
    BY <2>2 DEF CodecTyped
<1>5. QueuesTyped'
  BY <1>1 DEF QueuesTyped
<1>6. Typed'
  BY <1>1, <1>3, <1>4, <1>5 DEF Typed
<1>7. /\ \A m \in peers : m # n => CodecShare'[m] = CodecShare[m]
      /\ CodecShare[n] = received[n] + codec_pool[n] + codec[n].batch + HeldBy(n)
      /\ CodecShare'[n] = received[n] + codec_pool'[n] + codec'[n].batch + HeldBy(n)'
  BY <1>1, <1>2 DEF CodecShare, HeldBy, reading
<1>8. Balanced(n, WriterOf(n))
  <2>1. PICK w \in Writers : w = WriterOf(n)
    BY <1>2
  <2>2. PICK p \in Nat, b \in Nat, h \in Nat, q \in Nat, a \in Nat :
          /\ p = codec_pool[n] /\ b = codec[n].batch /\ h = HeldBy(n)
          /\ q = WriterShare[w] /\ a = Len(available)
    BY <1>2, SharesTyped, LenProperties DEF FlowInv, Typed, CodecTyped, CodecType, QueuesTyped
  <2>3. PICK pp \in Nat, bb \in Nat, hh \in Nat, qq \in Nat, aa \in Nat :
          /\ pp = codec_pool'[n] /\ bb = codec'[n].batch /\ hh = HeldBy(n)'
          /\ qq = WriterShare'[w] /\ aa = Len(available')
    BY <1>2, <1>6, SharesTypedNext, LenProperties DEF ShareTypes, CodecType
  <2>4. PICK r \in Nat, v \in Nat : r = reader.held /\ v = received[n]
    BY <1>2 DEF FlowInv, Typed, ReaderTyped, ReaderType
  <2>5. aa + pp + bb + hh + qq = a + p + b + h + q
    BY <2>1, <2>2, <2>3 DEF CodecBalance
  <2>6. aa + r + (v + pp + bb + hh) + qq = a + r + (v + p + b + h) + q
    BY <2>5
  <2>7. reader'.held = r
    BY <2>4 DEF reading
  <2> QED
    BY <1>7, <2>1, <2>2, <2>3, <2>4, <2>6, <2>7 DEF Balanced
<1> QED
  BY <1>2, <1>6, <1>8, Balance DEF FlowInv, setting

(* An action of the codec that leaves the queues of the writers alone, or   *)
(* their lengths.                                                          *)
CodecFacts(n) ==
  /\ n \in Nodes /\ codec[n] \in CodecType /\ CodecState(codec[n])
  /\ codec_pool[n] \in Nat /\ codec_pool \in [Nodes -> Nat]
  /\ codec \in [Nodes -> CodecType] /\ SettingTyped
  /\ available \in Seq(MarkSet) /\ Len(available) \in Nat
  /\ write_pool \in [Writers -> Seq(EntryType)]
  /\ writer \in [Writers -> Seq(EntryType)]
  /\ WriterOf(n) \in Writers /\ WriterShare[WriterOf(n)] \in Nat

LEMMA CodecFrame ==
  ASSUME FlowInv, NEW n \in peers
  PROVE  CodecFacts(n)
<1>1. n \in Nodes /\ WriterOf(n) \in Writers
  BY Setting DEF FlowInv, Typed
<1> QED
  BY <1>1, SharesTyped, LenProperties DEF CodecFacts, FlowInv, Typed, CodecTyped, QueuesTyped

LEMMA SameQueues ==
  ASSUME UNCHANGED writing
  PROVE  /\ \A w \in Writers : WriterShare'[w] = WriterShare[w]
         /\ write_pool' = write_pool /\ writer' = writer
BY DEF writing, WriterShare, Writers

LEMMA LocalStep ==
  ASSUME FlowInv, UNCHANGED <<setting, reading>>, UNCHANGED writing, NEW n \in peers,
         codec_pool' \in [Nodes -> Nat], codec' \in [Nodes -> CodecType],
         CodecState(codec'[n]),
         \A m \in Nodes : m # n => codec'[m] = codec[m] /\ codec_pool'[m] = codec_pool[m],
         available' \in Seq(MarkSet), CodecBalance(n)
  PROVE  FlowInv'
<1>1. /\ write_pool' \in [Writers -> Seq(EntryType)]
      /\ writer' \in [Writers -> Seq(EntryType)]
      /\ \A w \in Writers : w # WriterOf(n) => WriterShare'[w] = WriterShare[w]
  BY SameQueues DEF FlowInv, Typed, QueuesTyped
<1> QED
  BY <1>1, CodecStep

(* The codec goes on with its batch: what is in its hand then was in the    *)
(* batch.                                                                  *)
LEMMA NextCallFacts ==
  ASSUME NEW c \in CodecType
  PROVE  /\ NextCall(c) \in CodecType /\ NextCall(c).kept = c.kept
         /\ NextCall(c).pc \in {"idle", "call"}
         /\ NextCall(c).batch + NextCall(c).hand = c.batch
         /\ (path = "send" /\ c.kept > 0 => c.open) => CodecState(NextCall(c))
<1>1. CASE c.batch = 0
  <2>1. NextCall(c) = [c EXCEPT !.pc = "idle", !.hand = 0]
    BY <1>1 DEF NextCall
  <2>2. /\ NextCall(c) \in CodecType /\ NextCall(c).pc = "idle" /\ NextCall(c).hand = 0
        /\ NextCall(c).batch = 0 /\ NextCall(c).kept = c.kept /\ NextCall(c).open = c.open
    BY <1>1, <2>1 DEF CodecType
  <2> QED
    BY <1>1, <2>2 DEF CodecState
<1>2. CASE c.batch # 0
  <2>1. NextCall(c) = [c EXCEPT !.pc = "call", !.hand = 1, !.batch = @ - 1, !.open = FALSE]
    BY <1>2 DEF NextCall
  <2>2. PICK b \in Nat : c.batch = b + 1 /\ c.batch - 1 = b
    <3>1. c.batch - 1 \in Nat /\ c.batch = (c.batch - 1) + 1
      BY <1>2 DEF CodecType
    <3> QED
      BY <3>1
  <2>3. /\ NextCall(c) \in CodecType /\ NextCall(c).pc = "call" /\ NextCall(c).hand = 1
        /\ NextCall(c).batch = b /\ NextCall(c).kept = c.kept
    BY <2>1, <2>2 DEF CodecType
  <2> QED
    BY <2>2, <2>3 DEF CodecState
<1> QED
  BY <1>1, <1>2

(* The end of a call, or of the sleep before a batch: the buffers of the    *)
(* call and the batch, now and in the next state, are accounted for.       *)
LEMMA TurnStep ==
  ASSUME FlowInv, NEW n \in peers, UNCHANGED <<setting, reading>>, NEW c \in CodecType,
         path = "send" /\ c.kept > 0 => c.open,
         codec[n].pc \in {"idle", "call"}, codec' = [codec EXCEPT ![n] = NextCall(c)],
         codec_pool' \in [Nodes -> Nat],
         \A m \in Nodes : m # n => codec_pool'[m] = codec_pool[m],
         available' \in Seq(MarkSet),
         write_pool' \in [Writers -> Seq(EntryType)], writer' \in [Writers -> Seq(EntryType)],
         \A w \in Writers : WriterShare'[w] = WriterShare[w],
         Len(available') + codec_pool'[n] + c.batch + c.kept
           = Len(available) + codec_pool[n] + codec[n].batch + codec[n].hand + codec[n].kept
  PROVE  FlowInv'
<1>c. CodecFacts(n)
  BY CodecFrame
<1> USE <1>c DEF CodecFacts
<1>1. PICK d \in CodecType : d = NextCall(c)
  BY NextCallFacts
<1>2. /\ d.kept = c.kept /\ d.pc # "getbuf" /\ d.batch + d.hand = c.batch /\ CodecState(d)
  BY <1>1, NextCallFacts
<1>3. /\ codec' \in [Nodes -> CodecType] /\ codec'[n] = d
      /\ \A m \in Nodes : m # n => codec'[m] = codec[m] /\ codec_pool'[m] = codec_pool[m]
  BY <1>1
<1>4. PICK h \in Nat, k \in Nat, b \in Nat :
        h = codec[n].hand /\ k = codec[n].kept /\ b = codec[n].batch
  BY Setting DEF CodecType
<1>5. PICK hh \in Nat, kk \in Nat, bb \in Nat : hh = d.hand /\ kk = d.kept /\ bb = d.batch
  BY Setting DEF CodecType
<1>6. HeldBy(n) = 2 + h + k /\ HeldBy(n)' = 2 + hh + kk
  <2>1. HeldBy(n) = 2 - 0 + h + k
    BY <1>4 DEF HeldBy
  <2>2. HeldBy(n)' = 2 - 0 + hh + kk
    BY <1>2, <1>3, <1>5 DEF HeldBy
  <2> QED
    BY <2>1, <2>2
<1>7. PICK a \in Nat, aa \in Nat, p \in Nat, pp \in Nat, q \in Nat, t \in Nat :
        /\ a = Len(available) /\ aa = Len(available') /\ p = codec_pool[n] /\ pp = codec_pool'[n]
        /\ q = WriterShare[WriterOf(n)] /\ t = c.batch
  BY LenProperties DEF CodecType
<1>8. aa + pp + t + kk = a + p + b + h + k /\ bb + hh = t
  BY <1>2, <1>4, <1>5, <1>7
<1>9. aa + pp + bb + (2 + hh + kk) + q = a + p + b + (2 + h + k) + q
  BY <1>8
<1>10. CodecBalance(n)
  BY <1>3, <1>4, <1>5, <1>6, <1>7, <1>9 DEF CodecBalance
<1> QED
  BY <1>2, <1>3, <1>10, CodecStep

LEMMA FlowTakeBatch ==
  ASSUME FlowInv, NEW n \in peers, TakeBatch(n)
  PROVE  FlowInv'
<1>c. CodecFacts(n)
  BY CodecFrame
<1> USE <1>c DEF CodecFacts
<1>1. PICK c : c = [codec[n] EXCEPT !.batch = codec_pool[n]]
  OBVIOUS
<1>2. /\ codec' = [codec EXCEPT ![n] = NextCall(c)]
      /\ codec_pool' = [codec_pool EXCEPT ![n] = 0]
      /\ UNCHANGED <<setting, reading>> /\ available' = available /\ UNCHANGED writing
      /\ codec[n].pc = "idle"
  BY <1>1 DEF TakeBatch, pool
<1>3. /\ c \in CodecType /\ c.batch = codec_pool[n]
      /\ c.kept = codec[n].kept /\ c.open = codec[n].open
  BY <1>1 DEF CodecType
<1>4. /\ path = "send" /\ c.kept > 0 => c.open
      /\ codec[n].batch = 0 /\ codec[n].hand = 0
  BY <1>2, <1>3 DEF CodecState
<1>5. codec_pool' \in [Nodes -> Nat] /\ codec_pool'[n] = 0
  BY <1>2
<1>6. Len(available') + codec_pool'[n] + c.batch + c.kept
        = Len(available) + codec_pool[n] + codec[n].batch + codec[n].hand + codec[n].kept
  <2>1. PICK a \in Nat, p \in Nat, k \in Nat :
          a = Len(available) /\ p = codec_pool[n] /\ k = codec[n].kept
    BY Setting DEF CodecType
  <2>2. a + 0 + p + k = a + p + 0 + 0 + k
    OBVIOUS
  <2> QED
    BY <1>2, <1>3, <1>4, <1>5, <2>1, <2>2
<1>7. /\ write_pool' \in [Writers -> Seq(EntryType)] /\ writer' \in [Writers -> Seq(EntryType)]
      /\ \A w \in Writers : WriterShare'[w] = WriterShare[w]
  BY <1>2, SameQueues
<1> QED
  BY <1>2, <1>3, <1>4, <1>5, <1>6, <1>7, TurnStep

(* A filled buffer goes to the writer. *)
LEMMA HandOverQueues ==
  ASSUME FlowInv, NEW n \in peers, NEW mark \in MarkSet, mark \in {NoMark, n},
         HandOver(n, mark)
  PROVE  /\ available' \in Seq(MarkSet) /\ Len(available') = Len(available)
         /\ write_pool' \in [Writers -> Seq(EntryType)]
         /\ writer' \in [Writers -> Seq(EntryType)]
         /\ WriterShare'[WriterOf(n)] = WriterShare[WriterOf(n)] + 1
         /\ \A w \in Writers : w # WriterOf(n) => WriterShare'[w] = WriterShare[w]
<1>c. CodecFacts(n)
  BY CodecFrame
<1> USE <1>c DEF CodecFacts
<1>1. PICK w \in Writers : w = WriterOf(n)
  OBVIOUS
<1>2. PICK p, q, e : /\ p = UnmarkQueue(write_pool[w], mark)
                     /\ q = UnmarkQueue(writer[w], mark)
                     /\ e = [from |-> n, mark |-> mark]
  OBVIOUS
<1>3. e \in EntryType
  BY <1>2 DEF EntryType
<1>4. /\ p \in Seq(EntryType) /\ Len(p) = Len(write_pool[w])
      /\ q \in Seq(EntryType) /\ Len(q) = Len(writer[w])
  BY <1>2, UnmarkQueueFacts
<1>5. Append(p, e) \in Seq(EntryType) /\ Len(Append(p, e)) = Len(p) + 1
  BY <1>3, <1>4, AppendProperties
<1>6. /\ write_pool' = [write_pool EXCEPT ![w] = Append(p, e)]
      /\ writer' = [writer EXCEPT ![w] = q]
      /\ available' = Unmark(available, mark)
  BY <1>1, <1>2 DEF HandOver
<1>7. available' \in Seq(MarkSet) /\ Len(available') = Len(available)
  BY <1>6, UnmarkFacts
<1>8. /\ write_pool' \in [Writers -> Seq(EntryType)] /\ writer' \in [Writers -> Seq(EntryType)]
      /\ write_pool'[w] = Append(p, e) /\ writer'[w] = q
      /\ \A v \in Writers : v # w => write_pool'[v] = write_pool[v] /\ writer'[v] = writer[v]
  BY <1>4, <1>5, <1>6
<1>9. /\ \A v \in Writers : WriterShare[v] = Len(write_pool[v]) + Len(writer[v])
      /\ \A v \in Writers : WriterShare'[v] = Len(write_pool'[v]) + Len(writer'[v])
  BY DEF WriterShare, Writers
<1>10. WriterShare'[w] = WriterShare[w] + 1
  <2>1. PICK i \in Nat, j \in Nat : i = Len(write_pool[w]) /\ j = Len(writer[w])
    BY LenProperties
  <2>2. (i + 1) + j = (i + j) + 1
    OBVIOUS
  <2> QED
    BY <1>4, <1>5, <1>8, <1>9, <2>1, <2>2
<1> QED
  BY <1>1, <1>7, <1>8, <1>9, <1>10

(* What a codec hands over bears its own mark, or none. *)
LEMMA EmitMarks ==
  ASSUME SettingTyped, NEW n \in peers, Emit(n) \/ Timeout(n)
  PROVE  \E mark \in MarkSet : mark \in {NoMark, n} /\ HandOver(n, mark)
<1>1. CASE Emit(n)
  BY <1>1, MarkFacts DEF Emit, MarkSet, SettingTyped
<1>2. CASE Timeout(n)
  BY <1>2, MarkFacts DEF Timeout
<1> QED
  BY <1>1, <1>2

LEMMA FlowEmit ==
  ASSUME FlowInv, NEW n \in peers, Emit(n) \/ Timeout(n)
  PROVE  FlowInv'
<1>c. CodecFacts(n)
  BY CodecFrame
<1> USE <1>c DEF CodecFacts
<1>1. PICK mark \in MarkSet : mark \in {NoMark, n} /\ HandOver(n, mark)
  BY EmitMarks
<1>2. UNCHANGED <<setting, reading>> /\ codec_pool' = codec_pool
  BY DEF Emit, Timeout
<1>3. \/ codec[n].pc = "call"
      \/ /\ codec[n].pc = "idle" /\ codec[n].hand = 0 /\ codec[n].batch = 0
         /\ path = "send"
  BY DEF Emit, Timeout, CodecState
<1>4. codec' = [codec EXCEPT ![n].pc = "getbuf", ![n].open = FALSE,
                             ![n].resume = IF codec[n].pc = "call" THEN "call" ELSE "flush"]
  BY <1>1 DEF HandOver
<1>5. /\ codec' \in [Nodes -> CodecType]
      /\ codec'[n].pc = "getbuf" /\ codec'[n].batch = codec[n].batch
      /\ codec'[n].hand = codec[n].hand /\ codec'[n].kept = codec[n].kept
      /\ codec'[n].resume = IF codec[n].pc = "call" THEN "call" ELSE "flush"
      /\ \A m \in Nodes : m # n => codec'[m] = codec[m] /\ codec_pool'[m] = codec_pool[m]
  BY <1>2, <1>4 DEF CodecType
<1>6. CodecState(codec'[n])
  BY <1>3, <1>5 DEF CodecState
<1>7. PICK h \in Nat, k \in Nat : h = codec[n].hand /\ k = codec[n].kept
  BY Setting DEF CodecType
<1>8. HeldBy(n) = 2 + h + k /\ HeldBy(n)' = 1 + h + k
  BY <1>3, <1>5, <1>7 DEF HeldBy
<1>9. CodecBalance(n)
  <2>1. PICK b \in Nat, p \in Nat, a \in Nat, q \in Nat :
          /\ b = codec[n].batch /\ p = codec_pool[n]
          /\ a = Len(available) /\ q = WriterShare[WriterOf(n)]
    BY DEF CodecType
  <2>2. a + p + b + (1 + h + k) + (q + 1) = a + p + b + (2 + h + k) + q
    OBVIOUS
  <2>3. Len(available') = a /\ WriterShare'[WriterOf(n)] = q + 1
    BY <1>1, <2>1, HandOverQueues
  <2> QED
    BY <1>2, <1>5, <1>8, <2>1, <2>2, <2>3 DEF CodecBalance
<1>10. /\ available' \in Seq(MarkSet)
       /\ write_pool' \in [Writers -> Seq(EntryType)]
       /\ writer' \in [Writers -> Seq(EntryType)]
       /\ \A w \in Writers : w # WriterOf(n) => WriterShare'[w] = WriterShare[w]
  BY <1>1, HandOverQueues
<1> QED
  BY <1>2, <1>5, <1>6, <1>9, <1>10, CodecStep

LEMMA FlowGetTxBuffer ==
  ASSUME FlowInv, NEW n \in peers, GetTxBuffer(n)
  PROVE  FlowInv'
<1>c. CodecFacts(n)
  BY CodecFrame
<1> USE <1>c DEF CodecFacts
<1>1. /\ codec' = [codec EXCEPT ![n].pc = codec[n].resume, ![n].resume = "call"]
      /\ codec_pool' = codec_pool /\ Pop(n)
      /\ UNCHANGED <<setting, reading>> /\ UNCHANGED writing
      /\ codec[n].pc = "getbuf"
  BY DEF GetTxBuffer
<1>2. /\ codec' \in [Nodes -> CodecType]
      /\ codec'[n].pc = codec[n].resume
      /\ codec'[n].batch = codec[n].batch
      /\ codec'[n].hand = codec[n].hand /\ codec'[n].kept = codec[n].kept
      /\ \A m \in Nodes : m # n => codec'[m] = codec[m] /\ codec_pool'[m] = codec_pool[m]
  BY <1>1 DEF CodecType
<1>3. CodecState(codec'[n])
  BY <1>1, <1>2 DEF CodecState, CodecType
<1>4. PICK h \in Nat, k \in Nat : h = codec[n].hand /\ k = codec[n].kept
  BY Setting DEF CodecType
<1>5. HeldBy(n) = 1 + h + k /\ HeldBy(n)' = 2 + h + k
  <2>1. codec'[n].pc # "getbuf"
    BY <1>2 DEF CodecType
  <2> QED
    BY <1>1, <1>2, <1>4, <2>1 DEF HeldBy
<1>6. /\ Len(available') \in Nat /\ available' \in Seq(MarkSet)
      /\ Len(available) = Len(available') + 1
  BY <1>1, PopFacts
<1>7. CodecBalance(n)
  <2>1. PICK b \in Nat, p \in Nat, a \in Nat, q \in Nat :
          /\ b = codec[n].batch /\ p = codec_pool[n]
          /\ a = Len(available') /\ q = WriterShare[WriterOf(n)]
    BY <1>6 DEF CodecType
  <2>2. a + p + b + (2 + h + k) + q = (a + 1) + p + b + (1 + h + k) + q
    OBVIOUS
  <2>3. Len(available) = a + 1 /\ WriterShare'[WriterOf(n)] = q
    BY <1>1, <1>6, <2>1, SameQueues
  <2> QED
    BY <1>1, <1>2, <1>5, <2>1, <2>2, <2>3 DEF CodecBalance
<1> QED
  BY <1>1, <1>2, <1>3, <1>6, <1>7, LocalStep

(* What was kept goes back, with some more buffers. *)
LEMMA FlushQueues ==
  ASSUME FlowInv, NEW n \in peers, NEW others \in Nat, FlushInflight(n, others)
  PROVE  /\ available' \in Seq(MarkSet)
         /\ Len(available') = Len(available) + (codec[n].kept + others)
         /\ write_pool' \in [Writers -> Seq(EntryType)]
         /\ writer' \in [Writers -> Seq(EntryType)]
         /\ \A w \in Writers : WriterShare'[w] = WriterShare[w]
<1>c. CodecFacts(n)
  BY CodecFrame
<1> USE <1>c DEF CodecFacts
<1>1. codec[n].kept \in Nat
  BY Setting DEF CodecType
<1>2. PICK more \in Nat : more = codec[n].kept + others
  BY <1>1
<1>3. /\ Unmark(available, n) \in Seq(MarkSet) /\ Len(Unmark(available, n)) = Len(available)
      /\ Free(more) \in Seq(MarkSet) /\ Len(Free(more)) = more
  BY UnmarkFacts, FreeFacts
<1>4. available' = Unmark(available, n) \o Free(more)
  BY <1>2 DEF FlushInflight
<1>5. available' \in Seq(MarkSet) /\ Len(available') = Len(available) + more
  <2>1. PICK s \in Seq(MarkSet), t \in Seq(MarkSet) :
          s = Unmark(available, n) /\ t = Free(more)
    BY <1>3
  <2>2. s \o t \in Seq(MarkSet) /\ Len(s \o t) = Len(s) + Len(t)
    BY ConcatProperties
  <2> QED
    BY <1>3, <1>4, <2>1, <2>2
<1>6. /\ write_pool' = [w \in Writers |-> UnmarkQueue(write_pool[w], n)]
      /\ writer' = [w \in Writers |-> UnmarkQueue(writer[w], n)]
  BY DEF FlushInflight
<1>7. /\ \A w \in Writers : /\ UnmarkQueue(write_pool[w], n) \in Seq(EntryType)
                            /\ Len(UnmarkQueue(write_pool[w], n)) = Len(write_pool[w])
                            /\ UnmarkQueue(writer[w], n) \in Seq(EntryType)
                            /\ Len(UnmarkQueue(writer[w], n)) = Len(writer[w])
  BY UnmarkQueueFacts
<1>8. /\ \A v \in Writers : WriterShare[v] = Len(write_pool[v]) + Len(writer[v])
      /\ \A v \in Writers : WriterShare'[v] = Len(write_pool'[v]) + Len(writer'[v])
  BY DEF WriterShare, Writers
<1>9. /\ write_pool' \in [Writers -> Seq(EntryType)]
      /\ writer' \in [Writers -> Seq(EntryType)]
  BY <1>6, <1>7
<1>10. ASSUME NEW w \in Writers PROVE WriterShare'[w] = WriterShare[w]
  <2>1. /\ write_pool'[w] = UnmarkQueue(write_pool[w], n)
        /\ writer'[w] = UnmarkQueue(writer[w], n)
    BY <1>6
  <2>2. Len(write_pool'[w]) = Len(write_pool[w]) /\ Len(writer'[w]) = Len(writer[w])
    BY <1>7, <2>1
  <2> QED
    BY <1>8, <2>2
<1> QED
  BY <1>2, <1>5, <1>9, <1>10

LEMMA FlowFlush ==
  ASSUME FlowInv, NEW n \in peers, EndFlush(n) \/ FlushKept(n) \/ FlushFrame(n)
  PROVE  FlowInv'
<1>c. CodecFacts(n)
  BY CodecFrame
<1> USE <1>c DEF CodecFacts
<1>1. UNCHANGED <<setting, reading>> /\ codec_pool' = codec_pool
  BY DEF EndFlush, FlushKept, FlushFrame
<1>2. 0 \in 0..MaxKept
  BY Setting
<1>3. \E others \in {0, 1}, c \in CodecType :
        /\ FlushInflight(n, others) /\ codec' = [codec EXCEPT ![n] = c] /\ CodecState(c)
        /\ codec[n].pc # "getbuf" /\ c.pc # "getbuf"
        /\ c.batch = codec[n].batch /\ c.kept = 0 /\ codec[n].hand = c.hand + others
  <2>1. CASE EndFlush(n)
    <3>1. PICK c : c = [codec[n] EXCEPT !.pc = "idle", !.kept = 0]
      OBVIOUS
    <3>2. /\ c \in CodecType /\ c.pc = "idle" /\ c.batch = codec[n].batch /\ c.kept = 0
          /\ c.hand = codec[n].hand
      BY <1>2, <3>1 DEF CodecType
    <3>3. codec[n].pc = "flush" /\ codec' = [codec EXCEPT ![n] = c] /\ FlushInflight(n, 0)
      BY <2>1, <3>1 DEF EndFlush
    <3>4. CodecState(c) /\ codec[n].hand = c.hand + 0
      BY <3>2, <3>3 DEF CodecState
    <3> QED
      BY <3>2, <3>3, <3>4
  <2>2. CASE FlushKept(n)
    <3>1. PICK c : c = [codec[n] EXCEPT !.kept = 0]
      OBVIOUS
    <3>2. /\ c \in CodecType /\ c.pc = codec[n].pc /\ c.batch = codec[n].batch /\ c.kept = 0
          /\ c.hand = codec[n].hand
      BY <1>2, <3>1 DEF CodecType
    <3>3. codec[n].pc = "call" /\ codec' = [codec EXCEPT ![n] = c] /\ FlushInflight(n, 0)
      BY <2>2, <3>1 DEF FlushKept
    <3>4. CodecState(c)
      BY <3>2, <3>3 DEF CodecState
    <3>5. codec[n].hand = c.hand + 0
      BY <3>2 DEF CodecType
    <3> QED
      BY <3>2, <3>3, <3>4, <3>5
  <2>3. CASE FlushFrame(n)
    <3>1. PICK c : c = [codec[n] EXCEPT !.kept = 0, !.hand = 0]
      OBVIOUS
    <3>2. /\ c \in CodecType /\ c.pc = codec[n].pc /\ c.batch = codec[n].batch /\ c.kept = 0
          /\ c.hand = 0
      BY <1>2, <3>1 DEF CodecType
    <3>3. /\ codec[n].pc = "call" /\ codec' = [codec EXCEPT ![n] = c] /\ FlushInflight(n, 1)
          /\ path = "send" /\ codec[n].hand = 1
      BY <2>3, <3>1 DEF FlushFrame
    <3>4. CodecState(c) /\ codec[n].hand = c.hand + 1
      BY <3>2, <3>3 DEF CodecState
    <3> QED
      BY <3>2, <3>3, <3>4
  <2> QED
    BY <2>1, <2>2, <2>3
<1>4. PICK others \in {0, 1}, c \in CodecType :
        /\ FlushInflight(n, others) /\ codec' = [codec EXCEPT ![n] = c] /\ CodecState(c)
        /\ codec[n].pc # "getbuf" /\ c.pc # "getbuf"
        /\ c.batch = codec[n].batch /\ c.kept = 0 /\ codec[n].hand = c.hand + others
  BY <1>3
<1>5. /\ codec' \in [Nodes -> CodecType] /\ codec'[n] = c
      /\ \A m \in Nodes : m # n => codec'[m] = codec[m] /\ codec_pool'[m] = codec_pool[m]
  BY <1>1, <1>4
<1>6. PICK h \in Nat, k \in Nat, o \in Nat : h = c.hand /\ k = codec[n].kept /\ o = others
  BY Setting DEF CodecType
<1>7. HeldBy(n) = 2 + (h + o) + k /\ HeldBy(n)' = 2 + h
  BY <1>4, <1>5, <1>6 DEF HeldBy
<1>8. /\ available' \in Seq(MarkSet) /\ Len(available') = Len(available) + (k + o)
      /\ write_pool' \in [Writers -> Seq(EntryType)]
      /\ writer' \in [Writers -> Seq(EntryType)]
      /\ \A w \in Writers : WriterShare'[w] = WriterShare[w]
  BY <1>4, <1>6, FlushQueues
<1>9. CodecBalance(n)
  <2>1. PICK b \in Nat, p \in Nat, a \in Nat, q \in Nat :
          /\ b = codec[n].batch /\ p = codec_pool[n]
          /\ a = Len(available) /\ q = WriterShare[WriterOf(n)]
    BY DEF CodecType
  <2>2. (a + (k + o)) + p + b + (2 + h) + q = a + p + b + (2 + (h + o) + k) + q
    OBVIOUS
  <2>3. Len(available') = a + (k + o) /\ WriterShare'[WriterOf(n)] = q
    BY <1>8, <2>1
  <2> QED
    BY <1>1, <1>4, <1>5, <1>7, <2>1, <2>2, <2>3 DEF CodecBalance
<1> QED
  BY <1>1, <1>4, <1>5, <1>8, <1>9, CodecStep

LEMMA FlowKeepInput ==
  ASSUME FlowInv, NEW n \in peers, KeepInput(n)
  PROVE  FlowInv'
<1>c. CodecFacts(n)
  BY CodecFrame
<1> USE <1>c DEF CodecFacts
<1>1. PICK c : c = [codec[n] EXCEPT !.kept = codec[n].kept + 1, !.open = path = "send"]
  OBVIOUS
<1>2. /\ codec' = [codec EXCEPT ![n] = NextCall(c)] /\ codec_pool' = codec_pool
      /\ UNCHANGED <<setting, reading>> /\ available' = available /\ UNCHANGED writing
      /\ codec[n].pc = "call" /\ codec[n].hand = 1 /\ codec[n].kept < MaxKept
  <2>1. codec' = [codec EXCEPT ![n] = NextCall(c)]
    BY <1>1 DEF KeepInput
  <2> QED
    BY <2>1 DEF KeepInput, pool
<1>3. PICK k \in Nat : k = codec[n].kept /\ k + 1 \in 0..MaxKept
  BY <1>2, Setting DEF CodecType
<1>4. /\ c \in CodecType /\ c.batch = codec[n].batch /\ c.kept = k + 1
      /\ c.open = (path = "send")
  BY <1>1, <1>3 DEF CodecType
<1>5. Len(available') + codec_pool'[n] + c.batch + c.kept
        = Len(available) + codec_pool[n] + codec[n].batch + codec[n].hand + codec[n].kept
  <2>1. PICK a \in Nat, p \in Nat, b \in Nat :
          a = Len(available) /\ p = codec_pool[n] /\ b = codec[n].batch
    BY DEF CodecType
  <2>2. a + p + b + (k + 1) = a + p + b + 1 + k
    OBVIOUS
  <2> QED
    BY <1>2, <1>3, <1>4, <2>1, <2>2
<1>6. /\ write_pool' \in [Writers -> Seq(EntryType)] /\ writer' \in [Writers -> Seq(EntryType)]
      /\ \A w \in Writers : WriterShare'[w] = WriterShare[w]
  BY <1>2, SameQueues
<1> QED
  BY <1>2, <1>4, <1>5, <1>6, TurnStep

LEMMA FlowReturnPacket ==
  ASSUME FlowInv, NEW n \in peers, ReturnPacket(n)
  PROVE  FlowInv'
<1>c. CodecFacts(n)
  BY CodecFrame
<1> USE <1>c DEF CodecFacts
<1>1. PICK c : c = [codec[n] EXCEPT !.kept = 0]
  OBVIOUS
<1>2. /\ codec' = [codec EXCEPT ![n] = NextCall(c)] /\ codec_pool' = codec_pool
      /\ UNCHANGED <<setting, reading>> /\ FlushInflight(n, 1)
      /\ path = "receive" /\ codec[n].pc = "call"
  BY <1>1 DEF ReturnPacket
<1>3. codec[n].hand = 1
  BY <1>2 DEF CodecState, CodecType
<1>4. c \in CodecType /\ c.batch = codec[n].batch /\ c.kept = 0
  <2>1. 0 \in 0..MaxKept
    BY Setting
  <2> QED
    BY <1>1, <2>1 DEF CodecType
<1>5. PICK k \in Nat : k = codec[n].kept
  BY Setting DEF CodecType
<1>6. /\ available' \in Seq(MarkSet) /\ Len(available') = Len(available) + (k + 1)
      /\ write_pool' \in [Writers -> Seq(EntryType)]
      /\ writer' \in [Writers -> Seq(EntryType)]
      /\ \A w \in Writers : WriterShare'[w] = WriterShare[w]
  BY <1>2, <1>5, FlushQueues
<1>7. Len(available') + codec_pool'[n] + c.batch + c.kept
        = Len(available) + codec_pool[n] + codec[n].batch + codec[n].hand + codec[n].kept
  <2>1. PICK a \in Nat, p \in Nat, b \in Nat :
          a = Len(available) /\ p = codec_pool[n] /\ b = codec[n].batch
    BY DEF CodecType
  <2>2. (a + (k + 1)) + p + b + 0 = a + p + b + 1 + k
    OBVIOUS
  <2> QED
    BY <1>2, <1>3, <1>4, <1>5, <1>6, <2>1, <2>2
<1>8. path = "send" /\ c.kept > 0 => c.open
  BY <1>4
<1> QED
  BY <1>2, <1>4, <1>6, <1>7, <1>8, TurnStep

LEMMA FlowReturnFrame ==
  ASSUME FlowInv, NEW n \in peers, ReturnFrame(n)
  PROVE  FlowInv'
<1>c. CodecFacts(n)
  BY CodecFrame
<1> USE <1>c DEF CodecFacts
<1>1. PICK open \in BOOLEAN :
        /\ codec' = [codec EXCEPT ![n] = NextCall([codec[n] EXCEPT !.open = open])]
        /\ codec[n].kept > 0 => open
  BY DEF ReturnFrame
<1>2. /\ UNCHANGED <<setting, reading>> /\ codec_pool' = codec_pool /\ UNCHANGED writing
      /\ available' = IF codec[n].hand = 1 THEN Append(available, NoMark) ELSE available
      /\ codec[n].pc = "call"
  BY DEF ReturnFrame, pool
<1>3. PICK c : c = [codec[n] EXCEPT !.open = open]
  OBVIOUS
<1>4. /\ c \in CodecType /\ c.batch = codec[n].batch /\ c.kept = codec[n].kept
      /\ c.open = open
  BY <1>3 DEF CodecType
<1>5. PICK h \in Nat, k \in Nat : h = codec[n].hand /\ k = codec[n].kept /\ h \in {0, 1}
  BY Setting DEF CodecType
<1>6. available' \in Seq(MarkSet) /\ Len(available') = Len(available) + h
  <2>1. PICK s \in Seq(MarkSet), e \in MarkSet : s = available /\ e = NoMark
    BY MarkFacts
  <2>2. Append(s, e) \in Seq(MarkSet) /\ Len(Append(s, e)) = Len(s) + 1
    BY AppendProperties
  <2>3. CASE h = 1
    BY <1>2, <1>5, <2>1, <2>2, <2>3
  <2>4. CASE h = 0
    BY <1>2, <1>5, <2>4
  <2> QED
    BY <1>5, <2>3, <2>4
<1>7. Len(available') + codec_pool'[n] + c.batch + c.kept
        = Len(available) + codec_pool[n] + codec[n].batch + codec[n].hand + codec[n].kept
  <2>1. PICK a \in Nat, p \in Nat, b \in Nat :
          a = Len(available) /\ p = codec_pool[n] /\ b = codec[n].batch
    BY DEF CodecType
  <2>2. (a + h) + p + b + k = a + p + b + h + k
    OBVIOUS
  <2> QED
    BY <1>2, <1>4, <1>5, <1>6, <2>1, <2>2
<1>8. /\ write_pool' \in [Writers -> Seq(EntryType)] /\ writer' \in [Writers -> Seq(EntryType)]
      /\ \A w \in Writers : WriterShare'[w] = WriterShare[w]
  BY <1>2, SameQueues
<1> QED
  BY <1>1, <1>2, <1>3, <1>4, <1>6, <1>7, <1>8, TurnStep

LEMMA FlowCodec ==
  ASSUME FlowInv, NEW n \in peers, Codec(n)
  PROVE  FlowInv'
BY FlowTakeBatch, FlowEmit, FlowGetTxBuffer, FlowFlush, FlowKeepInput, FlowReturnPacket,
   FlowReturnFrame DEF Codec

-----------------------------------------------------------------------------
(* What a reader does. *)
ReaderBalance(n) ==
  Len(available') + reader'.held + received'[n] + codec_pool'[n]
    = Len(available) + reader.held + received[n] + codec_pool[n]

LEMMA ReaderStep ==
  ASSUME FlowInv, UNCHANGED <<setting, codec, writing>>, NEW n \in peers,
         reader' \in ReaderType, ReaderState(reader'), received' \in [Nodes -> Nat],
         reader'.pc \notin {"sort", "slot"} => \A m \in Nodes : received'[m] = 0,
         codec_pool' \in [Nodes -> Nat], available' \in Seq(MarkSet),
         \A m \in Nodes : m # n => received'[m] + codec_pool'[m] = received[m] + codec_pool[m],
         ReaderBalance(n)
  PROVE  FlowInv'
<1>1. /\ SettingTyped' /\ MarkSet' = MarkSet /\ EntryType' = EntryType
      /\ ReaderType' = ReaderType /\ path' = path /\ peers' = peers
  BY SettingStays DEF FlowInv, Typed
<1>2. n \in Nodes /\ WriterOf(n) \in Writers /\ peers \subseteq Nodes
  BY Setting DEF FlowInv, Typed
<1>3. ReaderTyped'
  BY <1>1 DEF ReaderTyped, ReaderState
<1>4. CodecTyped'
  BY <1>1 DEF FlowInv, Typed, CodecTyped, CodecState
<1>5. QueuesTyped'
  BY <1>1 DEF FlowInv, Typed, QueuesTyped, writing
<1>6. Typed'
  BY <1>1, <1>3, <1>4, <1>5 DEF Typed
<1>7. /\ \A m \in Nodes : HeldBy(m)' = HeldBy(m)
      /\ \A m \in Nodes : codec'[m].batch = codec[m].batch
      /\ \A w \in Writers : WriterShare'[w] = WriterShare[w]
  BY SameQueues DEF HeldBy
<1>8. /\ \A m \in peers : CodecShare[m] = received[m] + codec_pool[m] + codec[m].batch + HeldBy(m)
      /\ \A m \in peers : CodecShare'[m] = received'[m] + codec_pool'[m] + codec[m].batch + HeldBy(m)
  BY <1>1, <1>2, <1>7 DEF CodecShare
<1>9. \A m \in peers : m # n => CodecShare'[m] = CodecShare[m]
  BY <1>2, <1>8
<1>10. Balanced(n, WriterOf(n))
  <2>1. PICK w \in Writers : w = WriterOf(n)
    BY <1>2
  <2>2. PICK p \in Nat, v \in Nat, r \in Nat, a \in Nat :
          p = codec_pool[n] /\ v = received[n] /\ r = reader.held /\ a = Len(available)
    BY <1>2, LenProperties
       DEF FlowInv, Typed, CodecTyped, ReaderTyped, ReaderType, QueuesTyped
  <2>3. PICK pp \in Nat, vv \in Nat, rr \in Nat, aa \in Nat :
          pp = codec_pool'[n] /\ vv = received'[n] /\ rr = reader'.held /\ aa = Len(available')
    BY <1>2, LenProperties DEF ReaderType
  <2>4. PICK b \in Nat, h \in Nat, q \in Nat :
          b = codec[n].batch /\ h = HeldBy(n) /\ q = WriterShare[w]
    BY <1>2, SharesTyped DEF FlowInv, Typed, CodecTyped, CodecType
  <2>5. aa + rr + vv + pp = a + r + v + p
    BY <2>2, <2>3 DEF ReaderBalance
  <2>6. aa + rr + (vv + pp + b + h) + q = a + r + (v + p + b + h) + q
    BY <2>5
  <2> QED
    BY <1>7, <1>8, <1>9, <2>1, <2>2, <2>3, <2>4, <2>6 DEF Balanced
<1> QED
  BY <1>2, <1>6, <1>10, Balance DEF FlowInv, setting

LEMMA ReaderFrame ==
  ASSUME FlowInv
  PROVE  /\ reader \in ReaderType /\ ReaderState(reader) /\ received \in [Nodes -> Nat]
         /\ reader.pc \notin {"sort", "slot"} => \A n \in Nodes : received[n] = 0
         /\ codec_pool \in [Nodes -> Nat] /\ SettingTyped
         /\ available \in Seq(MarkSet) /\ Len(available) \in Nat
         /\ \E n \in peers : TRUE
         /\ \A n \in peers : n \in Nodes
         /\ Slots \in Nat \ {0}
BY LenProperties, Setting
   DEF FlowInv, Typed, ReaderTyped, CodecTyped, QueuesTyped, SettingTyped

(* A frame or a packet goes to the list of a codec. *)
LEMMA EncodeFacts ==
  ASSUME FlowInv, NEW n \in peers, Encode(n)
  PROVE  /\ codec_pool' \in [Nodes -> Nat] /\ codec_pool'[n] = codec_pool[n] + 1
         /\ \A m \in Nodes : m # n => codec_pool'[m] = codec_pool[m]
BY ReaderFrame DEF Encode

LEMMA FlowTapReader ==
  ASSUME FlowInv, GetFrameBuffer \/ ReadUnicast \/ ReadGroup
  PROVE  FlowInv'
<1> USE ReaderFrame
<1>1. CASE GetFrameBuffer
  <2>1. /\ reader' = [reader EXCEPT !.pc = "read", !.held = 1] /\ Pop(Reader) /\ reader.pc = "get"
        /\ UNCHANGED <<setting, codec, writing>> /\ received' = received
        /\ codec_pool' = codec_pool
    BY <1>1 DEF GetFrameBuffer, coding
  <2>2. PICK n \in peers : TRUE
    OBVIOUS
  <2>3. /\ reader' \in ReaderType /\ ReaderState(reader') /\ reader'.pc = "read"
        /\ reader'.held = 1 /\ reader.held = 0
    BY <2>1 DEF ReaderType, ReaderState
  <2>4. /\ Len(available') \in Nat /\ available' \in Seq(MarkSet)
        /\ Len(available) = Len(available') + 1
    BY <2>1, PopFacts
  <2>5. ReaderBalance(n)
    <3>1. PICK a \in Nat, v \in Nat, p \in Nat :
            a = Len(available') /\ v = received[n] /\ p = codec_pool[n]
      BY <2>4
    <3>2. a + 1 + v + p = (a + 1) + 0 + v + p
      OBVIOUS
    <3> QED
      BY <2>1, <2>3, <2>4, <3>1, <3>2 DEF ReaderBalance
  <2> QED
    BY <2>1, <2>3, <2>4, <2>5, ReaderStep
<1>2. CASE ReadUnicast
  <2>1. PICK n \in peers :
        /\ reader' = [reader EXCEPT !.pc = "get", !.held = 0] /\ Encode(n)
        /\ UNCHANGED <<setting, codec, writing>> /\ received' = received
        /\ available' = available /\ reader.pc = "read"
    BY <1>2 DEF ReadUnicast, pool
  <2>2. /\ reader' \in ReaderType /\ ReaderState(reader') /\ reader'.pc = "get"
        /\ reader'.held = 0 /\ reader.held = 1
    BY <2>1 DEF ReaderType, ReaderState
  <2>3. /\ codec_pool' \in [Nodes -> Nat] /\ codec_pool'[n] = codec_pool[n] + 1
        /\ \A m \in Nodes : m # n => codec_pool'[m] = codec_pool[m]
    BY <2>1, EncodeFacts
  <2>4. ReaderBalance(n)
    <3>1. PICK a \in Nat, v \in Nat, p \in Nat :
            a = Len(available) /\ v = received[n] /\ p = codec_pool[n]
      OBVIOUS
    <3>2. a + 0 + v + (p + 1) = a + 1 + v + p
      OBVIOUS
    <3> QED
      BY <2>1, <2>2, <2>3, <3>1, <3>2 DEF ReaderBalance
  <2> QED
    BY <2>1, <2>2, <2>3, <2>4, ReaderStep
<1>3. CASE ReadGroup
  <2>1. /\ reader' = [reader EXCEPT !.pc = "copy", !.todo = peers] /\ reader.pc = "read"
        /\ UNCHANGED <<setting, codec, writing>> /\ received' = received
        /\ codec_pool' = codec_pool /\ available' = available
    BY <1>3 DEF ReadGroup, coding, pool
  <2>2. PICK n \in peers : TRUE
    OBVIOUS
  <2>3. /\ reader' \in ReaderType /\ ReaderState(reader') /\ reader'.pc = "copy"
        /\ reader'.held = reader.held
    BY <2>1 DEF ReaderType, ReaderState
  <2>4. ReaderBalance(n)
    BY <2>1, <2>3 DEF ReaderBalance
  <2> QED
    BY <2>1, <2>3, <2>4, ReaderStep
<1> QED
  BY <1>1, <1>2, <1>3

LEMMA FlowCopy ==
  ASSUME FlowInv, CopyFrame \/ PassFrame
  PROVE  FlowInv'
<1> USE ReaderFrame
<1>1. PICK n \in reader.todo :
        /\ Encode(n)
        /\ CopyFrame => reader' = [reader EXCEPT !.todo = reader.todo \ {n}]
  BY DEF CopyFrame, PassFrame
<1>2. reader.pc = "copy"
  BY DEF CopyFrame, PassFrame
<1>3. n \in reader.todo /\ n \in peers
  BY DEF ReaderType
<1>4. /\ Encode(n) /\ UNCHANGED <<setting, codec, writing>> /\ received' = received
  BY <1>1 DEF CopyFrame, PassFrame
<1>5. /\ codec_pool' \in [Nodes -> Nat] /\ codec_pool'[n] = codec_pool[n] + 1
      /\ \A m \in Nodes : m # n => codec_pool'[m] = codec_pool[m]
  BY <1>3, <1>4, EncodeFacts
<1>6. CASE CopyFrame
  <2>1. reader' = [reader EXCEPT !.todo = reader.todo \ {n}] /\ Pop(Reader)
    BY <1>1, <1>6 DEF CopyFrame
  <2>2. reader.todo \ {n} # {}
    <3>1. Cardinality({n}) = 1
      BY FS_Singleton
    <3>2. Cardinality(reader.todo) > 1
      BY <1>6 DEF CopyFrame
    <3>3. ASSUME reader.todo = {n} PROVE FALSE
      <4>1. Cardinality(reader.todo) = 1
        BY <3>1, <3>3
      <4> QED
        BY <3>2, <4>1
    <3> QED
      BY <1>3, <3>3
  <2>3. /\ reader' \in ReaderType /\ ReaderState(reader') /\ reader'.pc = "copy"
        /\ reader'.held = reader.held
    BY <1>2, <2>1, <2>2 DEF ReaderType, ReaderState
  <2>4. /\ Len(available') \in Nat /\ available' \in Seq(MarkSet)
        /\ Len(available) = Len(available') + 1
    BY <2>1, PopFacts
  <2>5. ReaderBalance(n)
    <3>1. PICK a \in Nat, v \in Nat, p \in Nat, r \in Nat :
            a = Len(available') /\ v = received[n] /\ p = codec_pool[n] /\ r = reader.held
      BY <1>3, <2>4 DEF ReaderType
    <3>2. a + r + v + (p + 1) = (a + 1) + r + v + p
      OBVIOUS
    <3> QED
      BY <1>4, <1>5, <2>3, <2>4, <3>1, <3>2 DEF ReaderBalance
  <2> QED
    BY <1>2, <1>3, <1>4, <1>5, <2>3, <2>4, <2>5, ReaderStep
<1>7. CASE PassFrame
  <2>1. /\ reader' = [reader EXCEPT !.pc = "get", !.held = 0, !.todo = {}]
        /\ available' = available
    BY <1>7 DEF PassFrame, pool
  <2>2. /\ reader' \in ReaderType /\ ReaderState(reader') /\ reader'.pc = "get"
        /\ reader'.held = 0 /\ reader.held = 1
    BY <1>2, <2>1 DEF ReaderType, ReaderState
  <2>3. ReaderBalance(n)
    <3>1. PICK a \in Nat, v \in Nat, p \in Nat :
            a = Len(available) /\ v = received[n] /\ p = codec_pool[n]
      BY <1>3
    <3>2. a + 0 + v + (p + 1) = a + 1 + v + p
      OBVIOUS
    <3> QED
      BY <1>4, <1>5, <2>1, <2>2, <3>1, <3>2 DEF ReaderBalance
  <2> QED
    BY <1>2, <1>3, <1>4, <1>5, <2>1, <2>2, <2>3, ReaderStep
<1> QED
  BY <1>6, <1>7

LEMMA FlowRecvMmsg ==
  ASSUME FlowInv, RecvMmsg
  PROVE  FlowInv'
<1> USE ReaderFrame
<1>1. PICK num_received \in 1..Slots :
        reader' = [reader EXCEPT !.pc = "sort", !.left = num_received]
  BY DEF RecvMmsg
<1>2. /\ UNCHANGED <<setting, codec, writing>> /\ received' = received
      /\ codec_pool' = codec_pool /\ available' = available /\ reader.pc = "recv"
  BY DEF RecvMmsg, coding, pool
<1>3. PICK n \in peers : TRUE
  OBVIOUS
<1>4. /\ reader' \in ReaderType /\ ReaderState(reader') /\ reader'.pc = "sort"
      /\ reader'.held = reader.held
  <2>1. num_received \in Nat /\ num_received <= Slots
    OBVIOUS
  <2> QED
    BY <1>1, <1>2, <2>1 DEF ReaderType, ReaderState
<1>5. ReaderBalance(n)
  BY <1>2, <1>4 DEF ReaderBalance
<1> QED
  BY <1>2, <1>4, <1>5, ReaderStep

LEMMA FlowSortPacket ==
  ASSUME FlowInv, SortPacket
  PROVE  FlowInv'
<1> USE ReaderFrame
<1>1. PICK n \in peers : received' = [received EXCEPT ![n] = @ + 1]
  BY DEF SortPacket
<1>2. /\ UNCHANGED <<setting, codec, writing>> /\ reader.pc = "sort"
      /\ codec_pool' = codec_pool /\ available' = available
      /\ reader' = [reader EXCEPT !.pc = "slot", !.held = @ - 1] /\ reader.left > 0
  BY DEF SortPacket, coding, pool
<1>3. reader.held = Slots /\ Slots - 1 \in Nat
  BY <1>2 DEF ReaderState
<1>4. /\ reader' \in ReaderType /\ ReaderState(reader') /\ reader'.pc = "slot"
      /\ reader'.held = Slots - 1
  BY <1>2, <1>3 DEF ReaderType, ReaderState
<1>5. /\ received' \in [Nodes -> Nat] /\ received'[n] = received[n] + 1
      /\ \A m \in Nodes : m # n => received'[m] = received[m]
  BY <1>1
<1>6. ReaderBalance(n)
  <2>1. PICK a \in Nat, v \in Nat, p \in Nat :
          a = Len(available) /\ v = received[n] /\ p = codec_pool[n]
    OBVIOUS
  <2>2. a + (Slots - 1) + (v + 1) + p = a + Slots + v + p
    <3>1. PICK k \in Nat : k = Slots - 1 /\ Slots = k + 1
      BY <1>3
    <3>2. a + k + (v + 1) + p = a + (k + 1) + v + p
      OBVIOUS
    <3> QED
      BY <3>1, <3>2
  <2> QED
    BY <1>2, <1>3, <1>4, <1>5, <2>1, <2>2 DEF ReaderBalance
<1> QED
  BY <1>2, <1>4, <1>5, <1>6, ReaderStep

LEMMA FlowFillSlot ==
  ASSUME FlowInv, FillSlot
  PROVE  FlowInv'
<1> USE ReaderFrame
<1>1. PICK n \in peers : TRUE
  OBVIOUS
<1>2. /\ UNCHANGED <<setting, codec, writing>> /\ reader.pc = "slot" /\ Pop(Reader)
      /\ codec_pool' = codec_pool /\ received' = received
      /\ reader' = [reader EXCEPT !.pc = "sort", !.held = @ + 1, !.left = @ - 1]
  BY DEF FillSlot, coding
<1>3. /\ reader.held = Slots - 1 /\ Slots - 1 \in Nat /\ (Slots - 1) + 1 = Slots
      /\ reader.left - 1 \in Nat /\ reader.left - 1 <= Slots
  BY <1>2 DEF ReaderState, ReaderType
<1>4. /\ reader' \in ReaderType /\ ReaderState(reader') /\ reader'.pc = "sort"
      /\ reader'.held = Slots
  BY <1>2, <1>3 DEF ReaderType, ReaderState
<1>5. /\ Len(available') \in Nat /\ available' \in Seq(MarkSet)
      /\ Len(available) = Len(available') + 1
  BY <1>2, PopFacts
<1>6. ReaderBalance(n)
  <2>1. PICK a \in Nat, v \in Nat, p \in Nat :
          a = Len(available') /\ v = received[n] /\ p = codec_pool[n]
    BY <1>5
  <2>2. a + Slots + v + p = (a + 1) + (Slots - 1) + v + p
    OBVIOUS
  <2> QED
    BY <1>2, <1>3, <1>4, <1>5, <2>1, <2>2 DEF ReaderBalance
<1> QED
  BY <1>2, <1>4, <1>5, <1>6, ReaderStep

LEMMA FlowPushReceived ==
  ASSUME FlowInv, PushReceived
  PROVE  FlowInv'
<1> USE ReaderFrame
<1>1. PICK n \in peers : TRUE
  OBVIOUS
<1>2. /\ UNCHANGED <<setting, codec, writing>> /\ reader.pc = "sort"
      /\ available' = available /\ reader' = [reader EXCEPT !.pc = "recv"]
      /\ codec_pool' = [m \in Nodes |-> codec_pool[m] + received[m]]
      /\ received' = [m \in Nodes |-> 0]
  BY DEF PushReceived, pool
<1>3. /\ reader' \in ReaderType /\ ReaderState(reader') /\ reader'.pc = "recv"
      /\ reader'.held = reader.held
  BY <1>2 DEF ReaderType, ReaderState
<1>4. /\ received' \in [Nodes -> Nat] /\ codec_pool' \in [Nodes -> Nat]
      /\ \A m \in Nodes : received'[m] = 0
      /\ \A m \in Nodes : received'[m] + codec_pool'[m] = received[m] + codec_pool[m]
  BY <1>2
<1>5. ReaderBalance(n)
  <2>1. PICK a \in Nat, v \in Nat, p \in Nat, r \in Nat :
          a = Len(available) /\ v = received[n] /\ p = codec_pool[n] /\ r = reader.held
    BY DEF ReaderType
  <2>2. a + r + 0 + (p + v) = a + r + v + p
    OBVIOUS
  <2>3. received'[n] = 0 /\ codec_pool'[n] = p + v
    BY <1>2, <2>1
  <2> QED
    BY <1>2, <1>3, <2>1, <2>2, <2>3 DEF ReaderBalance
<1> QED
  BY <1>2, <1>3, <1>4, <1>5, ReaderStep

(* What a writer does. *)
LEMMA FlowWriter ==
  ASSUME FlowInv, NEW w \in Writers, TakeWrites(w) \/ ReturnWritten(w)
  PROVE  FlowInv'
<1>0. PICK n \in peers : TRUE
  BY DEF FlowInv, Typed, SettingTyped
<1>c. CodecFacts(n)
  BY CodecFrame
<1> USE <1>c DEF CodecFacts
<1>1. /\ SettingTyped' /\ MarkSet' = MarkSet /\ EntryType' = EntryType
      /\ ReaderType' = ReaderType /\ path' = path /\ peers' = peers
      /\ UNCHANGED <<setting, reading, coding>>
  BY SettingStays DEF FlowInv, Typed, TakeWrites, ReturnWritten
<1>2. ReaderTyped' /\ CodecTyped'
  BY <1>1 DEF FlowInv, Typed, ReaderTyped, ReaderState, CodecTyped, CodecState, reading, coding
<1>3. /\ write_pool \in [Writers -> Seq(EntryType)] /\ writer \in [Writers -> Seq(EntryType)]
      /\ available \in Seq(MarkSet) /\ Len(available) \in Nat
  BY <1>0
<1>4. Len(<<>>) = 0 /\ <<>> \in Seq(EntryType)
  BY EmptySeq
<1>5. /\ available' \in Seq(MarkSet)
      /\ write_pool' \in [Writers -> Seq(EntryType)] /\ writer' \in [Writers -> Seq(EntryType)]
      /\ \A v \in Writers : v # w => write_pool'[v] = write_pool[v] /\ writer'[v] = writer[v]
      /\ Len(available') + (Len(write_pool'[w]) + Len(writer'[w]))
           = Len(available) + (Len(write_pool[w]) + Len(writer[w]))
  <2>1. PICK a \in Nat, p \in Nat, q \in Nat :
          a = Len(available) /\ p = Len(write_pool[w]) /\ q = Len(writer[w])
    BY <1>3, LenProperties
  <2>2. CASE TakeWrites(w)
    <3>1. /\ writer[w] = <<>> /\ writer' = [writer EXCEPT ![w] = write_pool[w]]
          /\ write_pool' = [write_pool EXCEPT ![w] = <<>>] /\ available' = available
      BY <2>2 DEF TakeWrites, pool
    <3>2. /\ write_pool'[w] = <<>> /\ writer'[w] = write_pool[w] /\ q = 0
      BY <1>3, <1>4, <2>1, <3>1
    <3>3. a + (0 + p) = a + (p + 0)
      OBVIOUS
    <3> QED
      BY <1>3, <1>4, <2>1, <3>1, <3>2, <3>3
  <2>3. CASE ReturnWritten(w)
    <3>1. /\ available' = available \o Marks(writer[w])
          /\ writer' = [writer EXCEPT ![w] = <<>>] /\ write_pool' = write_pool
      BY <2>3 DEF ReturnWritten
    <3>2. PICK s \in Seq(MarkSet), t \in Seq(MarkSet) :
            s = available /\ t = Marks(writer[w]) /\ Len(t) = q
      BY <1>3, <2>1, MarksFacts
    <3>3. s \o t \in Seq(MarkSet) /\ Len(s \o t) = Len(s) + Len(t)
      BY ConcatProperties
    <3>4. available' \in Seq(MarkSet) /\ Len(available') = a + q
      BY <2>1, <3>1, <3>2, <3>3
    <3>5. (a + q) + (p + 0) = a + (p + q)
      OBVIOUS
    <3>6. write_pool'[w] = write_pool[w] /\ writer'[w] = <<>>
      BY <1>3, <3>1
    <3> QED
      BY <1>3, <1>4, <2>1, <3>1, <3>4, <3>5, <3>6
  <2> QED
    BY <2>2, <2>3
<1>6. QueuesTyped'
  BY <1>1, <1>5 DEF QueuesTyped
<1>7. Typed'
  BY <1>1, <1>2, <1>6 DEF Typed
<1>8. Balanced(n, w)
  <2>1. PICK a \in Nat, q \in Nat, r \in Nat, c \in Nat :
          a = Len(available) /\ q = WriterShare[w] /\ r = reader.held /\ c = CodecShare[n]
    BY <1>3, SharesTyped DEF FlowInv, Typed, ReaderTyped, ReaderType
  <2>2. PICK aa \in Nat, qq \in Nat : aa = Len(available') /\ qq = WriterShare'[w]
    BY <1>5, <1>7, LenProperties, SharesTypedNext DEF ShareTypes
  <2>3. /\ \A v \in Writers : WriterShare[v] = Len(write_pool[v]) + Len(writer[v])
        /\ \A v \in Writers : WriterShare'[v] = Len(write_pool'[v]) + Len(writer'[v])
    BY DEF WriterShare, Writers
  <2>4. aa + qq = a + q
    BY <1>5, <2>1, <2>2, <2>3
  <2>5. aa + r + c + qq = a + r + c + q
    BY <2>4
  <2>6. CodecShare' = CodecShare /\ reader' = reader
    BY <1>1 DEF CodecShare, HeldBy, reading, coding
  <2>7. \A v \in Writers : v # w => WriterShare'[v] = WriterShare[v]
    BY <1>5, <2>3
  <2> QED
    BY <2>1, <2>2, <2>5, <2>6, <2>7 DEF Balanced
<1> QED
  BY <1>1, <1>7, <1>8, Balance DEF FlowInv

-----------------------------------------------------------------------------
(* The pool suffices for what the threads own. *)
LEMMA Product ==
  ASSUME NEW k \in Nat, NEW c \in Nat, NEW d \in Nat, c <= d
  PROVE  /\ (2 + k) * c \in Nat /\ (2 + k) * c <= (2 + k) * d
         /\ 2 * c <= (2 + k) * c /\ c * 2 = 2 * c
<1>1. k * c \in Nat /\ (2 + k) * c = 2 * c + k * c
  BY Z3
<1>2. PICK e \in Nat : d = c + e
  <2>1. d - c \in Nat /\ d = c + (d - c)
    OBVIOUS
  <2> QED
    BY <2>1
<1>3. (2 + k) * e \in Nat /\ (2 + k) * (c + e) = (2 + k) * c + (2 + k) * e
  BY Z3
<1>4. (2 + k) * c \in Nat
  BY Z3
<1> QED
  BY <1>1, <1>2, <1>3, <1>4

LEMMA PoolSuffices ==
  ASSUME SettingTyped
  PROVE  /\ Cardinality(peers) \in Nat
         /\ (2 + MaxKept) * Cardinality(peers) \in Nat
         /\ 2 * Cardinality(peers) <= (2 + MaxKept) * Cardinality(peers)
         /\ PoolSize > (2 + MaxKept) * Cardinality(peers) + Slots
<1>1. PICK c \in Nat, d \in Nat : c = Cardinality(peers) /\ d = Cardinality(Nodes) /\ c <= d
  BY Setting, FS_Subset, FS_CardinalityType DEF SettingTyped
<1>2. /\ (2 + MaxKept) * c \in Nat /\ (2 + MaxKept) * c <= (2 + MaxKept) * d
      /\ 2 * c <= (2 + MaxKept) * c
  BY <1>1, Setting, Product, Zenon
<1>3. (2 + MaxKept) * d \in Nat
  <2>1. d <= d
    OBVIOUS
  <2> QED
    BY <2>1, Setting, Product, Zenon
<1>4. PoolSize > (2 + MaxKept) * d + Slots
  BY <1>1, BufferPathAssumption
<1>5. PICK x \in Nat, y \in Nat : x = (2 + MaxKept) * c /\ y = (2 + MaxKept) * d
  BY <1>2, <1>3
<1>6. PoolSize > x + Slots
  BY <1>2, <1>4, <1>5, Setting
<1> QED
  BY <1>1, <1>2, <1>5, <1>6

LEMMA InitFlow == Init => FlowInv
<1> SUFFICES ASSUME Init PROVE FlowInv
  OBVIOUS
<1>1. SettingTyped
  <2>1. path \in {"send", "receive"} /\ peers \in (SUBSET Nodes) \ {{}}
    BY DEF Init
  <2> QED
    BY <2>1 DEF SettingTyped
<1>2. PICK c \in Nat : c = Cardinality(peers) /\ 2 * c + Slots < PoolSize
  <2>1. PICK c \in Nat, x \in Nat :
          c = Cardinality(peers) /\ x = (2 + MaxKept) * Cardinality(peers)
    BY <1>1, PoolSuffices
  <2>2. 2 * c <= x /\ PoolSize > x + Slots
    BY <1>1, <2>1, PoolSuffices
  <2>3. 2 * c + Slots < PoolSize
    BY <2>2, Setting
  <2> QED
    BY <2>1, <2>3
<1>3. /\ reader \in ReaderType /\ ReaderState(reader) /\ reader.pc \in {"get", "recv"}
      /\ reader.held \in Nat /\ reader.held <= Slots
  BY <1>1, Setting DEF Init, ReaderType, ReaderState
<1>4. ReaderTyped
  BY <1>3 DEF Init, ReaderTyped
<1>5. \A n \in Nodes : codec[n] = Idle
  BY DEF Init
<1>6. CodecTyped
  <2>1. Idle \in CodecType /\ CodecState(Idle)
    BY Setting DEF Idle, CodecType, CodecState
  <2> QED
    BY <2>1 DEF Init, CodecTyped
<1>7. PICK size \in Nat : size = PoolSize - 2 * c - reader.held
  <2>1. PICK h \in Nat : h = reader.held /\ h <= Slots
    BY <1>3
  <2>2. PoolSize - 2 * c - h \in Nat
    BY <1>2, <2>1, Setting
  <2> QED
    BY <2>1, <2>2
<1>8. available \in Seq(MarkSet) /\ Len(available) = size
  <2>1. available = Free(size)
    BY <1>2, <1>7 DEF Init, Free
  <2> QED
    BY <1>1, <2>1, FreeFacts
<1>9. <<>> \in Seq(EntryType) /\ Len(<<>>) = 0
  BY EmptySeq
<1>10. QueuesTyped
  BY <1>8, <1>9 DEF Init, QueuesTyped, Writers
<1>11. Typed
  BY <1>1, <1>4, <1>6, <1>10 DEF Typed
<1>12. BufferConservation
  <2>1. /\ CodecShare \in [peers -> Nat] /\ WriterShare \in [Writers -> Nat]
        /\ IsFiniteSet(peers) /\ IsFiniteSet(Writers)
    BY <1>1, <1>11, SharesTyped, Setting
  <2>2. \A n \in peers : CodecShare[n] = 2
    <3>1. \A n \in peers : n \in Nodes
      BY <1>1, Setting
    <3>2. \A n \in peers : HeldBy(n) = 2 /\ received[n] = 0 /\ codec_pool[n] = 0
                            /\ codec[n].batch = 0
      BY <1>5, <3>1 DEF HeldBy, Idle, Init
    <3> QED
      BY <3>2 DEF CodecShare
  <2>3. \A w \in Writers : WriterShare[w] = 0
    BY <1>9 DEF Init, WriterShare, Writers
  <2>4. Total(CodecShare) = Cardinality(peers) * 2
    BY <2>1, <2>2, TotalConstant
  <2>5. Total(WriterShare) = Cardinality(Writers) * 0
    BY <2>1, <2>3, TotalConstant
  <2>6. Cardinality(Writers) * 0 = 0 /\ c * 2 = 2 * c
    BY <2>1, FS_CardinalityType
  <2>7. PICK h \in Nat : h = reader.held
    BY <1>3
  <2>8. size + h + 2 * c + 0 = PoolSize
    BY <1>7, <2>7, Setting
  <2> QED
    BY <1>2, <1>8, <2>4, <2>5, <2>6, <2>7, <2>8 DEF BufferConservation
<1> QED
  BY <1>11, <1>12 DEF FlowInv

LEMMA NextFlow == FlowInv /\ [Next]_vars => FlowInv'
<1> SUFFICES ASSUME FlowInv, [Next]_vars PROVE FlowInv'
  OBVIOUS
<1>1. CASE UNCHANGED <<setting, available, reading, coding, writing>>
  <2>1. SettingTyped
    BY DEF FlowInv, Typed
  <2>2. /\ SettingTyped' /\ MarkSet' = MarkSet /\ EntryType' = EntryType
        /\ ReaderType' = ReaderType /\ path' = path /\ peers' = peers
    BY <1>1, <2>1, SettingStays
  <2>3. Typed'
    BY <1>1, <2>2 DEF FlowInv, Typed, ReaderTyped, ReaderState, CodecTyped, CodecState,
       QueuesTyped, reading, coding, writing
  <2>4. CodecShare' = CodecShare /\ WriterShare' = WriterShare /\ reader' = reader
    BY <1>1, <2>2 DEF CodecShare, WriterShare, HeldBy, reading, coding, writing
  <2> QED
    BY <1>1, <2>3, <2>4 DEF FlowInv, BufferConservation
<1>2. CASE Next
  BY <1>1, <1>2, FlowTapReader, FlowCopy, FlowRecvMmsg, FlowSortPacket, FlowFillSlot,
     FlowPushReceived, FlowCodec, FlowWriter
  DEF Next, TapReader, SocketReader, Writers, Sleep, PopNothing
<1> QED
  BY <1>1, <1>2 DEF vars, pool

LEMMA AlwaysFlow == Spec => []FlowInv
BY InitFlow, NextFlow, PTL DEF Spec

(* No buffer is lost or doubled on its way through the slots, lists and     *)
(* pools of the threads (remote_node.cpp, packet_switch.cpp), however the   *)
(* threads interleave and wherever a codec waits for another buffer.        *)
THEOREM BuffersConserved == Spec => []BufferConservation
BY AlwaysFlow, PTL DEF FlowInv

LEMMA FlowParts ==
  ASSUME FlowInv
  PROVE  /\ Len(available) \in Nat /\ reader.held \in Nat
         /\ Total(CodecShare) \in Nat /\ Total(WriterShare) \in Nat
         /\ CodecShare \in [peers -> Nat] /\ WriterShare \in [Writers -> Nat]
         /\ IsFiniteSet(peers) /\ IsFiniteSet(Writers) /\ peers \subseteq Nodes
<1>1. /\ CodecShare \in [peers -> Nat] /\ WriterShare \in [Writers -> Nat]
      /\ IsFiniteSet(peers) /\ IsFiniteSet(Writers) /\ peers \subseteq Nodes
  BY SharesTyped, Setting DEF FlowInv, Typed
<1>2. Total(CodecShare) \in Nat /\ Total(WriterShare) \in Nat
  BY <1>1, PairsFinite
<1> QED
  BY <1>1, <1>2, ReaderFrame DEF ReaderType

-----------------------------------------------------------------------------
(* The threads that sleep in pop_wait() of the available pool.              *)
Threads == peers \union {Reader}

SleepTyped ==
  /\ asleep \in SUBSET Threads /\ woken \in SUBSET Threads /\ asleep \cap woken = {}
  /\ \A t \in asleep \union woken : Wants(t)
  /\ missed \in BOOLEAN /\ crashed \in BOOLEAN

(* As long as no list came to several sleepers, none of them sleeps on      *)
(* while there are more buffers than threads on their way to one.          *)
NoneMissed == ~missed /\ asleep # {} => Len(available) <= Cardinality(woken)

SleepInv == SleepTyped /\ NoneMissed

LEMMA SleepFacts ==
  ASSUME FlowInv, SleepInv
  PROVE  /\ IsFiniteSet(woken) /\ Cardinality(woken) \in Nat
         /\ Len(available) \in Nat /\ Reader \notin peers
<1>1. IsFiniteSet(Threads) /\ Reader \notin peers
  BY Setting, ReaderFrame, FS_AddElement DEF Threads, Reader
<1> QED
  BY <1>1, ReaderFrame, FS_Subset, FS_CardinalityType DEF SleepInv, SleepTyped

KeepsWanting == \A u \in asleep \union woken : Wants(u) => Wants(u)'

LEMMA SleepStay ==
  ASSUME FlowInv, SleepInv, UNCHANGED <<setting, sleeping>>,
         Len(available') = Len(available), KeepsWanting
  PROVE  SleepInv'
<1>1. Threads' = Threads
  BY DEF setting, Threads
<1>2. SleepTyped'
  BY <1>1 DEF sleeping, SleepInv, SleepTyped, KeepsWanting
<1>3. NoneMissed'
  BY DEF sleeping, SleepInv, NoneMissed
<1> QED
  BY <1>2, <1>3 DEF SleepInv

LEMMA SleepPop ==
  ASSUME FlowInv, SleepInv, UNCHANGED setting, NEW t, Pop(t),
         \A u \in Threads : u # t => (Wants(u) => Wants(u)')
  PROVE  SleepInv'
<1>1. Threads' = Threads
  BY DEF setting, Threads
<1>2. SleepTyped'
  BY <1>1 DEF Pop, SleepInv, SleepTyped
<1>3. NoneMissed'
  <2>1. PICK a \in Nat, k \in Nat, aa \in Nat, kk \in Nat :
          /\ a = Len(available) /\ k = Cardinality(woken) /\ aa = Len(available')
          /\ kk = Cardinality(woken') /\ a = aa + 1 /\ (kk = k \/ kk = k - 1)
    <3>1. /\ Len(available') \in Nat /\ Len(available) = Len(available') + 1
          /\ Len(available) \in Nat
      BY ReaderFrame, PopFacts
    <3>2. woken' = woken \ {t}
      BY DEF Pop
    <3>3. PICK k \in Nat : k = Cardinality(woken)
      BY SleepFacts
    <3>4. IsFiniteSet(woken')
      BY <3>2, SleepFacts, FS_RemoveElement
    <3>5. Cardinality(woken') = k \/ Cardinality(woken') = k - 1
      BY <3>2, <3>3, SleepFacts, FS_RemoveElement
    <3>6. Cardinality(woken') \in Nat
      BY <3>4, FS_CardinalityType
    <3> QED
      BY <3>1, <3>3, <3>5, <3>6
  <2>2. ~missed' /\ asleep' # {} => a <= k
    BY <2>1 DEF Pop, SleepInv, NoneMissed
  <2>3. ~missed' /\ asleep' # {} => aa <= kk
    BY <2>1, <2>2
  <2> QED
    BY <2>1, <2>3 DEF NoneMissed
<1> QED
  BY <1>2, <1>3 DEF SleepInv

LEMMA SleepNotify ==
  ASSUME FlowInv, SleepInv, UNCHANGED setting, NEW count \in Nat \ {0}, NotifyOne(count),
         Len(available') = Len(available) + count, KeepsWanting
  PROVE  SleepInv'
<1>1. Threads' = Threads
  BY DEF setting, Threads
<1>2. \/ asleep = {} /\ asleep' = asleep /\ woken' = woken
      \/ \E t \in asleep : asleep' = asleep \ {t} /\ woken' = woken \union {t}
  BY DEF NotifyOne
<1>3. /\ missed' = (missed \/ (count > 1 /\ \E t, u \in asleep : t # u))
      /\ crashed' = crashed
  BY DEF NotifyOne
<1>4. SleepTyped'
  BY <1>1, <1>2, <1>3 DEF SleepInv, SleepTyped, KeepsWanting
<1>5. ASSUME ~missed', asleep' # {} PROVE Len(available') <= Cardinality(woken')
  <2>1. PICK t \in asleep : asleep' = asleep \ {t} /\ woken' = woken \union {t}
    BY <1>2, <1>5
  <2>2. \E u \in asleep : t # u
    BY <1>5, <2>1
  <2>3. ~missed /\ count = 1
    <3>1. ~(missed \/ (count > 1 /\ \E x, y \in asleep : x # y))
      BY <1>3, <1>5, Zenon
    <3>2. ~(count > 1)
      BY <2>2, <3>1
    <3> QED
      BY <3>1, <3>2
  <2>4. t \notin woken
    BY DEF SleepInv, SleepTyped
  <2>5. Cardinality(woken') = Cardinality(woken) + 1
    BY <2>1, <2>4, SleepFacts, FS_AddElement
  <2>6. PICK a \in Nat, k \in Nat : a = Len(available) /\ k = Cardinality(woken)
    BY SleepFacts
  <2>7. a <= k
    BY <2>1, <2>3, <2>6 DEF SleepInv, NoneMissed
  <2> QED
    BY <2>3, <2>5, <2>6, <2>7
<1> QED
  BY <1>4, <1>5 DEF SleepInv, NoneMissed

(* Who does nothing does not stop to want a buffer. *)
LEMMA OthersWant ==
  ASSUME FlowInv, NEW u \in Threads
  PROVE  /\ u = Reader /\ reader' = reader => (Wants(u) => Wants(u)')
         /\ u # Reader /\ codec'[u] = codec[u] => (Wants(u) => Wants(u)')
BY DEF Wants

LEMMA SleepReader ==
  ASSUME FlowInv, SleepInv, TapReader \/ ReadUnicast \/ ReadGroup \/ SocketReader \/ RecvMmsg
  PROVE  SleepInv'
<1>1. UNCHANGED setting /\ codec' = codec
  BY DEF TapReader, GetFrameBuffer, CopyFrame, PassFrame, ReadUnicast, ReadGroup,
     SocketReader, RecvMmsg, SortPacket, FillSlot, PushReceived, coding
<1>2. \A u \in Threads : u # Reader => (Wants(u) => Wants(u)')
  BY <1>1, OthersWant
<1>3. CASE Pop(Reader)
  BY <1>1, <1>2, <1>3, SleepPop
<1>4. CASE UNCHANGED pool /\ ~Wants(Reader)
  <2>1. UNCHANGED sleeping /\ Len(available') = Len(available)
    BY <1>4 DEF pool
  <2>2. asleep \union woken \subseteq Threads
    BY DEF SleepInv, SleepTyped
  <2>3. KeepsWanting
    BY <1>2, <1>4, <2>2 DEF KeepsWanting
  <2> QED
    BY <1>1, <2>1, <2>3, SleepStay
<1>5. Pop(Reader) \/ (UNCHANGED pool /\ ~Wants(Reader))
  <2>1. CASE GetFrameBuffer \/ CopyFrame \/ FillSlot
    BY <2>1 DEF GetFrameBuffer, CopyFrame, FillSlot
  <2>2. CASE PassFrame
    <3>1. reader.pc = "copy" /\ Cardinality(reader.todo) = 1 /\ UNCHANGED pool
      BY <2>2 DEF PassFrame
    <3>2. ~(Cardinality(reader.todo) > 1)
      BY <3>1
    <3> QED
      BY <3>1, <3>2 DEF Wants
  <2>3. CASE ReadUnicast \/ ReadGroup \/ RecvMmsg \/ SortPacket \/ PushReceived
    BY <2>3 DEF ReadUnicast, ReadGroup, RecvMmsg, SortPacket, PushReceived, Wants
  <2> QED
    BY <2>1, <2>2, <2>3 DEF TapReader, SocketReader
<1> QED
  BY <1>3, <1>4, <1>5

LEMMA SleepCodec ==
  ASSUME FlowInv, SleepInv, NEW n \in peers, Codec(n)
  PROVE  SleepInv'
<1>c. CodecFacts(n)
  BY CodecFrame
<1>1. UNCHANGED setting /\ reader' = reader
  BY DEF Codec, TakeBatch, Emit, Timeout, GetTxBuffer, EndFlush, FlushKept, FlushFrame,
     KeepInput, ReturnPacket, ReturnFrame, reading
<1>2. \A m \in peers : m # n => codec'[m] = codec[m]
  BY <1>c, ReaderFrame DEF CodecFacts, Codec, TakeBatch, Emit, Timeout, HandOver, GetTxBuffer,
     EndFlush, FlushKept, FlushFrame, KeepInput, ReturnPacket, ReturnFrame
<1>3. n # Reader /\ asleep \union woken \subseteq Threads
  BY SleepFacts DEF SleepInv, SleepTyped
<1>4. \A u \in Threads : u # n => (Wants(u) => Wants(u)')
  BY <1>1, <1>2, OthersWant DEF Threads
<1>5. CASE GetTxBuffer(n)
  BY <1>1, <1>4, <1>5, SleepPop DEF GetTxBuffer
<1>6. ASSUME ~GetTxBuffer(n) PROVE KeepsWanting
  <2>1. codec[n].pc # "getbuf"
    BY <1>6 DEF Codec, TakeBatch, Emit, Timeout, EndFlush, FlushKept, FlushFrame, KeepInput,
       ReturnPacket, ReturnFrame
  <2>2. ~Wants(n)
    BY <1>3, <2>1 DEF Wants
  <2> QED
    BY <1>3, <1>4, <2>2 DEF KeepsWanting
<1>7. CASE TakeBatch(n) \/ KeepInput(n) \/ (ReturnFrame(n) /\ codec[n].hand # 1)
  <2>1. UNCHANGED sleeping /\ Len(available') = Len(available)
    BY <1>7 DEF TakeBatch, KeepInput, ReturnFrame, pool
  <2>2. ~GetTxBuffer(n)
    BY <1>7 DEF TakeBatch, KeepInput, ReturnFrame, GetTxBuffer
  <2> QED
    BY <1>1, <1>6, <2>1, <2>2, SleepStay
<1>8. CASE Emit(n) \/ Timeout(n)
  <2>1. SettingTyped
    BY <1>c DEF CodecFacts
  <2>2. PICK mark \in MarkSet : mark \in {NoMark, n} /\ HandOver(n, mark)
    BY <1>8, <2>1, EmitMarks
  <2>3. Len(available') = Len(available)
    BY <2>2, HandOverQueues
  <2>4. UNCHANGED sleeping /\ ~GetTxBuffer(n)
    BY <1>8 DEF Emit, Timeout, GetTxBuffer
  <2> QED
    BY <1>1, <1>6, <2>3, <2>4, SleepStay
<1>9. ASSUME NEW others \in Nat, FlushInflight(n, others), ~GetTxBuffer(n) PROVE SleepInv'
  <2>1. PICK more \in Nat : more = codec[n].kept + others
    BY <1>c, Setting DEF CodecFacts, CodecType
  <2>2. Len(available') = Len(available) + more
    BY <1>9, <2>1, FlushQueues
  <2>3. CASE more = 0
    <3>1. UNCHANGED sleeping
      BY <1>9, <2>1, <2>3 DEF FlushInflight
    <3>2. Len(available') = Len(available)
      BY <2>2, <2>3, SleepFacts
    <3> QED
      BY <1>1, <1>6, <1>9, <3>1, <3>2, SleepStay
  <2>4. CASE more # 0
    <3>1. NotifyOne(more)
      BY <1>9, <2>1, <2>4 DEF FlushInflight
    <3> QED
      BY <1>1, <1>6, <1>9, <2>2, <2>4, <3>1, SleepNotify
  <2> QED
    BY <2>3, <2>4
<1>10. CASE EndFlush(n) \/ FlushKept(n) \/ FlushFrame(n) \/ ReturnPacket(n)
  <2>1. ~GetTxBuffer(n)
    BY <1>10 DEF EndFlush, FlushKept, FlushFrame, ReturnPacket, GetTxBuffer
  <2>2. FlushInflight(n, 0) \/ FlushInflight(n, 1)
    BY <1>10 DEF EndFlush, FlushKept, FlushFrame, ReturnPacket
  <2> QED
    BY <1>9, <2>1, <2>2
<1>11. CASE ReturnFrame(n) /\ codec[n].hand = 1
  <2>1. available' = Append(available, NoMark) /\ NotifyOne(1) /\ ~GetTxBuffer(n)
    BY <1>11 DEF ReturnFrame, GetTxBuffer
  <2>2. Len(available') = Len(available) + 1
    BY <1>c, <2>1, MarkFacts, AppendProperties DEF CodecFacts
  <2> QED
    BY <1>1, <1>6, <2>1, <2>2, SleepNotify
<1> QED
  BY <1>5, <1>7, <1>8, <1>10, <1>11 DEF Codec

LEMMA SleepWriter ==
  ASSUME FlowInv, SleepInv, NEW w \in Writers, TakeWrites(w) \/ ReturnWritten(w)
  PROVE  SleepInv'
<1>1. UNCHANGED <<setting, reading, coding>>
  BY DEF TakeWrites, ReturnWritten
<1>2. KeepsWanting
  <2>1. \A u : Wants(u) => Wants(u)'
    BY <1>1 DEF Wants, reading, coding
  <2> QED
    BY <2>1 DEF KeepsWanting
<1>3. CASE TakeWrites(w)
  <2>1. UNCHANGED sleeping /\ Len(available') = Len(available)
    BY <1>3 DEF TakeWrites, pool
  <2> QED
    BY <1>1, <1>2, <2>1, SleepStay
<1>4. CASE ReturnWritten(w)
  <2>1. PICK q \in Seq(EntryType), s \in Seq(MarkSet) :
          /\ q = writer[w] /\ s = available /\ q # <<>>
          /\ available' = s \o Marks(q) /\ NotifyOne(Len(q))
    BY <1>4 DEF ReturnWritten, FlowInv, Typed, QueuesTyped
  <2>2. Marks(q) \in Seq(MarkSet) /\ Len(Marks(q)) = Len(q)
    BY MarksFacts
  <2>3. Len(s \o Marks(q)) = Len(s) + Len(q)
    BY <2>2, ConcatProperties
  <2>4. PICK count \in Nat \ {0} : count = Len(q)
    BY <2>1, LenProperties, EmptySeq
  <2>5. Len(available') = Len(available) + count /\ NotifyOne(count)
    BY <2>1, <2>3, <2>4
  <2> QED
    BY <1>1, <1>2, <2>5, SleepNotify
<1> QED
  BY <1>3, <1>4

LEMMA SleepSleeps ==
  ASSUME FlowInv, SleepInv, NEW t \in peers \union {Reader}, Sleep(t) \/ PopNothing(t)
  PROVE  SleepInv'
<1>1. UNCHANGED <<setting, available, missed, reading, coding>> /\ woken' = woken
  BY DEF Sleep, PopNothing
<1>2. Threads' = Threads /\ \A u : Wants(u)' <=> Wants(u)
  BY <1>1 DEF Threads, Wants, setting, reading, coding
<1>3. CASE Sleep(t)
  <2>1. /\ asleep' = asleep \union {t} /\ t \notin asleep \union woken /\ Wants(t)
        /\ available = <<>> /\ crashed' = crashed
    BY <1>3 DEF Sleep
  <2>2. SleepTyped'
    BY <1>1, <1>2, <2>1 DEF SleepInv, SleepTyped, Threads
  <2>3. Len(available') = 0
    BY <1>1, <2>1, EmptySeq
  <2>4. Len(available') <= Cardinality(woken')
    BY <1>1, <2>3, SleepFacts
  <2> QED
    BY <2>2, <2>4 DEF SleepInv, NoneMissed
<1>4. CASE PopNothing(t)
  <2>1. asleep' = asleep /\ crashed' = TRUE
    BY <1>4 DEF PopNothing
  <2>2. SleepTyped' /\ NoneMissed'
    BY <1>1, <1>2, <2>1 DEF SleepInv, SleepTyped, NoneMissed
  <2> QED
    BY <2>2 DEF SleepInv
<1> QED
  BY <1>3, <1>4

LEMMA InitSleep == Init => SleepInv
BY DEF Init, SleepInv, SleepTyped, NoneMissed, Threads

LEMMA NextSleep == FlowInv /\ SleepInv /\ [Next]_vars => SleepInv'
<1> SUFFICES ASSUME FlowInv, SleepInv, [Next]_vars PROVE SleepInv'
  OBVIOUS
<1>1. CASE UNCHANGED vars
  <2>1. UNCHANGED <<setting, sleeping, reading, coding>> /\ available' = available
    BY <1>1 DEF vars, pool
  <2>2. KeepsWanting
    BY <2>1 DEF KeepsWanting, Wants, reading, coding
  <2> QED
    BY <2>1, <2>2, SleepStay
<1>2. CASE Next
  BY <1>2, SleepReader, SleepCodec, SleepWriter, SleepSleeps DEF Next, Writers
<1> QED
  BY <1>1, <1>2

LEMMA AlwaysSleep == Spec => []SleepInv
BY AlwaysFlow, InitSleep, NextSleep, PTL DEF Spec

(* Every variable keeps its type, whichever way the buffers go: there are   *)
(* never more buffers in the pool than were allocated, and the slots of     *)
(* recvmmsg() (packet_switch.cpp:400-460) never hold more than their number. *)
THEOREM TypeCorrect == Spec => []TypeOK
<1>1. ASSUME FlowInv, SleepInv PROVE TypeOK
  <2> USE <1>1, ReaderFrame
  <2>1. path \in {"send", "receive"} /\ peers \subseteq Nodes
    BY DEF SettingTyped
  <2>2. Len(available) <= PoolSize
    <3>1. PICK a \in Nat, r \in Nat, c \in Nat, q \in Nat :
            /\ a = Len(available) /\ r = reader.held
            /\ c = Total(CodecShare) /\ q = Total(WriterShare)
      BY FlowParts
    <3>2. a + r + c + q = PoolSize
      BY <3>1 DEF FlowInv, BufferConservation
    <3> QED
      BY <3>1, <3>2
  <2>3. Range(available) \subseteq MarkSet
    BY ElementOfSeq, LenProperties DEF Range
  <2>4. /\ reader.pc \in (IF path = "send" THEN {"get", "read", "copy"}
                          ELSE {"recv", "sort", "slot"})
        /\ reader.held \in 0..Slots /\ reader.left \in 0..Slots
    BY DEF ReaderType, ReaderState
  <2>5. ASSUME NEW n \in Nodes
        PROVE  /\ codec[n].pc \in {"idle", "call", "getbuf", "flush"}
               /\ codec[n].resume \in {"call", "flush"}
               /\ codec[n].hand \in {0, 1} /\ codec[n].kept \in 0..MaxKept
               /\ codec[n].pc = "flush" => path = "send"
    BY DEF FlowInv, Typed, CodecTyped, CodecType, CodecState
  <2>6. ASSUME NEW w \in Writers
        PROVE  Range(write_pool[w] \o writer[w]) \subseteq UNION {Entries(n) : n \in Nodes}
    <3>1. PICK s \in Seq(EntryType), t \in Seq(EntryType) : s = write_pool[w] /\ t = writer[w]
      BY DEF FlowInv, Typed, QueuesTyped
    <3>2. s \o t \in Seq(EntryType)
      BY ConcatProperties
    <3>3. ASSUME NEW e \in EntryType PROVE e \in UNION {Entries(n) : n \in Nodes}
      <4>1. /\ e \in [from : peers, mark : MarkSet] /\ e.mark \in {NoMark, e.from}
        BY DEF EntryType
      <4>2. e.from \in Nodes /\ e \in [from : {e.from}, mark : {NoMark, e.from}]
        BY <4>1
      <4> QED
        BY <4>2 DEF Entries
    <3>4. \A i \in DOMAIN (s \o t) : (s \o t)[i] \in EntryType
      BY <3>2, ElementOfSeq, LenProperties
    <3> QED
      BY <3>1, <3>3, <3>4 DEF Range
  <2>7. /\ asleep \union woken \subseteq peers \union {Reader} /\ asleep \intersect woken = {}
        /\ \A t \in asleep \union woken : Wants(t)
        /\ missed \in BOOLEAN /\ crashed \in BOOLEAN
    BY DEF SleepInv, SleepTyped, Threads
  <2> QED
    BY <2>1, <2>2, <2>3, <2>4, <2>5, <2>6, <2>7 DEF TypeOK, MarkSet, Writers
<1> QED
  BY <1>1, AlwaysFlow, AlwaysSleep, PTL

-----------------------------------------------------------------------------
(* When nothing moves any more. *)
Waiting == [n \in peers |-> received[n] + codec_pool[n] + codec[n].batch + codec[n].hand]
Kept == [n \in peers |-> 2 - (IF codec[n].pc = "getbuf" THEN 1 ELSE 0) + codec[n].kept]

LEMMA WaitingAndKept ==
  ASSUME FlowInv
  PROVE  /\ Waiting \in [peers -> Nat] /\ Kept \in [peers -> Nat]
         /\ Total(Waiting) \in Nat /\ Total(Kept) \in Nat /\ Backlog = Total(Waiting)
         /\ Total(CodecShare) = Total(Waiting) + Total(Kept)
<1>1. ASSUME NEW n \in peers
      PROVE  /\ Waiting[n] \in Nat /\ Kept[n] \in Nat
             /\ CodecShare[n] = Waiting[n] + Kept[n]
  <2>1. n \in Nodes /\ codec[n] \in CodecType
    BY <1>1, CodecFrame DEF CodecFacts
  <2>2. PICK v \in Nat, p \in Nat, b \in Nat, h \in Nat :
          /\ v = received[n] /\ p = codec_pool[n] /\ b = codec[n].batch /\ h = codec[n].hand
    BY <2>1, ReaderFrame DEF CodecType
  <2>3. PICK k \in Nat : k = codec[n].kept
    BY <2>1, Setting DEF CodecType
  <2>4. PICK g \in Nat : g = 2 - (IF codec[n].pc = "getbuf" THEN 1 ELSE 0)
    OBVIOUS
  <2>5. /\ Waiting[n] = v + p + b + h /\ Kept[n] = g + k
        /\ CodecShare[n] = v + p + b + (g + h + k)
    BY <2>2, <2>3, <2>4 DEF Waiting, Kept, CodecShare, HeldBy
  <2>6. v + p + b + (g + h + k) = (v + p + b + h) + (g + k)
    OBVIOUS
  <2> QED
    BY <2>5, <2>6
<1>2. Waiting \in [peers -> Nat] /\ Kept \in [peers -> Nat]
  BY <1>1 DEF Waiting, Kept
<1>3. IsFiniteSet(peers) /\ CodecShare \in [peers -> Nat]
  BY FlowParts
<1>4. Total(CodecShare) = Total(Waiting) + Total(Kept)
  BY <1>1, <1>2, <1>3, TotalPlus
<1> QED
  BY <1>2, <1>3, <1>4, PairsFinite DEF Backlog, Waiting

LEMMA KeptAtMost ==
  ASSUME FlowInv
  PROVE  /\ Cardinality(peers) * (2 + MaxKept) \in Nat
         /\ Total(Kept) <= Cardinality(peers) * (2 + MaxKept)
         /\ (\E n \in peers : codec[n].pc = "getbuf") =>
              Total(Kept) < Cardinality(peers) * (2 + MaxKept)
<1>1. PICK most \in Nat : most = 2 + MaxKept
  BY Setting
<1>2. PICK limit \in [peers -> Nat] : \A n \in peers : limit[n] = most
  <2>1. [n \in peers |-> most] \in [peers -> Nat]
    OBVIOUS
  <2> QED
    BY <2>1
<1>3. ASSUME NEW n \in peers
      PROVE  Kept[n] <= limit[n] /\ (codec[n].pc = "getbuf" => Kept[n] < limit[n])
  <2>1. PICK k \in Nat : k = codec[n].kept /\ k <= MaxKept
    BY CodecFrame, Setting DEF CodecFacts, CodecType
  <2>2. /\ 2 + k <= most /\ 1 + k < most
    BY <1>1, <2>1, Setting
  <2>3. Kept[n] = IF codec[n].pc = "getbuf" THEN 1 + k ELSE 2 + k
    BY <2>1 DEF Kept
  <2> QED
    BY <1>2, <2>2, <2>3
<1>4. Kept \in [peers -> Nat] /\ IsFiniteSet(peers)
  BY WaitingAndKept, FlowParts
<1>5. /\ Total(Kept) <= Total(limit)
      /\ (\E n \in peers : codec[n].pc = "getbuf") => Total(Kept) < Total(limit)
  BY <1>3, <1>4, TotalAtMost
<1>6. Total(limit) = Cardinality(peers) * most /\ Total(limit) \in Nat
  BY <1>2, <1>4, TotalConstant, PairsFinite
<1> QED
  BY <1>1, <1>5, <1>6

LEMMA QuietFacts ==
  ASSUME FlowInv, SleepInv, Quiet
  PROVE  /\ Total(WriterShare) = 0
         /\ \A n \in peers : n \notin asleep => codec[n].pc = "idle" /\ codec_pool[n] = 0
                                /\ codec[n].batch = 0 /\ codec[n].hand = 0 /\ ~codec[n].open
         /\ \A n \in peers : n \in asleep => codec[n].pc = "getbuf"
         /\ reader.pc \in {"get", "read", "copy", "recv", "slot"}
         /\ reader.pc \in {"get", "copy", "slot"} <=> Reader \in asleep
         /\ asleep \in SUBSET Threads /\ woken = {}
<1>1. \A w \in Writers : write_pool[w] = <<>> /\ writer[w] = <<>>
  BY DEF Quiet, Writers
<1>2. Len(<<>>) = 0
  BY EmptySeq
<1>3. \A w \in Writers : WriterShare[w] = 0
  <2>1. \A w \in Writers : Len(write_pool[w]) = 0 /\ Len(writer[w]) = 0
    BY <1>1, <1>2
  <2>2. \A w \in Writers : WriterShare[w] = Len(write_pool[w]) + Len(writer[w])
    BY DEF WriterShare, Writers
  <2>3. 0 + 0 = 0
    OBVIOUS
  <2> SUFFICES ASSUME NEW w \in Writers PROVE WriterShare[w] = 0
    OBVIOUS
  <2>4. WriterShare[w] = 0 + 0
    BY <2>1, <2>2
  <2> QED
    BY <2>3, <2>4
<1>4. Total(WriterShare) = Cardinality(Writers) * 0
  BY <1>3, FlowParts, TotalConstant
<1>5. Cardinality(Writers) * 0 = 0
  BY FlowParts, FS_CardinalityType
<1>6. ASSUME NEW n \in peers, n \notin asleep
      PROVE  /\ codec[n].pc = "idle" /\ codec_pool[n] = 0 /\ codec[n].batch = 0
             /\ codec[n].hand = 0 /\ ~codec[n].open
  <2>1. codec[n].pc = "idle" /\ codec_pool[n] = 0 /\ ~codec[n].open
    BY <1>6 DEF Quiet
  <2> QED
    BY <2>1, CodecFrame DEF CodecFacts, CodecState
<1>7. /\ asleep \in SUBSET Threads /\ woken \in SUBSET Threads /\ asleep \cap woken = {}
      /\ \A t \in asleep \union woken : Wants(t)
  BY DEF SleepInv, SleepTyped
<1>8. ASSUME NEW n \in peers PROVE Wants(n) <=> codec[n].pc = "getbuf"
  BY SleepFacts DEF Wants
<1>9. reader.pc \in {"read", "recv"} => ~Wants(Reader)
  BY DEF Wants
<1>10. reader.pc \in {"read", "recv"} \/ Reader \in asleep
  BY DEF Quiet
<1>11. Wants(Reader) => reader.pc \in {"get", "copy", "slot"}
  BY DEF Wants
<1>12. woken = {}
  <2> SUFFICES ASSUME NEW t \in woken PROVE FALSE
    OBVIOUS
  <2>1. t \in Threads /\ t \notin asleep /\ Wants(t)
    BY <1>7
  <2>2. CASE t = Reader
    BY <1>9, <1>10, <2>1, <2>2
  <2>3. CASE t # Reader
    <3>1. t \in peers
      BY <2>1, <2>3 DEF Threads
    <3> QED
      BY <1>6, <1>8, <2>1, <3>1
  <2> QED
    BY <2>2, <2>3
<1>13. /\ reader.pc \in {"get", "read", "copy", "recv", "slot"}
       /\ reader.pc \in {"get", "copy", "slot"} <=> Reader \in asleep
  BY <1>7, <1>9, <1>10, <1>11
<1> QED
  BY <1>4, <1>5, <1>6, <1>7, <1>8, <1>12, <1>13

(* Whoever sleeps on, though no list came to several sleepers, does so in   *)
(* front of the empty pool.                                                *)
LEMMA QuietEmpty ==
  ASSUME FlowInv, SleepInv, Quiet, ~missed, asleep # {}
  PROVE  Len(available) = 0
<1>1. Cardinality(woken) = 0
  BY QuietFacts, FS_EmptySet
<1>2. Len(available) <= 0
  BY <1>1 DEF SleepInv, NoneMissed
<1> QED
  BY <1>2, SleepFacts

(* Nobody sleeps: nothing waits. *)
LEMMA AllDrained ==
  ASSUME FlowInv, SleepInv, Quiet, \A n \in peers : n \notin asleep,
         reader.pc \notin {"sort", "slot"}
  PROVE  Total(Waiting) = 0
<1>1. \A n \in peers : Waiting[n] = 0
  <2>1. \A n \in peers : received[n] = 0
    BY ReaderFrame
  <2> QED
    BY <2>1, QuietFacts DEF Waiting
<1>2. Total(Waiting) = Cardinality(peers) * 0
  BY <1>1, FlowParts, WaitingAndKept, TotalConstant
<1>3. Cardinality(peers) * 0 = 0
  BY FlowParts, FS_CardinalityType
<1> QED
  BY <1>2, <1>3

(* What the tap reader alone could lack, the pool always has.               *)
LEMMA CopyFindsBuffers ==
  ASSUME FlowInv, SleepInv, Quiet, \A n \in peers : n \notin asleep, reader.pc = "copy",
         Len(available) = 0
  PROVE  FALSE
<1>1. path = "send" /\ reader.held = 1
  BY ReaderFrame DEF ReaderState
<1>2. Total(Waiting) = 0
  BY AllDrained
<1>3. \A n \in peers : Kept[n] = 2
  <2> SUFFICES ASSUME NEW n \in peers PROVE Kept[n] = 2
    OBVIOUS
  <2>1. codec[n].pc = "idle" /\ ~codec[n].open
    BY QuietFacts
  <2>2. ~(codec[n].kept > 0)
    BY <1>1, <2>1, CodecFrame DEF CodecFacts, CodecState
  <2>3. codec[n].kept \in Nat
    BY CodecFrame, Setting DEF CodecFacts, CodecType
  <2>4. codec[n].kept = 0
    BY <2>2, <2>3
  <2> QED
    BY <2>1, <2>4 DEF Kept
<1>4. Total(Kept) = Cardinality(peers) * 2
  BY <1>3, FlowParts, WaitingAndKept, TotalConstant
<1>5. Len(available) + reader.held + Total(CodecShare) + Total(WriterShare) = PoolSize
  BY DEF FlowInv, BufferConservation
<1>6. PICK c \in Nat, x \in Nat :
        c = Cardinality(peers) /\ x = (2 + MaxKept) * Cardinality(peers)
  BY ReaderFrame, PoolSuffices
<1>7. 2 * c <= x /\ PoolSize > x + Slots
  BY <1>6, ReaderFrame, PoolSuffices
<1>8. Total(CodecShare) = c * 2
  <2>1. c * 2 \in Nat /\ 0 + c * 2 = c * 2
    OBVIOUS
  <2> QED
    BY <1>2, <1>4, <1>6, <2>1, WaitingAndKept
<1>9. 0 + 1 + c * 2 + 0 = PoolSize
  BY <1>1, <1>5, <1>8, QuietFacts
<1> QED
  BY <1>7, <1>9, Setting

LEMMA QuietDrained ==
  ASSUME FlowInv, SleepInv, Quiet, ~missed, ~(Backlog = 0 /\ asleep = {})
  PROVE  Backlog > PoolSize - Reserve
<1>1. PICK own \in Nat, h \in Nat, t \in Nat, k \in Nat, most \in Nat :
        /\ own = (IF path = "send" THEN 1 ELSE Slots) /\ h = reader.held
        /\ t = Total(Waiting) /\ k = Total(Kept)
        /\ most = Cardinality(peers) * (2 + MaxKept)
  <2>1. Cardinality(peers) * (2 + MaxKept) \in Nat
    BY KeptAtMost
  <2> QED
    BY <2>1, FlowParts, WaitingAndKept, Setting
<1>2. h <= own /\ (reader.pc \in {"get", "slot"} => h < own)
  <2>1. \/ path = "send" /\ (reader.held = 1 \/ (reader.pc = "get" /\ reader.held = 0))
        \/ path = "receive" /\ reader.held = Slots /\ reader.pc \in {"recv", "sort"}
        \/ path = "receive" /\ reader.held = Slots - 1 /\ reader.pc = "slot"
    BY ReaderFrame DEF ReaderState
  <2>2. path = "send" => reader.pc # "slot"
    BY ReaderFrame DEF ReaderState
  <2>3. CASE path = "send"
    <3>1. own = 1 /\ (h = 1 \/ (reader.pc = "get" /\ h = 0))
      BY <1>1, <2>1, <2>3
    <3>2. reader.pc = "get" => h = 0
      BY <1>1, <2>3, ReaderFrame DEF ReaderState
    <3> QED
      BY <2>2, <2>3, <3>1, <3>2
  <2>4. CASE path = "receive"
    <3>1. /\ own = Slots /\ (h = Slots \/ h = Slots - 1)
          /\ reader.pc \in {"get", "slot"} => h = Slots - 1
      BY <1>1, <2>4, ReaderFrame DEF ReaderState
    <3> QED
      BY <3>1, Setting
  <2> QED
    BY <2>1, <2>3, <2>4
<1>3. k <= most /\ ((\E n \in peers : codec[n].pc = "getbuf") => k < most)
  BY <1>1, KeptAtMost
<1>4. CASE asleep # {}
  <2>1. Len(available) = 0
    BY <1>4, QuietEmpty
  <2>2. 0 + h + (t + k) + 0 = PoolSize
    BY <1>1, <2>1, WaitingAndKept, QuietFacts DEF FlowInv, BufferConservation
  <2>3. h + k < own + most
    <3>1. CASE \E n \in peers : n \in asleep
      <4>1. k < most
        BY <1>3, <3>1, QuietFacts
      <4> QED
        BY <1>2, <4>1
    <3>2. CASE ~\E n \in peers : n \in asleep
      <4>1. Reader \in asleep
        BY <1>4, <3>2, QuietFacts DEF Threads
      <4>2. reader.pc \in {"get", "slot"}
        BY <2>1, <3>2, <4>1, QuietFacts, CopyFindsBuffers
      <4>3. h < own
        BY <1>2, <4>2
      <4> QED
        BY <1>3, <4>3
    <3> QED
      BY <3>1, <3>2
  <2>4. t > PoolSize - (most + own)
    BY <2>2, <2>3
  <2>5. Reserve = most + own
    BY <1>1 DEF Reserve
  <2>6. Backlog = t
    BY <1>1, WaitingAndKept
  <2> QED
    BY <2>4, <2>5, <2>6
<1>5. CASE asleep = {}
  <2>1. reader.pc \notin {"sort", "slot"}
    BY <1>5, QuietFacts
  <2>2. Backlog = 0
    BY <1>5, <2>1, AllDrained, WaitingAndKept
  <2> QED
    BY <1>5, <2>2
<1> QED
  BY <1>4, <1>5

(* All threads come to wait for each other (encoder.cpp:64, decoder.cpp:37, *)
(* packet_switch.cpp:207, :261, :452) only when more frames or packets have *)
(* piled up than the pool has buffers besides those the threads own, or     *)
(* when a list of buffers was pushed while several of them slept and woke   *)
(* up one (buffer_pool.hpp:191).                                            *)
THEOREM DrainsUnlessFlooded == Spec => []DrainedOrFlooded
<1>1. FlowInv /\ SleepInv => DrainedOrFlooded
  BY QuietDrained DEF DrainedOrFlooded
<1> QED
  BY <1>1, AlwaysFlow, AlwaysSleep, PTL

-----------------------------------------------------------------------------
(* Every codec keeps to CodecBuffers: what a step does to the buffers that  *)
(* it has and to those it handed over, and whether it waits.               *)
Waits(n) == codec[n].pc = "getbuf"

Moves(h, hh, q, qq, w, ww) ==
  \/ hh = h /\ qq = q /\ w = ww
  \/ hh \in 2..(h + 1) /\ qq = q /\ ~w /\ ~ww
  \/ hh = h - 1 /\ h > 1 /\ qq = q + 1 /\ ~w /\ ww
  \/ hh = h + 1 /\ h > 0 /\ qq = q /\ w /\ ~ww
  \/ hh = h /\ qq < q /\ w = ww

(* The same with the buffers elsewhere. *)
Steps(o, oo, h, hh, q, qq, w, ww) ==
  \/ o = oo /\ hh = h /\ qq = q /\ w = ww
  \/ ~w /\ o > 0 /\ hh \in 2..(h + 1) /\ oo + hh = o + h /\ qq = q /\ ww = w
  \/ ~w /\ hh \in 2..h /\ oo + hh = o + h /\ qq = q /\ ww = w
  \/ ~w /\ hh \in (2 - 1)..(h - 1) /\ oo + hh + 1 = o + h /\ qq = q + 1 /\ ww = TRUE
  \/ w /\ o > 0 /\ hh \in 2..(h + 1) /\ oo + hh = o + h /\ ww = FALSE /\ qq = q
  \/ qq \in 0..(q - 1) /\ oo + qq = o + q /\ hh = h /\ ww = w

ContractStep(n) == UNCHANGED C(n)!vars \/ C(n)!Next

LEMMA StepsKeepContract ==
  ASSUME NEW n,
         Steps(PoolSize - HeldBy(n) - Handed(n), (PoolSize - HeldBy(n) - Handed(n))', HeldBy(n), HeldBy(n)',
               Handed(n), Handed(n)', Waits(n), Waits(n)')
  PROVE  ContractStep(n)
BY DEF Steps, ContractStep, Waits, C!vars, C!Next, C!Take, C!Release, C!Emit, C!GetBuffer,
   C!Write, C!Own

(* Entries of a node in a queue. *)
LEMMA FromType ==
  ASSUME NEW q \in Seq(EntryType), NEW n
  PROVE  From(q, n) \in Nat /\ From(q, n) <= Len(q)
<1>1. DOMAIN q = 1..Len(q) /\ Len(q) \in Nat
  BY LenProperties
<1>2. IsFiniteSet(1..Len(q)) /\ Cardinality(1..Len(q)) = Len(q)
  BY <1>1, FS_Interval
<1>3. {i \in DOMAIN q : q[i].from = n} \subseteq 1..Len(q)
  BY <1>1
<1> QED
  BY <1>2, <1>3, FS_Subset, FS_CardinalityType DEF From

LEMMA FromSame ==
  ASSUME NEW q, NEW r, DOMAIN q = DOMAIN r, \A i \in DOMAIN r : q[i].from = r[i].from, NEW n
  PROVE  From(q, n) = From(r, n)
<1>1. {i \in DOMAIN q : q[i].from = n} = {i \in DOMAIN r : r[i].from = n}
  OBVIOUS
<1> QED
  BY <1>1 DEF From

LEMMA FromEmpty == \A n : From(<<>>, n) = 0
<1>1. \A n : {i \in DOMAIN <<>> : <<>>[i].from = n} = {}
  OBVIOUS
<1> QED
  BY <1>1, FS_EmptySet DEF From

LEMMA FromAppend ==
  ASSUME NEW q \in Seq(EntryType), NEW e \in EntryType, NEW n
  PROVE  From(Append(q, e), n) = From(q, n) + (IF e.from = n THEN 1 ELSE 0)
<1>1. PICK r : r = Append(q, e)
  OBVIOUS
<1>2. /\ Len(q) \in Nat /\ DOMAIN q = 1..Len(q) /\ DOMAIN r = 1..(Len(q) + 1)
      /\ r[Len(q) + 1] = e /\ \A i \in 1..Len(q) : r[i] = q[i]
  BY <1>1, AppendProperties, LenProperties
<1>3. PICK top \in Nat : top = Len(q) + 1 /\ top \notin DOMAIN q /\ DOMAIN r = DOMAIN q \union {top}
                         /\ r[top] = e /\ \A i \in DOMAIN q : r[i] = q[i]
  BY <1>2
<1>4. PICK A : A = {i \in DOMAIN q : q[i].from = n}
  OBVIOUS
<1>5. IsFiniteSet(A) /\ Cardinality(A) \in Nat
  <2>1. IsFiniteSet(1..Len(q)) /\ A \subseteq 1..Len(q)
    BY <1>2, <1>4, FS_Interval
  <2> QED
    BY <2>1, FS_Subset, FS_CardinalityType
<1>6. {i \in DOMAIN r : r[i].from = n} = IF e.from = n THEN A \union {top} ELSE A
  BY <1>3, <1>4
<1>7. Cardinality(A \union {top}) = Cardinality(A) + 1
  BY <1>3, <1>4, <1>5, FS_AddElement
<1>8. From(r, n) = Cardinality(IF e.from = n THEN A \union {top} ELSE A)
  BY <1>6 DEF From
<1>9. From(q, n) = Cardinality(A)
  BY <1>4 DEF From
<1>10. CASE e.from = n
  BY <1>1, <1>7, <1>8, <1>9, <1>10
<1>11. CASE e.from # n
  BY <1>1, <1>5, <1>8, <1>9, <1>11
<1> QED
  BY <1>10, <1>11

Within ==
  \A n \in peers : /\ HeldBy(n) \in Nat /\ HeldBy(n) > 0 /\ Handed(n) \in Nat
                   /\ HeldBy(n) + Handed(n) <= PoolSize

LEMMA WithinPool == FlowInv => Within
<1> SUFFICES ASSUME FlowInv, NEW n \in peers
             PROVE  /\ HeldBy(n) \in Nat /\ HeldBy(n) > 0 /\ Handed(n) \in Nat
                    /\ HeldBy(n) + Handed(n) <= PoolSize
  BY DEF Within
<1>c. CodecFacts(n)
  BY CodecFrame
<1> USE <1>c DEF CodecFacts
<1>1. PICK h \in Nat, k \in Nat : h = codec[n].hand /\ k = codec[n].kept
  BY Setting DEF CodecType
<1>2. HeldBy(n) \in Nat /\ HeldBy(n) > 0
  <2>1. HeldBy(n) = 1 + h + k \/ HeldBy(n) = 2 + h + k
    BY <1>1 DEF HeldBy
  <2> QED
    BY <2>1
<1>3. PICK w \in Writers : w = WriterOf(n)
  OBVIOUS
<1>4. PICK i \in Nat, j \in Nat : i = From(write_pool[w], n) /\ j = From(writer[w], n)
  BY FromType
<1>5. PICK p \in Nat, q \in Nat : p = Len(write_pool[w]) /\ q = Len(writer[w])
  BY LenProperties
<1>6. i <= p /\ j <= q
  BY <1>4, <1>5, FromType
<1>7. WriterShare[w] = p + q /\ Handed(n) = i + j
  BY <1>3, <1>4, <1>5 DEF WriterShare, Handed, Writers
<1>8. PICK a \in Nat, r \in Nat, c \in Nat, s \in Nat, x \in Nat, y \in Nat, hb \in Nat :
        /\ a = Len(available) /\ r = reader.held /\ c = Total(CodecShare)
        /\ s = Total(WriterShare) /\ x = CodecShare[n] /\ y = WriterShare[w] /\ hb = HeldBy(n)
  BY <1>2, FlowParts
<1>9. x <= c /\ y <= s
  BY <1>8, FlowParts, TotalAt
<1>10. a + r + c + s = PoolSize
  BY <1>8 DEF FlowInv, BufferConservation
<1>11. hb <= x
  <2>1. PICK v \in Nat, b \in Nat, d \in Nat :
          v = received[n] /\ b = codec_pool[n] /\ d = codec[n].batch
    BY DEF CodecType, FlowInv, Typed, ReaderTyped
  <2>2. x = v + b + d + hb
    BY <1>8, <2>1 DEF CodecShare
  <2> QED
    BY <2>2
<1>12. hb + (i + j) <= PoolSize
  <2>1. y = p + q
    BY <1>7, <1>8
  <2> QED
    BY <1>6, <1>9, <1>10, <1>11, <2>1
<1> QED
  BY <1>2, <1>7, <1>8, <1>12

LEMMA WithinPoolNext == FlowInv' => Within'
BY WithinPool, PTL

LEMMA UnmarkedFrom ==
  ASSUME SettingTyped, NEW q \in Seq(EntryType), NEW mark, NEW n
  PROVE  From(UnmarkQueue(q, mark), n) = From(q, n)
<1>1. PICK r : r = UnmarkQueue(q, mark)
  OBVIOUS
<1>2. DOMAIN r = DOMAIN q /\ \A i \in DOMAIN q : r[i].from = q[i].from
  BY <1>1, UnmarkQueueFacts
<1> QED
  BY <1>1, <1>2, FromSame

HandedAt(n, w) == From(write_pool[w], n) + From(writer[w], n)

LEMMA HandedThere ==
  ASSUME FlowInv, UNCHANGED setting, NEW n \in peers
  PROVE  /\ Handed(n) = HandedAt(n, WriterOf(n))
         /\ Handed(n)' = From(write_pool'[WriterOf(n)], n) + From(writer'[WriterOf(n)], n)
         /\ From(write_pool[WriterOf(n)], n) \in Nat /\ From(writer[WriterOf(n)], n) \in Nat
<1>1. WriterOf(n)' = WriterOf(n)
  BY DEF setting, WriterOf
<1>2. PICK p \in Seq(EntryType), q \in Seq(EntryType) :
        p = write_pool[WriterOf(n)] /\ q = writer[WriterOf(n)]
  BY CodecFrame DEF CodecFacts
<1>3. From(p, n) \in Nat /\ From(q, n) \in Nat
  BY FromType
<1> QED
  BY <1>1, <1>2, <1>3 DEF Handed, HandedAt, From

LEMMA HandOverHands ==
  ASSUME FlowInv, UNCHANGED setting, NEW n \in peers, NEW m \in peers,
         NEW mark, HandOver(n, mark), mark \in {NoMark, n} \cap MarkSet
  PROVE  Handed(m)' = Handed(m) + (IF m = n THEN 1 ELSE 0)
<1>c. \A p \in peers : CodecFacts(p)
  BY CodecFrame
<1> USE <1>c DEF CodecFacts
<1>1. PICK w \in Writers, v \in Writers : w = WriterOf(n) /\ v = WriterOf(m)
  OBVIOUS
<1>2. PICK p \in Seq(EntryType), q \in Seq(EntryType) : p = write_pool[w] /\ q = writer[w]
  OBVIOUS
<1>3. PICK e \in EntryType : e = [from |-> n, mark |-> mark]
  BY DEF EntryType
<1>4. PICK pp \in Seq(EntryType), qq \in Seq(EntryType) :
        pp = UnmarkQueue(p, mark) /\ qq = UnmarkQueue(q, mark)
  BY UnmarkQueueFacts
<1>5. /\ write_pool' = [write_pool EXCEPT ![w] = Append(pp, e)]
      /\ writer' = [writer EXCEPT ![w] = qq]
  BY <1>1, <1>2, <1>3, <1>4 DEF HandOver
<1>6. PICK i \in Nat, j \in Nat : i = From(p, m) /\ j = From(q, m)
  BY FromType
<1>7. From(pp, m) = i /\ From(qq, m) = j
  <2>1. SettingTyped
    BY DEF FlowInv, Typed
  <2> QED
    BY <1>4, <1>6, <2>1, UnmarkedFrom
<1>8. From(Append(pp, e), m) = i + (IF n = m THEN 1 ELSE 0)
  <2>1. From(Append(pp, e), m) = From(pp, m) + (IF e.from = m THEN 1 ELSE 0)
    BY FromAppend
  <2>2. e.from = n /\ From(pp, m) = i
    BY <1>3, <1>7
  <2> QED
    BY <2>1, <2>2
<1>9. CASE v = w
  <2>1. Handed(m) = i + j
    BY <1>1, <1>2, <1>6, <1>9, HandedThere DEF HandedAt
  <2>2. Handed(m)' = From(Append(pp, e), m) + From(qq, m)
    BY <1>1, <1>5, <1>9, HandedThere
  <2>3. i + (IF n = m THEN 1 ELSE 0) + j = i + j + (IF m = n THEN 1 ELSE 0)
    OBVIOUS
  <2> QED
    BY <1>7, <1>8, <2>1, <2>2, <2>3
<1>10. CASE v # w
  <2>1. m # n
    BY <1>1, <1>10
  <2>2. write_pool'[v] = write_pool[v] /\ writer'[v] = writer[v]
    BY <1>5, <1>10
  <2>3. /\ Handed(m) = From(write_pool[v], m) + From(writer[v], m)
        /\ Handed(m)' = From(write_pool'[v], m) + From(writer'[v], m)
    BY <1>1, HandedThere DEF HandedAt
  <2>4. From(write_pool[v], m) \in Nat /\ From(writer[v], m) \in Nat
    BY <1>1, HandedThere
  <2> QED
    BY <2>1, <2>2, <2>3, <2>4
<1> QED
  BY <1>9, <1>10

LEMMA FlushHands ==
  ASSUME FlowInv, UNCHANGED setting, NEW n \in peers, NEW m \in peers,
         NEW others, FlushInflight(n, others)
  PROVE  Handed(m)' = Handed(m)
<1>c. \A p \in peers : CodecFacts(p)
  BY CodecFrame
<1> USE <1>c DEF CodecFacts
<1>1. PICK v \in Writers : v = WriterOf(m)
  OBVIOUS
<1>2. PICK p \in Seq(EntryType), q \in Seq(EntryType) : p = write_pool[v] /\ q = writer[v]
  OBVIOUS
<1>3. write_pool'[v] = UnmarkQueue(p, n) /\ writer'[v] = UnmarkQueue(q, n)
  BY <1>2 DEF FlushInflight
<1>4. From(write_pool'[v], m) = From(p, m) /\ From(writer'[v], m) = From(q, m)
  BY <1>3, UnmarkedFrom
<1> QED
  BY <1>1, <1>2, <1>4, HandedThere DEF HandedAt

LEMMA WriterHands ==
  ASSUME FlowInv, NEW m \in peers, NEW w \in Writers, TakeWrites(w) \/ ReturnWritten(w)
  PROVE  Handed(m)' \in Nat /\ Handed(m)' <= Handed(m)
<1>c. \A p \in peers : CodecFacts(p)
  BY CodecFrame
<1> USE <1>c DEF CodecFacts
<1>0. UNCHANGED setting
  BY DEF TakeWrites, ReturnWritten
<1>1. PICK v \in Writers : v = WriterOf(m)
  OBVIOUS
<1>2. PICK p \in Seq(EntryType), q \in Seq(EntryType) : p = write_pool[v] /\ q = writer[v]
  OBVIOUS
<1>3. PICK i \in Nat, j \in Nat : i = From(p, m) /\ j = From(q, m)
  BY FromType
<1>4. Handed(m) = i + j
  BY <1>0, <1>1, <1>2, <1>3, HandedThere DEF HandedAt
<1>5. Handed(m)' = From(write_pool'[v], m) + From(writer'[v], m)
  BY <1>0, <1>1, HandedThere
<1>6. CASE v # w
  <2>1. write_pool'[v] = p /\ writer'[v] = q
    BY <1>2, <1>6 DEF TakeWrites, ReturnWritten
  <2> QED
    BY <1>3, <1>4, <1>5, <2>1
<1>7. CASE v = w /\ TakeWrites(w)
  <2>1. write_pool'[v] = <<>> /\ writer'[v] = p /\ q = <<>>
    BY <1>2, <1>7 DEF TakeWrites
  <2>2. From(<<>>, m) = 0
    BY FromEmpty
  <2>3. j = 0 /\ Handed(m)' = 0 + i
    BY <1>3, <1>5, <2>1, <2>2
  <2> QED
    BY <1>4, <2>3
<1>8. CASE v = w /\ ReturnWritten(w)
  <2>1. write_pool'[v] = p /\ writer'[v] = <<>>
    BY <1>2, <1>8 DEF ReturnWritten
  <2>2. Handed(m)' = i + 0
    BY <1>3, <1>5, <2>1, FromEmpty
  <2> QED
    BY <1>4, <2>2
<1> QED
  BY <1>6, <1>7, <1>8

CodecMoves(n) == Moves(HeldBy(n), HeldBy(n)', Handed(n), Handed(n)', Waits(n), Waits(n)')

LEMMA OthersMove ==
  ASSUME NEW n, codec'[n] = codec[n], Handed(n)' = Handed(n)
  PROVE  CodecMoves(n)
<1>1. HeldBy(n)' = HeldBy(n) /\ Waits(n)' = Waits(n)
  BY DEF HeldBy, Waits
<1> QED
  BY <1>1 DEF CodecMoves, Moves

LEMMA SameHands ==
  ASSUME FlowInv, UNCHANGED <<setting, writing>>, NEW n \in peers
  PROVE  Handed(n)' = Handed(n)
BY HandedThere DEF writing, HandedAt

LEMMA OneMore ==
  ASSUME NEW h \in Nat, NEW k \in Nat, NEW hh \in Nat, NEW kk \in Nat, hh <= 1, kk <= k + h
  PROVE  2 + hh + kk \in 2..((2 + h + k) + 1)
OBVIOUS

(* A call ends and the next one begins: of what the call had, the codec     *)
(* keeps some, and it may take one buffer more.                            *)
LEMMA TurnMoves ==
  ASSUME FlowInv, NEW n \in peers, NEW c \in CodecType, codec[n].pc \in {"idle", "call"},
         codec' = [codec EXCEPT ![n] = NextCall(c)],
         c.kept <= codec[n].kept + codec[n].hand, Handed(n)' = Handed(n)
  PROVE  CodecMoves(n) /\ \A m \in peers : m # n => codec'[m] = codec[m]
<1>c. CodecFacts(n)
  BY CodecFrame
<1> USE <1>c DEF CodecFacts
<1>1. PICK d \in CodecType : d = NextCall(c) /\ d.kept = c.kept /\ d.pc # "getbuf"
  BY NextCallFacts
<1>2. codec'[n] = d /\ \A m \in peers : m # n => codec'[m] = codec[m]
  BY <1>1, ReaderFrame
<1>3. PICK h \in Nat, k \in Nat, hh \in Nat, kk \in Nat :
        /\ h = codec[n].hand /\ k = codec[n].kept /\ hh = d.hand /\ kk = d.kept /\ hh <= 1
  BY Setting DEF CodecType
<1>4. HeldBy(n) = 2 + h + k /\ ~Waits(n)
  <2>1. HeldBy(n) = 2 - 0 + h + k
    BY <1>3 DEF HeldBy
  <2> QED
    BY <2>1 DEF Waits
<1>5. HeldBy(n)' = 2 + hh + kk /\ ~Waits(n)'
  <2>1. HeldBy(n)' = 2 - 0 + hh + kk
    BY <1>1, <1>2, <1>3 DEF HeldBy
  <2> QED
    BY <1>1, <1>2, <2>1 DEF Waits
<1>6. kk <= k + h
  BY <1>1, <1>3
<1>7. 2 + hh + kk \in 2..((2 + h + k) + 1)
  BY <1>3, <1>6, OneMore, Zenon
<1> QED
  BY <1>2, <1>4, <1>5, <1>7 DEF CodecMoves, Moves

(* Buffers go back within a call, or at the end of a flush.                 *)
LEMMA ReleaseMoves ==
  ASSUME FlowInv, NEW n \in peers, EndFlush(n) \/ FlushKept(n) \/ FlushFrame(n),
         Handed(n)' = Handed(n)
  PROVE  CodecMoves(n) /\ \A m \in peers : m # n => codec'[m] = codec[m]
<1>c. CodecFacts(n)
  BY CodecFrame
<1> USE <1>c DEF CodecFacts
<1>1. /\ codec[n].pc # "getbuf" /\ codec'[n].pc # "getbuf"
      /\ codec'[n].hand \in {0, 1} /\ codec'[n].kept = 0
      /\ \A m \in peers : m # n => codec'[m] = codec[m]
  <2>1. CASE EndFlush(n)
    BY <2>1, ReaderFrame DEF EndFlush, CodecType
  <2>2. CASE FlushKept(n)
    BY <2>2, ReaderFrame DEF FlushKept, CodecType
  <2>3. CASE FlushFrame(n)
    BY <2>3, ReaderFrame DEF FlushFrame, CodecType
  <2> QED
    BY <2>1, <2>2, <2>3
<1>2. PICK h \in Nat, k \in Nat, hh \in Nat :
        h = codec[n].hand /\ k = codec[n].kept /\ hh = codec'[n].hand /\ hh <= 1
  <2>1. codec[n].hand \in Nat /\ codec[n].kept \in Nat
    BY Setting DEF CodecType
  <2>2. codec'[n].hand \in Nat /\ codec'[n].hand <= 1
    BY <1>1
  <2> QED
    BY <2>1, <2>2
<1>3. HeldBy(n) = 2 + h + k /\ ~Waits(n)
  <2>1. HeldBy(n) = 2 - 0 + h + k
    BY <1>1, <1>2 DEF HeldBy
  <2> QED
    BY <1>1, <2>1 DEF Waits
<1>4. HeldBy(n)' = 2 + hh /\ ~Waits(n)'
  <2>1. HeldBy(n)' = 2 - 0 + hh + 0
    BY <1>1, <1>2 DEF HeldBy
  <2> QED
    BY <1>1, <2>1 DEF Waits
<1>5. 2 + hh \in 2..((2 + h + k) + 1)
  <2>1. 2 + hh + 0 \in 2..((2 + h + k) + 1)
    <3>1. 0 <= k + h
      OBVIOUS
    <3> QED
      BY <1>2, <3>1, OneMore
  <2> QED
    BY <2>1
<1> QED
  BY <1>1, <1>3, <1>4, <1>5 DEF CodecMoves, Moves

LEMMA ActionMoves ==
  ASSUME FlowInv, NEW n \in peers, Codec(n)
  PROVE  /\ CodecMoves(n)
         /\ UNCHANGED setting
         /\ \A m \in peers : m # n => codec'[m] = codec[m] /\ Handed(m)' = Handed(m)
<1>c. \A p \in peers : CodecFacts(p)
  BY CodecFrame
<1> USE <1>c DEF CodecFacts
<1>1. PICK h \in Nat, k \in Nat : h = codec[n].hand /\ k = codec[n].kept
  BY Setting DEF CodecType
<1>2. HeldBy(n) = IF Waits(n) THEN 1 + h + k ELSE 2 + h + k
  BY <1>1 DEF HeldBy, Waits
<1>3. \A m \in peers : Handed(m) \in Nat
  BY WithinPool DEF Within
<1>4. CASE TakeBatch(n) \/ KeepInput(n) \/ ReturnFrame(n)
  <2>1. UNCHANGED <<setting, writing>>
    BY <1>4 DEF TakeBatch, KeepInput, ReturnFrame
  <2>2. \A m \in peers : Handed(m)' = Handed(m)
    BY <2>1, SameHands
  <2>3. \E c \in CodecType : /\ codec' = [codec EXCEPT ![n] = NextCall(c)]
                             /\ codec[n].pc \in {"idle", "call"}
                             /\ c.kept <= codec[n].kept + codec[n].hand
    <3>1. CASE TakeBatch(n)
      <4>1. PICK c : c = [codec[n] EXCEPT !.batch = codec_pool[n]]
        OBVIOUS
      <4>2. codec' = [codec EXCEPT ![n] = NextCall(c)] /\ codec[n].pc = "idle"
        BY <3>1, <4>1 DEF TakeBatch
      <4>3. c \in CodecType /\ c.kept = k
        BY <1>1, <4>1 DEF CodecType
      <4>4. c.kept <= codec[n].kept + codec[n].hand
        BY <1>1, <4>3
      <4> QED
        BY <4>2, <4>3, <4>4
    <3>2. CASE KeepInput(n)
      <4>1. PICK c : c = [codec[n] EXCEPT !.kept = codec[n].kept + 1, !.open = path = "send"]
        OBVIOUS
      <4>2. codec' = [codec EXCEPT ![n] = NextCall(c)]
        BY <3>2, <4>1 DEF KeepInput
      <4>3. codec[n].pc = "call" /\ h = 1 /\ k + 1 \in 0..MaxKept
        BY <1>1, <3>2, Setting DEF KeepInput
      <4>4. c \in CodecType /\ c.kept = k + 1
        BY <1>1, <4>1, <4>3 DEF CodecType
      <4>5. c.kept <= codec[n].kept + codec[n].hand
        BY <1>1, <4>3, <4>4
      <4> QED
        BY <4>2, <4>3, <4>4, <4>5
    <3>3. CASE ReturnFrame(n)
      <4>1. PICK open \in BOOLEAN :
              codec' = [codec EXCEPT ![n] = NextCall([codec[n] EXCEPT !.open = open])]
        BY <3>3 DEF ReturnFrame
      <4>2. PICK c : c = [codec[n] EXCEPT !.open = open]
        OBVIOUS
      <4>3. c \in CodecType /\ c.kept = k
        BY <1>1, <4>2 DEF CodecType
      <4>4. codec[n].pc = "call"
        BY <3>3 DEF ReturnFrame
      <4>5. c.kept <= codec[n].kept + codec[n].hand
        BY <1>1, <4>3
      <4>6. codec' = [codec EXCEPT ![n] = NextCall(c)]
        BY <4>1, <4>2
      <4> QED
        BY <4>3, <4>4, <4>5, <4>6
    <3> QED
      BY <1>4, <3>1, <3>2, <3>3
  <2> QED
    BY <2>1, <2>2, <2>3, TurnMoves
<1>5. CASE ReturnPacket(n)
  <2>1. FlushInflight(n, 1) /\ UNCHANGED setting /\ codec[n].pc = "call"
    BY <1>5 DEF ReturnPacket
  <2>2. \A m \in peers : Handed(m)' = Handed(m)
    BY <2>1, FlushHands
  <2>3. PICK c : c = [codec[n] EXCEPT !.kept = 0]
    OBVIOUS
  <2>4. codec' = [codec EXCEPT ![n] = NextCall(c)]
    BY <1>5, <2>3 DEF ReturnPacket
  <2>5. c \in CodecType /\ c.kept = 0
    <3>1. 0 \in 0..MaxKept
      BY Setting
    <3> QED
      BY <2>3, <3>1 DEF CodecType
  <2>6. c.kept <= codec[n].kept + codec[n].hand
    BY <1>1, <2>5
  <2> QED
    BY <2>1, <2>2, <2>4, <2>5, <2>6, TurnMoves
<1>6. CASE Emit(n) \/ Timeout(n)
  <2>0. UNCHANGED setting
    BY <1>6 DEF Emit, Timeout
  <2>1. PICK mark \in MarkSet : mark \in {NoMark, n} /\ HandOver(n, mark)
    BY <1>6, EmitMarks
  <2>2. codec[n].pc # "getbuf"
    BY <1>6 DEF Emit, Timeout
  <2>3. /\ ~Waits(n) /\ codec'[n].pc = "getbuf"
        /\ codec'[n].hand = h /\ codec'[n].kept = k
        /\ \A m \in peers : m # n => codec'[m] = codec[m]
    BY <1>1, <2>1, <2>2, ReaderFrame DEF HandOver, CodecType, Waits
  <2>4. /\ HeldBy(n)' = 1 + h + k /\ Waits(n)' = TRUE
        /\ HeldBy(n) = 2 + h + k /\ Waits(n) = FALSE
    BY <1>2, <2>3 DEF HeldBy, Waits
  <2>5. Handed(n)' = Handed(n) + 1
    BY <2>0, <2>1, HandOverHands
  <2>6. \A m \in peers : m # n => Handed(m)' = Handed(m)
    BY <1>3, <2>0, <2>1, HandOverHands
  <2>7. Moves(2 + h + k, 1 + h + k, Handed(n), Handed(n) + 1, FALSE, TRUE)
    <3>1. 1 + h + k = (2 + h + k) - 1 /\ 2 + h + k > 1
      OBVIOUS
    <3> QED
      BY <3>1 DEF Moves
  <2> QED
    BY <2>0, <2>3, <2>4, <2>5, <2>6, <2>7 DEF CodecMoves
<1>7. CASE GetTxBuffer(n)
  <2>1. UNCHANGED <<setting, writing>>
    BY <1>7 DEF GetTxBuffer
  <2>2. /\ Waits(n) /\ codec'[n].pc # "getbuf"
        /\ codec'[n].hand = h /\ codec'[n].kept = k
        /\ \A m \in peers : m # n => codec'[m] = codec[m]
    BY <1>1, <1>7, ReaderFrame DEF GetTxBuffer, CodecType, Waits
  <2>3. /\ HeldBy(n)' = 2 + h + k /\ Waits(n)' = FALSE
        /\ HeldBy(n) = 1 + h + k /\ Waits(n) = TRUE
    BY <1>2, <2>2 DEF HeldBy, Waits
  <2>4. Moves(1 + h + k, 2 + h + k, Handed(n), Handed(n), TRUE, FALSE)
    <3>1. 2 + h + k = (1 + h + k) + 1 /\ 1 + h + k > 0
      OBVIOUS
    <3> QED
      BY <3>1 DEF Moves
  <2> QED
    BY <2>1, <2>2, <2>3, <2>4, SameHands DEF CodecMoves
<1>8. CASE EndFlush(n) \/ FlushKept(n) \/ FlushFrame(n)
  <2>1. UNCHANGED setting /\ (FlushInflight(n, 0) \/ FlushInflight(n, 1))
    BY <1>8 DEF EndFlush, FlushKept, FlushFrame
  <2>2. \A m \in peers : Handed(m)' = Handed(m)
    BY <2>1, FlushHands
  <2> QED
    BY <1>8, <2>1, <2>2, ReleaseMoves
<1> QED
  BY <1>4, <1>5, <1>6, <1>7, <1>8 DEF Codec

LEMMA NextMoves ==
  ASSUME FlowInv, [Next]_vars, NEW m \in peers
  PROVE  CodecMoves(m)
<1>1. CASE UNCHANGED <<setting, codec, writing>>
  BY <1>1, SameHands, OthersMove
<1>2. CASE \E n \in peers : Codec(n)
  BY <1>2, ActionMoves, OthersMove
<1>3. ASSUME NEW w \in Writers, TakeWrites(w) \/ ReturnWritten(w)
      PROVE  CodecMoves(m)
  <2>1. HeldBy(m)' = HeldBy(m) /\ Waits(m)' = Waits(m)
    BY <1>3 DEF TakeWrites, ReturnWritten, coding, HeldBy, Waits
  <2>2. Handed(m) \in Nat /\ Handed(m)' \in Nat /\ Handed(m)' <= Handed(m)
    BY <1>3, WriterHands, WithinPool DEF Within
  <2>3. PICK q \in Nat, qq \in Nat : q = Handed(m) /\ qq = Handed(m)' /\ qq <= q
    BY <2>2
  <2>4. qq = q \/ qq < q
    BY <2>3
  <2> QED
    BY <2>1, <2>3, <2>4 DEF CodecMoves, Moves
<1>4. UNCHANGED <<setting, codec, writing>> \/ (\E n \in peers : Codec(n))
        \/ (\E w \in Writers : TakeWrites(w) \/ ReturnWritten(w))
  BY DEF vars, coding, Next, TapReader, GetFrameBuffer, CopyFrame, PassFrame, ReadUnicast,
     ReadGroup, Encode, SocketReader, RecvMmsg, SortPacket, FillSlot, PushReceived, Writers, Sleep,
     PopNothing
<1> QED
  BY <1>1, <1>2, <1>3, <1>4

LEMMA SettingFixed == [Next]_vars => UNCHANGED setting
<1> SUFFICES ASSUME [Next]_vars PROVE UNCHANGED setting
  OBVIOUS
<1>1. CASE TapReader \/ ReadUnicast \/ ReadGroup
  BY <1>1 DEF TapReader, GetFrameBuffer, CopyFrame, PassFrame, ReadUnicast, ReadGroup
<1>2. CASE SocketReader \/ RecvMmsg
  BY <1>2 DEF SocketReader, RecvMmsg, SortPacket, FillSlot, PushReceived
<1>3. ASSUME NEW n \in peers, Codec(n) PROVE UNCHANGED setting
  BY <1>3 DEF Codec, TakeBatch, Emit, Timeout, GetTxBuffer, EndFlush, FlushKept, FlushFrame,
     KeepInput, ReturnPacket, ReturnFrame
<1>4. ASSUME NEW w \in Writers, TakeWrites(w) \/ ReturnWritten(w) PROVE UNCHANGED setting
  BY <1>4 DEF TakeWrites, ReturnWritten
<1>5. ASSUME NEW t, Sleep(t) \/ PopNothing(t) PROVE UNCHANGED setting
  BY <1>5 DEF Sleep, PopNothing
<1> QED
  BY <1>1, <1>2, <1>3, <1>4, <1>5 DEF Next, Writers, vars, setting

LEMMA NextKeepsContract ==
  ASSUME FlowInv, FlowInv', [Next]_vars, NEW n \in peers, n \in peers'
  PROVE  ContractStep(n)
<1>1. PICK h \in Nat, q \in Nat : h = HeldBy(n) /\ h > 0 /\ q = Handed(n) /\ h + q <= PoolSize
  BY WithinPool DEF Within
<1>2. PICK hh \in Nat, qq \in Nat : hh = HeldBy(n)' /\ qq = Handed(n)' /\ hh + qq <= PoolSize
  BY WithinPoolNext DEF Within
<1>3. PICK w \in BOOLEAN, ww \in BOOLEAN : w = Waits(n) /\ ww = Waits(n)'
  BY DEF Waits
<1>4. Moves(h, hh, q, qq, w, ww)
  BY <1>1, <1>2, <1>3, NextMoves DEF CodecMoves
<1>5. Steps(PoolSize - h - q, PoolSize - hh - qq, h, hh, q, qq, w, ww)
  <2>1. PICK size \in Nat : size = PoolSize
    BY Setting
  <2>2. h + q <= size
    BY <1>1, <2>1
  <2>3. hh + qq <= size
    BY <1>2, <2>1
  <2>4. h > 0
    BY <1>1
  <2>5. Steps(size - h - q, size - hh - qq, h, hh, q, qq, w, ww)
    BY <1>4, <2>2, <2>3, <2>4 DEF Moves, Steps
  <2> QED
    BY <2>1, <2>5
<1> QED
  BY <1>1, <1>2, <1>3, <1>5, StepsKeepContract

LEMMA ContractInit == Init => \A n \in peers : C(n)!Init
<1> SUFFICES ASSUME Init, NEW n \in peers PROVE C(n)!Init
  OBVIOUS
<1>1. FlowInv
  BY InitFlow
<1>2. n \in Nodes /\ WriterOf(n) \in Writers
  BY <1>1, CodecFrame DEF CodecFacts
<1>3. codec[n] = Idle /\ write_pool[WriterOf(n)] = <<>> /\ writer[WriterOf(n)] = <<>>
  BY <1>2 DEF Init, Writers
<1>4. HeldBy(n) = 2 /\ codec[n].pc = "idle"
  BY <1>3 DEF HeldBy, Idle
<1>5. Handed(n) = 0
  BY <1>3, FromEmpty DEF Handed
<1>6. PoolSize - HeldBy(n) - Handed(n) \in Nat
  <2>1. PICK h \in Nat, q \in Nat : h = HeldBy(n) /\ q = Handed(n) /\ h + q <= PoolSize
    BY <1>1, WithinPool DEF Within
  <2>2. PoolSize - h - q \in Nat
    BY <2>1, Setting
  <2> QED
    BY <2>1, <2>2
<1> QED
  BY <1>4, <1>5, <1>6 DEF C!Init, C!Own

(* Every encoder and every decoder of a daemon uses the pool as             *)
(* CodecBuffers has it (remote_node.cpp:113-195): with the theorems         *)
(* UsesBuffers of PacketEncoder_proofs and PacketDecoder_proofs, what is    *)
(* proved here of the threads holds whatever the two codecs do inside.      *)
THEOREM CodecsUsePool == Spec => CodecContract
<1>1. ASSUME FlowInv, FlowInv', [Next]_vars, NEW n \in peers
      PROVE  UNCHANGED C(n)!vars \/ C(n)!Next
  <2>1. peers' = peers
    BY <1>1, SettingFixed DEF setting
  <2> QED
    BY <1>1, <2>1, NextKeepsContract DEF ContractStep
<1>2. FlowInv /\ FlowInv' /\ [Next]_vars
        => [\A n \in peers : UNCHANGED C(n)!vars \/ C(n)!Next]_vars
  BY <1>1
<1> QED
  BY <1>2, ContractInit, AlwaysFlow, PTL DEF Spec, CodecContract

-----------------------------------------------------------------------------
(* The dictionary of the only node: the buffers come to the pool in the     *)
(* order they were handed over in, and only the last one bears a mark.      *)
LastOnly(marks, clear) == \A i \in DOMAIN marks : marks[i] # NoMark => i = Len(marks) /\ clear
Clean(marks) == \A i \in DOMAIN marks : marks[i] = NoMark

Alone == path = "receive" /\ Cardinality(peers) = 1

LastMarked ==
  /\ LastOnly(available, writer[Tap] = <<>> /\ write_pool[Tap] = <<>>)
  /\ LastOnly(Marks(writer[Tap]), write_pool[Tap] = <<>>)
  /\ LastOnly(Marks(write_pool[Tap]), TRUE)
  /\ \A w \in Nodes : write_pool[w] = <<>> /\ writer[w] = <<>>

DictInv == Alone => LastMarked

LEMMA CleanLast == ASSUME NEW s, Clean(s), NEW c PROVE LastOnly(s, c)
BY DEF Clean, LastOnly

LEMMA EmptyClean == Clean(<<>>) /\ Clean(Marks(<<>>))
BY DEF Clean, Marks

LEMMA TailLast ==
  ASSUME NEW s \in Seq(MarkSet), s # <<>>, NEW c, LastOnly(s, c)
  PROVE  LastOnly(Tail(s), c)
<1>1. PICK t : t = Tail(s)
  OBVIOUS
<1>2. PICK k \in Nat : k = Len(s) /\ k # 0
  BY LenProperties, EmptySeq
<1>3. /\ Len(t) = k - 1 /\ DOMAIN t = 1..(k - 1) /\ DOMAIN s = 1..k
      /\ \A i \in 1..(k - 1) : t[i] = s[i + 1]
  BY <1>1, <1>2, HeadTailProperties, LenProperties
<1>4. ASSUME NEW i \in DOMAIN t, t[i] # NoMark PROVE i = Len(t) /\ c
  <2>1. i + 1 \in DOMAIN s /\ s[i + 1] # NoMark /\ i \in Nat
    BY <1>2, <1>3, <1>4
  <2>2. i + 1 = k /\ c
    BY <1>2, <2>1 DEF LastOnly
  <2> QED
    BY <1>2, <1>3, <2>1, <2>2
<1> QED
  BY <1>1, <1>4 DEF LastOnly

(* All marks are those of the only node. *)
LEMMA OnlyMark ==
  ASSUME FlowInv, Alone, NEW n \in peers
  PROVE  peers = {n} /\ MarkSet = {NoMark, n} /\ n # NoMark /\ WriterOf(n) = Tap
<1>1. IsFiniteSet(peers) /\ n \in Nodes
  BY Setting DEF FlowInv, Typed
<1>2. PICK m : peers = {m}
  BY <1>1, FS_Singleton DEF Alone
<1>3. n # NoMark
  BY <1>1, Setting DEF NoMark
<1> QED
  BY <1>2, <1>3 DEF MarkSet, WriterOf, Alone

LEMMA UnmarkClean ==
  ASSUME FlowInv, Alone, NEW n \in peers, NEW s \in Seq(MarkSet)
  PROVE  Clean(Unmark(s, n)) /\ Unmark(s, n) \in Seq(MarkSet)
<1>1. \A i \in DOMAIN s : s[i] \in {NoMark, n}
  BY OnlyMark, ElementOfSeq, LenProperties
<1>2. Unmark(s, n) \in Seq(MarkSet)
  BY UnmarkFacts DEF FlowInv, Typed
<1> QED
  BY <1>1, <1>2 DEF Clean, Unmark

LEMMA UnmarkQueueClean ==
  ASSUME FlowInv, Alone, NEW n \in peers, NEW q \in Seq(EntryType)
  PROVE  Clean(Marks(UnmarkQueue(q, n))) /\ UnmarkQueue(q, n) \in Seq(EntryType)
<1>1. PICK r : r = UnmarkQueue(q, n)
  OBVIOUS
<1>2. /\ r \in Seq(EntryType) /\ DOMAIN r = DOMAIN q
      /\ \A i \in DOMAIN q : q[i] \in EntryType /\ r[i].mark = IF q[i].mark = n THEN NoMark ELSE q[i].mark
  BY <1>1, UnmarkQueueFacts DEF FlowInv, Typed
<1>3. \A e \in EntryType : e.mark \in {NoMark, n}
  BY OnlyMark DEF EntryType
<1>4. \A i \in DOMAIN r : r[i].mark = NoMark
  BY <1>2, <1>3
<1> QED
  BY <1>1, <1>2, <1>4 DEF Clean, Marks

LEMMA ConcatLast ==
  ASSUME NEW s \in Seq(MarkSet), NEW t \in Seq(MarkSet), NEW c, Clean(s), LastOnly(t, c)
  PROVE  LastOnly(s \o t, c)
<1>1. PICK k \in Nat, l \in Nat : k = Len(s) /\ l = Len(t)
  BY LenProperties
<1>2. PICK u : u = s \o t
  OBVIOUS
<1>3. /\ DOMAIN s = 1..k /\ DOMAIN t = 1..l /\ DOMAIN u = 1..(k + l) /\ Len(u) = k + l
      /\ \A i \in 1..(k + l) : u[i] = IF i <= k THEN s[i] ELSE t[i - k]
  BY <1>1, <1>2, ConcatProperties, LenProperties
<1>4. ASSUME NEW i \in DOMAIN u, u[i] # NoMark PROVE i = Len(u) /\ c
  <2>1. i \in 1..(k + l)
    BY <1>3
  <2>2. ~(i <= k)
    BY <1>3, <1>4, <2>1 DEF Clean
  <2>3. i - k \in 1..l /\ t[i - k] # NoMark
    BY <1>3, <1>4, <2>1, <2>2
  <2>4. i - k = l /\ c
    BY <1>1, <1>3, <2>3 DEF LastOnly
  <2> QED
    BY <1>3, <2>1, <2>4
<1> QED
  BY <1>2, <1>4 DEF LastOnly

LEMMA ConcatClean ==
  ASSUME NEW s \in Seq(MarkSet), NEW t \in Seq(MarkSet), Clean(s), Clean(t)
  PROVE  Clean(s \o t)
<1>1. LastOnly(s \o t, FALSE)
  BY CleanLast, ConcatLast
<1> QED
  BY <1>1 DEF LastOnly, Clean

LEMMA FreeClean == \A count : Clean(Free(count))
BY DEF Clean, Free

LEMMA AppendLast ==
  ASSUME NEW q \in Seq(EntryType), NEW e \in EntryType, Clean(Marks(q))
  PROVE  LastOnly(Marks(Append(q, e)), TRUE)
<1>1. PICK r : r = Append(q, e)
  OBVIOUS
<1>2. PICK k \in Nat : k = Len(q)
  BY LenProperties
<1>3. /\ DOMAIN q = 1..k /\ DOMAIN r = 1..(k + 1) /\ r \in Seq(EntryType)
      /\ \A i \in 1..k : r[i] = q[i]
  BY <1>1, <1>2, AppendProperties, LenProperties
<1>4. \A i \in 1..k : q[i].mark = NoMark
  BY <1>3 DEF Clean, Marks
<1>5. DOMAIN Marks(r) = 1..(k + 1) /\ Len(Marks(r)) = k + 1
  BY <1>1, <1>3, <1>2, AppendProperties, MarksFacts DEF Marks
<1>6. \A i \in DOMAIN Marks(r) : Marks(r)[i] # NoMark => i = k + 1
  BY <1>3, <1>4, <1>5 DEF Marks
<1> QED
  BY <1>1, <1>5, <1>6 DEF LastOnly

(* An action that takes the next buffer, or none. *)
LEMMA DictPop ==
  ASSUME FlowInv, DictInv, UNCHANGED <<setting, writing>>,
         available' = available \/ \E t : Pop(t)
  PROVE  DictInv'
<1> SUFFICES ASSUME Alone' PROVE LastMarked'
  BY DEF DictInv
<1>1. Alone /\ LastMarked /\ UNCHANGED writing
  BY DEF DictInv, Alone, setting
<1>2. write_pool' = write_pool /\ writer' = writer
  BY DEF writing
<1>3. LastOnly(available', writer[Tap] = <<>> /\ write_pool[Tap] = <<>>)
  <2>1. PICK c \in BOOLEAN : c = (writer[Tap] = <<>> /\ write_pool[Tap] = <<>>)
    OBVIOUS
  <2>2. LastOnly(available, c)
    BY <1>1, <2>1 DEF LastMarked
  <2>3. available' = available \/ (available # <<>> /\ available' = Tail(available))
    BY DEF Pop
  <2>4. available \in Seq(MarkSet)
    BY DEF FlowInv, Typed, QueuesTyped
  <2>5. LastOnly(available', c)
    BY <2>2, <2>3, <2>4, TailLast
  <2> QED
    BY <2>1, <2>5
<1>4. LastOnly(available, writer[Tap] = <<>> /\ write_pool[Tap] = <<>>)'
  BY <1>2, <1>3 DEF LastOnly
<1> QED
  BY <1>1, <1>2, <1>4 DEF LastMarked, Marks, LastOnly

LEMMA DictSend ==
  ASSUME FlowInv, UNCHANGED setting, path = "send"
  PROVE  DictInv'
BY DEF DictInv, Alone, setting

(* The codec hands the frame over that is the dictionary now. *)
LEMMA DictHandOver ==
  ASSUME FlowInv, DictInv, NEW n \in peers, Emit(n) \/ Timeout(n)
  PROVE  DictInv'
<1>c. \A p \in peers : CodecFacts(p)
  BY CodecFrame
<1> USE <1>c DEF CodecFacts
<1>1. UNCHANGED setting
  BY DEF Emit, Timeout
<1>2. CASE path = "send"
  BY <1>1, <1>2, DictSend
<1>3. CASE path = "receive"
  <2> SUFFICES ASSUME Alone' PROVE LastMarked'
    BY DEF DictInv
  <2>1. Alone /\ LastMarked
    BY <1>1 DEF DictInv, Alone, setting
  <2>2. HandOver(n, n) /\ WriterOf(n) = Tap /\ Tap \in Writers /\ n \in MarkSet
    BY <1>3, <2>1, OnlyMark DEF Emit, Timeout, Writers
  <2>3. PICK e \in EntryType : e = [from |-> n, mark |-> n]
    BY <2>2 DEF EntryType
  <2>4. PICK p \in Seq(EntryType), q \in Seq(EntryType) :
          p = UnmarkQueue(write_pool[Tap], n) /\ q = UnmarkQueue(writer[Tap], n)
    BY <2>2, UnmarkQueueFacts
  <2>5. Clean(Marks(p)) /\ Clean(Marks(q))
    BY <2>1, <2>2, <2>4, UnmarkQueueClean
  <2>6. /\ write_pool' = [write_pool EXCEPT ![Tap] = Append(p, e)]
        /\ writer' = [writer EXCEPT ![Tap] = q]
        /\ available' = Unmark(available, n)
    BY <2>2, <2>3, <2>4 DEF HandOver
  <2>7. /\ write_pool'[Tap] = Append(p, e) /\ writer'[Tap] = q
        /\ \A w \in Nodes : write_pool'[w] = <<>> /\ writer'[w] = <<>>
    BY <2>1, <2>2, <2>6, Setting DEF LastMarked, Writers
  <2>8. Clean(available')
    BY <2>1, <2>6, UnmarkClean
  <2>9. LastOnly(Marks(Append(p, e)), TRUE)
    BY <2>5, AppendLast
  <2>10. /\ \A c : LastOnly(available', c)
         /\ \A c : LastOnly(Marks(q), c)
    BY <2>5, <2>8, CleanLast
  <2> QED
    BY <2>7, <2>9, <2>10 DEF LastMarked, Marks, LastOnly
<1> QED
  BY <1>2, <1>3 DEF SettingTyped

LEMMA DictFlush ==
  ASSUME FlowInv, DictInv, NEW n \in peers,
         EndFlush(n) \/ FlushKept(n) \/ FlushFrame(n) \/ ReturnPacket(n)
  PROVE  DictInv'
<1>c. \A p \in peers : CodecFacts(p)
  BY CodecFrame
<1> USE <1>c DEF CodecFacts
<1>1. UNCHANGED setting
  BY DEF EndFlush, FlushKept, FlushFrame, ReturnPacket
<1>2. PICK others \in {0, 1} : FlushInflight(n, others)
  BY DEF EndFlush, FlushKept, FlushFrame, ReturnPacket
<1> SUFFICES ASSUME Alone' PROVE LastMarked'
  BY DEF DictInv
<1>3. Alone /\ LastMarked
  BY <1>1 DEF DictInv, Alone, setting
<1>4. PICK more \in Nat : more = codec[n].kept + others
  BY <1>2, Setting DEF CodecType
<1>5. PICK s \in Seq(MarkSet), t \in Seq(MarkSet) : s = Unmark(available, n) /\ t = Free(more)
  BY <1>3, UnmarkClean, FreeFacts
<1>6. Clean(s) /\ Clean(t)
  BY <1>3, <1>5, UnmarkClean, FreeClean
<1>7. available' = s \o t
  BY <1>2, <1>4, <1>5 DEF FlushInflight
<1>8. Clean(available')
  BY <1>6, <1>7, ConcatClean
<1>9. Tap \in Writers /\ Nodes \subseteq Writers
  BY DEF Writers
<1>10. \A w \in Writers : /\ write_pool'[w] = UnmarkQueue(write_pool[w], n)
                          /\ writer'[w] = UnmarkQueue(writer[w], n)
  BY <1>2 DEF FlushInflight
<1>11. Clean(Marks(write_pool'[Tap])) /\ Clean(Marks(writer'[Tap]))
  BY <1>3, <1>9, <1>10, UnmarkQueueClean
<1>12. \A w \in Nodes : write_pool'[w] = <<>> /\ writer'[w] = <<>>
  <2>1. UnmarkQueue(<<>>, n) = <<>>
    BY DEF UnmarkQueue
  <2> QED
    BY <1>3, <1>9, <1>10, <2>1 DEF LastMarked
<1>13. /\ \A c : LastOnly(available', c)
       /\ \A c : LastOnly(Marks(write_pool'[Tap]), c) /\ LastOnly(Marks(writer'[Tap]), c)
  BY <1>8, <1>11, CleanLast
<1> QED
  BY <1>12, <1>13 DEF LastMarked, Marks, LastOnly

LEMMA DictWriter ==
  ASSUME FlowInv, DictInv, NEW w \in Writers, TakeWrites(w) \/ ReturnWritten(w)
  PROVE  DictInv'
<1> SUFFICES ASSUME Alone' PROVE LastMarked'
  BY DEF DictInv
<1>1. Alone /\ LastMarked
  BY DEF DictInv, Alone, setting, TakeWrites, ReturnWritten
<1>2. w = Tap
  BY <1>1 DEF LastMarked, Writers, TakeWrites, ReturnWritten
<1>3. PICK p \in Seq(EntryType), q \in Seq(EntryType), a \in Seq(MarkSet) :
        p = write_pool[Tap] /\ q = writer[Tap] /\ a = available
  BY DEF FlowInv, Typed, QueuesTyped, Writers
<1>4. /\ LastOnly(a, q = <<>> /\ p = <<>>) /\ LastOnly(Marks(q), p = <<>>)
      /\ LastOnly(Marks(p), TRUE)
      /\ \A v \in Nodes : write_pool[v] = <<>> /\ writer[v] = <<>>
  BY <1>1, <1>3 DEF LastMarked
<1>5. Clean(a)
  BY <1>2, <1>3, <1>4 DEF LastOnly, Clean, TakeWrites, ReturnWritten
<1>6. Tap \notin Nodes /\ Nodes \subseteq Writers /\ Tap \in Writers
      /\ write_pool \in [Writers -> Seq(EntryType)] /\ writer \in [Writers -> Seq(EntryType)]
  BY Setting DEF Writers, FlowInv, Typed, QueuesTyped
<1>7. CASE TakeWrites(w)
  <2>1. /\ available' = a /\ writer'[Tap] = p /\ write_pool'[Tap] = <<>>
        /\ \A v \in Nodes : write_pool'[v] = <<>> /\ writer'[v] = <<>>
    BY <1>2, <1>3, <1>4, <1>6, <1>7 DEF TakeWrites, pool
  <2>2. LastOnly(Marks(p), write_pool'[Tap] = <<>>)
    BY <1>4, <2>1 DEF LastOnly
  <2>3. LastOnly(Marks(<<>>), TRUE)
    BY EmptyClean, CleanLast
  <2>4. \A c : LastOnly(a, c)
    BY <1>5, CleanLast
  <2> QED
    BY <2>1, <2>2, <2>3, <2>4 DEF LastMarked, Marks, LastOnly
<1>8. CASE ReturnWritten(w)
  <2>1. /\ available' = a \o Marks(q) /\ writer'[Tap] = <<>> /\ write_pool'[Tap] = p
        /\ \A v \in Nodes : write_pool'[v] = <<>> /\ writer'[v] = <<>>
    BY <1>2, <1>3, <1>4, <1>6, <1>8 DEF ReturnWritten
  <2>2. Marks(q) \in Seq(MarkSet)
    BY MarksFacts
  <2>3. LastOnly(available', p = <<>>)
    BY <1>4, <1>5, <2>1, <2>2, ConcatLast
  <2>4. LastOnly(available', writer'[Tap] = <<>> /\ write_pool'[Tap] = <<>>)
    BY <2>1, <2>3 DEF LastOnly
  <2>5. LastOnly(Marks(<<>>), p = <<>>)
    BY EmptyClean, CleanLast
  <2> QED
    BY <1>4, <2>1, <2>4, <2>5 DEF LastMarked, Marks, LastOnly
<1> QED
  BY <1>7, <1>8

LEMMA DictNext == FlowInv /\ DictInv /\ [Next]_vars => DictInv'
<1> SUFFICES ASSUME FlowInv, DictInv, [Next]_vars PROVE DictInv'
  OBVIOUS
<1>1. CASE UNCHANGED vars
  BY <1>1, DictPop DEF vars, pool
<1>2. CASE TapReader \/ ReadUnicast \/ ReadGroup
  BY <1>2, DictPop DEF TapReader, GetFrameBuffer, CopyFrame, PassFrame, ReadUnicast,
     ReadGroup, pool
<1>3. CASE SocketReader \/ RecvMmsg
  BY <1>3, DictPop DEF SocketReader, RecvMmsg, SortPacket, FillSlot, PushReceived, pool
<1>4. ASSUME NEW n \in peers, Codec(n) PROVE DictInv'
  <2>1. CASE TakeBatch(n) \/ GetTxBuffer(n) \/ KeepInput(n)
    BY <2>1, DictPop DEF TakeBatch, GetTxBuffer, KeepInput, pool
  <2>2. CASE ReturnFrame(n)
    BY <2>2, DictSend DEF ReturnFrame
  <2> QED
    BY <1>4, <2>1, <2>2, DictHandOver, DictFlush DEF Codec
<1>5. ASSUME NEW w \in Writers, TakeWrites(w) \/ ReturnWritten(w) PROVE DictInv'
  BY <1>5, DictWriter
<1>6. ASSUME NEW t, Sleep(t) \/ PopNothing(t) PROVE DictInv'
  BY <1>6, DictPop DEF Sleep, PopNothing
<1> QED
  BY <1>1, <1>2, <1>3, <1>4, <1>5, <1>6 DEF Next, Writers

LEMMA DictInit == Init => DictInv
<1> SUFFICES ASSUME Init PROVE LastMarked
  BY DEF DictInv
<1>1. Clean(available)
  BY DEF Init, Clean
<1>2. /\ write_pool[Tap] = <<>> /\ writer[Tap] = <<>>
      /\ \A w \in Nodes : write_pool[w] = <<>> /\ writer[w] = <<>>
  BY DEF Init
<1> QED
  BY <1>1, <1>2, EmptyClean, CleanLast DEF LastMarked

(* The frame the LZ4 decompressor goes on referring to is safe in the pool  *)
(* (decoder.cpp:399, packet_switch.cpp:475-553) as long as there is one     *)
(* remote node and the pool does not run dry: its buffer is the last one    *)
(* that is taken again, whatever the sizes of the pool and of the queues.   *)
THEOREM DictionarySafe == Spec => DictionaryKept
<1>1. FlowInv /\ DictInv
        => (Cardinality(peers) = 1 /\ available # <<>> /\ Head(available) # NoMark
              => Tail(available) = <<>>)
  <2> SUFFICES ASSUME FlowInv, DictInv, Cardinality(peers) = 1, available # <<>>,
                      Head(available) # NoMark
               PROVE  Tail(available) = <<>>
    OBVIOUS
  <2>1. /\ available \in Seq(MarkSet) /\ Head(available) = available[1]
        /\ Len(available) \in Nat \ {0} /\ DOMAIN available = 1..Len(available)
    BY HeadTailProperties, LenProperties, EmptySeq DEF FlowInv, Typed, QueuesTyped
  <2>2. available[1] \in MarkSet
    BY <2>1, ElementOfSeq
  <2>3. Alone
    BY <2>1, <2>2 DEF MarkSet, Alone, FlowInv, Typed, SettingTyped
  <2>4. 1 = Len(available)
    BY <2>1, <2>3 DEF DictInv, LastMarked, LastOnly
  <2>5. Tail(available) \in Seq(MarkSet) /\ Len(Tail(available)) = 0
    <3>1. PICK s \in Seq(MarkSet) : s = available /\ s # <<>> /\ Len(s) = 1
      BY <2>1, <2>4
    <3>2. Tail(s) \in Seq(MarkSet) /\ Len(Tail(s)) = Len(s) - 1
      BY <3>1, HeadTailProperties
    <3> QED
      BY <3>1, <3>2
  <2> QED
    BY <2>5, EmptySeq
<1>2. FlowInv /\ DictInv /\ [Next]_vars
        => [Cardinality(peers) = 1 /\ available # <<>> /\ Head(available) # NoMark
              /\ available' = Tail(available)
            => available' = <<>>]_vars
  BY <1>1
<1> QED
  BY <1>2, DictInit, DictNext, AlwaysFlow, PTL DEF Spec, DictionaryKept
==============================================================================
