----------------------------- MODULE Config_proofs -----------------------------
(***************************************************************************)
(* Proofs about Config, for every command line, configuration file and set *)
(* of hosts: a daemon that runs has sizes that its codecs are correct for, *)
(* keeps to the packet size it was given, and knows its peers.             *)
(***************************************************************************)
EXTENDS Config, FunctionTheorems, FiniteSetTheorems, TLAPS

(* What the constructor made is what the accepted options call for. *)
Derived ==
  /\ SizesAgree
  /\ l2mtu = get_l2mtu_from_mtu(cfg.mtu)
  /\ buffer_size = SizeOfBuffer
  /\ buffer_count = BufferCount
  /\ DOMAIN nodes = Keys
  /\ \A k \in Keys : \E a \in cfg.dst :
       get_key_from_sockaddr(a) = k /\ nodes[k] = RemoteNode(a)

(* Before it, there is nothing. *)
NotConstructed ==
  l2mtu = 0 /\ buffer_size = 0 /\ buffer_count = 0 /\ nodes = <<>>

IInv ==
  /\ cmdline \in CommandLines /\ conffile \in ConfFiles
  /\ stage \in {"main", "constructor", "running", "refused", "aborted"}
  /\ cfg \in Options /\ IsFiniteSet(cfg.dst)
  /\ stage \in {"constructor", "running"} => Allowed(cfg)
  /\ stage # "running" => NotConstructed
  /\ stage = "running" => Derived

(* No options at all are options as well. *)
LEMMA NoOptionsType == NoOptions \in Options /\ IsFiniteSet(NoOptions.dst)
BY FS_EmptySet DEF NoOptions, Options

(* The options that main() settles on are options. *)
LEMMA SettledType ==
  ASSUME cmdline \in CommandLines, conffile \in ConfFiles
  PROVE  Settled \in Options /\ IsFiniteSet(Settled.dst)
<1>. USE ConfigAssumption
<1>1. cmdline.options \in Options
  OBVIOUS
<1>2. FileOptions \in Options
  <2>1. conffile.options \in Options
    OBVIOUS
  <2>. QED BY <2>1, NoOptionsType DEF FileOptions
<1>3. V6("zero", FALSE, 0) \in Addresses
  <2>. DEFINE a == V6("zero", FALSE, 0)
  <2>1. a \in [family : {"v4", "v6"}, prefix : {"zero", "other"},
               ffff : BOOLEAN, host : Hosts]
    BY DEF V6
  <2>2. a.family # "v4"
    BY DEF V6
  <2>. QED BY <2>1, <2>2 DEF Addresses
<1>4. /\ Number("mtu", 1500) \in Int
      /\ Number("txsize", 1500) \in Int
      /\ Number("port", 58023) \in Int
  BY <1>1, <1>2 DEF Number, Options
<1>. DEFINE source == First(cmdline.options.src,
                       First(FileOptions.src, V6("zero", FALSE, 0)))
            dests == IF cmdline.options.dst # {} THEN cmdline.options.dst
                     ELSE FileOptions.dst
            given == [n \in Names |->
                       IF cmdline.options.names[n] # "absent"
                       THEN cmdline.options.names[n] ELSE FileOptions.names[n]]
<1>5. source \in Addresses \union {NotGiven, Unparsable}
  BY <1>1, <1>2, <1>3 DEF First, Options
<1>6. dests \in SUBSET (Addresses \union {Unparsable})
  BY <1>1, <1>2 DEF Options
<1>7. given \in [Names -> {"absent", "valid", "invalid"}]
  BY <1>1, <1>2 DEF Options
<1>8. Settled = [mtu |-> Number("mtu", 1500), txsize |-> Number("txsize", 1500),
                 port |-> Number("port", 58023), src |-> source, dst |-> dests,
                 names |-> given]
  BY DEF Settled
<1>9. IsFiniteSet(dests)
  <2>1. IsFiniteSet(FileOptions.dst)
    BY NoOptionsType DEF FileOptions
  <2>. QED BY <2>1
<1>. HIDE DEF source, dests, given
<1>. QED BY <1>4, <1>5, <1>6, <1>7, <1>8, <1>9 DEF Options

(* Every step of the start keeps the invariant. *)
LEMMA InvStep ==
  ASSUME IInv, [Next]_vars
  PROVE  IInv'
<1>1. CASE Abort \/ Refuse \/ RefuseSwitch
  BY <1>1 DEF Abort, Refuse, RefuseSwitch, IInv, packet_switch, NotConstructed
<1>2. CASE Accept
  <2>1. Settled \in Options /\ IsFiniteSet(Settled.dst) /\ Allowed(Settled)
    BY <1>2, SettledType DEF Accept, IInv
  <2>. QED BY <1>2, <2>1 DEF Accept, IInv, packet_switch, NotConstructed
<1>3. CASE Construct
  <2>1. /\ UNCHANGED <<cmdline, conffile, cfg>>
        /\ stage = "constructor" /\ stage' = "running"
    BY <1>3 DEF Construct
  <2>2. PICK last \in [Keys -> cfg.dst] :
          /\ \A k \in Keys : get_key_from_sockaddr(last[k]) = k
          /\ nodes' = [k \in Keys |-> RemoteNode(last[k])]
    BY <1>3 DEF Construct
  <2>3. /\ Keys' = Keys /\ SizeOfBuffer' = SizeOfBuffer
        /\ BufferCount' = BufferCount /\ SizesAgree' = SizesAgree
    BY <2>1 DEF Keys, SizeOfBuffer, BufferCount, SizesAgree
  <2>4. \A a : RemoteNode(a)' = RemoteNode(a)
    BY <2>1 DEF RemoteNode
  <2>5. \A k \in Keys : \E a \in cfg.dst :
          get_key_from_sockaddr(a) = k /\ nodes'[k] = RemoteNode(a)
    BY <2>2
  <2>6. Derived'
    BY <1>3, <2>1, <2>2, <2>3, <2>4, <2>5 DEF Construct, Derived
  <2>. QED BY <2>1, <2>6 DEF IInv
<1>4. CASE UNCHANGED vars
  BY <1>4 DEF vars, packet_switch, IInv, Derived, NotConstructed, SizesAgree,
          SizeOfBuffer, BufferCount, Keys, RemoteNode
<1>. QED BY <1>1, <1>2, <1>3, <1>4 DEF Next

(* The invariant holds from the start of main() on. *)
LEMMA Invariant == Spec => []IInv
<1>1. Init => IInv
  BY NoOptionsType DEF Init, IInv, NotConstructed
<1>2. IInv /\ [Next]_vars => IInv'
  BY InvStep
<1>. QED BY <1>1, <1>2, PTL DEF Spec

(* A destination of a running daemon is an address. *)
LEMMA DestinationsValid ==
  ASSUME IInv, stage = "running"
  PROVE  cfg.dst \subseteq Addresses
<1>1. cfg \in Options /\ Allowed(cfg)
  BY DEF IInv
<1>2. cfg.dst \subseteq Addresses \union {Unparsable}
  BY <1>1 DEF Options
<1>3. Unparsable \notin cfg.dst
  BY <1>1 DEF Allowed
<1>. QED BY <1>2, <1>3

(* The numbers that the accepted options and the node make. *)
LEMMA NodeSizes ==
  ASSUME IInv, stage = "running", NEW k \in DOMAIN nodes
  PROVE  \E a \in cfg.dst :
           /\ a \in Addresses /\ get_key_from_sockaddr(a) = k
           /\ nodes[k].addr = to_sockaddr_storage_ipv6(a)
           /\ nodes[k].l4mtu = cfg.txsize - (IF is_ipv4(a) THEN 20 ELSE 40) - 8
<1>1. PICK a \in cfg.dst : get_key_from_sockaddr(a) = k /\ nodes[k] = RemoteNode(a)
  BY DEF IInv, Derived
<1>2. a \in Addresses
  BY DestinationsValid
<1>. QED BY <1>1, <1>2 DEF RemoteNode

-----------------------------------------------------------------------------
(* The limits of common.hpp, named: the provers are slow with an interval   *)
(* that has a large number for an end.                                     *)
LEMMA LimitsTyped ==
  /\ SETH_MIN_MTU_SIZE \in Nat /\ SETH_MAX_MTU_SIZE \in Nat
  /\ SETH_MIN_TXSIZE \in Nat /\ SETH_MAX_TXSIZE \in Nat
  /\ UINT16_MAX \in Nat
BY DEF SETH_MIN_MTU_SIZE, SETH_MAX_MTU_SIZE, SETH_MIN_TXSIZE, SETH_MAX_TXSIZE, UINT16_MAX

LEMMA Limits ==
  /\ SETH_MIN_MTU_SIZE = 1200 /\ SETH_MAX_MTU_SIZE = 9218
  /\ SETH_MIN_TXSIZE = 1200 /\ SETH_MAX_TXSIZE = 9218
  /\ UINT16_MAX = 65535
BY DEF SETH_MIN_MTU_SIZE, SETH_MAX_MTU_SIZE, SETH_MIN_TXSIZE, SETH_MAX_TXSIZE, UINT16_MAX

LEMMA Fits16 ==
  ASSUME NEW n \in Nat, n <= 65535
  PROVE  n \in UInt16
<1>1. n <= UINT16_MAX
  BY Limits
<1>. QED BY <1>1, LimitsTyped DEF UInt16

(* The options that pass main(). *)
LEMMA AllowedOptions ==
  ASSUME Allowed(cfg)
  PROVE  /\ cfg.mtu \in Nat /\ cfg.mtu >= 1200 /\ cfg.mtu <= 9218
         /\ cfg.txsize \in Nat /\ cfg.txsize >= 1200 /\ cfg.txsize <= 9218
         /\ cfg.dst # {}
<1>1. /\ cfg.mtu \in SETH_MIN_MTU_SIZE..SETH_MAX_MTU_SIZE
      /\ cfg.txsize \in SETH_MIN_TXSIZE..SETH_MAX_TXSIZE
      /\ cfg.dst # {}
  BY DEF Allowed
<1>2. /\ cfg.mtu \in Nat /\ cfg.mtu >= SETH_MIN_MTU_SIZE /\ cfg.mtu <= SETH_MAX_MTU_SIZE
      /\ cfg.txsize \in Nat /\ cfg.txsize >= SETH_MIN_TXSIZE /\ cfg.txsize <= SETH_MAX_TXSIZE
  BY <1>1, LimitsTyped
<1>3. cfg.dst # {}
  BY <1>1
<1>. QED BY <1>2, <1>3, Limits

(* The options of a running daemon. *)
LEMMA RunningOptions ==
  ASSUME IInv, stage = "running"
  PROVE  /\ cfg.mtu \in Nat /\ cfg.mtu >= 1200 /\ cfg.mtu <= 9218
         /\ cfg.txsize \in Nat /\ cfg.txsize >= 1200 /\ cfg.txsize <= 9218
         /\ cfg.dst # {}
BY AllowedOptions DEF IInv

(* The largest MTU leaves room in 16 bits for the Ethernet header. *)
LEMMA NoOverflow ==
  ASSUME NEW mtu \in Nat, mtu <= 9218
  PROVE  get_l2mtu_from_mtu(mtu) = mtu + 22
BY DEF get_l2mtu_from_mtu

(* A daemon that runs gives every encoder and decoder sizes for which       *)
(* Codec's assumption holds, so what is proved from it holds for them      *)
(* (packet_switch.cpp:35 to 76, remote_node.cpp:34 to 43).                 *)
THEOREM SizesAlwaysRight == Spec => []CodecSized
<1>1. IInv => CodecSized
  <2>. SUFFICES ASSUME IInv, stage = "running", NEW k \in DOMAIN nodes
                PROVE  C(nodes[k].l4mtu)!SizeAssumption
    BY DEF CodecSized
  <2>1. Allowed(cfg) /\ SizesAgree
    BY DEF IInv, Derived
  <2>2. cfg.mtu \in Nat /\ cfg.mtu >= 1200 /\ cfg.mtu <= 9218
    BY RunningOptions
  <2>3. cfg.txsize \in Nat /\ cfg.txsize >= 1200 /\ cfg.txsize <= 9218
    BY RunningOptions
  <2>4. cfg.txsize <= cfg.mtu
    BY <2>1 DEF SizesAgree
  <2>5. /\ l2mtu = get_l2mtu_from_mtu(cfg.mtu)
        /\ buffer_size = l2mtu + l2mtu \div 10
    BY DEF IInv, Derived, SizeOfBuffer
  <2>6. PICK overhead \in {20, 40} : nodes[k].l4mtu = cfg.txsize - overhead - 8
    BY NodeSizes
  <2>7. /\ l2mtu \in Nat /\ buffer_size \in Nat /\ nodes[k].l4mtu \in Nat
        /\ nodes[k].l4mtu >= 104
        /\ buffer_size >= nodes[k].l4mtu /\ buffer_size >= l2mtu
        /\ buffer_size + 8 < 65536
    <3>. DEFINE m == cfg.mtu
                t == cfg.txsize
    <3>1. m \in Nat /\ t \in Nat /\ 1200 <= t /\ t <= m /\ m <= 9218
      BY <2>2, <2>3, <2>4
    <3>2. l2mtu = get_l2mtu_from_mtu(m) /\ nodes[k].l4mtu = t - overhead - 8
      BY <2>5, <2>6
    <3>. HIDE DEF m, t
    <3>3. l2mtu = m + 22
      <4>1. get_l2mtu_from_mtu(m) = m + 22
        BY <3>1, NoOverflow
      <4>. QED BY <3>2, <4>1
    <3>4. l2mtu \in Nat
      BY <3>1, <3>3
    <3>5. buffer_size \in Nat /\ buffer_size >= l2mtu
          /\ buffer_size <= 2 * l2mtu
      BY <2>5, <3>4
    <3>6. CASE overhead = 20
      BY <3>1, <3>2, <3>3, <3>4, <3>5, <3>6
    <3>7. CASE overhead = 40
      BY <3>1, <3>2, <3>3, <3>4, <3>5, <3>7
    <3>. QED BY <3>6, <3>7
  <2>. QED BY <2>7
         DEF C!SizeAssumption, C!HeaderSize, C!OptionSize, C!FlushReserve, C!PosRange
<1>. QED BY <1>1, Invariant, PTL

(* No packet of a running daemon exceeds --txsize on its way, except to an  *)
(* address that is_ipv4() takes for another kind (remote_node.cpp:37).     *)
THEOREM PathAlwaysRespected == Spec => []PathRespected
<1>1. IInv => PathRespected
  <2>. SUFFICES ASSUME IInv, stage = "running", NEW k \in DOMAIN nodes,
                       nodes[k].addr.ffff = IsMapped(nodes[k].addr)
                PROVE  nodes[k].l4mtu + Headers(nodes[k].addr) <= cfg.txsize
    BY DEF PathRespected
  <2>1. PICK a \in Addresses :
          /\ nodes[k].addr = to_sockaddr_storage_ipv6(a)
          /\ nodes[k].l4mtu = cfg.txsize - (IF is_ipv4(a) THEN 20 ELSE 40) - 8
    BY NodeSizes
  <2>2. cfg.txsize \in Int
    <3>1. cfg \in Options
      BY DEF IInv
    <3>. QED BY <3>1 DEF Options
  <2>3. is_ipv4(a) => Headers(nodes[k].addr) = 28
    BY <2>1 DEF is_ipv4, to_sockaddr_storage_ipv6, Headers
  <2>4. Headers(nodes[k].addr) \in {28, 48}
    BY DEF Headers
  <2>. QED BY <2>1, <2>2, <2>3, <2>4
<1>. QED BY <1>1, Invariant, PTL

(* A node is known by the key of the address that its packets come from,    *)
(* and by no other (util.cpp:204 and 245).                                 *)
THEOREM PeersAlwaysRecognised == Spec => []PeersRecognised
<1>1. \A a \in Addresses :
        get_key_from_sockaddr(to_sockaddr_storage_ipv6(a)) = get_key_from_sockaddr(a)
  BY DEF Addresses, V4, V6, to_sockaddr_storage_ipv6, get_key_from_sockaddr
<1>2. \A a, d \in Addresses :
        get_key_from_sockaddr(a) = get_key_from_sockaddr(d) =>
          to_sockaddr_storage_ipv6(a) = to_sockaddr_storage_ipv6(d)
  <2>. SUFFICES ASSUME NEW a \in Addresses, NEW d \in Addresses,
                       get_key_from_sockaddr(a) = get_key_from_sockaddr(d)
                PROVE  to_sockaddr_storage_ipv6(a) = to_sockaddr_storage_ipv6(d)
    OBVIOUS
  <2>1. \A b \in Addresses :
          LET key == get_key_from_sockaddr(b)
          IN  to_sockaddr_storage_ipv6(b) = V6(key.prefix, key.ffff, key.host)
    BY DEF Addresses, V4, V6, to_sockaddr_storage_ipv6, get_key_from_sockaddr
  <2>. QED BY <2>1
<1>3. IInv => PeersRecognised
  <2>. SUFFICES ASSUME IInv, stage = "running", NEW a \in Addresses
                PROVE  LET seen == to_sockaddr_storage_ipv6(a)
                           key  == get_key_from_sockaddr(seen)
                       IN  /\ key \in DOMAIN nodes <=>
                                \E d \in cfg.dst : to_sockaddr_storage_ipv6(d) = seen
                           /\ key \in DOMAIN nodes => nodes[key].addr = seen
    BY DEF PeersRecognised
  <2>. DEFINE key == get_key_from_sockaddr(a)
  <2>1. DOMAIN nodes = Keys /\ cfg.dst \subseteq Addresses
    BY DestinationsValid DEF IInv, Derived
  <2>2. ASSUME key \in DOMAIN nodes
        PROVE  /\ \E d \in cfg.dst :
                    to_sockaddr_storage_ipv6(d) = to_sockaddr_storage_ipv6(a)
               /\ nodes[key].addr = to_sockaddr_storage_ipv6(a)
    BY <1>2, <2>2, NodeSizes
  <2>3. ASSUME NEW d \in cfg.dst,
               to_sockaddr_storage_ipv6(d) = to_sockaddr_storage_ipv6(a)
        PROVE  key \in DOMAIN nodes
    BY <1>1, <2>1, <2>3 DEF Keys
  <2>. QED BY <1>1, <2>2, <2>3
<1>. QED BY <1>3, Invariant, PTL

-----------------------------------------------------------------------------
(* Addresses have keys, and their mapped forms are addresses. *)
LEMMA AddressTyped ==
  ASSUME NEW a \in Addresses
  PROVE  /\ get_key_from_sockaddr(a) \in NodeKeys
         /\ to_sockaddr_storage_ipv6(a) \in Addresses
BY DEF Addresses, NodeKeys, V4, V6, get_key_from_sockaddr, to_sockaddr_storage_ipv6

(* The sizes that its constructor makes of them. *)
LEMMA RunningSizes ==
  ASSUME IInv, stage = "running"
  PROVE  /\ l2mtu \in Nat /\ l2mtu >= 1222 /\ l2mtu <= 9240
         /\ l2mtu \in UInt16 /\ buffer_size \in UInt16
<1> DEFINE m == cfg.mtu
<1>1. m \in Nat /\ m >= 1200 /\ m <= 9218
  BY RunningOptions
<1>2. get_l2mtu_from_mtu(m) = m + 22
  BY <1>1, NoOverflow
<1>3. l2mtu = get_l2mtu_from_mtu(m)
  BY DEF IInv, Derived
<1>4. buffer_size = l2mtu + l2mtu \div 10
  BY DEF IInv, Derived, SizeOfBuffer
<1> HIDE DEF m
<1>5. l2mtu = m + 22
  BY <1>2, <1>3
<1>6. l2mtu \in Nat /\ l2mtu >= 1222 /\ l2mtu <= 9240
  BY <1>1, <1>5
<1> DEFINE tenth == l2mtu \div 10
<1>7. tenth \in Nat /\ tenth <= l2mtu
  BY <1>6
<1>8. buffer_size = l2mtu + tenth
  BY <1>4
<1> HIDE DEF tenth
<1>9. buffer_size \in Nat /\ buffer_size <= 65535
  BY <1>6, <1>7, <1>8
<1>10. l2mtu <= 65535
  BY <1>6
<1>. QED BY <1>6, <1>9, <1>10, Fits16

(* The largest packet of a node. *)
PacketSizes == {n \in Nat : n >= 1152 /\ n <= 9190}

LEMMA RunningPackets ==
  ASSUME IInv, stage = "running", NEW k \in DOMAIN nodes
  PROVE  nodes[k].l4mtu \in PacketSizes
<1> DEFINE t == cfg.txsize
           l4 == nodes[k].l4mtu
<1>1. t \in Nat /\ t >= 1200 /\ t <= 9218
  BY RunningOptions
<1>2. PICK overhead \in {20, 40} : l4 = t - overhead - 8
  BY NodeSizes
<1> HIDE DEF t, l4
<1>3. l4 \in PacketSizes
  <2>1. CASE overhead = 20
    BY <1>1, <1>2, <2>1 DEF PacketSizes
  <2>2. CASE overhead = 40
    BY <1>1, <1>2, <2>2 DEF PacketSizes
  <2>. QED BY <2>1, <2>2
<1>. QED BY <1>3 DEF l4

(* Type correctness of the start: whatever is given, the sizes fit 16 bits, *)
(* and options that pass main() are within the limits of common.hpp.       *)
THEOREM TypeCorrect == Spec => []TypeOK
<1>1. IInv => TypeOK
  <2>. SUFFICES ASSUME IInv PROVE TypeOK
    OBVIOUS
  <2>1. OptionsTyped
    <3>1. ASSUME stage = "constructor" PROVE OptionsTyped
      <4>1. /\ cfg.mtu \in Nat /\ cfg.mtu >= 1200 /\ cfg.mtu <= 9218
            /\ cfg.txsize \in Nat /\ cfg.txsize >= 1200 /\ cfg.txsize <= 9218
            /\ cfg.dst # {}
        BY <3>1, AllowedOptions DEF IInv
      <4>. QED BY <4>1 DEF OptionsTyped
    <3>2. ASSUME stage = "running" PROVE OptionsTyped
      BY <3>2, RunningOptions DEF OptionsTyped
    <3>. QED BY <3>1, <3>2 DEF OptionsTyped
  <2>2. CASE stage # "running"
    <3>1. nodes = <<>> /\ l2mtu = 0 /\ buffer_size = 0 /\ buffer_count = 0
      BY <2>2 DEF IInv, NotConstructed
    <3>2. DOMAIN nodes = {} /\ 0 \in UInt16
      BY <3>1, Fits16
    <3>. QED BY <2>1, <3>1, <3>2 DEF IInv, SizesTyped, NodesTyped, TypeOK
  <2>3. CASE stage = "running"
    <3>1. l2mtu \in UInt16 /\ buffer_size \in UInt16
      BY <2>3, RunningSizes
    <3>2. buffer_count \in Nat
      <4>1. Cardinality(cfg.dst) \in Nat
        BY FS_CardinalityType DEF IInv
      <4>2. \/ buffer_count = 5000 * Cardinality(cfg.dst)
            \/ buffer_count = 5000 * Cardinality(cfg.dst) * 1
        BY <2>3 DEF IInv, Derived, BufferCount, SETH_BUFFER_COUNT
      <4>. QED BY <4>1, <4>2
    <3>3. DOMAIN nodes \subseteq NodeKeys
      BY <2>3, DestinationsValid, AddressTyped DEF IInv, Derived, Keys
    <3>4. ASSUME NEW k \in DOMAIN nodes
          PROVE  nodes[k] \in NodeType
      <4> DEFINE l4 == nodes[k].l4mtu
      <4>1. l4 \in PacketSizes
        BY <2>3, RunningPackets
      <4>2. PICK a \in cfg.dst : nodes[k] = RemoteNode(a)
        BY <2>3 DEF IInv, Derived
      <4>3. to_sockaddr_storage_ipv6(a) \in Addresses
        BY <2>3, DestinationsValid, AddressTyped
      <4>4. nodes[k] = [addr |-> to_sockaddr_storage_ipv6(a), l4mtu |-> l4]
        BY <4>2 DEF RemoteNode
      <4> HIDE DEF l4
      <4>5. l4 \in UInt16
        BY <4>1, Fits16 DEF PacketSizes
      <4>. QED BY <4>3, <4>4, <4>5 DEF NodeType
    <3>5. NodesTyped
      BY <3>3, <3>4 DEF NodesTyped
    <3>6. SizesTyped
      BY <3>1, <3>2 DEF SizesTyped
    <3>. QED BY <2>1, <3>5, <3>6 DEF IInv, TypeOK
  <2>. QED BY <2>2, <2>3
<1>. QED BY <1>1, Invariant, PTL

(* Nodes are no more than destinations; some share a key. *)
LEMMA NodesFewer ==
  ASSUME IInv, stage = "running"
  PROVE  /\ Cardinality(DOMAIN nodes) \in Nat /\ Cardinality(cfg.dst) \in Nat
         /\ Cardinality(DOMAIN nodes) <= Cardinality(cfg.dst)
         /\ Cardinality(cfg.dst) >= 1
<1>1. IsFiniteSet(cfg.dst) /\ cfg.dst # {} /\ DOMAIN nodes = Keys
  BY RunningOptions DEF IInv, Derived
<1>2. Cardinality(cfg.dst) \in Nat /\ Cardinality(cfg.dst) # 0
  BY <1>1, FS_CardinalityType, FS_EmptySet
<1> DEFINE key == [a \in cfg.dst |-> get_key_from_sockaddr(a)]
<1>3. key \in Surjection(cfg.dst, Keys)
  BY DEF Keys, Surjection
<1>4. IsFiniteSet(Keys) /\ Cardinality(Keys) <= Cardinality(cfg.dst)
  BY <1>1, <1>3, FS_Surjection
<1>5. Cardinality(Keys) \in Nat
  BY <1>4, FS_CardinalityType
<1>. QED BY <1>1, <1>2, <1>4, <1>5

(* A frame of the largest MTU is in at most ten parts, as a packet has at   *)
(* least 1152 bytes.                                                       *)
LEMMA FewParts ==
  ASSUME l2mtu \in Nat, l2mtu <= 9240, NEW l4mtu \in PacketSizes
  PROVE  Parts(l4mtu) \in 0..10
<1>1. l4mtu - 8 - 8 - 88 \in Nat /\ l4mtu - 8 - 8 - 88 >= 1048
  BY DEF PacketSizes
<1>2. ASSUME NEW room \in Nat, room >= 1048
      PROVE  l2mtu \div room \in 0..8
  BY <1>2
<1>. QED BY <1>1, <1>2 DEF Parts

(* The buffers that PacketSwitch makes are more than the socket reader and  *)
(* the decoders can keep among themselves (packet_switch.cpp:69), for any  *)
(* number of destinations: BufferPath's assumption on the pool holds.      *)
THEOREM PoolsAlwaysSuffice == Spec => []PoolsSuffice
<1>1. IInv => PoolsSuffice
  <2>. SUFFICES ASSUME IInv, stage = "running", NEW k \in DOMAIN nodes
                PROVE  buffer_count >
                         SETH_MAX_RECVMM_MESSAGES
                           + Cardinality(DOMAIN nodes) * (Parts(nodes[k].l4mtu) + 2)
    BY DEF PoolsSuffice
  <2> DEFINE n == Cardinality(DOMAIN nodes)
             d == Cardinality(cfg.dst)
             p == Parts(nodes[k].l4mtu)
  <2> HIDE DEF p
  <2>1. n \in Nat /\ d \in Nat /\ n <= d /\ d >= 1
    BY NodesFewer
  <2>2. p \in 0..10
    <3>1. l2mtu \in Nat /\ l2mtu <= 9240
      BY RunningSizes
    <3>2. nodes[k].l4mtu \in PacketSizes
      BY RunningPackets
    <3>. QED BY <3>1, <3>2, FewParts DEF p
  <2>3. buffer_count = 5000 * d \/ buffer_count = 5000 * d * 1
    BY DEF IInv, Derived, BufferCount, SETH_BUFFER_COUNT
  <2> HIDE DEF n, d
  <2>4. n * (p + 2) <= n * 12
    BY <2>1, <2>2
  <2>5. 256 + n * (p + 2) < 5000 * d
    <3>1. n * (p + 2) \in Nat
      BY <2>1, <2>2
    <3>. QED BY <2>1, <2>4, <3>1
  <2>6. buffer_count = 5000 * d
    BY <2>1, <2>3
  <2>7. 256 + n * (p + 2) < buffer_count
    BY <2>5, <2>6
  <2>8. buffer_count > 256 + n * (p + 2)
    <3>1. n * (p + 2) \in Nat /\ buffer_count \in Nat
      BY <2>1, <2>2, <2>6
    <3>. QED BY <2>7, <3>1
  <2>. QED BY <2>8 DEF n, p, SETH_MAX_RECVMM_MESSAGES
<1>. QED BY <1>1, Invariant, PTL
=============================================================================
