-------------------------------- MODULE Config --------------------------------
(***************************************************************************)
(* The start of the daemon: main() of src/src/main.cpp settles the         *)
(* configuration from the command line, the configuration file and the     *)
(* defaults, and the constructors of PacketSwitch and RemoteNode derive    *)
(* the sizes that the encoders and decoders work with and the keys by      *)
(* which nodes are known.                                                  *)
(*                                                                         *)
(* A number that is not given is 0, as in the code, where any value below  *)
(* 1 counts as not given.  Of a name (log level, interface, compression)   *)
(* only matters whether it is one the program accepts.  Of an address      *)
(* matter its family, whether bytes 0 to 9 are zero, whether bytes 10 and  *)
(* 11 are 0xFFFF, and the rest, the host.                                  *)
(***************************************************************************)
EXTENDS Integers, FiniteSets

CONSTANTS
  Hosts,         \* values of the last four bytes of an address
  CommandLines,  \* the command lines, and
  ConfFiles      \* the configuration files, to start from

V4(host) == [family |-> "v4", prefix |-> "zero", ffff |-> TRUE, host |-> host]
V6(prefix, ffff, host) ==
  [family |-> "v6", prefix |-> prefix, ffff |-> ffff, host |-> host]
NotGiven   == [family |-> "absent", prefix |-> "zero", ffff |-> FALSE, host |-> 0]
Unparsable == [family |-> "none", prefix |-> "zero", ffff |-> FALSE, host |-> 0]

Addresses ==
  {a \in [family : {"v4", "v6"}, prefix : {"zero", "other"}, ffff : BOOLEAN,
          host : Hosts] : a.family = "v4" => a = V4(a.host)}

Names == {"loglevel", "ifname", "compression"}

(* What the command line or the file gives.  The destinations are a set,   *)
(* for they are sorted and repeated ones removed; strings that parse to    *)
(* the same IPv6 address are taken for one.                                *)
Options ==
  [mtu : Int, txsize : Int, port : Int,
   src : Addresses \union {NotGiven, Unparsable},
   dst : SUBSET (Addresses \union {Unparsable}),
   names : [Names -> {"absent", "valid", "invalid"}]]

NoOptions ==
  [mtu |-> 0, txsize |-> 0, port |-> 0, src |-> NotGiven, dst |-> {},
   names |-> [n \in Names |-> "absent"]]

(* usage: -v, -h or an unknown option; config: a file is named with -c.    *)
(* A file that is there may not parse, or hold a number that is none.      *)
ASSUME ConfigAssumption ==
  /\ 0 \in Hosts
  /\ CommandLines \subseteq [usage : BOOLEAN, config : BOOLEAN, options : Options]
  /\ ConfFiles \subseteq
       [state : {"missing", "unparsable", "no_number", "read"}, options : Options]
  /\ \A c \in CommandLines : IsFiniteSet(c.options.dst)
  /\ \A f \in ConfFiles : IsFiniteSet(f.options.dst)

VARIABLES
  stage,         \* "main", "constructor", "running", "refused" or "aborted"
  cmdline,       \* the command line
  conffile,      \* the configuration file
  cfg,           \* the settled options
  l2mtu,         \* largest Ethernet frame
  buffer_size,   \* of every buffer
  buffer_count,  \* of either available pool
  nodes          \* remote_nodes: key -> [addr, l4mtu]

packet_switch == <<l2mtu, buffer_size, buffer_count, nodes>>
vars == <<stage, cmdline, conffile, cfg, packet_switch>>

Init ==
  /\ stage = "main"
  /\ cmdline \in CommandLines /\ conffile \in ConfFiles
  /\ cfg = NoOptions
  /\ l2mtu = 0 /\ buffer_size = 0 /\ buffer_count = 0 /\ nodes = <<>>

-----------------------------------------------------------------------------
(* The limits of common.hpp. *)
SETH_MIN_MTU_SIZE == 1200
SETH_MAX_MTU_SIZE == 9218
SETH_MIN_TXSIZE   == 1200
SETH_MAX_TXSIZE   == 9218
SETH_BUFFER_COUNT == 5000
SETH_MAX_RECVMM_MESSAGES == 256

FileOptions == IF conffile.state = "read" THEN conffile.options ELSE NoOptions

(* The command line goes before the file, and the file before the default. *)
First(given, fallback) == IF given # NotGiven THEN given ELSE fallback
Number(name, default) ==
  IF cmdline.options[name] > 0 THEN cmdline.options[name]
  ELSE IF FileOptions[name] > 0 THEN FileOptions[name]
  ELSE default

Settled ==
  [mtu    |-> Number("mtu", 1500),
   txsize |-> Number("txsize", 1500),
   port   |-> Number("port", 58023),
   src    |-> First(cmdline.options.src,
                First(FileOptions.src, V6("zero", FALSE, 0))),
   dst    |-> IF cmdline.options.dst # {} THEN cmdline.options.dst
              ELSE FileOptions.dst,
   names  |-> [n \in Names |->
                IF cmdline.options.names[n] # "absent"
                THEN cmdline.options.names[n] ELSE FileOptions.names[n]]]

(* Mutant: the MTU is not limited. *)
Allowed_AnyMTU(c) ==
  /\ c.txsize \in SETH_MIN_TXSIZE..SETH_MAX_TXSIZE
  /\ c.port >= 1 /\ c.port <= 65535
  /\ c.src # Unparsable
  /\ c.dst # {} /\ Unparsable \notin c.dst
  /\ \A n \in Names : c.names[n] # "invalid"

Allowed(c) ==
  /\ c.mtu \in SETH_MIN_MTU_SIZE..SETH_MAX_MTU_SIZE
  /\ c.txsize \in SETH_MIN_TXSIZE..SETH_MAX_TXSIZE
  /\ c.port >= 1 /\ c.port <= 65535
  /\ c.src # Unparsable
  /\ c.dst # {} /\ Unparsable \notin c.dst
  /\ \A n \in Names : c.names[n] # "invalid"

(* An error that nobody catches: ptree_bad_data, where ptree_bad_path is    *)
(* expected.                                                               *)
Abort ==
  /\ stage = "main" /\ ~cmdline.usage
  /\ conffile.state = "no_number"
  /\ stage' = "aborted"
  /\ UNCHANGED <<cmdline, conffile, cfg, packet_switch>>

FileRefused ==
  \/ conffile.state = "unparsable"
  \/ conffile.state = "missing" /\ cmdline.config

Refuse ==
  /\ stage = "main"
  /\ \/ cmdline.usage
     \/ FileRefused
     \/ conffile.state # "no_number" /\ ~Allowed(Settled)
  /\ stage' = "refused"
  /\ UNCHANGED <<cmdline, conffile, cfg, packet_switch>>

Accept ==
  /\ stage = "main"
  /\ ~cmdline.usage /\ ~FileRefused /\ conffile.state # "no_number"
  /\ Allowed(Settled)
  /\ cfg' = Settled
  /\ stage' = "constructor"
  /\ UNCHANGED <<cmdline, conffile, packet_switch>>

-----------------------------------------------------------------------------
get_l2mtu_from_mtu(mtu) == (mtu + 14 + 8) % 65536

(* Ten per cent more, for what compression may add. *)
SizeOfBuffer == LET l2 == get_l2mtu_from_mtu(cfg.mtu) IN l2 + l2 \div 10

(* Mutant: the pools are scaled by the wrong comparison. *)
BufferCount_Scaled ==
  SETH_BUFFER_COUNT * Cardinality(cfg.dst)
    * (IF cfg.mtu \div cfg.txsize > 1 THEN 1 ELSE 0)

(* mtu_mutiplier is the outcome of the comparison, so 1 or, when it is not  *)
(* used, 0.                                                                *)
BufferCount ==
  LET mtu_mutiplier == IF cfg.mtu \div cfg.txsize > 0 THEN 1 ELSE 0
      count == SETH_BUFFER_COUNT * Cardinality(cfg.dst)
  IN  IF mtu_mutiplier # 0 THEN count * mtu_mutiplier ELSE count

(* Of an address of family AF_INET it says no, of an IPv6 address whether   *)
(* bytes 10 and 11 are those of a mapped IPv4 address.                     *)
is_ipv4(a) == a.family = "v6" /\ a.ffff

(* Mutant: the key of an IPv4 address is not in mapped form. *)
get_key_from_sockaddr_Plain(a) ==
  [prefix |-> a.prefix, ffff |-> a.family = "v6" /\ a.ffff, host |-> a.host]

get_key_from_sockaddr(a) ==
  IF a.family = "v4" THEN [prefix |-> "zero", ffff |-> TRUE, host |-> a.host]
  ELSE [prefix |-> a.prefix, ffff |-> a.ffff, host |-> a.host]

to_sockaddr_storage_ipv6(a) ==
  IF a.family = "v4" THEN V6("zero", TRUE, a.host) ELSE a

(* Mutant: the header sizes are the wrong way round. *)
RemoteNode_Swapped(a) ==
  [addr  |-> to_sockaddr_storage_ipv6(a),
   l4mtu |-> cfg.txsize - (IF is_ipv4(a) THEN 40 ELSE 20) - 8]

RemoteNode(a) ==
  [addr  |-> to_sockaddr_storage_ipv6(a),
   l4mtu |-> cfg.txsize - (IF is_ipv4(a) THEN 20 ELSE 40) - 8]

Keys == {get_key_from_sockaddr(a) : a \in cfg.dst}

(* Mutant: tx_size may exceed the MTU. *)
SizesAgree_Not == TRUE

SizesAgree == cfg.txsize <= cfg.mtu

(* The socket is of family AF_INET6 and cannot be bound to an address of    *)
(* another one.                                                            *)
Bindable == cfg.src.family = "v6"

(* The tap interface or the socket may fail for reasons of their own. *)
RefuseSwitch ==
  /\ stage = "constructor"
  /\ stage' = "refused"
  /\ UNCHANGED <<cmdline, conffile, cfg, packet_switch>>

(* Of destinations with the same key the last one stays; which one that is  *)
(* depends on how they are spelled.                                        *)
Construct ==
  /\ stage = "constructor"
  /\ SizesAgree /\ Bindable
  /\ l2mtu' = get_l2mtu_from_mtu(cfg.mtu)
  /\ buffer_size' = SizeOfBuffer
  /\ buffer_count' = BufferCount
  /\ \E last \in [Keys -> cfg.dst] :
       /\ \A k \in Keys : get_key_from_sockaddr(last[k]) = k
       /\ nodes' = [k \in Keys |-> RemoteNode(last[k])]
  /\ stage' = "running"
  /\ UNCHANGED <<cmdline, conffile, cfg>>

Next == Abort \/ Refuse \/ Accept \/ RefuseSwitch \/ Construct

Spec == Init /\ [][Next]_vars

-----------------------------------------------------------------------------
NodeKeys == [prefix : {"zero", "other"}, ffff : BOOLEAN, host : Hosts]
UINT16_MAX == 65535
UInt16   == 0..UINT16_MAX
NodeType == [addr : Addresses, l4mtu : UInt16]

OptionsTyped ==
  stage \in {"constructor", "running"} =>
    /\ cfg.mtu \in Nat /\ cfg.mtu >= 1200 /\ cfg.mtu <= 9218
    /\ cfg.txsize \in Nat /\ cfg.txsize >= 1200 /\ cfg.txsize <= 9218
    /\ cfg.dst # {}

SizesTyped ==
  l2mtu \in UInt16 /\ buffer_size \in UInt16 /\ buffer_count \in Nat

NodesTyped ==
  DOMAIN nodes \subseteq NodeKeys /\ \A k \in DOMAIN nodes : nodes[k] \in NodeType

TypeOK ==
  /\ stage \in {"main", "constructor", "running", "refused", "aborted"}
  /\ cmdline \in CommandLines /\ conffile \in ConfFiles
  /\ cfg \in Options
  /\ OptionsTyped /\ SizesTyped /\ NodesTyped

(* The codec of a node; the range of sequence numbers has no say in it. *)
C(l4mtu) ==
  INSTANCE Codec WITH L2MTU <- l2mtu, L4MTU <- l4mtu,
                      BufferSize <- buffer_size, SeqMax <- 5

(* packet_switch.cpp:45 refuses a tx_size above the MTU: with what it lets  *)
(* pass, the encoder and the decoder of every node get the sizes that they *)
(* are correct for (Codec).                                                *)
CodecSized ==
  stage = "running" => \A k \in DOMAIN nodes : C(nodes[k].l4mtu)!SizeAssumption

(* A packet to a mapped address leaves the socket as IPv4, every other one  *)
(* as IPv6.                                                                *)
IsMapped(a) == a.prefix = "zero" /\ a.ffff
Headers(a) == 8 + (IF IsMapped(a) THEN 20 ELSE 40)

(* The transmission packet size of --txsize is kept, headers included       *)
(* (remote_node.cpp:32), except towards an IPv6 address that happens to    *)
(* have 0xFFFF in bytes 10 and 11, which is_ipv4() takes for a mapped one. *)
PathRespected ==
  stage = "running" =>
    \A k \in DOMAIN nodes :
      LET a == nodes[k].addr
      IN  a.ffff = IsMapped(a) => nodes[k].l4mtu + Headers(a) <= cfg.txsize

(* The kernel gives the sender of a packet as an IPv6 address.  The socket  *)
(* reader knows it (packet_switch.cpp:403) exactly if it is a destination, *)
(* and the node it finds sends to that address.                            *)
PeersRecognised ==
  stage = "running" =>
    \A a \in Addresses :
      LET seen == to_sockaddr_storage_ipv6(a)
          key  == get_key_from_sockaddr(seen)
      IN  /\ key \in DOMAIN nodes <=>
               \E d \in cfg.dst : to_sockaddr_storage_ipv6(d) = seen
          /\ key \in DOMAIN nodes => nodes[key].addr = seen

(* The pool is larger than what the threads own whatever happens: the       *)
(* socket reader keeps a batch of buffers, and each decoder one to fill,   *)
(* one in hand and a packet for every part of a frame, before any of them  *)
(* is returned.  So only packets that are queued can exhaust it            *)
(* (BufferPath, whose assumption this is).                                 *)
Parts(l4mtu) == l2mtu \div (l4mtu - 8 - 8 - 88) + 2

PoolsSuffice ==
  stage = "running" =>
    \A k \in DOMAIN nodes :
      buffer_count >
        SETH_MAX_RECVMM_MESSAGES
          + Cardinality(DOMAIN nodes) * (Parts(nodes[k].l4mtu) + 2)
=============================================================================
