------------------------------ MODULE MC_Config ------------------------------
(* Command lines and files with the numbers around each limit, no, one or   *)
(* two spellings of a node, and an address that looks like a mapped one.    *)
EXTENDS Config

MCHosts == {0, 1}

Given(mtu, txsize, dst) ==
  [NoOptions EXCEPT !.mtu = mtu, !.txsize = txsize, !.dst = dst]

Valid == Given(1500, 1400, {V4(1)})

MCCommandLines ==
  {[usage |-> FALSE, config |-> FALSE, options |-> Given(m, t, d)] :
     m \in {0, 1199, 1200, 1500, 9000, 9218, 9219},
     t \in {-1, 1199, 1200, 1500, 9218, 9219},
     d \in {{}, {V4(1)}, {V4(1), V6("zero", TRUE, 1), V6("other", FALSE, 0)},
            {V6("other", TRUE, 1), V6("zero", FALSE, 1)}}}
  \union
  {[usage |-> FALSE, config |-> FALSE, options |-> o] : o \in
     {[Valid EXCEPT !.src = s, !.port = p] :
        s \in {V4(0), V6("other", FALSE, 1), Unparsable}, p \in {0, 65536}}
     \union {[Valid EXCEPT !.names[n] = v] :
               n \in Names, v \in {"valid", "invalid"}}
     \union {Given(1500, 1400, {V4(1), Unparsable})}}
  \union {[usage |-> u, config |-> TRUE, options |-> Valid] : u \in BOOLEAN}

MCConfFiles ==
  {[state |-> s, options |-> NoOptions] :
     s \in {"missing", "unparsable", "no_number"}}
  \union
  {[state |-> "read", options |-> o] :
     o \in {NoOptions, Given(9000, 0, {V6("zero", TRUE, 0)}),
            [Given(0, 1300, {V4(0)}) EXCEPT !.names["ifname"] = "invalid"]}}
=============================================================================
