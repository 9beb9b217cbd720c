---------------------------- MODULE FrameTransport ----------------------------
(***************************************************************************)
(* What one direction of the tunnel promises to the two tap interfaces:    *)
(* frames that were accepted come out again, never altered and never       *)
(* invented.  What else holds is the service; a fault of the network or of *)
(* a node may weaken it, and nothing makes it stronger again:              *)
(*                                                                         *)
(*   "fifo"     every frame comes out, once, in the order of acceptance    *)
(*   "ordered"  frames may be missing, but none is repeated or overtaken   *)
(*   "any"      frames may be missing, repeated and out of order           *)
(***************************************************************************)
EXTENDS Naturals, Sequences

CONSTANT Sizes

VARIABLES accepted,  \* frames read from the one tap interface
          delivered, \* frames written to the other
          service

vars == <<accepted, delivered, service>>

Weaker == [fifo |-> {"ordered", "any"}, ordered |-> {"any"}, any |-> {}]

(* The nth frame accepted has id n. *)
LastDelivered ==
  IF delivered = <<>> THEN 0 ELSE delivered[Len(delivered)].id

Eligible ==
  CASE service = "fifo"    -> {LastDelivered + 1} \intersect DOMAIN accepted
    [] service = "ordered" -> {i \in DOMAIN accepted : i > LastDelivered}
    [] service = "any"     -> DOMAIN accepted

Init == accepted = <<>> /\ delivered = <<>> /\ service = "fifo"

Accept ==
  /\ \E size \in Sizes :
       accepted' = Append(accepted, [id |-> Len(accepted) + 1, size |-> size])
  /\ UNCHANGED <<delivered, service>>

Deliver ==
  /\ \E i \in Eligible : delivered' = Append(delivered, accepted[i])
  /\ UNCHANGED <<accepted, service>>

Fail ==
  /\ service' \in Weaker[service]
  /\ UNCHANGED <<accepted, delivered>>

Next == Accept \/ Deliver \/ Fail

Spec == Init /\ [][Next]_vars
=============================================================================
