-------------------------- MODULE MC_PacketEncoder --------------------------
(* The encoder with an MTU of 3000 and a path of 1452 payload bytes, the    *)
(* largest frame and one that is too large.  The .cfg chooses what the      *)
(* largest frame is compressed to: a quarter of a packet, so that up to     *)
(* four frames are in flight and fill a packet exactly; a size that leaves  *)
(* a whole packet with less than the flush reserve; and a quarter more than *)
(* a packet holds, which is always split.  Every sum of these is a multiple *)
(* of a quarter, so that there are few fill levels.                         *)
EXTENDS PacketEncoder

MC_Frames == [id : {1}, size : {3022, 3023}]
=============================================================================
