----------------------------- MODULE CodecBuffers -----------------------------
(***************************************************************************)
(* What a codec, the packet encoder or the packet decoder, promises the    *)
(* threads around it about buffers, whatever is in them: it takes one with *)
(* every frame or packet it is given, keeps some, gives others back, and   *)
(* after each one that it hands to the writer it waits for a new one,      *)
(* without giving back what it keeps meanwhile.                            *)
(*                                                                         *)
(* PacketEncoder and PacketDecoder implement this specification.  In       *)
(* BufferPath every codec of a daemon keeps to it, which is all that       *)
(* module assumes of them.                                                 *)
(***************************************************************************)
EXTENDS Naturals

VARIABLES
  outside,  \* buffers that the codec has not and did not hand to the writer
  held,     \* buffers the codec has
  queue,    \* buffers it has handed to the writer
  waiting   \* TRUE iff it is in pop_wait()

vars == <<outside, held, queue, waiting>>

(* One buffer to fill and one for (de)compression, from the constructor on. *)
Own == 2

Init ==
  /\ outside \in Nat
  /\ held = Own /\ queue = 0 /\ waiting = FALSE

(* A frame or packet comes; the codec may give it back at once, with others *)
(* it kept.                                                                *)
Take ==
  /\ ~waiting /\ outside > 0
  /\ held' \in Own..(held + 1)
  /\ outside' + held' = outside + held
  /\ UNCHANGED <<queue, waiting>>

Release ==
  /\ ~waiting
  /\ held' \in Own..held
  /\ outside' + held' = outside + held
  /\ UNCHANGED <<queue, waiting>>

Emit ==
  /\ ~waiting
  /\ held' \in (Own - 1)..(held - 1)
  /\ outside' + held' + 1 = outside + held
  /\ queue' = queue + 1
  /\ waiting' = TRUE

GetBuffer ==
  /\ waiting /\ outside > 0
  /\ held' \in Own..(held + 1)
  /\ outside' + held' = outside + held
  /\ waiting' = FALSE
  /\ UNCHANGED queue

(* The writer returns one or more of its buffers. *)
Write ==
  /\ queue' \in 0..(queue - 1)
  /\ outside' + queue' = outside + queue
  /\ UNCHANGED <<held, waiting>>

Next == Take \/ Release \/ Emit \/ GetBuffer \/ Write

Spec == Init /\ [][Next]_vars
=============================================================================
