----------------------------- MODULE MC_BufferPath -----------------------------
(***************************************************************************)
(* BufferPath for TLC.  The nodes differ in nothing but their names.       *)
(***************************************************************************)
EXTENDS BufferPath, TLC

NodeSymmetry == Permutations(Nodes)
=============================================================================
