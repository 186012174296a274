--------------------------- MODULE MCMemoryChain ----------------------------
(***************************************************************************)
(* Processes are interchangeable; the safety runs use that.                *)
(***************************************************************************)
EXTENDS MemoryChain, TLC

Symmetry == Permutations(Pids)
=============================================================================
