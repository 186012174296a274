--------------------------- MODULE MCPerfBreakpoints ---------------------------
(* Two processes; the first has one thread at the start and may get another. *)
EXTENDS PerfBreakpoints

CONSTANTS p1, p2, t1, t2, u1, x, w

MCOwner == [t \in Threads |-> IF t = u1 THEN p2 ELSE p1]
MCInitLive == {t1, u1}
=============================================================================
