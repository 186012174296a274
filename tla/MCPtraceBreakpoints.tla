------------------------ MODULE MCPtraceBreakpoints ------------------------
(* Instances of PtraceBreakpoints: one process with a thread still to be   *)
(* created, and two processes of which the second is traced by another     *)
(* debugger or shares the addresses of the first.                          *)
EXTENDS PtraceBreakpoints, TLC

CONSTANTS p1, p2, t1, t2, t3, a1, a2

OwnerOne == [t \in {t1, t2} |-> p1]
MainOne == [p \in {p1} |-> t1]
OwnerTwo == (t1 :> p1) @@ (t2 :> p2)
OwnerOthers == (t1 :> p1) @@ (t2 :> p2) @@ (t3 :> p2)
MainTwo == (p1 :> t1) @@ (p2 :> t2)
BelowOne == (a1 :> NoAddr)
BelowTwo == (a1 :> NoAddr) @@ (a2 :> a1)
=============================================================================
