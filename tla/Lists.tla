-------------------------------- MODULE Lists ---------------------------------
(***************************************************************************)
(* Parts of lists, without operators as arguments, so that the provers can *)
(* use what is proved about them.                                          *)
(***************************************************************************)
EXTENDS Integers, Sequences, FiniteSets, Functions

Min2(a, b) == IF a < b THEN a ELSE b

(* The elements of a finite set, in an order left open. *)
ListOf(S) == CHOOSE list \in [1 .. Cardinality(S) -> S] : IsInjective(list)

(* A set of places, in their order. *)
Places(I) ==
  [i \in 1 .. Cardinality(I) |-> CHOOSE p \in I : Cardinality({q \in I : q < p}) = i - 1]

(* The members of a list at these places. *)
Picked(list, I) == LET at == Places(I) IN [i \in DOMAIN at |-> list[at[i]]]
=============================================================================
