---------------------------- MODULE MCPrimitives ----------------------------
(***************************************************************************)
(* Primitives for TLC: four synchronisations, so that notifications can     *)
(* fall together, be taken, and fall together again.                       *)
(***************************************************************************)
EXTENDS Primitives

=============================================================================
