--------------------------- MODULE MCTestPrograms --------------------------
(***************************************************************************)
(* TestPrograms for TLC: a machine with two packages of two siblings, one    *)
(* with a single package, and one with a single processor in each.          *)
(***************************************************************************)
EXTENDS TestPrograms

MCMachine == {"CPU_XEON", "CPU_CORE_SINGLE", "CPU_P6"}

=============================================================================
