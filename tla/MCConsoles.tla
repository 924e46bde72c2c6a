----------------------------- MODULE MCConsoles -----------------------------
(* An instance of Consoles for TLC. *)
EXTENDS Consoles
=============================================================================
