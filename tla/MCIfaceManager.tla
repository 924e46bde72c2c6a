--------------------------- MODULE MCIfaceManager ---------------------------
(* Instances of IfaceManager for TLC. *)
EXTENDS IfaceManager

\* Docker gives every veth a name of its own.
OwnName(d) == d
=============================================================================
