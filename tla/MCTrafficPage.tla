--------------------------- MODULE MCTrafficPage ---------------------------
(* One file: its packet can be told from a recorded one. *)
EXTENDS TrafficPage

MCLists == {<<4>>}
=============================================================================
