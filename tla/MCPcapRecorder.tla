--------------------------- MODULE MCPcapRecorder ---------------------------
(* Instances of PcapRecorder for TLC. *)
EXTENDS PcapRecorder

\* "icmp" and "ICMP" are different filters with one sanitised name.
MCSafeFilterName(f) == IF f = "ICMP" THEN "icmp" ELSE f
=============================================================================
