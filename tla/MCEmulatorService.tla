------------------------- MODULE MCEmulatorService -------------------------
(* An instance of EmulatorService for TLC. *)
EXTENDS EmulatorService, TLC

CONSTANTS c1, c2, n1, n2, watcher, other, packets

TwoNodes == <<n1, n2>>

\* Two subscribers watch the sniffer, one the packets.
Kind(s) == IF s = packets THEN "packet" ELSE "sniff"

Symmetry == Permutations(Calls) \cup Permutations({watcher, other})
=============================================================================
