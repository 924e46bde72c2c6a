-------------------------- MODULE MCCaptureControl --------------------------
(* Instances of CaptureControl for TLC. *)
EXTENDS FilteredCapture

MCFilters == { <<"icmp", "or", "tcp">>, <<"udp", "host", "a", "and", "dst", "port", "53">> }
=============================================================================
