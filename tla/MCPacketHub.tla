----------------------------- MODULE MCPacketHub -----------------------------
(* PacketHub on small instances: no liveness property allows symmetry.       *)
EXTENDS PacketHub
=============================================================================
