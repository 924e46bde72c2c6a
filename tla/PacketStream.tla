---------------------------- MODULE PacketStream ----------------------------
(***************************************************************************)
(* What the realtime packet stream of traffic-observer-service promises a  *)
(* browser that opens /ws/packets, independently of channels, goroutines   *)
(* and locks.  Packets are identified with their position in the order in  *)
(* which the collector broadcasts them.                                    *)
(*                                                                         *)
(* A subscriber receives, in order and without a gap, the packets          *)
(* broadcast from the moment it joined.  It is live until the service      *)
(* drops it, and a live subscriber is never more than Window packets       *)
(* behind.  A packet already on its way when a subscriber is dropped may   *)
(* still arrive.                                                           *)
(***************************************************************************)
EXTENDS Naturals, Sequences

CONSTANTS
  Clients,      (* websocket connections; each is used once *)
  Window,       (* how far a live subscriber may lag *)
  MaxMessages   (* bound on the number of packets *)

VARIABLES
  published,    (* number of packets broadcast so far *)
  status,       (* "new", "live" or "dropped", per connection *)
  first,        (* the packet a subscription starts with *)
  received      (* the packets a subscriber has received *)

vars == <<published, status, first, received>>

Lag(c) == (published + 1) - (first[c] + Len(received[c]))

Init ==
  /\ published = 0
  /\ status = [c \in Clients |-> "new"]
  /\ first = [c \in Clients |-> 1]
  /\ received = [c \in Clients |-> <<>>]

Publish ==
  /\ published < MaxMessages
  /\ \A c \in Clients : status[c] = "live" => Lag(c) < Window
  /\ published' = published + 1
  /\ UNCHANGED <<status, first, received>>

Join(c) ==
  /\ status[c] = "new"
  /\ status' = [status EXCEPT ![c] = "live"]
  /\ first' = [first EXCEPT ![c] = published + 1]
  /\ UNCHANGED <<published, received>>

Receive(c) ==
  /\ status[c] # "new"
  /\ Lag(c) > 0
  /\ received' = [received EXCEPT ![c] = Append(@, first[c] + Len(@))]
  /\ UNCHANGED <<published, status, first>>

Drop(c) ==
  /\ status[c] = "live"
  /\ status' = [status EXCEPT ![c] = "dropped"]
  /\ UNCHANGED <<published, first, received>>

\* PacketHub.Close drops every subscriber at once.
DropAll ==
  /\ status' = [c \in Clients |-> IF status[c] = "live" THEN "dropped" ELSE status[c]]
  /\ UNCHANGED <<published, first, received>>

Next ==
  \/ Publish
  \/ DropAll
  \/ \E c \in Clients : Join(c) \/ Receive(c) \/ Drop(c)

Spec == Init /\ [][Next]_vars
=============================================================================
