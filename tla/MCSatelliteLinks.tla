-------------------------- MODULE MCSatelliteLinks --------------------------
(* Two satellites, two stations, and five files: a frame, two requests whose *)
(* frames overlap and leave a gap, the second of them earlier than the       *)
(* first, no frame, and an interval that is no number.                       *)
EXTENDS SatelliteLinks

Up(ground, isl) == [ground |-> ground, isl |-> isl]

A == Up({<<"a", "x">>}, {})
B == Up({<<"a", "y">>, <<"b", "y">>}, {{"a", "b"}})

MCFiles == {
  <<[timestamp |-> 1, interval |-> 2, links |-> <<A, B>>]>>,
  <<[timestamp |-> 3, interval |-> 1, links |-> <<A, B>>], [timestamp |-> 0, interval |-> 2, links |-> <<B, A>>]>>,
  <<[timestamp |-> 0, interval |-> 1, links |-> <<B>>], [timestamp |-> 2, interval |-> 1, links |-> <<A>>]>>,
  <<[timestamp |-> 1, interval |-> 1, links |-> <<>>]>>,
  <<[timestamp |-> 1, interval |-> 0, links |-> <<A>>]>>}
=============================================================================
