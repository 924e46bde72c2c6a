------------------------------ MODULE MCMapUi ------------------------------
(* Two hosts on one network: a packet of each, captured in either order, and *)
(* a line of tcpdump that is no packet.                                      *)
EXTENDS MapUi

MCLines ==
  { [at |-> 2, source |-> "h1", nets |-> {"net"}],
    [at |-> 1, source |-> "h2", nets |-> {"net"}],
    [at |-> 0, source |-> "h1", nets |-> {}] }

MCTerms == {{}, {"h1"}, {"h1", "h2"}}
=============================================================================
