----------------------------- MODULE FilterExpr -----------------------------
(***************************************************************************)
(* The filter expressions: what Parse of internal/filter/filter.go makes   *)
(* of one, and which packets match_filter of bpf/packet_trace.bpf.c        *)
(* selects with it.  An expression is the sequence of its words; a flag    *)
(* and its value, as MatchSrcIP and SrcIP, are one field, NoMatch if unset. *)
(***************************************************************************)
EXTENDS Naturals, SequencesExt

CONSTANTS
  Hosts,     (* the words parseIPv4 accepts *)
  Ports      (* the words parsePort accepts *)

NoMatch == ""
Sides == {"src", "dst"}
Protocols == {"tcp", "udp", "icmp"}
Directions == {"ingress", "egress"}
Kinds == {"host", "port"}

-----------------------------------------------------------------------------
(* filter.Parse *)

AnySide == [side \in Sides |-> NoMatch]

\* Config{} with Enabled set; no protocol named is any protocol.
AnyPacket ==
  [enabled |-> TRUE, direction |-> NoMatch, protocols |-> {}, host |-> AnySide, port |-> AnySide]

Start == [cfg |-> AnyPacket, pending |-> <<>>, ok |-> TRUE]

\* The sides a qualifier is about: host and port by themselves are about both.
SidesOf(pending) == IF pending[1] \in Sides THEN {pending[1]} ELSE Sides

Write(sides, value, old) == [side \in Sides |-> IF side \in sides THEN value ELSE old[side]]

\* Parse word by word; pending are the words of an unfinished qualifier.
ReadWord(s, word) ==
  CASE s.pending = <<>> /\ word \in Protocols -> [s EXCEPT !.cfg.protocols = @ \cup {word}]
    [] s.pending = <<>> /\ word \in Directions -> [s EXCEPT !.cfg.direction = word]
    [] s.pending = <<>> /\ word \in Kinds \cup Sides -> [s EXCEPT !.pending = <<word>>]
    [] s.pending \in {<<"src">>, <<"dst">>} /\ word \in Kinds -> [s EXCEPT !.pending = Append(@, word)]
    [] s.pending # <<>> /\ Last(s.pending) = "host" /\ word \in Hosts ->
         [s EXCEPT !.cfg.host = Write(SidesOf(s.pending), word, @), !.pending = <<>>]
    [] s.pending # <<>> /\ Last(s.pending) = "port" /\ word \in Ports ->
         [s EXCEPT !.cfg.port = Write(SidesOf(s.pending), word, @), !.pending = <<>>]
    [] OTHER -> [s EXCEPT !.ok = FALSE]

Compact(words) == SelectSeq(words, LAMBDA word : word \notin {"and", "&&", "or", "||"})

Words(words) ==
  IF words \in {<<"all">>, <<"any">>} THEN Start ELSE FoldLeft(ReadWord, Start, Compact(words))

\* Whether Parse returns no error.
Parses(words) == Words(words).ok /\ Words(words).pending = <<>>

\* What it returns then; the empty expression is Config{}.
Parse(words) == [Words(words).cfg EXCEPT !.enabled = words # <<>>]

-----------------------------------------------------------------------------
(* match_filter *)

\* Seeded fault: a value for both sides must be that of both sides.
EverySideMatches(want, have) == \A side \in Sides : want[side] \in {NoMatch, have[side]}

\* One value for both sides may be that of either side.
SidesMatch(want, have) ==
  IF want["src"] = want["dst"] /\ want["src"] # NoMatch
  THEN want["src"] \in {have["src"], have["dst"]}
  ELSE \A side \in Sides : want[side] \in {NoMatch, have[side]}

Selects(cfg, p) ==
  /\ cfg.enabled
  /\ cfg.direction \in {NoMatch, p.direction}
  /\ cfg.protocols = {} \/ p.protocol \in cfg.protocols
  /\ SidesMatch(cfg.host, p.host)
  /\ SidesMatch(cfg.port, p.port)

\* The packets the program gives it: only trace_ingress is attached, only TCP
\* and UDP have ports, and what is not IPv4 has no address either.
Packets ==
  LET zero(word) == [side \in Sides |-> word]
      packet(protocol, host, port) ==
        [direction |-> "ingress", protocol |-> protocol, host |-> host, port |-> port]
  IN  {packet("not IP", zero("0.0.0.0"), zero("0"))}
      \cup {packet(protocol, host, zero("0")) : protocol \in {"icmp", "gre"}, host \in [Sides -> Hosts]}
      \cup {packet(protocol, host, port) :
              protocol \in {"tcp", "udp"}, host \in [Sides -> Hosts], port \in [Sides -> Ports]}

-----------------------------------------------------------------------------
(* What an expression means to its reader *)

\* The qualifiers of one kind as pairs of sides and value.
Qualifiers(words, kind) ==
  {<<IF i > 1 /\ words[i - 1] \in Sides THEN {words[i - 1]} ELSE Sides, words[i + 1]>> :
     i \in {j \in DOMAIN words : words[j] = kind}}

\* Every qualifier holds, a host or port on one of its sides; one of the
\* protocols holds; the empty expression selects nothing.
Means(words, p) ==
  LET named == Range(words)
  IN  /\ words # <<>>
      /\ named \cap Directions \subseteq {p.direction}
      /\ named \cap Protocols = {} \/ p.protocol \in named
      /\ \A q \in Qualifiers(words, "host") : \E side \in q[1] : p.host[side] = q[2]
      /\ \A q \in Qualifiers(words, "port") : \E side \in q[1] : p.port[side] = q[2]

\* An expression says each thing once, and its two sides differ.  Of a qualifier
\* that is said twice the last one counts, and equal sides are read as host or
\* port by itself, which selects more than the expression says.
Plain(words) ==
  /\ \A kind \in Kinds : \A q, r \in Qualifiers(words, kind) :
       q # r => q[1] \cap r[1] = {} /\ q[2] # r[2]
  /\ ~(Directions \subseteq Range(words))

Clauses ==
  {<<word>> : word \in Protocols \cup Directions}
  \cup {<<"host", word>> : word \in Hosts}
  \cup {<<"port", word>> : word \in Ports}
  \cup {<<side, "host", word>> : side \in Sides, word \in Hosts}
  \cup {<<side, "port", word>> : side \in Sides, word \in Ports}

\* Every plain expression of three clauses selects what it says, in any order.
ExpressionsAreRead ==
  \A c, d, e \in Clauses :
    LET words == c \o <<"and">> \o d \o e
    IN  Plain(words) => Parses(words) /\ \A p \in Packets : Selects(Parse(words), p) <=> Means(words, p)
=============================================================================
