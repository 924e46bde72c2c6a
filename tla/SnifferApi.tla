----------------------------- MODULE SnifferApi -----------------------------
(***************************************************************************)
(* The sniffer of emulator-service and the part of api/v1/main.ts that     *)
(* keeps state: POST /sniff and POST /packet, which write a filter to the  *)
(* sniffer of each node, and the four lists of websockets that are told    *)
(* what happens.  A step is the code between two awaits.                   *)
(*                                                                         *)
(* A session is named by the call that opened it and its node, for two     *)
(* calls may open one each.  Container ids are resolved before the model   *)
(* begins, and calls that name no container change nothing.                *)
(***************************************************************************)
EXTENDS SequencesExt, Lists

CONSTANTS
  Calls,        (* POST /sniff and POST /packet requests *)
  NodeList,     (* the containers, as Docker lists them *)
  Filters,      (* expressions *)
  Off,          (* the empty expression, which stops a sniffer *)
  Sockets,
  KindOf(_),    (* the route a socket connects to *)
  Concurrency,  (* SNIFFER_SESSION_CONCURRENCY *)
  Nothing,
  MaxFaults     (* bound: failing answers of Docker, and sessions that end *)

Nodes == {NodeList[i] : i \in DOMAIN NodeList}
Kinds == {"sniff", "packet", "vis", "host"}

ASSUME SnifferAssumption ==
  /\ NodeList \in Seq(Nodes)
  /\ \A i, j \in DOMAIN NodeList : NodeList[i] = NodeList[j] => i = j
  /\ Off \in Filters
  /\ Nothing \notin Filters \cup Nodes \cup (Calls \X Nodes)
  /\ \A s \in Sockets : KindOf(s) \in Kinds
  /\ Concurrency \in Nat \ {0}
  /\ MaxFaults \in Nat

VARIABLES
  call,         (* what each call is doing *)
  current,      (* currentSnifferFilter *)
  listening,    (* the sniffer has a _listener *)
  capturing,    (* the node of _capturePacketListener *)
  table,        (* _sessions, by node *)
  running,      (* the filter each open session runs; Nothing: not open *)
  readyState,
  subscribers,  (* the four lists *)
  asked,        (* history: the filter last asked for, by node *)
  unsure,       (* history: nodes not every call to come writes the filter asked for to *)
  twice,        (* history: nodes two calls were opening a session of at once *)
  misplaced,    (* history: a dead packet subscriber has been met *)
  faults

sessions == <<table, running>>
sockets == <<readyState, subscribers, misplaced>>
listeners == <<current, listening, capturing>>
history == <<asked, unsure, twice>>
state == <<call, listeners, sessions, sockets, history>>
vars == <<state, faults>>

Idle == [at |-> "new", nodes |-> {}, filter |-> Off, left |-> <<>>, opening |-> {}, failed |-> FALSE]
Answered == {"done", "failed", "lost"}

Init ==
  /\ call = [c \in Calls |-> Idle]
  /\ current = Off
  /\ listening = FALSE
  /\ capturing = Nothing
  /\ table = [n \in Nodes |-> Nothing]
  /\ running = [s \in Calls \X Nodes |-> Nothing]
  /\ readyState = [s \in Sockets |-> "new"]
  /\ subscribers = [k \in Kinds |-> <<>>]
  /\ asked = [n \in Nodes |-> Off]
  /\ unsure = {}
  /\ twice = {}
  /\ misplaced = FALSE
  /\ faults = 0

Failure ==
  /\ faults < MaxFaults
  /\ faults' = faults + 1

-----------------------------------------------------------------------------
(* Sniffer.sniff *)

\* getExistingSession
HasSession(n, t, r) == t[n] # Nothing /\ r[t[n]] # Nothing

Working(c) == call[c].at \in {"listing", "sniffing"}

\* The nodes the free workers take before all of them await a session, or none
\* is left: each takes the next node, and goes on to another unless it awaits.
Taken(w, t, r) ==
  LET free == Concurrency - Cardinality(w.opening)
      Opened(i) == Cardinality({j \in 1..i : ~HasSession(w.left[j], t, r)})
      full == {i \in DOMAIN w.left : w.filter # Off /\ Opened(i) = free}
  IN  IF full = {} THEN w.left ELSE SubSeq(w.left, 1, CHOOSE i \in full : \A j \in full : i <= j)

\* Seeded fault: a worker does not look for a session that exists.
ToOpenAlways(w, taken, t, r) == IF w.filter = Off THEN {} ELSE taken

\* An empty filter opens no session.
ToOpen(w, taken, t, r) == IF w.filter = Off THEN {} ELSE {n \in taken : ~HasSession(n, t, r)}

\* The filter is written to each session that exists.
Written(w, taken, t, r) ==
  [s \in DOMAIN r |-> IF s[2] \in taken /\ t[s[2]] = s /\ r[s] # Nothing THEN w.filter ELSE r[s]]

\* Promise.all: the call is answered when every worker has ended.
Settled(w) ==
  IF w.left = <<>> /\ w.opening = {} THEN [w EXCEPT !.at = IF w.failed THEN "failed" ELSE "done"] ELSE w

\* The workers of a call run until each awaits a session or has no node left.
\* w is the call, t and r the sessions, as they are when the step begins.
Sniff(c, w, t, r) ==
  LET next == Taken(w, t, r)
      taken == ToSet(next)
  IN  /\ call' = [call EXCEPT ![c] =
                   Settled([w EXCEPT !.opening = @ \cup ToOpen(w, taken, t, r),
                                     !.left = SubSeq(@, Len(next) + 1, Len(@))])]
      /\ table' = t
      /\ running' = Written(w, taken, t, r)
      /\ twice' = twice \cup {n \in ToOpen(w, taken, t, r) : \E d \in Calls \ {c} : n \in call[d].opening}

\* A call no worker of which has come to the node; and one that may yet write to it.
ToCome(d, n) == call[d].at = "listing" \/ n \in ToSet(call[d].left)
ToWrite(d, n) == ToCome(d, n) \/ n \in call[d].opening

\* The filter a call writes: that of the request, read before or after the list is here.
FilterOf(d, now) == IF call[d].at = "listing" THEN now ELSE call[d].filter

\* A call that has read another filter may yet write it to a node after this one.
Ask(nodes, f, now) ==
  /\ asked' = [n \in Nodes |-> IF n \in nodes THEN f ELSE asked[n]]
  /\ unsure' = (unsure \ nodes)
                  \cup {n \in nodes : \E d \in Calls : ToWrite(d, n) /\ FilterOf(d, now) # f}

\* POST /sniff: the filter is reported from now on, the containers are awaited.
PostSniff(c, f) ==
  /\ call[c].at = "new"
  /\ call' = [call EXCEPT ![c] = [Idle EXCEPT !.at = "listing", !.nodes = Nodes]]
  /\ current' = f
  /\ listening' = TRUE
  /\ Ask(Nodes, f, f)
  /\ UNCHANGED <<capturing, sessions, sockets, twice, faults>>

\* The filter is read now: another request may have set it since this one came.
Listed(c) ==
  /\ call[c].at = "listing"
  /\ Sniff(c, [call[c] EXCEPT !.at = "sniffing", !.left = NodeList, !.filter = current], table, running)
  /\ UNCHANGED <<listeners, sockets, asked, unsure, faults>>

\* getContainers rejects: the call fails, the filter is reported all the same.
ListFails(c) ==
  /\ call[c].at = "listing"
  /\ Failure
  /\ call' = [call EXCEPT ![c].at = "failed"]
  /\ unsure' = unsure \cup {n \in Nodes : \A d \in Calls \ {c} : ~ToCome(d, n)}
  /\ UNCHANGED <<listeners, sessions, sockets, asked, twice>>

\* POST /packet, once the id of the node is known.
PostPacket(c, n, f) ==
  /\ call[c].at = "new"
  /\ capturing' = n
  /\ Ask({n}, f, current)
  /\ Sniff(c, [Idle EXCEPT !.at = "sniffing", !.nodes = {n}, !.filter = f, !.left = <<n>>], table, running)
  /\ UNCHANGED <<current, listening, sockets, faults>>

\* getSession, with openSession awaited in between: it does not look again.
SessionOpens(c, n) ==
  LET s == <<c, n>>
  IN  /\ n \in call[c].opening
      /\ Sniff(c, [call[c] EXCEPT !.opening = @ \ {n}],
               [table EXCEPT ![n] = s], [running EXCEPT ![s] = call[c].filter])
      /\ UNCHANGED <<listeners, sockets, asked, unsure, faults>>

\* Seeded fault: a worker whose session cannot be opened ends without a word.
OpenFailsForgotten(c, n) ==
  /\ n \in call[c].opening
  /\ Failure
  /\ call' = [call EXCEPT ![c].opening = @ \ {n}, ![c].failed = TRUE]
  /\ UNCHANGED <<listeners, sessions, sockets, history>>

\* The error is kept for the end and the worker goes on with the next node.
OpenFails(c, n) ==
  /\ n \in call[c].opening
  /\ Failure
  /\ Sniff(c, [call[c] EXCEPT !.opening = @ \ {n}, !.failed = TRUE], table, running)
  /\ UNCHANGED <<listeners, sockets, asked, unsure>>

\* A container or its sniffer stops: its stream is writable no longer.
SessionEnds(s) ==
  /\ running[s] # Nothing
  /\ Failure
  /\ running' = [running EXCEPT ![s] = Nothing]
  /\ UNCHANGED <<call, listeners, table, sockets, history>>

-----------------------------------------------------------------------------
(* Subscribers *)

Connect(s) ==
  /\ readyState[s] = "new"
  /\ readyState' = [readyState EXCEPT ![s] = "open"]
  /\ subscribers' = [subscribers EXCEPT ![KindOf(s)] = Append(@, s)]
  /\ UNCHANGED <<call, listeners, sessions, misplaced, history, faults>>

Leave(s) ==
  /\ readyState[s] = "open"
  /\ readyState' = [readyState EXCEPT ![s] = "closed"]
  /\ UNCHANGED <<call, listeners, sessions, subscribers, misplaced, history, faults>>

Dead(list) == Filtered(list, {s \in Sockets : readyState[s] = "closed"})

\* Seeded fault: sockets are removed from the end, whichever are dead.
PruneLast(list) == SubSeq(list, 1, Len(list) - Len(Dead(list)))

\* Each dead socket is spliced out at its index.
Prune(list) == Filtered(list, {s \in Sockets : readyState[s] # "closed"})

\* Sockets of another list have the index -1, and splice(-1, 1) removes the last
\* element, if there is one.
Misprune(list, dead) == SubSeq(list, 1, Len(list) - Len(dead))

\* POST /host and POST /container/vis/set: all of it is one step.
Notify(kind) ==
  /\ subscribers' = [subscribers EXCEPT ![kind] = Prune(@)]
  /\ UNCHANGED <<call, listeners, sessions, readyState, misplaced, history, faults>>

\* A sniffer prints: its node's listeners are called, whichever session it is.
\* The listener of POST /packet removes what is dead from the other list.
Data(s) ==
  LET dead == IF s[2] = capturing THEN Dead(subscribers["packet"]) ELSE <<>>
  IN  /\ running[s] \notin {Nothing, Off}
      /\ subscribers' = [subscribers EXCEPT !["sniff"] = Misprune(IF listening THEN Prune(@) ELSE @, dead)]
      /\ misplaced' = (misplaced \/ dead # <<>>)
      /\ UNCHANGED <<call, listeners, sessions, readyState, history, faults>>

-----------------------------------------------------------------------------

\* The process dies and is started again: nothing of this is on disk.
Restart ==
  /\ call' = [c \in Calls |-> IF Working(c) THEN [call[c] EXCEPT !.at = "lost", !.opening = {}, !.left = <<>>]
                              ELSE call[c]]
  /\ current' = Off
  /\ listening' = FALSE
  /\ capturing' = Nothing
  /\ table' = [n \in Nodes |-> Nothing]
  /\ running' = [s \in Calls \X Nodes |-> Nothing]
  /\ readyState' = [s \in Sockets |-> IF readyState[s] = "open" THEN "closed" ELSE readyState[s]]
  /\ subscribers' = [k \in Kinds |-> <<>>]
  /\ unsure' = {}
  /\ twice' = {}
  /\ misplaced' = FALSE
  /\ UNCHANGED asked

\* Docker's part of a call.
Docker(c) == Listed(c) \/ ListFails(c) \/ \E n \in Nodes : SessionOpens(c, n) \/ OpenFails(c, n)

Sniffing == \E s \in Calls \X Nodes : SessionEnds(s) \/ Data(s)

Subscribing ==
  \/ \E s \in Sockets : Connect(s) \/ Leave(s)
  \/ \E k \in {"vis", "host"} : Notify(k)

Post(c) ==
  \E f \in Filters : PostSniff(c, f) \/ \E n \in Nodes : PostPacket(c, n, f)

Next == (\E c \in Calls : Post(c) \/ Docker(c)) \/ Sniffing \/ Subscribing

Spec == Init /\ [][Next]_vars

-----------------------------------------------------------------------------
(* Properties *)

Work ==
  [at : {"new", "listing", "sniffing"} \cup Answered, nodes : SUBSET Nodes, filter : Filters,
   left : Seq(Nodes), opening : SUBSET Nodes, failed : BOOLEAN]

\* Type invariant: every variable holds what the code can put there, no call opens
\* more sessions at once than the concurrency allows and a list names a socket once.
TypeOK ==
  /\ call \in [Calls -> Work]
  /\ \A c \in Calls : Cardinality(call[c].opening) <= Concurrency
  /\ current \in Filters
  /\ listening \in BOOLEAN
  /\ capturing \in Nodes \cup {Nothing}
  /\ table \in [Nodes -> (Calls \X Nodes) \cup {Nothing}]
  /\ running \in [Calls \X Nodes -> Filters \cup {Nothing}]
  /\ readyState \in [Sockets -> {"new", "open", "closed"}]
  /\ subscribers \in [Kinds -> Seq(Sockets)]
  /\ \A k \in Kinds : \A i, j \in DOMAIN subscribers[k] : subscribers[k][i] = subscribers[k][j] => i = j
  /\ asked \in [Nodes -> Filters]
  /\ unsure \subseteq Nodes
  /\ twice \subseteq Nodes
  /\ misplaced \in BOOLEAN
  /\ faults \in Nat

\* A socket that is open is in its list, whoever leaves before or after it
\* (main.ts:284, 312, 345).  Only a sniff subscriber can be removed by mistake,
\* and only once a dead packet subscriber was looked up in its list (main.ts:427).
SubscribersStay ==
  \A s \in Sockets :
    readyState[s] = "open" =>
      \/ s \in ToSet(subscribers[KindOf(s)])
      \/ KindOf(s) = "sniff" /\ misplaced

\* A node that no call has yet to come to runs, in the session the table knows, the
\* filter last asked for, whatever failed and however requests overlapped; unless a
\* call that had read another filter was still to write it as that one was asked
\* for, or the containers could not be listed (main.ts:315, sniffer.ts:40-53).
NodesRunLastFilter ==
  \A n \in Nodes :
    n \notin unsure /\ table[n] # Nothing /\ (\A c \in Calls : ~ToCome(c, n))
      => running[table[n]] \in {Nothing, asked[n]}

\* A node has one open sniffer, the one the table knows, unless two calls were
\* opening one at the same time, for none looks again (session-manager.ts:116).
OneSnifferPerNode ==
  \A s \in Calls \X Nodes : running[s] # Nothing => table[s[2]] = s \/ s[2] \in twice

\* A call under way awaits an answer of Docker: no worker is lost, whichever
\* sessions fail, so no call has nodes left and nobody to go on (sniffer.ts:41-54).
CallsAwaitDocker ==
  \A c \in Calls :
    /\ call[c].at = "sniffing" => call[c].opening # {}
    /\ Len(call[c].left) > 0 => Cardinality(call[c].opening) = Concurrency
=============================================================================
