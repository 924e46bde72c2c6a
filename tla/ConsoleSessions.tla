-------------------------- MODULE ConsoleSessions --------------------------
(***************************************************************************)
(* The consoles: a page in the browser (view/console), its websocket, and  *)
(* in emulator-service the handler of that websocket (socket-handler.ts)   *)
(* with the sessions of its session manager.  The sockets of one node      *)
(* share a session while it is writable.                                   *)
(*                                                                         *)
(* A page is named by the socket it opens, numbered by page loads, and a   *)
(* session by the socket for which it was opened.  What a shell prints is  *)
(* left out: who listens to it is modelled.                                *)
(***************************************************************************)
EXTENDS Naturals, FiniteSets

CONSTANTS
  Nodes,
  Nothing,     (* neither a node nor a socket *)
  MaxLoads,    (* bound: pages loaded *)
  MaxFaults    (* bound: failing answers, and sessions that end *)

Sockets == 1 .. MaxLoads

VARIABLES
  loads,       (* pages loaded so far *)
  page,        (* what the page of each socket is doing; "gone": unloaded *)
  consoleOf,   (* the node whose console it is *)
  handler,     (* how far handleSession is *)
  heard,       (* the session a handler has got *)
  closing,     (* one end has closed the socket *)
  closed,      (* the 'close' event of the socket in the service is over *)
  session,     (* "writable"; "ended"; "closed": its 'close' event is over *)
  table,       (* _sessions *)
  listeners,   (* the sockets whose handlers listen to a session *)
  early,       (* history: sockets closed while their session was being got *)
  together,    (* history: sockets for which a shell was opened while another of the node was *)
  faults

browser == <<loads, page, consoleOf>>
sessions == <<session, table>>
service == <<handler, heard, closed, sessions, listeners, early, together>>
consoles == <<browser, service, closing, faults>>

ConsolesInit ==
  /\ loads = 0
  /\ page = [s \in Sockets |-> "none"]
  /\ consoleOf = [s \in Sockets |-> Nothing]
  /\ handler = [s \in Sockets |-> "none"]
  /\ heard = [s \in Sockets |-> Nothing]
  /\ closing = {}
  /\ closed = {}
  /\ session = [s \in Sockets |-> "none"]
  /\ table = [n \in Nodes |-> Nothing]
  /\ listeners = [s \in Sockets |-> {}]
  /\ early = {}
  /\ together = {}
  /\ faults = 0

Failure ==
  /\ faults < MaxFaults
  /\ faults' = faults + 1

-----------------------------------------------------------------------------
(* The page *)

\* Pages are unloaded, which closes their sockets, and a new one may be loaded.
Navigate(unloaded, n) ==
  LET next == loads + 1
      left == [s \in Sockets |-> IF s \in unloaded THEN "gone" ELSE page[s]]
  IN  /\ IF n = Nothing
         THEN /\ page' = left
              /\ UNCHANGED <<loads, consoleOf>>
         ELSE /\ loads < MaxLoads
              /\ loads' = next
              /\ page' = [left EXCEPT ![next] = "asking"]
              /\ consoleOf' = [consoleOf EXCEPT ![next] = n]
      /\ closing' = closing \cup {s \in unloaded : page[s] = "open"}
      /\ UNCHANGED <<service, faults>>

\* The request is refused or fails: the page writes the error and stops.
ContainerFails(s) ==
  /\ page[s] = "asking"
  /\ page' = [page EXCEPT ![s] = "failed"]
  /\ UNCHANGED <<loads, consoleOf, service, closing>>
  /\ Failure

\* Connection closed by foreign host.
SocketCloses(s) ==
  /\ page[s] = "open"
  /\ s \in closing
  /\ page' = [page EXCEPT ![s] = "closed"]
  /\ UNCHANGED <<loads, consoleOf, service, closing, faults>>

-----------------------------------------------------------------------------
(* The handler: a step is the code between two awaits *)

\* initConsole: the container is known, the socket is made and opens, and
\* handleSession awaits the full id of the container.
Connect(s) ==
  /\ page[s] = "asking"
  /\ page' = [page EXCEPT ![s] = "open"]
  /\ handler' = [handler EXCEPT ![s] = "resolving"]
  /\ UNCHANGED <<loads, consoleOf, heard, closing, closed, sessions, listeners, early, together, faults>>

\* The handler goes on with the session and begins to listen, to it and to the
\* 'close' event of its socket: one that is over already is never seen.
Attach(s, k) ==
  /\ handler' = [handler EXCEPT ![s] = "attached"]
  /\ heard' = [heard EXCEPT ![s] = k]
  /\ listeners' = [listeners EXCEPT ![k] = @ \cup {s}]
  /\ UNCHANGED <<browser, closing, closed, early, together>>

\* A shell is opened for a socket, alone or while another of its node is.
Open(s) ==
  LET others == {t \in Sockets : handler[t] = "opening" /\ consoleOf[t] = consoleOf[s]}
  IN  /\ handler' = [handler EXCEPT ![s] = "opening"]
      /\ together' = IF others = {} THEN together ELSE together \cup others \cup {s}
      /\ UNCHANGED <<browser, heard, closing, closed, sessions, listeners, early>>

\* Seeded fault: a session of the table is taken though it has ended.
ResolvedAny(s) ==
  /\ handler[s] = "resolving"
  /\ LET k == table[consoleOf[s]]
     IN  IF k # Nothing
         THEN Attach(s, k) /\ UNCHANGED sessions
         ELSE Open(s)
  /\ UNCHANGED faults

\* getSession finds a session of the node that can be written to, or opens one.
Resolved(s) ==
  /\ handler[s] = "resolving"
  /\ LET k == table[consoleOf[s]]
     IN  IF k # Nothing /\ session[k] = "writable"
         THEN Attach(s, k) /\ UNCHANGED sessions
         ELSE Open(s)
  /\ UNCHANGED faults

\* The runtime has opened a shell; another may have been opened meanwhile.
Opened(s) ==
  /\ handler[s] = "opening"
  /\ session' = [session EXCEPT ![s] = "writable"]
  /\ table' = [table EXCEPT ![consoleOf[s]] = s]
  /\ Attach(s, s)
  /\ UNCHANGED faults

\* The id is unknown or no shell is opened: an open socket is told and closed.
GetSessionFails(s) ==
  /\ handler[s] \in {"resolving", "opening"}
  /\ handler' = [handler EXCEPT ![s] = "failed"]
  /\ closing' = closing \cup ({s} \ closed)
  /\ UNCHANGED <<browser, heard, closed, sessions, listeners, early, together>>
  /\ Failure

\* Seeded fault: the listeners of a socket stay when it is closed.
SocketClosedOnly(s) ==
  /\ s \in closing \ closed
  /\ closed' = closed \cup {s}
  /\ UNCHANGED <<browser, handler, heard, closing, sessions, listeners, early, together, faults>>

\* The 'close' event of a socket: its handler, if it is attached, listens no more.
SocketClosed(s) ==
  /\ s \in closing \ closed
  /\ closed' = closed \cup {s}
  /\ IF handler[s] = "attached"
     THEN listeners' = [listeners EXCEPT ![heard[s]] = @ \ {s}] /\ UNCHANGED early
     ELSE early' = early \cup {s} /\ UNCHANGED listeners
  /\ UNCHANGED <<browser, handler, heard, closing, sessions, together, faults>>

\* The shell exits or its container stops: the stream is no longer writable.
SessionEnds(k) ==
  /\ session[k] = "writable"
  /\ session' = [session EXCEPT ![k] = "ended"]
  /\ UNCHANGED <<browser, handler, heard, closing, closed, table, listeners, early, together>>
  /\ Failure

\* The 'close' event of a stream: every handler that listens closes its socket.
SessionClosed(k) ==
  /\ session[k] = "ended"
  /\ session' = [session EXCEPT ![k] = "closed"]
  /\ closing' = closing \cup listeners[k]
  /\ UNCHANGED <<browser, handler, heard, closed, table, listeners, early, together, faults>>

Progress(s) == SocketCloses(s) \/ Connect(s) \/ Resolved(s) \/ Opened(s) \/ SocketClosed(s) \/ SessionClosed(s)

ConsolesNext ==
  \E s \in Sockets : Progress(s) \/ ContainerFails(s) \/ GetSessionFails(s) \/ SessionEnds(s)

-----------------------------------------------------------------------------
(* Properties *)

Attached(s) == handler[s] = "attached"

\* A handler listens to its session until its socket is closed, and to no other,
\* unless the socket was closed while the session was being got: then nobody takes
\* the listeners back.  Two sockets of a node that listen to shells not ended listen
\* to one shell, unless two shells were opened at once.
ConsolesHearTheirShell ==
  /\ \A s, k \in Sockets :
       s \in listeners[k] <=> Attached(s) /\ heard[s] = k /\ (s \notin closed \/ s \in early)
  /\ \A k, l \in Sockets :
       (k # l /\ consoleOf[k] = consoleOf[l] /\ session[k] = "writable" /\ session[l] = "writable")
         => {k, l} \cap together # {}

\* A console that is still on its way, or whose shell is gone, does not stay so: it
\* hears a shell of its own, has said why not, or is no longer there.
Settled(s) ==
  \/ page[s] \in {"none", "gone", "failed", "closed"}
  \/ Attached(s) /\ session[heard[s]] = "writable"

ConsolesSettle == \A s \in Sockets : []<>Settled(s)
=============================================================================
