----------------------------- MODULE PacketHub ------------------------------
(***************************************************************************)
(* internal/realtime/packet_hub.go of traffic-observer-service: the hub    *)
(* that fans each packet out to the browsers connected to /ws/packets.     *)
(*                                                                         *)
(* Goroutines: the collector's loop, which broadcasts and at shutdown      *)
(* closes the hub; the HTTP handler of each connection; and the readLoop   *)
(* and writeLoop of each client.  They share h.clients, guarded by the     *)
(* RWMutex h.mu, and each client's bounded channel.                        *)
(*                                                                         *)
(* A critical section that takes h.mu.Lock is one step.  The read-locked   *)
(* loop of Broadcast is one step per client, because the writeLoops drain  *)
(* the channels while it runs; its lock is the value "sending" of hub, and *)
(* every step that needs h.mu.Lock waits for it.  close(c.send) and        *)
(* conn.Close() run back to back inside one critical section and are one   *)
(* step: a write that happens between the two also happens before both.    *)
(*                                                                         *)
(* A packet is its position in the order of broadcasts.                    *)
(***************************************************************************)
EXTENDS Naturals, Sequences

CONSTANTS
  Clients,      (* packetClient pointers, one per websocket connection *)
  Capacity,     (* capacity of packetClient.send, 256 in the code *)
  MaxMessages   (* bound: packets the collector reads before it stops *)

ASSUME HubAssumption ==
  /\ Capacity \in Nat \ {0}
  /\ MaxMessages \in Nat

VARIABLES
  clients,      (* h.clients *)
  upgraded,     (* connections whose handler has upgraded but not registered *)
  hub,          (* where the collector is: "idle" between packets, "sending"
                   in Broadcast's read-locked loop, "evicting" in the loop over
                   stale, "stopped" after its read loop, "closed" after Close *)
  published,    (* packets broadcast so far; the one being sent included *)
  pending,      (* clients the read-locked loop has still to visit *)
  stale,        (* Broadcast's local variable of that name *)
  queue,        (* contents of c.send *)
  closed,       (* clients whose close() has run: channel and conn closed *)
  reader,       (* readLoop: "off", "reading", "exiting" (deferred unregister
                   not yet run) or "done" *)
  writer,       (* writeLoop: "off", "receiving", "writing", "exiting", "done" *)
  inflight,     (* the packet writeLoop holds, <<>> when it holds none; a
                   packet whose write failed stays here *)
  delivered,    (* history: packets written to the websocket *)
  first         (* history: the packet after which the client registered, plus 1 *)

collectorVars == <<hub, published, pending, stale>>
loopVars == <<reader, writer, inflight, delivered>>
vars == <<clients, upgraded, collectorVars, queue, closed, loopVars, first>>

-----------------------------------------------------------------------------

Init ==
  /\ clients = {}
  /\ upgraded = {}
  /\ hub = "idle"
  /\ published = 0
  /\ pending = {}
  /\ stale = {}
  /\ queue = [c \in Clients |-> <<>>]
  /\ closed = {}
  /\ reader = [c \in Clients |-> "off"]
  /\ writer = [c \in Clients |-> "off"]
  /\ inflight = [c \in Clients |-> <<>>]
  /\ delivered = [c \in Clients |-> <<>>]
  /\ first = [c \in Clients |-> 1]

\* h.mu.Lock() succeeds: Broadcast does not hold the read lock.
CanLock == hub # "sending"

-----------------------------------------------------------------------------
(* Connections *)

\* ServeHTTP up to the call of register.
Upgrade(c) ==
  /\ c \notin upgraded
  /\ writer[c] = "off"
  /\ upgraded' = upgraded \cup {c}
  /\ UNCHANGED <<clients, collectorVars, queue, closed, loopVars, first>>

\* register and the start of both loops.
Register(c) ==
  /\ CanLock
  /\ c \in upgraded
  /\ upgraded' = upgraded \ {c}
  /\ clients' = clients \cup {c}
  /\ first' = [first EXCEPT ![c] = published + 1]
  /\ reader' = [reader EXCEPT ![c] = "reading"]
  /\ writer' = [writer EXCEPT ![c] = "receiving"]
  /\ UNCHANGED <<collectorVars, queue, closed, inflight, delivered>>

\* Seeded fault: unregister closes the client and leaves it in the map.
UnregisterKeepsEntry(c) ==
  /\ CanLock
  /\ UNCHANGED clients
  /\ closed' = IF c \in clients THEN closed \cup {c} ELSE closed

\* unregister: only the caller that still finds the client in the map closes it.
Unregister(c) ==
  /\ CanLock
  /\ clients' = clients \ {c}
  /\ closed' = IF c \in clients THEN closed \cup {c} ELSE closed

-----------------------------------------------------------------------------
(* The collector: Broadcast, then shutdown *)

BroadcastStart ==
  /\ hub = "idle"
  /\ published < MaxMessages
  /\ hub' = "sending"
  /\ published' = published + 1
  /\ pending' = clients
  /\ stale' = {}
  /\ UNCHANGED <<clients, upgraded, queue, closed, loopVars, first>>

\* Seeded fault: the default branch skips the packet and keeps the client.
SkippingOffer(c) ==
  /\ queue' = IF Len(queue[c]) < Capacity
              THEN [queue EXCEPT ![c] = Append(@, published)]
              ELSE queue
  /\ UNCHANGED stale

\* The select statement: send without blocking, or mark the client stale.
Offer(c) ==
  \/ /\ Len(queue[c]) < Capacity
     /\ queue' = [queue EXCEPT ![c] = Append(@, published)]
     /\ UNCHANGED stale
  \/ /\ Len(queue[c]) = Capacity
     /\ stale' = stale \cup {c}
     /\ UNCHANGED queue

BroadcastSend(c) ==
  /\ hub = "sending"
  /\ c \in pending
  /\ Offer(c)
  /\ pending' = pending \ {c}
  /\ UNCHANGED <<clients, upgraded, hub, published, closed, loopVars, first>>

BroadcastUnlock ==
  /\ hub = "sending"
  /\ pending = {}
  /\ hub' = "evicting"
  /\ UNCHANGED <<clients, upgraded, published, pending, stale, queue, closed, loopVars, first>>

BroadcastEvict(c) ==
  /\ hub = "evicting"
  /\ c \in stale
  /\ Unregister(c)
  /\ stale' = stale \ {c}
  /\ UNCHANGED <<upgraded, hub, published, pending, queue, loopVars, first>>

BroadcastReturn ==
  /\ hub = "evicting"
  /\ stale = {}
  /\ hub' = "idle"
  /\ UNCHANGED <<clients, upgraded, published, pending, stale, queue, closed, loopVars, first>>

\* The collector's read loop returns; run's deferred calls follow.
CollectorStop ==
  /\ hub = "idle"
  /\ hub' = "stopped"
  /\ UNCHANGED <<clients, upgraded, published, pending, stale, queue, closed, loopVars, first>>

\* Close, the deferred call of run.
Close ==
  /\ hub = "stopped"
  /\ hub' = "closed"
  /\ closed' = closed \cup clients
  /\ clients' = {}
  /\ UNCHANGED <<upgraded, published, pending, stale, queue, loopVars, first>>

-----------------------------------------------------------------------------
(* The loops of one client *)

\* conn.ReadMessage returns an error: the peer left, or close() ran.
ReadError(c) ==
  /\ reader[c] = "reading"
  /\ reader' = [reader EXCEPT ![c] = "exiting"]
  /\ UNCHANGED <<clients, upgraded, collectorVars, queue, closed, writer, inflight, delivered, first>>

ReaderUnregister(c) ==
  /\ reader[c] = "exiting"
  /\ Unregister(c)
  /\ reader' = [reader EXCEPT ![c] = "done"]
  /\ UNCHANGED <<upgraded, collectorVars, queue, writer, inflight, delivered, first>>

\* A receive from c.send; a closed channel still yields what it holds.
WriterReceive(c) ==
  /\ writer[c] = "receiving"
  /\ queue[c] # <<>>
  /\ inflight' = [inflight EXCEPT ![c] = <<Head(queue[c])>>]
  /\ queue' = [queue EXCEPT ![c] = Tail(@)]
  /\ writer' = [writer EXCEPT ![c] = "writing"]
  /\ UNCHANGED <<clients, upgraded, collectorVars, closed, reader, delivered, first>>

\* Seeded fault: the loop waits for a packet and does not notice the close.
NeverDrained(c) == FALSE

\* range over c.send ends: the channel is closed and empty.
WriterDrained(c) ==
  /\ writer[c] = "receiving"
  /\ queue[c] = <<>>
  /\ c \in closed
  /\ writer' = [writer EXCEPT ![c] = "exiting"]
  /\ UNCHANGED <<clients, upgraded, collectorVars, queue, closed, reader, inflight, delivered, first>>

\* WriteJSON returns nil.  A write that was under way when close() ran may
\* still succeed.
WriteOK(c) ==
  /\ writer[c] = "writing"
  /\ delivered' = [delivered EXCEPT ![c] = @ \o inflight[c]]
  /\ inflight' = [inflight EXCEPT ![c] = <<>>]
  /\ writer' = [writer EXCEPT ![c] = "receiving"]
  /\ UNCHANGED <<clients, upgraded, collectorVars, queue, closed, reader, first>>

\* Seeded fault: a failed write is logged and the loop continues.
WriteErrorContinues(c) ==
  /\ writer[c] = "writing"
  /\ inflight' = [inflight EXCEPT ![c] = <<>>]
  /\ writer' = [writer EXCEPT ![c] = "receiving"]
  /\ UNCHANGED <<clients, upgraded, collectorVars, queue, closed, reader, delivered, first>>

\* WriteJSON fails: the two second deadline, the peer or close().
WriteError(c) ==
  /\ writer[c] = "writing"
  /\ writer' = [writer EXCEPT ![c] = "exiting"]
  /\ UNCHANGED <<clients, upgraded, collectorVars, queue, closed, reader, inflight, delivered, first>>

\* Seeded fault: writeLoop has no deferred unregister.
WriterExitsSilently(c) ==
  /\ writer[c] = "exiting"
  /\ writer' = [writer EXCEPT ![c] = "done"]
  /\ UNCHANGED <<clients, closed, upgraded, collectorVars, queue, reader, inflight, delivered, first>>

WriterUnregister(c) ==
  /\ writer[c] = "exiting"
  /\ Unregister(c)
  /\ writer' = [writer EXCEPT ![c] = "done"]
  /\ UNCHANGED <<upgraded, collectorVars, queue, reader, inflight, delivered, first>>

-----------------------------------------------------------------------------

\* The steps the collector takes without waiting for a packet or a signal.
CollectorRuns ==
  \/ BroadcastUnlock
  \/ BroadcastReturn
  \/ Close
  \/ \E c \in Clients : BroadcastSend(c) \/ BroadcastEvict(c)

ReadLoop(c) == ReadError(c) \/ ReaderUnregister(c)

WriteLoop(c) ==
  \/ WriterReceive(c)
  \/ WriterDrained(c)
  \/ WriteOK(c)
  \/ WriteError(c)
  \/ WriterUnregister(c)

Next ==
  \/ BroadcastStart
  \/ CollectorStop
  \/ CollectorRuns
  \/ \E c \in Clients : Upgrade(c) \/ Register(c) \/ ReadLoop(c) \/ WriteLoop(c)

Spec == Init /\ [][Next]_vars

\* The Go scheduler runs every runnable goroutine.  No packet has to arrive and
\* no signal to stop.  A write ends within its
\* deadline.  ReadError must happen once the connection is closed; while it is
\* open the peer may stay connected for ever.
Fairness ==
  /\ WF_vars(CollectorRuns)
  /\ \A c \in Clients :
       /\ WF_vars(Register(c))
       /\ WF_vars(ReaderUnregister(c))
       /\ WF_vars(c \in closed /\ ReadError(c))
       /\ WF_vars(WriteLoop(c))

FairSpec == Spec /\ Fairness

-----------------------------------------------------------------------------
(* Properties *)

\* Type invariant: every variable holds what the code can put there.
TypeOK ==
  /\ clients \subseteq Clients
  /\ upgraded \subseteq Clients
  /\ hub \in {"idle", "sending", "evicting", "stopped", "closed"}
  /\ published \in 0 .. MaxMessages
  /\ pending \subseteq Clients
  /\ stale \subseteq Clients
  /\ queue \in [Clients -> Seq(Nat)]
  /\ closed \subseteq Clients
  /\ reader \in [Clients -> {"off", "reading", "exiting", "done"}]
  /\ writer \in [Clients -> {"off", "receiving", "writing", "exiting", "done"}]
  /\ inflight \in [Clients -> Seq(Nat)]
  /\ \A c \in Clients : Len(queue[c]) <= Capacity /\ Len(inflight[c]) <= 1
  /\ delivered \in [Clients -> Seq(Nat)]
  /\ first \in [Clients -> Nat]

\* A send on a closed Go channel panics and takes the collector down.  The
\* clients Broadcast has still to visit (packet_hub.go:148) are never closed,
\* although three goroutines may close a client at any time.
NoSendOnClosed == pending \cap closed = {}

\* The packets a client was given, in order: written, then held by writeLoop,
\* then waiting in the channel.
Stream(c) == delivered[c] \o inflight[c] \o queue[c]
Given(c) == Len(delivered[c]) + Len(inflight[c]) + Len(queue[c])

\* Whatever the interleaving of broadcasts, slow writers and disconnections, a
\* client is given consecutive packets from the one after its registration.
NoGap ==
  \A c \in Clients :
    \A i \in DOMAIN Stream(c) : Stream(c)[i] = first[c] + i - 1

\* A client that stays registered misses nothing: between broadcasts every
\* registered client has been given every packet since it registered, so a
\* client is either complete or gone (packet_hub.go:152, 157).
CompleteOrGone ==
  hub \in {"idle", "stopped"} =>
    \A c \in clients : first[c] + Given(c) = published + 1

\* Both: a browser's stream has no hole, at its end or inside it.
StreamIsComplete == NoGap /\ CompleteOrGone

\* The parts of the inductive invariant behind the three properties above.
\* Membership: a client is upgraded, then registered, then closed, and
\* Broadcast's snapshot of the map stays inside the map.
Membership ==
  /\ \A c \in upgraded : writer[c] = "off"
  /\ \A c \in clients \cup closed \cup stale : writer[c] # "off"
  /\ clients \cap closed = {}
  /\ pending \subseteq clients
  /\ pending \cap stale = {}
  /\ hub # "sending" => pending = {}
  /\ hub \notin {"sending", "evicting"} => stale = {}

\* What a loop holds agrees with where it is.
LoopState ==
  \A c \in Clients :
    /\ writer[c] = "off" => Given(c) = 0
    /\ writer[c] = "receiving" => Len(inflight[c]) = 0
    /\ writer[c] = "writing" => Len(inflight[c]) = 1

\* NoGap, stated for each of the three places a packet can be in.
InOrder ==
  \A c \in Clients :
    /\ \A i \in 1 .. Len(delivered[c]) : delivered[c][i] = first[c] + i - 1
    /\ \A i \in 1 .. Len(inflight[c]) :
         inflight[c][i] = first[c] + Len(delivered[c]) + i - 1
    /\ \A i \in 1 .. Len(queue[c]) :
         queue[c][i] = first[c] + Len(delivered[c]) + Len(inflight[c]) + i - 1

\* CompleteOrGone, extended to the middle of a broadcast: only a client that
\* Broadcast has still to visit, or has found full, lacks the packet being sent.
UpToDate ==
  \A c \in clients :
    first[c] + Given(c) = published + (IF c \in pending \cup stale THEN 0 ELSE 1)

IInv == TypeOK /\ Membership /\ LoopState /\ InOrder /\ UpToDate

\* What a browser is promised.
Promise ==
  INSTANCE PacketStream WITH
    Window   <- Capacity + 2,
    status   <- [c \in Clients |-> IF c \in clients THEN "live"
                                   ELSE IF writer[c] = "off" THEN "new" ELSE "dropped"],
    received <- delivered

\* The hub implements the stream PacketStream describes.
ImplementsPacketStream == Promise!Spec

\* A broadcast that has started finishes, however slow the browsers are: the
\* capture loop that calls it (cmd/collector/main.go:168) is never held up.
BroadcastReturns == (hub = "sending") ~> (hub = "idle")

\* No goroutine is leaked: once a client is closed both its loops return.
LoopsReturn ==
  \A c \in Clients : (c \in closed) ~> (reader[c] = "done" /\ writer[c] = "done")

\* Neither the capture loop nor a client's goroutines are ever held up for good.
GoroutinesReturn == BroadcastReturns /\ LoopsReturn

\* A packet put in a channel is written to the websocket, or the client is
\* dropped: nothing rests in a channel for ever.
QueuedIsDelivered ==
  \A c \in Clients, p \in 1 .. MaxMessages :
    (\E i \in DOMAIN queue[c] : queue[c][i] = p)
      ~> (c \in closed \/ \E i \in DOMAIN delivered[c] : delivered[c][i] = p)
=============================================================================
