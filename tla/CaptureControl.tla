--------------------------- MODULE CaptureControl ---------------------------
(***************************************************************************)
(* A change of the capture filter, from PUT /filter to the packets it      *)
(* selects: filterControl of internal/control/server.go, the eBPF map and  *)
(* ring buffer of bpf/packet_trace.bpf.c, and the collector's loop of      *)
(* cmd/collector/main.go, which hands each packet to the recorder and the  *)
(* browsers.                                                               *)
(*                                                                         *)
(* Handlers hold c.mu from UpdateFilter to the answer; parsing and         *)
(* EnsureReady come before.  The kernel captures and the collector reads   *)
(* at any time.  The map is an array: a program that runs while the value  *)
(* is copied sees some fields of the old filter and some of the new.       *)
(*                                                                         *)
(* A packet in the ring buffer is the filter that selected it.  The        *)
(* recorder is here its batch, recFilter; PcapRecorder has its files.      *)
(***************************************************************************)
EXTENDS Naturals, Sequences

CONSTANTS
  Filters,       (* expressions filter.Parse accepts, as words, other than the empty one *)
  Requests,      (* handlers of PUT /filter *)
  RingCapacity,  (* bound: packets the ring buffer holds *)
  MaxFaults,     (* bound: failures of the map update and of closing files *)
  Mixed,         (* what a program reads while the map's value is copied *)
  Nobody         (* c.mu is free *)

NoFilter == <<>>
Expressions == Filters \cup {NoFilter}

ASSUME CaptureAssumption ==
  /\ NoFilter \notin Filters
  /\ Mixed \notin Expressions
  /\ Nobody \notin Requests
  /\ RingCapacity \in Nat \ {0}
  /\ MaxFaults \in Nat

VARIABLES
  expr,       (* c.expr, what GET /filter answers *)
  mu,         (* the request that holds c.mu, or Nobody *)
  bpf,        (* the value in filter_cfg *)
  recFilter,  (* the recorder's filter, NoFilter when no capture is active *)
  pc,         (* what a request does next *)
  newExpr,    (* its local expr *)
  answer,     (* what it answered, "none" while it runs *)
  ring,       (* the ring buffer: the filter that selected each packet *)
  failed,     (* history: the last filter that reached the map was not accepted *)
  faults      (* failures so far *)

local == <<pc, newExpr, answer>>
controlVars == <<expr, mu, bpf, recFilter, local, ring, failed, faults>>

-----------------------------------------------------------------------------

\* run: TRAFFIC_FILTER goes to the map, the recorder and the control server.
ControlInit ==
  /\ expr \in Expressions
  /\ mu = Nobody
  /\ bpf = expr
  /\ recFilter = expr
  /\ pc = [r \in Requests |-> "idle"]
  /\ newExpr = [r \in Requests |-> NoFilter]
  /\ answer = [r \in Requests |-> "none"]
  /\ ring = <<>>
  /\ failed = FALSE
  /\ faults = 0

-----------------------------------------------------------------------------
(* PUT /filter *)

Goto(r, label) == pc' = [pc EXCEPT ![r] = label]

Answer(r, value) ==
  /\ Goto(r, "idle")
  /\ answer' = [answer EXCEPT ![r] = value]

Failure ==
  /\ faults < MaxFaults
  /\ faults' = faults + 1

\* The request is decoded and its filter parsed; only a non-empty one needs
\* interfaces.  A filter that does not parse is refused and changes nothing.
Put(r, f) ==
  /\ pc[r] = "idle"
  /\ newExpr' = [newExpr EXCEPT ![r] = f]
  /\ answer' = [answer EXCEPT ![r] = "none"]
  /\ Goto(r, IF f = NoFilter THEN "lock" ELSE "ready")
  /\ UNCHANGED <<expr, mu, bpf, recFilter, ring, failed, faults>>

\* beforeFilterApplied: EnsureReady finds interfaces, or the answer is 503.
BeforeFilterApplied(r) ==
  /\ pc[r] = "ready"
  /\ \/ /\ Goto(r, "lock")
        /\ UNCHANGED answer
     \/ Answer(r, "unavailable")
  /\ UNCHANGED <<expr, mu, bpf, recFilter, newExpr, ring, failed, faults>>

\* Seeded fault: the handler takes no lock.
LockNotTaken(r) ==
  /\ pc[r] = "lock"
  /\ Goto(r, "update")
  /\ UNCHANGED <<expr, mu, bpf, recFilter, newExpr, answer, ring, failed, faults>>

Lock(r) ==
  /\ pc[r] = "lock"
  /\ mu = Nobody
  /\ mu' = r
  /\ Goto(r, "update")
  /\ UNCHANGED <<expr, bpf, recFilter, newExpr, answer, ring, failed, faults>>

Unlock == mu' = Nobody

\* Seeded fault: the answer to a failed update is sent with the lock held.
UpdateFailsLocked(r) ==
  /\ pc[r] = "update"
  /\ Failure
  /\ Answer(r, "error")
  /\ UNCHANGED <<mu, expr, bpf, recFilter, newExpr, ring, failed>>

UpdateFails(r) ==
  /\ pc[r] = "update"
  /\ Failure
  /\ Answer(r, "error")
  /\ Unlock
  /\ UNCHANGED <<expr, bpf, recFilter, newExpr, ring, failed>>

\* UpdateFilter copies the new value over the old one.
UpdateStarts(r) ==
  /\ pc[r] = "update"
  /\ bpf' = IF bpf = newExpr[r] THEN bpf ELSE Mixed
  /\ Goto(r, "copy")
  /\ UNCHANGED <<expr, mu, recFilter, newExpr, answer, ring, failed, faults>>

UpdateEnds(r) ==
  /\ pc[r] = "copy"
  /\ bpf' = newExpr[r]
  /\ Goto(r, "begin")
  /\ UNCHANGED <<expr, mu, recFilter, newExpr, answer, ring, failed, faults>>

\* onFilterApplied: BeginCapture.  Closing the files of the old batch may fail;
\* an empty filter ends the batch nevertheless, another leaves the old one.
BeginFails(r) ==
  /\ pc[r] = "begin"
  /\ recFilter \notin {NoFilter, newExpr[r]}
  /\ Failure
  /\ recFilter' = IF newExpr[r] = NoFilter THEN NoFilter ELSE recFilter
  /\ failed' = TRUE
  /\ Answer(r, "error")
  /\ Unlock
  /\ UNCHANGED <<expr, bpf, newExpr, ring>>

BeginCapture(r) ==
  /\ pc[r] = "begin"
  /\ recFilter' = newExpr[r]
  /\ Goto(r, "publish")
  /\ UNCHANGED <<expr, mu, bpf, newExpr, answer, ring, failed, faults>>

Publish(r) ==
  /\ pc[r] = "publish"
  /\ expr' = newExpr[r]
  /\ failed' = FALSE
  /\ Answer(r, "ok")
  /\ Unlock
  /\ UNCHANGED <<bpf, recFilter, newExpr, ring, faults>>

-----------------------------------------------------------------------------
(* Packets *)

\* trace_ingress: a packet the filter selects is put in the ring buffer, or
\* dropped when there is no room.
Capture ==
  /\ bpf # NoFilter
  /\ Len(ring) < RingCapacity
  /\ ring' = Append(ring, bpf)
  /\ UNCHANGED <<expr, mu, bpf, recFilter, local, failed, faults>>

\* Seeded fault: the loop does not read while no capture is active.
CollectWhenActive ==
  /\ ring # <<>>
  /\ recFilter # NoFilter
  /\ ring' = Tail(ring)
  /\ UNCHANGED <<expr, mu, bpf, recFilter, local, failed, faults>>

\* The collector reads a packet, gives it to the recorder and broadcasts it.
Collect ==
  /\ ring # <<>>
  /\ ring' = Tail(ring)
  /\ UNCHANGED <<expr, mu, bpf, recFilter, local, failed, faults>>

-----------------------------------------------------------------------------

Serve(r) ==
  \/ BeforeFilterApplied(r)
  \/ UpdateFails(r) \/ UpdateStarts(r) \/ UpdateEnds(r)
  \/ BeginFails(r) \/ BeginCapture(r)
  \/ Publish(r)

ControlNext ==
  \/ \E r \in Requests : (\E f \in Expressions : Put(r, f)) \/ Lock(r) \/ Serve(r)
  \/ Capture
  \/ Collect

ControlSpec == ControlInit /\ [][ControlNext]_controlVars

\* The Go scheduler runs handlers and the collector's loop; a sync.RWMutex is
\* given to every waiter in the end.  No packet and no request has to arrive.
ControlFairness ==
  /\ \A r \in Requests : WF_controlVars(Serve(r)) /\ SF_controlVars(Lock(r))
  /\ WF_controlVars(Collect)

ControlFairSpec == ControlSpec /\ ControlFairness

-----------------------------------------------------------------------------
(* Properties *)

\* Type invariant: every variable holds what the code can put there.
ControlTypeOK ==
  /\ expr \in Expressions
  /\ mu \in Requests \cup {Nobody}
  /\ bpf \in Expressions \cup {Mixed}
  /\ recFilter \in Expressions
  /\ pc \in [Requests -> {"idle", "ready", "lock", "update", "copy", "begin", "publish"}]
  /\ newExpr \in [Requests -> Expressions]
  /\ answer \in [Requests -> {"none", "ok", "unavailable", "error"}]
  /\ ring \in Seq(Filters \cup {Mixed})
  /\ Len(ring) <= RingCapacity
  /\ failed \in BOOLEAN
  /\ faults \in Nat

\* When no change of filter is under way, the filter GET /filter reports, the
\* one the kernel applies and the one the recorder's batch has are the same,
\* unless the last filter that reached the map was answered with an error; even
\* then the recorder is in the reported batch or in none.  Any accepted filter
\* brings the three together again, whatever failed before.
InAgreement ==
  mu = Nobody =>
    /\ recFilter \in {expr, NoFilter}
    /\ failed \/ (bpf = expr /\ recFilter = expr)

\* The strengthening that is inductive.  A request is past Lock exactly while
\* it holds the mutex, and until BeginCapture the recorder is as it was.
Holding ==
  \A r \in Requests : pc[r] \in {"update", "copy", "begin", "publish"} <=> mu = r

Progress ==
  \A r \in Requests :
    /\ pc[r] \in {"update", "copy", "begin"} => recFilter \in {expr, NoFilter}
    /\ pc[r] \in {"update", "copy", "begin"} => failed \/ recFilter = expr
    /\ pc[r] = "update" => failed \/ bpf = expr
    /\ pc[r] \in {"begin", "publish"} => bpf = newExpr[r]
    /\ pc[r] = "publish" => recFilter = newExpr[r]

ControlInv == ControlTypeOK /\ InAgreement /\ Holding /\ Progress

\* Every PUT /filter is answered: no path through the handler keeps the mutex.
PutIsAnswered == \A r \in Requests : (pc[r] # "idle") ~> (pc[r] = "idle")

\* Disabling capture takes effect for the browsers too: once the map holds the
\* empty filter the ring buffer runs dry, unless another filter comes.
DisabledIsQuiet == (bpf = NoFilter) ~> (ring = <<>> \/ bpf # NoFilter)
=============================================================================
