---------------------------- MODULE IfaceManager ----------------------------
(***************************************************************************)
(* internal/ifacemanager and internal/probe of traffic-observer-service:   *)
(* which host interfaces the eBPF program is attached to, and the mapping  *)
(* from them to containers with which packets are enriched.                *)
(*                                                                         *)
(* Requests are HTTP handlers: PUT /interfaces calls Refresh, PUT /filter  *)
(* calls EnsureReady, and the startup call of Refresh is one more.  A      *)
(* refresh holds no lock while it discovers and between its two updates:   *)
(* ReplaceInterfaces (p.mu) and the publication of the mapping (m.mu) are  *)
(* one step each, and other requests run in between.                       *)
(*                                                                         *)
(* A device is a host veth of one emulator container.  Containers, and     *)
(* their devices, come and go at any time; the kernel drops the link of a  *)
(* device that goes.  A device's ifindex is never used again; its name,    *)
(* NameOf, may be, by a later device.                                      *)
(***************************************************************************)
EXTENDS FiniteSets, Naturals

CONSTANTS
  Devices,     (* every veth there may ever be *)
  NameOf(_),   (* interface name of a device *)
  Requests,    (* HTTP handlers *)
  MaxFaults    (* bound: failures of Docker, attaching or detaching *)

ASSUME ManagerAssumption == MaxFaults \in Nat

Names == {NameOf(d) : d \in Devices}
NamesOf(devices) == {NameOf(d) : d \in devices}

VARIABLES
  present,         (* devices on the host *)
  gone,            (* devices removed *)
  links,           (* p.links: devices the probe attached its program to *)
  interfaces,      (* p.interfaces: names *)
  containerIndex,  (* m.containerIndex and m.containerInterfaces: devices *)
  interfaceNames,  (* m.interfaceNames *)
  pc,              (* what a request does next *)
  kind,            (* its entry point, "refresh" or "ensure" *)
  found,           (* its local containerInterfaces; the containers listed
                      while it inspects them *)
  answer,          (* what it answered, "none" while it runs *)
  sawAttached,     (* history: the probe had an interface during the request *)
  undisturbed,     (* history: requests since whose start no device came or went *)
  alone,           (* history: requests beside which no other has run *)
  current,         (* history: "no", or an undisturbed refresh answered ok and no
                      device has come or gone since, and it ran "alone" or
                      "beside" another request *)
  faults           (* failures so far *)

host == <<present, gone>>
probe == <<links, interfaces>>
manager == <<containerIndex, interfaceNames>>
local == <<kind, found>>
history == <<sawAttached, undisturbed, alone, current>>
vars == <<host, probe, manager, pc, local, answer, history, faults>>

-----------------------------------------------------------------------------

\* probe.Open with no interfaces and New; then SetExplicitInterfaces when
\* TRAFFIC_INTERFACES names some.  No request yet.
Init ==
  /\ present \in SUBSET Devices
  /\ Cardinality(NamesOf(present)) = Cardinality(present)
  /\ gone = {}
  /\ links \in SUBSET present
  /\ interfaces = NamesOf(links)
  /\ containerIndex = {}
  /\ interfaceNames = interfaces
  /\ pc = [r \in Requests |-> "idle"]
  /\ kind = [r \in Requests |-> "refresh"]
  /\ found = [r \in Requests |-> {}]
  /\ answer = [r \in Requests |-> "none"]
  /\ sawAttached = [r \in Requests |-> FALSE]
  /\ undisturbed = {}
  /\ alone = {}
  /\ current = "no"
  /\ faults = 0

-----------------------------------------------------------------------------
(* The host *)

HostChanges ==
  /\ undisturbed' = {}
  /\ current' = "no"
  /\ UNCHANGED <<probe, manager, pc, local, answer, sawAttached, alone, faults>>

Appear(d) ==
  /\ d \notin present \cup gone
  /\ NameOf(d) \notin NamesOf(present)
  /\ present' = present \cup {d}
  /\ UNCHANGED gone
  /\ HostChanges

Disappear(d) ==
  /\ d \in present
  /\ present' = present \ {d}
  /\ gone' = gone \cup {d}
  /\ HostChanges

-----------------------------------------------------------------------------
(* Requests *)

Goto(r, label) == pc' = [pc EXCEPT ![r] = label]

Answer(r, value) ==
  /\ Goto(r, "idle")
  /\ answer' = [answer EXCEPT ![r] = value]
  /\ found' = [found EXCEPT ![r] = {}]
  /\ UNCHANGED kind

Failure ==
  /\ faults < MaxFaults
  /\ faults' = faults + 1

\* A handler is called; its sawAttached is what the probe has already.  Neither it
\* nor the requests that are running are alone.
Call(r, entry, label) ==
  /\ pc[r] = "idle"
  /\ Goto(r, label)
  /\ kind' = [kind EXCEPT ![r] = entry]
  /\ answer' = [answer EXCEPT ![r] = "none"]
  /\ sawAttached' = [sawAttached EXCEPT ![r] = interfaces # {}]
  /\ undisturbed' = undisturbed \cup {r}
  /\ alone' = IF \A s \in Requests : pc[s] = "idle" THEN {r} ELSE {}
  /\ UNCHANGED <<host, probe, manager, found, current, faults>>

\* ServeHTTP of PUT /interfaces.
RefreshCalled(r) == Call(r, "refresh", "list")

\* EnsureReady, called before a non-empty filter is applied.
EnsureReadyCalled(r) == Call(r, "ensure", "count")

\* Seeded fault: EnsureReady trusts the manager's last mapping.
CountPublished(r) ==
  /\ pc[r] = "count"
  /\ IF interfaceNames # {}
     THEN Answer(r, "ok")
     ELSE /\ Goto(r, "list")
          /\ UNCHANGED <<kind, found, answer>>
  /\ UNCHANGED <<host, probe, manager, history, faults>>

\* EnsureReady asks the probe whether anything is attached.
Count(r) ==
  /\ pc[r] = "count"
  /\ IF interfaces # {}
     THEN Answer(r, "ok")
     ELSE /\ Goto(r, "list")
          /\ UNCHANGED <<kind, found, answer>>
  /\ UNCHANGED <<host, probe, manager, history, faults>>

\* Discover: the containers and the host's interfaces are listed.
List(r) ==
  /\ pc[r] = "list"
  /\ \/ /\ found' = [found EXCEPT ![r] = present]
        /\ Goto(r, "inspect")
        /\ UNCHANGED <<kind, answer, faults>>
     \/ /\ Failure
        /\ Answer(r, "error")
  /\ UNCHANGED <<host, probe, manager, history>>

\* Discover: the listed containers are inspected.  One that has gone was seen
\* before it went, or is skipped, or makes the discovery fail.
Inspect(r) ==
  /\ pc[r] = "inspect"
  /\ \/ /\ \E seen \in SUBSET (found[r] \ present) :
             found' = [found EXCEPT ![r] = (@ \cap present) \cup seen]
        /\ Goto(r, "replace")
        /\ UNCHANGED <<kind, answer, faults>>
     \/ /\ found[r] \subseteq present => Failure
        /\ ~(found[r] \subseteq present) => UNCHANGED faults
        /\ Answer(r, "error")
  /\ UNCHANGED <<host, probe, manager, history>>

\* The probe attaches to the device that has the name now.
Resolve(names) == {d \in present : NameOf(d) \in names}

SeeAttached == sawAttached' = [s \in Requests |-> sawAttached[s] \/ interfaces' # {}]

\* Seeded fault: names are remembered although attaching failed, so that the
\* next refresh finds nothing to do.
AttachFailsKeepsNew(r) ==
  /\ interfaces # NamesOf(found[r])
  /\ Failure
  /\ links' = {}
  /\ interfaces' = NamesOf(found[r])
  /\ Answer(r, "error")

\* sameInterfaceSet: nothing is closed or attached.
SameInterfaces(r) ==
  /\ interfaces = NamesOf(found[r])
  /\ Goto(r, "publish")
  /\ UNCHANGED <<probe, kind, found, answer, faults>>

\* Seeded fault: the old links are forgotten only when attaching succeeds.
AttachFailsKeepsNames(r) ==
  /\ interfaces # NamesOf(found[r])
  /\ Failure
  /\ links' = {}
  /\ UNCHANGED interfaces
  /\ Answer(r, "error")

\* attachPrograms fails: a name is not found, or attaching fails.  The old
\* links are closed already.
AttachFails(r) ==
  /\ interfaces # NamesOf(found[r])
  /\ IF NamesOf(found[r]) \subseteq NamesOf(present)
     THEN found[r] # {} /\ Failure
     ELSE UNCHANGED faults
  /\ links' = {}
  /\ interfaces' = {}
  /\ Answer(r, "error")

\* The new links replace the old ones.  An error of closing an old link is
\* returned although the new links stay.
Attached(r) ==
  /\ interfaces # NamesOf(found[r])
  /\ NamesOf(found[r]) \subseteq NamesOf(present)
  /\ links' = Resolve(NamesOf(found[r]))
  /\ interfaces' = NamesOf(found[r])
  /\ \/ /\ Goto(r, "publish")
        /\ UNCHANGED <<kind, found, answer, faults>>
     \/ /\ links # {}
        /\ Failure
        /\ Answer(r, "error")

\* ReplaceInterfaces, under p.mu.
ReplaceInterfaces(r) ==
  /\ pc[r] = "replace"
  /\ SameInterfaces(r) \/ AttachFails(r) \/ Attached(r)
  /\ SeeAttached
  /\ UNCHANGED <<host, manager, undisturbed, alone, current>>

\* EnsureReady's check of the snapshot; PUT /interfaces has none.
Ready(r) == kind[r] = "refresh" \/ interfaceNames' # {}

\* Seeded fault: the mapping of the first refresh is kept.
PublishIndexOnce(r) ==
  containerIndex' = IF containerIndex = {} THEN found[r] ELSE containerIndex

PublishIndex(r) == containerIndex' = found[r]

\* Refresh publishes, under m.mu, the mapping it discovered with the names the
\* probe has now, and answers.
Publish(r) ==
  /\ pc[r] = "publish"
  /\ PublishIndex(r)
  /\ interfaceNames' = interfaces
  /\ Answer(r, IF Ready(r) THEN "ok" ELSE "error")
  /\ current' = IF r \notin undisturbed \/ current = "alone" THEN current
                ELSE IF r \in alone THEN "alone" ELSE "beside"
  /\ UNCHANGED <<host, probe, sawAttached, undisturbed, alone, faults>>

-----------------------------------------------------------------------------

Serve(r) ==
  \/ Count(r)
  \/ List(r)
  \/ Inspect(r)
  \/ ReplaceInterfaces(r)
  \/ Publish(r)

Next ==
  \/ \E d \in Devices : Appear(d) \/ Disappear(d)
  \/ \E r \in Requests : RefreshCalled(r) \/ EnsureReadyCalled(r) \/ Serve(r)

Spec == Init /\ [][Next]_vars

\* Handlers run to their answer: the Go scheduler runs them, and the two locks
\* are taken in one order.  Nothing makes a request arrive or a device come.
Fairness == \A r \in Requests : WF_vars(Serve(r))

FairSpec == Spec /\ Fairness

-----------------------------------------------------------------------------
(* Properties *)

\* Type invariant: every variable holds what the code can put there, and found,
\* a local variable, lives from the discovery to the answer of one request.
TypeOK ==
  /\ present \subseteq Devices
  /\ gone \subseteq Devices
  /\ links \subseteq Devices
  /\ interfaces \subseteq Names
  /\ containerIndex \subseteq Devices
  /\ interfaceNames \subseteq Names
  /\ pc \in [Requests -> {"idle", "count", "list", "inspect", "replace", "publish"}]
  /\ kind \in [Requests -> {"refresh", "ensure"}]
  /\ found \in [Requests -> SUBSET Devices]
  /\ \A r \in Requests : pc[r] \in {"idle", "count", "list"} => found[r] = {}
  /\ answer \in [Requests -> {"none", "ok", "error"}]
  /\ sawAttached \in [Requests -> BOOLEAN]
  /\ undisturbed \subseteq Requests
  /\ alone \subseteq Requests
  /\ current \in {"no", "alone", "beside"}
  /\ faults \in Nat

\* What the probe says it is attached to is what it holds links to, whichever
\* of replacing, attaching and closing failed (probe.go:99-111): InterfaceCount
\* never counts an interface whose link was closed.
NamesAreLinked == interfaces = NamesOf(links)

\* A non-empty filter is accepted only if the program was attached somewhere
\* while the request ran (README.md:145), although refreshes of other requests
\* replace or lose the interfaces between its check and its answer.
ReadyMeansAttached ==
  \A r \in Requests : answer[r] = "ok" /\ kind[r] = "ensure" => sawAttached[r]

\* The inductive invariant behind the two: while a request runs, sawAttached has
\* recorded whatever the probe is attached to.
Seen == \A r \in Requests : pc[r] # "idle" /\ interfaces # {} => sawAttached[r]

IInv == TypeOK /\ NamesAreLinked /\ ReadyMeansAttached /\ Seen

\* Attached to every device, knowing every device and naming them.
UpToDate ==
  /\ links = present
  /\ containerIndex = present
  /\ interfaceNames = NamesOf(present)

\* A refresh brings everything up to date (README.md:224) when the topology is
\* stable and no other request runs beside it, and requests that come later and
\* overlap each other do not undo it while the topology stays as it is.  Beside
\* another, a refresh that listed the containers before the last change may
\* finish last.
RefreshAloneIsCurrent == current = "alone" => UpToDate

\* No earlier failure leaves the observer in a state refreshing cannot repair
\* (README.md:216): a refresh during which nothing fails, no other request runs
\* and no device comes or goes brings everything up to date, whatever failed before it.
RefreshRepairs ==
  \A r \in Requests :
    (pc[r] = "list" /\ faults = MaxFaults)
      ~> (r \notin undisturbed \cap alone \/ (links = present /\ containerIndex = present))
=============================================================================
