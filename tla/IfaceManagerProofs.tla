------------------------- MODULE IfaceManagerProofs -------------------------
(* Proofs about IfaceManager, for any devices and names and any number of    *)
(* concurrent requests.                                                      *)
EXTENDS IfaceManager, TLAPS

USE ManagerAssumption DEF ManagerAssumption

\* The device a present name resolves to has that name.
LEMMA ResolveNames ==
  ASSUME NEW names \in SUBSET NamesOf(present)
  PROVE  NamesOf(Resolve(names)) = names
BY DEF NamesOf, Resolve

\* Each step keeps the types.
LEMMA TypeStep == IInv /\ [Next]_vars => TypeOK'
<1> SUFFICES ASSUME IInv, [Next]_vars PROVE TypeOK'
  OBVIOUS
<1> USE DEF IInv, TypeOK, Names, NamesOf
<1>1. ASSUME NEW d \in Devices, Appear(d) \/ Disappear(d) PROVE TypeOK'
  BY <1>1 DEF Appear, Disappear, HostChanges, probe, manager, local
<1>2. ASSUME NEW r \in Requests, RefreshCalled(r) \/ EnsureReadyCalled(r) PROVE TypeOK'
  BY <1>2 DEF RefreshCalled, EnsureReadyCalled, Call, Goto, host, probe, manager
<1>3. ASSUME NEW r \in Requests, Count(r) PROVE TypeOK'
  BY <1>3 DEF Count, Answer, Goto, host, probe, manager, history
<1>4. ASSUME NEW r \in Requests, List(r) PROVE TypeOK'
  BY <1>4 DEF List, Answer, Goto, Failure, host, probe, manager, history
<1>5. ASSUME NEW r \in Requests, Inspect(r) PROVE TypeOK'
  BY <1>5 DEF Inspect, Answer, Goto, Failure, host, probe, manager, history
<1>6. ASSUME NEW r \in Requests, ReplaceInterfaces(r) PROVE TypeOK'
  <2> USE <1>6 DEF ReplaceInterfaces, host, manager
  <2>1. sawAttached' \in [Requests -> BOOLEAN]
    BY DEF SeeAttached
  <2>2. CASE SameInterfaces(r)
    BY <2>1, <2>2 DEF SameInterfaces, Goto, probe
  <2>3. CASE AttachFails(r)
    BY <2>1, <2>3 DEF AttachFails, Answer, Goto, Failure
  <2>4. CASE Attached(r)
    BY <2>1, <2>4 DEF Attached, Resolve, Answer, Goto, Failure
  <2> QED
    BY <2>2, <2>3, <2>4
<1>7. ASSUME NEW r \in Requests, Publish(r) PROVE TypeOK'
  BY <1>7 DEF Publish, PublishIndex, Ready, Answer, Goto, host, probe
<1>8. CASE UNCHANGED vars
  BY <1>8 DEF vars, host, probe, manager, local, history
<1> QED
  BY <1>1, <1>2, <1>3, <1>4, <1>5, <1>6, <1>7, <1>8 DEF Next, Serve

\* Replacing the interfaces leaves names and links in step in every outcome.
LEMMA LinkedStep == IInv /\ [Next]_vars => NamesAreLinked'
<1> SUFFICES ASSUME IInv, [Next]_vars PROVE NamesAreLinked'
  OBVIOUS
<1> USE DEF IInv, NamesAreLinked
<1>1. ASSUME NEW r \in Requests, ReplaceInterfaces(r) PROVE NamesAreLinked'
  <2>1. CASE SameInterfaces(r)
    BY <2>1 DEF SameInterfaces, probe, NamesOf
  <2>2. CASE AttachFails(r)
    BY <2>2 DEF AttachFails, NamesOf
  <2>3. CASE Attached(r)
    BY <2>3, ResolveNames DEF Attached, NamesOf
  <2> QED
    BY <1>1, <2>1, <2>2, <2>3 DEF ReplaceInterfaces
<1>2. CASE UNCHANGED probe
  BY <1>2 DEF probe, NamesOf
<1>3. ASSUME NEW r \in Requests, Serve(r), ~ReplaceInterfaces(r) PROVE UNCHANGED probe
  BY <1>3 DEF Serve, Count, List, Inspect, Publish
<1>4. ASSUME NEW r \in Requests, RefreshCalled(r) \/ EnsureReadyCalled(r)
      PROVE UNCHANGED probe
  BY <1>4 DEF RefreshCalled, EnsureReadyCalled, Call
<1>5. ASSUME NEW d \in Devices, Appear(d) \/ Disappear(d) PROVE UNCHANGED probe
  BY <1>5 DEF Appear, Disappear, HostChanges
<1> QED
  BY <1>1, <1>2, <1>3, <1>4, <1>5 DEF Next, vars

\* A running request has seen what is attached, and is answered accordingly.
LEMMA SeenStep == IInv /\ [Next]_vars => (ReadyMeansAttached /\ Seen)'
<1> SUFFICES ASSUME IInv, [Next]_vars PROVE (ReadyMeansAttached /\ Seen)'
  OBVIOUS
<1> USE DEF IInv, TypeOK, ReadyMeansAttached, Seen
<1>1. ASSUME NEW d \in Devices, Appear(d) \/ Disappear(d)
      PROVE (ReadyMeansAttached /\ Seen)'
  BY <1>1 DEF Appear, Disappear, HostChanges, probe, local
<1>2. ASSUME NEW r \in Requests, RefreshCalled(r) \/ EnsureReadyCalled(r)
      PROVE (ReadyMeansAttached /\ Seen)'
  <2>1. PICK entry, label : Call(r, entry, label)
    BY <1>2 DEF RefreshCalled, EnsureReadyCalled
  <2>2. interfaces' = interfaces
    BY <2>1 DEF Call, probe
  <2>3. sawAttached'[r] = (interfaces # {}) /\ answer'[r] = "none"
    BY <2>1 DEF Call
  <2>4. ASSUME NEW s \in Requests, s # r
        PROVE  /\ sawAttached'[s] = sawAttached[s]
               /\ answer'[s] = answer[s] /\ kind'[s] = kind[s] /\ pc'[s] = pc[s]
    BY <2>1, <2>4 DEF Call, Goto
  <2>5. ReadyMeansAttached'
    BY <2>3, <2>4
  <2>6. Seen'
    BY <2>2, <2>3, <2>4
  <2> QED
    BY <2>5, <2>6
<1>3. ASSUME NEW r \in Requests, Count(r) PROVE (ReadyMeansAttached /\ Seen)'
  BY <1>3 DEF Count, Answer, Goto, probe, history
<1>4. ASSUME NEW r \in Requests, List(r) PROVE (ReadyMeansAttached /\ Seen)'
  BY <1>4 DEF List, Answer, Goto, probe, history
<1>5. ASSUME NEW r \in Requests, Inspect(r) PROVE (ReadyMeansAttached /\ Seen)'
  BY <1>5 DEF Inspect, Answer, Goto, probe, history
<1>6. ASSUME NEW r \in Requests, ReplaceInterfaces(r) PROVE (ReadyMeansAttached /\ Seen)'
  <2>1. \A s \in Requests : sawAttached'[s] = (sawAttached[s] \/ interfaces' # {})
    BY <1>6 DEF ReplaceInterfaces, SeeAttached
  <2>2. kind' = kind /\ \A s \in Requests : answer'[s] = "ok" => answer[s] = "ok"
    BY <1>6 DEF ReplaceInterfaces, SameInterfaces, AttachFails, Attached, Answer
  <2> QED
    BY <2>1, <2>2
<1>7. ASSUME NEW r \in Requests, Publish(r) PROVE (ReadyMeansAttached /\ Seen)'
  BY <1>7 DEF Publish, Ready, Answer, Goto, probe
<1>8. CASE UNCHANGED vars
  BY <1>8 DEF vars, probe, local, history
<1> QED
  BY <1>1, <1>2, <1>3, <1>4, <1>5, <1>6, <1>7, <1>8 DEF Next, Serve

\* The inductive invariant holds in every state.
THEOREM Invariance == Spec => []IInv
<1>1. Init => IInv
  <2> SUFFICES ASSUME Init PROVE IInv
    OBVIOUS
  <2>1. TypeOK
    BY DEF Init, TypeOK, Names, NamesOf
  <2>2. NamesAreLinked
    BY DEF Init, NamesAreLinked
  <2>3. ReadyMeansAttached /\ Seen
    BY DEF Init, ReadyMeansAttached, Seen
  <2> QED
    BY <2>1, <2>2, <2>3 DEF IInv
<1>2. IInv /\ [Next]_vars => IInv'
  BY TypeStep, LinkedStep, SeenStep DEF IInv
<1> QED
  BY <1>1, <1>2, PTL DEF Spec

\* The names the probe reports are those of the links it holds, whichever part
\* of a replacement failed (probe.go:99-111).
THEOREM ProbeIsConsistent == Spec => []NamesAreLinked
<1>1. IInv => NamesAreLinked
  BY DEF IInv
<1> QED
  BY <1>1, Invariance, PTL

\* What a request has listed, inspected and published is of the kinds the code
\* keeps, for any devices and requests.
THEOREM TypeCorrect == Spec => []TypeOK
<1>1. IInv => TypeOK
  BY DEF IInv
<1> QED
  BY <1>1, Invariance, PTL

\* EnsureReady accepts a filter only if an interface was attached while it ran
\* (manager.go:57-70), for any number of concurrent refreshes.
THEOREM AcceptedFilterWasAttached == Spec => []ReadyMeansAttached
<1>1. IInv => ReadyMeansAttached
  BY DEF IInv
<1> QED
  BY <1>1, Invariance, PTL
-----------------------------------------------------------------------------
(* A refresh that runs alone brings everything up to date                  *)

\* What an undisturbed request has found is what is there.
FoundIsPresent ==
  \A r \in undisturbed : pc[r] \in {"inspect", "replace", "publish"} => found[r] = present

\* Beside a request that runs alone no other runs.
AloneRuns ==
  \A r \in alone : pc[r] # "idle" => \A s \in Requests \ {r} : pc[s] = "idle"

\* A request that ran alone and undisturbed to its publication has attached to
\* every name there is.
AttachedToAll ==
  \A r \in undisturbed \cap alone : pc[r] = "publish" => interfaces = NamesOf(present)

\* By name everything is up to date, and whoever runs has listed nothing older.
CurrentByName ==
  current = "alone" =>
    /\ interfaces = NamesOf(present)
    /\ interfaceNames = NamesOf(present)
    /\ containerIndex = present
    /\ \A r \in Requests : pc[r] # "idle" => r \in undisturbed

CurrentInv == FoundIsPresent /\ AloneRuns /\ AttachedToAll /\ CurrentByName

\* A device that comes or goes disturbs every request and ends what was current.
LEMMA HostCurrentStep ==
  ASSUME IInv, CurrentInv, NEW d \in Devices, Appear(d) \/ Disappear(d)
  PROVE  CurrentInv'
BY DEF CurrentInv, FoundIsPresent, AloneRuns, AttachedToAll, CurrentByName, Appear, Disappear,
       HostChanges

\* A request that is called ends the solitude of those that run, and has listed
\* nothing yet.
LEMMA CallCurrentStep ==
  ASSUME IInv, CurrentInv, NEW r \in Requests, RefreshCalled(r) \/ EnsureReadyCalled(r)
  PROVE  CurrentInv'
<1>1. PICK entry, label : Call(r, entry, label) /\ label \in {"list", "count"}
  BY DEF RefreshCalled, EnsureReadyCalled
<1> USE DEF IInv, TypeOK
<1>2. /\ pc' = [pc EXCEPT ![r] = label] /\ pc[r] = "idle"
      /\ undisturbed' = undisturbed \cup {r}
      /\ alone' = IF \A s \in Requests : pc[s] = "idle" THEN {r} ELSE {}
      /\ UNCHANGED <<present, interfaces, interfaceNames, containerIndex, found, current>>
  BY <1>1 DEF Call, Goto, host, probe, manager
<1>3. FoundIsPresent'
  BY <1>1, <1>2 DEF CurrentInv, FoundIsPresent
<1>4. AloneRuns'
  BY <1>2 DEF AloneRuns
<1>5. AttachedToAll'
  BY <1>1, <1>2 DEF AttachedToAll
<1>6. CurrentByName'
  BY <1>2 DEF CurrentInv, CurrentByName, NamesOf
<1> QED
  BY <1>3, <1>4, <1>5, <1>6 DEF CurrentInv

\* Steps before the replacement change what one request has found, to what is
\* there if nothing disturbed it.
LEMMA DiscoveryCurrentStep ==
  ASSUME IInv, CurrentInv, NEW r \in Requests, Count(r) \/ List(r) \/ Inspect(r)
  PROVE  CurrentInv'
<1> USE DEF IInv, TypeOK
<1>1. UNCHANGED <<present, interfaces, interfaceNames, containerIndex, undisturbed, alone, current>>
  BY DEF Count, List, Inspect, host, probe, manager, history
<1>2. /\ pc[r] # "idle"
      /\ pc'[r] # "publish"
      /\ \A s \in Requests \ {r} : pc'[s] = pc[s] /\ found'[s] = found[s]
  BY DEF Count, List, Inspect, Goto, Answer
<1>3. r \in undisturbed /\ pc'[r] \in {"inspect", "replace", "publish"} => found'[r] = present
  <2>1. CASE Count(r)
    BY <2>1 DEF Count, Goto, Answer
  <2>2. CASE List(r)
    BY <2>2 DEF List, Goto, Answer
  <2>3. CASE Inspect(r)
    BY <2>3 DEF Inspect, Goto, Answer, CurrentInv, FoundIsPresent
  <2> QED
    BY <2>1, <2>2, <2>3
<1>4. FoundIsPresent'
  BY <1>1, <1>2, <1>3 DEF CurrentInv, FoundIsPresent
<1>5. AloneRuns'
  BY <1>1, <1>2 DEF CurrentInv, AloneRuns
<1>6. AttachedToAll'
  BY <1>1, <1>2 DEF CurrentInv, AttachedToAll, NamesOf
<1>7. CurrentByName'
  BY <1>1, <1>2 DEF CurrentInv, CurrentByName, NamesOf
<1> QED
  BY <1>4, <1>5, <1>6, <1>7 DEF CurrentInv

\* While everything is current a replacement by an undisturbed request finds the
\* same interfaces; otherwise, a request that goes on has attached to what it found.
LEMMA ReplaceCurrentStep ==
  ASSUME IInv, CurrentInv, NEW r \in Requests, ReplaceInterfaces(r)
  PROVE  CurrentInv'
<1> USE DEF IInv, TypeOK
<1>1. UNCHANGED <<present, interfaceNames, containerIndex, undisturbed, alone, current>>
  BY DEF ReplaceInterfaces, host, manager
<1>2. /\ pc[r] = "replace"
      /\ pc'[r] \in {"idle", "publish"}
      /\ pc'[r] = "publish" => found'[r] = found[r] /\ interfaces' = NamesOf(found[r])
      /\ interfaces = NamesOf(found[r]) => interfaces' = interfaces
      /\ \A s \in Requests \ {r} : pc'[s] = pc[s] /\ found'[s] = found[s]
  <2>1. pc[r] = "replace"
    BY DEF ReplaceInterfaces
  <2>2. CASE SameInterfaces(r)
    BY <2>1, <2>2 DEF SameInterfaces, Goto, probe
  <2>3. CASE AttachFails(r)
    BY <2>1, <2>3 DEF AttachFails, Goto, Answer
  <2>4. CASE Attached(r)
    BY <2>1, <2>4 DEF Attached, Goto, Answer
  <2> QED
    BY <2>2, <2>3, <2>4 DEF ReplaceInterfaces
<1>3. FoundIsPresent'
  BY <1>1, <1>2 DEF CurrentInv, FoundIsPresent
<1>4. AloneRuns'
  BY <1>1, <1>2 DEF CurrentInv, AloneRuns
<1>5. AttachedToAll'
  <2> SUFFICES ASSUME NEW s \in undisturbed \cap alone, pc'[s] = "publish"
               PROVE  interfaces' = NamesOf(present)
    BY <1>1 DEF AttachedToAll, NamesOf
  <2>1. s = r
    BY <1>1, <1>2 DEF CurrentInv, AloneRuns
  <2> QED
    BY <1>2, <2>1 DEF CurrentInv, FoundIsPresent
<1>6. CurrentByName'
  <2> SUFFICES ASSUME current = "alone" PROVE CurrentByName'
    BY <1>1 DEF CurrentByName
  <2>1. interfaces = NamesOf(found[r])
    BY <1>2 DEF CurrentInv, CurrentByName, FoundIsPresent
  <2> QED
    BY <1>1, <1>2, <2>1 DEF CurrentInv, CurrentByName, NamesOf
<1> QED
  BY <1>3, <1>4, <1>5, <1>6 DEF CurrentInv

\* An undisturbed request publishes what is there.
LEMMA PublishCurrentStep ==
  ASSUME IInv, CurrentInv, NEW r \in Requests, Publish(r)
  PROVE  CurrentInv'
<1> USE DEF IInv, TypeOK
<1>1. /\ UNCHANGED <<present, interfaces, undisturbed, alone>>
      /\ containerIndex' = found[r] /\ interfaceNames' = interfaces
      /\ current' = IF r \notin undisturbed \/ current = "alone" THEN current
                    ELSE IF r \in alone THEN "alone" ELSE "beside"
  BY DEF Publish, PublishIndex, host, probe
<1>2. /\ pc[r] = "publish" /\ pc'[r] = "idle"
      /\ \A s \in Requests \ {r} : pc'[s] = pc[s] /\ found'[s] = found[s]
  BY DEF Publish, Answer, Goto
<1>3. FoundIsPresent'
  BY <1>1, <1>2 DEF CurrentInv, FoundIsPresent
<1>4. AloneRuns'
  BY <1>1, <1>2 DEF CurrentInv, AloneRuns
<1>5. AttachedToAll'
  BY <1>1, <1>2 DEF CurrentInv, AttachedToAll, NamesOf
<1>6. CurrentByName'
  <2>1. CASE current = "alone"
    BY <1>1, <1>2, <2>1 DEF CurrentInv, CurrentByName, FoundIsPresent, NamesOf
  <2>2. CASE current # "alone" /\ current' = "alone"
    <3>1. r \in undisturbed \cap alone
      BY <1>1, <2>2
    <3>2. interfaces = NamesOf(present) /\ found[r] = present
      BY <1>2, <3>1 DEF CurrentInv, AttachedToAll, FoundIsPresent
    <3>3. \A s \in Requests : pc'[s] = "idle"
      BY <1>2, <3>1 DEF CurrentInv, AloneRuns
    <3> QED
      BY <1>1, <3>2, <3>3 DEF CurrentByName, NamesOf
  <2> QED
    BY <2>1, <2>2 DEF CurrentByName
<1> QED
  BY <1>3, <1>4, <1>5, <1>6 DEF CurrentInv

\* The second inductive invariant holds in every state.
THEOREM CurrentInvariance == Spec => []CurrentInv
<1>1. Init => CurrentInv
  BY DEF Init, CurrentInv, FoundIsPresent, AloneRuns, AttachedToAll, CurrentByName
<1>2. IInv /\ CurrentInv /\ [Next]_vars => CurrentInv'
  <2> SUFFICES ASSUME IInv, CurrentInv, [Next]_vars PROVE CurrentInv'
    OBVIOUS
  <2>1. CASE UNCHANGED vars
    BY <2>1 DEF vars, host, probe, manager, local, history, CurrentInv, FoundIsPresent, AloneRuns,
                AttachedToAll, CurrentByName, NamesOf
  <2> QED
    BY <2>1, HostCurrentStep, CallCurrentStep, DiscoveryCurrentStep, ReplaceCurrentStep,
       PublishCurrentStep DEF Next, Serve
<1> QED
  BY <1>1, <1>2, Invariance, PTL DEF Spec

\* After a refresh that ran alone, and until a device comes or goes, the mapping
\* holds exactly the devices there are and the program is attached to an interface
\* of each of their names (manager.go:72-91), whatever refreshes come later and
\* overlap.  This needs nothing of the names.
THEOREM RefreshAloneIsCurrentByName == Spec => []CurrentByName
<1>1. CurrentInv => CurrentByName
  BY DEF CurrentInv
<1> QED
  BY <1>1, CurrentInvariance, PTL

\* Where no two devices ever have the same name, the program is attached to
\* exactly the devices there are.  A name that came back would hide the new
\* device: replacing compares names only (probe.go:94).
THEOREM RefreshAloneUpdatesEverything ==
  ASSUME \A d, e \in Devices : NameOf(d) = NameOf(e) => d = e
  PROVE  Spec => []RefreshAloneIsCurrent
<1>1. IInv /\ CurrentInv => RefreshAloneIsCurrent
  <2> SUFFICES ASSUME IInv, CurrentByName, current = "alone" PROVE UpToDate
    BY DEF CurrentInv, RefreshAloneIsCurrent
  <2>1. NamesOf(links) = NamesOf(present)
    BY DEF IInv, NamesAreLinked, CurrentByName
  <2>2. links \subseteq Devices /\ present \subseteq Devices
    BY DEF IInv, TypeOK
  <2>3. ASSUME NEW d \in links PROVE d \in present
    <3>1. NameOf(d) \in NamesOf(present)
      BY <2>1 DEF NamesOf
    <3>2. PICK e \in present : NameOf(d) = NameOf(e)
      BY <3>1 DEF NamesOf
    <3> QED
      BY <2>2, <3>2
  <2>4. ASSUME NEW d \in present PROVE d \in links
    <3>1. NameOf(d) \in NamesOf(links)
      BY <2>1 DEF NamesOf
    <3>2. PICK e \in links : NameOf(d) = NameOf(e)
      BY <3>1 DEF NamesOf
    <3> QED
      BY <2>2, <3>2
  <2>5. links = present
    BY <2>3, <2>4
  <2> QED
    BY <2>5 DEF CurrentByName, UpToDate
<1> QED
  BY <1>1, Invariance, CurrentInvariance, PTL
=============================================================================
