--------------------------- MODULE ObserverProofs ---------------------------
(***************************************************************************)
(* Theorems about the traffic observer: PacketHub, for every set of        *)
(* clients, every capacity and every number of packets, then               *)
(* CaptureControl, for any filters, requests and failures.                 *)
(***************************************************************************)
EXTENDS PacketHub, FilteredCapture, SequenceTheorems, TLAPS

\* Every step keeps every variable in the range the code can give it.
THEOREM TypeCorrect == Spec => []TypeOK
<1>1. Init => TypeOK
  BY HubAssumption DEF Init, TypeOK
<1>2. TypeOK /\ [Next]_vars => TypeOK'
  <2> SUFFICES ASSUME TypeOK, [Next]_vars
               PROVE  TypeOK'
    OBVIOUS
  <2> USE HubAssumption DEF HubAssumption, TypeOK, collectorVars, loopVars
  <2>0. published \in Nat
    OBVIOUS
  <2>1. CASE BroadcastStart
    BY <2>1 DEF BroadcastStart
  <2>2. CASE BroadcastUnlock \/ BroadcastReturn \/ CollectorStop \/ Close
    BY <2>2 DEF BroadcastUnlock, BroadcastReturn, CollectorStop, Close
  <2>3. ASSUME NEW c \in Clients, BroadcastSend(c)
        PROVE  TypeOK'
    <3>1. CASE /\ Len(queue[c]) < Capacity
               /\ queue' = [queue EXCEPT ![c] = Append(@, published)]
               /\ UNCHANGED stale
      <4>1. /\ Append(queue[c], published) \in Seq(Nat)
            /\ Len(Append(queue[c], published)) = Len(queue[c]) + 1
        OBVIOUS
      <4>2. /\ queue' \in [Clients -> Seq(Nat)]
            /\ \A d \in Clients : Len(queue'[d]) <= Capacity
        BY <3>1, <4>1
      <4>3. QED
        BY <2>3, <3>1, <4>2 DEF BroadcastSend
    <3>2. CASE stale' = stale \cup {c} /\ UNCHANGED queue
      BY <2>3, <3>2 DEF BroadcastSend
    <3>3. QED
      BY <2>3, <3>1, <3>2 DEF BroadcastSend, Offer
  <2>4. ASSUME NEW c \in Clients, BroadcastEvict(c)
        PROVE  TypeOK'
    BY <2>4 DEF BroadcastEvict, Unregister
  <2>5. ASSUME NEW c \in Clients, Upgrade(c)
        PROVE  TypeOK'
    BY <2>5 DEF Upgrade
  <2>12. ASSUME NEW c \in Clients, Register(c)
        PROVE  TypeOK'
    <3>1. first' \in [Clients -> Nat]
      BY <2>0, <2>12 DEF Register
    <3>2. QED
      BY <2>12, <3>1 DEF Register
  <2>6. ASSUME NEW c \in Clients, ReadLoop(c)
        PROVE  TypeOK'
    BY <2>6 DEF ReadLoop, ReadError, ReaderUnregister, Unregister
  <2>7. ASSUME NEW c \in Clients, WriterReceive(c)
        PROVE  TypeOK'
    BY <2>7 DEF WriterReceive
  <2>8. ASSUME NEW c \in Clients, WriteOK(c)
        PROVE  TypeOK'
    BY <2>8 DEF WriteOK
  <2>9. ASSUME NEW c \in Clients, WriterDrained(c) \/ WriteError(c) \/ WriterUnregister(c)
        PROVE  TypeOK'
    BY <2>9 DEF WriterDrained, WriteError, WriterUnregister, Unregister
  <2>10. CASE UNCHANGED vars
    BY <2>10 DEF vars
  <2>11. QED
    BY <2>1, <2>2, <2>3, <2>4, <2>5, <2>6, <2>7, <2>8, <2>9, <2>10, <2>12
       DEF Next, CollectorRuns, WriteLoop
<1>3. QED
  BY <1>1, <1>2, PTL DEF Spec

-----------------------------------------------------------------------------
(* The inductive invariant, one lemma for each of its parts.                *)

\* A client goes from upgraded to registered to closed, and the snapshot a
\* broadcast works through stays inside the map while the map is read-locked.
LEMMA MembershipStep ==
  ASSUME TypeOK, Membership, [Next]_vars
  PROVE  Membership'
<1> USE DEF Membership, collectorVars, loopVars
<1>1. CASE BroadcastStart \/ BroadcastUnlock \/ BroadcastReturn \/ CollectorStop \/ Close
  BY <1>1 DEF BroadcastStart, BroadcastUnlock, BroadcastReturn, CollectorStop, Close
<1>2. ASSUME NEW c \in Clients, BroadcastSend(c)
      PROVE  Membership'
  BY <1>2 DEF BroadcastSend, Offer
<1>3. ASSUME NEW c \in Clients, BroadcastEvict(c)
      PROVE  Membership'
  BY <1>3 DEF BroadcastEvict, Unregister, CanLock
<1>4. ASSUME NEW c \in Clients, Upgrade(c)
      PROVE  Membership'
  BY <1>4 DEF Upgrade
<1>5. ASSUME NEW c \in Clients, Register(c)
      PROVE  Membership'
  BY <1>5 DEF Register, CanLock, TypeOK
<1>6. ASSUME NEW c \in Clients, ReadLoop(c)
      PROVE  Membership'
  BY <1>6 DEF ReadLoop, ReadError, ReaderUnregister, Unregister, CanLock
<1>7. ASSUME NEW c \in Clients, WriterReceive(c) \/ WriterDrained(c) \/ WriteOK(c) \/ WriteError(c)
      PROVE  Membership'
  BY <1>7 DEF WriterReceive, WriterDrained, WriteOK, WriteError, TypeOK
<1>8. ASSUME NEW c \in Clients, WriterUnregister(c)
      PROVE  Membership'
  BY <1>8 DEF WriterUnregister, Unregister, CanLock, TypeOK
<1>9. CASE UNCHANGED vars
  BY <1>9 DEF vars
<1>10. QED
  BY <1>1, <1>2, <1>3, <1>4, <1>5, <1>6, <1>7, <1>8, <1>9 DEF Next, CollectorRuns, WriteLoop

\* The steps that leave alone what a client was given, and from where.
LEMMA StreamUntouched ==
  ASSUME TypeOK, UNCHANGED <<queue, inflight, delivered, first>>
  PROVE  /\ \A c \in Clients : Given(c)' = Given(c) /\ Given(c) \in Nat
         /\ InOrder => InOrder'
BY DEF TypeOK, Given, InOrder

\* Sending and receiving on one end of a sequence, element by element.
LEMMA TailFacts ==
  ASSUME NEW q \in Seq(Nat), q # <<>>
  PROVE  /\ Head(q) = q[1]
         /\ Tail(q) \in Seq(Nat)
         /\ Len(Tail(q)) = Len(q) - 1
         /\ \A i \in 1 .. Len(Tail(q)) : Tail(q)[i] = q[i + 1]
OBVIOUS

\* A packet appended to a queue is the last, and the others stay where they are.
LEMMA AppendFacts ==
  ASSUME NEW q \in Seq(Nat), NEW p \in Nat
  PROVE  /\ Append(q, p) \in Seq(Nat)
         /\ Len(Append(q, p)) = Len(q) + 1
         /\ \A i \in 1 .. Len(q) + 1 :
              Append(q, p)[i] = IF i = Len(q) + 1 THEN p ELSE q[i]
OBVIOUS

\* The packet in flight is delivered behind the others.
LEMMA ConcatOneFacts ==
  ASSUME NEW d \in Seq(Nat), NEW f \in Seq(Nat), Len(f) = 1
  PROVE  /\ d \o f \in Seq(Nat)
         /\ Len(d \o f) = Len(d) + 1
         /\ (d \o f)[Len(d) + 1] = f[1]
         /\ \A i \in 1 .. Len(d) : (d \o f)[i] = d[i]
<1>1. /\ d \o f \in Seq(Nat)
      /\ Len(d \o f) = Len(d) + Len(f)
      /\ \A i \in 1 .. Len(d) + Len(f) :
           (d \o f)[i] = IF i <= Len(d) THEN d[i] ELSE f[i - Len(d)]
  BY ConcatProperties
<1>2. Len(d) \in Nat
  OBVIOUS
<1>3. QED
  BY <1>1, <1>2

\* What a client was given so far is a number.
LEMMA GivenNat ==
  ASSUME TypeOK, NEW c \in Clients
  PROVE  /\ Len(delivered[c]) \in Nat
         /\ Len(inflight[c]) \in Nat
         /\ Len(queue[c]) \in Nat
         /\ Given(c) \in Nat
BY DEF TypeOK, Given

\* Packets keep their order on their way from the collector to the websocket,
\* and a registered client is as complete as the broadcast under way allows.
LEMMA StreamStep ==
  ASSUME TypeOK, TypeOK', Membership, LoopState, InOrder, UpToDate, [Next]_vars
  PROVE  LoopState' /\ InOrder' /\ UpToDate'
<1> USE DEF collectorVars, loopVars
<1>0. /\ published \in Nat
      /\ first \in [Clients -> Nat]
      /\ clients \subseteq Clients
  BY HubAssumption DEF HubAssumption, TypeOK
<1>a. /\ delivered \in [Clients -> Seq(Nat)] /\ delivered' \in [Clients -> Seq(Nat)]
      /\ inflight \in [Clients -> Seq(Nat)] /\ inflight' \in [Clients -> Seq(Nat)]
      /\ queue \in [Clients -> Seq(Nat)] /\ queue' \in [Clients -> Seq(Nat)]
  BY DEF TypeOK
<1>1. CASE BroadcastStart
  <2>1. UNCHANGED <<queue, inflight, delivered, first, writer>>
    BY <1>1 DEF BroadcastStart
  <2>2. UpToDate'
    BY <1>0, <1>1, <2>1, StreamUntouched DEF BroadcastStart, UpToDate, Membership
  <2>3. QED
    BY <2>1, <2>2, StreamUntouched DEF LoopState
<1>2. CASE BroadcastUnlock \/ BroadcastReturn \/ CollectorStop \/ Close
  <2>1. UNCHANGED <<queue, inflight, delivered, first, writer, published, pending, stale>>
    BY <1>2 DEF BroadcastUnlock, BroadcastReturn, CollectorStop, Close
  <2>2. clients' \subseteq clients
    BY <1>2 DEF BroadcastUnlock, BroadcastReturn, CollectorStop, Close
  <2>3. QED
    BY <1>0, <2>1, <2>2, StreamUntouched DEF LoopState, UpToDate
<1>3. ASSUME NEW c \in Clients, BroadcastSend(c)
      PROVE  LoopState' /\ InOrder' /\ UpToDate'
  <2>1. CASE queue' = [queue EXCEPT ![c] = Append(@, published)] /\ UNCHANGED stale
    <3>1. UNCHANGED <<inflight, delivered, first, writer, clients, published>> /\ pending' = pending \ {c}
      BY <1>3 DEF BroadcastSend
    <3>2. c \in clients /\ c \in pending /\ c \notin stale
      BY <1>3 DEF BroadcastSend, Membership
    <3>3. Len(queue'[c]) = Len(queue[c]) + 1
      BY <1>0, <1>a, <2>1, AppendFacts
    <3>a. /\ queue'[c][Len(queue[c]) + 1] = published
          /\ \A i \in 1 .. Len(queue[c]) : queue'[c][i] = queue[c][i]
      <4>1. queue'[c] = Append(queue[c], published) /\ queue[c] \in Seq(Nat)
        BY <1>a, <2>1
      <4>2. QED
        BY <1>0, <4>1, AppendFacts
    <3>b. \A d \in Clients \ {c} : queue'[d] = queue[d]
      BY <1>a, <2>1
    <3>4. first[c] + Given(c) = published
      BY <1>0, <3>2 DEF UpToDate
    <3>c. Given(c)' = Given(c) + 1
      BY <1>a, <3>1, <3>3 DEF Given
    <3>d. \A d \in Clients \ {c} : Given(d)' = Given(d)
      BY <3>1, <3>b DEF Given
    <3>e. \A d \in Clients : Given(d) \in Nat
      BY GivenNat
    <3>6. InOrder'
      <4>1. ASSUME NEW d \in Clients, NEW i \in 1 .. Len(queue'[d])
            PROVE  queue'[d][i] = first[d] + Len(delivered[d]) + Len(inflight[d]) + i - 1
        <5>1. CASE d = c
          <6>1. /\ Len(delivered[c]) \in Nat /\ Len(inflight[c]) \in Nat
                /\ Len(queue[c]) \in Nat /\ first[c] \in Nat
            BY <1>0, <1>a
          <6>2. CASE i = Len(queue[c]) + 1
            <7>1. published = first[c] + Len(delivered[c]) + Len(inflight[c]) + Len(queue[c])
              <8> DEFINE f == first[c]
                         a == Len(delivered[c])
                         b == Len(inflight[c])
                         q == Len(queue[c])
                         g == Given(c)
              <8>1. f \in Nat /\ a \in Nat /\ b \in Nat /\ q \in Nat
                BY <6>1
              <8>2. g = a + b + q /\ f + g = published
                BY <3>4 DEF Given
              <8> HIDE DEF f, a, b, q, g
              <8>3. published = f + a + b + q
                BY <8>1, <8>2
              <8>4. QED
                BY <8>3 DEF f, a, b, q
            <7>2. published = first[d] + Len(delivered[d]) + Len(inflight[d]) + i - 1
              BY <1>0, <1>a, <5>1, <6>1, <6>2, <7>1
            <7>3. queue'[d][i] = published
              BY <3>a, <5>1, <6>2
            <7>4. QED
              BY <7>2, <7>3
          <6>3. CASE i # Len(queue[c]) + 1
            <7>1. i \in 1 .. Len(queue[c])
              BY <3>3, <5>1, <6>1, <6>3
            <7>2. QED
              BY <3>a, <5>1, <7>1 DEF InOrder
          <6>4. QED
            BY <6>2, <6>3
        <5>2. CASE d # c
          BY <3>b, <5>2 DEF InOrder
        <5>3. QED
          BY <5>1, <5>2
      <4>2. QED
        BY <3>1, <4>1 DEF InOrder
    <3>7. UpToDate'
      BY <1>0, <2>1, <3>1, <3>2, <3>4, <3>c, <3>d, <3>e DEF UpToDate
    <3>8. LoopState'
      BY <3>1, <3>2, <3>d DEF LoopState, Membership
    <3>9. QED
      BY <3>6, <3>7, <3>8
  <2>2. CASE stale' = stale \cup {c} /\ UNCHANGED queue
    <3>1. UNCHANGED <<queue, inflight, delivered, first, writer, clients, published>>
      BY <1>3, <2>2 DEF BroadcastSend
    <3>2. pending' \cup stale' = pending \cup stale
      BY <1>3, <2>2 DEF BroadcastSend
    <3>3. QED
      BY <1>0, <3>1, <3>2, StreamUntouched DEF LoopState, UpToDate
  <2>3. QED
    BY <1>3, <2>1, <2>2 DEF BroadcastSend, Offer
<1>4. ASSUME NEW c \in Clients,
             BroadcastEvict(c) \/ ReadLoop(c) \/ WriterDrained(c) \/ WriteError(c) \/ WriterUnregister(c)
      PROVE  LoopState' /\ InOrder' /\ UpToDate'
  <2> USE DEF BroadcastEvict, ReadLoop, ReadError, ReaderUnregister, WriterDrained,
              WriteError, WriterUnregister, Unregister
  <2>1. UNCHANGED <<queue, inflight, delivered, first, published, pending>>
    BY <1>4
  <2>2. /\ clients' \subseteq clients
        /\ stale' = stale \/ (stale' = stale \ {c} /\ clients' = clients \ {c})
    BY <1>4
  <2>3. writer' = writer \/ (writer[c] # "off" /\ writer' = [writer EXCEPT ![c] = "exiting"])
                         \/ (writer[c] # "off" /\ writer' = [writer EXCEPT ![c] = "done"])
    BY <1>4
  <2>4. LoopState'
    BY <2>1, <2>3, StreamUntouched DEF LoopState, TypeOK
  <2>5. UpToDate'
    BY <1>0, <2>1, <2>2, StreamUntouched DEF UpToDate
  <2>6. QED
    BY <2>1, <2>4, <2>5, StreamUntouched
<1>5. ASSUME NEW c \in Clients, Upgrade(c)
      PROVE  LoopState' /\ InOrder' /\ UpToDate'
  <2>1. UNCHANGED <<queue, inflight, delivered, first, writer, clients, published, pending, stale>>
    BY <1>5 DEF Upgrade
  <2>2. QED
    BY <1>0, <2>1, StreamUntouched DEF LoopState, UpToDate
<1>6. ASSUME NEW c \in Clients, Register(c)
      PROVE  LoopState' /\ InOrder' /\ UpToDate'
  <2>1. /\ UNCHANGED <<queue, inflight, delivered, published, pending, stale>>
        /\ first' = [first EXCEPT ![c] = published + 1]
        /\ writer' = [writer EXCEPT ![c] = "receiving"]
        /\ clients' = clients \cup {c}
    BY <1>6 DEF Register
  <2>2. c \notin pending \cup stale /\ Given(c) = 0
    BY <1>6 DEF Register, CanLock, Membership, LoopState
  <2>3. Len(delivered[c]) = 0 /\ Len(inflight[c]) = 0 /\ Len(queue[c]) = 0
    BY <2>2 DEF Given, TypeOK
  <2>4. \A d \in Clients : Given(d)' = Given(d) /\ Given(d) \in Nat
    BY <2>1 DEF Given, TypeOK
  <2>5. LoopState'
    BY <2>1, <2>3, <2>4 DEF LoopState, TypeOK
  <2>6. InOrder'
    BY <1>0, <2>1, <2>3 DEF InOrder
  <2>7. UpToDate'
    BY <1>0, <2>1, <2>2, <2>4 DEF UpToDate
  <2>8. QED
    BY <2>5, <2>6, <2>7
<1>7. ASSUME NEW c \in Clients, WriterReceive(c)
      PROVE  LoopState' /\ InOrder' /\ UpToDate'
  <2>1. /\ UNCHANGED <<delivered, first, published, pending, stale, clients>>
        /\ inflight' = [inflight EXCEPT ![c] = <<Head(queue[c])>>]
        /\ queue' = [queue EXCEPT ![c] = Tail(@)]
        /\ writer' = [writer EXCEPT ![c] = "writing"]
        /\ writer[c] = "receiving"
        /\ queue[c] # <<>>
    BY <1>7 DEF WriterReceive
  <2>2. Len(inflight[c]) = 0
    BY <2>1 DEF LoopState
  <2>3. /\ Len(queue[c]) \in Nat \ {0} /\ queue[c] \in Seq(Nat)
        /\ inflight'[c] = <<Head(queue[c])>> /\ queue'[c] = Tail(queue[c])
    BY <1>a, <2>1
  <2>4. /\ Len(inflight'[c]) = 1
        /\ inflight'[c][1] = queue[c][1]
        /\ Len(queue'[c]) = Len(queue[c]) - 1
        /\ \A i \in 1 .. Len(queue'[c]) : queue'[c][i] = queue[c][i + 1]
    <3>1. Len(inflight'[c]) = 1 /\ inflight'[c][1] = Head(queue[c])
      BY <2>3
    <3>2. /\ Head(queue[c]) = queue[c][1]
          /\ Len(Tail(queue[c])) = Len(queue[c]) - 1
          /\ \A i \in 1 .. Len(Tail(queue[c])) : Tail(queue[c])[i] = queue[c][i + 1]
      BY <2>1, <2>3, TailFacts
    <3>3. QED
      BY <2>3, <3>1, <3>2
  <2>5. \A d \in Clients \ {c} : inflight'[d] = inflight[d] /\ queue'[d] = queue[d]
    BY <1>a, <2>1
  <2>6. \A d \in Clients : Given(d)' = Given(d) /\ Given(d) \in Nat
    <3>1. Given(c)' = Given(c)
      <4>1. Len(queue'[c]) = Len(queue[c]) - 1 /\ Len(inflight'[c]) = Len(inflight[c]) + 1
        BY <1>a, <2>2, <2>4
      <4>2. UNCHANGED delivered
        BY <2>1
      <4>3. QED
        BY <1>a, <4>1, <4>2 DEF Given
    <3>2. \A d \in Clients \ {c} : Given(d)' = Given(d)
      BY <2>1, <2>5 DEF Given
    <3>3. QED
      BY <3>1, <3>2, GivenNat
  <2>7. LoopState'
    BY <1>a, <2>1, <2>4, <2>5, <2>6 DEF LoopState, TypeOK
  <2>8. InOrder'
    <3>1. ASSUME NEW d \in Clients, NEW i \in 1 .. Len(inflight'[d])
          PROVE  inflight'[d][i] = first[d] + Len(delivered[d]) + i - 1
      <4>1. CASE d = c
        <5>1. i = 1
          <6>1. i \in 1 .. Len(inflight'[c])
            BY <4>1
          <6>2. QED
            BY <2>4, <6>1
        <5>2. queue[c][1] = first[c] + Len(delivered[c]) + Len(inflight[c]) + 1 - 1
          BY <2>3 DEF InOrder
        <5>3. queue[c][1] = first[c] + Len(delivered[c]) + 1 - 1
          BY <1>0, <1>a, <2>2, <5>2
        <5>4. QED
          BY <2>4, <4>1, <5>1, <5>3
      <4>2. CASE d # c
        BY <2>5, <4>2 DEF InOrder
      <4>3. QED
        BY <4>1, <4>2
    <3>2. ASSUME NEW d \in Clients, NEW i \in 1 .. Len(queue'[d])
          PROVE  queue'[d][i] = first[d] + Len(delivered[d]) + Len(inflight'[d]) + i - 1
      <4>1. CASE d = c
        <5>1. queue'[c][i] = queue[c][i + 1] /\ i + 1 \in 1 .. Len(queue[c])
          BY <1>a, <2>3, <2>4, <4>1
        <5>2. queue[c][i + 1] = first[c] + Len(delivered[c]) + Len(inflight[c]) + (i + 1) - 1
          BY <5>1 DEF InOrder
        <5>3. queue[c][i + 1] = first[c] + Len(delivered[c]) + Len(inflight'[c]) + i - 1
          BY <1>0, <1>a, <2>2, <2>4, <5>2
        <5>4. QED
          BY <4>1, <5>1, <5>3
      <4>2. CASE d # c
        BY <2>5, <4>2 DEF InOrder
      <4>3. QED
        BY <4>1, <4>2
    <3>3. QED
      BY <2>1, <3>1, <3>2 DEF InOrder
  <2>9. UpToDate'
    BY <1>0, <2>1, <2>6 DEF UpToDate
  <2>10. QED
    BY <2>7, <2>8, <2>9
<1>8. ASSUME NEW c \in Clients, WriteOK(c)
      PROVE  LoopState' /\ InOrder' /\ UpToDate'
  <2>1. /\ UNCHANGED <<queue, first, published, pending, stale, clients>>
        /\ delivered' = [delivered EXCEPT ![c] = @ \o inflight[c]]
        /\ inflight' = [inflight EXCEPT ![c] = <<>>]
        /\ writer' = [writer EXCEPT ![c] = "receiving"]
        /\ writer[c] = "writing"
    BY <1>8 DEF WriteOK
  <2>2. Len(inflight[c]) = 1
    BY <2>1 DEF LoopState
  <2>3. /\ delivered[c] \in Seq(Nat) /\ inflight[c] \in Seq(Nat)
        /\ delivered'[c] = delivered[c] \o inflight[c] /\ inflight'[c] = <<>>
    BY <1>a, <2>1
  <2>4. /\ Len(delivered'[c]) = Len(delivered[c]) + 1
        /\ delivered'[c][Len(delivered[c]) + 1] = inflight[c][1]
        /\ \A i \in 1 .. Len(delivered[c]) : delivered'[c][i] = delivered[c][i]
        /\ Len(inflight'[c]) = 0
    <3>1. /\ Len(delivered[c] \o inflight[c]) = Len(delivered[c]) + 1
          /\ (delivered[c] \o inflight[c])[Len(delivered[c]) + 1] = inflight[c][1]
          /\ \A i \in 1 .. Len(delivered[c]) : (delivered[c] \o inflight[c])[i] = delivered[c][i]
      BY <2>2, <2>3, ConcatOneFacts
    <3>2. QED
      BY <2>3, <3>1
  <2>5. \A d \in Clients \ {c} : inflight'[d] = inflight[d] /\ delivered'[d] = delivered[d]
    BY <1>a, <2>1
  <2>6. \A d \in Clients : Given(d)' = Given(d) /\ Given(d) \in Nat
    <3>1. Given(c)' = Given(c)
      <4>1. Len(delivered'[c]) = Len(delivered[c]) + 1 /\ Len(inflight'[c]) = Len(inflight[c]) - 1
        BY <1>a, <2>2, <2>4
      <4>2. UNCHANGED queue
        BY <2>1
      <4>3. QED
        BY <1>a, <4>1, <4>2 DEF Given
    <3>2. \A d \in Clients \ {c} : Given(d)' = Given(d)
      BY <2>1, <2>5 DEF Given
    <3>3. QED
      BY <3>1, <3>2, GivenNat
  <2>7. LoopState'
    BY <1>a, <2>1, <2>4, <2>5, <2>6 DEF LoopState, TypeOK
  <2>8. InOrder'
    <3>1. ASSUME NEW d \in Clients, NEW i \in 1 .. Len(delivered'[d])
          PROVE  delivered'[d][i] = first[d] + i - 1
      <4>1. CASE d = c /\ i = Len(delivered[c]) + 1
        <5>1. inflight[c][1] = first[c] + Len(delivered[c]) + 1 - 1
          BY <2>2 DEF InOrder
        <5>2. QED
          BY <1>0, <1>a, <2>4, <4>1, <5>1
      <4>2. CASE d = c /\ i # Len(delivered[c]) + 1
        <5>1. i \in 1 .. Len(delivered[c])
          BY <1>a, <2>4, <4>2
        <5>2. QED
          BY <2>4, <4>2, <5>1 DEF InOrder
      <4>3. CASE d # c
        BY <2>5, <4>3 DEF InOrder
      <4>4. QED
        BY <4>1, <4>2, <4>3
    <3>2. ASSUME NEW d \in Clients, NEW i \in 1 .. Len(inflight'[d])
          PROVE  inflight'[d][i] = first[d] + Len(delivered'[d]) + i - 1
      <4>1. d # c
        BY <2>4
      <4>2. QED
        BY <2>5, <4>1 DEF InOrder
    <3>3. ASSUME NEW d \in Clients, NEW i \in 1 .. Len(queue[d])
          PROVE  queue[d][i] = first[d] + Len(delivered'[d]) + Len(inflight'[d]) + i - 1
      <4>1. queue[d][i] = first[d] + Len(delivered[d]) + Len(inflight[d]) + i - 1
        BY DEF InOrder
      <4>2. Len(delivered'[d]) + Len(inflight'[d]) = Len(delivered[d]) + Len(inflight[d])
        <5>1. CASE d = c
          <6>1. /\ Len(delivered[c]) \in Nat
                /\ Len(delivered'[c]) = Len(delivered[c]) + 1
                /\ Len(inflight[c]) = 1 /\ Len(inflight'[c]) = 0
            BY <1>a, <2>2, <2>4
          <6>2. Len(delivered'[c]) + Len(inflight'[c]) = Len(delivered[c]) + Len(inflight[c])
            BY <6>1
          <6>3. QED
            BY <5>1, <6>2
        <5>2. CASE d # c
          BY <2>5, <5>2
        <5>3. QED
          BY <5>1, <5>2
      <4>3. /\ Len(delivered[d]) \in Nat /\ Len(inflight[d]) \in Nat
            /\ Len(delivered'[d]) \in Nat /\ Len(inflight'[d]) \in Nat
            /\ first[d] \in Nat /\ i \in Nat
        BY <1>0, <1>a
      <4>4. first[d] + Len(delivered'[d]) + Len(inflight'[d]) + i - 1
              = first[d] + Len(delivered[d]) + Len(inflight[d]) + i - 1
        <5> DEFINE a == Len(delivered[d])
                   b == Len(inflight[d])
                   a2 == Len(delivered'[d])
                   b2 == Len(inflight'[d])
                   n == first[d]
        <5>1. a \in Nat /\ b \in Nat /\ a2 \in Nat /\ b2 \in Nat /\ n \in Nat /\ i \in Nat
          BY <4>3
        <5>2. a2 + b2 = a + b
          BY <4>2
        <5> HIDE DEF a, b, a2, b2, n
        <5>3. n + a2 + b2 + i - 1 = n + a + b + i - 1
          BY <5>1, <5>2
        <5>4. QED
          BY <5>3 DEF a, b, a2, b2, n
      <4>5. QED
        BY <4>1, <4>4
    <3>4. QED
      <4>1. UNCHANGED <<queue, first>>
        BY <2>1
      <4>2. QED
        BY <3>1, <3>2, <3>3, <4>1 DEF InOrder
  <2>9. UpToDate'
    BY <1>0, <2>1, <2>6 DEF UpToDate
  <2>10. QED
    BY <2>7, <2>8, <2>9
<1>9. CASE UNCHANGED vars
  <2>1. UNCHANGED <<queue, inflight, delivered, first, writer, clients, published, pending, stale>>
    BY <1>9 DEF vars
  <2>2. QED
    BY <1>0, <2>1, StreamUntouched DEF LoopState, UpToDate
<1>10. QED
  BY <1>1, <1>2, <1>3, <1>4, <1>5, <1>6, <1>7, <1>8, <1>9 DEF Next, CollectorRuns, WriteLoop

\* The inductive invariant holds in every reachable state.
THEOREM Invariance == Spec => []IInv
<1>1. Init => IInv
  <2>1. Init => TypeOK
    BY HubAssumption DEF HubAssumption, Init, TypeOK
  <2>2. Init => Membership /\ LoopState /\ InOrder /\ UpToDate
    BY DEF Init, Membership, LoopState, InOrder, UpToDate, Given
  <2>3. QED
    BY <2>1, <2>2 DEF IInv
<1>2. IInv /\ TypeOK' /\ [Next]_vars => IInv'
  BY MembershipStep, StreamStep DEF IInv
<1>3. QED
  BY <1>1, <1>2, TypeCorrect, PTL DEF Spec

\* The collector never sends on a closed channel, so no disconnection can make
\* Broadcast panic.
THEOREM NeverSendsOnClosed == Spec => []NoSendOnClosed
<1>1. IInv => NoSendOnClosed
  BY DEF IInv, Membership, NoSendOnClosed
<1>2. QED
  BY <1>1, Invariance, PTL

\* Between broadcasts a registered client has been given every packet since it
\* registered.
THEOREM RegisteredIsComplete == Spec => []CompleteOrGone
<1>1. IInv => CompleteOrGone
  BY DEF IInv, Membership, UpToDate, CompleteOrGone
<1>2. QED
  BY <1>1, Invariance, PTL

\* Where the elements of a concatenation of three sequences come from.
LEMMA ThreePartFacts ==
  ASSUME NEW d \in Seq(Nat), NEW f \in Seq(Nat), NEW q \in Seq(Nat)
  PROVE  /\ DOMAIN (d \o f \o q) = 1 .. (Len(d) + Len(f) + Len(q))
         /\ \A i \in 1 .. Len(d) : (d \o f \o q)[i] = d[i]
         /\ \A i \in 1 .. Len(f) : (d \o f \o q)[Len(d) + i] = f[i]
         /\ \A i \in 1 .. Len(q) : (d \o f \o q)[Len(d) + Len(f) + i] = q[i]
<1> DEFINE df == d \o f
           all == df \o q
<1>1. /\ df \in Seq(Nat)
      /\ Len(df) = Len(d) + Len(f)
      /\ \A i \in 1 .. Len(d) + Len(f) :
           df[i] = IF i <= Len(d) THEN d[i] ELSE f[i - Len(d)]
  BY ConcatProperties
<1>2. Len(d) \in Nat /\ Len(f) \in Nat /\ Len(q) \in Nat
  OBVIOUS
<1>a. df \in Seq(Nat)
  BY <1>1
<1> HIDE DEF df
<1>3. /\ all \in Seq(Nat)
      /\ Len(all) = Len(df) + Len(q)
      /\ \A i \in 1 .. Len(df) + Len(q) :
           all[i] = IF i <= Len(df) THEN df[i] ELSE q[i - Len(df)]
  BY <1>a, ConcatProperties
<1> HIDE DEF all
<1>4. DOMAIN all = 1 .. (Len(d) + Len(f) + Len(q))
  BY <1>1, <1>3
<1>5. ASSUME NEW i \in 1 .. Len(d)
      PROVE  all[i] = d[i]
  <2>1. df[i] = d[i]
    BY <1>1, <1>2
  <2>2. i \in 1 .. Len(df) + Len(q) /\ i <= Len(df)
    BY <1>1, <1>2
  <2>3. QED
    BY <1>3, <2>1, <2>2
<1>6. ASSUME NEW i \in 1 .. Len(f)
      PROVE  all[Len(d) + i] = f[i]
  <2>1. Len(d) + i \in 1 .. Len(d) + Len(f) /\ (Len(d) + i) - Len(d) = i /\ ~(Len(d) + i <= Len(d))
    BY <1>2
  <2>2. df[Len(d) + i] = f[i]
    BY <1>1, <2>1
  <2>3. QED
    BY <1>1, <1>2, <1>3, <2>1, <2>2
<1>7. ASSUME NEW i \in 1 .. Len(q)
      PROVE  all[Len(d) + Len(f) + i] = q[i]
  <2>1. /\ Len(df) + i \in 1 .. Len(df) + Len(q)
        /\ (Len(df) + i) - Len(df) = i
        /\ ~(Len(df) + i <= Len(df))
    BY <1>1, <1>2
  <2>2. all[Len(df) + i] = q[i]
    BY <1>3, <2>1
  <2>3. QED
    BY <1>1, <2>2
<1>8. QED
  BY <1>4, <1>5, <1>6, <1>7 DEF all, df

\* What a client is given has no gap and no reordering.
THEOREM StreamHasNoGap == Spec => []NoGap
<1>1. IInv => NoGap
  <2> SUFFICES ASSUME IInv, NEW c \in Clients, NEW i \in DOMAIN Stream(c)
               PROVE  Stream(c)[i] = first[c] + i - 1
    BY DEF NoGap
  <2> DEFINE d == delivered[c]
             f == inflight[c]
             q == queue[c]
  <2>1. d \in Seq(Nat) /\ f \in Seq(Nat) /\ q \in Seq(Nat) /\ first[c] \in Nat
    BY DEF IInv, TypeOK
  <2>2. /\ \A j \in 1 .. Len(d) : d[j] = first[c] + j - 1
        /\ \A j \in 1 .. Len(f) : f[j] = first[c] + Len(d) + j - 1
        /\ \A j \in 1 .. Len(q) : q[j] = first[c] + Len(d) + Len(f) + j - 1
    BY DEF IInv, InOrder
  <2>3. Stream(c) = d \o f \o q
    BY DEF Stream
  <2> DEFINE s == Stream(c)
  <2> HIDE DEF d, f, q, s
  <2>4. /\ i \in 1 .. (Len(d) + Len(f) + Len(q))
        /\ \A j \in 1 .. Len(d) : s[j] = d[j]
        /\ \A j \in 1 .. Len(f) : s[Len(d) + j] = f[j]
        /\ \A j \in 1 .. Len(q) : s[Len(d) + Len(f) + j] = q[j]
    BY <2>1, <2>3, ThreePartFacts DEF s
  <2>5. Len(d) \in Nat /\ Len(f) \in Nat /\ Len(q) \in Nat
    BY <2>1
  <2>6. CASE i <= Len(d)
    BY <2>2, <2>4, <2>5, <2>6 DEF s
  <2>7. CASE Len(d) < i /\ i <= Len(d) + Len(f)
    <3>1. PICK j \in 1 .. Len(f) : i = Len(d) + j
      <4>1. i - Len(d) \in 1 .. Len(f) /\ i = Len(d) + (i - Len(d))
        BY <2>4, <2>5, <2>7
      <4>2. QED
        BY <4>1
    <3>2. QED
      BY <2>1, <2>2, <2>4, <2>5, <3>1 DEF s
  <2>8. CASE Len(d) + Len(f) < i
    <3>1. PICK j \in 1 .. Len(q) : i = Len(d) + Len(f) + j
      <4>1. /\ i - (Len(d) + Len(f)) \in 1 .. Len(q)
            /\ i = Len(d) + Len(f) + (i - (Len(d) + Len(f)))
        BY <2>4, <2>5, <2>8
      <4>2. QED
        BY <4>1
    <3>2. QED
      BY <2>1, <2>2, <2>4, <2>5, <3>1 DEF s
  <2>9. QED
    BY <2>4, <2>5, <2>6, <2>7, <2>8
<1>2. QED
  BY <1>1, Invariance, PTL

\* Both together: no hole inside a stream, none at its end.
THEOREM StreamsAreComplete == Spec => []StreamIsComplete
<1>1. NoGap /\ CompleteOrGone => StreamIsComplete
  BY DEF StreamIsComplete
<1>2. QED
  BY <1>1, StreamHasNoGap, RegisteredIsComplete, PTL

\* No client has more packets than were broadcast since it registered: what is
\* left in the channel of a client that was dropped is old.
NotAhead == \A c \in Clients : first[c] + Given(c) <= published + 1

\* No step gives a client more than was published since it came.
LEMMA NotAheadStep == IInv /\ TypeOK' /\ NotAhead /\ [Next]_vars => NotAhead'
<1> SUFFICES ASSUME IInv, TypeOK', NotAhead, [Next]_vars
             PROVE  NotAhead'
  OBVIOUS
<1>a. /\ queue \in [Clients -> Seq(Nat)] /\ queue' \in [Clients -> Seq(Nat)]
      /\ inflight \in [Clients -> Seq(Nat)] /\ inflight' \in [Clients -> Seq(Nat)]
      /\ delivered \in [Clients -> Seq(Nat)] /\ delivered' \in [Clients -> Seq(Nat)]
      /\ first \in [Clients -> Nat] /\ first' \in [Clients -> Nat]
      /\ published \in Nat /\ published' \in Nat
  BY DEF IInv, TypeOK
<1>b. \A c \in Clients : Given(c) \in Nat
  BY GivenNat DEF IInv
<1>1. CASE UNCHANGED <<queue, inflight, delivered, first>> /\ published <= published'
  BY <1>1, <1>a, <1>b DEF NotAhead, Given
<1>2. ASSUME NEW c \in Clients, Register(c)
      PROVE  NotAhead'
  <2>1. UNCHANGED <<queue, inflight, delivered, published>> /\ first' = [first EXCEPT ![c] = published + 1]
    BY <1>2 DEF Register, collectorVars
  <2>2. Given(c) = 0
    BY <1>2 DEF Register, IInv, Membership, LoopState
  <2>3. QED
    BY <1>a, <1>b, <2>1, <2>2 DEF NotAhead, Given
<1>3. ASSUME NEW c \in Clients, BroadcastSend(c)
      PROVE  NotAhead'
  <2>1. UNCHANGED <<inflight, delivered, first, published>> /\ c \in pending
    BY <1>3 DEF BroadcastSend, loopVars
  <2>2. \/ UNCHANGED queue
        \/ queue' = [queue EXCEPT ![c] = Append(@, published)]
    BY <1>3 DEF BroadcastSend, Offer
  <2>3. first[c] + Given(c) = published
    BY <1>a, <2>1 DEF IInv, Membership, UpToDate
  <2>4. Len(queue'[c]) <= Len(queue[c]) + 1 /\ Len(queue'[c]) \in Nat
    <3>1. Len(Append(queue[c], published)) = Len(queue[c]) + 1
      BY <1>a, AppendFacts
    <3>2. QED
      BY <1>a, <2>2, <3>1
  <2>5. Given(c)' <= Given(c) + 1 /\ Given(c)' \in Nat
    BY <1>a, <2>1, <2>4 DEF Given
  <2>6. \A d \in Clients \ {c} : Given(d)' = Given(d)
    BY <1>a, <2>1, <2>2 DEF Given
  <2>7. first[c] + Given(c)' <= published + 1
    BY <1>a, <1>b, <2>3, <2>5
  <2>8. QED
    BY <1>a, <1>b, <2>1, <2>6, <2>7 DEF NotAhead
<1>4. ASSUME NEW c \in Clients, WriterReceive(c)
      PROVE  NotAhead'
  <2>1. /\ UNCHANGED <<delivered, first, published>>
        /\ queue[c] # <<>>
        /\ inflight' = [inflight EXCEPT ![c] = <<Head(queue[c])>>]
        /\ queue' = [queue EXCEPT ![c] = Tail(@)]
    BY <1>4 DEF WriterReceive, collectorVars
  <2>2. Len(inflight[c]) = 0
    BY <1>4 DEF WriterReceive, IInv, LoopState
  <2>3. Len(queue'[c]) = Len(queue[c]) - 1 /\ Len(inflight'[c]) = 1
    BY <1>a, <2>1, TailFacts
  <2>4. Given(c)' = Given(c)
    BY <1>a, <2>1, <2>2, <2>3 DEF Given
  <2>5. \A d \in Clients \ {c} : Given(d)' = Given(d)
    BY <1>a, <2>1 DEF Given
  <2>6. QED
    BY <2>1, <2>4, <2>5 DEF NotAhead
<1>5. ASSUME NEW c \in Clients, WriteOK(c)
      PROVE  NotAhead'
  <2>1. /\ UNCHANGED <<queue, first, published>>
        /\ delivered' = [delivered EXCEPT ![c] = @ \o inflight[c]]
        /\ inflight' = [inflight EXCEPT ![c] = <<>>]
    BY <1>5 DEF WriteOK, collectorVars
  <2>2. Len(inflight[c]) = 1
    BY <1>5 DEF WriteOK, IInv, LoopState
  <2>3. Len(delivered'[c]) = Len(delivered[c]) + 1 /\ Len(inflight'[c]) = 0
    BY <1>a, <2>1, <2>2, ConcatOneFacts
  <2>4. Given(c)' = Given(c)
    <3>1. Len(delivered'[c]) = Len(delivered[c]) + 1 /\ Len(inflight'[c]) = Len(inflight[c]) - 1
      BY <1>a, <2>2, <2>3
    <3>2. UNCHANGED queue
      BY <2>1
    <3>3. QED
      BY <1>a, <3>1, <3>2 DEF Given
  <2>5. \A d \in Clients \ {c} : Given(d)' = Given(d)
    BY <1>a, <2>1 DEF Given
  <2>6. QED
    BY <2>1, <2>4, <2>5 DEF NotAhead
<1>6. CASE \/ BroadcastStart \/ CollectorStop \/ BroadcastUnlock \/ BroadcastReturn \/ Close
           \/ UNCHANGED vars
  BY <1>1, <1>6, <1>a DEF BroadcastStart, CollectorStop, BroadcastUnlock, BroadcastReturn, Close, vars, collectorVars, loopVars
<1>7. ASSUME NEW c \in Clients,
             Upgrade(c) \/ BroadcastEvict(c) \/ ReadLoop(c) \/ WriterDrained(c) \/ WriteError(c) \/ WriterUnregister(c)
      PROVE  NotAhead'
  BY <1>1, <1>7, <1>a DEF Upgrade, BroadcastEvict, ReadLoop, ReadError, ReaderUnregister, WriterDrained, WriteError,
       WriterUnregister, vars, collectorVars, loopVars
<1>8. QED
  BY <1>2, <1>3, <1>4, <1>5, <1>6, <1>7 DEF Next, CollectorRuns, WriteLoop


\* Steps a browser cannot see: nothing is broadcast, delivered or dropped.
LEMMA Unseen ==
  ASSUME UNCHANGED <<published, first, delivered, clients>>,
         \A c \in Clients : writer'[c] = "off" <=> writer[c] = "off"
  PROVE  UNCHANGED Promise!vars
BY DEF Promise!vars

\* A client that leaves the map is dropped, one that has left it already is not.
LEMMA Leaves ==
  ASSUME NEW c \in Clients, Unregister(c), UNCHANGED <<published, first, delivered>>,
         \A d \in Clients : writer'[d] = "off" <=> writer[d] = "off",
         \A d \in clients : writer[d] # "off"
  PROVE  [Promise!Next]_(Promise!vars)
<1>1. CASE c \in clients
  <2>1. clients' = clients \ {c}
    BY DEF Unregister
  <2>2. Promise!Drop(c)
    BY <1>1, <2>1 DEF Promise!Drop
  <2>3. QED
    BY <2>2 DEF Promise!Next
<1>2. CASE c \notin clients
  <2>1. clients' = clients
    BY <1>2 DEF Unregister
  <2>2. QED
    BY <2>1, Unseen
<1>3. QED
  BY <1>1, <1>2

\* Every step of the hub is one of the stream, or none.
LEMMA StreamSimulates ==
  IInv /\ TypeOK' /\ NotAhead /\ [Next]_vars => [Promise!Next]_(Promise!vars)
<1> SUFFICES ASSUME IInv, TypeOK', NotAhead, [Next]_vars
             PROVE  [Promise!Next]_(Promise!vars)
  OBVIOUS
<1>a. /\ queue \in [Clients -> Seq(Nat)] /\ inflight \in [Clients -> Seq(Nat)]
      /\ delivered \in [Clients -> Seq(Nat)] /\ first \in [Clients -> Nat]
      /\ published \in Nat /\ clients \subseteq Clients /\ Capacity \in Nat
      /\ writer \in [Clients -> {"off", "receiving", "writing", "exiting", "done"}]
      /\ \A c \in Clients : Len(queue[c]) <= Capacity /\ Len(inflight[c]) <= 1
  BY HubAssumption DEF IInv, TypeOK, HubAssumption
<1>b. \A c \in Clients : /\ Len(delivered[c]) \in Nat /\ Len(inflight[c]) \in Nat
                         /\ Len(queue[c]) \in Nat
  BY <1>a
<1>c. \A d \in clients : writer[d] # "off"
  BY DEF IInv, Membership
<1>1. CASE BroadcastStart
  <2>1. \A c \in clients : first[c] + Given(c) = published + 1
    BY <1>1, <1>a DEF BroadcastStart, IInv, Membership, UpToDate
  <2>2. \A c \in clients : (published + 1) - (first[c] + Len(delivered[c])) < Capacity + 2
    BY <1>a, <1>b, <2>1 DEF Given
  <2>3. /\ published < MaxMessages /\ published' = published + 1
        /\ UNCHANGED <<clients, writer, first, delivered>>
    BY <1>1 DEF BroadcastStart, loopVars
  <2>4. Promise!Publish
    BY <1>a, <2>2, <2>3 DEF Promise!Publish, Promise!Lag
  <2>5. QED
    BY <2>4 DEF Promise!Next
<1>2. CASE Close
  <2>1. /\ clients' = {}
        /\ UNCHANGED <<published, first, delivered, writer>>
    BY <1>2 DEF Close, loopVars
  <2>2. Promise!DropAll
    BY <1>a, <1>c, <2>1 DEF Promise!DropAll
  <2>3. QED
    BY <2>2 DEF Promise!Next
<1>3. ASSUME NEW c \in Clients, Register(c)
      PROVE  [Promise!Next]_(Promise!vars)
  <2>1. /\ clients' = clients \cup {c}
        /\ first' = [first EXCEPT ![c] = published + 1]
        /\ writer' = [writer EXCEPT ![c] = "receiving"]
        /\ UNCHANGED <<published, delivered>>
    BY <1>3 DEF Register, collectorVars
  <2>2. writer[c] = "off" /\ c \notin clients
    BY <1>3 DEF Register, IInv, Membership
  <2>3. Promise!Join(c)
    BY <1>a, <2>1, <2>2 DEF Promise!Join
  <2>4. QED
    BY <2>3 DEF Promise!Next
<1>4. ASSUME NEW c \in Clients, WriteOK(c)
      PROVE  [Promise!Next]_(Promise!vars)
  <2>1. /\ writer[c] = "writing"
        /\ delivered' = [delivered EXCEPT ![c] = @ \o inflight[c]]
        /\ writer' = [writer EXCEPT ![c] = "receiving"]
        /\ UNCHANGED <<clients, published, first>>
    BY <1>4 DEF WriteOK, collectorVars
  <2>2. Len(inflight[c]) = 1 /\ inflight[c][1] = first[c] + Len(delivered[c])
    <3>1. Len(inflight[c]) = 1
      BY <2>1 DEF IInv, LoopState
    <3>2. inflight[c][1] = first[c] + Len(delivered[c]) + 1 - 1
      BY <3>1 DEF IInv, InOrder
    <3>3. first[c] + Len(delivered[c]) + 1 - 1 = first[c] + Len(delivered[c])
      BY <1>a, <1>b
    <3>4. QED
      BY <3>1, <3>2, <3>3
  <2>3. delivered[c] \o inflight[c] = Append(delivered[c], first[c] + Len(delivered[c]))
    <3>1. inflight[c] = <<first[c] + Len(delivered[c])>>
      BY <1>a, <2>2
    <3>2. QED
      BY <1>a, <1>b, <3>1
  <2>4. (published + 1) - (first[c] + Len(delivered[c])) > 0
    <3>1. first[c] + Given(c) <= published + 1
      BY DEF NotAhead
    <3>2. QED
      BY <1>a, <1>b, <2>2, <3>1 DEF Given
  <2>5. \A d \in Clients : writer'[d] = "off" <=> writer[d] = "off"
    BY <1>a, <2>1
  <2>6. Promise!Receive(c)
    BY <1>a, <2>1, <2>3, <2>4, <2>5 DEF Promise!Receive, Promise!Lag
  <2>7. QED
    BY <2>6 DEF Promise!Next
<1>5. ASSUME NEW c \in Clients, BroadcastEvict(c) \/ ReaderUnregister(c) \/ WriterUnregister(c)
      PROVE  [Promise!Next]_(Promise!vars)
  <2>1. Unregister(c) /\ UNCHANGED <<published, first, delivered>>
    BY <1>5 DEF BroadcastEvict, ReaderUnregister, WriterUnregister, collectorVars, loopVars
  <2>2. \A d \in Clients : writer'[d] = "off" <=> writer[d] = "off"
    BY <1>5, <1>a DEF BroadcastEvict, ReaderUnregister, WriterUnregister, loopVars
  <2>3. QED
    BY <1>c, <2>1, <2>2, Leaves
<1>6. CASE BroadcastUnlock \/ BroadcastReturn \/ CollectorStop \/ UNCHANGED vars
  <2>1. UNCHANGED <<published, first, delivered, clients, writer>>
    BY <1>6 DEF BroadcastUnlock, BroadcastReturn, CollectorStop, vars, collectorVars, loopVars
  <2>2. QED
    BY <2>1, Unseen
<1>7. ASSUME NEW c \in Clients,
             Upgrade(c) \/ BroadcastSend(c) \/ ReadError(c) \/ WriterReceive(c) \/ WriterDrained(c) \/ WriteError(c)
      PROVE  [Promise!Next]_(Promise!vars)
  <2>1. UNCHANGED <<published, first, delivered, clients>>
    BY <1>7 DEF Upgrade, BroadcastSend, ReadError, WriterReceive, WriterDrained, WriteError, collectorVars, loopVars
  <2>2. \A d \in Clients : writer'[d] = "off" <=> writer[d] = "off"
    BY <1>7, <1>a DEF Upgrade, BroadcastSend, ReadError, WriterReceive, WriterDrained, WriteError, loopVars
  <2>3. QED
    BY <2>1, <2>2, Unseen
<1>8. QED
  BY <1>1, <1>2, <1>3, <1>4, <1>5, <1>6, <1>7 DEF Next, CollectorRuns, ReadLoop, WriteLoop

\* The hub implements the stream a browser is promised.
THEOREM HubImplementsStream == Spec => ImplementsPacketStream
<1>1. Init => Promise!Init
  BY DEF Init, Promise!Init
<1>2. Init => NotAhead
  <2> SUFFICES ASSUME Init, NEW c \in Clients
               PROVE  first[c] + Given(c) <= published + 1
    BY DEF NotAhead
  <2>1. delivered[c] = <<>> /\ inflight[c] = <<>> /\ queue[c] = <<>>
    BY DEF Init
  <2>2. Given(c) = 0
    BY <2>1 DEF Given
  <2>3. first[c] = 1 /\ published = 0
    BY DEF Init
  <2>4. QED
    BY <2>2, <2>3
<1>3. Spec => []NotAhead
  BY <1>2, NotAheadStep, Invariance, TypeCorrect, PTL DEF Spec
<1>4. QED
  BY <1>1, <1>3, StreamSimulates, Invariance, TypeCorrect, PTL DEF Spec, ImplementsPacketStream, Promise!Spec

-----------------------------------------------------------------------------
(* The change of the capture filter, for any filters, any number of requests *)
(* and any number of failures.                                               *)

USE CaptureAssumption DEF CaptureAssumption

\* Each step keeps the types.
LEMMA TypeStep == ControlInv /\ [ControlNext]_controlVars => ControlTypeOK'
<1> SUFFICES ASSUME ControlInv, [ControlNext]_controlVars PROVE ControlTypeOK'
  OBVIOUS
<1> USE DEF ControlInv, ControlTypeOK, Expressions
<1>1. ASSUME NEW r \in Requests, NEW f \in Expressions, Put(r, f) PROVE ControlTypeOK'
  BY <1>1 DEF Put, Goto
<1>2. ASSUME NEW r \in Requests, Lock(r) PROVE ControlTypeOK'
  BY <1>2 DEF Lock, Goto
<1>3. ASSUME NEW r \in Requests, BeforeFilterApplied(r) PROVE ControlTypeOK'
  BY <1>3 DEF BeforeFilterApplied, Goto, Answer
<1>4. ASSUME NEW r \in Requests, UpdateFails(r) PROVE ControlTypeOK'
  BY <1>4 DEF UpdateFails, Goto, Answer, Failure, Unlock
<1>5. ASSUME NEW r \in Requests, UpdateStarts(r) PROVE ControlTypeOK'
  BY <1>5 DEF UpdateStarts, Goto
<1>6. ASSUME NEW r \in Requests, UpdateEnds(r) PROVE ControlTypeOK'
  BY <1>6 DEF UpdateEnds, Goto
<1>7. ASSUME NEW r \in Requests, BeginFails(r) PROVE ControlTypeOK'
  BY <1>7 DEF BeginFails, Goto, Answer, Failure, Unlock
<1>8. ASSUME NEW r \in Requests, BeginCapture(r) PROVE ControlTypeOK'
  BY <1>8 DEF BeginCapture, Goto
<1>9. ASSUME NEW r \in Requests, Publish(r) PROVE ControlTypeOK'
  BY <1>9 DEF Publish, Goto, Answer, Unlock
<1>10. CASE Capture
  <2>1. bpf \in Filters \cup {Mixed}
    BY <1>10 DEF Capture
  <2>2. ring' \in Seq(Filters \cup {Mixed}) /\ Len(ring') = Len(ring) + 1
    BY <1>10, <2>1, AppendProperties DEF Capture
  <2> QED
    BY <1>10, <2>2 DEF Capture, local
<1>11. CASE Collect
  <2>1. ring' \in Seq(Filters \cup {Mixed}) /\ Len(ring') = Len(ring) - 1
    BY <1>11, HeadTailProperties DEF Collect
  <2> QED
    BY <1>11, <2>1 DEF Collect, local
<1>12. CASE UNCHANGED controlVars
  BY <1>12 DEF controlVars, local
<1> QED
  BY <1>1, <1>2, <1>3, <1>4, <1>5, <1>6, <1>7, <1>8, <1>9, <1>10, <1>11, <1>12
  DEF ControlNext, Serve

\* The mutex is held exactly by the request that is past Lock.
LEMMA HoldingStep == ControlInv /\ [ControlNext]_controlVars => Holding'
<1> SUFFICES ASSUME ControlInv, [ControlNext]_controlVars PROVE Holding'
  OBVIOUS
<1> USE DEF ControlInv, ControlTypeOK, Holding
<1>1. ASSUME NEW r \in Requests, NEW f \in Expressions, Put(r, f) PROVE Holding'
  BY <1>1 DEF Put, Goto
<1>2. ASSUME NEW r \in Requests, Lock(r) PROVE Holding'
  BY <1>2 DEF Lock, Goto
<1>3. ASSUME NEW r \in Requests, BeforeFilterApplied(r) PROVE Holding'
  BY <1>3 DEF BeforeFilterApplied, Goto, Answer
<1>4. ASSUME NEW r \in Requests, UpdateFails(r) PROVE Holding'
  BY <1>4 DEF UpdateFails, Goto, Answer, Unlock
<1>5. ASSUME NEW r \in Requests, UpdateStarts(r) PROVE Holding'
  BY <1>5 DEF UpdateStarts, Goto
<1>6. ASSUME NEW r \in Requests, UpdateEnds(r) PROVE Holding'
  BY <1>6 DEF UpdateEnds, Goto
<1>7. ASSUME NEW r \in Requests, BeginFails(r) PROVE Holding'
  BY <1>7 DEF BeginFails, Goto, Answer, Unlock
<1>8. ASSUME NEW r \in Requests, BeginCapture(r) PROVE Holding'
  BY <1>8 DEF BeginCapture, Goto
<1>9. ASSUME NEW r \in Requests, Publish(r) PROVE Holding'
  BY <1>9 DEF Publish, Goto, Answer, Unlock
<1>10. CASE Capture \/ Collect \/ UNCHANGED controlVars
  BY <1>10 DEF Capture, Collect, controlVars, local
<1> QED
  BY <1>1, <1>2, <1>3, <1>4, <1>5, <1>6, <1>7, <1>8, <1>9, <1>10 DEF ControlNext, Serve

\* Agreement is restored by Publish, or given up by a failure; in between the
\* holder of the mutex is the only one who touches the three filters.
LEMMA AgreementStep == ControlInv /\ [ControlNext]_controlVars => (InAgreement /\ Progress)'
<1> SUFFICES ASSUME ControlInv, [ControlNext]_controlVars PROVE (InAgreement /\ Progress)'
  OBVIOUS
<1> USE DEF ControlInv, ControlTypeOK, Holding, InAgreement, Progress
<1>1. ASSUME NEW r \in Requests, NEW f \in Expressions, Put(r, f)
      PROVE (InAgreement /\ Progress)'
  BY <1>1 DEF Put, Goto
<1>2. ASSUME NEW r \in Requests, Lock(r) PROVE (InAgreement /\ Progress)'
  BY <1>2 DEF Lock, Goto
<1>3. ASSUME NEW r \in Requests, BeforeFilterApplied(r) PROVE (InAgreement /\ Progress)'
  BY <1>3 DEF BeforeFilterApplied, Goto, Answer
<1>4. ASSUME NEW r \in Requests, UpdateFails(r) PROVE (InAgreement /\ Progress)'
  BY <1>4 DEF UpdateFails, Goto, Answer, Unlock
<1>5. ASSUME NEW r \in Requests, UpdateStarts(r) PROVE (InAgreement /\ Progress)'
  BY <1>5 DEF UpdateStarts, Goto
<1>6. ASSUME NEW r \in Requests, UpdateEnds(r) PROVE (InAgreement /\ Progress)'
  BY <1>6 DEF UpdateEnds, Goto
<1>7. ASSUME NEW r \in Requests, BeginFails(r) PROVE (InAgreement /\ Progress)'
  BY <1>7 DEF BeginFails, Goto, Answer, Unlock
<1>8. ASSUME NEW r \in Requests, BeginCapture(r) PROVE (InAgreement /\ Progress)'
  BY <1>8 DEF BeginCapture, Goto
<1>9. ASSUME NEW r \in Requests, Publish(r) PROVE (InAgreement /\ Progress)'
  BY <1>9 DEF Publish, Goto, Answer, Unlock
<1>10. CASE Capture \/ Collect \/ UNCHANGED controlVars
  BY <1>10 DEF Capture, Collect, controlVars, local
<1> QED
  BY <1>1, <1>2, <1>3, <1>4, <1>5, <1>6, <1>7, <1>8, <1>9, <1>10 DEF ControlNext, Serve

\* The inductive invariant holds in every state of the code's handlers.
THEOREM ControlInvariance == ControlSpec => []ControlInv
<1>1. ControlInit => ControlInv
  <2> SUFFICES ASSUME ControlInit PROVE ControlInv
    OBVIOUS
  <2>1. ControlTypeOK
    <3>1. ring \in Seq(Filters \cup {Mixed}) /\ Len(ring) <= RingCapacity
      BY EmptySeq DEF ControlInit
    <3> QED
      BY <3>1 DEF ControlInit, ControlTypeOK, Expressions
  <2>2. InAgreement
    BY DEF ControlInit, InAgreement
  <2>3. Holding /\ Progress
    BY DEF ControlInit, Holding, Progress
  <2> QED
    BY <2>1, <2>2, <2>3 DEF ControlInv
<1>2. ControlInv /\ [ControlNext]_controlVars => ControlInv'
  BY TypeStep, HoldingStep, AgreementStep DEF ControlInv
<1> QED
  BY <1>1, <1>2, PTL DEF ControlSpec

\* The filter that is reported, the one the kernel applies and the one of the
\* recording batch agree whenever no handler holds the mutex, as stated by
\* InAgreement (server.go:164-178).
THEOREM FiltersAgree == ControlSpec => []InAgreement
<1>1. ControlInv => InAgreement
  BY DEF ControlInv
<1> QED
  BY <1>1, ControlInvariance, PTL

\* Every variable keeps its type.
THEOREM ControlTypeCorrect == ControlSpec => []ControlTypeOK
<1>1. ControlInv => ControlTypeOK
  BY DEF ControlInv
<1> QED
  BY <1>1, ControlInvariance, PTL

\* Whatever filters follow one another, and whatever fails, the kernel selects
\* what the reported expression means, provided that parser and match_filter
\* read each expression by itself as it is meant: nothing of an earlier filter
\* and no half-written one is left in the map (server.go:167-177).
THEOREM ReportedIsWhatIsSelected ==
  ASSUME ExpressionsAreRead,
         \A f \in Expressions, p \in Packets : Selects(Parse(f), p) <=> Means(f, p)
  PROVE  ControlSpec => []ReportedFilterIsApplied
<1>1. ControlInv => ReportedFilterIsApplied
  <2> SUFFICES ASSUME ControlInv, mu = Nobody, ~failed
               PROVE  bpf # Mixed /\ \A p \in Packets : Selects(Parse(bpf), p) <=> Means(expr, p)
    BY DEF ReportedFilterIsApplied, AppliedAsReported
  <2>1. bpf = expr /\ expr \in Expressions
    BY DEF ControlInv, InAgreement, ControlTypeOK
  <2>2. bpf # Mixed
    BY <2>1
  <2>3. \A p \in Packets : Selects(Parse(bpf), p) <=> Means(expr, p)
    BY <2>1
  <2> QED
    BY <2>2, <2>3
<1> QED
  BY <1>1, ControlInvariance, PTL
=============================================================================
