-------------------------- MODULE GeoReplayProofs --------------------------
(***************************************************************************)
(* For lists of any length, any timestamps and any window: the windows of  *)
(* a list leave nothing out; recording and replaying exclude one another   *)
(* and a playback has exactly one timer; and the paths that are used are   *)
(* those of the packets that are played.                                   *)
(***************************************************************************)
EXTENDS GeoReplay, ListsProofs

-----------------------------------------------------------------------------
(* The windows of a list *)

\* A window that begins with a packet of the list ends with one of the list.
LEMMA WindowHasEnd ==
  ASSUME NEW list \in Seq(Nat), NEW i \in 1..Len(list)
  PROVE  /\ WindowEnd(list, i) \in i..Len(list)
         /\ list[WindowEnd(list, i)] <= list[i] + Window
<1> DEFINE n == Len(list)
           bound == list[i] + Window
           S == {j \in i..n : j = n \/ list[j + 1] > bound}
<1>1. n \in Nat /\ \A j \in 1..n : list[j] \in Nat
  BY LenProperties, ElementOfSeq
<1>2. S \in SUBSET Nat /\ n \in S
  BY <1>1
<1>3. PICK j \in S : \A k \in S : j <= k
  BY <1>2, FirstPosition
<1>4. list[j] <= bound
  <2>1. CASE j = i
    BY <1>1, <2>1, GeoAssumption DEF GeoAssumption
  <2>2. CASE j # i
    <3>0. j \in i..n /\ j - 1 \in i..n /\ ~(j <= j - 1)
      BY <1>1, <1>3, <2>2
    <3>1. j - 1 \in i..n /\ j - 1 \notin S
      <4> HIDE DEF S
      <4> QED BY <1>3, <3>0
    <3>2. ~(list[(j - 1) + 1] > bound) /\ (j - 1) + 1 = j /\ j \in 1..n
      BY <1>1, <3>1, <1>3
    <3> QED BY <1>1, <3>2, GeoAssumption DEF GeoAssumption
  <2> QED BY <2>1, <2>2
<1>5. \E k \in i..n : list[k] <= bound /\ (k = n \/ list[k + 1] > bound)
  BY <1>3, <1>4
<1> QED BY <1>5 DEF WindowEnd

\* The definition by which Batches goes through the list.
IsChain(f, list, first) ==
  \A i \in first..(Len(list) + 1) :
    f[i] = IF i > Len(list) THEN <<>>
           ELSE <<WindowEnd(list, i)>> \o f[WindowEnd(list, i) + 1]

\* It defines a function, from the end of the list back to any position.
LEMMA ChainExists ==
  ASSUME NEW list \in Seq(Nat)
  PROVE  \E f : f = [i \in 1..(Len(list) + 1) |->
                       IF i > Len(list) THEN <<>>
                       ELSE <<WindowEnd(list, i)>> \o f[WindowEnd(list, i) + 1]]
<1> DEFINE n == Len(list)
           last(i) == WindowEnd(list, i)
           S == {k \in 1..(n + 1) : \E f : IsChain(f, list, k)}
<1>1. n \in Nat /\ \A i \in 1..n : last(i) \in i..n
  BY LenProperties, WindowHasEnd
<1> HIDE DEF last
<1>2. n + 1 \in S
  <2>1. IsChain([i \in {n + 1} |-> <<>>], list, n + 1)
    BY <1>1 DEF IsChain
  <2> QED BY <1>1, <2>1
<1>3. PICK k \in S : \A j \in S : k <= j
  <2>1. S \in SUBSET Nat /\ S # {}
    BY <1>1, <1>2
  <2> HIDE DEF S
  <2> QED BY <2>1, FirstPosition
<1>4. PICK f : IsChain(f, list, k)
  BY <1>3
<1>5. k = 1
  <2> SUFFICES ASSUME k # 1 PROVE FALSE
    OBVIOUS
  <2> DEFINE p == k - 1
             g == [i \in p..(n + 1) |-> IF i = p THEN <<last(p)>> \o f[last(p) + 1] ELSE f[i]]
  <2>0. k \in 1..(n + 1) /\ p \in 1..n /\ p + 1 = k /\ ~(k <= p)
    BY <1>1, <1>3
  <2>1. p \in 1..n /\ p + 1 = k /\ p \notin S
    <3> HIDE DEF S, p
    <3> QED BY <1>3, <2>0
  <2>2. ASSUME NEW i \in p..(n + 1)
        PROVE  g[i] = IF i > n THEN <<>> ELSE <<last(i)>> \o g[last(i) + 1]
    <3>1. CASE i = p
      <4>1. last(p) + 1 \in p..(n + 1) /\ last(p) + 1 # p
        <5> HIDE DEF p
        <5> QED BY <1>1, <2>1
      <4> QED BY <1>1, <2>1, <3>1, <4>1
    <3>2. CASE i # p
      <4>1. i \in k..(n + 1)
        BY <1>1, <2>1, <3>2
      <4>2. f[i] = IF i > n THEN <<>> ELSE <<last(i)>> \o f[last(i) + 1]
        BY <1>4, <4>1 DEF IsChain, last
      <4>3. i <= n => last(i) + 1 \in p..(n + 1) /\ last(i) + 1 # p
        BY <1>1, <2>1, <3>2
      <4> HIDE DEF n, p
      <4> QED BY <1>1, <3>2, <4>1, <4>2, <4>3
    <3> QED BY <3>1, <3>2
  <2>3. IsChain(g, list, p)
    <3> HIDE DEF g
    <3> QED BY <2>2 DEF IsChain, last
  <2> QED BY <2>1, <2>3
<1> DEFINE h == [i \in 1..(n + 1) |-> f[i]]
<1>6. \A i \in 1..(n + 1) : h[i] = IF i > n THEN <<>> ELSE <<last(i)>> \o h[last(i) + 1]
  <2> SUFFICES ASSUME NEW i \in 1..(n + 1)
               PROVE  h[i] = IF i > n THEN <<>> ELSE <<last(i)>> \o h[last(i) + 1]
    OBVIOUS
  <2>1. i <= n => last(i) + 1 \in 1..(n + 1)
    BY <1>1
  <2>2. f[i] = IF i > n THEN <<>> ELSE <<last(i)>> \o f[last(i) + 1]
    BY <1>4, <1>5 DEF IsChain, last
  <2> HIDE DEF n
  <2> QED BY <1>1, <2>1, <2>2
<1>7. h = [i \in 1..(n + 1) |-> h[i]]
  OBVIOUS
<1> HIDE DEF h
<1>8. h = [i \in 1..(n + 1) |-> IF i > n THEN <<>> ELSE <<last(i)>> \o h[last(i) + 1]]
  BY <1>6, <1>7
<1> QED BY <1>8 DEF last

\* Putting a smaller number before increasing ones.
LEMMA PrependIncreasing ==
  ASSUME NEW n \in Nat, NEW e \in 1..n, NEW s \in Seq((e + 1)..n),
         \A i \in 1..(Len(s) - 1) : s[i] < s[i + 1],
         e < n => s # <<>> /\ s[Len(s)] = n
  PROVE  LET r == <<e>> \o s IN
         /\ r \in Seq(e..n) /\ r # <<>>
         /\ \A i \in 1..(Len(r) - 1) : r[i] < r[i + 1]
         /\ r[Len(r)] = n
<1> DEFINE r == <<e>> \o s
<1>1. Len(s) \in Nat /\ \A i \in 1..Len(s) : s[i] \in (e + 1)..n
  BY LenProperties, ElementOfSeq
<1>2. e \in e..n /\ \A x \in (e + 1)..n : x \in e..n
  OBVIOUS
<1>3. s \in Seq(e..n) /\ <<e>> \in Seq(e..n)
  BY <1>1, <1>2, SeqDef, LenProperties, EmptySeq, AppendProperties
<1>4. r \in Seq(e..n) /\ Len(r) = 1 + Len(s) /\ r[1] = e
      /\ \A i \in 1..Len(s) : r[i + 1] = s[i]
  BY <1>3, <1>1, ConcatProperties
<1> HIDE DEF r
<1>5. ASSUME NEW i \in 1..(Len(r) - 1) PROVE r[i] < r[i + 1]
  <2>1. i \in 1..Len(s) /\ r[i + 1] = s[i]
    BY <1>1, <1>4
  <2>2. CASE i = 1
    BY <1>1, <1>4, <2>1, <2>2
  <2>3. CASE i # 1
    <3>1. i - 1 \in 1..(Len(s) - 1) /\ i - 1 \in 1..Len(s) /\ (i - 1) + 1 = i
      BY <1>1, <2>1, <2>3
    <3>2. r[i] = s[i - 1]
      BY <1>4, <3>1
    <3>3. s[i - 1] < s[(i - 1) + 1]
      BY <3>1
    <3> QED BY <2>1, <3>1, <3>2, <3>3
  <2> QED BY <2>2, <2>3
<1>6. r[Len(r)] = n
  <2>1. CASE e < n
    <3>1. Len(s) \in 1..Len(s)
      BY <1>1, <2>1, EmptySeq
    <3> QED BY <1>1, <1>4, <2>1, <3>1
  <2>2. CASE e = n
    <3>1. Len(s) = 0
      BY <1>1, <2>2
    <3> QED BY <1>4, <2>2, <3>1
  <2> QED BY <2>1, <2>2
<1>7. r # <<>>
  BY <1>4, <1>1
<1> QED BY <1>4, <1>5, <1>6, <1>7 DEF r

\* The windows of a list follow one another and the last ends with the list, so
\* that a replay in windows leaves no packet out: whatever the timestamps are and
\* in whatever order (usePacketReplayPlayback.ts, buildTimelineReplayBatches).
THEOREM WindowsCoverTheList ==
  ASSUME NEW list \in Seq(Nat)
  PROVE  LET all == Batches(list) IN
         /\ all \in Seq(1..Len(list))
         /\ \A i \in 1..(Len(all) - 1) : all[i] < all[i + 1]
         /\ list # <<>> => all # <<>> /\ all[Len(all)] = Len(list)
<1> DEFINE n == Len(list)
           last(i) == WindowEnd(list, i)
<1>1. n \in Nat /\ \A i \in 1..n : last(i) \in i..n
  BY LenProperties, WindowHasEnd
<1>2. PICK f : /\ f = [i \in 1..(n + 1) |-> IF i > n THEN <<>> ELSE <<last(i)>> \o f[last(i) + 1]]
               /\ Batches(list) = f[1]
  BY ChainExists, Zenon DEF Batches
<1>3. \A i \in 1..(n + 1) : f[i] = IF i > n THEN <<>> ELSE <<last(i)>> \o f[last(i) + 1]
  BY <1>2
<1> HIDE DEF last
<1> DEFINE Good(i) == /\ f[i] \in Seq(i..n)
                      /\ \A k \in 1..(Len(f[i]) - 1) : f[i][k] < f[i][k + 1]
                      /\ i <= n => f[i] # <<>> /\ f[i][Len(f[i])] = n
           Bad == {i \in 1..(n + 1) : ~Good(i)}
<1>4. Bad = {}
  <2> SUFFICES ASSUME Bad # {} PROVE FALSE
    OBVIOUS
  <2>1. Bad \in SUBSET (1..(n + 1)) /\ n + 1 \in Nat
    BY <1>1
  <2>2. PICK i \in Bad : \A j \in Bad : i >= j
    <3> HIDE DEF Bad
    <3> QED BY <2>1, LastPosition
  <2>a. i \in 1..(n + 1) /\ ~Good(i)
    BY <2>2
  <2>b. \A j \in 1..(n + 1) : j > i => Good(j)
    <3> SUFFICES ASSUME NEW j \in 1..(n + 1), j > i, ~Good(j) PROVE FALSE
      OBVIOUS
    <3>1. j \in Bad /\ ~(i >= j)
      BY <1>1, <2>a
    <3> HIDE DEF Bad
    <3> QED BY <2>2, <3>1
  <2> HIDE DEF Bad
  <2>3. CASE i > n
    <3>1. f[i] = <<>>
      BY <1>1, <1>3, <2>3, <2>a
    <3>2. Good(i)
      BY <1>1, <2>a, <2>3, <3>1, EmptySeq
    <3> QED BY <2>a, <3>2
  <2>4. CASE i <= n
    <3> DEFINE e == last(i)
               s == f[e + 1]
    <3>1. i \in 1..n /\ e \in i..n /\ e \in 1..n /\ e + 1 \in 1..(n + 1) /\ e + 1 > i
      <4>1. i \in 1..n /\ last(i) \in i..n
        BY <1>1, <2>a, <2>4
      <4> QED BY <1>1, <4>1
    <3>2. f[i] = <<e>> \o s
      <4>1. i \in 1..(n + 1) /\ ~(i > n)
        BY <1>1, <3>1
      <4> HIDE DEF n
      <4> QED BY <1>3, <4>1
    <3>3. Good(e + 1)
      <4> HIDE DEF Good, e
      <4> QED BY <2>b, <3>1
    <3>4. s \in Seq((e + 1)..n) /\ (\A k \in 1..(Len(s) - 1) : s[k] < s[k + 1])
          /\ (e < n => s # <<>> /\ s[Len(s)] = n)
      BY <1>1, <3>1, <3>3
    <3> HIDE DEF s, e
    <3>5. LET r == <<e>> \o s IN
          /\ r \in Seq(e..n) /\ r # <<>>
          /\ \A k \in 1..(Len(r) - 1) : r[k] < r[k + 1]
          /\ r[Len(r)] = n
      BY <1>1, <3>1, <3>4, PrependIncreasing
    <3>6. f[i] \in Seq(e..n)
      BY <3>2, <3>5
    <3>7. f[i] \in Seq(i..n)
      <4>1. e..n \subseteq i..n
        BY <1>1, <3>1
      <4> HIDE DEF n
      <4> QED BY <3>6, <4>1, ListOfMore
    <3>8. Good(i)
      BY <3>2, <3>5, <3>7
    <3> QED BY <2>a, <3>8
  <2> QED BY <1>1, <2>a, <2>3, <2>4
<1>5. Good(1)
  <2>1. 1 \in 1..(n + 1)
    BY <1>1
  <2> HIDE DEF Good
  <2> QED BY <2>1, <1>4
<1>6. list # <<>> => 1 <= n
  BY <1>1, EmptySeq
<1> HIDE DEF n
<1> QED BY <1>2, <1>5, <1>6 DEF n

-----------------------------------------------------------------------------
(* Recording, replaying and timers *)

Fields == {"playing", "paused", "index", "batches", "timers", "threw"}

\* A player with its fields; the index and the batches may be anything.
IsPlayer(p) ==
  /\ DOMAIN p = Fields
  /\ p.playing \in BOOLEAN /\ p.paused \in BOOLEAN /\ p.threw \in BOOLEAN
  /\ p.timers \in {0, 1}

\* The part of the player that ReplayIsOrderly is about; nothing was thrown by a
\* playback that is not on, or its resumption would have no timer.
Orderly(p) ==
  /\ IsPlayer(p)
  /\ ~(p.playing /\ p.paused)
  /\ p.timers = 1 <=> p.playing /\ ~p.threw
  /\ p.threw => p.playing

Exclusive ==
  recording => capturing /\ ~player.playing /\ ~player.paused /\ ~Preparing

IInv ==
  /\ Orderly(player)
  /\ recording \in BOOLEAN /\ capturing \in BOOLEAN
  /\ Exclusive

\* A step of a playback that is on and has no timer sets one, ends it or throws.
LEMMA PlayNextIsOrderly ==
  ASSUME NEW p, NEW list, IsPlayer(p),
         p.playing = TRUE, p.paused = FALSE, p.timers = 0, p.threw = FALSE
  PROVE  Orderly(PlayNext(p, list))
<1>1. Orderly(Finish(p))
  BY DEF Finish, Orderly, IsPlayer, Fields
<1>2. Orderly([p EXCEPT !.threw = TRUE])
  BY DEF Orderly, IsPlayer, Fields
<1>3. \A i, b : Orderly([p EXCEPT !.index = i, !.batches = b, !.timers = @ + 1])
  BY DEF Orderly, IsPlayer, Fields
<1>4. Orderly([p EXCEPT !.index = @ + 1, !.timers = @ + 1])
  BY DEF Orderly, IsPlayer, Fields
<1> QED BY <1>1, <1>2, <1>3, <1>4 DEF PlayNext, PlayNextWindow

\* Pausing, and suspending with paused left as it is.
LEMMA SilencedIsOrderly ==
  ASSUME NEW p, Orderly(p), NEW b \in BOOLEAN
  PROVE  /\ Orderly([Cancel(p) EXCEPT !.playing = FALSE, !.paused = b, !.threw = FALSE])
         /\ Orderly([Cancel(p) EXCEPT !.playing = FALSE, !.threw = FALSE])
<1> DEFINE q == Cancel(p)
<1>1. IsPlayer(q) /\ q.timers = 0
  BY DEF Cancel, Orderly, IsPlayer, Fields
<1> HIDE DEF q
<1>2. Orderly([q EXCEPT !.playing = FALSE, !.paused = b, !.threw = FALSE])
  BY <1>1 DEF Orderly, IsPlayer, Fields
<1>3. Orderly([q EXCEPT !.playing = FALSE, !.threw = FALSE])
  BY <1>1 DEF Orderly, IsPlayer, Fields
<1> QED BY <1>2, <1>3 DEF q

\* The position plays no part in it.
LEMMA MovedIsOrderly ==
  ASSUME NEW p, Orderly(p), NEW i
  PROVE  LET q == [p EXCEPT !.index = i] IN
         Orderly(q) /\ q.playing = p.playing /\ q.paused = p.paused
  BY DEF Orderly, IsPlayer, Fields

\* A timer of the next step that fires belongs to a playback that is on.
LEMMA TimerMeansPlaying ==
  ASSUME NEW p, Orderly(p), p.timers > 0
  PROVE  LET q == [p EXCEPT !.timers = @ - 1] IN
         /\ p.playing
         /\ IsPlayer(q) /\ q.playing = TRUE /\ q.paused = FALSE /\ q.timers = 0 /\ q.threw = FALSE
<1>1. p.timers = 1
  BY DEF Orderly, IsPlayer
<1>2. p.playing = TRUE /\ p.paused = FALSE /\ p.threw = FALSE
  BY <1>1 DEF Orderly, IsPlayer
<1> QED BY <1>1, <1>2 DEF Orderly, IsPlayer, Fields

\* Starting a playback, whatever was on.
LEMMA StartIsOrderly ==
  ASSUME Orderly(player), Start
  PROVE  Orderly(player')
<1>1. CASE events = <<>>
  BY <1>1 DEF Start
<1>2. CASE events # <<>>
  <2> DEFINE from == [Cancel(player) EXCEPT !.index = IF @ >= Len(events) THEN 0 ELSE @]
             built == IF mode = "window" THEN Rebuilt(from, Ordered) ELSE from
             on == [built EXCEPT !.paused = FALSE, !.playing = TRUE, !.threw = FALSE]
  <2>1. IsPlayer(from) /\ from.timers = 0
    BY DEF Cancel, Orderly, IsPlayer, Fields
  <2>2. IsPlayer(built) /\ built.timers = 0
    <3> HIDE DEF from
    <3> QED BY <2>1 DEF Rebuilt, IsPlayer, Fields
  <2>3. IsPlayer(on) /\ on.playing = TRUE /\ on.paused = FALSE /\ on.timers = 0 /\ on.threw = FALSE
    <3> HIDE DEF built
    <3> QED BY <2>2 DEF IsPlayer, Fields
  <2>4. player' = PlayNext(on, Ordered)
    BY <1>2 DEF Start
  <2> HIDE DEF on
  <2> QED BY <2>3, <2>4, PlayNextIsOrderly
<1> QED BY <1>1, <1>2

\* Showing a position changes neither playing nor paused.
LEMMA ShowIsOrderly ==
  ASSUME Orderly(player), NEW position, Show(position)
  PROVE  Orderly(player') /\ player'.playing = player.playing /\ player'.paused = player.paused
<1>1. CASE events = <<>>
  BY <1>1 DEF Show
<1>2. CASE events # <<>>
  <2> DEFINE i == IF position < 0 THEN 0 ELSE IF position > Len(events) THEN Len(events) ELSE position
             at == [player EXCEPT !.index = i]
  <2>1. player' = IF mode = "window" THEN Rebuilt(at, Ordered) ELSE at
    BY <1>2 DEF Show
  <2> HIDE DEF i
  <2>2. Orderly(at) /\ at.playing = player.playing /\ at.paused = player.paused
    BY MovedIsOrderly
  <2> HIDE DEF at
  <2> QED BY <2>1, <2>2 DEF Rebuilt, Orderly, IsPlayer, Fields
<1> QED BY <1>1, <1>2

\* stopPacketReplay leaves nothing on and no timer.
LEMMA StoppedIsOrderly == Orderly(Stopped) /\ ~Stopped.playing /\ ~Stopped.paused
BY DEF Stopped, Orderly, IsPlayer, Fields

\* The page opens with nothing on.
LEMMA InitHolds == Init => IInv
<1> SUFFICES ASSUME Init PROVE IInv
  OBVIOUS
<1>1. player = Stopped
  BY DEF Init, Stopped
<1>2. recording = FALSE /\ capturing \in BOOLEAN
  BY DEF Init
<1> QED BY <1>1, <1>2, StoppedIsOrderly DEF IInv, Exclusive

\* The end of an analysis: its caller may start or resume a playback.
LEMMA AnalysisEndsHolds ==
  ASSUME IInv, NEW found \in BOOLEAN, AnalysisEnds(found)
  PROVE  IInv'
<1>1. UNCHANGED <<recording, capturing>>
  BY DEF AnalysisEnds, page
<1>2. CASE UNCHANGED <<player, preparation>>
  BY <1>1, <1>2 DEF IInv, Exclusive, Preparing
<1>3. CASE preparation.stage = "flow" /\ Prepared(preparation.then)
  <2>1. ~recording'
    BY <1>1, <1>3 DEF IInv, Exclusive, Preparing
  <2>2. Orderly(player')
    <3>1. CASE Start
      BY <3>1, StartIsOrderly DEF IInv
    <3>2. CASE /\ player.paused
               /\ player' = PlayNext([player EXCEPT !.paused = FALSE, !.playing = TRUE], events)
      <4> DEFINE on == [player EXCEPT !.paused = FALSE, !.playing = TRUE]
      <4>1. IsPlayer(on) /\ on.playing = TRUE /\ on.paused = FALSE /\ on.timers = 0 /\ on.threw = FALSE
        BY <3>2 DEF IInv, Orderly, IsPlayer, Fields
      <4> HIDE DEF on
      <4>2. player' = PlayNext(on, events)
        BY <3>2 DEF on
      <4> QED BY <4>1, <4>2, PlayNextIsOrderly
    <3>3. CASE UNCHANGED player
      BY <3>3 DEF IInv
    <3> QED BY <1>3, <3>1, <3>2, <3>3 DEF Prepared
  <2> QED BY <1>1, <2>1, <2>2 DEF IInv, Exclusive
<1>4. UNCHANGED <<player, preparation>>
      \/ (preparation.stage = "flow" /\ Prepared(preparation.then))
  BY DEF AnalysisEnds
<1> QED BY <1>2, <1>3, <1>4

\* The actions that leave the player alone and neither begin a recording nor a
\* preparation, or only end one.
LEMMA OthersHold ==
  ASSUME IInv,
         \/ FlowOff \/ ChangeMode \/ SubmitFilter \/ FilterFails \/ Return \/ Frame
  PROVE  IInv'
<1>1. UNCHANGED <<player, recording, capturing>>
  BY DEF FlowOff, ChangeMode, SubmitFilter, FilterFails, Return, Frame, page, replay
<1>2. CASE Frame
  BY <1>1, <1>2 DEF Frame, Preparing, IInv, Exclusive
<1>3. CASE UNCHANGED preparation \/ preparation' = NoPreparation
  <2>1. Preparing' => Preparing
    BY <1>3 DEF Preparing, NoPreparation
  <2> QED BY <1>1, <2>1 DEF IInv, Exclusive
<1>4. Frame \/ UNCHANGED preparation \/ preparation' = NoPreparation
  BY DEF FlowOff, ChangeMode, SubmitFilter, FilterFails, Return, replay
<1> QED BY <1>2, <1>3, <1>4

\* Every step keeps recording and replaying apart.
LEMMA NextHolds == IInv /\ [Next]_vars => IInv'
<1> SUFFICES ASSUME IInv, [Next]_vars PROVE IInv'
  OBVIOUS
<1>1. CASE TogglePlayback
  <2>1. recording = FALSE /\ UNCHANGED <<recording, capturing>>
    BY <1>1 DEF TogglePlayback, page, IInv
  <2>2. Orderly(player')
    BY <1>1, StartIsOrderly, SilencedIsOrderly DEF TogglePlayback, IInv
  <2> QED BY <2>1, <2>2 DEF IInv, Exclusive
<1>2. CASE StopPressed \/ ClearPressed \/ Reload
  <2>1. player' = Stopped /\ ~Preparing'
    BY <1>2 DEF StopPressed, ClearPressed, Reload, StopReplay, Preparing, NoPreparation
  <2>2. UNCHANGED <<recording, capturing>>
    BY <1>2 DEF StopPressed, ClearPressed, Reload, page
  <2> QED BY <2>1, <2>2, StoppedIsOrderly DEF IInv, Exclusive
<1>3. CASE Sought
  <2>1. UNCHANGED <<recording, capturing, preparation>>
    BY <1>3 DEF Sought, Jump, Seek, page
  <2>2. \E position : Show(position)
    BY <1>3 DEF Sought, Jump, Seek
  <2> QED BY <2>1, <2>2, ShowIsOrderly DEF IInv, Exclusive, Preparing
<1>4. CASE ToggleRecording
  <2>1. capturing /\ ~player.playing /\ ~player.paused /\ ~Preparing
    BY <1>4 DEF ToggleRecording
  <2>2. player' = [player EXCEPT !.index = 0] /\ recording' \in BOOLEAN
    BY <1>4 DEF ToggleRecording, IInv
  <2>3. UNCHANGED <<capturing, preparation>>
    BY <1>4 DEF ToggleRecording, page
  <2> QED BY <2>1, <2>2, <2>3, MovedIsOrderly DEF IInv, Exclusive, Preparing
<1>5. CASE FlowOn
  <2>1. UNCHANGED <<recording, capturing>>
    BY <1>5 DEF FlowOn, page
  <2>2. Orderly(player') /\ (recording => UNCHANGED player)
    BY <1>5, SilencedIsOrderly DEF FlowOn, IInv
  <2>3. recording => ~Preparing'
    BY <1>5 DEF FlowOn, Preparing, NoPreparation
  <2> QED BY <2>1, <2>2, <2>3 DEF IInv, Exclusive
<1>6. CASE FilterSet
  <2>1. ~recording' /\ capturing' = TRUE /\ player' = [player EXCEPT !.index = 0]
    BY <1>6 DEF FilterSet
  <2>2. recording' \in BOOLEAN
    BY <1>6 DEF FilterSet
  <2> QED BY <2>1, <2>2, MovedIsOrderly DEF IInv, Exclusive
<1>7. CASE FilterCleared
  <2>1. recording' = FALSE /\ capturing' = FALSE /\ player' = Stopped
    BY <1>7 DEF FilterCleared, StopReplay
  <2> QED BY <2>1, StoppedIsOrderly DEF IInv, Exclusive
<1>8. CASE \E packet \in Stamps : PacketArrives(packet) \/ LiveAnalysisEnds(packet)
  <2>1. UNCHANGED <<capturing, preparation>>
    BY <1>8 DEF PacketArrives, LiveAnalysisEnds
  <2>2. CASE UNCHANGED <<recording, player>>
    BY <2>1, <2>2 DEF IInv, Exclusive, Preparing
  <2>3. CASE \E packet \in Stamps : Recorded(packet)
    <3>1. PICK packet \in Stamps : Recorded(packet)
      BY <2>3
    <3>2. CASE ~recording
      BY <2>1, <3>1, <3>2 DEF Recorded, IInv, Exclusive, Preparing
    <3>3. CASE recording
      <4>1. recording' \in BOOLEAN
        BY <3>1, <3>3 DEF Recorded
      <4>2. PICK i : player' = [player EXCEPT !.index = i]
        BY <3>1, <3>3 DEF Recorded
      <4> QED BY <2>1, <3>3, <4>1, <4>2, MovedIsOrderly DEF IInv, Exclusive, Preparing
    <3> QED BY <3>2, <3>3
  <2> QED BY <1>8, <2>2, <2>3 DEF PacketArrives, LiveAnalysisEnds
<1>9. CASE Leave
  <2>1. UNCHANGED <<recording, capturing, preparation>>
    BY <1>9 DEF Leave
  <2>2. Orderly(player')
    BY <1>9, SilencedIsOrderly DEF Leave, Suspend, IInv
  <2>3. recording => UNCHANGED player
    BY <1>9 DEF Leave, Suspend, IInv, Exclusive
  <2> QED BY <2>1, <2>2, <2>3 DEF IInv, Exclusive, Preparing
<1>10. CASE NextTimer
  <2> DEFINE p == [player EXCEPT !.timers = @ - 1]
  <2>1. UNCHANGED <<recording, capturing, preparation>>
    BY <1>10 DEF NextTimer, page
  <2>2. Orderly(player) /\ player.timers > 0
    BY <1>10 DEF NextTimer, IInv
  <2>3. player.playing /\ IsPlayer(p) /\ p.playing = TRUE /\ p.paused = FALSE /\ p.timers = 0 /\ p.threw = FALSE
    BY <2>2, TimerMeansPlaying
  <2>4. player' = PlayNext(p, events)
    BY <1>10, <2>3 DEF NextTimer
  <2> HIDE DEF p
  <2>5. Orderly(player')
    BY <2>3, <2>4, PlayNextIsOrderly
  <2>6. recording = FALSE
    BY <2>3 DEF IInv, Exclusive
  <2> QED BY <2>1, <2>5, <2>6 DEF IInv, Exclusive
<1>11. CASE \E found \in BOOLEAN : AnalysisEnds(found)
  BY <1>11, AnalysisEndsHolds
<1>12. CASE FlowOff \/ ChangeMode \/ SubmitFilter \/ FilterFails \/ Return \/ Frame
  BY <1>12, OthersHold
<1>13. CASE UNCHANGED vars
  BY <1>13 DEF vars, IInv, Exclusive, Preparing
<1> QED
  BY <1>1, <1>2, <1>3, <1>4, <1>5, <1>6, <1>7, <1>8, <1>9, <1>10, <1>11, <1>12, <1>13 DEF Next

\* The strengthened invariant of recording and replaying holds in every reachable
\* state.
THEOREM Invariance == Spec => []IInv
<1> QED BY InitHolds, NextHolds, PTL DEF Spec

\* Recording excludes replaying and preparing, and a playback has one timer to go
\* on with (usePacketReplayPlayback.ts, togglePacketRecording).
THEOREM RecordingAndReplayExclude == Spec => []ReplayIsOrderly
<1>1. IInv => ReplayIsOrderly
  BY DEF IInv, Orderly, IsPlayer, Exclusive, ReplayIsOrderly
<1> QED BY <1>1, Invariance, PTL

-----------------------------------------------------------------------------
(* The packets that are played and their paths *)

\* The position and the windows of a player whose list has n packets.
Placed(p, n) ==
  /\ DOMAIN p = Fields
  /\ p.index \in 0..n
  /\ p.batches \in Seq(Nat)

\* Paths computed from a set of packets are those of the list, if there is one.
Matches(set) == ToSet(events) # {} => set = ToSet(events)

Analyses ==
  [on : BOOLEAN, of : SUBSET Stamps, valid : BOOLEAN, again : BOOLEAN, next : SUBSET Stamps]
Preparations == [stage : {"none", "frame", "flow"}, then : {"play", "resume", "stay"}]

ListInv ==
  /\ events \in Seq(Stamps) /\ Len(events) <= MaxEvents
  /\ recording \in BOOLEAN /\ (recording => Len(events) < MaxEvents)
  /\ Placed(player, Len(events))

\* While packets are recorded no path is in use and no analysis will set one; an
\* analysis that is valid, and the one that will follow it, are of this list.
FlowInv ==
  /\ resolved \in BOOLEAN /\ flowOn \in BOOLEAN /\ flow \in SUBSET Stamps
  /\ analysis \in Analyses /\ preparation \in Preparations
  /\ Preparing => flowOn
  /\ resolved => flowOn /\ Matches(flow)
  /\ analysis.valid => flowOn /\ Matches(analysis.of)
  /\ analysis.again => Matches(analysis.next)
  /\ recording => ~resolved /\ ~analysis.valid /\ ~analysis.again

OthersInv ==
  /\ mode \in Modes
  /\ capturing \in BOOLEAN /\ submitting \in BOOLEAN /\ held \in BOOLEAN
  /\ away \in BOOLEAN /\ suspended \in BOOLEAN

PathsInv == ListInv /\ FlowInv /\ OthersInv

\* The list is what it was, or in the order of its timestamps.
SamePackets ==
  /\ events' \in Seq(Stamps)
  /\ Len(events') = Len(events)
  /\ ToSet(events') = ToSet(events)

\* Playing on stays within the list.
LEMMA PlayNextIsPlaced ==
  ASSUME NEW p, NEW list \in Seq(Stamps), Placed(p, Len(list))
  PROVE  Placed(PlayNext(p, list), Len(list))
<1> DEFINE n == Len(list)
<1>1. n \in Nat
  BY LenProperties
<1>2. Placed(Finish(p), n) /\ Placed([p EXCEPT !.threw = TRUE], n)
  BY DEF Placed, Fields, Finish
<1>3. ASSUME p.batches # <<>>, ~(Head(p.batches) > n)
      PROVE  Placed([p EXCEPT !.index = Head(p.batches), !.batches = Tail(p.batches), !.timers = @ + 1], n)
  <2>1. Head(p.batches) \in Nat /\ Tail(p.batches) \in Seq(Nat)
    BY <1>3, HeadTailProperties DEF Placed
  <2> QED BY <1>1, <1>3, <2>1 DEF Placed, Fields
<1>4. ASSUME ~(p.index >= n)
      PROVE  Placed([p EXCEPT !.index = @ + 1, !.timers = @ + 1], n)
  BY <1>1, <1>4 DEF Placed, Fields
<1> QED BY <1>2, <1>3, <1>4 DEF PlayNext, PlayNextWindow

\* Skipping the windows that are over leaves windows.
LEMMA RebuiltIsPlaced ==
  ASSUME NEW n, NEW p, NEW list \in Seq(Stamps), Placed(p, n)
  PROVE  Placed(Rebuilt(p, list), n)
<1> DEFINE all == Batches(list)
           passed == {i \in DOMAIN all : all[i] <= p.index}
           rest == SubSeq(all, Cardinality(passed) + 1, Len(all))
<1>1. list \in Seq(Nat)
  BY ListOfMore, GeoAssumption DEF GeoAssumption
<1>2. all \in Seq(1..Len(list)) /\ Len(list) \in Nat
  BY <1>1, WindowsCoverTheList, LenProperties
<1> HIDE DEF all
<1>3. all \in Seq(Nat)
  <2>1. 1..Len(list) \subseteq Nat
    BY <1>2
  <2> QED BY <1>2, <2>1, ListOfMore
<1>4. DOMAIN all = 1..Len(all) /\ Len(all) \in Nat /\ \A i \in 1..Len(all) : all[i] \in Nat
  BY <1>3, LenProperties, ElementOfSeq
<1>5. Cardinality(passed) \in Nat
  <2>1. passed \subseteq 1..Len(all) /\ IsFiniteSet(1..Len(all))
    BY <1>3, <1>4, PositionsAreFinite
  <2> HIDE DEF passed
  <2> QED BY <2>1, FS_Subset, FS_CardinalityType
<1>6. rest \in Seq(Nat)
  <2> DEFINE c == Cardinality(passed) + 1
  <2>1. c \in Nat /\ c >= 1
    BY <1>5
  <2> HIDE DEF c
  <2>2. \A i \in c..Len(all) : all[i] \in Nat
    BY <1>4, <2>1
  <2>3. SubSeq(all, c, Len(all)) \in Seq(Nat)
    BY <1>3, <1>4, <2>1, <2>2, SubSeqProperties
  <2> QED BY <2>3 DEF c
<1>7. Rebuilt(p, list) = [p EXCEPT !.batches = rest]
  BY DEF Rebuilt, all
<1> HIDE DEF rest
<1> QED BY <1>6, <1>7 DEF Placed, Fields

\* Ordering the list loses no packet.
LEMMA OrderedIsSame ==
  ASSUME events \in Seq(Stamps)
  PROVE  Ordered \in Seq(Stamps) /\ Len(Ordered) = Len(events) /\ ToSet(Ordered) = ToSet(events)
<1>1. Stamps \in SUBSET Nat
  BY GeoAssumption DEF GeoAssumption
<1>2. /\ Ascending(events) \in Seq(Stamps) /\ Len(Ascending(events)) = Len(events)
      /\ ToSet(Ascending(events)) = ToSet(events)
  BY <1>1, AscendingSorts DEF ToSet
<1> QED BY <1>2 DEF Ordered

\* Starting a playback may order the list, and starts within it.
LEMMA StartIsPlaced ==
  ASSUME events \in Seq(Stamps), Placed(player, Len(events)), Start
  PROVE  SamePackets /\ Placed(player', Len(events'))
<1>1. CASE events = <<>>
  <2>1. UNCHANGED <<player, events>>
    BY <1>1 DEF Start
  <2> QED BY <2>1 DEF SamePackets
<1>2. CASE events # <<>>
  <2>1. PICK list \in {Ordered} :
          LET from == [Cancel(player) EXCEPT !.index = IF @ >= Len(events) THEN 0 ELSE @]
              built == IF mode = "window" THEN Rebuilt(from, list) ELSE from
          IN  /\ events' = list
              /\ player' = PlayNext([built EXCEPT !.paused = FALSE, !.playing = TRUE, !.threw = FALSE], list)
    BY <1>2 DEF Start
  <2> DEFINE n == Len(events)
             from == [Cancel(player) EXCEPT !.index = IF @ >= n THEN 0 ELSE @]
             built == IF mode = "window" THEN Rebuilt(from, list) ELSE from
             on == [built EXCEPT !.paused = FALSE, !.playing = TRUE, !.threw = FALSE]
  <2>2. list \in Seq(Stamps) /\ Len(list) = n /\ ToSet(list) = ToSet(events) /\ n \in Nat
    BY <2>1, OrderedIsSame, LenProperties
  <2>3. events' = list /\ player' = PlayNext(on, list)
    BY <2>1
  <2>4. Placed(from, n)
    <3> HIDE DEF n
    <3> QED BY <2>2 DEF Placed, Fields, Cancel, n
  <2> HIDE DEF from
  <2>5. Placed(built, n)
    BY <2>2, <2>4, RebuiltIsPlaced
  <2> HIDE DEF built
  <2>6. Placed(on, n)
    BY <2>5 DEF Placed, Fields
  <2> HIDE DEF on
  <2> QED BY <2>2, <2>3, <2>6, PlayNextIsPlaced DEF SamePackets
<1> QED BY <1>1, <1>2

\* So does showing a position, which is clamped to the list.
LEMMA ShowIsPlaced ==
  ASSUME events \in Seq(Stamps), Placed(player, Len(events)), NEW position \in Int, Show(position)
  PROVE  SamePackets /\ Placed(player', Len(events'))
<1>1. CASE events = <<>>
  <2>1. UNCHANGED <<player, events>>
    BY <1>1 DEF Show
  <2> QED BY <2>1 DEF SamePackets
<1>2. CASE events # <<>>
  <2> DEFINE n == Len(events)
             i == IF position < 0 THEN 0 ELSE IF position > n THEN n ELSE position
             at == [player EXCEPT !.index = i]
  <2>1. PICK list \in {Ordered} :
          events' = list /\ player' = IF mode = "window" THEN Rebuilt(at, list) ELSE at
    BY <1>2 DEF Show
  <2>2. list \in Seq(Stamps) /\ Len(list) = n /\ ToSet(list) = ToSet(events) /\ n \in Nat
    BY <2>1, OrderedIsSame, LenProperties
  <2>3. i \in 0..n
    <3> HIDE DEF n
    <3> QED BY <2>2
  <2> HIDE DEF i
  <2>4. Placed(at, n)
    BY <2>3 DEF Placed, Fields
  <2> HIDE DEF at
  <2>5. Placed(player', n)
    BY <2>1, <2>2, <2>4, RebuiltIsPlaced
  <2> QED BY <2>1, <2>2, <2>5 DEF SamePackets
<1> QED BY <1>1, <1>2

\* What a clear leaves: no packets, and a player at the start.
LEMMA StoppedIsPlaced ==
  ASSUME NEW n \in Nat
  PROVE  Placed(Stopped, n)
BY EmptySeq DEF Stopped, Placed, Fields

\* A position of another list may be set before that list is.
LEMMA MovedIsPlaced ==
  ASSUME NEW p, NEW m, NEW n \in Nat, NEW i \in 0..n, Placed(p, m)
  PROVE  Placed([p EXCEPT !.index = i], n)
BY DEF Placed, Fields

\* Pausing, suspending, and a timer that fires, move nothing.
LEMMA SilencedIsPlaced ==
  ASSUME NEW p, NEW n, Placed(p, n)
  PROVE  /\ Placed([Cancel(p) EXCEPT !.playing = FALSE, !.paused = TRUE, !.threw = FALSE], n)
         /\ Placed([Cancel(p) EXCEPT !.playing = FALSE, !.threw = FALSE], n)
         /\ Placed([p EXCEPT !.timers = @ - 1], n)
         /\ Placed([p EXCEPT !.paused = FALSE, !.playing = TRUE], n)
<1> DEFINE q == Cancel(p)
<1>1. Placed(q, n)
  BY DEF Cancel, Placed, Fields
<1> HIDE DEF q
<1>2. /\ Placed([q EXCEPT !.playing = FALSE, !.paused = TRUE, !.threw = FALSE], n)
      /\ Placed([q EXCEPT !.playing = FALSE, !.threw = FALSE], n)
  BY <1>1 DEF Placed, Fields
<1>3. /\ Placed([p EXCEPT !.timers = @ - 1], n)
      /\ Placed([p EXCEPT !.paused = FALSE, !.playing = TRUE], n)
  BY DEF Placed, Fields
<1> QED BY <1>2, <1>3 DEF q

\* The steps that change the list or where it is played: the list stays one of at
\* most MaxEvents packets, and while it grows it has room.
LEMMA ListStep ==
  ASSUME IInv, PathsInv, [Next]_vars
  PROVE  ListInv'
<1> DEFINE n == Len(events)
<1>0. /\ events \in Seq(Stamps) /\ n \in Nat /\ n <= MaxEvents /\ MaxEvents \in Nat \ {0}
      /\ recording \in BOOLEAN /\ (recording => n < MaxEvents)
      /\ Placed(player, n)
  BY LenProperties, GeoAssumption DEF PathsInv, ListInv, GeoAssumption
<1>a. ASSUME SamePackets, Placed(player', Len(events')), UNCHANGED recording
      PROVE  ListInv'
  BY <1>0, <1>a DEF SamePackets, ListInv
<1>b. ASSUME UNCHANGED <<events, recording>>, Placed(player', n)
      PROVE  ListInv'
  BY <1>0, <1>b DEF ListInv
<1>c. ASSUME events' = <<>>, recording' \in BOOLEAN, Placed(player', 0)
      PROVE  ListInv'
  <2>1. events' \in Seq(Stamps) /\ Len(events') = 0
    BY <1>c, EmptySeq
  <2> QED BY <1>0, <1>c, <2>1 DEF ListInv
<1> HIDE DEF n
<1>d. 0 \in Nat /\ 0 \in 0..0 /\ 0 \in 0..n
  BY <1>0
<1>1. CASE TogglePlayback
  <2>1. UNCHANGED recording
    BY <1>1 DEF TogglePlayback
  <2>2. CASE Start
    BY <1>0, <1>a, <2>1, <2>2, StartIsPlaced DEF n
  <2>3. CASE UNCHANGED <<player, events>>
    BY <1>0, <1>b, <2>1, <2>3
  <2>4. CASE /\ UNCHANGED events
             /\ player' = [Cancel(player) EXCEPT !.playing = FALSE, !.paused = TRUE, !.threw = FALSE]
    BY <1>0, <1>b, <2>1, <2>4, SilencedIsPlaced
  <2> QED BY <1>1, <2>2, <2>3, <2>4 DEF TogglePlayback
<1>2. CASE StopPressed \/ ClearPressed \/ Reload
  <2>1. player' = Stopped /\ UNCHANGED recording /\ (UNCHANGED events \/ events' = <<>>)
    BY <1>2 DEF StopPressed, ClearPressed, Reload, StopReplay
  <2> QED BY <1>0, <1>b, <1>c, <2>1, StoppedIsPlaced
<1>3. CASE Sought
  <2>1. UNCHANGED recording
    BY <1>3 DEF Sought, Jump, Seek
  <2>2. \E position \in Int : Show(position)
    BY <1>0, <1>3 DEF Sought, Jump, Seek, Placed, n
  <2> QED BY <1>0, <1>a, <2>1, <2>2, ShowIsPlaced DEF n
<1>4. CASE ToggleRecording
  <2>1. player' = [player EXCEPT !.index = 0] /\ recording' = ~recording
        /\ (recording => UNCHANGED events) /\ (~recording => events' = <<>>)
    BY <1>4 DEF ToggleRecording
  <2>2. Placed(player', n) /\ Placed(player', 0)
    BY <1>0, <1>d, <2>1, MovedIsPlaced
  <2>3. CASE recording
    <3>1. recording' = FALSE /\ events' = events
      BY <2>1, <2>3
    <3> QED BY <1>0, <2>2, <3>1 DEF ListInv, n
  <2>4. CASE ~recording
    BY <1>0, <1>c, <2>1, <2>2, <2>4
  <2> QED BY <2>3, <2>4
<1>5. CASE FlowOn
  <2>1. UNCHANGED <<events, recording>>
    BY <1>5 DEF FlowOn
  <2>2. Placed(player', n)
    BY <1>0, <1>5, SilencedIsPlaced DEF FlowOn
  <2> QED BY <1>b, <2>1, <2>2
<1>6. CASE FilterSet
  <2>1. events' = <<>> /\ recording' = FALSE /\ player' = [player EXCEPT !.index = 0]
    BY <1>6 DEF FilterSet
  <2>2. Placed(player', 0)
    BY <1>0, <1>d, <2>1, MovedIsPlaced
  <2> QED BY <1>c, <2>1, <2>2
<1>7. CASE FilterCleared
  <2>1. recording' = FALSE /\ player' = Stopped /\ UNCHANGED events
    BY <1>7 DEF FilterCleared, StopReplay
  <2> QED BY <1>0, <2>1, StoppedIsPlaced DEF ListInv, n
<1>8. CASE \E packet \in Stamps : PacketArrives(packet) \/ LiveAnalysisEnds(packet)
  <2>1. CASE UNCHANGED <<events, recording, player>>
    BY <1>0, <1>b, <2>1
  <2>2. CASE \E packet \in Stamps : Recorded(packet)
    <3>1. PICK packet \in Stamps : Recorded(packet)
      BY <2>2
    <3>2. CASE ~recording
      BY <1>0, <1>b, <3>1, <3>2 DEF Recorded
    <3>3. CASE recording
      <4> DEFINE list == Append(events, packet)
                 i == IF Len(list) < MaxEvents THEN Len(list) ELSE 0
      <4>1. list \in Seq(Stamps) /\ Len(list) = n + 1
        BY <1>0, AppendProperties DEF n
      <4>2. events' = list /\ recording' = (Len(list) < MaxEvents) /\ player' = [player EXCEPT !.index = i]
        BY <3>1, <3>3 DEF Recorded
      <4> HIDE DEF list
      <4>3. i \in 0..Len(list) /\ Len(list) \in Nat
        BY <1>0, <4>1
      <4> HIDE DEF i
      <4>4. Placed(player', Len(list))
        BY <1>0, <4>2, <4>3, MovedIsPlaced
      <4>5. Len(list) <= MaxEvents /\ recording' \in BOOLEAN /\ (recording' => Len(list) < MaxEvents)
        <5>1. Len(list) <= MaxEvents
          BY <1>0, <3>3, <4>1
        <5>2. recording' \in BOOLEAN /\ (recording' => Len(list) < MaxEvents)
          <6>1. Len(list) \in Nat /\ MaxEvents \in Nat
            BY <1>0, <4>1
          <6>2. recording' = (Len(list) < MaxEvents)
            BY <4>2
          <6>3. recording' \in BOOLEAN
            BY <6>1, <6>2
          <6>4. recording' => Len(list) < MaxEvents
            BY <6>2
          <6> QED BY <6>3, <6>4
        <5> QED BY <5>1, <5>2
      <4> QED BY <4>1, <4>2, <4>4, <4>5 DEF ListInv
    <3> QED BY <3>2, <3>3
  <2> QED BY <1>8, <2>1, <2>2 DEF PacketArrives, LiveAnalysisEnds
<1>9. CASE Leave
  <2>1. UNCHANGED <<events, recording>>
    BY <1>9 DEF Leave
  <2>2. Placed(player', n)
    BY <1>0, <1>9, SilencedIsPlaced DEF Leave, Suspend
  <2> QED BY <1>b, <2>1, <2>2
<1>10. CASE NextTimer
  <2> DEFINE p == [player EXCEPT !.timers = @ - 1]
  <2>1. UNCHANGED <<events, recording>> /\ player' = IF p.playing THEN PlayNext(p, events) ELSE p
    BY <1>10 DEF NextTimer
  <2>2. Placed(p, n)
    BY <1>0, SilencedIsPlaced
  <2> HIDE DEF p
  <2>3. Placed(PlayNext(p, events), n)
    BY <1>0, <2>2, PlayNextIsPlaced DEF n
  <2> QED BY <1>b, <2>1, <2>2, <2>3
<1>11. CASE \E found \in BOOLEAN : AnalysisEnds(found)
  <2>1. UNCHANGED recording
    BY <1>11 DEF AnalysisEnds
  <2>2. CASE Start
    BY <1>0, <1>a, <2>1, <2>2, StartIsPlaced DEF n
  <2>3. CASE UNCHANGED <<player, events>>
    BY <1>0, <1>b, <2>1, <2>3
  <2>4. CASE /\ UNCHANGED events
             /\ player' = PlayNext([player EXCEPT !.paused = FALSE, !.playing = TRUE], events)
    <3> DEFINE on == [player EXCEPT !.paused = FALSE, !.playing = TRUE]
    <3>1. Placed(on, n)
      BY <1>0, SilencedIsPlaced
    <3>2. player' = PlayNext(on, events)
      BY <2>4
    <3> HIDE DEF on
    <3>3. Placed(player', n)
      BY <1>0, <3>1, <3>2, PlayNextIsPlaced DEF n
    <3> QED BY <1>b, <2>1, <2>4, <3>3
  <2>5. Start \/ UNCHANGED <<player, events>>
        \/ /\ UNCHANGED events
           /\ player' = PlayNext([player EXCEPT !.paused = FALSE, !.playing = TRUE], events)
    BY <1>11 DEF AnalysisEnds, Prepared
  <2> QED BY <2>2, <2>3, <2>4, <2>5
<1>12. CASE FlowOff \/ ChangeMode \/ SubmitFilter \/ FilterFails \/ Return \/ Frame \/ UNCHANGED vars
  <2>1. UNCHANGED <<events, recording, player>>
    BY <1>12 DEF FlowOff, ChangeMode, SubmitFilter, FilterFails, Return, Frame, replay, vars
  <2> QED BY <1>0, <1>b, <2>1
<1> QED
  BY <1>1, <1>2, <1>3, <1>4, <1>5, <1>6, <1>7, <1>8, <1>9, <1>10, <1>11, <1>12 DEF Next

\* What a step does to the list: it keeps the packets, empties the list, or adds
\* one to it while it records.
LEMMA ListChanges ==
  ASSUME IInv, PathsInv, [Next]_vars
  PROVE  \/ ToSet(events') = ToSet(events)
         \/ ToSet(events') = {}
         \/ recording
<1>0. events \in Seq(Stamps) /\ Placed(player, Len(events)) /\ Len(events) \in Nat
  BY LenProperties DEF PathsInv, ListInv
<1>a. events' = <<>> => ToSet(events') = {}
  BY DEF ToSet
<1>1. CASE Start
  BY <1>0, <1>1, StartIsPlaced DEF SamePackets
<1>2. CASE Sought
  <2>1. \E position \in Int : Show(position)
    BY <1>0, <1>2 DEF Sought, Jump, Seek, Placed
  <2> QED BY <1>0, <2>1, ShowIsPlaced DEF SamePackets
<1>3. CASE UNCHANGED events \/ events' = <<>> \/ recording
  BY <1>3, <1>a
<1>4. Start \/ Sought \/ UNCHANGED events \/ events' = <<>> \/ recording
  <2>1. CASE TogglePlayback
    BY <2>1 DEF TogglePlayback
  <2>2. CASE StopPressed \/ ClearPressed \/ Reload \/ FilterSet \/ FilterCleared \/ ToggleRecording
    BY <2>2 DEF StopPressed, ClearPressed, Reload, FilterSet, FilterCleared, ToggleRecording
  <2>3. CASE FlowOn \/ FlowOff \/ ChangeMode \/ SubmitFilter \/ FilterFails \/ Leave \/ Return
             \/ Frame \/ NextTimer \/ UNCHANGED vars
    BY <2>3 DEF FlowOn, FlowOff, ChangeMode, SubmitFilter, FilterFails, Leave, Return, Frame, NextTimer, vars
  <2>4. CASE \E packet \in Stamps : PacketArrives(packet) \/ LiveAnalysisEnds(packet)
    BY <2>4 DEF PacketArrives, LiveAnalysisEnds, Recorded
  <2>5. CASE \E found \in BOOLEAN : AnalysisEnds(found)
    BY <2>5 DEF AnalysisEnds, Prepared
  <2> QED BY <2>1, <2>2, <2>3, <2>4, <2>5 DEF Next
<1> QED BY <1>1, <1>2, <1>3, <1>4

\* The analysis stays what an analysis can be, and so does the preparation.
LEMMA AnalysisStep ==
  ASSUME IInv, PathsInv, [Next]_vars
  PROVE  /\ resolved' \in BOOLEAN /\ flowOn' \in BOOLEAN /\ flow' \in SUBSET Stamps
         /\ analysis' \in Analyses /\ preparation' \in Preparations
         /\ Preparing' => flowOn'
<1> USE DEF PathsInv, FlowInv
<1>0. ToSet(events) \in SUBSET Stamps
  BY LenProperties, ElementOfSeq DEF ListInv, ToSet
<1>1. NoAnalysis \in Analyses /\ Invalidated(analysis) \in Analyses /\ NoPreparation \in Preparations
  BY DEF NoAnalysis, Invalidated, Analyses, NoPreparation, Preparations
<1>2. NoPreparation.stage = "none"
  BY DEF NoPreparation
<1>3. \A then \in {"play", "resume", "stay"} : [stage |-> "frame", then |-> then] \in Preparations
  BY DEF Preparations
<1>4. CASE Frame
  <2>1. preparation' \in Preparations /\ UNCHANGED <<flowOn, resolved, flow>> /\ flowOn
    BY <1>4 DEF Frame, Preparations, Preparing
  <2>2. analysis' \in Analyses
    BY <1>0, <1>4 DEF Frame, NoAnalysis, Analyses
  <2> QED BY <2>1, <2>2
<1>5. CASE \E found \in BOOLEAN : AnalysisEnds(found)
  <2>1. resolved' \in BOOLEAN /\ flow' \in SUBSET Stamps /\ UNCHANGED flowOn
    BY <1>5 DEF AnalysisEnds, Analyses
  <2>2. analysis' \in Analyses
    BY <1>1, <1>5 DEF AnalysisEnds, NoAnalysis, Analyses
  <2>3. UNCHANGED preparation \/ preparation' = NoPreparation
    BY <1>5 DEF AnalysisEnds, Prepared
  <2> QED BY <1>1, <1>2, <2>1, <2>2, <2>3 DEF Preparing
<1>6. CASE FlowOff
  BY <1>1, <1>2, <1>6 DEF FlowOff, NoFlow, Preparing
<1>7. CASE FlowOn
  <2>1. flowOn' = TRUE /\ analysis' \in Analyses /\ resolved' \in BOOLEAN /\ flow' \in SUBSET Stamps
    BY <1>1, <1>7 DEF FlowOn, NoFlow
  <2>2. preparation' \in Preparations
    BY <1>1, <1>3, <1>7 DEF FlowOn, Prepare
  <2> QED BY <2>1, <2>2
<1>8. CASE TogglePlayback
  <2>1. UNCHANGED <<resolved, flow, flowOn, analysis>>
    BY <1>8 DEF TogglePlayback
  <2>2. UNCHANGED preparation \/ (flowOn /\ preparation' \in Preparations)
    BY <1>3, <1>8 DEF TogglePlayback, Prepare
  <2> QED BY <2>1, <2>2 DEF Preparing
<1>9. CASE StopPressed \/ ClearPressed \/ Reload \/ FilterCleared
  BY <1>1, <1>2, <1>9 DEF StopPressed, ClearPressed, Reload, FilterCleared, StopReplay, NoFlow, Preparing
<1>10. CASE ToggleRecording \/ FilterSet
  BY <1>1, <1>10 DEF ToggleRecording, FilterSet, NoFlow, Preparing
<1>11. CASE Sought \/ ChangeMode \/ SubmitFilter \/ FilterFails \/ Leave \/ Return \/ NextTimer \/ UNCHANGED vars
  BY <1>11 DEF Sought, Jump, Seek, ChangeMode, SubmitFilter, FilterFails, Leave, Return, NextTimer,
               vars, replay, Preparing
<1>12. CASE \E packet \in Stamps : PacketArrives(packet) \/ LiveAnalysisEnds(packet)
  BY <1>12 DEF PacketArrives, LiveAnalysisEnds, Preparing
<1> QED BY <1>4, <1>5, <1>6, <1>7, <1>8, <1>9, <1>10, <1>11, <1>12 DEF Next

\* Paths and analyses are of this list after every step, and recording begins
\* without any.
LEMMA FlowStep ==
  ASSUME IInv, PathsInv, [Next]_vars
  PROVE  FlowInv'
<1> USE DEF PathsInv, FlowInv
<1>0. /\ resolved' \in BOOLEAN /\ flowOn' \in BOOLEAN /\ flow' \in SUBSET Stamps
      /\ analysis' \in Analyses /\ preparation' \in Preparations
      /\ Preparing' => flowOn'
  BY AnalysisStep
<1>b. ASSUME NEW set, Matches(set), ~recording
      PROVE  ToSet(events') # {} => set = ToSet(events')
  BY <1>b, ListChanges DEF Matches
<1>c. ASSUME \/ UNCHANGED <<resolved, flow>>
             \/ ~resolved',
             \/ UNCHANGED analysis
             \/ ~analysis'.valid /\ ~analysis'.again,
             UNCHANGED flowOn \/ (~resolved' /\ ~analysis'.valid),
             recording' => recording \/ (~resolved' /\ ~analysis'.valid /\ ~analysis'.again)
      PROVE  FlowInv'
  <2>1. resolved' => flowOn' /\ Matches(flow)'
    <3> SUFFICES ASSUME resolved' PROVE flowOn' /\ Matches(flow)'
      OBVIOUS
    <3>1. UNCHANGED <<resolved, flow, flowOn>> /\ ~recording /\ Matches(flow)
      BY <1>0, <1>c
    <3> QED BY <1>b, <3>1 DEF Matches
  <2>2. analysis'.valid => flowOn' /\ Matches(analysis.of)'
    BY <1>b, <1>c DEF Matches
  <2>3. analysis'.again => Matches(analysis.next)'
    BY <1>b, <1>c DEF Matches
  <2>4. recording' => ~resolved' /\ ~analysis'.valid /\ ~analysis'.again
    BY <1>c
  <2> QED BY <1>0, <2>1, <2>2, <2>3, <2>4
<1>d. ~Invalidated(analysis).valid /\ ~Invalidated(analysis).again
  BY DEF Invalidated, Analyses
<1>1. CASE Frame
  <2>1. UNCHANGED <<events, recording, resolved, flow, flowOn>> /\ flowOn /\ ~recording
    BY <1>1 DEF Frame, Preparing, IInv, Exclusive
  <2>2. CASE analysis.on
    <3>1. analysis' = [analysis EXCEPT !.again = TRUE, !.next = ToSet(events)]
      BY <1>1, <2>2 DEF Frame
    <3>2. analysis'.valid = analysis.valid /\ analysis'.of = analysis.of /\ analysis'.next = ToSet(events)
      BY <3>1 DEF Analyses
    <3> QED BY <1>0, <2>1, <3>2 DEF Matches
  <2>3. CASE ~analysis.on
    <3>1. analysis' = [NoAnalysis EXCEPT !.on = TRUE, !.of = ToSet(events), !.valid = TRUE]
      BY <1>1, <2>3 DEF Frame
    <3>2. analysis'.of = ToSet(events) /\ analysis'.again = FALSE
      BY <3>1 DEF NoAnalysis
    <3> QED BY <1>0, <2>1, <3>2 DEF Matches
  <2> QED BY <2>2, <2>3
<1>2. CASE \E found \in BOOLEAN : AnalysisEnds(found)
  <2>1. PICK found \in BOOLEAN : AnalysisEnds(found)
    BY <1>2
  <2>2. UNCHANGED <<recording, flowOn>>
    BY <2>1 DEF AnalysisEnds
  <2>3. IF ~analysis.valid THEN UNCHANGED <<resolved, flow>>
        ELSE resolved' = found /\ flow' = IF found THEN analysis.of ELSE {}
    BY <2>1 DEF AnalysisEnds
  <2>4. resolved' => flowOn' /\ Matches(flow)'
    <3>1. CASE analysis.valid
      <4>1. ~recording /\ (resolved' => flow' = analysis.of)
        BY <2>3, <3>1
      <4> QED BY <1>b, <2>2, <3>1, <4>1 DEF Matches
    <3>2. CASE ~analysis.valid
      BY <1>b, <2>2, <2>3, <3>2 DEF Matches
    <3> QED BY <3>1, <3>2
  <2>5. recording => ~resolved'
    BY <2>3
  <2>6. CASE analysis.again /\ flowOn
    <3>1. analysis' = [NoAnalysis EXCEPT !.on = TRUE, !.of = analysis.next, !.valid = TRUE]
      BY <2>1, <2>6 DEF AnalysisEnds
    <3>2. analysis'.of = analysis.next /\ analysis'.again = FALSE
      BY <3>1 DEF NoAnalysis
    <3>3. ~recording
      BY <2>6
    <3>4. Matches(analysis.of)'
      BY <1>b, <2>6, <3>2, <3>3 DEF Matches
    <3> QED BY <1>0, <2>2, <2>4, <2>6, <3>2, <3>3, <3>4
  <2>7. CASE ~(analysis.again /\ flowOn)
    <3>1. analysis' = NoAnalysis
      BY <2>1, <2>7 DEF AnalysisEnds
    <3>2. ~analysis'.valid /\ ~analysis'.again
      BY <3>1 DEF NoAnalysis
    <3> QED BY <1>0, <2>2, <2>4, <2>5, <3>2
  <2> QED BY <2>6, <2>7
<1>3. CASE ToggleRecording
  <2>1. recording' = ~recording /\ UNCHANGED flowOn
    BY <1>3 DEF ToggleRecording
  <2>2. CASE recording
    BY <1>3, <1>c, <2>1, <2>2 DEF ToggleRecording
  <2>3. CASE ~recording
    BY <1>3, <1>c, <1>d, <2>1, <2>3 DEF ToggleRecording, NoFlow
  <2> QED BY <2>2, <2>3
<1>4. CASE FlowOff
  BY <1>4, <1>c, <1>d DEF FlowOff, NoFlow
<1>5. CASE FlowOn
  <2>1. ~resolved' /\ analysis' = Invalidated(analysis) /\ UNCHANGED recording
    BY <1>5 DEF FlowOn, NoFlow
  <2> QED BY <1>c, <1>d, <2>1
<1>6. CASE StopPressed \/ ClearPressed \/ Reload \/ FilterCleared \/ FilterSet
  <2>1. ~resolved' /\ UNCHANGED <<analysis, flowOn>> /\ (recording' => recording)
    BY <1>6 DEF StopPressed, ClearPressed, Reload, FilterCleared, FilterSet, StopReplay, NoFlow
  <2> QED BY <1>c, <2>1
<1>7. CASE \/ TogglePlayback \/ Sought \/ ChangeMode \/ SubmitFilter \/ FilterFails \/ Leave \/ Return
           \/ NextTimer \/ UNCHANGED vars
  <2>1. UNCHANGED <<resolved, flow, analysis, flowOn, recording>>
    BY <1>7 DEF TogglePlayback, Sought, Jump, Seek, ChangeMode, SubmitFilter, FilterFails, Leave, Return,
                NextTimer, vars, replay
  <2> QED BY <1>c, <2>1
<1>8. CASE \E packet \in Stamps : PacketArrives(packet) \/ LiveAnalysisEnds(packet)
  <2>1. UNCHANGED <<resolved, flow, analysis, flowOn>> /\ (recording' => recording)
    BY <1>8 DEF PacketArrives, LiveAnalysisEnds, Recorded
  <2> QED BY <1>c, <2>1
<1> QED BY <1>1, <1>2, <1>3, <1>4, <1>5, <1>6, <1>7, <1>8 DEF Next

\* The variables neither the list nor the paths need.
LEMMA OthersStep ==
  ASSUME IInv, PathsInv, [Next]_vars
  PROVE  OthersInv'
<1> USE DEF PathsInv, OthersInv
<1>1. CASE \/ TogglePlayback \/ StopPressed \/ ClearPressed \/ Sought \/ ToggleRecording \/ Reload
           \/ FlowOn \/ FlowOff \/ Frame \/ NextTimer \/ UNCHANGED vars
  BY <1>1 DEF TogglePlayback, StopPressed, ClearPressed, Sought, Jump, Seek, ToggleRecording, Reload,
              FlowOn, FlowOff, Frame, NextTimer, page, vars
<1>2. CASE \E found \in BOOLEAN : AnalysisEnds(found)
  BY <1>2 DEF AnalysisEnds, page
<1>3. CASE ChangeMode
  BY <1>3 DEF ChangeMode, page
<1>4. CASE SubmitFilter \/ FilterSet \/ FilterCleared \/ FilterFails
  BY <1>4 DEF SubmitFilter, FilterSet, FilterCleared, FilterFails
<1>5. CASE \E packet \in Stamps : PacketArrives(packet) \/ LiveAnalysisEnds(packet)
  BY <1>5 DEF PacketArrives, LiveAnalysisEnds
<1>6. CASE Leave \/ Return
  BY <1>6 DEF Leave, Return, Suspend
<1> QED BY <1>1, <1>2, <1>3, <1>4, <1>5, <1>6 DEF Next

\* The page opens with no packets, no paths and no analysis.
LEMMA InitIsPlaced == Init => PathsInv
<1> SUFFICES ASSUME Init PROVE PathsInv
  OBVIOUS
<1>1. events \in Seq(Stamps) /\ Len(events) = 0
  BY EmptySeq DEF Init
<1>2. player = Stopped
  BY DEF Init, Stopped
<1>3. ListInv
  <2>1. Placed(player, 0) /\ MaxEvents \in Nat \ {0}
    BY <1>2, StoppedIsPlaced, GeoAssumption DEF GeoAssumption
  <2>2. recording = FALSE /\ 0 <= MaxEvents
    BY <2>1 DEF Init
  <2> QED BY <1>1, <2>1, <2>2 DEF ListInv
<1>4. FlowInv
  BY DEF Init, FlowInv, NoAnalysis, NoPreparation, Analyses, Preparations, Preparing
<1>5. OthersInv
  BY DEF Init, OthersInv
<1> QED BY <1>3, <1>4, <1>5 DEF PathsInv

\* What is known of the list, its paths and every other variable holds in every
\* reachable state.
THEOREM PathsInvariance == Spec => []PathsInv
<1>1. Init => PathsInv
  BY InitIsPlaced
<1>2. IInv /\ PathsInv /\ [Next]_vars => PathsInv'
  BY ListStep, FlowStep, OthersStep DEF PathsInv
<1> QED BY <1>1, <1>2, Invariance, PTL DEF Spec

\* The paths that are used for animation are those of the packets that are played,
\* and a position is one of the list (EmulatorTopologyPage.vue:1203, 1321, 1467).
THEOREM PathsAreOfTheseEvents == Spec => []PathsMatchPackets
<1>1. PathsInv => PathsMatchPackets
  <2> SUFFICES ASSUME PathsInv PROVE PathsMatchPackets
    OBVIOUS
  <2>1. TypeOK
    BY DEF PathsInv, ListInv, FlowInv, OthersInv, TypeOK, Placed, Analyses, Preparations
  <2>2. events # <<>> => ToSet(events) # {}
    <3>1. events # <<>> => 1 \in DOMAIN events
      BY LenProperties, EmptySeq DEF PathsInv, ListInv
    <3> QED BY <3>1 DEF ToSet
  <2> QED BY <2>1, <2>2 DEF PathsInv, FlowInv, Matches, PathsMatchPackets
<1> QED BY <1>1, PathsInvariance, PTL
=============================================================================
