----------------------- MODULE TopologyMapProofs -----------------------
(***************************************************************************)
(* Proofs about the two parts of the topology map's page: the map itself   *)
(* (MapUi), and the console windows over it (WindowManager, and Consoles   *)
(* which composes it with the pages in their frames).                      *)
(***************************************************************************)
EXTENDS MapUi, Consoles, TLAPS

-----------------------------------------------------------------------------
(* The map *)

\* What the two theorems need: the timers and the sets of nodes have their
\* types.
Timers ==
  /\ ticks \in Nat /\ unflashes \in Nat
  /\ status \in {"stopped", "playing", "paused"}

MapIInv == Timers /\ OneReplayer /\ NothingStaysLit

\* The page begins with no timer, no replay and nothing lit.
LEMMA MapInitHolds == MapInit => MapIInv
BY DEF MapInit, MapIInv, Timers, OneReplayer, NothingStaysLit

\* A frame of the replay leaves nothing lit but what flashes or is highlighted.
LEMMA DoReplayKeeps ==
  ASSUME NEW st \in {"playing", "paused"}, NEW list, NEW p,
         lit \subseteq flashing \cup highlights, highlights' = highlights, DoReplay(st, list, p)
  PROVE  /\ lit' \subseteq flashing' \cup highlights'
         /\ status' \in {"playing", "paused"}
<1>1. CASE p >= Len(list)
  BY <1>1 DEF DoReplay
<1>2. CASE ~(p >= Len(list))
  <2>1. flashing' = VerticesAt(list, p) /\ lit' = (lit \ flashing) \cup flashing' /\ status' = st
    BY <1>2 DEF DoReplay
  <2>2. QED
    BY <2>1
<1>3. QED
  BY <1>1, <1>2

\* Packets, timers, requests and commands keep what is said of the map.
LEMMA MapStepHolds == MapIInv /\ [MapNext]_mapVars => MapIInv'
<1> SUFFICES ASSUME MapIInv, [MapNext]_mapVars PROVE MapIInv'
  OBVIOUS
<1> USE DEF MapIInv, Timers, OneReplayer, NothingStaysLit, replay, flash, search
<1>1. ASSUME NEW l \in Lines, Packet(l) PROVE MapIInv'
  BY <1>1 DEF Packet
<1>2. CASE FlashTick
  BY <1>2 DEF FlashTick, FlashNodes
<1>3. CASE Unflash
  BY <1>3 DEF Unflash
<1>4. CASE ReplayTick
  <2>1. status \in {"playing", "paused"}
    BY <1>4 DEF ReplayTick
  <2>2. DoReplay(status, playlist, pos) /\ UNCHANGED <<ticks, unflashes, highlights, recording>>
    BY <1>4, <2>1 DEF ReplayTick
  <2>3. lit' \subseteq flashing' \cup highlights' /\ status' \in {"playing", "paused"}
    BY <2>1, <2>2, DoReplayKeeps
  <2>4. QED
    BY <2>1, <2>2, <2>3
<1>5. CASE RecordStartStop
  BY <1>5 DEF RecordStartStop
<1>6. CASE Play
  <2>1. DoReplay("playing", playlist', 0) /\ UNCHANGED <<unflashes, highlights, recording>>
        /\ ~recording /\ status = "stopped" /\ ticks' = ticks + 1
    BY <1>6 DEF Play
  <2>2. lit' \subseteq flashing' \cup highlights' /\ status' \in {"playing", "paused"}
    BY <2>1, DoReplayKeeps
  <2>3. QED
    BY <2>1, <2>2
<1>7. CASE PlayPause
  BY <1>7 DEF PlayPause
<1>8. CASE ReplayStop
  BY <1>8 DEF ReplayStop
<1>9. ASSUME NEW p, ReplaySeek(p) PROVE MapIInv'
  <2>1. DoReplay("paused", playlist, p) /\ UNCHANGED <<ticks, unflashes, highlights, recording>>
        /\ status # "stopped"
    BY <1>9 DEF ReplaySeek
  <2>2. lit' \subseteq flashing' \cup highlights' /\ status' \in {"playing", "paused"}
    BY <2>1, DoReplayKeeps
  <2>3. QED
    BY <2>1, <2>2
<1>10. ASSUME NEW m \in {"filter", "node-search"}, SetFilterMode(m) PROVE MapIInv'
  BY <1>10 DEF SetFilterMode, UpdateSearchHighlights
<1>11. ASSUME NEW found \in Terms, OnSubmitSearch(found) PROVE MapIInv'
  BY <1>11 DEF OnSubmitSearch, UpdateSearchHighlights
<1>12. CASE OnLogClear
  BY <1>12 DEF OnLogClear
<1>13. CASE UNCHANGED mapVars
  BY <1>13 DEF mapVars
<1>14. QED
  BY <1>1, <1>2, <1>3, <1>4, <1>5, <1>6, <1>7, <1>8, <1>9, <1>10, <1>11, <1>12, <1>13
     DEF MapNext, ReplayPlayPause, Step, SeekTo

\* The inductive invariant of the map holds in every reachable state: one timer
\* replays while a replay is on and none else, and what is lit is flashing or
\* highlighted (map-ui.ts).
THEOREM MapInvariance == MapSpec => []MapIInv
BY MapInitHolds, MapStepHolds, PTL DEF MapSpec

\* Whatever the order of packets, timers, replays and searches, no node stays
\* lit that nothing will take back, on any map.
THEOREM LitIsTakenBack == MapSpec => []NothingStaysLit
<1>1. MapIInv => NothingStaysLit
  BY DEF MapIInv
<1>2. QED
  BY <1>1, MapInvariance, PTL

\* A replay has one chain of timers, none outlives it, and nothing is recorded
\* while it is on.
THEOREM ReplayerIsAlone == MapSpec => []OneReplayer
<1>1. MapIInv => OneReplayer
  BY DEF MapIInv
<1>2. QED
  BY <1>1, MapInvariance, PTL

-----------------------------------------------------------------------------
(* The console windows *)

Desks ==
  [ made : 0 .. MaxWindows, windows : [Nodes -> Windows \cup {Nothing}],
    nodeOf : [Windows -> Nodes \cup {Nothing}], active : Nodes \cup {Nothing},
    raised : SUBSET Windows, lit : SUBSET Windows, minimized : SUBSET Windows, masked : SUBSET Windows,
    dragging : SUBSET Windows, resizing : SUBSET Windows,
    bar : [items : SUBSET Nodes, active : Nodes \cup {Nothing}] ]

\* A window is known by its node, the active one is shown, the next is blank.
Linked(d) ==
  /\ d \in Desks
  /\ \A n \in Nodes : d.windows[n] # Nothing => d.nodeOf[d.windows[n]] = n
  /\ d.active # Nothing => d.windows[d.active] \in Shown(d)
  /\ \A w \in Windows : w > d.made => d.nodeOf[w] = Nothing /\ w \notin d.masked

\* All windows but those of ws are in front and lit as they should be.
Sorted(d, ws) ==
  \A v \in Shown(d) \ ws : (v \in d.raised <=> v \in FrontWindow(d)) /\ (v \in d.lit <=> v \in FrontWindow(d))

Drawn(d) == d.bar = [items |-> {n \in Nodes : d.windows[n] # Nothing}, active |-> d.active]

Orderly(d) == Linked(d) /\ Sorted(d, {}) /\ Drawn(d)

\* Masks are only there while something is dragged.
Masked(d) == d.masked \cap OnDesktop(d) # {} => d.dragging # {}

\* What making a window active changes.
LEMMA SetActiveFields ==
  ASSUME NEW d \in Desks, NEW w \in Windows, d.active # d.nodeOf[w], d.nodeOf[w] \in Nodes,
         d.windows[d.nodeOf[w]] = w,
         NEW e, e = SetActive(d, w)
  PROVE  /\ e \in Desks
         /\ e.active = d.nodeOf[w]
         /\ e.raised = (d.raised \ Former(d)) \cup {w}
         /\ e.lit = (d.lit \ Former(d)) \cup {w}
         /\ e.minimized = d.minimized \ {w}
         /\ e.made = d.made /\ e.windows = d.windows /\ e.nodeOf = d.nodeOf /\ e.masked = d.masked
         /\ e.dragging = d.dragging /\ e.resizing = d.resizing
         /\ Drawn(e)
<1>1. /\ d.active \in Nodes \cup {Nothing} /\ d.raised \subseteq Windows /\ d.lit \subseteq Windows
      /\ d.windows \in [Nodes -> Windows \cup {Nothing}]
  BY DEF Desks
<1>2. w # Nothing /\ d.nodeOf[w] # Nothing
  BY WindowAssumption
<1> QED
  BY <1>1, <1>2 DEF SetActive, UpdateTaskbar, ToFront, ToBack, Drawn, Desks

\* The desktop is in order once another window is active.
LEMMA SetActiveKeeps ==
  ASSUME NEW d, NEW w \in OnDesktop(d), Linked(d), Sorted(d, {w}), d.active # d.nodeOf[w]
  PROVE  Orderly(SetActive(d, w))
<1> DEFINE e == SetActive(d, w)
<1>1. /\ d \in Desks /\ w \in Windows /\ d.nodeOf[w] \in Nodes /\ d.windows[d.nodeOf[w]] = w
      /\ d.windows \in [Nodes -> Windows \cup {Nothing}]
  BY DEF Linked, OnDesktop, Desks
<1>2. /\ e \in Desks
      /\ e.active = d.nodeOf[w]
      /\ e.raised = (d.raised \ Former(d)) \cup {w}
      /\ e.lit = (d.lit \ Former(d)) \cup {w}
      /\ e.minimized = d.minimized \ {w}
      /\ e.made = d.made /\ e.windows = d.windows /\ e.nodeOf = d.nodeOf /\ e.masked = d.masked
      /\ Drawn(e)
  BY <1>1, SetActiveFields
<1> HIDE DEF e
<1>3. OnDesktop(e) = OnDesktop(d) /\ FrontWindow(e) = {w}
  BY <1>1, <1>2, WindowAssumption DEF OnDesktop, FrontWindow
<1>4. Linked(e)
  BY <1>1, <1>2, <1>3 DEF Linked, Shown
<1>5. Sorted(e, {})
  <2> SUFFICES ASSUME NEW v \in Shown(e), v # w
               PROVE  v \notin e.raised /\ v \notin e.lit
    BY <1>2, <1>3 DEF Sorted
  <2>1. v \in Shown(d)
    BY <1>2, <1>3 DEF Shown
  <2>2. (v \in d.raised <=> v \in FrontWindow(d)) /\ (v \in d.lit <=> v \in FrontWindow(d))
    BY <2>1 DEF Sorted
  <2>3. Former(d) = FrontWindow(d)
    BY WindowAssumption DEF Former, FrontWindow, Linked, Shown, OnDesktop
  <2>4. QED
    BY <1>2, <2>2, <2>3
<1>6. QED
  BY <1>2, <1>4, <1>5 DEF e, Orderly

\* Activating a window of an orderly desktop leaves it orderly.
LEMMA Activate ==
  ASSUME NEW d, NEW w \in OnDesktop(d), Orderly(d)
  PROVE  /\ Orderly(SetActive(d, w))
         /\ SetActive(d, w).windows = d.windows
         /\ SetActive(d, w).masked = d.masked
         /\ SetActive(d, w).dragging = d.dragging
<1>1. CASE d.active = d.nodeOf[w]
  BY <1>1 DEF SetActive
<1>2. CASE d.active # d.nodeOf[w]
  <2>1. Sorted(d, {w})
    BY DEF Orderly, Sorted
  <2>2. d \in Desks /\ w \in Windows /\ d.nodeOf[w] \in Nodes /\ d.windows[d.nodeOf[w]] = w
    BY DEF Orderly, Linked, OnDesktop, Desks
  <2>3. QED
    BY <1>2, <2>1, <2>2, SetActiveKeeps, SetActiveFields DEF Orderly
<1>3. QED
  BY <1>1, <1>2

\* What closing a window changes.
LEMMA CloseFields ==
  ASSUME NEW d \in Desks, NEW n \in Nodes, d.windows[n] # Nothing,
         d.active # Nothing => d.windows[d.active] # Nothing,
         NEW e, e = CloseWindow(d, n), NEW w, w = d.windows[n]
  PROVE  /\ e \in Desks
         /\ e.active = IF d.active = n THEN Nothing ELSE d.active
         /\ e.windows = [d.windows EXCEPT ![n] = Nothing]
         /\ e.raised = d.raised \ {w} /\ e.lit = d.lit \ {w}
         /\ e.minimized = d.minimized \ {w} /\ e.masked = d.masked \ {w}
         /\ e.made = d.made /\ e.nodeOf = d.nodeOf
         /\ e.dragging = d.dragging
         /\ Drawn(e)
<1>1. d.active \in Nodes \cup {Nothing} /\ d.windows \in [Nodes -> Windows \cup {Nothing}]
  BY DEF Desks
<1> DEFINE r == [Detach(d, w) EXCEPT !.windows[n] = Nothing, !.active = IF @ = n THEN Nothing ELSE @]
<1>2. /\ r \in Desks
      /\ r.active = IF d.active = n THEN Nothing ELSE d.active
      /\ r.windows = [d.windows EXCEPT ![n] = Nothing]
      /\ r.raised = d.raised \ {w} /\ r.lit = d.lit \ {w}
      /\ r.minimized = d.minimized \ {w} /\ r.masked = d.masked \ {w}
      /\ r.made = d.made /\ r.nodeOf = d.nodeOf
      /\ r.dragging = d.dragging
  BY <1>1 DEF Detach, Desks
<1>3. e = UpdateTaskbar(r)
  BY DEF CloseWindow
<1>4. r.active # Nothing => r.active \in Nodes /\ r.windows[r.active] # Nothing
  BY <1>1, <1>2
<1> HIDE DEF r
<1>5. /\ e = [r EXCEPT !.bar = [items |-> {m \in Nodes : r.windows[m] # Nothing}, active |-> r.active]]
      /\ r.active \in Nodes \cup {Nothing}
  BY <1>2, <1>3, <1>4 DEF UpdateTaskbar, Desks
<1> DEFINE bar == [items |-> {m \in Nodes : r.windows[m] # Nothing}, active |-> r.active]
<1>a. bar \in [items : SUBSET Nodes, active : Nodes \cup {Nothing}]
  BY <1>5
<1> HIDE DEF bar
<1>b. e = [r EXCEPT !.bar = bar]
  BY <1>5 DEF bar
<1>6. r \in Desks /\ e \in Desks
  BY <1>2, <1>a, <1>b DEF Desks
<1>7. /\ e.active = r.active /\ e.windows = r.windows /\ e.raised = r.raised /\ e.lit = r.lit
      /\ e.minimized = r.minimized /\ e.masked = r.masked /\ e.made = r.made /\ e.nodeOf = r.nodeOf
      /\ e.dragging = r.dragging
      /\ e.bar = bar
  BY <1>6, <1>b DEF Desks
<1>8. Drawn(e)
  BY <1>7 DEF Drawn, bar
<1> QED
  BY <1>2, <1>6, <1>7, <1>8

\* Closing a window, if there is one.
LEMMA CloseKeeps ==
  ASSUME NEW d, NEW n \in Nodes, Orderly(d)
  PROVE  /\ Orderly(CloseWindow(d, n))
         /\ CloseWindow(d, n).windows[n] = Nothing
         /\ CloseWindow(d, n).made = d.made
         /\ CloseWindow(d, n).dragging = d.dragging
         /\ CloseWindow(d, n).masked \subseteq d.masked
         /\ OnDesktop(CloseWindow(d, n)) \subseteq OnDesktop(d)
<1> DEFINE e == CloseWindow(d, n)
           w == d.windows[n]
<1>1. CASE w = Nothing
  BY <1>1 DEF CloseWindow
<1>2. CASE w # Nothing
  <2>1. /\ d \in Desks
        /\ d.active # Nothing => d.windows[d.active] # Nothing
        /\ d.windows \in [Nodes -> Windows \cup {Nothing}]
        /\ d.active \in Nodes \cup {Nothing}
    BY DEF Orderly, Linked, Shown, OnDesktop, Desks
  <2>2. /\ e \in Desks
        /\ e.active = IF d.active = n THEN Nothing ELSE d.active
        /\ e.windows = [d.windows EXCEPT ![n] = Nothing]
        /\ e.raised = d.raised \ {w} /\ e.lit = d.lit \ {w}
        /\ e.minimized = d.minimized \ {w} /\ e.masked = d.masked \ {w}
        /\ e.made = d.made /\ e.nodeOf = d.nodeOf
        /\ e.dragging = d.dragging
        /\ Drawn(e)
    BY <1>2, <2>1, CloseFields
  <2>3. \A m \in Nodes \ {n} : d.windows[m] # Nothing => d.windows[m] # w
    BY <1>2 DEF Orderly, Linked
  <2> HIDE DEF e
  <2>4. OnDesktop(e) = OnDesktop(d) \ {w} /\ Shown(e) = Shown(d) \ {w}
    BY <1>2, <2>1, <2>2, <2>3 DEF OnDesktop, Shown
  <2>5. FrontWindow(e) = FrontWindow(d) \ {w}
    BY <1>2, <2>1, <2>2, <2>3 DEF FrontWindow
  <2>6. Linked(e)
    <3>1. ASSUME e.active # Nothing
          PROVE  e.windows[e.active] \in Shown(e)
      <4>1. d.active # n /\ d.active \in Nodes /\ e.active = d.active
        BY <2>1, <2>2, <3>1
      <4>2. d.windows[d.active] \in Shown(d) /\ d.windows[d.active] # w
        BY <2>1, <2>3, <3>1, <4>1 DEF Orderly, Linked
      <4>3. QED
        BY <2>1, <2>2, <2>4, <4>1, <4>2
    <3>2. \A m \in Nodes : e.windows[m] # Nothing => e.nodeOf[e.windows[m]] = m
      BY <2>1, <2>2 DEF Orderly, Linked
    <3>3. \A v \in Windows : v > e.made => e.nodeOf[v] = Nothing /\ v \notin e.masked
      BY <2>2 DEF Orderly, Linked
    <3>4. QED
      BY <2>2, <3>1, <3>2, <3>3 DEF Linked
  <2>7. Sorted(e, {})
    BY <2>2, <2>4, <2>5 DEF Orderly, Sorted
  <2>8. QED
    BY <2>1, <2>2, <2>4, <2>6, <2>7 DEF e, Orderly
<1>3. QED
  BY <1>1, <1>2

\* The desktop is in order once a window is minimized.
LEMMA MinimizeKeeps ==
  ASSUME NEW d, NEW w \in OnDesktop(d), Orderly(d)
  PROVE  /\ Orderly(Minimize(d, w))
         /\ Minimize(d, w).windows = d.windows
         /\ Minimize(d, w).masked = d.masked
         /\ Minimize(d, w).dragging = d.dragging
<1> DEFINE e == Minimize(d, w)
<1>1. /\ d \in Desks /\ w \in Windows /\ d.nodeOf[w] \in Nodes /\ d.windows[d.nodeOf[w]] = w
      /\ d.windows \in [Nodes -> Windows \cup {Nothing}]
      /\ d.active \in Nodes \cup {Nothing}
      /\ d.active # Nothing => d.windows[d.active] # Nothing
  BY DEF Orderly, Linked, OnDesktop, Desks, Shown
<1>2. /\ e \in Desks
      /\ e.active = IF d.active = d.nodeOf[w] THEN Nothing ELSE d.active
      /\ e.minimized = d.minimized \cup {w}
      /\ e.lit = d.lit \ {w} /\ e.raised = d.raised
      /\ e.made = d.made /\ e.windows = d.windows /\ e.nodeOf = d.nodeOf /\ e.masked = d.masked
      /\ e.dragging = d.dragging
      /\ Drawn(e)
  BY <1>1, WindowAssumption DEF Minimize, MinimizeWindow, UpdateTaskbar, Drawn, Desks
<1> HIDE DEF e
<1>3. OnDesktop(e) = OnDesktop(d) /\ Shown(e) = Shown(d) \ {w}
  BY <1>2 DEF OnDesktop, Shown
<1>4. FrontWindow(e) = FrontWindow(d) \ {w}
  BY <1>1, <1>2, WindowAssumption DEF FrontWindow, Orderly, Linked
<1>5. Linked(e)
  BY <1>1, <1>2, <1>3 DEF Orderly, Linked
<1>6. Sorted(e, {})
  BY <1>2, <1>3, <1>4 DEF Orderly, Sorted
<1>7. QED
  BY <1>2, <1>5, <1>6 DEF e, Orderly

\* A drawn taskbar is drawn again as it is.
LEMMA DrawnAgain ==
  ASSUME NEW d, Orderly(d)
  PROVE  UpdateTaskbar(d) = d
<1> DEFINE bar == [items |-> {n \in Nodes : d.windows[n] # Nothing}, active |-> d.active]
<1>1. d \in Desks /\ d.bar = bar
  BY DEF Orderly, Linked, Drawn
<1>2. UpdateTaskbar(d) = [d EXCEPT !.bar = bar]
  BY DEF UpdateTaskbar, Orderly, Linked, Shown, OnDesktop, Desks
<1> HIDE DEF bar
<1> QED
  BY <1>1, <1>2 DEF Desks

\* A window is opened, or the one there is comes to the front: it is drawn, and
\* one made anew has no mask.
LEMMA CreateKeeps ==
  ASSUME NEW d, NEW n \in Nodes, NEW reload \in BOOLEAN, Orderly(d), Masked(d), CanCreate(d, n, reload)
  PROVE  /\ Orderly(CreateWindow(d, n, reload))
         /\ Masked(CreateWindow(d, n, reload))
         /\ CreateWindow(d, n, reload).dragging = d.dragging
         /\ reload => OnDesktop(CreateWindow(d, n, reload)) \ CreateWindow(d, n, reload).masked # {}
<1>1. CASE d.windows[n] # Nothing /\ ~reload
  <2>1. d.windows[n] \in OnDesktop(d)
    BY <1>1 DEF OnDesktop
  <2>2. CreateWindow(d, n, reload) = SetActive(d, d.windows[n])
    BY <1>1 DEF CreateWindow
  <2>3. QED
    BY <1>1, <2>1, <2>2, Activate DEF Masked, OnDesktop
<1>2. CASE ~(d.windows[n] # Nothing /\ ~reload)
  <2> DEFINE shut == CloseWindow(d, n)
             w == d.made + 1
             c == [shut EXCEPT !.made = w, !.windows[n] = w, !.nodeOf[w] = n]
             e == SetActive(c, w)
  <2>1. /\ Orderly(shut)
        /\ shut.windows[n] = Nothing
        /\ shut.made = d.made
        /\ shut.dragging = d.dragging
        /\ shut.masked \subseteq d.masked
        /\ OnDesktop(shut) \subseteq OnDesktop(d)
    BY CloseKeeps
  <2>2. w \in Windows /\ w \in 0 .. MaxWindows /\ w > d.made
    BY <1>2, WindowAssumption DEF CanCreate, Windows, Orderly, Linked, Desks
  <2>3. CreateWindow(d, n, reload) = UpdateTaskbar(e)
    BY <1>2 DEF CreateWindow
  <2> HIDE DEF shut, w
  <2>4. /\ shut \in Desks /\ shut.made < w
        /\ shut.windows \in [Nodes -> Windows \cup {Nothing}]
        /\ shut.nodeOf \in [Windows -> Nodes \cup {Nothing}]
        /\ shut.active \in Nodes \cup {Nothing}
        /\ shut.nodeOf[w] = Nothing /\ w \notin shut.masked
    BY <2>1, <2>2 DEF Orderly, Linked, Desks
  <2>5. /\ c \in Desks
        /\ c.made = w
        /\ c.windows = [shut.windows EXCEPT ![n] = w]
        /\ c.nodeOf = [shut.nodeOf EXCEPT ![w] = n]
        /\ c.active = shut.active /\ c.raised = shut.raised /\ c.lit = shut.lit
        /\ c.minimized = shut.minimized /\ c.masked = shut.masked
        /\ c.dragging = shut.dragging
    BY <2>2, <2>4 DEF Desks
  <2> HIDE DEF c
  <2>6. \A m \in Nodes : shut.windows[m] # w
    BY <2>1, <2>2, <2>4, WindowAssumption DEF Orderly, Linked
  <2>7. /\ OnDesktop(c) = OnDesktop(shut) \cup {w}
        /\ Shown(c) \ {w} = Shown(shut)
        /\ FrontWindow(c) = FrontWindow(shut)
        /\ c.active # n
    <3>1. shut.active # n
      BY <2>1, WindowAssumption DEF Orderly, Linked, Shown, OnDesktop
    <3>2. OnDesktop(c) = OnDesktop(shut) \cup {w} /\ w \notin OnDesktop(shut)
      BY <2>1, <2>2, <2>4, <2>5, <2>6, WindowAssumption DEF OnDesktop
    <3>3. Shown(c) \ {w} = Shown(shut)
      BY <2>5, <3>2 DEF Shown
    <3>4. FrontWindow(c) = FrontWindow(shut)
      BY <2>4, <2>5, <3>1 DEF FrontWindow
    <3>5. QED
      BY <2>5, <3>1, <3>2, <3>3, <3>4
  <2>8. Linked(c)
    <3>1. \A m \in Nodes : c.windows[m] # Nothing => c.nodeOf[c.windows[m]] = m
      BY <2>1, <2>2, <2>4, <2>5, <2>6 DEF Orderly, Linked
    <3>2. c.active # Nothing => c.windows[c.active] \in Shown(c)
      BY <2>1, <2>4, <2>5, <2>7 DEF Orderly, Linked
    <3>3. \A v \in Windows : v > c.made => c.nodeOf[v] = Nothing /\ v \notin c.masked
      <4> SUFFICES ASSUME NEW v \in Windows, v > w
                   PROVE  shut.nodeOf[v] = Nothing /\ v \notin shut.masked /\ v # w
        BY <2>2, <2>4, <2>5
      <4>1. v > shut.made
        BY <2>1, <2>2 DEF Windows, w, Orderly, Linked, Desks
      <4>2. v # w
        BY <2>2 DEF Windows
      <4>3. QED
        BY <2>1, <4>1, <4>2 DEF Orderly, Linked
    <3>4. QED
      BY <2>5, <3>1, <3>2, <3>3 DEF Linked
  <2>9. Sorted(c, {w})
    BY <2>1, <2>5, <2>7 DEF Orderly, Sorted
  <2>10. w \in OnDesktop(c) /\ c.nodeOf[w] = n /\ c.windows[n] = w
    BY <2>2, <2>4, <2>5, <2>7
  <2>11. Orderly(e)
    BY <2>7, <2>8, <2>9, <2>10, SetActiveKeeps
  <2>12. e = SetActive(c, w) /\ CreateWindow(d, n, reload) = UpdateTaskbar(e)
    BY <2>3 DEF c, shut
  <2> HIDE DEF e
  <2>a. /\ c \in Desks /\ w \in Windows /\ c.active # c.nodeOf[w] /\ c.nodeOf[w] \in Nodes
        /\ c.windows[c.nodeOf[w]] = w
    BY <2>2, <2>5, <2>7, <2>10
  <2>b. /\ e.windows = c.windows /\ e.masked = c.masked /\ e.dragging = c.dragging
    BY <2>12, <2>a, SetActiveFields
  <2>13. UpdateTaskbar(e) = e
    BY <2>11, DrawnAgain
  <2>14. OnDesktop(e) = OnDesktop(shut) \cup {w}
    BY <2>7, <2>b DEF OnDesktop
  <2>15. Masked(e)
    BY <2>1, <2>4, <2>5, <2>b, <2>14 DEF Masked
  <2>16. w \in OnDesktop(e) \ e.masked
    BY <2>4, <2>5, <2>b, <2>14
  <2>17. CreateWindow(d, n, reload) = e /\ e.dragging = d.dragging
    BY <2>1, <2>5, <2>12, <2>13, <2>b
  <2>18. QED
    BY <2>11, <2>15, <2>16, <2>17
<1>3. QED
  BY <1>1, <1>2

\* The drag ends: every mask is off, and nothing else of the desktop changes.
LEMMA DragEnds ==
  ASSUME NEW d, Orderly(d), Masked(d)
  PROVE  /\ Orderly(HandleDragEnd(d))
         /\ HandleDragEnd(d).masked \cap OnDesktop(d) = {}
         /\ HandleDragEnd(d).windows = d.windows
         /\ HandleDragEnd(d).made = d.made
         /\ HandleDragEnd(d).active = d.active
         /\ HandleDragEnd(d).minimized = d.minimized
         /\ HandleDragEnd(d).dragging = {}
<1> DEFINE e == HandleDragEnd(d)
<1>1. d \in Desks
  BY DEF Orderly, Linked
<1>2. /\ e \in Desks
      /\ e.masked \subseteq d.masked
      /\ e.masked \cap OnDesktop(d) = {}
      /\ e.dragging = {}
      /\ e.active = d.active /\ e.minimized = d.minimized /\ e.raised = d.raised /\ e.lit = d.lit
      /\ e.made = d.made /\ e.windows = d.windows /\ e.nodeOf = d.nodeOf /\ e.bar = d.bar
  <2>1. CASE d.dragging = {}
    <3>1. e = [d EXCEPT !.dragging = {}, !.resizing = {}]
      BY <2>1 DEF HandleDragEnd
    <3>2. d.masked \cap OnDesktop(d) = {}
      BY <2>1 DEF Masked
    <3> HIDE DEF e
    <3>3. QED
      BY <1>1, <3>1, <3>2 DEF Desks
  <2>2. CASE d.dragging # {}
    <3>1. e = [d EXCEPT !.masked = @ \ OnDesktop(d), !.dragging = {}, !.resizing = {}]
      BY <1>1, <2>2 DEF HandleDragEnd, UnblockWindows, Desks
    <3> HIDE DEF e
    <3>2. QED
      BY <1>1, <3>1 DEF Desks
  <2>3. QED
    BY <2>1, <2>2
<1> HIDE DEF e
<1>3. OnDesktop(e) = OnDesktop(d) /\ Shown(e) = Shown(d) /\ FrontWindow(e) = FrontWindow(d)
  BY <1>2 DEF OnDesktop, Shown, FrontWindow
<1>4. Linked(e)
  <2>1. \A w \in Windows : w > e.made => e.nodeOf[w] = Nothing /\ w \notin e.masked
    BY <1>2 DEF Orderly, Linked
  <2>2. /\ \A n \in Nodes : e.windows[n] # Nothing => e.nodeOf[e.windows[n]] = n
        /\ e.active # Nothing => e.windows[e.active] \in Shown(e)
    BY <1>2, <1>3 DEF Orderly, Linked
  <2>3. QED
    BY <1>2, <2>1, <2>2 DEF Linked
<1>5. Sorted(e, {}) /\ Drawn(e)
  BY <1>2, <1>3 DEF Orderly, Sorted, Drawn
<1>6. QED
  BY <1>2, <1>4, <1>5 DEF e, Orderly

\* Masking the frames leaves the rest as it is: windows not made yet have none.
LEMMA BlockKeeps ==
  ASSUME NEW d, Orderly(d)
  PROVE  Orderly(BlockWindows(d)) /\ BlockWindows(d).windows = d.windows
<1> DEFINE e == BlockWindows(d)
<1>1. d \in Desks /\ OnDesktop(d) \subseteq Windows
  BY DEF Orderly, Linked, OnDesktop, Desks
<1>2. /\ e \in Desks
      /\ e.masked = d.masked \cup OnDesktop(d)
      /\ e.active = d.active /\ e.minimized = d.minimized /\ e.raised = d.raised /\ e.lit = d.lit
      /\ e.made = d.made /\ e.windows = d.windows /\ e.nodeOf = d.nodeOf /\ e.bar = d.bar
  BY <1>1 DEF BlockWindows, Desks
<1> HIDE DEF e
<1>3. OnDesktop(e) = OnDesktop(d) /\ Shown(e) = Shown(d) /\ FrontWindow(e) = FrontWindow(d)
  BY <1>2 DEF OnDesktop, Shown, FrontWindow
<1>4. \A w \in OnDesktop(d) : d.nodeOf[w] # Nothing
  BY WindowAssumption DEF OnDesktop, Orderly, Linked
<1>5. Linked(e)
  <2>1. \A w \in Windows : w > e.made => e.nodeOf[w] = Nothing /\ w \notin e.masked
    BY <1>2, <1>4 DEF Orderly, Linked
  <2>2. /\ \A n \in Nodes : e.windows[n] # Nothing => e.nodeOf[e.windows[n]] = n
        /\ e.active # Nothing => e.windows[e.active] \in Shown(e)
    BY <1>2, <1>3 DEF Orderly, Linked
  <2>3. QED
    BY <1>2, <2>1, <2>2 DEF Linked
<1>6. Sorted(e, {}) /\ Drawn(e)
  BY <1>2, <1>3 DEF Orderly, Sorted, Drawn
<1>7. QED
  BY <1>2, <1>5, <1>6 DEF e, Orderly

\* What is dragged or resized has no part in the order of the windows.
Grab(d, dragging, resizing) == [d EXCEPT !.dragging = dragging, !.resizing = resizing]

\* Taking hold of windows changes nothing else on the desktop.
LEMMA Grabbed ==
  ASSUME NEW d, Orderly(d), NEW dragging \in SUBSET Windows, NEW resizing \in SUBSET Windows,
         NEW e, e = Grab(d, dragging, resizing)
  PROVE  Orderly(e) /\ e.dragging = dragging /\ e.masked = d.masked /\ OnDesktop(e) = OnDesktop(d)
<1>1. d \in Desks
  BY DEF Orderly, Linked
<1>2. /\ e \in Desks
      /\ e.dragging = dragging
      /\ e.active = d.active /\ e.minimized = d.minimized /\ e.raised = d.raised /\ e.lit = d.lit
      /\ e.masked = d.masked
      /\ e.made = d.made /\ e.windows = d.windows /\ e.nodeOf = d.nodeOf /\ e.bar = d.bar
  BY <1>1 DEF Grab, Desks
<1>3. OnDesktop(e) = OnDesktop(d) /\ Shown(e) = Shown(d) /\ FrontWindow(e) = FrontWindow(d)
  BY <1>2 DEF OnDesktop, Shown, FrontWindow
<1>4. Linked(e)
  BY <1>2, <1>3 DEF Orderly, Linked
<1>5. Sorted(e, {}) /\ Drawn(e)
  BY <1>2, <1>3 DEF Orderly, Sorted, Drawn
<1>6. QED
  BY <1>2, <1>3, <1>4, <1>5 DEF Orderly

\* Pressing the title bar, or a handle.
LEMMA PressKeeps ==
  ASSUME NEW d, NEW w \in OnDesktop(d), Orderly(d), Masked(d)
  PROVE  /\ Orderly(HandleDragStart(d, w)) /\ Masked(HandleDragStart(d, w))
         /\ Orderly(StartResize(d, w)) /\ Masked(StartResize(d, w))
<1>1. d \in Desks /\ w \in Windows
  BY DEF Orderly, Linked, OnDesktop, Desks
<1>2. Orderly(HandleDragStart(d, w)) /\ Masked(HandleDragStart(d, w))
  <2>1. CASE w \in d.resizing
    BY <2>1 DEF HandleDragStart
  <2>2. CASE w \notin d.resizing
    <3> DEFINE e == SetActive(BlockWindows(d), w)
    <3>1. Orderly(e)
      BY BlockKeeps, Activate DEF OnDesktop
    <3>2. HandleDragStart(d, w) = [e EXCEPT !.dragging = @ \cup {w}]
      BY <2>2 DEF HandleDragStart
    <3> HIDE DEF e
    <3>3. e \in Desks
      BY <3>1 DEF Orderly, Linked
    <3>4. HandleDragStart(d, w) = [e EXCEPT !.dragging = e.dragging \cup {w}, !.resizing = e.resizing]
      BY <3>2, <3>3 DEF Desks
    <3>5. e.dragging \cup {w} \in SUBSET Windows /\ e.resizing \in SUBSET Windows
      BY <1>1, <3>3 DEF Desks
    <3> DEFINE f == HandleDragStart(d, w)
               dragging == e.dragging \cup {w}
               resizing == e.resizing
    <3>6. f = Grab(e, dragging, resizing) /\ w \in dragging
      BY <3>4 DEF Grab
    <3>7. dragging \in SUBSET Windows /\ resizing \in SUBSET Windows
      BY <3>5
    <3> HIDE DEF f, dragging, resizing
    <3>8. Orderly(f) /\ f.dragging = dragging
      BY <3>1, <3>6, <3>7, Grabbed
    <3>9. QED
      BY <3>6, <3>8 DEF Masked, f
  <2>3. QED
    BY <2>1, <2>2
<1>3. Orderly(StartResize(d, w)) /\ Masked(StartResize(d, w))
  <2> DEFINE e == SetActive(d, w)
  <2>1. Orderly(e) /\ e.windows = d.windows /\ e.masked = d.masked /\ e.dragging = d.dragging
    BY Activate
  <2>2. StartResize(d, w) = [e EXCEPT !.resizing = @ \cup {w}]
    BY DEF StartResize
  <2> HIDE DEF e
  <2>3. e \in Desks
    BY <2>1 DEF Orderly, Linked
  <2>4. StartResize(d, w) = [e EXCEPT !.dragging = e.dragging, !.resizing = e.resizing \cup {w}]
    BY <2>2, <2>3 DEF Desks
  <2>5. e.dragging \in SUBSET Windows /\ e.resizing \cup {w} \in SUBSET Windows
    BY <1>1, <2>3 DEF Desks
  <2> DEFINE f == StartResize(d, w)
             dragging == e.dragging
             resizing == e.resizing \cup {w}
  <2>6. f = Grab(e, dragging, resizing) /\ dragging = d.dragging
    BY <2>1, <2>4 DEF Grab
  <2>7. dragging \in SUBSET Windows /\ resizing \in SUBSET Windows
    BY <2>5
  <2> HIDE DEF f, dragging, resizing
  <2>8. Orderly(f) /\ f.dragging = dragging /\ f.masked = e.masked /\ OnDesktop(f) = OnDesktop(e)
    BY <2>1, <2>6, <2>7, Grabbed
  <2>9. QED
    BY <2>1, <2>6, <2>8 DEF Masked, OnDesktop, f
<1>4. QED
  BY <1>2, <1>3

\* Nothing is dragged and no window is masked.
Quiet(d) == d.dragging = {} /\ d.masked \cap OnDesktop(d) = {}

\* When a drag ends nobody is dragged and no window is masked.
LEMMA EndIsQuiet ==
  ASSUME NEW d, Orderly(d), Masked(d)
  PROVE  Orderly(HandleDragEnd(d)) /\ Quiet(HandleDragEnd(d)) /\ Masked(HandleDragEnd(d))
BY DragEnds DEF Quiet, Masked, OnDesktop

\* The commands that follow the end of a drag leave the desktop quiet.
LEMMA CommandsKeepQuiet ==
  ASSUME NEW d, Orderly(d), Quiet(d)
  PROVE  /\ \A w \in OnDesktop(d) : Orderly(SetActive(d, w)) /\ Quiet(SetActive(d, w))
         /\ \A w \in OnDesktop(d) : Orderly(Minimize(d, w)) /\ Quiet(Minimize(d, w))
         /\ \A n \in Nodes : Orderly(CloseWindow(d, n)) /\ Quiet(CloseWindow(d, n))
<1>1. \A w \in OnDesktop(d) : Orderly(SetActive(d, w)) /\ Quiet(SetActive(d, w))
  BY Activate DEF Quiet, OnDesktop
<1>2. \A w \in OnDesktop(d) : Orderly(Minimize(d, w)) /\ Quiet(Minimize(d, w))
  BY MinimizeKeeps DEF Quiet, OnDesktop
<1>3. ASSUME NEW n \in Nodes
      PROVE  Orderly(CloseWindow(d, n)) /\ Quiet(CloseWindow(d, n))
  BY CloseKeeps DEF Quiet
<1>4. QED
  BY <1>1, <1>2, <1>3

\* A drag goes on with the button up only beside a frame without a mask.
Held == pressed = Nothing /\ desk.dragging # {} => OnDesktop(desk) \ desk.masked # {}

DeskIInv == Orderly(desk) /\ Masked(desk) /\ Held

\* An empty desktop is in order.
LEMMA DeskInitKeeps == DeskInit => DeskIInv
<1> SUFFICES ASSUME DeskInit
             PROVE  DeskIInv
  OBVIOUS
<1>1. EmptyDesk \in Desks
  BY WindowAssumption DEF EmptyDesk, Desks
<1>2. OnDesktop(EmptyDesk) = {} /\ Shown(EmptyDesk) = {}
  BY DEF OnDesktop, Shown, EmptyDesk
<1>3. Linked(EmptyDesk)
  BY <1>1 DEF Linked, EmptyDesk
<1>4. Sorted(EmptyDesk, {}) /\ Drawn(EmptyDesk) /\ Masked(EmptyDesk)
  BY <1>2 DEF Sorted, Drawn, EmptyDesk, Masked
<1>5. QED
  BY <1>3, <1>4 DEF DeskInit, DeskIInv, Orderly, Held, EmptyDesk

\* Every event of the mouse and every command keeps the desktop in order.
LEMMA DeskStepKeeps == DeskIInv /\ [DeskNext]_desktop => DeskIInv'
<1> SUFFICES ASSUME DeskIInv, [DeskNext]_desktop
             PROVE  Orderly(desk') /\ Masked(desk') /\ Held'
  BY DEF DeskIInv, Orderly, Masked, Linked, Sorted, Drawn, Desks, Shown, OnDesktop, FrontWindow
<1> USE DEF DeskIInv
<1> DEFINE ended == HandleDragEnd(desk)
<1>e. /\ Orderly(ended) /\ Quiet(ended) /\ Masked(ended)
      /\ ended.windows = desk.windows /\ ended.made = desk.made
      /\ OnDesktop(ended) = OnDesktop(desk)
      /\ desk.windows \in [Nodes -> Windows \cup {Nothing}]
      /\ desk.nodeOf \in [Windows -> Nodes \cup {Nothing}]
      /\ ended.nodeOf \in [Windows -> Nodes \cup {Nothing}]
  BY EndIsQuiet, DragEnds DEF OnDesktop, Orderly, Linked, Desks
<1>f. Shown(desk) \subseteq OnDesktop(desk)
  BY DEF Shown
<1>s. ASSUME Quiet(desk')
      PROVE  Masked(desk') /\ Held'
  BY <1>s DEF Quiet, Masked, Held
<1> HIDE DEF ended
<1>1. ASSUME NEW w \in Windows, ClickPage(w)
      PROVE  Orderly(desk') /\ Masked(desk') /\ Held'
  <2>1. w \in OnDesktop(desk) /\ desk' = SetActive(desk, w)
    BY <1>1, <1>f DEF ClickPage
  <2>2. Orderly(desk') /\ desk'.windows = desk.windows /\ desk'.masked = desk.masked /\ desk'.dragging = desk.dragging
    BY <2>1, Activate
  <2>3. QED
    BY <1>1, <2>2 DEF Masked, Held, OnDesktop, ClickPage
<1>2. ASSUME NEW w \in Windows, NEW part \in Parts, MouseDown(w, part)
      PROVE  Orderly(desk') /\ Masked(desk') /\ Held'
  <2>1. w \in OnDesktop(desk)
    BY <1>2, <1>f DEF MouseDown
  <2>2. pressed' # Nothing
    BY <1>2, WindowAssumption DEF MouseDown
  <2>3. QED
    BY <1>2, <2>1, <2>2, PressKeeps DEF MouseDown, Held
<1>3. CASE MouseUp
  BY <1>3, <1>e, <1>s DEF MouseUp, ended
<1>4. CASE MouseUpInFrame
  BY <1>4, <1>f DEF MouseUpInFrame, Held
<1>5. ASSUME NEW button \in Buttons, MouseClick(button)
      PROVE  Orderly(desk') /\ Masked(desk') /\ Held'
  <2>1. pressed[1] \in OnDesktop(ended) /\ desk' = Click(ended, pressed[1], button)
    BY <1>5, <1>e, <1>f DEF MouseClick, ended
  <2>2. ended.nodeOf[pressed[1]] \in Nodes
    BY <1>e, <2>1 DEF OnDesktop, Orderly, Linked
  <2>3. Orderly(desk') /\ Quiet(desk')
    BY <1>e, <2>1, <2>2, CommandsKeepQuiet DEF Click, Buttons
  <2>4. QED
    BY <1>s, <2>3
<1>6. ASSUME NEW n \in Nodes, ClickTaskbar(n)
      PROVE  Orderly(desk') /\ Masked(desk') /\ Held'
  <2>1. desk' = CASE ended.windows[n] = Nothing -> ended
                  [] ended.active = n           -> Minimize(ended, ended.windows[n])
                  [] OTHER                      -> SetActive(ended, ended.windows[n])
    BY <1>6 DEF ClickTaskbar, ended
  <2>2. ended.windows[n] # Nothing => ended.windows[n] \in OnDesktop(ended)
    BY DEF OnDesktop
  <2>3. ended.active = n => ended.windows[n] # Nothing
    BY <1>e, WindowAssumption DEF Orderly, Linked, Shown, OnDesktop
  <2>4. Orderly(desk') /\ Quiet(desk')
    BY <1>e, <2>1, <2>2, <2>3, CommandsKeepQuiet
  <2>5. QED
    BY <1>s, <2>4
<1>7. ASSUME NEW n \in Nodes, OnConsoleLink(n)
      PROVE  Orderly(desk') /\ Masked(desk') /\ Held'
  <2>1. desk' = CreateWindow(ended, n, FALSE) /\ CanCreate(ended, n, FALSE)
    BY <1>7, <1>e DEF OnConsoleLink, CanCreate, ended
  <2>2. Orderly(desk') /\ Masked(desk') /\ desk'.dragging = ended.dragging
    BY <1>e, <2>1, CreateKeeps
  <2>3. QED
    BY <1>e, <2>2 DEF Quiet, Held
<1>8. ASSUME NEW n \in Nodes, HostMessage(n)
      PROVE  Orderly(desk') /\ Masked(desk') /\ Held'
  <2>1. desk' = CreateWindow(desk, n, TRUE) /\ CanCreate(desk, n, TRUE)
    BY <1>8 DEF HostMessage
  <2>2. Orderly(desk') /\ Masked(desk') /\ OnDesktop(desk') \ desk'.masked # {}
    BY <2>1, CreateKeeps
  <2>3. QED
    BY <2>2 DEF Held, OnDesktop
<1>9. CASE UNCHANGED desktop
  BY <1>9 DEF desktop, Held, OnDesktop
<1>10. QED
  BY <1>1, <1>2, <1>3, <1>4, <1>5, <1>6, <1>7, <1>8, <1>9 DEF DeskNext, MouseMoves, Buttons

\* The desktop is in order in every reachable state.
LEMMA DeskInvariance == DeskSpec => []DeskIInv
BY DeskInitKeeps, DeskStepKeeps, PTL DEF DeskSpec

\* In front of all windows is the active one, and the taskbar says so: for any
\* number of nodes and windows, whatever the user and the host do.
THEOREM OneWindow == DeskSpec => []OneWindowInFront
<1>1. DeskIInv => OneWindowInFront
  BY WindowAssumption DEF DeskIInv, Orderly, Linked, Sorted, Drawn, OneWindowInFront, FrontWindow, Shown, OnDesktop
<1>2. QED
  BY <1>1, DeskInvariance, PTL

\* Frames are masked only during a drag, and a drag outlives its button only
\* where a frame without a mask can have swallowed the release.
THEOREM MasksEnd == DeskSpec => []MasksEndWithDrags
<1>1. DeskIInv => MasksEndWithDrags
  BY DEF DeskIInv, Masked, Held, MasksEndWithDrags
<1>2. QED
  BY <1>1, DeskInvariance, PTL

-----------------------------------------------------------------------------
(* The windows with their pages *)

\* Whatever the pages in the frames and their sessions do, the desktop takes only
\* steps of the window manager: the composition implements it.
THEOREM ConsolesImplementDesktop == Spec => DeskSpec
<1>1. Init => DeskInit
  BY DEF Init
<1>2. [Next]_vars => [DeskNext]_desktop
  <2> SUFFICES ASSUME [Next]_vars
               PROVE  [DeskNext]_desktop
    OBVIOUS
  <2>1. CASE Mouse
    BY <2>1 DEF Mouse, Reload, DeskNext
  <2>2. ASSUME NEW n \in Nodes, Open(n)
        PROVE  DeskNext
    BY <2>2 DEF Open, DeskNext
  <2>3. CASE UNCHANGED desktop
    BY <2>3
  <2>4. CASE UNCHANGED vars
    BY <2>4 DEF vars
  <2>5. QED
    BY <2>1, <2>2, <2>3, <2>4 DEF Next
<1>3. QED
  BY <1>1, <1>2, PTL DEF Spec, DeskSpec

\* So the windows stay in order and the masks end with their drags while pages
\* load and sessions come and go, for any number of nodes, windows and pages.
THEOREM ConsolesAreOrderly == Spec => [](OneWindowInFront /\ MasksEndWithDrags)
BY ConsolesImplementDesktop, OneWindow, MasksEnd, PTL

-----------------------------------------------------------------------------
(* The consoles and their sessions *)

ShellsTyped ==
  /\ loads \in Nat
  /\ page \in [Shells!Sockets -> {"none", "asking", "open", "failed", "closed", "gone"}]
  /\ consoleOf \in [Shells!Sockets -> Nodes \cup {Nothing}]
  /\ handler \in [Shells!Sockets -> {"none", "resolving", "opening", "attached", "failed"}]
  /\ heard \in [Shells!Sockets -> Shells!Sockets \cup {Nothing}]
  /\ session \in [Shells!Sockets -> {"none", "writable", "ended", "closed"}]
  /\ table \in [Nodes -> Shells!Sockets \cup {Nothing}]
  /\ listeners \in [Shells!Sockets -> SUBSET Shells!Sockets]

\* A socket has no handler before its page has asked and has one once it is open, and
\* is neither closed nor has a session without one; a socket closed before its
\* handler listens is early.
Ages ==
  \A s \in Shells!Sockets :
    /\ s > loads => page[s] = "none"
    /\ page[s] \in {"none", "asking"} => handler[s] = "none"
    /\ handler[s] = "none" => session[s] = "none" /\ s \notin closing /\ page[s] # "open"
    /\ page[s] # "none" => consoleOf[s] \in Nodes
    /\ s \in closed => s \in closing
    /\ s \in early => s \in closed
    /\ s \in closed /\ handler[s] # "attached" => s \in early

\* A handler listens to the session it has got, and to no other.
Hears ==
  \A s, k \in Shells!Sockets :
    s \in listeners[k] <=> handler[s] = "attached" /\ heard[s] = k /\ (s \notin closed \/ s \in early)

\* Two sockets of one node.
Mates(k, s) == k # s /\ consoleOf[k] = consoleOf[s]

\* A writable session that was opened alone is the one the table knows, so no other
\* is being opened; and those that are opened at once are all noted.
Opens ==
  /\ \A k \in Shells!Sockets : session[k] = "writable" /\ k \notin together => table[consoleOf[k]] = k
  /\ \A k, s \in Shells!Sockets :
       Mates(k, s) /\ handler[s] = "opening" /\ (session[k] = "writable" \/ handler[k] = "opening")
         => k \in together

\* The part of the inductive invariant that is about the sockets and their sessions.
ShellsInv == ShellsTyped /\ Ages /\ Hears /\ Opens

\* Before the first page there is no socket, no session and no listener.
LEMMA ShellsStart == Init => ShellsInv
BY ConsolesAssumption DEF Init, Shells!ConsolesInit, ShellsInv, ShellsTyped, Ages, Hears, Opens, Mates, Shells!Sockets

\* Pages that go leave their handlers as they are, and a page that comes has none.
LEMMA NavigateKeeps ==
  ASSUME ShellsInv, NEW gone, NEW n \in Nodes \cup {Nothing}, Shells!Navigate(gone, n),
         \A s \in Shells!Sockets \cap gone : page[s] # "none"
  PROVE  ShellsInv' /\ \A s \in Shells!Sockets : page[s] # "none" => page'[s] # "none"
<1>1. /\ handler' = handler /\ heard' = heard /\ session' = session /\ table' = table
      /\ listeners' = listeners /\ closed' = closed /\ early' = early /\ together' = together
  BY DEF Shells!Navigate, Shells!service, Shells!sessions
<1>2. \A s \in Shells!Sockets : s \in closing' <=> s \in closing \/ (s \in gone /\ page[s] = "open")
  BY DEF Shells!Navigate
<1>t. /\ loads \in Nat
      /\ page \in [Shells!Sockets -> {"none", "asking", "open", "failed", "closed", "gone"}]
      /\ consoleOf \in [Shells!Sockets -> Nodes \cup {Nothing}]
  BY DEF ShellsInv, ShellsTyped
<1> DEFINE left == [s \in Shells!Sockets |-> IF s \in gone THEN "gone" ELSE page[s]]
<1>l. /\ left \in [Shells!Sockets -> {"none", "asking", "open", "failed", "closed", "gone"}]
      /\ \A s \in Shells!Sockets : left[s] = IF s \in gone THEN "gone" ELSE page[s]
  BY <1>t
<1>3. CASE n = Nothing
  <2>1. loads' = loads /\ consoleOf' = consoleOf /\ page' = left
    BY <1>3 DEF Shells!Navigate
  <2> HIDE DEF left
  <2>2. QED
    BY <1>1, <1>2, <1>t, <1>l, <2>1 DEF ShellsInv, ShellsTyped, Ages, Hears, Opens, Mates
<1>4. CASE n # Nothing
  <2> DEFINE next == loads + 1
  <2>1. /\ loads' = next /\ page' = [left EXCEPT ![next] = "asking"]
        /\ consoleOf' = [consoleOf EXCEPT ![next] = n]
        /\ next \in Shells!Sockets /\ next > loads
    BY <1>4, <1>t, ConsolesAssumption DEF Shells!Navigate, Shells!Sockets
  <2>2. page[next] = "none" /\ handler[next] = "none" /\ session[next] = "none" /\ n \in Nodes
    BY <1>4, <2>1 DEF ShellsInv, Ages
  <2>3. \A s \in Shells!Sockets : s > next => s > loads /\ s # next
    BY <1>t DEF Shells!Sockets
  <2>4. next \in Nat
    BY <1>t
  <2> HIDE DEF left, next
  <2>5. ShellsTyped'
    BY <1>1, <1>t, <1>l, <2>1, <2>4 DEF ShellsInv, ShellsTyped
  <2>6. /\ \A s \in Shells!Sockets : s # next => page'[s] = left[s] /\ consoleOf'[s] = consoleOf[s]
        /\ page'[next] = "asking" /\ consoleOf'[next] = n
    BY <1>t, <1>l, <2>1
  <2>7. Ages'
    BY <1>1, <1>2, <1>l, <2>1, <2>2, <2>3, <2>6 DEF ShellsInv, Ages
  <2>8. Hears' /\ Opens'
    BY <1>1, <2>2, <2>6 DEF ShellsInv, Hears, Opens, Mates
  <2>9. QED
    BY <1>l, <2>5, <2>6, <2>7, <2>8 DEF ShellsInv
<1> QED
  BY <1>3, <1>4

\* A page that is refused never had a handler.
LEMMA ContainerFailsKeeps ==
  ASSUME ShellsInv, NEW s \in Shells!Sockets, Shells!ContainerFails(s)
  PROVE  ShellsInv'
BY DEF Shells!ContainerFails, Shells!service, Shells!sessions, ShellsInv, ShellsTyped, Ages, Hears, Opens, Mates

\* A page whose socket is closed leaves its handler as it is.
LEMMA SocketClosesKeeps ==
  ASSUME ShellsInv, NEW s \in Shells!Sockets, Shells!SocketCloses(s)
  PROVE  ShellsInv'
BY DEF Shells!SocketCloses, Shells!service, Shells!sessions, ShellsInv, ShellsTyped, Ages, Hears, Opens, Mates

\* A page whose container is known gets the first handler of its socket.
LEMMA ConnectKeeps ==
  ASSUME ShellsInv, NEW s \in Shells!Sockets, Shells!Connect(s)
  PROVE  ShellsInv'
BY DEF Shells!Connect, Shells!sessions, ShellsInv, ShellsTyped, Ages, Hears, Opens, Mates

\* A handler that fails listens to nothing, and opens no shell any more.
LEMMA GetSessionFailsKeeps ==
  ASSUME ShellsInv, NEW s \in Shells!Sockets, Shells!GetSessionFails(s)
  PROVE  ShellsInv'
BY DEF Shells!GetSessionFails, Shells!browser, Shells!sessions, ShellsInv, ShellsTyped, Ages, Hears, Opens, Mates

\* The 'close' event takes the listeners of an attached handler, and marks the socket
\* of one that is not attached yet.
LEMMA SocketClosedKeeps ==
  ASSUME ShellsInv, NEW s \in Shells!Sockets, Shells!SocketClosed(s)
  PROVE  ShellsInv'
BY DEF Shells!SocketClosed, Shells!browser, Shells!sessions, ShellsInv, ShellsTyped, Ages, Hears, Opens, Mates

\* A session that ends is one less that is writable.
LEMMA SessionEndsKeeps ==
  ASSUME ShellsInv, NEW k \in Shells!Sockets, Shells!SessionEnds(k)
  PROVE  ShellsInv'
BY DEF Shells!SessionEnds, Shells!browser, ShellsInv, ShellsTyped, Ages, Hears, Opens, Mates

\* A session that is over closes the sockets of those that listen: each has a handler.
LEMMA SessionClosedKeeps ==
  ASSUME ShellsInv, NEW k \in Shells!Sockets, Shells!SessionClosed(k)
  PROVE  ShellsInv'
BY DEF Shells!SessionClosed, Shells!browser, ShellsInv, ShellsTyped, Ages, Hears, Opens, Mates

\* getSession takes the session of the table only while it is writable, and notes
\* which shells are opened at once: no writable one that was opened alone is missed.
LEMMA ResolvedKeeps ==
  ASSUME ShellsInv, NEW s \in Shells!Sockets, Shells!Resolved(s)
  PROVE  ShellsInv'
<1> DEFINE k == table[consoleOf[s]]
<1>1. handler[s] = "resolving" /\ page[s] \notin {"none", "asking"} /\ consoleOf[s] \in Nodes
  BY DEF Shells!Resolved, ShellsInv, Ages
<1>2. CASE k # Nothing /\ session[k] = "writable"
  <2>1. Shells!Attach(s, k) /\ UNCHANGED Shells!sessions
    BY <1>2 DEF Shells!Resolved
  <2>2. k \in Shells!Sockets
    BY <1>1, <1>2 DEF ShellsInv, ShellsTyped
  <2> HIDE DEF k
  <2>3. QED
    BY <1>1, <2>1, <2>2 DEF Shells!Attach, Shells!browser, Shells!sessions, ShellsInv, ShellsTyped, Ages, Hears, Opens, Mates
<1>3. CASE ~(k # Nothing /\ session[k] = "writable")
  <2>1. Shells!Open(s)
    BY <1>3 DEF Shells!Resolved
  <2> DEFINE others == {t \in Shells!Sockets : handler[t] = "opening" /\ consoleOf[t] = consoleOf[s]}
  <2>2. /\ handler' = [handler EXCEPT ![s] = "opening"]
        /\ UNCHANGED <<loads, page, consoleOf, heard, closing, closed, session, table, listeners, early>>
        /\ \A t \in Shells!Sockets : t \in together => t \in together'
        /\ \A t \in others : t \in together' /\ s \in together'
        /\ \A t \in Shells!Sockets : t \in together' => t \in together \/ t \in others \/ t = s
    BY <2>1 DEF Shells!Open, Shells!browser, Shells!sessions
  <2>3. ShellsTyped' /\ Ages' /\ Hears'
    BY <1>1, <2>2 DEF ShellsInv, ShellsTyped, Ages, Hears
  <2>4. handler \in [Shells!Sockets -> {"none", "resolving", "opening", "attached", "failed"}]
    BY DEF ShellsInv, ShellsTyped
  <2>5. ASSUME NEW t \in Shells!Sockets, Mates(t, s), session[t] = "writable"
        PROVE  t \in together
    <3>1. t \notin together => table[consoleOf[s]] = t
      BY <2>5 DEF ShellsInv, Opens, Mates
    <3>2. t # Nothing
      BY ConsolesAssumption DEF Shells!Sockets
    <3>3. QED
      BY <1>3, <2>5, <3>1, <3>2
  <2>6. Opens'
    BY <1>1, <2>2, <2>4, <2>5 DEF ShellsInv, Opens, Mates
  <2>7. QED
    BY <2>3, <2>6 DEF ShellsInv
<1>4. QED
  BY <1>2, <1>3

\* A shell that was opened alone becomes the one of the table, and nobody else's was.
LEMMA OpenedKeeps ==
  ASSUME ShellsInv, NEW s \in Shells!Sockets, Shells!Opened(s)
  PROVE  ShellsInv'
BY DEF Shells!Opened, Shells!Attach, Shells!browser, ShellsInv, ShellsTyped, Ages, Hears, Opens, Mates

\* With the table right, two writable sessions of a node were opened at once.
LEMMA Heard == ShellsInv => ConsolesHearTheirShell
BY DEF ConsolesHearTheirShell, Shells!ConsolesHearTheirShell, Shells!Attached, ShellsInv, ShellsTyped, Hears, Opens

\* Every step of a socket, and no page becomes one that was never loaded.
LEMMA SocketStepKeeps ==
  ASSUME ShellsInv, Shells!ConsolesNext
  PROVE  ShellsInv' /\ \A s \in Shells!Sockets : page[s] # "none" => page'[s] # "none"
<1>1. PICK s \in Shells!Sockets :
        Shells!Progress(s) \/ Shells!ContainerFails(s) \/ Shells!GetSessionFails(s) \/ Shells!SessionEnds(s)
  BY DEF Shells!ConsolesNext
<1>2. ShellsInv'
  BY <1>1, ContainerFailsKeeps, SocketClosesKeeps, ConnectKeeps, ResolvedKeeps, OpenedKeeps, GetSessionFailsKeeps,
     SocketClosedKeeps, SessionEndsKeeps, SessionClosedKeeps DEF Shells!Progress
<1>3. page' = page \/ \E p \in {"failed", "closed", "open"} : page' = [page EXCEPT ![s] = p]
  BY <1>1 DEF Shells!Progress, Shells!ContainerFails, Shells!SocketCloses, Shells!Connect, Shells!Resolved,
     Shells!Attach, Shells!Open, Shells!Opened, Shells!GetSessionFails, Shells!SocketClosed, Shells!SessionEnds,
     Shells!SessionClosed, Shells!browser
<1>4. QED
  BY <1>2, <1>3 DEF ShellsInv, ShellsTyped

\* In a frame is a page that was loaded.
Framed ==
  /\ frame \in [Windows -> Shells!Sockets \cup {Nothing}]
  /\ \A w \in Windows : frame[w] # Nothing => page[frame[w]] # "none"

\* The page that is loaded is that of the socket which comes next.
LEMMA LoadKeeps ==
  ASSUME ShellsInv, Framed, NEW w \in Windows, NEW n \in Nodes \cup {Nothing}, NEW ws \in SUBSET Windows,
         n # Nothing, Load(w, n, Pages(ws))
  PROVE  ShellsInv' /\ Framed'
<1>1. \A s \in Shells!Sockets \cap Pages(ws) : page[s] # "none"
  BY ConsolesAssumption DEF Framed, Pages, Shells!Sockets
<1>2. ShellsInv' /\ \A s \in Shells!Sockets : page[s] # "none" => page'[s] # "none"
  BY <1>1, NavigateKeeps DEF Load
<1> DEFINE next == loads + 1
<1>3. next \in Shells!Sockets /\ page'[next] = "asking" /\ frame' = [frame EXCEPT ![w] = next]
  BY ConsolesAssumption DEF Load, Shells!Navigate, Shells!Sockets, ShellsInv, ShellsTyped
<1> HIDE DEF next
<1>4. QED
  BY <1>2, <1>3 DEF Framed

\* Windows that come and go load and unload their pages.
LEMMA FramesKeep ==
  ASSUME ShellsInv, Framed, desk \in Desks, desk' \in Desks, Frames,
         \A w \in OnDesktop(desk') : desk'.nodeOf[w] # Nothing
  PROVE  ShellsInv' /\ Framed'
<1> DEFINE gone == OnDesktop(desk) \ OnDesktop(desk')
<1>1. OnDesktop(desk) \subseteq Windows /\ OnDesktop(desk') \subseteq Windows
  BY DEF OnDesktop, Desks
<1>2. ASSUME NEW w \in OnDesktop(desk'), Load(w, desk'.nodeOf[w], Pages(gone))
      PROVE  ShellsInv' /\ Framed'
  <2>1. w \in Windows /\ desk'.nodeOf[w] \in Nodes \cup {Nothing} /\ desk'.nodeOf[w] # Nothing
    BY <1>1 DEF Desks
  <2>2. gone \in SUBSET Windows
    BY <1>1
  <2> HIDE DEF gone
  <2>3. QED
    BY <1>2, <2>1, <2>2, LoadKeeps
<1>3. ASSUME Shells!Navigate(Pages(gone), Nothing), UNCHANGED frame
      PROVE  ShellsInv' /\ Framed'
  <2>1. \A s \in Shells!Sockets \cap Pages(gone) : page[s] # "none"
    BY <1>1, ConsolesAssumption DEF Framed, Pages, Shells!Sockets
  <2>2. ShellsInv' /\ \A s \in Shells!Sockets : page[s] # "none" => page'[s] # "none"
    BY <1>3, <2>1, NavigateKeeps
  <2>3. QED
    BY <1>3, <2>2 DEF Framed
<1>4. QED
  BY <1>2, <1>3 DEF Frames

\* Every window on the desktop is that of a node.
Laid == desk \in Desks /\ \A w \in OnDesktop(desk) : desk.nodeOf[w] # Nothing

\* The inductive invariant of the consoles in their windows.
ConsolesInv == ShellsInv /\ Framed

\* A step of the composition: its frames are those of windows that have a node.
LEMMA ConsolesStep ==
  ASSUME ConsolesInv, Laid, Laid', [Next]_vars
  PROVE  ConsolesInv'
<1>1. CASE Frames
  BY <1>1, FramesKeep DEF ConsolesInv, Laid
<1>2. CASE Reload
  <2> DEFINE w == pressed[1]
  <2>1. w \in OnDesktop(desk) /\ Load(w, desk.nodeOf[w], Pages({w}))
    BY <1>2 DEF Reload, MouseClick, Shown
  <2>2. w \in Windows /\ desk.nodeOf[w] \in Nodes \cup {Nothing} /\ desk.nodeOf[w] # Nothing
    BY <2>1 DEF Laid, Desks, OnDesktop
  <2> HIDE DEF w
  <2>3. {w} \in SUBSET Windows
    BY <2>2
  <2>4. QED
    BY <2>1, <2>2, <2>3, LoadKeeps DEF ConsolesInv
<1>3. CASE Shells!ConsolesNext /\ UNCHANGED frame
  BY <1>3, SocketStepKeeps DEF ConsolesInv, Framed
<1>4. CASE UNCHANGED vars
  BY <1>4 DEF vars, Shells!consoles, Shells!browser, Shells!service, Shells!sessions, ConsolesInv, Framed,
     ShellsInv, ShellsTyped, Ages, Hears, Opens, Mates
<1>5. QED
  BY <1>1, <1>2, <1>3, <1>4 DEF Next, Mouse, Open

\* At first no window has a page.
LEMMA ConsolesStart == Init => ConsolesInv
BY ShellsStart DEF Init, ConsolesInv, Framed

\* A desktop in order has no window without a node.
LEMMA OrderlyIsLaid == DeskIInv => Laid
BY WindowAssumption DEF DeskIInv, Orderly, Linked, Laid, OnDesktop

\* The inductive invariant of the consoles holds in every reachable state: who listens
\* to which session (socket-handler.ts), which session the table of the session manager
\* knows (session-manager.ts), and which page is in which frame (window-manager.ts).
THEOREM ConsolesInvariance == Spec => []ConsolesInv
<1>1. Spec => []Laid
  BY ConsolesImplementDesktop, DeskInvariance, OrderlyIsLaid, PTL
<1>2. ConsolesInv /\ Laid /\ Laid' /\ [Next]_vars => ConsolesInv'
  BY ConsolesStep
<1>3. QED
  BY <1>1, <1>2, ConsolesStart, PTL DEF Spec

\* A console listens to its session until its socket is closed and to no other, and
\* the consoles of a node share a shell unless two were opened at once: for any number
\* of nodes, windows and pages, however often they are loaded, left and loaded again.
THEOREM ConsolesHear == Spec => []ConsolesHearTheirShell
<1>1. ConsolesInv => ConsolesHearTheirShell
  BY Heard DEF ConsolesInv
<1>2. QED
  BY <1>1, ConsolesInvariance, PTL
=============================================================================
