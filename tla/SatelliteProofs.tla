--------------------------- MODULE SatelliteProofs ---------------------------
(***************************************************************************)
(* Theorems of the satellite map and of the service behind it, for any     *)
(* files, packets, tasks and nodes.                                        *)
(*                                                                         *)
(* SatelliteLinks: the active frame is the one of the time of the last     *)
(* watcher, and what is shown is that frame's (LinksInv).                  *)
(*                                                                         *)
(* TrafficPage: a handler of the player is a function, so each has a lemma *)
(* that it keeps PlayerInv; CaptureInv says which request has the right    *)
(* answer, FilesInv what can be under way while nothing has overlapped.    *)
(*                                                                         *)
(* TaskController: NoLostWakeup needs TypeOK to be inductive, as a task    *)
(* that is woken is the head of pending, hence a waiting one, hence not    *)
(* the one that returns; and unresolved is not empty while a task has      *)
(* written its command.                                                    *)
(***************************************************************************)
EXTENDS TaskController, SatelliteLinks, TrafficPage, ListsProofs
-----------------------------------------------------------------------------
(* The links of the satellite map *)

\* ---- The frames of a file are a list of frames.
LEMMA FramesAreFrames ==
  ASSUME NEW file \in Files
  PROVE  FramesOf(file) \in Seq(Frames)
<1> DEFINE At(r, g) == [start |-> file[r].timestamp + (g - 1) * file[r].interval,
                        stop |-> file[r].timestamp + g * file[r].interval,
                        update |-> file[r].links[g], request |-> r, group |-> g]
           Before(f, g) == \/ f.start < g.start
                           \/ f.start = g.start /\ f.request < g.request
                           \/ f.start = g.start /\ f.request = g.request /\ f.group < g.group
           Group(r) == {At(r, g) : g \in DOMAIN file[r].links}
           all == UNION {Group(r) : r \in DOMAIN file}
           R == {p \in all \X all : Before(p[1], p[2])}
<1>1. /\ Len(file) \in Nat /\ DOMAIN file = 1..Len(file)
      /\ \A r \in DOMAIN file : file[r] \in [timestamp : Times, interval : Nat, links : Seq(Updates)]
  BY LinksAssumption, LenProperties, ElementOfSeq DEF LinksAssumption
<1>2. ASSUME NEW r \in DOMAIN file
      PROVE  /\ r \in Nat /\ file[r].timestamp \in Nat /\ file[r].interval \in Nat
             /\ file[r].links \in Seq(Updates)
             /\ Len(file[r].links) \in Nat
             /\ DOMAIN file[r].links = 1..Len(file[r].links)
             /\ \A g \in DOMAIN file[r].links : g \in Nat \ {0} /\ file[r].links[g] \in Updates
  <2>a. file[r] \in [timestamp : Times, interval : Nat, links : Seq(Updates)] /\ r \in Nat
    BY <1>1
  <2>1. file[r].links \in Seq(Updates) /\ file[r].timestamp \in Nat /\ file[r].interval \in Nat /\ r \in Nat
    BY <2>a, LinksAssumption DEF LinksAssumption
  <2> QED
    BY <2>1, LenProperties, ElementOfSeq
<1>3. ASSUME NEW r \in DOMAIN file, NEW g \in DOMAIN file[r].links
      PROVE  At(r, g) \in Frames
  <2> DEFINE iv == file[r].interval
  <2>1. iv \in Nat /\ file[r].timestamp \in Nat /\ g \in Nat /\ g - 1 \in Nat
    BY <1>2
  <2> HIDE DEF iv
  <2>2. (g - 1) * iv \in Nat /\ g * iv \in Nat
    <3>1. \A a, b \in Nat : a * b \in Nat
      OBVIOUS
    <3> QED BY <2>1, <3>1
  <2>3. /\ file[r].timestamp + (g - 1) * iv \in Nat /\ file[r].timestamp + g * iv \in Nat
    BY <2>1, <2>2
  <2> QED
    BY <1>2, <2>1, <2>3 DEF Frames, iv
<1>4. \A x \in all : x \in Frames /\ \E r \in DOMAIN file : \E g \in DOMAIN file[r].links : x = At(r, g)
  BY <1>3
<1>5. IsFiniteSet(all)
  <2>1. ASSUME NEW r \in DOMAIN file PROVE IsFiniteSet(Group(r))
    <3> DEFINE groups == DOMAIN file[r].links
               of == [g \in groups |-> At(r, g)]
    <3>1. IsFiniteSet(groups)
      BY <1>2, FS_Interval
    <3>2. Group(r) = {of[g] : g \in groups}
      OBVIOUS
    <3> HIDE DEF groups, of, Group
    <3>3. IsFiniteSet({of[g] : g \in groups})
      BY <3>1, ImageIsFinite
    <3> QED
      BY <3>2, <3>3
  <2>2. IsFiniteSet(DOMAIN file)
    BY <1>1, FS_Interval
  <2> HIDE DEF Group
  <2> DEFINE of == [r \in DOMAIN file |-> Group(r)]
  <2>3. IsFiniteSet({of[r] : r \in DOMAIN file})
    <3> HIDE DEF of
    <3> QED BY <2>2, ImageIsFinite
  <2>4. {of[r] : r \in DOMAIN file} = {Group(r) : r \in DOMAIN file}
    OBVIOUS
  <2> QED
    BY <2>1, <2>3, <2>4, FS_UNION
<1>6. ASSUME NEW x \in all, NEW y \in all, x.request = y.request, x.group = y.group
      PROVE  x = y
  <2>1. PICK r \in DOMAIN file : \E g \in DOMAIN file[r].links : x = At(r, g)
    BY <1>4
  <2>2. PICK g \in DOMAIN file[r].links : x = At(r, g)
    BY <2>1
  <2>3. PICK s \in DOMAIN file : \E h \in DOMAIN file[s].links : y = At(s, h)
    BY <1>4
  <2>4. PICK h \in DOMAIN file[s].links : y = At(s, h)
    BY <2>3
  <2>5. x.request = r /\ x.group = g /\ y.request = s /\ y.group = h
    BY <2>2, <2>4
  <2> QED
    BY <1>6, <2>2, <2>4, <2>5
<1>7. \A x, y \in all : <<x, y>> \in R <=> Before(x, y)
  OBVIOUS
<1>8. Orders(R, all)
  <2>1. \A x \in all : x.start \in Nat /\ x.request \in Nat /\ x.group \in Nat
    BY <1>4 DEF Frames
  <2> HIDE DEF all, R
  <2> QED
    BY <1>6, <1>7, <2>1 DEF Orders
<1>9. FramesOf(file) = Enumeration(all, R)
  BY DEF FramesOf
<1> HIDE DEF R, all
<1>10. Cardinality(all) \in Nat /\ FramesOf(file) \in [1..Cardinality(all) -> all]
  BY <1>5, <1>8, <1>9, EnumerationIsOrdered
<1>11. FramesOf(file) \in [1..Cardinality(all) -> Frames]
  BY <1>4, <1>10
<1> QED
  BY <1>10, <1>11, FunctionIsList

\* The active frame is a frame, or there is none.
LEMMA ActiveIsAFrame ==
  ASSUME NEW frames \in Seq(Frames), NEW t
  PROVE  /\ ActiveFrame(frames, t) \in 0..Len(frames)
         /\ frames = <<>> => ActiveFrame(frames, t) = 0
<1> DEFINE due == {i \in DOMAIN frames : frames[i].start <= t /\ t < frames[i].stop}
<1>1. Len(frames) \in Nat /\ DOMAIN frames = 1..Len(frames)
  BY LenProperties
<1>2. due \in SUBSET (1..Len(frames))
  BY <1>1
<1>3. ActiveFrame(frames, t) = IF due = {} THEN 0 ELSE CHOOSE i \in due : \A j \in due : i >= j
  BY DEF ActiveFrame
<1>4. frames = <<>> => due = {}
  OBVIOUS
<1> HIDE DEF due
<1>5. CASE due = {}
  BY <1>1, <1>3, <1>5
<1>6. CASE due # {}
  <2>1. \E i \in due : \A j \in due : i >= j
    BY <1>1, <1>2, <1>6, LastPosition
  <2>2. ActiveFrame(frames, t) \in due
    BY <1>3, <1>6, <2>1
  <2>3. ActiveFrame(frames, t) \in 0..Len(frames)
    <3>1. ActiveFrame(frames, t) \in 1..Len(frames)
      BY <1>2, <2>2
    <3> QED
      BY <1>1, <3>1
  <2> QED
    BY <1>4, <1>6, <2>3
<1> QED
  BY <1>5, <1>6


\* What holds of the page at any time.
Coherent(p) ==
  /\ p \in Pages
  /\ p.active \in 0..Len(p.frames)
  /\ p.completed => p.active = 0
  /\ p.linked = SatellitesOf(p.ground)
  /\ p.selected \cap p.hiddenStations = {}

\* The map shows the active frame, without what was removed.
Shown(p) ==
  IF p.active = 0 \/ p.blank THEN p.ground = {} /\ p.isl = {}
  ELSE /\ p.ground = {l \in p.frames[p.active].update.ground : l[1] \notin p.hidden}
       /\ p.isl = {l \in p.frames[p.active].update.isl : l \cap p.hiddenIsl = {}}

\* From p to q, what was removed stays so, or the map begins anew.
Kept(p, q) ==
  \/ p.hidden \subseteq q.hidden /\ p.hiddenIsl \subseteq q.hiddenIsl
  \/ q.completed
  \/ q.active # 0 /\ IsFirst(q.frames[q.active])

LinksInv ==
  /\ LinksTypeOK
  /\ Coherent(page)
  /\ onMap => Shown(page)
  /\ onMap /\ ~watch => page.active = ActiveFrame(page.frames, now)

\* Emptying the map.
LEMMA EmptyKeeps ==
  ASSUME NEW p, Coherent(p)
  PROVE  LET q == EmitEmpty(p)
         IN  /\ Coherent(q)
             /\ q.ground = {} /\ q.isl = {}
             /\ q.frames = p.frames /\ q.active = p.active /\ q.completed = p.completed
             /\ q.hidden = p.hidden /\ q.hiddenIsl = p.hiddenIsl /\ q.blank = p.blank
<1> DEFINE q == EmitEmpty(p)
<1>1. p \in Pages
  BY DEF Coherent
<1>2. /\ q \in Pages
      /\ q.ground = {} /\ q.isl = {} /\ q.linked = {}
      /\ q.frames = p.frames /\ q.active = p.active /\ q.completed = p.completed
      /\ q.hidden = p.hidden /\ q.hiddenIsl = p.hiddenIsl /\ q.blank = p.blank
      /\ q.selected = p.selected /\ q.hiddenStations = p.hiddenStations
  BY <1>1 DEF EmitEmpty, Pages
<1> HIDE DEF q
<1>3. Coherent(q)
  BY <1>2 DEF Coherent, SatellitesOf
<1> QED
  BY <1>2, <1>3 DEF q

\* Showing the links of a frame.
LEMMA ShowKeeps ==
  ASSUME NEW p, Coherent(p), NEW update \in Updates
  PROVE  LET q == ShowLinks(p, update)
         IN  /\ Coherent(q)
             /\ q.ground = {l \in update.ground : l[1] \notin p.hidden}
             /\ q.isl = {l \in update.isl : l \cap p.hiddenIsl = {}}
             /\ q.frames = p.frames /\ q.active = p.active /\ q.completed = p.completed
             /\ q.hidden = p.hidden /\ q.hiddenIsl = p.hiddenIsl
<1> DEFINE q == ShowLinks(p, update)
           ground == {l \in update.ground : l[1] \notin p.hidden}
           isl == {l \in update.isl : l \cap p.hiddenIsl = {}}
           linked == SatellitesOf(ground)
           selected == p.selected \cup ({l[2] : l \in ground} \ p.hiddenStations)
<1>1. /\ ground \in SUBSET (Satellites \X Stations)
      /\ isl \in SUBSET (SUBSET Satellites)
  BY DEF Updates
<1> HIDE DEF isl, ground
<1>2. linked \in SUBSET Satellites /\ {l[2] : l \in ground} \subseteq Stations
  BY <1>1 DEF SatellitesOf
<1>3. p \in Pages /\ p.selected \subseteq Stations
  BY DEF Coherent, Pages
<1>4. selected \in SUBSET Stations /\ selected \cap p.hiddenStations = {}
  BY <1>2, <1>3 DEF Coherent
<1>5. q = [p EXCEPT !.ground = ground, !.linked = linked, !.isl = isl, !.selected = selected]
  BY DEF ShowLinks, ground, isl
<1> HIDE DEF linked, selected, q
<1>6. /\ q \in Pages
      /\ q.ground = ground /\ q.isl = isl /\ q.linked = linked
      /\ q.frames = p.frames /\ q.active = p.active /\ q.completed = p.completed
      /\ q.hidden = p.hidden /\ q.hiddenIsl = p.hiddenIsl
      /\ q.selected = selected /\ q.hiddenStations = p.hiddenStations
  BY <1>1, <1>2, <1>3, <1>4, <1>5 DEF Pages
<1>7. Coherent(q)
  BY <1>4, <1>6 DEF Coherent, linked
<1> QED
  BY <1>6, <1>7 DEF ground, isl, q

\* A frame that becomes active is shown.
LEMMA FrameKeeps ==
  ASSUME NEW p, Coherent(p), NEW i \in 1..Len(p.frames)
  PROVE  LET q == EmitFrame([p EXCEPT !.completed = FALSE, !.active = i], p.frames[i])
         IN  /\ Coherent(q) /\ Shown(q) /\ Kept(p, q)
             /\ q.frames = p.frames /\ q.active = i
<1> DEFINE frame == p.frames[i]
           p1 == [p EXCEPT !.completed = FALSE, !.active = i]
           p2 == IF IsFirst(frame)
                 THEN [p1 EXCEPT !.hidden = {}, !.hiddenIsl = {}, !.hiddenStations = {}] ELSE p1
           r == ShowLinks(p2, frame.update)
           q == EmitFrame(p1, frame)
<1>1. /\ p \in Pages /\ Len(p.frames) \in Nat /\ i \in Nat \ {0} /\ i \in 0..Len(p.frames)
      /\ p.linked = SatellitesOf(p.ground) /\ p.selected \cap p.hiddenStations = {}
  <2>1. p \in Pages /\ p.frames \in Seq(Frames)
    BY DEF Coherent, Pages
  <2>2. Len(p.frames) \in Nat
    BY <2>1, LenProperties
  <2> QED
    BY <2>1, <2>2 DEF Coherent
<1>2. frame.update \in Updates
  <2>1. frame \in Frames
    BY <1>1, ElementOfSeq DEF Pages
  <2> QED
    BY <2>1 DEF Frames
<1>3. /\ p2 \in Pages /\ p2.completed = FALSE /\ p2.active = i /\ p2.frames = p.frames
      /\ p2.linked = p.linked /\ p2.ground = p.ground /\ p2.selected = p.selected
      /\ \/ p2.hidden = p.hidden /\ p2.hiddenIsl = p.hiddenIsl
         \/ IsFirst(frame)
      /\ p2.hiddenStations \in {{}, p.hiddenStations}
  BY <1>1 DEF Pages
<1>4. q = [r EXCEPT !.blank = FALSE]
  BY DEF EmitFrame
<1> HIDE DEF p2, frame, q, r
<1>5. Coherent(p2)
  BY <1>1, <1>3 DEF Coherent
<1>6. /\ Coherent(r)
      /\ r.ground = {l \in frame.update.ground : l[1] \notin p2.hidden}
      /\ r.isl = {l \in frame.update.isl : l \cap p2.hiddenIsl = {}}
      /\ r.frames = p.frames /\ r.active = i
      /\ r.hidden = p2.hidden /\ r.hiddenIsl = p2.hiddenIsl
  BY <1>2, <1>3, <1>5, ShowKeeps DEF r
<1>7. r \in Pages
  BY <1>6 DEF Coherent
<1>8. /\ q \in Pages
      /\ q.ground = r.ground /\ q.isl = r.isl /\ q.linked = r.linked
      /\ q.frames = r.frames /\ q.active = r.active /\ q.completed = r.completed
      /\ q.hidden = r.hidden /\ q.hiddenIsl = r.hiddenIsl /\ q.blank = FALSE
      /\ q.selected = r.selected /\ q.hiddenStations = r.hiddenStations
  BY <1>4, <1>7 DEF Pages
<1>9. Coherent(q)
  BY <1>6, <1>8 DEF Coherent
<1>10. Shown(q)
  BY <1>1, <1>6, <1>8 DEF Shown, frame
<1>11. Kept(p, q)
  <2>1. CASE p2.hidden = p.hidden /\ p2.hiddenIsl = p.hiddenIsl
    BY <1>6, <1>8, <2>1 DEF Kept
  <2>2. CASE IsFirst(frame)
    BY <1>1, <1>6, <1>8, <2>2 DEF Kept, frame
  <2> QED
    BY <1>3, <2>1, <2>2
<1> QED
  BY <1>6, <1>8, <1>9, <1>10, <1>11 DEF q, frame

\* A gap of the timeline, and its end.
LEMMA GapKeeps ==
  ASSUME NEW p, Coherent(p)
  PROVE  LET q == EmitEmpty([p EXCEPT !.completed = FALSE, !.active = 0, !.blank = FALSE])
         IN  Coherent(q) /\ Shown(q) /\ Kept(p, q) /\ q.frames = p.frames /\ q.active = 0
<1> DEFINE r == [p EXCEPT !.completed = FALSE, !.active = 0, !.blank = FALSE]
           q == EmitEmpty(r)
<1>1. /\ p \in Pages /\ Len(p.frames) \in Nat
      /\ p.linked = SatellitesOf(p.ground) /\ p.selected \cap p.hiddenStations = {}
  <2>1. p \in Pages /\ p.frames \in Seq(Frames)
    BY DEF Coherent, Pages
  <2> QED
    BY <2>1, LenProperties DEF Coherent
<1>2. /\ r \in Pages /\ r.active = 0 /\ r.completed = FALSE /\ r.frames = p.frames
      /\ r.linked = p.linked /\ r.ground = p.ground
      /\ r.selected = p.selected /\ r.hiddenStations = p.hiddenStations
      /\ r.hidden = p.hidden /\ r.hiddenIsl = p.hiddenIsl
  BY <1>1 DEF Pages
<1> HIDE DEF r
<1>3. Coherent(r)
  BY <1>1, <1>2 DEF Coherent
<1>4. /\ Coherent(q) /\ q.ground = {} /\ q.isl = {} /\ q.frames = r.frames /\ q.active = 0
      /\ q.hidden = r.hidden /\ q.hiddenIsl = r.hiddenIsl
  BY <1>2, <1>3, EmptyKeeps
<1> HIDE DEF q
<1>5. Shown(q) /\ Kept(p, q)
  BY <1>2, <1>4 DEF Shown, Kept
<1> QED
  BY <1>2, <1>4, <1>5 DEF q, r

\* The end of the timeline removes every link and hides none.
LEMMA CompletedKeeps ==
  ASSUME NEW p, Coherent(p), p.completed, p.active = 0
  PROVE  LET q == EmitCompleted(p)
         IN  Coherent(q) /\ Shown(q) /\ q.completed /\ q.frames = p.frames /\ q.active = 0
<1> DEFINE r == EmitEmpty(p)
           q == EmitCompleted(p)
<1>1. /\ Coherent(r) /\ r.ground = {} /\ r.isl = {} /\ r.frames = p.frames /\ r.active = 0
      /\ r.completed
  BY EmptyKeeps
<1>2. q = [r EXCEPT !.hidden = {}, !.hiddenIsl = {}]
  BY DEF EmitCompleted
<1> HIDE DEF r, q
<1>3. r \in Pages
  BY <1>1 DEF Coherent
<1>4. /\ q \in Pages /\ q.active = 0 /\ q.completed = r.completed /\ q.frames = r.frames
      /\ q.linked = r.linked /\ q.ground = r.ground /\ q.isl = r.isl
      /\ q.selected = r.selected /\ q.hiddenStations = r.hiddenStations
  BY <1>1, <1>2, <1>3 DEF Pages
<1>5. Coherent(q)
  BY <1>1, <1>4 DEF Coherent
<1>6. Shown(q)
  BY <1>1, <1>4 DEF Shown
<1> QED
  BY <1>1, <1>4, <1>5, <1>6 DEF q

\* advanceTo: the frame of the time is the active one and is shown.
LEMMA AdvanceKeeps ==
  ASSUME NEW p, Coherent(p), Shown(p), NEW t
  PROVE  LET q == Advance(p, t)
         IN  /\ Coherent(q) /\ Shown(q) /\ Kept(p, q)
             /\ q.frames = p.frames /\ q.active = ActiveFrame(p.frames, t)
<1> DEFINE i == ActiveFrame(p.frames, t)
           r == [p EXCEPT !.completed = TRUE, !.active = 0, !.blank = FALSE]
<1>1. /\ p \in Pages /\ p.frames \in Seq(Frames) /\ Len(p.frames) \in Nat
      /\ p.completed \in BOOLEAN /\ p.active \in Nat
  BY LenProperties DEF Coherent, Pages
<1>2. i \in 0..Len(p.frames) /\ (p.frames = <<>> => i = 0)
  BY <1>1, ActiveIsAFrame
<1>3. Kept(p, p)
  BY DEF Kept
<1> HIDE DEF i
<1>4. CASE p.frames = <<>>
  <2>1. Advance(p, t) = p
    BY <1>4 DEF Advance
  <2>2. p.active = 0
    <3>1. Len(p.frames) = 0
      BY <1>4
    <3> QED
      BY <3>1 DEF Coherent
  <2> QED
    BY <1>2, <1>3, <1>4, <2>1, <2>2 DEF i
<1>5. CASE p.frames # <<>> /\ i > 0
  <2>1. CASE i = p.active
    <3>1. Advance(p, t) = p
      BY <1>5, <2>1 DEF Advance, i
    <3> QED
      BY <1>3, <2>1, <3>1 DEF i
  <2>2. CASE i # p.active
    <3>1. Advance(p, t) = EmitFrame([p EXCEPT !.completed = FALSE, !.active = i], p.frames[i])
      BY <1>5, <2>2 DEF Advance, i
    <3>2. i \in 1..Len(p.frames)
      BY <1>1, <1>2, <1>5
    <3> DEFINE q == EmitFrame([p EXCEPT !.completed = FALSE, !.active = i], p.frames[i])
    <3>3. Coherent(q) /\ Shown(q) /\ Kept(p, q) /\ q.frames = p.frames /\ q.active = i
      BY <3>2, FrameKeeps
    <3> HIDE DEF q
    <3> QED
      BY <3>1, <3>3 DEF i, q
  <2> QED
    BY <2>1, <2>2
<1>6. CASE p.frames # <<>> /\ i = 0 /\ t >= Last(p.frames).stop
  <2>1. CASE p.completed
    <3>1. Advance(p, t) = p
      BY <1>6, <2>1 DEF Advance, i
    <3>2. p.active = 0
      BY <2>1 DEF Coherent
    <3> QED
      BY <1>3, <1>6, <3>1, <3>2 DEF i
  <2>2. CASE ~p.completed
    <3>1. Advance(p, t) = EmitCompleted(r)
      BY <1>6, <2>2 DEF Advance, i
    <3>2. /\ r \in Pages /\ r.active = 0 /\ r.completed = TRUE /\ r.frames = p.frames
          /\ r.linked = p.linked /\ r.ground = p.ground
          /\ r.selected = p.selected /\ r.hiddenStations = p.hiddenStations
      BY <1>1 DEF Pages
    <3> HIDE DEF r
    <3>3. Coherent(r)
      BY <1>1, <3>2 DEF Coherent
    <3> DEFINE q == Advance(p, t)
    <3>4. Coherent(q) /\ Shown(q) /\ q.completed /\ q.frames = p.frames /\ q.active = 0
      BY <3>1, <3>2, <3>3, CompletedKeeps
    <3> HIDE DEF q
    <3>5. Kept(p, q)
      BY <3>4 DEF Kept
    <3> QED
      BY <1>6, <3>4, <3>5 DEF i, q
  <2> QED
    BY <2>1, <2>2
<1>7. CASE p.frames # <<>> /\ i = 0 /\ ~(t >= Last(p.frames).stop)
  <2>1. CASE p.active # 0 \/ p.completed
    <3>1. Advance(p, t) = EmitEmpty([p EXCEPT !.completed = FALSE, !.active = 0, !.blank = FALSE])
      BY <1>7, <2>1 DEF Advance, i
    <3> QED
      BY <1>7, <3>1, GapKeeps DEF i
  <2>2. CASE ~(p.active # 0 \/ p.completed)
    <3>1. Advance(p, t) = p
      BY <1>7, <2>2 DEF Advance, i
    <3> QED
      BY <1>3, <1>7, <2>2, <3>1 DEF i
  <2> QED
    BY <2>1, <2>2
<1>8. i = 0 \/ i > 0
  BY <1>1, <1>2
<1> QED
  BY <1>4, <1>5, <1>6, <1>7, <1>8

\* A file that replaces the timeline, cannot be used, or has no frames.
LEMMA ScheduleKeeps ==
  ASSUME LinksInv, NEW file \in Files, ScheduleLinkUpdates(file)
  PROVE  /\ Coherent(page') /\ (onMap => Shown(page')) /\ Kept(page, page')
         /\ \/ watch' = TRUE /\ now' \in Nat
            \/ /\ watch' = watch /\ now' = now
               /\ onMap /\ ~watch => page'.active = ActiveFrame(page'.frames, now)
<1> DEFINE emptied == EmitEmpty(page)
           frames == FramesOf(file)
<1>1. frames \in Seq(Frames) /\ Len(frames) \in Nat
  BY FramesAreFrames, LenProperties
<1>2. /\ Coherent(emptied) /\ emptied.ground = {} /\ emptied.isl = {}
      /\ emptied.frames = page.frames /\ emptied.active = page.active
      /\ emptied.completed = page.completed
      /\ emptied.hidden = page.hidden /\ emptied.hiddenIsl = page.hiddenIsl
  BY EmptyKeeps DEF LinksInv
<1>3. CASE \E r \in DOMAIN file : file[r].interval = 0
  <2>1. page' = [emptied EXCEPT !.blank = TRUE] /\ watch' = watch /\ now' = now
    BY <1>3 DEF ScheduleLinkUpdates
  <2> HIDE DEF emptied
  <2>2. emptied \in Pages
    BY <1>2 DEF Coherent
  <2>3. /\ page' \in Pages /\ page'.ground = {} /\ page'.isl = {} /\ page'.blank
        /\ page'.linked = emptied.linked /\ page'.selected = emptied.selected
        /\ page'.hiddenStations = emptied.hiddenStations
        /\ page'.frames = page.frames /\ page'.active = page.active
        /\ page'.completed = page.completed
        /\ page'.hidden = page.hidden /\ page'.hiddenIsl = page.hiddenIsl
    BY <1>2, <2>1, <2>2 DEF Pages
  <2>4. Coherent(page')
    BY <1>2, <2>3 DEF Coherent
  <2>5. Shown(page') /\ Kept(page, page')
    BY <2>3 DEF Shown, Kept
  <2> QED
    BY <2>1, <2>3, <2>4, <2>5 DEF LinksInv
<1>4. CASE (\A r \in DOMAIN file : file[r].interval # 0) /\ frames = <<>>
  <2> DEFINE cleared == [emptied EXCEPT !.frames = <<>>, !.active = 0, !.completed = TRUE]
  <2>1. page' = EmitCompleted(cleared) /\ watch' = watch /\ now' = now
    BY <1>4 DEF ScheduleLinkUpdates, ClearTimeline
  <2> HIDE DEF emptied
  <2>2. emptied \in Pages
    BY <1>2 DEF Coherent
  <2>3. /\ cleared \in Pages /\ cleared.active = 0 /\ cleared.frames = <<>> /\ cleared.completed
        /\ cleared.linked = emptied.linked /\ cleared.ground = emptied.ground
        /\ cleared.selected = emptied.selected
        /\ cleared.hiddenStations = emptied.hiddenStations
    <3>1. <<>> \in Seq(Frames)
      OBVIOUS
    <3> QED
      BY <2>2, <3>1 DEF Pages
  <2> HIDE DEF cleared
  <2>4. Coherent(cleared)
    <3>1. emptied.linked = SatellitesOf(emptied.ground) /\ emptied.selected \cap emptied.hiddenStations = {}
      BY <1>2 DEF Coherent
    <3>2. cleared.active \in 0..Len(cleared.frames)
      <4>1. Len(cleared.frames) = 0
        BY <2>3
      <4> QED
        BY <2>3, <4>1
    <3> QED
      BY <2>3, <3>1, <3>2 DEF Coherent
  <2>5. Coherent(page') /\ Shown(page') /\ page'.completed /\ page'.frames = <<>> /\ page'.active = 0
    BY <2>1, <2>3, <2>4, CompletedKeeps
  <2>6. ActiveFrame(page'.frames, now) = 0
    <3>1. <<>> \in Seq(Frames)
      OBVIOUS
    <3> QED
      BY <2>5, <3>1, ActiveIsAFrame
  <2>7. Kept(page, page')
    BY <2>5 DEF Kept
  <2> QED
    BY <2>1, <2>5, <2>6, <2>7
<1>5. CASE (\A r \in DOMAIN file : file[r].interval # 0) /\ frames # <<>>
  <2> DEFINE timeline == [emptied EXCEPT !.frames = frames, !.active = 0, !.completed = FALSE]
             t == frames[1].start
  <2>1. page' = Advance(timeline, t) /\ watch' = TRUE /\ now' = t
    BY <1>5 DEF ScheduleLinkUpdates
  <2>2. t \in Nat
    <3> HIDE DEF frames
    <3>1. 1 \in 1..Len(frames)
      BY <1>1, <1>5, EmptySeq
    <3>2. frames[1] \in Frames
      BY <1>1, <3>1, ElementOfSeq
    <3> QED
      BY <3>2 DEF Frames
  <2> HIDE DEF emptied, frames, t
  <2>3. emptied \in Pages
    BY <1>2 DEF Coherent
  <2>4. /\ timeline \in Pages /\ timeline.active = 0 /\ timeline.frames = frames
        /\ timeline.completed = FALSE
        /\ timeline.linked = emptied.linked
        /\ timeline.ground = emptied.ground /\ timeline.isl = emptied.isl
        /\ timeline.selected = emptied.selected
        /\ timeline.hiddenStations = emptied.hiddenStations
        /\ timeline.hidden = emptied.hidden /\ timeline.hiddenIsl = emptied.hiddenIsl
    BY <1>1, <2>3 DEF Pages
  <2> HIDE DEF timeline
  <2>5. Coherent(timeline)
    <3>1. emptied.linked = SatellitesOf(emptied.ground) /\ emptied.selected \cap emptied.hiddenStations = {}
      BY <1>2 DEF Coherent
    <3>2. timeline.active \in 0..Len(timeline.frames)
      BY <1>1, <2>4
    <3> QED
      BY <2>4, <3>1, <3>2 DEF Coherent
  <2>6. Shown(timeline)
    BY <1>2, <2>4 DEF Shown
  <2>7. Coherent(page') /\ Shown(page') /\ Kept(timeline, page')
    BY <2>1, <2>5, <2>6, AdvanceKeeps
  <2>8. Kept(page, page')
    BY <1>2, <2>4, <2>7 DEF Kept
  <2> QED
    BY <2>1, <2>2, <2>7, <2>8
<1> QED
  BY <1>3, <1>4, <1>5

\* What the user removes.
LEMMA RemoveKeeps ==
  ASSUME LinksInv, NEW s \in Satellites, RemoveSatellite(s)
  PROVE  /\ Coherent(page') /\ Shown(page') /\ Kept(page, page')
         /\ page'.frames = page.frames /\ page'.active = page.active
<1> DEFINE p == IF s \in page.linked
                THEN [page EXCEPT !.hidden = @ \cup {s}, !.linked = @ \ {s}, !.ground = {l \in @ : l[1] # s}]
                ELSE page
<1>1. /\ Coherent(page) /\ page \in Pages /\ Shown(page)
      /\ page.linked = SatellitesOf(page.ground) /\ page.active \in Nat
  BY DEF LinksInv, Coherent, Pages, RemoveSatellite
<1>2. /\ p \in Pages
      /\ p.frames = page.frames /\ p.active = page.active /\ p.completed = page.completed
      /\ p.selected = page.selected /\ p.hiddenStations = page.hiddenStations
      /\ p.isl = page.isl /\ p.hiddenIsl = page.hiddenIsl /\ p.blank = page.blank
      /\ page.hidden \subseteq p.hidden
  BY <1>1 DEF Pages
<1>3. p.linked = SatellitesOf(p.ground)
  <2>1. CASE s \in page.linked
    <3>1. p.linked = page.linked \ {s} /\ p.ground = {l \in page.ground : l[1] # s}
      BY <1>1, <2>1 DEF Pages
    <3> HIDE DEF p
    <3> QED
      BY <1>1, <3>1 DEF SatellitesOf
  <2>2. CASE s \notin page.linked
    BY <1>1, <2>2
  <2> QED
    BY <2>1, <2>2
<1>4. IF page.active = 0 \/ page.blank THEN p.ground = {}
      ELSE p.ground = {l \in page.frames[page.active].update.ground : l[1] \notin p.hidden}
  <2>1. CASE s \in page.linked
    <3>1. p.hidden = page.hidden \cup {s} /\ p.ground = {l \in page.ground : l[1] # s}
      BY <1>1, <2>1 DEF Pages
    <3> HIDE DEF p
    <3> QED
      BY <1>1, <3>1 DEF Shown
  <2>2. CASE s \notin page.linked
    BY <1>1, <2>2 DEF Shown
  <2> QED
    BY <2>1, <2>2
<1>5. page' = IF \E l \in p.isl : s \in l
              THEN [p EXCEPT !.hiddenIsl = @ \cup {s}, !.isl = {l \in @ : s \notin l}] ELSE p
  BY DEF RemoveSatellite
<1> HIDE DEF p
<1>6. /\ page' \in Pages
      /\ page'.frames = p.frames /\ page'.active = p.active /\ page'.completed = p.completed
      /\ page'.selected = p.selected /\ page'.hiddenStations = p.hiddenStations
      /\ page'.ground = p.ground /\ page'.hidden = p.hidden /\ page'.linked = p.linked
      /\ page'.blank = p.blank
      /\ p.hiddenIsl \subseteq page'.hiddenIsl
  BY <1>2, <1>5 DEF Pages
<1>7. IF page.active = 0 \/ page.blank THEN page'.isl = {}
      ELSE page'.isl = {l \in page.frames[page.active].update.isl : l \cap page'.hiddenIsl = {}}
  <2>1. CASE \E l \in p.isl : s \in l
    <3>1. page'.hiddenIsl = page.hiddenIsl \cup {s} /\ page'.isl = {l \in page.isl : s \notin l}
      BY <1>2, <1>5, <2>1 DEF Pages
    <3> QED
      BY <1>1, <3>1 DEF Shown
  <2>2. CASE ~ \E l \in p.isl : s \in l
    BY <1>1, <1>2, <1>5, <2>2 DEF Shown
  <2> QED
    BY <2>1, <2>2
<1>8. Coherent(page')
  BY <1>1, <1>2, <1>3, <1>6 DEF Coherent
<1>9. Shown(page')
  BY <1>2, <1>4, <1>6, <1>7 DEF Shown
<1>10. Kept(page, page')
  BY <1>2, <1>6 DEF Kept
<1> QED
  BY <1>2, <1>6, <1>8, <1>9, <1>10

\* Removing all stations leaves the frames and what they would show.
LEMMA RemoveAllKeeps ==
  ASSUME LinksInv, RemoveAll
  PROVE  /\ Coherent(page') /\ Shown(page') /\ Kept(page, page')
         /\ page'.frames = page.frames /\ page'.active = page.active
<1>1. /\ Coherent(page) /\ page \in Pages /\ Shown(page)
      /\ page.linked = SatellitesOf(page.ground) /\ page.frames \in Seq(Frames)
  BY DEF LinksInv, Coherent, Pages, RemoveAll
<1>2. /\ page' \in Pages
      /\ page'.frames = page.frames /\ page'.active = page.active /\ page'.completed = page.completed
      /\ page'.selected = page.selected /\ page'.hiddenStations = page.hiddenStations
      /\ page'.ground = {} /\ page'.isl = {} /\ page'.linked = {} /\ page'.blank = page.blank
      /\ page'.hidden = page.hidden \cup page.linked
      /\ page'.hiddenIsl = page.hiddenIsl \cup UNION page.isl
  BY <1>1 DEF Pages, RemoveAll
<1>3. Coherent(page')
  BY <1>1, <1>2 DEF Coherent, SatellitesOf
<1>4. ASSUME page.active # 0, ~page.blank,
             NEW u, u = page.frames[page.active].update
      PROVE  /\ {l \in u.ground : l[1] \notin page'.hidden} = {}
             /\ {l \in u.isl : l \cap page'.hiddenIsl = {}} = {}
  <2>1. u \in Updates
    <3>1. Len(page.frames) \in Nat /\ page.active \in 1..Len(page.frames)
      BY <1>1, <1>4, LenProperties DEF Coherent
    <3>2. page.frames[page.active] \in Frames
      BY <1>1, <3>1, ElementOfSeq
    <3> QED
      BY <1>4, <3>2 DEF Frames
  <2>2. /\ page.ground = {l \in u.ground : l[1] \notin page.hidden}
        /\ page.isl = {l \in u.isl : l \cap page.hiddenIsl = {}}
    BY <1>1, <1>4 DEF Shown
  <2>3. \A l \in u.isl : l # {}
    BY <2>1 DEF Updates
  <2>4. {l \in u.ground : l[1] \notin page'.hidden} = {}
    BY <1>1, <1>2, <2>2 DEF SatellitesOf
  <2>5. ASSUME NEW l \in u.isl, l \cap page'.hiddenIsl = {} PROVE FALSE
    <3>1. l \cap page.hiddenIsl = {} /\ l \cap UNION page.isl = {}
      BY <1>2, <2>5
    <3>2. l \in page.isl
      BY <2>2, <3>1
    <3> QED
      BY <2>3, <3>1, <3>2
  <2> QED
    BY <2>4, <2>5
<1>5. Shown(page')
  BY <1>2, <1>4 DEF Shown
<1>6. Kept(page, page')
  BY <1>2 DEF Kept
<1> QED
  BY <1>2, <1>3, <1>5, <1>6

\* A selection changes what is shown of the links, not the links.
LEMMA SelectKeeps ==
  ASSUME LinksInv, NEW stations \in SUBSET Stations, SelectStations(stations)
  PROVE  /\ Coherent(page') /\ Shown(page') /\ Kept(page, page')
         /\ page'.frames = page.frames /\ page'.active = page.active
<1>1. /\ Coherent(page) /\ page \in Pages /\ Shown(page)
  BY DEF LinksInv, Coherent, SelectStations
<1>2. /\ page' \in Pages
      /\ page'.frames = page.frames /\ page'.active = page.active /\ page'.completed = page.completed
      /\ page'.ground = page.ground /\ page'.isl = page.isl /\ page'.linked = page.linked
      /\ page'.hidden = page.hidden /\ page'.hiddenIsl = page.hiddenIsl /\ page'.blank = page.blank
      /\ page'.selected = stations
      /\ page'.hiddenStations = (page.hiddenStations \cup page.selected) \ stations
  BY <1>1 DEF Pages, SelectStations
<1>3. page'.selected \cap page'.hiddenStations = {}
  BY <1>2
<1>4. Coherent(page')
  BY <1>1, <1>2, <1>3 DEF Coherent
<1>5. Shown(page') /\ Kept(page, page')
  BY <1>1, <1>2 DEF Shown, Kept
<1> QED
  BY <1>2, <1>4, <1>5

\* Leaving the map ends the timeline.
LEMMA LeaveKeeps ==
  ASSUME LinksInv, LeaveMap
  PROVE  Coherent(page') /\ Kept(page, page')
<1>1. Coherent(page) /\ page \in Pages
  BY DEF LinksInv, Coherent
<1>2. <<>> \in Seq(Frames)
  OBVIOUS
<1>3. /\ page' \in Pages
      /\ page'.frames = <<>> /\ page'.active = 0 /\ page'.completed
      /\ page'.ground = page.ground /\ page'.linked = page.linked
      /\ page'.selected = page.selected /\ page'.hiddenStations = page.hiddenStations
  BY <1>1, <1>2 DEF Pages, LeaveMap, ClearTimeline
<1>4. page'.active \in 0..Len(page'.frames)
  <2>1. Len(page'.frames) = 0
    BY <1>3
  <2> QED
    BY <1>3, <2>1
<1>5. Coherent(page')
  BY <1>1, <1>3, <1>4 DEF Coherent
<1> QED
  BY <1>3, <1>5 DEF Kept

\* One step of the page, the service or the user.
LEMMA LinksStep ==
  ASSUME LinksInv, LinksNext
  PROVE  LinksInv' /\ Kept(page, page')
<1>1. /\ LinksTypeOK /\ Coherent(page) /\ (onMap => Shown(page))
      /\ (onMap /\ ~watch => page.active = ActiveFrame(page.frames, now))
  BY DEF LinksInv
<1>2. /\ page \in Pages /\ page.active \in 0..Len(page.frames)
      /\ watch \in BOOLEAN /\ loading \in BOOLEAN /\ onMap \in BOOLEAN
      /\ now \in Nat /\ socket \in {"none", "open", "closed"}
      /\ sent \in Seq(Files) /\ Len(sent) \in Nat /\ Len(sent) <= MaxSent /\ MaxSent \in Nat
      /\ Times \subseteq Nat
  BY <1>1, LinksAssumption, LenProperties DEF LinksTypeOK, LinksAssumption
<1>3. /\ <<>> \in Seq(Files) /\ Len(<<>>) <= MaxSent
  BY <1>2
<1>4. ASSUME Coherent(page'), watch' \in BOOLEAN, loading' \in BOOLEAN, onMap' \in BOOLEAN,
             now' \in Nat, socket' \in {"none", "open", "closed"},
             sent' \in Seq(Files), Len(sent') <= MaxSent
      PROVE  LinksTypeOK'
  BY <1>4 DEF LinksTypeOK, Coherent
<1>5. Kept(page, page)
  BY DEF Kept
<1>6. CASE Connect
  BY <1>1, <1>2, <1>4, <1>5, <1>6 DEF Connect, LinksInv
<1>7. ASSUME NEW f \in Files, PostLinks(f) PROVE LinksInv' /\ Kept(page, page')
  <2>1. sent' \in Seq(Files) /\ Len(sent') = Len(sent) + 1 /\ Len(sent) < MaxSent
    BY <1>2, <1>7, AppendProperties DEF PostLinks
  <2>2. Len(sent') <= MaxSent
    BY <1>2, <2>1
  <2> QED
    BY <1>1, <1>2, <1>4, <1>5, <1>7, <2>1, <2>2 DEF PostLinks, LinksInv
<1>8. CASE Message
  <2> DEFINE file == Head(sent)
  <2>1. file \in Files /\ sent' \in Seq(Files) /\ Len(sent') = Len(sent) - 1
    BY <1>2, <1>8, HeadTailProperties DEF Message
  <2>2. Len(sent') <= MaxSent
    BY <1>2, <2>1
  <2>3. ScheduleLinkUpdates(file) /\ UNCHANGED <<socket, loading, onMap>>
    BY <1>8 DEF Message
  <2> HIDE DEF file
  <2>4. /\ Coherent(page') /\ (onMap => Shown(page')) /\ Kept(page, page')
        /\ \/ watch' = TRUE /\ now' \in Nat
           \/ /\ watch' = watch /\ now' = now
              /\ onMap /\ ~watch => page'.active = ActiveFrame(page'.frames, now)
    BY <2>1, <2>3, ScheduleKeeps
  <2>5. LinksTypeOK'
    BY <1>2, <1>4, <2>1, <2>2, <2>3, <2>4
  <2> QED
    BY <2>3, <2>4, <2>5 DEF LinksInv
<1>9. CASE SocketCloses
  BY <1>1, <1>2, <1>3, <1>4, <1>5, <1>9 DEF SocketCloses, LinksInv
<1>10. ASSUME NEW t \in Times, SetTime(t) PROVE LinksInv' /\ Kept(page, page')
  BY <1>1, <1>2, <1>4, <1>5, <1>10 DEF SetTime, LinksInv
<1>11. CASE WatchNow
  <2>1. onMap /\ page' = Advance(page, now) /\ UNCHANGED <<now, socket, sent, loading, onMap>> /\ watch' = FALSE
    BY <1>11 DEF WatchNow
  <2>2. /\ Coherent(page') /\ Shown(page') /\ Kept(page, page')
        /\ page'.frames = page.frames /\ page'.active = ActiveFrame(page.frames, now)
    BY <1>1, <2>1, AdvanceKeeps
  <2>3. LinksTypeOK'
    BY <1>2, <1>4, <2>1, <2>2
  <2> QED
    BY <2>1, <2>2, <2>3 DEF LinksInv
<1>12. ASSUME NEW s \in Satellites, RemoveSatellite(s) PROVE LinksInv' /\ Kept(page, page')
  <2>1. UNCHANGED <<now, watch, socket, sent, loading, onMap>>
    BY <1>12 DEF RemoveSatellite
  <2>2. /\ Coherent(page') /\ Shown(page') /\ Kept(page, page')
        /\ page'.frames = page.frames /\ page'.active = page.active
    BY <1>12, RemoveKeeps
  <2>3. LinksTypeOK'
    BY <1>2, <1>4, <2>1, <2>2
  <2> QED
    BY <1>1, <2>1, <2>2, <2>3 DEF LinksInv
<1>13. CASE RemoveAll
  <2>1. UNCHANGED <<now, watch, socket, sent, loading, onMap>>
    BY <1>13 DEF RemoveAll
  <2>2. /\ Coherent(page') /\ Shown(page') /\ Kept(page, page')
        /\ page'.frames = page.frames /\ page'.active = page.active
    BY <1>13, RemoveAllKeeps
  <2>3. LinksTypeOK'
    BY <1>2, <1>4, <2>1, <2>2
  <2> QED
    BY <1>1, <2>1, <2>2, <2>3 DEF LinksInv
<1>14. ASSUME NEW stations \in SUBSET Stations, SelectStations(stations)
       PROVE  LinksInv' /\ Kept(page, page')
  <2>1. UNCHANGED <<now, watch, socket, sent, loading, onMap>>
    BY <1>14 DEF SelectStations
  <2>2. /\ Coherent(page') /\ Shown(page') /\ Kept(page, page')
        /\ page'.frames = page.frames /\ page'.active = page.active
    BY <1>14, SelectKeeps
  <2>3. LinksTypeOK'
    BY <1>2, <1>4, <2>1, <2>2
  <2> QED
    BY <1>1, <2>1, <2>2, <2>3 DEF LinksInv
<1>15. CASE LeaveMap
  <2>1. /\ onMap' = FALSE /\ socket' \in {"none", "open", "closed"} /\ sent' = <<>> /\ watch' = FALSE
        /\ now' = now /\ loading' = loading
    BY <1>2, <1>15 DEF LeaveMap
  <2>2. Coherent(page') /\ Kept(page, page')
    BY <1>15, LeaveKeeps
  <2>3. LinksTypeOK'
    BY <1>2, <1>3, <1>4, <2>1, <2>2
  <2> QED
    BY <2>1, <2>2, <2>3 DEF LinksInv
<1> QED
  BY <1>6, <1>7, <1>8, <1>9, <1>10, <1>11, <1>12, <1>13, <1>14, <1>15 DEF LinksNext

\* The page begins without a timeline.
LEMMA LinksStart ==
  LinksInit => LinksInv
<1> SUFFICES ASSUME LinksInit PROVE LinksInv
  OBVIOUS
<1>1. <<>> \in Seq(Frames) /\ <<>> \in Seq(Files) /\ Len(<<>>) = 0
  OBVIOUS
<1>2. /\ page = Fresh /\ now \in Nat /\ watch = FALSE /\ socket = "none" /\ sent = <<>>
      /\ loading = TRUE /\ onMap = TRUE /\ MaxSent \in Nat
  BY LinksAssumption DEF LinksInit, LinksAssumption
<1>3. /\ page \in Pages /\ page.active = 0 /\ page.frames = <<>>
      /\ page.linked = {} /\ page.ground = {} /\ page.isl = {} /\ page.selected = {}
  BY <1>1, <1>2 DEF Fresh, Pages
<1>4. page.active \in 0..Len(page.frames)
  BY <1>1, <1>3
<1>5. Coherent(page) /\ Shown(page)
  BY <1>3, <1>4 DEF Coherent, Shown, SatellitesOf
<1>6. ActiveFrame(page.frames, now) = 0
  BY <1>1, <1>3, ActiveIsAFrame
<1>7. LinksTypeOK
  <2>1. sent \in Seq(Files) /\ Len(sent) <= MaxSent
    BY <1>1, <1>2
  <2>2. {watch, loading, onMap} \subseteq BOOLEAN
    BY <1>2
  <2> QED
    BY <1>2, <1>3, <1>4, <2>1, <2>2 DEF LinksTypeOK
<1> QED
  BY <1>3, <1>5, <1>6, <1>7 DEF LinksInv

\* The inductive invariant of the link timeline holds in every reachable state:
\* the links of the page are those of the frame that is due, whatever was selected
\* or removed in between (satelliteDataSource.ts).
THEOREM LinksInvariance ==
  LinksSpec => []LinksInv
<1>1. LinksInv /\ [LinksNext]_linksVars => LinksInv'
  <2>1. ASSUME LinksInv, UNCHANGED linksVars PROVE LinksInv'
    BY <2>1 DEF LinksInv, LinksTypeOK, linksVars
  <2> QED
    BY <2>1, LinksStep
<1> QED
  BY <1>1, LinksStart, PTL DEF LinksSpec

\* Type correctness and LinksAreCurrent: whatever the files, and however messages,
\* the clock and removals follow one another, once the watcher has run the map
\* shows the links of the last frame that is due, without what was removed.
THEOREM MapFollowsTimeline ==
  LinksSpec => []LinksAreCurrent
<1>1. LinksInv => LinksAreCurrent
  <2> SUFFICES ASSUME LinksInv PROVE LinksAreCurrent
    OBVIOUS
  <2>1. /\ LinksTypeOK /\ page.linked = SatellitesOf(page.ground)
        /\ page.selected \cap page.hiddenStations = {}
    BY DEF LinksInv, Coherent
  <2>2. ASSUME onMap, ~watch
        PROVE  IF page.blank THEN page.ground = {} /\ page.isl = {}
               ELSE page.ground = ExpectedGround /\ page.isl = ExpectedIsl
    <3>1. Shown(page) /\ page.active = ActiveFrame(page.frames, now)
      BY <2>2 DEF LinksInv
    <3> QED
      BY <3>1 DEF Shown, ExpectedGround, ExpectedIsl
  <2> QED
    BY <2>1, <2>2 DEF LinksAreCurrent
<1> QED
  BY <1>1, LinksInvariance, PTL

\* RemovedStaysRemoved, step by step.
THEOREM RemovalsAreKept ==
  LinksSpec => RemovedStaysRemoved
<1>1. LinksInv /\ [LinksNext]_linksVars =>
        [\/ page.hidden \subseteq page'.hidden /\ page.hiddenIsl \subseteq page'.hiddenIsl
         \/ page'.completed
         \/ page'.active # 0 /\ IsFirst(page'.frames[page'.active])]_linksVars
  BY LinksStep DEF Kept
<1> QED
  BY <1>1, LinksInvariance, PTL DEF LinksSpec, RemovedStaysRemoved

-----------------------------------------------------------------------------
(* The traffic panel: the player *)

\* A list of packets that can be played.
Playable(list) ==
  /\ list \in Seq(Stamps)
  /\ Len(list) <= MaxEvents
  /\ \A i \in 1..(Len(list) - 1) : list[i] <= list[i + 1]

\* What holds of the player at any time.
PlayerInv(p) ==
  /\ p \in Players
  /\ Playable(p.playlist)
  /\ p.index <= Len(p.playlist)
  /\ p.scheduled \subseteq 1..Len(p.playlist)
  /\ ~p.enabled => p.paused /\ p.index = 0 /\ p.playlist = <<>> /\ ~p.clock /\ ~p.alone
  /\ p.paused => p.timer = "none" /\ p.scheduled = {}
  /\ p.alone /\ ~p.windowed => p.shown = 1..p.index
  /\ p.scheduled # {} => p.alone = p.windowed

GoesOn(p) == p.enabled /\ ~p.paused => p.timer # "none" /\ p.playlist # <<>>

\* The constants of the player.
LEMMA PlayerConstants ==
  /\ Stamps \subseteq Nat
  /\ MaxEvents \in Nat \ {0} /\ Window \in Nat
  /\ Modes \subseteq {"single", "window"}
  /\ Positions = 0..MaxEvents
BY PlaybackAssumption DEF PlaybackAssumption, Positions

\* Sorting makes a list of packets playable.
LEMMA SortedIsPlayable ==
  ASSUME NEW list \in Seq(Stamps), Len(list) <= MaxEvents
  PROVE  /\ Playable(InOrder(list))
         /\ Len(InOrder(list)) = Len(list)
         /\ list # <<>> => InOrder(list) # <<>>
<1> DEFINE sorted == Ascending(list)
<1>1. Stamps \in SUBSET Nat
  BY PlayerConstants
<1>2. /\ sorted \in Seq(Stamps) /\ Len(sorted) = Len(list)
      /\ \A i, j \in 1..Len(list) : i < j => sorted[i] <= sorted[j]
  BY <1>1, AscendingSorts
<1>3. Len(list) \in Nat /\ (list # <<>> => Len(list) # 0)
  BY EmptySeq, LenProperties
<1> HIDE DEF sorted
<1>4. ASSUME NEW i \in 1..(Len(sorted) - 1) PROVE sorted[i] <= sorted[i + 1]
  <2>1. i \in 1..Len(list) /\ i + 1 \in 1..Len(list) /\ i < i + 1
    BY <1>2, <1>3
  <2> QED
    BY <1>2, <2>1
<1>5. list # <<>> => sorted # <<>>
  BY <1>2, <1>3
<1> QED
  BY <1>2, <1>4, <1>5 DEF Playable, InOrder, sorted

\* The newest packets are not too many, and packets of the list.
LEMMA NewestKeeps ==
  ASSUME NEW V, NEW list \in Seq(V)
  PROVE  /\ Newest(list) \in Seq(V) /\ Len(Newest(list)) <= MaxEvents
         /\ ToSet(Newest(list)) \subseteq ToSet(list)
<1> DEFINE n == Len(list)
           first == 1 + (IF n > MaxEvents THEN n - MaxEvents ELSE 0)
           newest == SubSeq(list, first, n)
<1>1. n \in Nat /\ MaxEvents \in Nat /\ DOMAIN list = 1..n /\ \A i \in 1..n : list[i] \in V
  BY PlayerConstants, LenProperties, ElementOfSeq
<1> HIDE DEF n
<1>2. /\ first \in Int /\ n \in Int /\ first >= 1 /\ n - first + 1 <= MaxEvents /\ first <= n + 1
      /\ \A i \in first..n : i \in 1..n
  BY <1>1
<1> HIDE DEF first
<1>3. /\ newest \in Seq(V)
      /\ Len(newest) = IF first <= n THEN n - first + 1 ELSE 0
      /\ \A i \in 1..(n - first + 1) : newest[i] = list[first + i - 1]
  <2>1. \A i \in first..n : list[i] \in V
    BY <1>1, <1>2
  <2> QED
    BY <1>2, <2>1, SubSeqProperties
<1>4. Newest(list) = newest
  BY DEF Newest, first, n
<1> HIDE DEF newest
<1>5. Len(newest) = n - first + 1
  BY <1>2, <1>3
<1>6. DOMAIN newest = 1..(n - first + 1)
  BY <1>3, <1>5, LenProperties
<1>7. ASSUME NEW i \in DOMAIN newest PROVE newest[i] \in ToSet(list)
  <2>1. first + i - 1 \in 1..n /\ newest[i] = list[first + i - 1]
    BY <1>1, <1>2, <1>3, <1>6
  <2> QED
    BY <1>1, <2>1 DEF ToSet
<1> QED
  BY <1>2, <1>3, <1>4, <1>5, <1>7 DEF ToSet

\* The player at rest.
LEMMA StoppedIsInv ==
  PlayerInv(Stopped) /\ GoesOn(Stopped)
<1>1. /\ Stopped \in Players
      /\ Stopped.playlist = <<>> /\ Stopped.index = 0 /\ Stopped.scheduled = {}
      /\ Stopped.timer = "none" /\ Stopped.alone = FALSE /\ Stopped.enabled = FALSE
      /\ Stopped.paused = TRUE /\ Stopped.clock = FALSE
  <2>1. <<>> \in Seq(Stamps)
    OBVIOUS
  <2> QED
    BY <2>1, PlayerConstants DEF Stopped, Players
<1>2. Playable(<<>>) /\ Len(<<>>) = 0
  BY PlayerConstants DEF Playable
<1> QED
  BY <1>1, <1>2 DEF PlayerInv, GoesOn

\* Clearing timers and the clock.
LEMMA SilenceKeeps ==
  ASSUME NEW p, PlayerInv(p)
  PROVE  LET q == Silence(p)
         IN  /\ PlayerInv(q)
             /\ q.timer = "none" /\ q.scheduled = {} /\ q.clock = FALSE
             /\ q.enabled = p.enabled /\ q.paused = p.paused
             /\ q.playlist = p.playlist /\ q.index = p.index
             /\ q.alone = p.alone /\ q.windowed = p.windowed /\ q.shown = p.shown
<1> DEFINE q == Silence(p)
<1>1. p \in Players
  BY DEF PlayerInv
<1>2. /\ q \in Players
      /\ q.timer = "none" /\ q.scheduled = {} /\ q.clock = FALSE
      /\ q.enabled = p.enabled /\ q.paused = p.paused
      /\ q.playlist = p.playlist /\ q.index = p.index
      /\ q.alone = p.alone /\ q.windowed = p.windowed /\ q.shown = p.shown
  BY <1>1 DEF Players, Silence, ClearTimers
<1> HIDE DEF q
<1>3. PlayerInv(q)
  BY <1>2 DEF PlayerInv
<1> QED
  BY <1>2, <1>3 DEF q

\* scheduleNextTrafficPlaybackEvent
LEMMA ScheduleNextKeeps ==
  ASSUME NEW p, PlayerInv(p)
  PROVE  LET q == ScheduleNext(p)
         IN  /\ PlayerInv(q) /\ GoesOn(q)
             /\ q.playlist = p.playlist /\ q.enabled = p.enabled
<1> DEFINE r == ClearTimers(p)
           q == ScheduleNext(p)
<1>1. p \in Players
  BY DEF PlayerInv
<1>2. /\ r \in Players
      /\ r.timer = "none" /\ r.scheduled = {} /\ r.clock = p.clock
      /\ r.enabled = p.enabled /\ r.paused = p.paused
      /\ r.playlist = p.playlist /\ r.index = p.index
      /\ r.alone = p.alone /\ r.windowed = p.windowed /\ r.shown = p.shown
  BY <1>1 DEF Players, ClearTimers
<1>4. q = IF ~r.enabled \/ r.paused THEN r
          ELSE IF r.index >= Len(r.playlist) THEN [r EXCEPT !.paused = TRUE]
          ELSE [r EXCEPT !.timer = "next"]
  BY DEF ScheduleNext
<1> HIDE DEF r, q
<1>5. PlayerInv(r)
  BY <1>2 DEF PlayerInv
<1>6. CASE ~r.enabled \/ r.paused
  <2>1. q = r
    BY <1>4, <1>6
  <2> QED
    BY <1>2, <1>5, <1>6, <2>1 DEF GoesOn, q
<1>7. CASE r.enabled /\ ~r.paused
  <2>1. \E paused \in BOOLEAN, timer \in {"none", "next"} :
          /\ q = [r EXCEPT !.paused = paused, !.timer = timer]
          /\ paused => timer = "none"
          /\ ~paused => timer = "next" /\ ~(r.index >= Len(r.playlist))
    <3>1. CASE r.index >= Len(r.playlist)
      <4>1. q = [r EXCEPT !.paused = TRUE, !.timer = "none"]
        BY <1>2, <1>4, <1>7, <3>1 DEF Players
      <4> QED
        BY <4>1
    <3>2. CASE ~(r.index >= Len(r.playlist))
      <4>1. q = [r EXCEPT !.paused = FALSE, !.timer = "next"]
        BY <1>2, <1>4, <1>7, <3>2 DEF Players
      <4> QED
        BY <3>2, <4>1
    <3> QED
      BY <3>1, <3>2
  <2>2. PICK paused \in BOOLEAN, timer \in {"none", "next"} :
          /\ q = [r EXCEPT !.paused = paused, !.timer = timer]
          /\ paused => timer = "none"
          /\ ~paused => timer = "next" /\ ~(r.index >= Len(r.playlist))
    BY <2>1
  <2>3. /\ q \in Players /\ q.paused = paused /\ q.timer = timer
        /\ q.scheduled = {} /\ q.enabled = r.enabled
        /\ q.playlist = r.playlist /\ q.index = r.index
        /\ q.alone = r.alone /\ q.windowed = r.windowed /\ q.shown = r.shown
    BY <1>2, <2>2 DEF Players
  <2>4. PlayerInv(q)
    BY <1>5, <1>7, <2>2, <2>3 DEF PlayerInv
  <2>5. r.index \in Nat /\ Len(<<>>) = 0
    BY <1>2, PlayerConstants DEF Players
  <2>6. GoesOn(q)
    BY <2>2, <2>3, <2>5 DEF GoesOn
  <2> QED
    BY <1>2, <2>3, <2>4, <2>6 DEF q
<1> QED
  BY <1>2, <1>6, <1>7 DEF Players

\* playCurrentTrafficPlaybackEvent, one packet
LEMMA PlayOneKeeps ==
  ASSUME NEW p, PlayerInv(p), p.enabled, ~p.paused, p.scheduled = {},
         p.index < Len(p.playlist)
  PROVE  LET q == PlayOne(p)
         IN  /\ PlayerInv(q) /\ GoesOn(q)
             /\ q.playlist = p.playlist /\ q.enabled = p.enabled
<1> DEFINE next == p.index + 1
           t == Trigger(p, next)
           clock == next < Len(p.playlist)
           r == [t EXCEPT !.index = next, !.clock = clock]
<1>1. p \in Players /\ p.index \in Nat /\ Len(p.playlist) \in Nat
      /\ Len(p.playlist) <= MaxEvents /\ MaxEvents \in Nat /\ Positions = 0..MaxEvents
      /\ p.shown \subseteq Positions
  <2>1. p \in Players /\ p.playlist \in Seq(Stamps) /\ Len(p.playlist) <= MaxEvents
    BY DEF PlayerInv, Playable
  <2> QED
    BY <2>1, PlayerConstants, LenProperties DEF Players
<1>2. next \in Positions /\ next <= Len(p.playlist) /\ next \in Nat /\ clock \in BOOLEAN
  BY <1>1
<1> HIDE DEF next, clock
<1>3. /\ t \in Players
      /\ t.shown = IF p.alone THEN p.shown \cup {next} ELSE {}
      /\ t.timer = p.timer /\ t.scheduled = p.scheduled
      /\ t.enabled = p.enabled /\ t.paused = p.paused
      /\ t.playlist = p.playlist /\ t.alone = p.alone /\ t.windowed = p.windowed
  BY <1>1, <1>2 DEF Players, Trigger
<1> HIDE DEF t
<1>4. /\ r \in Players /\ r.index = next
      /\ r.shown = t.shown /\ r.timer = t.timer /\ r.scheduled = t.scheduled
      /\ r.enabled = t.enabled /\ r.paused = t.paused
      /\ r.playlist = t.playlist /\ r.alone = t.alone /\ r.windowed = t.windowed
  BY <1>2, <1>3 DEF Players
<1>5. PlayOne(p) = ScheduleNext(r)
  BY DEF PlayOne, next, t, clock
<1> HIDE DEF r
<1>6. p.alone /\ ~p.windowed => r.shown = 1..r.index
  <2>1. p.alone /\ ~p.windowed => p.shown = 1..p.index
    BY DEF PlayerInv
  <2>2. 1..next = (1..p.index) \cup {next}
    BY <1>1 DEF next
  <2> QED
    BY <1>3, <1>4, <2>1, <2>2
<1>7. PlayerInv(r)
  BY <1>2, <1>3, <1>4, <1>6 DEF PlayerInv
<1> QED
  BY <1>3, <1>4, <1>5, <1>7, ScheduleNextKeeps

\* playCurrentTrafficPlaybackEvent, the packets of a window
LEMMA PlayWindowKeeps ==
  ASSUME NEW p, PlayerInv(p), p.enabled, ~p.paused, p.scheduled = {},
         p.index < Len(p.playlist)
  PROVE  LET q == PlayWindow(p)
         IN  /\ PlayerInv(q) /\ GoesOn(q)
             /\ q.playlist = p.playlist /\ q.enabled = p.enabled
<1> DEFINE n == Len(p.playlist)
           first == p.index + 1
           members == {i \in first..n : p.playlist[i] <= p.playlist[first] + Window}
           next == p.index + Cardinality(members)
           r == [p EXCEPT !.scheduled = members, !.index = next, !.clock = TRUE, !.windowed = p.alone]
           f == [r EXCEPT !.timer = "finish"]
<1>1. p \in Players /\ p.index \in Nat /\ n \in Nat /\ p.alone \in BOOLEAN
      /\ n <= MaxEvents /\ MaxEvents \in Nat /\ Positions = 0..MaxEvents
  <2>1. p \in Players /\ p.playlist \in Seq(Stamps) /\ n <= MaxEvents
    BY DEF PlayerInv, Playable
  <2> QED
    BY <2>1, PlayerConstants, LenProperties DEF Players
<1>2. first \in Nat /\ first <= n /\ first >= 1
  BY <1>1
<1>3. members \subseteq 1..n /\ Cardinality(members) \in Nat /\ Cardinality(members) <= n - p.index
  <2>1. IsFiniteSet(first..n) /\ Cardinality(first..n) = n - p.index
    <3>1. first \in Int /\ n \in Int /\ ~(first > n) /\ n - first + 1 = n - p.index
      BY <1>1, <1>2
    <3> HIDE DEF first, n
    <3> QED
      BY <3>1, FS_Interval
  <2>2. members \in SUBSET (first..n)
    OBVIOUS
  <2>3. members \subseteq 1..n
    BY <1>1, <1>2
  <2> HIDE DEF members
  <2>4. IsFiniteSet(members) /\ Cardinality(members) <= n - p.index
    BY <2>1, <2>2, FS_Subset
  <2> QED
    BY <2>3, <2>4, FS_CardinalityType
<1> HIDE DEF members
<1>4. next \in Positions /\ next \in Nat /\ next <= n /\ members \subseteq Positions
  BY <1>1, <1>3
<1>5. PlayWindow(p) = IF next = n THEN f ELSE ScheduleNext(r)
  BY DEF PlayWindow, members
<1> HIDE DEF next
<1>6. /\ r \in Players /\ r.index = next /\ r.scheduled = members /\ r.windowed = p.alone
      /\ r.timer = p.timer /\ r.enabled = p.enabled /\ r.paused = p.paused
      /\ r.playlist = p.playlist /\ r.alone = p.alone
  BY <1>1, <1>4 DEF Players
<1> HIDE DEF r
<1>7. PlayerInv(r)
  BY <1>3, <1>4, <1>6 DEF PlayerInv
<1>8. CASE next = n
  <2>1. /\ f \in Players /\ f.index = r.index /\ f.scheduled = r.scheduled /\ f.windowed = r.windowed
        /\ f.timer = "finish" /\ f.enabled = r.enabled /\ f.paused = r.paused
        /\ f.playlist = r.playlist /\ f.alone = r.alone
    BY <1>6 DEF Players
  <2>2. PlayWindow(p) = f
    BY <1>5, <1>8
  <2> HIDE DEF f
  <2>3. PlayerInv(f)
    BY <1>3, <1>4, <1>6, <2>1 DEF PlayerInv
  <2>4. p.playlist # <<>>
    BY <1>1
  <2>5. GoesOn(f)
    BY <1>6, <2>1, <2>4 DEF GoesOn
  <2> QED
    BY <1>6, <2>1, <2>2, <2>3, <2>5
<1>9. CASE next # n
  <2>1. PlayWindow(p) = ScheduleNext(r)
    BY <1>5, <1>9
  <2> QED
    BY <1>6, <1>7, <2>1, ScheduleNextKeeps
<1> QED
  BY <1>8, <1>9

\* playCurrentTrafficPlaybackEvent
LEMMA PlayCurrentKeeps ==
  ASSUME NEW p, PlayerInv(p)
  PROVE  LET q == PlayCurrent(p)
         IN  /\ PlayerInv(q) /\ GoesOn(q)
             /\ q.playlist = p.playlist /\ q.enabled = p.enabled
<1> DEFINE s == Silence(p)
           e == [s EXCEPT !.paused = TRUE]
<1>1. /\ PlayerInv(s)
      /\ s.timer = "none" /\ s.scheduled = {} /\ s.clock = FALSE
      /\ s.enabled = p.enabled /\ s.playlist = p.playlist
  BY SilenceKeeps
<1>2. PlayCurrent(p) = IF ~s.enabled \/ s.paused THEN s
                       ELSE IF s.index >= Len(s.playlist) THEN e
                       ELSE IF mode = "window" THEN PlayWindow(s) ELSE PlayOne(s)
  BY DEF PlayCurrent
<1> HIDE DEF s
<1>3. s \in Players /\ s.index \in Nat /\ Len(s.playlist) \in Nat
  <2>1. s \in Players /\ s.playlist \in Seq(Stamps)
    BY <1>1 DEF PlayerInv, Playable
  <2> QED
    BY <2>1, PlayerConstants, LenProperties DEF Players
<1>4. CASE ~s.enabled \/ s.paused
  BY <1>1, <1>2, <1>4 DEF GoesOn
<1>5. CASE s.enabled /\ ~s.paused /\ s.index >= Len(s.playlist)
  <2>1. /\ e \in Players /\ e.paused = TRUE /\ e.index = s.index /\ e.scheduled = s.scheduled
        /\ e.windowed = s.windowed /\ e.timer = s.timer /\ e.enabled = s.enabled
        /\ e.playlist = s.playlist /\ e.alone = s.alone /\ e.shown = s.shown /\ e.clock = s.clock
    BY <1>3 DEF Players
  <2>2. PlayCurrent(p) = e
    BY <1>2, <1>5
  <2> HIDE DEF e
  <2>3. PlayerInv(e)
    BY <1>1, <1>5, <2>1 DEF PlayerInv
  <2> QED
    BY <1>1, <2>1, <2>2, <2>3 DEF GoesOn
<1>6. CASE s.enabled /\ ~s.paused /\ ~(s.index >= Len(s.playlist)) /\ mode = "window"
  <2>1. PlayCurrent(p) = PlayWindow(s) /\ s.index < Len(s.playlist)
    BY <1>2, <1>3, <1>6
  <2> QED
    BY <1>1, <1>6, <2>1, PlayWindowKeeps
<1>7. CASE s.enabled /\ ~s.paused /\ ~(s.index >= Len(s.playlist)) /\ mode # "window"
  <2>1. PlayCurrent(p) = PlayOne(s) /\ s.index < Len(s.playlist)
    BY <1>2, <1>3, <1>7
  <2> QED
    BY <1>1, <1>7, <2>1, PlayOneKeeps
<1> QED
  BY <1>4, <1>5, <1>6, <1>7

\* Jumping, seeking and pausing stop at a position of a list.
LEMMA PausedKeeps ==
  ASSUME PlayerInv(player), NEW list, Playable(list), NEW i \in 0..Len(list)
  PROVE  LET q == PausedAt(list, i)
         IN  PlayerInv(q) /\ GoesOn(q) /\ q.playlist = list /\ q.enabled
<1> DEFINE s == Silence(player)
           q == PausedAt(list, i)
<1>1. PlayerInv(s) /\ s.timer = "none" /\ s.scheduled = {} /\ s \in Players
  BY SilenceKeeps DEF PlayerInv
<1>2. q = [Disturbed(s) EXCEPT !.enabled = TRUE, !.paused = TRUE, !.playlist = list, !.index = i]
  BY DEF PausedAt
<1>3. i \in Positions /\ i <= Len(list) /\ list \in Seq(Stamps)
  <2>1. Len(list) \in Nat /\ Len(list) <= MaxEvents /\ list \in Seq(Stamps)
    BY LenProperties DEF Playable
  <2> QED
    BY <2>1, PlayerConstants
<1> HIDE DEF s, q
<1>4. /\ q \in Players /\ q.enabled = TRUE /\ q.paused = TRUE /\ q.playlist = list /\ q.index = i
      /\ q.timer = "none" /\ q.scheduled = {} /\ q.alone = FALSE
  BY <1>1, <1>2, <1>3 DEF Players, Disturbed
<1>5. PlayerInv(q)
  BY <1>3, <1>4 DEF PlayerInv
<1> QED
  BY <1>4, <1>5 DEF GoesOn, q

\* The controller with its list of packets.
PlaybackInv ==
  /\ PlayerInv(player)
  /\ packets \in Seq(Stamps) /\ Len(packets) <= MaxEvents
  /\ recording \in BOOLEAN /\ mode \in Modes
  /\ NeverBoth /\ PlaysItsPackets

\* The list that is played, or is to be.
LEMMA PlaylistIsPlayable ==
  ASSUME PlaybackInv, packets # <<>>
  PROVE  Playable(Playlist) /\ Playlist # <<>> /\ Playlist = InOrder(packets)
<1>1. Playable(InOrder(packets)) /\ InOrder(packets) # <<>>
  BY SortedIsPlayable DEF PlaybackInv
<1> QED
  BY <1>1 DEF PlaybackInv, PlaysItsPackets, Playlist

\* The user's buttons that play.
LEMMA ControlsKeep ==
  ASSUME PlaybackInv, GoesOn(player), Controls
  PROVE  /\ PlaybackInv' /\ GoesOn(player')
         /\ packets' = packets /\ UNCHANGED <<capturing, speed>>
         /\ recording' => recording \/ capturing
<1>1. /\ PlayerInv(player) /\ player \in Players
      /\ packets \in Seq(Stamps) /\ Len(packets) <= MaxEvents
      /\ recording \in BOOLEAN /\ mode \in Modes /\ NeverBoth /\ PlaysItsPackets
  BY DEF PlaybackInv, PlayerInv
<1>2. ASSUME PlayerInv(player'), GoesOn(player'), ~recording, packets # <<>>,
             player'.playlist \in {player.playlist, InOrder(packets), <<>>},
             UNCHANGED <<packets, recording, mode, capturing, speed>>
      PROVE  /\ PlaybackInv' /\ GoesOn(player')
             /\ packets' = packets /\ UNCHANGED <<capturing, speed>>
             /\ recording' => recording \/ capturing
  BY <1>1, <1>2 DEF PlaybackInv, NeverBoth, PlaysItsPackets
<1>3. CASE TogglePlayback
  <2>1. ~recording /\ packets # <<>> /\ UNCHANGED <<packets, recording, mode, capturing, speed>>
    BY <1>3 DEF TogglePlayback
  <2>2. CASE ~player.enabled
    <3> DEFINE list == InOrder(packets)
               b == [Stopped EXCEPT !.enabled = TRUE, !.paused = FALSE, !.playlist = list, !.alone = TRUE]
    <3>1. player' = PlayCurrent(b)
      BY <1>3, <2>2 DEF TogglePlayback
    <3>2. Playable(list)
      BY <1>1, SortedIsPlayable
    <3> HIDE DEF list
    <3>3. Len(list) \in Nat /\ list \in Seq(Stamps) /\ 0 \in Positions
      BY <3>2, PlayerConstants, LenProperties DEF Playable
    <3>4. /\ b \in Players /\ b.enabled = TRUE /\ b.paused = FALSE /\ b.playlist = list
          /\ b.index = 0 /\ b.scheduled = {} /\ b.shown = {} /\ b.alone = TRUE
      BY <3>3 DEF Stopped, Players
    <3> HIDE DEF b
    <3>5. 1..0 = {}
      OBVIOUS
    <3>6. PlayerInv(b)
      BY <3>2, <3>3, <3>4, <3>5 DEF PlayerInv
    <3>7. PlayerInv(player') /\ GoesOn(player') /\ player'.playlist = list
      BY <3>1, <3>4, <3>6, PlayCurrentKeeps
    <3> QED
      BY <1>2, <2>1, <3>7 DEF list
  <2>3. CASE player.enabled /\ ~player.paused
    <3> DEFINE s == Silence(player)
    <3>1. player' = [Disturbed(s) EXCEPT !.paused = TRUE]
      BY <1>3, <2>3 DEF TogglePlayback
    <3>2. /\ PlayerInv(s) /\ s.enabled = player.enabled /\ s.timer = "none" /\ s.scheduled = {}
          /\ s.playlist = player.playlist /\ s \in Players
      BY <1>1, SilenceKeeps DEF PlayerInv
    <3> HIDE DEF s
    <3>3. /\ player' \in Players /\ player'.enabled = TRUE /\ player'.paused = TRUE
          /\ player'.playlist = s.playlist /\ player'.index = s.index
          /\ player'.timer = "none" /\ player'.scheduled = {} /\ player'.alone = FALSE
      BY <2>3, <3>1, <3>2 DEF Players, Disturbed
    <3>4. PlayerInv(player') /\ GoesOn(player')
      BY <3>2, <3>3 DEF PlayerInv, GoesOn
    <3> QED
      BY <1>2, <2>1, <3>2, <3>3, <3>4
  <2>4. CASE player.enabled /\ player.paused
    <3> DEFINE clock == player.index < Len(player.playlist)
               r == [player EXCEPT !.paused = FALSE, !.clock = clock]
    <3>1. player' = ScheduleNext(r)
      BY <1>3, <2>4 DEF TogglePlayback
    <3>2. clock \in BOOLEAN
      OBVIOUS
    <3> HIDE DEF clock
    <3>3. /\ r \in Players /\ r.paused = FALSE /\ r.clock = clock /\ r.enabled = player.enabled
          /\ r.playlist = player.playlist /\ r.index = player.index /\ r.timer = player.timer
          /\ r.scheduled = player.scheduled /\ r.alone = player.alone
          /\ r.windowed = player.windowed /\ r.shown = player.shown
      BY <1>1, <3>2 DEF Players
    <3> HIDE DEF r
    <3>4. PlayerInv(r)
      BY <1>1, <2>4, <3>3 DEF PlayerInv
    <3>5. PlayerInv(player') /\ GoesOn(player') /\ player'.playlist = player.playlist
      BY <3>1, <3>3, <3>4, ScheduleNextKeeps
    <3> QED
      BY <1>2, <2>1, <3>5
  <2> QED
    BY <2>2, <2>3, <2>4
<1>4. CASE StopPressed
  <2>1. player' = Stopped /\ UNCHANGED <<packets, recording, mode, capturing, speed>>
    BY <1>4 DEF StopPressed, StopPlayback
  <2>2. player'.playlist = <<>> /\ player'.enabled = FALSE
    BY <2>1 DEF Stopped
  <2> QED
    BY <1>1, <2>1, <2>2, StoppedIsInv DEF PlaybackInv, NeverBoth, PlaysItsPackets
<1>5. ASSUME NEW d \in {-1, 1}, Jump(d) PROVE Playlist # <<>> => \E i \in 0..Len(Playlist) : player' = PausedAt(Playlist, i)
  <2> DEFINE n == Len(Playlist)
             current == Clamp(player.index - 1, 0, n - 1)
             i == Clamp(current + d, 0, n - 1) + 1
  <2>1. player' = PausedAt(Playlist, i) /\ packets # <<>>
    BY <1>5 DEF Jump
  <2>2. Playlist \in Seq(Stamps) /\ Playlist # <<>> /\ n \in Nat
    BY <2>1, PlaylistIsPlayable, LenProperties DEF Playable
  <2>3. n # 0
    BY <2>2, EmptySeq
  <2>4. player.index \in Int
    BY <1>1, PlayerConstants DEF Players
  <2> HIDE DEF n
  <2>5. current \in 0..(n - 1)
    BY <2>2, <2>3, <2>4 DEF Clamp
  <2> HIDE DEF current
  <2>6. i \in 0..n
    BY <2>2, <2>3, <2>5 DEF Clamp
  <2> QED
    BY <2>1, <2>6 DEF n
<1>6. ASSUME NEW position \in 0..Len(Playlist), Seek(position)
      PROVE  \E i \in 0..Len(Playlist) : player' = PausedAt(Playlist, i)
  <2> DEFINE n == Len(Playlist)
             i == Clamp(position, 0, n)
  <2>1. player' = PausedAt(Playlist, i) /\ packets # <<>>
    BY <1>6 DEF Seek
  <2>2. Playlist \in Seq(Stamps) /\ n \in Nat
    BY <2>1, PlaylistIsPlayable, LenProperties DEF Playable
  <2>3. i \in 0..n
    BY <2>2 DEF Clamp
  <2> QED
    BY <2>1, <2>3
<1>7. CASE (\E d \in {-1, 1} : Jump(d)) \/ (\E i \in 0..Len(Playlist) : Seek(i))
  <2>1. ~recording /\ packets # <<>> /\ UNCHANGED <<packets, recording, mode, capturing, speed>>
    BY <1>7 DEF Jump, Seek
  <2>2. Playable(Playlist) /\ Playlist # <<>> /\ Playlist = InOrder(packets)
    BY <2>1, PlaylistIsPlayable
  <2>3. \E i \in 0..Len(Playlist) : player' = PausedAt(Playlist, i)
    BY <1>5, <1>6, <1>7, <2>2
  <2>4. PICK i \in 0..Len(Playlist) : player' = PausedAt(Playlist, i)
    BY <2>3
  <2>5. PlayerInv(player') /\ GoesOn(player') /\ player'.playlist = Playlist
    BY <1>1, <2>2, <2>4, PausedKeeps
  <2> QED
    BY <1>2, <2>1, <2>2, <2>5
<1>8. CASE ToggleRecording
  <2>1. /\ ~player.enabled /\ capturing /\ recording' = ~recording
        /\ player' \in {player, Stopped} /\ UNCHANGED <<packets, mode, capturing, speed>>
    BY <1>8 DEF ToggleRecording, StopPlayback
  <2>2. Stopped.playlist = <<>> /\ Stopped.enabled = FALSE
    BY DEF Stopped
  <2>3. PlayerInv(player') /\ GoesOn(player') /\ ~player'.enabled
        /\ player'.playlist \in {player.playlist, <<>>}
    BY <1>1, <2>1, <2>2, StoppedIsInv
  <2> QED
    BY <1>1, <2>1, <2>3 DEF PlaybackInv, NeverBoth, PlaysItsPackets
<1>9. CASE ChangeMode
  BY <1>1, <1>9 DEF ChangeMode, PlaybackInv, NeverBoth, PlaysItsPackets
<1> QED
  BY <1>3, <1>4, <1>7, <1>8, <1>9 DEF Controls

\* A packet of the last window is shown.
LEMMA PacketTimerKeeps ==
  ASSUME PlaybackInv, GoesOn(player), PacketTimer
  PROVE  /\ PlayerInv(player') /\ GoesOn(player')
         /\ player'.playlist = player.playlist /\ player'.enabled = player.enabled
<1> DEFINE first == CHOOSE i \in player.scheduled : \A j \in player.scheduled : i <= j
           q == [player EXCEPT !.scheduled = @ \ {first}]
<1>1. /\ PlayerInv(player) /\ player \in Players /\ player.scheduled # {}
      /\ player.scheduled \subseteq Positions
  BY DEF PlaybackInv, PlayerInv, PacketTimer, Players
<1>2. first \in player.scheduled
  <2>1. \E i \in player.scheduled : \A j \in player.scheduled : i <= j
    <3>1. player.scheduled \in SUBSET Nat
      BY <1>1, PlayerConstants
    <3> QED
      BY <1>1, <3>1, FirstPosition
  <2> QED
    BY <2>1
<1>3. first \in Positions
  BY <1>1, <1>2
<1>4. player' = IF q.enabled /\ ~q.paused THEN Trigger(q, first) ELSE q
  BY DEF PacketTimer
<1> HIDE DEF first
<1>5. /\ q \in Players /\ q.scheduled \subseteq player.scheduled
      /\ q.enabled = player.enabled /\ q.paused = player.paused /\ q.timer = player.timer
      /\ q.playlist = player.playlist /\ q.index = player.index /\ q.clock = player.clock
      /\ q.alone = player.alone /\ q.windowed = player.windowed /\ q.shown = player.shown
  BY <1>1 DEF Players
<1> HIDE DEF q
<1>6. player.alone = player.windowed
  BY <1>1 DEF PlayerInv
<1>7. /\ player' \in Players /\ player'.scheduled = q.scheduled
      /\ player'.enabled = q.enabled /\ player'.paused = q.paused /\ player'.timer = q.timer
      /\ player'.playlist = q.playlist /\ player'.index = q.index /\ player'.clock = q.clock
      /\ player'.alone = q.alone /\ player'.windowed = q.windowed
  <2>1. CASE q.enabled /\ ~q.paused
    <3>1. player' = Trigger(q, first)
      BY <1>4, <2>1
    <3> QED
      BY <1>3, <1>5, <3>1 DEF Players, Trigger
  <2>2. CASE ~(q.enabled /\ ~q.paused)
    BY <1>4, <1>5, <2>2
  <2> QED
    BY <2>1, <2>2
<1>8. PlayerInv(player')
  BY <1>1, <1>5, <1>6, <1>7 DEF PlayerInv
<1> QED
  BY <1>5, <1>7, <1>8 DEF GoesOn

\* Any step of the controller.
LEMMA PlaybackStep ==
  ASSUME PlaybackInv, GoesOn(player), PlaybackNext
  PROVE  /\ PlaybackInv' /\ GoesOn(player')
         /\ UNCHANGED <<capturing, speed>>
         /\ recording' => recording \/ capturing
         /\ packets' = packets \/ recording
<1>1. /\ PlayerInv(player) /\ player \in Players
      /\ packets \in Seq(Stamps) /\ Len(packets) <= MaxEvents
      /\ recording \in BOOLEAN /\ mode \in Modes /\ NeverBoth /\ PlaysItsPackets
  BY DEF PlaybackInv, PlayerInv
<1>2. ASSUME PlayerInv(player'), GoesOn(player'),
             player'.playlist = player.playlist, player'.enabled = player.enabled,
             UNCHANGED <<packets, recording, mode, capturing, speed>>
      PROVE  /\ PlaybackInv' /\ GoesOn(player')
             /\ UNCHANGED <<capturing, speed>>
             /\ recording' => recording \/ capturing
             /\ packets' = packets \/ recording
  BY <1>1, <1>2 DEF PlaybackInv, NeverBoth, PlaysItsPackets
<1>3. CASE Controls
  BY <1>3, ControlsKeep
<1>4. ASSUME NEW stamp \in Stamps, PacketArrives(stamp)
      PROVE  /\ PlaybackInv' /\ GoesOn(player')
             /\ UNCHANGED <<capturing, speed>>
             /\ recording' => recording \/ capturing
             /\ packets' = packets \/ recording
  <2>1. /\ recording /\ ~player.enabled /\ packets' = Newest(Append(packets, stamp))
        /\ UNCHANGED <<player, recording, mode, capturing, speed>>
    BY <1>4 DEF PacketArrives
  <2>2. Append(packets, stamp) \in Seq(Stamps)
    BY <1>1
  <2>3. packets' \in Seq(Stamps) /\ Len(packets') <= MaxEvents
    BY <2>1, <2>2, NewestKeeps
  <2>4. player.playlist = <<>>
    BY <1>1, <2>1 DEF PlayerInv
  <2> QED
    BY <1>1, <2>1, <2>3, <2>4 DEF PlaybackInv, NeverBoth, PlaysItsPackets
<1>5. CASE NextTimer
  <2>1. player' = PlayCurrent(player) /\ UNCHANGED <<packets, recording, mode, capturing, speed>>
    BY <1>5 DEF NextTimer
  <2>2. /\ PlayerInv(player') /\ GoesOn(player')
        /\ player'.playlist = player.playlist /\ player'.enabled = player.enabled
    BY <1>1, <2>1, PlayCurrentKeeps
  <2> QED
    BY <1>2, <2>1, <2>2
<1>6. CASE PacketTimer
  <2>1. UNCHANGED <<packets, recording, mode, capturing, speed>>
    BY <1>6 DEF PacketTimer
  <2> QED
    BY <1>2, <1>6, <2>1, PacketTimerKeeps
<1>7. CASE FinishTimer
  <2>1. /\ player.scheduled = {} /\ player' = [player EXCEPT !.timer = "none", !.paused = TRUE]
        /\ UNCHANGED <<packets, recording, mode, capturing, speed>>
    BY <1>7 DEF FinishTimer
  <2>2. /\ player' \in Players /\ player'.timer = "none" /\ player'.paused = TRUE
        /\ player'.scheduled = {} /\ player'.enabled = player.enabled
        /\ player'.playlist = player.playlist /\ player'.index = player.index
        /\ player'.clock = player.clock /\ player'.shown = player.shown
        /\ player'.alone = player.alone /\ player'.windowed = player.windowed
    BY <1>1, <2>1 DEF Players
  <2>3. PlayerInv(player') /\ GoesOn(player')
    BY <1>1, <2>2 DEF PlayerInv, GoesOn
  <2> QED
    BY <1>2, <2>1, <2>2, <2>3
<1>8. CASE ClockEnds
  <2>1. /\ player' = [player EXCEPT !.clock = FALSE]
        /\ UNCHANGED <<packets, recording, mode, capturing, speed>>
    BY <1>8 DEF ClockEnds
  <2>2. /\ player' \in Players /\ player'.timer = player.timer /\ player'.paused = player.paused
        /\ player'.scheduled = player.scheduled /\ player'.enabled = player.enabled
        /\ player'.playlist = player.playlist /\ player'.index = player.index
        /\ player'.clock = FALSE /\ player'.shown = player.shown
        /\ player'.alone = player.alone /\ player'.windowed = player.windowed
    BY <1>1, <2>1 DEF Players
  <2>3. PlayerInv(player') /\ GoesOn(player')
    BY <1>1, <2>2 DEF PlayerInv, GoesOn, PlaybackInv
  <2> QED
    BY <1>2, <2>1, <2>2, <2>3
<1> QED
  BY <1>3, <1>4, <1>5, <1>6, <1>7, <1>8 DEF PlaybackNext, Timers
-----------------------------------------------------------------------------
(* The page *)

\* The requests, the files and what they leave behind.
Requested ==
  /\ speed \in Speeds /\ capturing \in BOOLEAN
  /\ server \in AllFilters /\ active \in AllFilters /\ capturing = (active # Off)
  /\ get \in {None, [at |-> "asked"]} \cup [at : {"read"}, filter : AllFilters]
  /\ put \in {None} \cup [at : {"sent", "applied"}, filter : AllFilters]
  /\ json \in JsonLists \cup {<<>>} /\ filtering \in JsonLists \cup {<<>>}
  /\ importing \in {None} \cup
       [at : {"containers", "worker", "behind"}, list : JsonLists, pcap : BOOLEAN]
  /\ imported \in BOOLEAN /\ pcap \in BOOLEAN /\ mounted \in BOOLEAN
  /\ overlap \in BOOLEAN /\ stale \in BOOLEAN

\* Who has the right answer, and what is done with it.
CaptureInv ==
  /\ put # None /\ put.at = "applied" => server = put.filter
  /\ get # None /\ ~stale => put = None
  /\ get # None /\ get.at = "read" /\ ~stale => get.filter = server
  /\ get = None /\ ~stale /\ (put = None \/ put.at # "applied") => active = server
  /\ recording => capturing
  /\ capturing => speed = 1

\* Without an overlap one thing is under way at a time, and a file keeps out a capture.
FilesInv ==
  ~overlap =>
    /\ get # None => put = None /\ importing = None /\ filtering = <<>>
    /\ put # None => importing = None /\ filtering = <<>>
    /\ importing # None => filtering = <<>> /\ ~capturing
    /\ filtering # <<>> => imported /\ filtering = json
    /\ imported => get = None /\ put = None /\ ~capturing /\ ToSet(packets) \subseteq ToSet(json)

Alive ==
  /\ mounted => GoesOn(player)
  /\ ~mounted => player.timer = "none" /\ player.scheduled = {}

PageInv ==
  /\ PlaybackInv
  /\ Requested
  /\ Alive
  /\ CaptureInv
  /\ FilesInv

\* The packets of an imported list.
LEMMA ImportedPackets ==
  ASSUME NEW list \in Seq(Stamps)
  PROVE  /\ Newest(InOrder(list)) \in Seq(Stamps)
         /\ Len(Newest(InOrder(list))) <= MaxEvents
         /\ ToSet(Newest(InOrder(list))) \subseteq ToSet(list)
<1>1. Stamps \in SUBSET Nat
  BY PlayerConstants
<1>2. InOrder(list) \in Seq(Stamps) /\ ToSet(InOrder(list)) = ToSet(list)
  BY <1>1, AscendingSorts DEF InOrder, ToSet
<1> QED
  BY <1>2, NewestKeeps

\* What the worker lets through.
LEMMA FilteredPackets ==
  ASSUME NEW list \in Seq(Stamps), NEW matching
  PROVE  Filtered(list, matching) \in Seq(Stamps) /\ ToSet(Filtered(list, matching)) \subseteq ToSet(list)
<1> DEFINE kept == Filtered(list, matching)
<1>1. kept \in Seq(Stamps)
  BY FilteredKeeps
<1>2. {kept[i] : i \in DOMAIN kept} = {list[i] : i \in DOMAIN list} \cap matching
  BY FilteredKeeps
<1> HIDE DEF kept
<1>3. ToSet(kept) \subseteq ToSet(list)
  BY <1>2 DEF ToSet
<1> QED
  BY <1>1, <1>3 DEF kept

\* The requests that are not there.
LEMMA NoRequest ==
  /\ None.at = "no"
  /\ [at |-> "asked"] # None /\ [at |-> "asked"].at = "asked"
  /\ \A f \in AllFilters :
       LET r == [at |-> "read", filter |-> f] IN r # None /\ r.at = "read" /\ r.filter = f
  /\ \A f \in AllFilters, a \in {"sent", "applied"} :
       LET r == [at |-> a, filter |-> f] IN r # None /\ r.at = a /\ r.filter = f
BY DEF None

\* Lists that are imported are lists of packets.
LEMMA ListsArePackets ==
  JsonLists \subseteq Seq(Stamps) /\ <<>> \in Seq(Stamps) /\ 1 \in Speeds /\ Off \notin Filters
BY PageAssumption DEF PageAssumption

\* A list that is imported stops what is played.
LEMMA ShowFileKeeps ==
  ASSUME PageInv, NEW list \in Seq(Stamps), ShowFile(list), mode' = mode
  PROVE  /\ PlaybackInv' /\ Alive' /\ recording' = FALSE /\ imported' = TRUE
         /\ ToSet(packets') \subseteq ToSet(list)
<1>1. /\ player' = Stopped /\ recording' = FALSE /\ imported' = TRUE
      /\ packets' = Newest(InOrder(list))
  BY DEF ShowFile, ImportEvents, StopPlayback
<1>2. /\ packets' \in Seq(Stamps) /\ Len(packets') <= MaxEvents
      /\ ToSet(packets') \subseteq ToSet(list)
  BY <1>1, ImportedPackets
<1>3. PlayerInv(player') /\ GoesOn(player') /\ mode' \in Modes
  BY <1>1, StoppedIsInv DEF PageInv, PlaybackInv
<1>4. /\ player'.playlist = <<>> /\ player'.enabled = FALSE
      /\ player'.timer = "none" /\ player'.scheduled = {}
  BY <1>1 DEF Stopped
<1>5. PlaybackInv'
  BY <1>1, <1>2, <1>3, <1>4 DEF PlaybackInv, NeverBoth, PlaysItsPackets
<1>6. Alive'
  BY <1>3, <1>4 DEF Alive
<1> QED
  BY <1>1, <1>2, <1>5, <1>6

\* What the page does to the controller.
LEMMA PlayerStep ==
  ASSUME PageInv, PageNext
  PROVE  PlaybackInv' /\ Alive'
<1>1. /\ PlaybackInv /\ Alive /\ PlayerInv(player) /\ player \in Players
      /\ packets \in Seq(Stamps) /\ Len(packets) <= MaxEvents
      /\ recording \in BOOLEAN /\ mode \in Modes /\ NeverBoth /\ PlaysItsPackets
  BY DEF PageInv, PlaybackInv, PlayerInv
<1>2. /\ json \in Seq(Stamps) /\ filtering \in Seq(Stamps)
      /\ (importing # None => importing.list \in Seq(Stamps))
  BY ListsArePackets DEF PageInv, Requested
<1>3. ASSUME UNCHANGED <<playback, mounted>> PROVE PlaybackInv' /\ Alive'
  BY <1>1, <1>3 DEF playback, PlaybackInv, Alive, NeverBoth, PlaysItsPackets
<1>4. ASSUME UNCHANGED <<player, packets, mode, mounted>>,
             recording' \in BOOLEAN, recording' => recording
      PROVE  PlaybackInv' /\ Alive'
  <2>2. NeverBoth'
    BY <1>1, <1>4 DEF NeverBoth
  <2>3. PlaysItsPackets' /\ Alive'
    BY <1>1, <1>4 DEF PlaysItsPackets, Alive
  <2> QED
    BY <1>1, <1>4, <2>2, <2>3 DEF PlaybackInv
<1>5. CASE Play
  <2>1. mounted /\ PlaybackNext /\ mounted' = mounted
    BY <1>5 DEF Play, pageVars
  <2>2. PlaybackInv' /\ GoesOn(player')
    BY <1>1, <2>1, PlaybackStep DEF Alive
  <2> QED
    BY <2>1, <2>2 DEF Alive
<1>6. CASE GetRead \/ GetFails \/ PutApplied \/ PutFails \/ ContainersAnswered \/ ImportFails \/ FilterFails
  BY <1>3, <1>6 DEF GetRead, GetFails, PutApplied, PutFails, ContainersAnswered, ImportFails, FilterFails
<1>7. CASE GetAnswered
  <2>1. UNCHANGED <<player, packets, mode, mounted>>
    BY <1>7 DEF GetAnswered
  <2>2. recording' \in BOOLEAN /\ (recording' => recording)
    BY <1>1, <1>7 DEF GetAnswered, ShowFilter
  <2> QED
    BY <1>4, <2>1, <2>2
<1>8. CASE PutAnswered
  <2>1. player' = Stopped /\ UNCHANGED <<packets, mode, mounted>>
    BY <1>8 DEF PutAnswered, StopPlayback
  <2>2. recording' \in BOOLEAN
    BY <1>1, <1>8 DEF PutAnswered, ShowFilter
  <2>3. PlayerInv(player') /\ GoesOn(player')
    BY <2>1, StoppedIsInv
  <2>4. /\ player'.playlist = <<>> /\ player'.enabled = FALSE
        /\ player'.timer = "none" /\ player'.scheduled = {}
    BY <2>1 DEF Stopped
  <2> QED
    BY <1>1, <2>1, <2>2, <2>3, <2>4 DEF PlaybackInv, Alive, NeverBoth, PlaysItsPackets
<1>9. CASE ImportAnswered
  <2>1. importing # None /\ ShowFile(importing.list) /\ mode' = mode
    BY <1>9, NoRequest DEF ImportAnswered
  <2> QED
    BY <1>2, <2>1, ShowFileKeeps
<1>10. ASSUME NEW matching \in SUBSET Stamps, FilterAnswered(matching)
       PROVE  PlaybackInv' /\ Alive'
  <2>1. ShowFile(Filtered(filtering, matching)) /\ mode' = mode
    BY <1>10 DEF FilterAnswered
  <2> QED
    BY <1>2, <2>1, FilteredPackets, ShowFileKeeps
<1>11. ASSUME NEW f \in AllFilters, PutFilter(f) PROVE PlaybackInv' /\ Alive'
  BY <1>3, <1>11 DEF PutFilter
<1>12. ASSUME NEW s \in Speeds, SetSpeed(s) PROVE PlaybackInv' /\ Alive'
  BY <1>3, <1>12 DEF SetSpeed, pageVars
<1>13. ASSUME NEW list \in JsonLists, NEW withPcap \in BOOLEAN, ImportFile(list, withPcap)
       PROVE  PlaybackInv' /\ Alive'
  BY <1>3, <1>13 DEF ImportFile
<1>14. CASE OfflineFilter
  BY <1>3, <1>14 DEF OfflineFilter
<1>15. CASE ClearOfflineFilter
  <2>1. ShowFile(json) /\ mode' = mode
    BY <1>15 DEF ClearOfflineFilter
  <2> QED
    BY <1>2, <2>1, ShowFileKeeps
<1>16. CASE Clear
  <2>1. /\ ~player.enabled /\ packets' = <<>> /\ UNCHANGED <<recording, mode, mounted>>
        /\ player' = [player EXCEPT !.playlist = <<>>, !.index = 0]
    BY <1>16 DEF Clear, ClearRecording
  <2>2. /\ player.playlist = <<>> /\ player.index = 0 /\ player.timer = "none" /\ player.scheduled = {}
    BY <1>1, <2>1 DEF PlayerInv
  <2>3. player' = player
    BY <1>1, <2>1, <2>2 DEF Players
  <2>4. <<>> \in Seq(Stamps) /\ Len(<<>>) <= MaxEvents
    BY PlayerConstants
  <2> QED
    BY <1>1, <2>1, <2>2, <2>3, <2>4 DEF PlaybackInv, Alive, NeverBoth, PlaysItsPackets
<1>17. CASE Unmount
  <2>1. mounted' = FALSE /\ player' = Silence(player) /\ UNCHANGED <<packets, recording, mode>>
    BY <1>17 DEF Unmount
  <2>2. /\ PlayerInv(player') /\ player'.timer = "none" /\ player'.scheduled = {}
        /\ player'.enabled = player.enabled /\ player'.playlist = player.playlist
    BY <1>1, <2>1, SilenceKeeps
  <2> QED
    BY <1>1, <2>1, <2>2 DEF PlaybackInv, Alive, NeverBoth, PlaysItsPackets
<1> QED
  BY <1>5, <1>6, <1>7, <1>8, <1>9, <1>10, <1>11, <1>12, <1>13, <1>14, <1>15, <1>16, <1>17
     DEF PageNext, Requests, UserAsks

\* The types of what is requested.
LEMMA RequestedStep ==
  ASSUME PageInv, PageNext
  PROVE  Requested'
<1>1. Requested /\ PlaybackInv /\ Alive /\ JsonLists \cup {<<>>} # {} /\ 1 \in Speeds
  BY ListsArePackets DEF PageInv
<1>2. CASE Play
  <2>1. UNCHANGED <<capturing, speed, pageVars>>
    <3>1. mounted /\ PlaybackNext /\ UNCHANGED pageVars
      BY <1>2 DEF Play
    <3>2. UNCHANGED <<capturing, speed>>
      BY <1>1, <3>1, PlaybackStep DEF Alive
    <3> QED
      BY <3>1, <3>2
  <2> QED
    BY <1>1, <2>1 DEF Requested, pageVars, connection, files
<1>3. CASE GetRead
  BY <1>1, <1>3 DEF GetRead, Requested, files
<1>4. CASE GetAnswered
  <2>1. /\ get.filter \in AllFilters /\ get' = None
        /\ active' = get.filter /\ capturing' = (get.filter # Off)
        /\ speed' = IF get.filter # Off THEN 1 ELSE speed
        /\ UNCHANGED <<server, put, files, mounted, overlap, stale>>
    BY <1>1, <1>4 DEF GetAnswered, ShowFilter, Requested, None
  <2> QED
    BY <1>1, <2>1 DEF Requested, files
<1>5. CASE GetFails
  BY <1>1, <1>5 DEF GetFails, Requested, files
<1>6. CASE PutApplied
  <2>1. PICK f \in AllFilters : put = [at |-> "sent", filter |-> f]
    BY <1>1, <1>6 DEF PutApplied, Requested, None
  <2>2. /\ server' = f /\ put' = [at |-> "applied", filter |-> f]
        /\ UNCHANGED <<capturing, speed, active, get, files, mounted, overlap, stale>>
    BY <1>6, <2>1 DEF PutApplied
  <2> QED
    BY <1>1, <2>2 DEF Requested, files
<1>7. CASE PutAnswered
  <2>1. /\ put.filter \in AllFilters /\ put' = None
        /\ active' = put.filter /\ capturing' = (put.filter # Off)
        /\ speed' = IF put.filter # Off THEN 1 ELSE speed
        /\ stale' = (stale /\ get # None)
        /\ UNCHANGED <<server, get, files, mounted, overlap>>
    BY <1>1, <1>7 DEF PutAnswered, ShowFilter, Requested, None
  <2> QED
    BY <1>1, <2>1 DEF Requested, files
<1>8. CASE PutFails
  BY <1>1, <1>8 DEF PutFails, Requested, files
<1>9. CASE ContainersAnswered
  <2>1. PICK list \in JsonLists, b \in BOOLEAN :
          importing = [at |-> "containers", list |-> list, pcap |-> b]
    BY <1>1, <1>9 DEF ContainersAnswered, Requested, None
  <2>2. importing' \in [at : {"containers", "worker", "behind"}, list : JsonLists, pcap : BOOLEAN]
    BY <1>9, <2>1 DEF ContainersAnswered
  <2> QED
    BY <1>1, <1>9, <2>2 DEF ContainersAnswered, Requested, connection
<1>10. CASE ImportAnswered
  <2>1. importing.list \in JsonLists /\ importing.pcap \in BOOLEAN
    BY <1>1, <1>10 DEF ImportAnswered, Requested, None
  <2> QED
    BY <1>1, <1>10, <2>1 DEF ImportAnswered, ShowFile, Requested, connection
<1>11. CASE ImportFails
  BY <1>1, <1>11 DEF ImportFails, Requested, connection
<1>12. ASSUME FilterDone
       PROVE  filtering' = <<>> /\ importing' \in {None} \cup
                [at : {"containers", "worker", "behind"}, list : JsonLists, pcap : BOOLEAN]
  <2>1. CASE importing.at = "behind"
    <3>1. PICK list \in JsonLists, b \in BOOLEAN :
            importing = [at |-> "behind", list |-> list, pcap |-> b]
      BY <1>1, <2>1 DEF Requested, None
    <3> QED
      BY <1>12, <2>1, <3>1 DEF FilterDone
  <2>2. CASE importing.at # "behind"
    BY <1>1, <1>12, <2>2 DEF FilterDone, Requested
  <2> QED
    BY <2>1, <2>2
<1>13. ASSUME NEW matching \in SUBSET Stamps, FilterAnswered(matching)
       PROVE  Requested'
  <2>1. filtering' = <<>> /\ importing' \in {None} \cup
          [at : {"containers", "worker", "behind"}, list : JsonLists, pcap : BOOLEAN]
    BY <1>12, <1>13 DEF FilterAnswered
  <2> QED
    BY <1>1, <1>13, <2>1 DEF FilterAnswered, ShowFile, Requested, connection
<1>14. CASE FilterFails
  <2>1. filtering' = <<>> /\ importing' \in {None} \cup
          [at : {"containers", "worker", "behind"}, list : JsonLists, pcap : BOOLEAN]
    BY <1>12, <1>14 DEF FilterFails
  <2> QED
    BY <1>1, <1>14, <2>1 DEF FilterFails, Requested, connection
<1>15. ASSUME NEW f \in AllFilters, PutFilter(f) PROVE Requested'
  BY <1>1, <1>15 DEF PutFilter, Requested, files
<1>16. ASSUME NEW s \in Speeds, SetSpeed(s) PROVE Requested'
  BY <1>1, <1>16 DEF SetSpeed, Requested, pageVars, connection, files
<1>17. ASSUME NEW list \in JsonLists, NEW withPcap \in BOOLEAN, ImportFile(list, withPcap)
       PROVE  Requested'
  BY <1>1, <1>17 DEF ImportFile, Requested, connection
<1>18. CASE OfflineFilter
  BY <1>1, <1>18 DEF OfflineFilter, Requested, connection
<1>19. CASE ClearOfflineFilter
  BY <1>1, <1>19 DEF ClearOfflineFilter, ShowFile, Requested, connection
<1>20. CASE Clear
  BY <1>1, <1>20 DEF Clear, Requested, connection, Overlaps
<1>21. CASE Unmount
  <2>1. importing' \in {None, importing} /\ filtering' = <<>> /\ mounted' = FALSE
    BY <1>21 DEF Unmount
  <2> QED
    BY <1>1, <1>21, <2>1 DEF Unmount, Requested, connection
<1> QED
  BY <1>2, <1>3, <1>4, <1>5, <1>6, <1>7, <1>8, <1>9, <1>10, <1>11, <1>13, <1>14, <1>15, <1>16,
     <1>17, <1>18, <1>19, <1>20, <1>21
     DEF PageNext, Requests, UserAsks

\* Who has the right answer.
LEMMA CaptureStep ==
  ASSUME PageInv, PageNext
  PROVE  CaptureInv'
<1>1. /\ Requested /\ PlaybackInv /\ Alive /\ CaptureInv /\ recording \in BOOLEAN
  BY DEF PageInv, PlaybackInv
<1>2. ASSUME UNCHANGED <<recording, capturing, speed, connection, stale>>
      PROVE  CaptureInv'
  BY <1>1, <1>2 DEF CaptureInv, connection
<1>3. CASE Play
  <2>1. mounted /\ PlaybackNext /\ UNCHANGED <<connection, stale>>
    BY <1>3 DEF Play, pageVars
  <2>2. UNCHANGED <<capturing, speed>> /\ (recording' => recording \/ capturing)
    BY <1>1, <2>1, PlaybackStep DEF Alive
  <2> QED
    BY <1>1, <2>1, <2>2 DEF CaptureInv, connection
<1>4. CASE GetRead
  <2>1. /\ get = [at |-> "asked"] /\ get' = [at |-> "read", filter |-> server]
        /\ UNCHANGED <<recording, capturing, speed, server, active, put, stale>>
    BY <1>1, <1>4 DEF GetRead, Requested, None, playback
  <2>2. get # None /\ get' # None /\ get'.filter = server
    BY <1>1, <2>1, NoRequest DEF Requested
  <2> QED
    BY <1>1, <2>1, <2>2 DEF CaptureInv
<1>5. CASE GetAnswered
  <2>1. /\ get # None /\ get.at = "read" /\ get' = None
        /\ active' = get.filter /\ capturing' = (get.filter # Off)
        /\ speed' = IF get.filter # Off THEN 1 ELSE speed
        /\ recording' = (recording /\ get.filter # Off)
        /\ UNCHANGED <<server, put, stale>>
    BY <1>5, NoRequest DEF GetAnswered, ShowFilter
  <2> QED
    BY <1>1, <2>1 DEF CaptureInv
<1>6. CASE GetFails
  <2>1. get' = None /\ stale' = TRUE /\ UNCHANGED <<recording, capturing, speed, server, active, put>>
    BY <1>6 DEF GetFails, playback
  <2> QED
    BY <1>1, <2>1 DEF CaptureInv
<1>7. CASE PutApplied
  <2>1. PICK f \in AllFilters : put = [at |-> "sent", filter |-> f]
    BY <1>1, <1>7 DEF PutApplied, Requested, None
  <2>2. /\ server' = f /\ put' = [at |-> "applied", filter |-> f]
        /\ UNCHANGED <<recording, capturing, speed, active, get, stale>>
    BY <1>7, <2>1 DEF PutApplied, playback
  <2>3. put # None /\ put' # None /\ put'.filter = f /\ put'.at = "applied"
    BY <2>1, <2>2, NoRequest
  <2> QED
    BY <1>1, <2>2, <2>3 DEF CaptureInv
<1>8. CASE PutAnswered
  <2>1. /\ put # None /\ put.at = "applied" /\ put' = None
        /\ active' = put.filter /\ capturing' = (put.filter # Off)
        /\ speed' = IF put.filter # Off THEN 1 ELSE speed
        /\ recording' = (recording /\ put.filter # Off)
        /\ stale' = (stale /\ get # None)
        /\ UNCHANGED <<server, get>>
    BY <1>8, NoRequest DEF PutAnswered, ShowFilter
  <2> QED
    BY <1>1, <2>1 DEF CaptureInv
<1>9. CASE PutFails
  <2>1. put' = None /\ stale' = TRUE /\ UNCHANGED <<recording, capturing, speed, server, active, get>>
    BY <1>9 DEF PutFails, playback
  <2> QED
    BY <1>1, <2>1 DEF CaptureInv
<1>10. CASE ContainersAnswered \/ ImportFails \/ FilterFails
  BY <1>2, <1>10 DEF ContainersAnswered, ImportFails, FilterFails, playback
<1>11. ASSUME recording' = FALSE, UNCHANGED <<capturing, speed, connection, stale>>
       PROVE  CaptureInv'
  BY <1>1, <1>11 DEF CaptureInv, connection
<1>12. CASE ImportAnswered
  BY <1>11, <1>12 DEF ImportAnswered, ShowFile, ImportEvents
<1>13. ASSUME NEW matching \in SUBSET Stamps, FilterAnswered(matching) PROVE CaptureInv'
  BY <1>11, <1>13 DEF FilterAnswered, ShowFile, ImportEvents
<1>14. ASSUME NEW f \in AllFilters, PutFilter(f) PROVE CaptureInv'
  <2>1. /\ put = None /\ put' = [at |-> "sent", filter |-> f] /\ stale' = (stale \/ get # None)
        /\ UNCHANGED <<recording, capturing, speed, server, active, get>>
    BY <1>14 DEF PutFilter, CanPut, CanSubmit, Submitting, playback
  <2>2. put' # None /\ put'.at = "sent"
    BY <2>1, NoRequest
  <2> QED
    BY <1>1, <2>1, <2>2 DEF CaptureInv
<1>15. ASSUME NEW s \in Speeds, SetSpeed(s) PROVE CaptureInv'
  <2>1. ~capturing /\ UNCHANGED <<recording, capturing, connection, stale>>
    BY <1>15 DEF SetSpeed, playback, pageVars
  <2> QED
    BY <1>1, <2>1 DEF CaptureInv, connection
<1>16. ASSUME NEW list \in JsonLists, NEW withPcap \in BOOLEAN, ImportFile(list, withPcap)
       PROVE  CaptureInv'
  BY <1>2, <1>16 DEF ImportFile, playback
<1>17. CASE OfflineFilter
  BY <1>2, <1>17 DEF OfflineFilter, playback
<1>18. CASE ClearOfflineFilter
  BY <1>11, <1>18 DEF ClearOfflineFilter, ShowFile, ImportEvents
<1>19. CASE Clear
  BY <1>2, <1>19 DEF Clear
<1>20. CASE Unmount
  BY <1>2, <1>20 DEF Unmount
<1> QED
  BY <1>3, <1>4, <1>5, <1>6, <1>7, <1>8, <1>9, <1>10, <1>12, <1>13, <1>14, <1>15, <1>16,
     <1>17, <1>18, <1>19, <1>20
     DEF PageNext, Requests, UserAsks

\* Without an overlap a file keeps out a capture.
LEMMA FilesStep ==
  ASSUME PageInv, PageNext
  PROVE  FilesInv'
<1>1. /\ Requested /\ PlaybackInv /\ Alive /\ CaptureInv /\ FilesInv
      /\ recording \in BOOLEAN /\ overlap \in BOOLEAN
  BY DEF PageInv, PlaybackInv, Requested
<1>2. CASE Play
  <2>1. mounted /\ PlaybackNext /\ UNCHANGED <<connection, files, overlap>>
    BY <1>2 DEF Play, pageVars
  <2>2. UNCHANGED <<capturing, speed>> /\ (packets' = packets \/ recording)
    BY <1>1, <2>1, PlaybackStep DEF Alive
  <2>3. recording => capturing
    BY <1>1 DEF CaptureInv
  <2> QED
    BY <1>1, <2>1, <2>2, <2>3 DEF FilesInv, connection, files
<1>3. CASE GetRead
  <2>1. get # None /\ UNCHANGED <<packets, capturing, put, files, overlap>>
    BY <1>3, NoRequest DEF GetRead, playback
  <2> QED
    BY <1>1, <2>1 DEF FilesInv, files
<1>4. CASE GetAnswered \/ GetFails
  <2>1. get # None /\ get' = None /\ UNCHANGED <<packets, put, files, overlap>>
    BY <1>4, NoRequest DEF GetAnswered, GetFails, playback
  <2> QED
    BY <1>1, <2>1 DEF FilesInv, files
<1>5. CASE PutApplied
  <2>1. put # None /\ UNCHANGED <<packets, capturing, get, files, overlap>>
    BY <1>5, NoRequest DEF PutApplied, playback
  <2> QED
    BY <1>1, <2>1 DEF FilesInv, files
<1>6. CASE PutAnswered \/ PutFails
  <2>1. put # None /\ put' = None /\ UNCHANGED <<packets, get, files, overlap>>
    BY <1>6, NoRequest DEF PutAnswered, PutFails, playback
  <2> QED
    BY <1>1, <2>1 DEF FilesInv, files
<1>7. CASE ContainersAnswered \/ ImportFails
  <2>1. importing # None /\ UNCHANGED <<packets, capturing, connection, imported, json, filtering, overlap>>
    BY <1>7, NoRequest DEF ContainersAnswered, ImportFails, playback
  <2> QED
    BY <1>1, <2>1 DEF FilesInv, connection
<1>8. CASE ImportAnswered
  <2>1. /\ importing # None /\ importing' = None /\ json' = importing.list
        /\ ShowFile(importing.list) /\ mode' = mode
        /\ UNCHANGED <<capturing, connection, filtering, overlap>>
    BY <1>8, NoRequest DEF ImportAnswered
  <2>2. importing.list \in Seq(Stamps)
    BY <1>1, <2>1, ListsArePackets DEF Requested
  <2>3. ToSet(packets') \subseteq ToSet(json')
    BY <2>1, <2>2, ShowFileKeeps
  <2> QED
    BY <1>1, <2>1, <2>3 DEF FilesInv, connection
<1>9. CASE \E matching \in SUBSET Stamps : FilterAnswered(matching)
  <2>1. PICK matching \in SUBSET Stamps : FilterAnswered(matching)
    BY <1>9
  <2>2. /\ filtering # <<>> /\ filtering' = <<>> /\ (importing = None => importing' = None)
        /\ ShowFile(Filtered(filtering, matching)) /\ mode' = mode
        /\ UNCHANGED <<capturing, connection, json, overlap>>
    BY <2>1, NoRequest DEF FilterAnswered, FilterDone
  <2>3. filtering \in Seq(Stamps)
    BY <1>1, ListsArePackets DEF Requested
  <2>4. ToSet(packets') \subseteq ToSet(filtering)
    BY <2>2, <2>3, FilteredPackets, ShowFileKeeps
  <2>5. ~overlap => importing = None /\ get = None /\ put = None
    BY <1>1, <2>2 DEF FilesInv
  <2> QED
    BY <1>1, <2>2, <2>4, <2>5 DEF FilesInv, connection
<1>10. CASE FilterFails
  <2>1. /\ filtering # <<>> /\ filtering' = <<>> /\ (importing = None => importing' = None)
        /\ UNCHANGED <<packets, capturing, connection, imported, json, overlap>>
    BY <1>10, NoRequest DEF FilterFails, FilterDone, playback
  <2> QED
    BY <1>1, <2>1 DEF FilesInv, connection
<1>11. ASSUME NEW f \in AllFilters, PutFilter(f) PROVE FilesInv'
  <2>1. /\ ~imported /\ overlap' = (overlap \/ Overlaps)
        /\ UNCHANGED <<packets, capturing, get, files>>
    BY <1>11 DEF PutFilter, CanPut, playback
  <2> QED
    BY <1>1, <2>1 DEF FilesInv, Overlaps, files
<1>12. ASSUME NEW s \in Speeds, SetSpeed(s) PROVE FilesInv'
  <2>1. UNCHANGED <<packets, capturing, connection, files, overlap>>
    BY <1>12 DEF SetSpeed, playback, pageVars
  <2> QED
    BY <1>1, <2>1 DEF FilesInv, connection, files
<1>13. ASSUME NEW list \in JsonLists, NEW withPcap \in BOOLEAN, ImportFile(list, withPcap)
       PROVE  FilesInv'
  <2>1. /\ ~capturing /\ overlap' = (overlap \/ Overlaps)
        /\ UNCHANGED <<packets, capturing, connection, imported, json, filtering>>
    BY <1>13 DEF ImportFile, playback
  <2> QED
    BY <1>1, <2>1 DEF FilesInv, Overlaps, connection
<1>14. CASE OfflineFilter
  <2>1. /\ imported /\ filtering' = json /\ overlap' = (overlap \/ Overlaps)
        /\ UNCHANGED <<packets, capturing, connection, imported, json, importing>>
    BY <1>14 DEF OfflineFilter, OfflineFilterAvailable, playback
  <2> QED
    BY <1>1, <2>1 DEF FilesInv, Overlaps, connection
<1>15. CASE ClearOfflineFilter
  <2>1. /\ imported /\ ShowFile(json) /\ mode' = mode
        /\ UNCHANGED <<capturing, connection, json, importing, filtering, overlap>>
    BY <1>15 DEF ClearOfflineFilter, OfflineFilterAvailable
  <2>2. json \in Seq(Stamps)
    BY <1>1, ListsArePackets DEF Requested
  <2>3. ToSet(packets') \subseteq ToSet(json) /\ imported' = TRUE
    BY <2>1, <2>2, ShowFileKeeps
  <2> QED
    BY <1>1, <2>1, <2>3 DEF FilesInv, connection
<1>16. CASE Clear
  <2>1. /\ imported' = FALSE /\ overlap' = Overlaps
        /\ UNCHANGED <<capturing, connection, importing, filtering>>
    BY <1>16 DEF Clear
  <2> QED
    BY <1>1, <2>1 DEF FilesInv, Overlaps, connection
<1>17. CASE Unmount
  <2>1. /\ importing' \in {None, importing} /\ filtering' = <<>>
        /\ UNCHANGED <<packets, capturing, connection, imported, json, overlap>>
    BY <1>17 DEF Unmount
  <2> QED
    BY <1>1, <2>1 DEF FilesInv, connection
<1> QED
  BY <1>2, <1>3, <1>4, <1>5, <1>6, <1>7, <1>8, <1>9, <1>10, <1>11, <1>12, <1>13, <1>14, <1>15,
     <1>16, <1>17
     DEF PageNext, Requests, UserAsks

\* The page begins at rest, with a request for the filter.
LEMMA PageStart ==
  PageInit => PageInv
<1> SUFFICES ASSUME PageInit PROVE PageInv
  OBVIOUS
<1>1. /\ player = Stopped /\ packets = <<>> /\ recording = FALSE /\ mode \in Modes
      /\ server \in AllFilters /\ active = Off /\ capturing = FALSE /\ speed = 1
      /\ get = [at |-> "asked"] /\ put = None
      /\ imported = FALSE /\ json = <<>> /\ pcap = FALSE
      /\ importing = None /\ filtering = <<>> /\ mounted = TRUE
      /\ overlap = FALSE /\ stale = FALSE
  BY DEF PageInit, PlaybackInit
<1>2. <<>> \in Seq(Stamps) /\ Len(<<>>) <= MaxEvents
  BY PlayerConstants
<1>3. PlayerInv(player) /\ GoesOn(player) /\ player.playlist = <<>> /\ player.enabled = FALSE
  BY <1>1, StoppedIsInv DEF Stopped
<1>4. PlaybackInv
  BY <1>1, <1>2, <1>3 DEF PlaybackInv, NeverBoth, PlaysItsPackets
<1>5. Alive
  BY <1>1, <1>3 DEF Alive
<1>6. Off \in AllFilters /\ 1 \in Speeds
  BY ListsArePackets DEF AllFilters
<1>7. Requested
  BY <1>1, <1>6 DEF Requested
<1>8. CaptureInv
  BY <1>1, NoRequest DEF CaptureInv
<1>9. FilesInv
  BY <1>1 DEF FilesInv
<1> QED
  BY <1>4, <1>5, <1>7, <1>8, <1>9 DEF PageInv

\* The inductive invariant of the traffic panel holds in every reachable state:
\* the player, the recording, the capture and the files agree on who may go on,
\* whatever answers of the server come late (TrafficReplayPanel.vue).
THEOREM PageInvariance ==
  PageSpec => []PageInv
<1>1. PageInv /\ [PageNext]_pageState => PageInv'
  <2>1. ASSUME PageInv, PageNext PROVE PageInv'
    BY <2>1, PlayerStep, RequestedStep, CaptureStep, FilesStep DEF PageInv
  <2>2. ASSUME PageInv, UNCHANGED pageState PROVE PageInv'
    <3>1. UNCHANGED <<player, packets, recording, mode, capturing, speed, server, active, get, put,
                      imported, json, pcap, importing, filtering, mounted, overlap, stale>>
      BY <2>2 DEF pageState, playback, pageVars, connection, files
    <3>2. PlaybackInv' /\ Alive'
      BY <2>2, <3>1 DEF PageInv, PlaybackInv, Alive, NeverBoth, PlaysItsPackets
    <3>3. Requested'
      BY <2>2, <3>1 DEF PageInv, Requested
    <3>4. CaptureInv' /\ FilesInv'
      BY <2>2, <3>1 DEF PageInv, CaptureInv, FilesInv
    <3> QED
      BY <3>2, <3>3, <3>4 DEF PageInv
  <2> QED
    BY <2>1, <2>2
<1> QED
  BY <1>1, PageStart, PTL DEF PageSpec

\* Type correctness and PageIsOrderly: whatever answers come while packets are
\* recorded or played, timers, list and position match the playback that is shown.
THEOREM PlaybackIsOrderly ==
  PageSpec => []PageIsOrderly
<1>1. PageInv => PageIsOrderly
  <2> SUFFICES ASSUME PageInv PROVE PageIsOrderly
    OBVIOUS
  <2>1. /\ PlayerInv(player) /\ Playable(player.playlist) /\ Alive /\ NeverBoth /\ PlaysItsPackets
        /\ player \in Players /\ packets \in Seq(Stamps) /\ Len(packets) <= MaxEvents
        /\ recording \in BOOLEAN /\ mode \in Modes /\ player.index <= Len(player.playlist)
    BY DEF PageInv, PlaybackInv, PlayerInv
  <2>2. PlaybackTypeOK
    BY <2>1 DEF PlaybackTypeOK, PlayerInv, Playable
  <2>3. PageTypeOK
    BY <2>2 DEF PageTypeOK, PageInv, Requested
  <2>4. QuietUnlessPlaying
    BY <2>1 DEF PlayerInv, QuietUnlessPlaying, Players
  <2>5. NoneSkipped
    BY <2>1 DEF PlayerInv, NoneSkipped
  <2>6. mounted => PlayingGoesOn
    BY <2>1 DEF Alive, GoesOn, PlayingGoesOn
  <2>7. ~mounted => player.timer = "none" /\ player.scheduled = {}
    BY <2>1 DEF Alive
  <2> QED
    BY <2>1, <2>3, <2>4, <2>5, <2>6, <2>7 DEF PageIsOrderly
<1> QED
  BY <1>1, PageInvariance, PTL

\* FilesExcludeCapture: unless one was asked for while the other was under way, a
\* file is not shown during a capture, and what is shown is the file's.
THEOREM FilesAndCaptureExclude ==
  PageSpec => []FilesExcludeCapture
<1>1. PageInv => FilesExcludeCapture
  BY DEF PageInv, FilesInv, FilesExcludeCapture
<1> QED
  BY <1>1, PageInvariance, PTL

\* CaptureIsShown: unless an answer was lost or overtaken, the panel shows the
\* collector's filter; recording needs a capture, and a capture the speed 1.
THEOREM PanelShowsCapture ==
  PageSpec => []CaptureIsShown
<1>1. PageInv => CaptureIsShown
  BY DEF PageInv, CaptureInv, CaptureIsShown
<1> QED
  BY <1>1, PageInvariance, PTL

-----------------------------------------------------------------------------
(* The task controller *)

USE ControllerAssumption DEF ControllerAssumption

\* The tasks of a queue without duplicates once its first one has left.
LEMMA Dequeued ==
  ASSUME NEW queue \in Seq(Tasks), queue # <<>>,
         \A i, j \in DOMAIN queue : queue[i] = queue[j] => i = j
  PROVE  /\ Head(queue) \in Elements(queue)
         /\ Tail(queue) \in Seq(Tasks)
         /\ Elements(Tail(queue)) = Elements(queue) \ {Head(queue)}
         /\ \A i, j \in DOMAIN Tail(queue) : Tail(queue)[i] = Tail(queue)[j] => i = j
<1> DEFINE rest == Tail(queue)
<1>1. /\ rest \in Seq(Tasks)
      /\ Len(rest) = Len(queue) - 1
      /\ Len(queue) \in Nat \ {0}
      /\ Head(queue) = queue[1]
      /\ \A i \in 1 .. Len(rest) : rest[i] = queue[i + 1]
  BY HeadTailProperties, EmptySeq
<1>2. DOMAIN queue = 1 .. Len(queue) /\ DOMAIN rest = 1 .. Len(rest)
  BY <1>1
<1> HIDE DEF rest
<1>3. Head(queue) \in Elements(queue)
  BY <1>1, <1>2 DEF Elements
<1>4. Elements(rest) = Elements(queue) \ {Head(queue)}
  <2>1. ASSUME NEW i \in DOMAIN rest
        PROVE  rest[i] \in Elements(queue) \ {Head(queue)}
    <3>1. i + 1 \in DOMAIN queue /\ 1 \in DOMAIN queue /\ i + 1 # 1 /\ rest[i] = queue[i + 1]
      BY <1>1, <1>2
    <3> QED BY <3>1, <1>1 DEF Elements
  <2>2. ASSUME NEW j \in DOMAIN queue, queue[j] # Head(queue)
        PROVE  queue[j] \in Elements(rest)
    <3>1. j - 1 \in DOMAIN rest /\ rest[j - 1] = queue[j]
      BY <1>1, <1>2, <2>2
    <3> QED BY <3>1 DEF Elements
  <2> QED BY <2>1, <2>2 DEF Elements
<1>5. ASSUME NEW i \in DOMAIN rest, NEW j \in DOMAIN rest, rest[i] = rest[j]
      PROVE  i = j
  <2>1. i + 1 \in DOMAIN queue /\ j + 1 \in DOMAIN queue
    BY <1>1, <1>2
  <2>2. queue[i + 1] = queue[j + 1]
    BY <1>1, <1>2, <1>5
  <2>3. i + 1 = j + 1
    BY <2>1, <2>2
  <2> QED BY <2>3, <1>2, <1>1
<1> QED BY <1>1, <1>3, <1>4, <1>5 DEF rest

\* A queue that a task outside it joins.
LEMMA Enqueued ==
  ASSUME NEW queue \in Seq(Tasks), NEW t \in Tasks, t \notin Elements(queue),
         \A i, j \in DOMAIN queue : queue[i] = queue[j] => i = j
  PROVE  /\ Append(queue, t) \in Seq(Tasks)
         /\ Elements(Append(queue, t)) = Elements(queue) \cup {t}
         /\ \A i, j \in DOMAIN Append(queue, t) :
              Append(queue, t)[i] = Append(queue, t)[j] => i = j
<1> DEFINE longer == Append(queue, t)
<1>1. /\ longer \in Seq(Tasks)
      /\ Len(longer) = Len(queue) + 1
      /\ Len(queue) \in Nat
      /\ longer[Len(queue) + 1] = t
      /\ \A i \in 1 .. Len(queue) : longer[i] = queue[i]
  BY AppendProperties
<1>2. DOMAIN queue = 1 .. Len(queue) /\ DOMAIN longer = 1 .. Len(queue) + 1
  BY <1>1
<1> HIDE DEF longer
<1>3. Elements(longer) = Elements(queue) \cup {t}
  <2>1. ASSUME NEW i \in DOMAIN longer
        PROVE  longer[i] \in Elements(queue) \cup {t}
    <3>1. CASE i = Len(queue) + 1  BY <3>1, <1>1
    <3>2. CASE i \in DOMAIN queue  BY <3>2, <1>1, <1>2 DEF Elements
    <3> QED BY <3>1, <3>2, <1>1, <1>2
  <2>2. ASSUME NEW j \in DOMAIN queue
        PROVE  queue[j] \in Elements(longer)
    <3>1. j \in DOMAIN longer /\ longer[j] = queue[j]
      BY <1>1, <1>2
    <3> QED BY <3>1 DEF Elements
  <2>3. t \in Elements(longer)
    <3>1. Len(queue) + 1 \in DOMAIN longer
      BY <1>1, <1>2
    <3> QED BY <3>1, <1>1 DEF Elements
  <2> QED BY <2>1, <2>2, <2>3 DEF Elements
<1>4. ASSUME NEW i \in DOMAIN longer, NEW j \in DOMAIN longer, longer[i] = longer[j]
      PROVE  i = j
  <2>1. \A k \in DOMAIN queue : longer[k] = queue[k] /\ longer[k] # t
    BY <1>1, <1>2 DEF Elements
  <2>2. CASE i \in DOMAIN queue /\ j \in DOMAIN queue
    BY <2>2, <2>1, <1>4
  <2>3. CASE i \notin DOMAIN queue \/ j \notin DOMAIN queue
    <3>1. \A k \in DOMAIN longer : k \notin DOMAIN queue => k = Len(queue) + 1
      BY <1>1, <1>2
    <3> QED BY <2>3, <3>1, <2>1, <1>1, <1>4
  <2> QED BY <2>2, <2>3
<1> QED BY <1>1, <1>3, <1>4 DEF longer

-----------------------------------------------------------------------------

\* The part of TypeOK about who waits for what.
Waiting ==
  /\ pc \in [Tasks -> {"new", "waiting", "resolving", "opening", "running", "returned", "failed"}]
  /\ unresolved = {t \in Tasks : pc[t] = "running"}
  /\ pending \in Seq(Tasks)
  /\ Elements(pending) = {t \in Tasks : pc[t] = "waiting"}
  /\ \A i, j \in DOMAIN pending : pending[i] = pending[j] => i = j
  /\ woken \subseteq Tasks

\* The part about sessions, streams and buffers.
Held ==
  /\ sessions \in [Nodes -> Tasks \cup {Nothing}]
  /\ writable \subseteq opened
  /\ opened \subseteq Tasks
  /\ inbox \in [Tasks -> Seq(Tasks)]
  /\ output \in [Tasks -> Seq(Marks)]
  /\ buffer \in [Nodes -> Tasks \cup {Nothing}]
  /\ broken \in BOOLEAN
  /\ faults \in Nat

\* The type invariant in two parts.
LEMMA Parts == (TypeOK <=> Waiting /\ Held) /\ (TypeOK' <=> Waiting' /\ Held')
BY DEF TypeOK, Waiting, Held

\* A result resolves its promise and wakes the head of the queue, which is
\* another task.
LEMMA ResolveWakes ==
  ASSUME Waiting, NEW t \in Tasks, Resolve(t)
  PROVE  /\ Waiting'
         /\ \/ pending' = <<>>
            \/ UNCHANGED <<pc, unresolved, pending, woken>>
            \/ \E u \in woken' : pc'[u] = "resolving"
<1>1. CASE t \notin unresolved
  BY <1>1 DEF Resolve, Waiting, Elements
<1>2. CASE t \in unresolved /\ pending = <<>>
  <2>1. /\ unresolved' = unresolved \ {t}
        /\ pc' = [pc EXCEPT ![t] = "returned"]
        /\ UNCHANGED <<pending, woken>>
    BY <1>2 DEF Resolve
  <2> QED BY <2>1, <1>2 DEF Waiting, Elements
<1>3. CASE t \in unresolved /\ pending # <<>>
  <2> DEFINE u == Head(pending)
  <2>1. /\ unresolved' = unresolved \ {t}
        /\ pc' = [pc EXCEPT ![t] = "returned", ![u] = "resolving"]
        /\ pending' = Tail(pending)
        /\ woken' = woken \cup {u}
    BY <1>3 DEF Resolve
  <2>2. /\ u \in Elements(pending)
        /\ pending' \in Seq(Tasks)
        /\ Elements(pending') = Elements(pending) \ {u}
        /\ \A i, j \in DOMAIN pending' : pending'[i] = pending'[j] => i = j
    BY <1>3, <2>1, Dequeued DEF Waiting
  <2>3. u \in Tasks /\ pc[u] = "waiting" /\ u # t
    BY <2>2, <1>3 DEF Waiting
  <2> HIDE DEF u
  <2>4. /\ pc'[u] = "resolving"
        /\ pc'[t] = "returned"
        /\ \A r \in Tasks : r # u /\ r # t => pc'[r] = pc[r]
        /\ pc' \in [Tasks -> {"new", "waiting", "resolving", "opening", "running", "returned", "failed"}]
    BY <2>1, <2>3 DEF Waiting
  <2>5. unresolved' = {r \in Tasks : pc'[r] = "running"}
    BY <2>1, <2>3, <2>4 DEF Waiting
  <2>6. Elements(pending') = {r \in Tasks : pc'[r] = "waiting"}
    BY <1>3, <2>2, <2>3, <2>4 DEF Waiting
  <2>7. Elements(pending') = Elements(pending)'
    BY DEF Elements
  <2>8. woken' \subseteq Tasks /\ u \in woken'
    BY <2>1, <2>3 DEF Waiting
  <2> QED BY <2>2, <2>4, <2>5, <2>6, <2>7, <2>8 DEF Waiting
<1> QED BY <1>1, <1>2, <1>3

\* A task that neither waits nor is joined by another changes where it is.
LEMMA Moves ==
  ASSUME Waiting, NEW t \in Tasks, pc[t] \notin {"waiting", "running"},
         NEW label \in {"resolving", "opening", "running", "failed"},
         pc' = [pc EXCEPT ![t] = label],
         unresolved' = IF label = "running" THEN unresolved \cup {t} ELSE unresolved,
         UNCHANGED <<pending, woken>>
  PROVE  Waiting'
<1>1. /\ pc'[t] = label
      /\ \A r \in Tasks : r # t => pc'[r] = pc[r]
      /\ pc' \in [Tasks -> {"new", "waiting", "resolving", "opening", "running", "returned", "failed"}]
  BY DEF Waiting
<1>2. unresolved' = {r \in Tasks : pc'[r] = "running"}
  BY <1>1 DEF Waiting
<1>3. Elements(pending)' = {r \in Tasks : pc'[r] = "waiting"}
  BY <1>1 DEF Waiting, Elements
<1> QED BY <1>1, <1>2, <1>3 DEF Waiting

\* Nothing waits and nothing is held when the controller starts.
LEMMA InitTypeOK == Init => TypeOK
<1> SUFFICES ASSUME Init PROVE TypeOK
  OBVIOUS
<1>1. Elements(pending) = {} /\ pending \in Seq(Tasks)
  BY DEF Init, Elements
<1>2. Waiting
  <2>1. pc \in [Tasks -> {"new", "waiting", "resolving", "opening", "running", "returned", "failed"}]
    BY DEF Init
  <2>2. \A t \in Tasks : pc[t] = "new"
    BY DEF Init
  <2>3. unresolved = {t \in Tasks : pc[t] = "running"}
    BY <2>2 DEF Init
  <2>4. Elements(pending) = {t \in Tasks : pc[t] = "waiting"}
    BY <2>2, <1>1
  <2>5. DOMAIN pending = {}
    BY DEF Init
  <2>6. woken = {}
    BY DEF Init
  <2> QED BY <2>1, <2>3, <2>4, <2>5, <2>6, <1>1 DEF Waiting
<1>3. Held
  <2>1. <<>> \in Seq(Tasks) /\ <<>> \in Seq(Marks)
    OBVIOUS
  <2>2. inbox \in [Tasks -> Seq(Tasks)] /\ output \in [Tasks -> Seq(Marks)]
    BY <2>1 DEF Init
  <2>3. buffer \in [Nodes -> Tasks \cup {Nothing}] /\ sessions \in [Nodes -> Tasks \cup {Nothing}]
    BY DEF Init
  <2>4. writable = {} /\ opened = {} /\ broken = FALSE /\ faults = 0
    BY DEF Init
  <2> QED BY <2>2, <2>3, <2>4 DEF Held
<1> QED BY <1>2, <1>3, Parts

-----------------------------------------------------------------------------

\* Marks that are delivered were written, so they name tasks.
LEMMA Delivered ==
  ASSUME TypeOK, NEW s \in Tasks, NEW k \in {1, 2}, Deliver(s, k)
  PROVE  /\ output' \in [Tasks -> Seq(Marks)]
         /\ Head(output[s]) \in Marks
         /\ Head(output[s]).task \in Tasks
<1>1. output[s] \in Seq(Marks) /\ Len(output[s]) >= k
  BY DEF TypeOK, Deliver
<1>2. output[s] # <<>> /\ Head(output[s]) \in Marks
  BY <1>1, EmptySeq, HeadTailProperties
<1>3. SubSeq(output[s], k + 1, Len(output[s])) \in Seq(Marks)
  BY <1>1, SubSeqProperties
<1>4. output' \in [Tasks -> Seq(Marks)]
  BY <1>3 DEF Deliver, TypeOK
<1> QED BY <1>2, <1>4 DEF Marks

\* What a 'data' event does to the promises and to the queue.
LEMMA DataResolves ==
  ASSUME TypeOK, NEW s \in Tasks, DataBegin(s) \/ DataEnd(s) \/ DataWhole(s)
  PROVE  /\ NoResult \/ \E t \in Tasks : Resolve(t)
         /\ Held'
         /\ UNCHANGED broken
<1>1. NodeOf(s) \in Nodes /\ buffer \in [Nodes -> Tasks \cup {Nothing}]
  BY DEF TypeOK
<1>2. CASE DataBegin(s)
  <2>1. /\ output' \in [Tasks -> Seq(Marks)]
        /\ Head(output[s]).task \in Tasks
    BY <1>2, Delivered DEF DataBegin
  <2> QED BY <2>1, <1>1, <1>2, Parts DEF DataBegin, Deliver, Held, table
<1>3. CASE DataEnd(s)
  <2>1. output' \in [Tasks -> Seq(Marks)]
    BY <1>3, Delivered DEF DataEnd
  <2>2. Held' /\ UNCHANGED broken
    BY <2>1, <1>1, <1>3, Parts DEF DataEnd, Deliver, Held, table
  <2>3. NoResult \/ \E t \in Tasks : Resolve(t)
    BY <1>1, <1>3 DEF DataEnd
  <2> QED BY <2>2, <2>3
<1>4. CASE DataWhole(s)
  <2>1. /\ output' \in [Tasks -> Seq(Marks)]
        /\ Head(output[s]).task \in Tasks
    BY <1>4, Delivered DEF DataWhole
  <2>2. Held' /\ UNCHANGED broken
    BY <2>1, <1>1, <1>4, Parts DEF DataWhole, Deliver, Held, table
  <2> QED BY <2>1, <2>2, <1>4 DEF DataWhole
<1> QED BY <1>2, <1>3, <1>4

\* A command written to a session is a task's, and the task has a promise.
LEMMA Sent ==
  ASSUME TypeOK, NEW t \in Tasks, pc[t] \in {"resolving", "opening"},
         NEW session \in Tasks, Send(t, session), UNCHANGED <<pending, woken>>
  PROVE  /\ Waiting'
         /\ inbox' \in [Tasks -> Seq(Tasks)]
         /\ unresolved' # {}
<1>1. Waiting'
  <2>1. Waiting /\ pc[t] \notin {"waiting", "running"}
    BY Parts
  <2> DEFINE label == "running"
  <2>2. /\ pc' = [pc EXCEPT ![t] = label]
        /\ unresolved' = IF label = "running" THEN unresolved \cup {t} ELSE unresolved
    BY DEF Send
  <2>3. label \in {"resolving", "opening", "running", "failed"}
    OBVIOUS
  <2> HIDE DEF label
  <2> QED BY <2>1, <2>2, <2>3, Moves
<1>2. Append(inbox[session], t) \in Seq(Tasks)
  BY AppendProperties DEF TypeOK
<1> QED BY <1>1, <1>2 DEF Send, TypeOK

\* One step.
LEMMA Step ==
  ASSUME TypeOK, NoLostWakeup, [Next]_vars
  PROVE  TypeOK' /\ NoLostWakeup'
<1>0. Waiting /\ Held
  BY Parts
<1>1. ASSUME NEW t \in Tasks, Run(t)
      PROVE  TypeOK' /\ NoLostWakeup'
  <2>1. Held'
    BY <1>0, <1>1 DEF Run, Held, table, streams
  <2>2. CASE unresolved = {}
    <3>1. /\ pc' = [pc EXCEPT ![t] = "resolving"]
          /\ UNCHANGED <<pending, unresolved, woken, broken>>
      BY <1>1, <2>2 DEF Run
    <3>2. Waiting'
      BY <1>0, <1>1, <3>1, Moves DEF Run
    <3>3. pc'[t] = "resolving" /\ \A r \in Tasks : r # t => pc'[r] = pc[r]
      BY <1>0, <3>1 DEF Waiting
    <3> QED BY <1>0, <2>1, <3>1, <3>2, <3>3, Parts DEF NoLostWakeup, Waiting
  <2>3. CASE unresolved # {}
    <3>1. /\ pc' = [pc EXCEPT ![t] = "waiting"]
          /\ pending' = Append(pending, t)
          /\ UNCHANGED <<unresolved, woken>>
      BY <1>1, <2>3 DEF Run
    <3>2. t \notin Elements(pending)
      BY <1>0, <1>1 DEF Run, Waiting
    <3>3. /\ pending' \in Seq(Tasks)
          /\ Elements(pending)' = Elements(pending) \cup {t}
          /\ \A i, j \in DOMAIN pending' : pending'[i] = pending'[j] => i = j
      <4>1. /\ Append(pending, t) \in Seq(Tasks)
            /\ Elements(Append(pending, t)) = Elements(pending) \cup {t}
            /\ \A i, j \in DOMAIN Append(pending, t) :
                 Append(pending, t)[i] = Append(pending, t)[j] => i = j
        BY <1>0, <3>2, Enqueued DEF Waiting
      <4>2. Elements(pending)' = Elements(pending')
        BY DEF Elements
      <4> QED BY <4>1, <4>2, <3>1
    <3>4. /\ pc'[t] = "waiting"
          /\ \A r \in Tasks : r # t => pc'[r] = pc[r]
          /\ pc' \in [Tasks -> {"new", "waiting", "resolving", "opening", "running", "returned", "failed"}]
      BY <1>0, <3>1 DEF Waiting
    <3>5. unresolved' = {r \in Tasks : pc'[r] = "running"}
      BY <1>0, <1>1, <3>1, <3>4 DEF Waiting, Run
    <3>6. Elements(pending)' = {r \in Tasks : pc'[r] = "waiting"}
      BY <1>0, <1>1, <3>3, <3>4 DEF Waiting, Run
    <3>7. Waiting'
      BY <1>0, <3>1, <3>3, <3>4, <3>5, <3>6 DEF Waiting
    <3> QED BY <2>1, <2>3, <3>1, <3>7, Parts DEF NoLostWakeup
  <2> QED BY <2>2, <2>3
<1>2. ASSUME NEW t \in Tasks, FindSession(t)
      PROVE  TypeOK' /\ NoLostWakeup'
  <2> DEFINE session == sessions[NodeOf(t)]
  <2>1. CASE session \in writable
    <3>1. session \in Tasks /\ Send(t, session) /\ pc[t] = "resolving"
      BY <1>0, <1>2, <2>1 DEF FindSession, Held
    <3>2. UNCHANGED <<pending, table, output, buffer, woken, broken, faults>>
      BY <1>2 DEF FindSession
    <3> HIDE DEF session
    <3>3. Waiting' /\ inbox' \in [Tasks -> Seq(Tasks)] /\ unresolved' # {}
      BY <3>1, <3>2, Sent
    <3>4. Held'
      BY <1>0, <3>2, <3>3 DEF Held, table
    <3> QED BY <3>3, <3>4, Parts DEF NoLostWakeup
  <2>2. CASE session \notin writable
    <3>1. /\ pc[t] = "resolving"
          /\ pc' = [pc EXCEPT ![t] = "opening"]
          /\ UNCHANGED <<unresolved, pending, table, streams, woken, broken, faults>>
      BY <1>2, <2>2 DEF FindSession, streams
    <3> HIDE DEF session
    <3>2. Waiting'
      BY <1>0, <3>1, Moves
    <3>3. Held'
      BY <1>0, <3>1 DEF Held, table, streams
    <3>4. pc'[t] = "opening" /\ \A r \in Tasks : r # t => pc'[r] = pc[r]
      BY <1>0, <3>1 DEF Waiting
    <3>5. NoLostWakeup'
      BY <1>0, <3>1, <3>4 DEF NoLostWakeup, Waiting
    <3> QED BY <3>2, <3>3, <3>5, Parts
  <2> QED BY <2>1, <2>2
<1>3. ASSUME NEW t \in Tasks, SessionOpens(t)
      PROVE  TypeOK' /\ NoLostWakeup'
  <2>1. Waiting' /\ inbox' \in [Tasks -> Seq(Tasks)] /\ unresolved' # {}
    BY <1>3, Sent DEF SessionOpens
  <2>2. Held'
    BY <1>0, <1>3, <2>1 DEF SessionOpens, Held
  <2> QED BY <2>1, <2>2, Parts DEF NoLostWakeup
<1>4. ASSUME NEW t \in Tasks, GetSessionFails(t)
      PROVE  TypeOK' /\ NoLostWakeup'
  <2>1. /\ pc[t] \in {"resolving", "opening"}
        /\ pc' = [pc EXCEPT ![t] = "failed"]
        /\ UNCHANGED <<unresolved, pending, woken>>
    BY <1>4 DEF GetSessionFails
  <2>2. Waiting'
    BY <1>0, <2>1, Moves
  <2>3. broken' \in BOOLEAN
    BY <1>4 DEF GetSessionFails
  <2>4. Held'
    BY <1>0, <1>4, <2>3 DEF GetSessionFails, Failure, Held, table, streams
  <2>5. \A r \in Tasks : r # t => pc'[r] = pc[r]
    BY <1>0, <2>1 DEF Waiting
  <2>6. CASE t \in woken
    BY <1>4, <2>2, <2>4, <2>6, Parts DEF GetSessionFails, NoLostWakeup
  <2>7. CASE t \notin woken
    <3>1. broken' <=> broken
      BY <1>4, <2>7 DEF GetSessionFails
    <3>2. NoLostWakeup'
      BY <1>0, <2>1, <2>5, <2>7, <3>1 DEF NoLostWakeup, Waiting
    <3> QED BY <2>2, <2>4, <3>2, Parts
  <2> QED BY <2>6, <2>7
<1>5. ASSUME NEW s \in Tasks, DataBegin(s) \/ DataEnd(s) \/ DataWhole(s)
      PROVE  TypeOK' /\ NoLostWakeup'
  <2>1. /\ NoResult \/ \E t \in Tasks : Resolve(t)
        /\ Held'
        /\ UNCHANGED broken
    BY <1>5, DataResolves
  <2>2. CASE NoResult
    <3>1. Waiting'
      BY <1>0, <2>2 DEF NoResult, Waiting, Elements
    <3> QED BY <2>1, <2>2, <3>1, Parts DEF NoResult, NoLostWakeup
  <2>3. ASSUME NEW t \in Tasks, Resolve(t)
        PROVE  TypeOK' /\ NoLostWakeup'
    <3>1. /\ Waiting'
          /\ \/ pending' = <<>>
             \/ UNCHANGED <<pc, unresolved, pending, woken>>
             \/ \E u \in woken' : pc'[u] = "resolving"
      BY <1>0, <2>3, ResolveWakes
    <3>2. NoLostWakeup'
      BY <2>1, <3>1 DEF NoLostWakeup
    <3> QED BY <2>1, <3>1, <3>2, Parts
  <2> QED BY <2>1, <2>2, <2>3
<1>6. ASSUME NEW s \in Tasks, WorkerAnswers(s)
      PROVE  TypeOK' /\ NoLostWakeup'
  <2>1. inbox[s] \in Seq(Tasks) /\ inbox[s] # <<>> /\ output[s] \in Seq(Marks)
    BY <1>0, <1>6 DEF WorkerAnswers, Held
  <2>2. Head(inbox[s]) \in Tasks /\ Tail(inbox[s]) \in Seq(Tasks)
    BY <2>1, EmptySeq, HeadTailProperties
  <2> DEFINE marks == <<[mark |-> "begin", task |-> Head(inbox[s])],
                        [mark |-> "end", task |-> Head(inbox[s])]>>
  <2>3. marks \in Seq(Marks)
    BY <2>2 DEF Marks
  <2>4. /\ inbox' = [inbox EXCEPT ![s] = Tail(@)]
        /\ output' = [output EXCEPT ![s] = @ \o marks]
        /\ UNCHANGED <<pc, unresolved, pending, table, buffer, woken, broken, faults>>
    BY <1>6 DEF WorkerAnswers
  <2> HIDE DEF marks
  <2>5. output[s] \o marks \in Seq(Marks)
    BY <2>1, <2>3, ConcatProperties
  <2>6. inbox' \in [Tasks -> Seq(Tasks)] /\ output' \in [Tasks -> Seq(Marks)]
    BY <1>0, <2>2, <2>4, <2>5 DEF Held
  <2>7. Held'
    BY <1>0, <2>4, <2>6 DEF Held, table
  <2>8. Waiting' /\ NoLostWakeup'
    BY <1>0, <2>4 DEF Waiting, Elements, NoLostWakeup
  <2> QED BY <2>7, <2>8, Parts
<1>7. ASSUME NEW s \in Tasks, SessionEnds(s)
      PROVE  TypeOK' /\ NoLostWakeup'
  <2>1. <<>> \in Seq(Tasks) /\ <<>> \in Seq(Marks)
    OBVIOUS
  <2>2. inbox' \in [Tasks -> Seq(Tasks)] /\ output' \in [Tasks -> Seq(Marks)]
    BY <1>0, <1>7, <2>1 DEF SessionEnds, Held
  <2>3. Held'
    BY <1>0, <1>7, <2>2 DEF SessionEnds, Failure, Held
  <2>4. Waiting' /\ NoLostWakeup'
    BY <1>0, <1>7 DEF SessionEnds, Waiting, Elements, NoLostWakeup
  <2> QED BY <2>3, <2>4, Parts
<1>8. CASE UNCHANGED vars
  <2>1. Held'
    BY <1>0, <1>8 DEF Held, vars, table, streams
  <2>2. Waiting' /\ NoLostWakeup'
    BY <1>0, <1>8 DEF vars, Waiting, Elements, NoLostWakeup
  <2> QED BY <2>1, <2>2, Parts
<1>9. CASE Next
  <2>1. PICK r \in Tasks :
          \/ Run(r) \/ FindSession(r) \/ SessionOpens(r) \/ GetSessionFails(r)
          \/ WorkerAnswers(r) \/ SessionEnds(r)
          \/ DataBegin(r) \/ DataEnd(r) \/ DataWhole(r)
    BY <1>9 DEF Next, GetSession, Stream
  <2> QED BY <2>1, <1>1, <1>2, <1>3, <1>4, <1>5, <1>6, <1>7
<1> QED BY <1>8, <1>9

\* Every variable keeps its type and the two lists of the controller hold exactly
\* the tasks that await a result and those that await their turn
\* (controller.ts:40-61), however many tasks there are.
THEOREM TypeCorrect == Spec => []TypeOK
<1>1. Init => TypeOK /\ NoLostWakeup
  <2>1. Init => NoLostWakeup
    BY DEF Init, NoLostWakeup
  <2> QED BY <2>1, InitTypeOK
<1>2. TypeOK /\ NoLostWakeup /\ [Next]_vars => (TypeOK /\ NoLostWakeup)'
  BY Step
<1> QED BY <1>1, <1>2, PTL DEF Spec

\* A waiting task always has another that will wake it (controller.ts:161-164),
\* unless a task that was woken failed to get its session.
THEOREM NeverStranded == Spec => []NoLostWakeup
<1>1. Init => TypeOK /\ NoLostWakeup
  <2>1. Init => NoLostWakeup
    BY DEF Init, NoLostWakeup
  <2> QED BY <2>1, InitTypeOK
<1>2. TypeOK /\ NoLostWakeup /\ [Next]_vars => (TypeOK /\ NoLostWakeup)'
  BY Step
<1> QED BY <1>1, <1>2, PTL DEF Spec
=============================================================================
