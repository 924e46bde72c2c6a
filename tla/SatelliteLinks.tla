--------------------------- MODULE SatelliteLinks ---------------------------
(***************************************************************************)
(* The links the satellite map shows.  POST /links of the satellite        *)
(* service (api/v1/satellite/index.ts) reads a file and sends it to every  *)
(* page; satelliteDataSource.ts makes a timeline of it, which follows the  *)
(* clock of the page; the handlers of useStarlinkDataBootstrap.ts show the *)
(* links of a frame, and useStarlinkSelection.ts lets the user remove      *)
(* satellites and ground stations from what is shown.                      *)
(*                                                                         *)
(* A file is a sequence of requests [timestamp, interval, links], each     *)
(* entry of links the ground and the satellite links of one frame.  The    *)
(* interval 0 stands for every text parseMilliseconds makes nothing of:    *)
(* the service asks only for a string.  Files it refuses are not sent.     *)
(*                                                                         *)
(* page is the state one handler changes.  Vue runs the watcher of now     *)
(* some time after now was set, once for all the times it was set.         *)
(* visibleOrbitIds, the selected satellite and the list of timeline events *)
(* decide what is drawn beside the links, and are left out.                *)
(***************************************************************************)
EXTENDS Integers, SequencesExt, Lists

CONSTANTS
  Satellites,
  Stations,
  Times,      (* simulation times *)
  Files,      (* links files the service accepts *)
  MaxSent     (* bound: messages on their way to the page *)

\* A link between satellites is the set of its two ends.
Updates == [ground : SUBSET (Satellites \X Stations), isl : SUBSET {{s, t} : s, t \in Satellites}]

Frames == [start : Nat, stop : Nat, update : Updates, request : Nat, group : Nat]

ASSUME LinksAssumption ==
  /\ Times \subseteq Nat
  /\ MaxSent \in Nat \ {0}
  /\ Files \subseteq Seq([timestamp : Times, interval : Nat, links : Seq(Updates)])

VARIABLES
  page,
  now,      (* the simulation clock *)
  watch,    (* the watcher of now is due *)
  socket,   (* of the data source: "none", "open" or "closed" *)
  sent,     (* messages on their way *)
  loading,  (* onMounted awaits orbits and ground stations *)
  onMap     (* mounted *)

linksVars == <<page, now, watch, socket, sent, loading, onMap>>

\* The fields are refs of the page and fields of the data source, but for
\*   blank  history: a message that could not be used emptied the map
Fresh ==
  [frames |-> <<>>, active |-> 0, completed |-> TRUE,
   ground |-> {}, linked |-> {}, isl |-> {},
   hidden |-> {}, hiddenIsl |-> {}, hiddenStations |-> {}, selected |-> {},
   blank |-> FALSE]

LinksInit ==
  /\ page = Fresh
  /\ now \in Times
  /\ watch = FALSE
  /\ socket = "none" /\ sent = <<>>
  /\ loading = TRUE /\ onMap = TRUE

-----------------------------------------------------------------------------
(* Frames *)

\* The frames of a file, by their start; those that start together keep the
\* order of the file.
FramesOf(file) ==
  LET At(r, g) == [start |-> file[r].timestamp + (g - 1) * file[r].interval,
                   stop |-> file[r].timestamp + g * file[r].interval,
                   update |-> file[r].links[g], request |-> r, group |-> g]
      Before(f, g) == \/ f.start < g.start
                      \/ f.start = g.start /\ f.request < g.request
                      \/ f.start = g.start /\ f.request = g.request /\ f.group < g.group
      all == UNION {{At(r, g) : g \in DOMAIN file[r].links} : r \in DOMAIN file}
  IN  Enumeration(all, {p \in all \X all : Before(p[1], p[2])})

\* requestIndex and groupIndex are 0.
IsFirst(frame) == frame.request = 1 /\ frame.group = 1

\* The last of the frames that are due, 0 if there is none.
ActiveFrame(frames, t) ==
  LET due == {i \in DOMAIN frames : frames[i].start <= t /\ t < frames[i].stop}
  IN  IF due = {} THEN 0 ELSE CHOOSE i \in due : \A j \in due : i >= j

-----------------------------------------------------------------------------
(* The handlers of ground-links and satellite-links *)

SatellitesOf(ground) == {l[1] : l \in ground}

\* Links without those of satellites the user removed; stations are selected as
\* they come, unless the user has removed them.
ShowLinks(p, update) ==
  LET ground == {l \in update.ground : l[1] \notin p.hidden}
  IN  [p EXCEPT !.ground = ground,
                !.linked = SatellitesOf(ground),
                !.isl = {l \in update.isl : l \cap p.hiddenIsl = {}},
                !.selected = @ \cup ({l[2] : l \in ground} \ p.hiddenStations)]

\* The first frame of the file brings back what was removed.
EmitFrame(p, frame) ==
  LET q == IF IsFirst(frame)
           THEN [p EXCEPT !.hidden = {}, !.hiddenIsl = {}, !.hiddenStations = {}] ELSE p
  IN  [ShowLinks(q, frame.update) EXCEPT !.blank = FALSE]

\* Seeded fault: a gap in the timeline brings back what was removed.
EmitEmptyResets(p) ==
  [p EXCEPT !.ground = {}, !.linked = {}, !.isl = {}, !.hidden = {}, !.hiddenIsl = {}]

EmitEmpty(p) == [p EXCEPT !.ground = {}, !.linked = {}, !.isl = {}]

EmitCompleted(p) == [EmitEmpty(p) EXCEPT !.hidden = {}, !.hiddenIsl = {}]

-----------------------------------------------------------------------------
(* SatelliteDataSource *)

\* advanceTo
Advance(p, t) ==
  LET i == ActiveFrame(p.frames, t)
  IN  IF p.frames = <<>> THEN p
      ELSE IF i > 0 THEN IF i = p.active THEN p
                         ELSE EmitFrame([p EXCEPT !.completed = FALSE, !.active = i], p.frames[i])
      ELSE IF t >= Last(p.frames).stop
      THEN IF p.completed THEN p
           ELSE EmitCompleted([p EXCEPT !.completed = TRUE, !.active = 0, !.blank = FALSE])
      ELSE IF p.active # 0 \/ p.completed
      THEN EmitEmpty([p EXCEPT !.completed = FALSE, !.active = 0, !.blank = FALSE])
      ELSE p

ClearTimeline(p) == [p EXCEPT !.frames = <<>>, !.active = 0, !.completed = TRUE]

\* Seeded fault: the frame that was shown is still taken for the active one.
ScheduleKeepsActive(file) ==
  LET frames == FramesOf(file)
      q == [EmitEmpty(page) EXCEPT !.frames = frames, !.completed = FALSE]
  IN  IF frames = <<>> \/ (\E r \in DOMAIN file : file[r].interval = 0)
      THEN UNCHANGED <<page, now, watch>>
      ELSE /\ now' = frames[1].start /\ watch' = TRUE
           /\ page' = Advance(q, frames[1].start)

\* scheduleLinkUpdates empties the map before it looks at the file, and throws if
\* it cannot use it: the old timeline stays.
ScheduleLinkUpdates(file) ==
  LET emptied == EmitEmpty(page)
      frames == FramesOf(file)
  IN  IF \E r \in DOMAIN file : file[r].interval = 0
      THEN page' = [emptied EXCEPT !.blank = TRUE] /\ UNCHANGED <<now, watch>>
      ELSE IF frames = <<>>
      THEN page' = EmitCompleted(ClearTimeline(emptied)) /\ UNCHANGED <<now, watch>>
      ELSE /\ now' = frames[1].start /\ watch' = TRUE
           /\ page' = Advance([emptied EXCEPT !.frames = frames, !.active = 0, !.completed = FALSE],
                              frames[1].start)

\* onMounted goes on, whether or not the page was left in the meantime.
Connect ==
  /\ loading
  /\ loading' = FALSE
  /\ socket' = "open"
  /\ UNCHANGED <<page, now, watch, sent, onMap>>

\* POST /links; only an open socket is written to.
PostLinks(file) ==
  /\ socket = "open" /\ Len(sent) < MaxSent
  /\ sent' = Append(sent, file)
  /\ UNCHANGED <<page, now, watch, socket, loading, onMap>>

Message ==
  /\ socket = "open" /\ sent # <<>>
  /\ sent' = Tail(sent)
  /\ ScheduleLinkUpdates(Head(sent))
  /\ UNCHANGED <<socket, loading, onMap>>

\* The service stops; nothing connects again, and the timeline goes on.
SocketCloses ==
  /\ socket = "open"
  /\ socket' = "closed" /\ sent' = <<>>
  /\ UNCHANGED <<page, now, watch, loading, onMap>>

\* The clock ticks, or the user, a playback or the timeline sets it.
SetTime(t) ==
  /\ onMap
  /\ now' = t /\ watch' = TRUE
  /\ UNCHANGED <<page, socket, sent, loading, onMap>>

WatchNow ==
  /\ watch /\ onMap
  /\ watch' = FALSE
  /\ page' = Advance(page, now)
  /\ UNCHANGED <<now, socket, sent, loading, onMap>>

LeaveMap ==
  /\ onMap
  /\ onMap' = FALSE
  /\ page' = ClearTimeline(page)
  /\ socket' = IF socket = "open" THEN "closed" ELSE socket
  /\ sent' = <<>> /\ watch' = FALSE
  /\ UNCHANGED <<now, loading>>

-----------------------------------------------------------------------------
(* The user *)

\* removeSatelliteOrbit.  What it has no link of is not remembered as removed.
RemoveSatellite(s) ==
  LET p == IF s \in page.linked
           THEN [page EXCEPT !.hidden = @ \cup {s}, !.linked = @ \ {s}, !.ground = {l \in @ : l[1] # s}]
           ELSE page
  IN  /\ onMap
      /\ page' = IF \E l \in p.isl : s \in l
                 THEN [p EXCEPT !.hiddenIsl = @ \cup {s}, !.isl = {l \in @ : s \notin l}] ELSE p
      /\ UNCHANGED <<now, watch, socket, sent, loading, onMap>>

\* removeAllSatelliteOrbits
RemoveAll ==
  /\ onMap
  /\ page' = [page EXCEPT !.hidden = @ \cup page.linked, !.hiddenIsl = @ \cup UNION page.isl,
                          !.ground = {}, !.linked = {}, !.isl = {}]
  /\ UNCHANGED <<now, watch, socket, sent, loading, onMap>>

\* updateGroundStationSelection
SelectStations(stations) ==
  /\ onMap
  /\ page' = [page EXCEPT !.hiddenStations = (@ \cup page.selected) \ stations, !.selected = stations]
  /\ UNCHANGED <<now, watch, socket, sent, loading, onMap>>

LinksNext ==
  \/ Connect
  \/ \E f \in Files : PostLinks(f)
  \/ Message
  \/ SocketCloses
  \/ \E t \in Times : SetTime(t)
  \/ WatchNow
  \/ \E s \in Satellites : RemoveSatellite(s)
  \/ RemoveAll
  \/ \E stations \in SUBSET Stations : SelectStations(stations)
  \/ LeaveMap

LinksSpec == LinksInit /\ [][LinksNext]_linksVars

-----------------------------------------------------------------------------
(* Properties *)

Pages ==
  [frames : Seq(Frames), active : Nat, completed : BOOLEAN,
   ground : SUBSET (Satellites \X Stations), linked : SUBSET Satellites,
   isl : SUBSET (SUBSET Satellites),
   hidden : SUBSET Satellites, hiddenIsl : SUBSET Satellites,
   hiddenStations : SUBSET Stations, selected : SUBSET Stations,
   blank : BOOLEAN]

\* Type invariant: every variable holds what the code can put there, and the
\* active frame is one of the timeline.
LinksTypeOK ==
  /\ page \in Pages /\ page.active \in 0..Len(page.frames)
  /\ {watch, loading, onMap} \subseteq BOOLEAN
  /\ now \in Nat
  /\ socket \in {"none", "open", "closed"}
  /\ sent \in Seq(Files) /\ Len(sent) <= MaxSent

\* The links of the last frame that is due, without what the user removed.
ExpectedGround ==
  LET i == ActiveFrame(page.frames, now)
  IN  IF i = 0 THEN {} ELSE {l \in page.frames[i].update.ground : l[1] \notin page.hidden}

ExpectedIsl ==
  LET i == ActiveFrame(page.frames, now)
  IN  IF i = 0 THEN {} ELSE {l \in page.frames[i].update.isl : l \cap page.hiddenIsl = {}}

\* However messages, jumps of the clock and removals follow one another, once the
\* watcher has run the map shows the links of the frame that is due, without
\* those of the satellites that are removed, and no station is both selected and
\* removed (lines 219-257 of the data source; 98-130 of the handlers).  The one
\* exception is a message that cannot be used: it leaves an empty map until the
\* frame changes.
LinksAreCurrent ==
  /\ LinksTypeOK
  /\ onMap /\ ~watch =>
       IF page.blank THEN page.ground = {} /\ page.isl = {}
       ELSE page.ground = ExpectedGround /\ page.isl = ExpectedIsl
  /\ page.linked = SatellitesOf(page.ground)
  /\ page.selected \cap page.hiddenStations = {}

\* What the user removed comes back only with the first frame of a file, or when
\* the timeline is completed or replaced by an empty one.
RemovedStaysRemoved ==
  [][\/ page.hidden \subseteq page'.hidden /\ page.hiddenIsl \subseteq page'.hiddenIsl
     \/ page'.completed
     \/ page'.active # 0 /\ IsFirst(page'.frames[page'.active])]_linksVars
=============================================================================
