----------------------------- MODULE GeoReplay -----------------------------
(***************************************************************************)
(* Recording and replaying live packets on the geographic map:             *)
(* EmulatorTopologyPage.vue with its live source, the composables          *)
(* usePacketReplayPlayback.ts and usePacketReplayScheduler.ts, the client  *)
(* of the worker that finds the path of a flow, and the buttons of         *)
(* LiveTrafficReplayPanel.vue.                                             *)
(*                                                                         *)
(* A packet is its timestamp.  Timers, frames and answers may come at any  *)
(* moment.  Drawing is left out, and the path of the live flow but for the *)
(* packet that waits for it.                                               *)
(***************************************************************************)
EXTENDS Integers, SequencesExt, Lists

CONSTANTS
  Stamps,     (* timestamps of packets *)
  Window,     (* packetReplayTimelineWindowMs, when it is not 0 *)
  MaxEvents,  (* MAX_RECORDED_PACKET_EVENTS *)
  Modes       (* "interval"; "speed", timeline with window 0; "window" *)

ASSUME GeoAssumption ==
  /\ Stamps \subseteq Nat
  /\ Window \in Nat \ {0}
  /\ MaxEvents \in Nat \ {0}
  /\ Modes \subseteq {"interval", "speed", "window"}

VARIABLES
  events,      (* packetReplayEvents *)
  recording,   (* packetRecordingEnabled *)
  player,      (* packetReplayPlaying, -Paused, -Index, and the composables' state *)
  mode,        (* packetReplayTimingMode and whether the window is 0 *)
  flowOn,      (* flowAnimationEnabled *)
  resolved,    (* packetReplayFlowResolved *)
  flow,        (* the packets packetReplayPathByFlowKey was computed from *)
  preparation, (* preparePacketReplayFlow, and what its caller does after it *)
  analysis,    (* the loop of rebuildPacketReplayFlow *)
  capturing,   (* trafficCaptureActive *)
  submitting,  (* trafficFilterSubmitting *)
  held,        (* the handler of a packet awaits the analysis of the live flow *)
  away,        (* the page is deactivated or its tab hidden *)
  suspended    (* liveVisualizationSuspended *)

vars == <<events, recording, player, mode, flowOn, resolved, flow, preparation,
          analysis, capturing, submitting, held, away, suspended>>
replay == <<player, preparation, analysis, resolved, flow>>
page == <<capturing, submitting, held, away, suspended>>

Preparing == preparation.stage # "none"

NoPreparation == [stage |-> "none", then |-> "stay"]
NoAnalysis == [on |-> FALSE, of |-> {}, valid |-> FALSE, again |-> FALSE, next |-> {}]

\* batches holds the last position of each window still to be played; timers
\* counts the timers of the next step that a cancel has not disarmed; threw:
\* playing a batch met a packet that is not there.
Init ==
  /\ events = <<>> /\ recording = FALSE
  /\ player = [playing |-> FALSE, paused |-> FALSE, index |-> 0, batches |-> <<>>, timers |-> 0, threw |-> FALSE]
  /\ mode \in Modes /\ flowOn = FALSE /\ resolved = FALSE /\ flow = {}
  /\ preparation = NoPreparation /\ analysis = NoAnalysis
  /\ capturing \in BOOLEAN
  /\ submitting = FALSE /\ held = FALSE /\ away = FALSE /\ suspended = FALSE

-----------------------------------------------------------------------------
(* usePacketReplayPlayback *)

\* ensureTimelinePacketReplayEvents, in a timeline mode
Ordered == IF mode = "interval" THEN events ELSE Ascending(events)

\* The position of the last packet of the window that begins with the i-th.
WindowEnd(list, i) ==
  CHOOSE j \in i..Len(list) :
    /\ list[j] <= list[i] + Window
    /\ j = Len(list) \/ list[j + 1] > list[i] + Window

\* buildTimelineReplayBatches: the last position of each window
Batches(list) ==
  LET from[i \in 1..(Len(list) + 1)] ==
        IF i > Len(list) THEN <<>>
        ELSE <<WindowEnd(list, i)>> \o from[WindowEnd(list, i) + 1]
  IN  from[1]

\* rebuildTimelineBatches: from the window that holds the next packet
Rebuilt(p, list) ==
  LET all == Batches(list)
      passed == {i \in DOMAIN all : all[i] <= p.index}
  IN  [p EXCEPT !.batches = SubSeq(all, Cardinality(passed) + 1, Len(all))]

\* Seeded fault: the timer of the next step is not disarmed.
CancelFlashes(p) == p

Cancel(p) == [p EXCEPT !.timers = 0]

Finish(p) == [p EXCEPT !.playing = FALSE, !.paused = FALSE, !.threw = FALSE]

PlayNextWindow(p, list) ==
  IF list = <<>> \/ p.batches = <<>> THEN Finish(p)
  ELSE IF Head(p.batches) > Len(list) THEN [p EXCEPT !.threw = TRUE]
  ELSE [p EXCEPT !.index = Head(p.batches), !.batches = Tail(p.batches), !.timers = @ + 1]

\* Seeded fault: at the end nothing is set and nothing ends.
PlayNextStalls(p, list) ==
  IF mode = "window" THEN PlayNextWindow(p, list)
  ELSE IF p.index >= Len(list) THEN p
  ELSE [p EXCEPT !.index = @ + 1, !.timers = @ + 1]

PlayNext(p, list) ==
  IF mode = "window" THEN PlayNextWindow(p, list)
  ELSE IF p.index >= Len(list) THEN Finish(p)
  ELSE [p EXCEPT !.index = @ + 1, !.timers = @ + 1]

\* What toggle does once the flow is prepared; list is Ordered.
Start ==
  IF events = <<>> THEN UNCHANGED <<player, events>>
  ELSE \E list \in {Ordered} :
         LET from == [Cancel(player) EXCEPT !.index = IF @ >= Len(events) THEN 0 ELSE @]
             built == IF mode = "window" THEN Rebuilt(from, list) ELSE from
         IN  /\ events' = list
             /\ player' = PlayNext([built EXCEPT !.paused = FALSE, !.playing = TRUE, !.threw = FALSE], list)

\* show
Show(position) ==
  IF events = <<>> THEN UNCHANGED <<player, events>>
  ELSE \E list \in {Ordered} :
         LET at == [player EXCEPT !.index = IF position < 0 THEN 0
                                            ELSE IF position > Len(events) THEN Len(events) ELSE position]
         IN  /\ events' = list
             /\ player' = IF mode = "window" THEN Rebuilt(at, list) ELSE at

-----------------------------------------------------------------------------
(* The paths of the recorded flow *)

Invalidated(a) == [a EXCEPT !.valid = FALSE, !.again = FALSE]

NoFlow == resolved' = FALSE /\ flow' = {}

\* stopPacketReplay: the preparation is dropped, the analysis goes on.
Stopped == [playing |-> FALSE, paused |-> FALSE, index |-> 0, batches |-> <<>>, timers |-> 0, threw |-> FALSE]

StopReplay ==
  /\ player' = Stopped
  /\ preparation' = NoPreparation
  /\ NoFlow

Prepare(then) == preparation' = [stage |-> "frame", then |-> then]

\* The frame preparePacketReplayFlow waits for, then rebuildPacketReplayFlow: a
\* running analysis is followed by one of the packets that are there now.
Frame ==
  /\ preparation.stage = "frame"
  /\ preparation' = [preparation EXCEPT !.stage = "flow"]
  /\ analysis' = IF analysis.on THEN [analysis EXCEPT !.again = TRUE, !.next = ToSet(events)]
                 ELSE [NoAnalysis EXCEPT !.on = TRUE, !.of = ToSet(events), !.valid = TRUE]
  /\ UNCHANGED <<events, recording, player, mode, flowOn, resolved, flow, page>>

\* The end of preparePacketReplayFlow, and its caller: toggle, or the watcher of
\* flowAnimationEnabled, which resumes what it had paused.
Prepared(then) ==
  /\ preparation' = NoPreparation
  /\ CASE then = "play" -> Start
       [] then = "resume" /\ flowOn /\ player.paused ->
            /\ player' = PlayNext([player EXCEPT !.paused = FALSE, !.playing = TRUE], events)
            /\ UNCHANGED events
       [] OTHER -> UNCHANGED <<player, events>>

\* The worker answers, fails or is late.
AnalysisEnds(found) ==
  /\ analysis.on
  /\ found => analysis.of # {}
  /\ IF ~analysis.valid THEN UNCHANGED <<resolved, flow>>
     ELSE resolved' = found /\ flow' = IF found THEN analysis.of ELSE {}
  /\ IF analysis.again /\ flowOn
     THEN /\ analysis' = [NoAnalysis EXCEPT !.on = TRUE, !.of = analysis.next, !.valid = TRUE]
          /\ UNCHANGED <<player, events, preparation>>
     ELSE /\ analysis' = NoAnalysis
          /\ IF preparation.stage = "flow" THEN Prepared(preparation.then)
             ELSE UNCHANGED <<player, events, preparation>>
  /\ UNCHANGED <<recording, mode, flowOn, page>>

\* The watcher of flowAnimationEnabled, which the user or repeated failures turn
\* off.
FlowOff ==
  /\ flowOn /\ flowOn' = FALSE
  /\ analysis' = Invalidated(analysis)
  /\ preparation' = NoPreparation
  /\ NoFlow
  /\ UNCHANGED <<events, recording, player, mode, page>>

FlowOn ==
  /\ ~flowOn /\ flowOn' = TRUE
  /\ analysis' = Invalidated(analysis)
  /\ IF ~recording /\ events # <<>> /\ (player.playing \/ player.paused)
     THEN /\ Prepare(IF player.playing THEN "resume" ELSE "stay")
          /\ player' = IF player.playing THEN [Cancel(player) EXCEPT !.playing = FALSE, !.paused = TRUE, !.threw = FALSE]
                       ELSE player
          /\ UNCHANGED <<resolved, flow>>
     ELSE /\ preparation' = NoPreparation
          /\ NoFlow
          /\ UNCHANGED player
  /\ UNCHANGED <<events, recording, mode, page>>

-----------------------------------------------------------------------------
(* The panel *)

TogglePlayback ==
  /\ ~recording /\ ~Preparing /\ events # <<>>
  /\ IF player.playing
     THEN /\ player' = [Cancel(player) EXCEPT !.playing = FALSE, !.paused = TRUE, !.threw = FALSE]
          /\ UNCHANGED <<events, preparation>>
     ELSE IF flowOn /\ ~resolved
     THEN Prepare("play") /\ UNCHANGED <<player, events>>
     ELSE Start /\ UNCHANGED preparation
  /\ UNCHANGED <<recording, mode, flowOn, resolved, flow, analysis, page>>

StopPressed ==
  /\ ~recording /\ ~Preparing /\ events # <<>>
  /\ StopReplay
  /\ UNCHANGED <<events, recording, mode, flowOn, analysis, page>>

\* clearPacketReplay
ClearPressed ==
  /\ ~recording /\ ~Preparing /\ ~player.playing /\ ~player.paused /\ events # <<>>
  /\ StopReplay
  /\ events' = <<>>
  /\ UNCHANGED <<recording, mode, flowOn, analysis, page>>

Jump(direction) ==
  /\ ~recording /\ ~Preparing /\ events # <<>>
  /\ Show(player.index + direction)
  /\ UNCHANGED <<recording, mode, flowOn, resolved, flow, preparation, analysis, page>>

\* The slider, which is not disabled while packets are recorded.
Seek(position) ==
  /\ events # <<>>
  /\ Show(position)
  /\ UNCHANGED <<recording, mode, flowOn, resolved, flow, preparation, analysis, page>>

\* The timing may be changed at any moment, without a word to the player.
ChangeMode ==
  /\ mode' \in Modes \ {mode}
  /\ UNCHANGED <<events, recording, player, flowOn, resolved, flow, preparation, analysis, page>>

\* Seeded fault: the analysis of the last recording is not invalidated.
ToggleRecordingKeepsAnalysis ==
  /\ capturing /\ ~player.playing /\ ~player.paused /\ ~Preparing
  /\ recording' = ~recording
  /\ player' = [player EXCEPT !.index = 0]
  /\ IF recording THEN UNCHANGED <<events, resolved, flow>> ELSE events' = <<>> /\ NoFlow
  /\ UNCHANGED <<mode, flowOn, preparation, analysis, page>>

\* togglePacketRecording
ToggleRecording ==
  /\ capturing /\ ~player.playing /\ ~player.paused /\ ~Preparing
  /\ recording' = ~recording
  /\ player' = [player EXCEPT !.index = 0]
  /\ IF recording THEN UNCHANGED <<events, analysis, resolved, flow>>
     ELSE events' = <<>> /\ analysis' = Invalidated(analysis) /\ NoFlow
  /\ UNCHANGED <<mode, flowOn, preparation, page>>

\* The refresh button, reloadDockerTopology: nothing is cleared while recording.
Reload ==
  /\ StopReplay
  /\ events' = IF recording THEN events ELSE <<>>
  /\ UNCHANGED <<recording, mode, flowOn, analysis, page>>

-----------------------------------------------------------------------------
(* The filter and live packets *)

SubmitFilter ==
  /\ ~submitting /\ submitting' = TRUE
  /\ UNCHANGED <<events, recording, replay, mode, flowOn, capturing, held, away, suspended>>

\* A filter is set: what was recorded goes, a playback or a preparation does not.
FilterSet ==
  /\ submitting /\ submitting' = FALSE
  /\ capturing' = TRUE
  /\ events' = <<>> /\ recording' = FALSE
  /\ player' = [player EXCEPT !.index = 0]
  /\ NoFlow
  /\ UNCHANGED <<preparation, analysis, mode, flowOn, held, away, suspended>>

\* The empty filter.
FilterCleared ==
  /\ submitting /\ submitting' = FALSE
  /\ capturing' = FALSE
  /\ StopReplay
  /\ recording' = FALSE
  /\ UNCHANGED <<events, analysis, mode, flowOn, held, away, suspended>>

FilterFails ==
  /\ submitting /\ submitting' = FALSE
  /\ UNCHANGED <<events, recording, replay, mode, flowOn, capturing, held, away, suspended>>

\* The part of handleLivePacket after its await, which looks at nothing but
\* recording.
Recorded(packet) ==
  IF ~recording THEN UNCHANGED <<events, recording, player>>
  ELSE LET list == Append(events, packet) IN
       /\ events' = list
       /\ recording' = (Len(list) < MaxEvents)
       /\ player' = [player EXCEPT !.index = IF Len(list) < MaxEvents THEN Len(list) ELSE 0]

Takes ==
  /\ capturing /\ ~away
  /\ ~player.playing /\ ~player.paused /\ ~Preparing

\* A packet whose path is known, or that finds an analysis under way, is recorded
\* at once; another waits for the analysis of the live flow.  Nobody asks which
\* packet it is before it is recorded.
PacketArrives(packet) ==
  /\ Takes
  /\ \/ Recorded(packet) /\ UNCHANGED held
     \/ /\ flowOn /\ ~held /\ held' = TRUE
        /\ UNCHANGED <<events, recording, player>>
  /\ UNCHANGED <<mode, flowOn, resolved, flow, preparation, analysis, capturing, submitting, away, suspended>>

LiveAnalysisEnds(packet) ==
  /\ held /\ held' = FALSE
  /\ Recorded(packet)
  /\ UNCHANGED <<mode, flowOn, resolved, flow, preparation, analysis, capturing, submitting, away, suspended>>

-----------------------------------------------------------------------------
(* The page and its timers *)

\* suspendLiveVisualization
Suspend ==
  /\ suspended' = TRUE
  /\ player' = IF ~suspended /\ player.playing THEN [Cancel(player) EXCEPT !.playing = FALSE, !.threw = FALSE]
               ELSE player

Leave ==
  /\ ~away /\ away' = TRUE
  /\ Suspend
  /\ UNCHANGED <<events, recording, preparation, analysis, resolved, flow, mode, flowOn, capturing, submitting, held>>

\* A page that is activated, not just shown, while nothing is captured stays
\* suspended.
Return ==
  /\ away /\ away' = FALSE
  /\ suspended' \in IF capturing THEN {FALSE} ELSE BOOLEAN
  /\ UNCHANGED <<events, recording, replay, mode, flowOn, capturing, submitting, held>>

NextTimer ==
  /\ player.timers > 0
  /\ player' = LET p == [player EXCEPT !.timers = @ - 1]
               IN  IF p.playing THEN PlayNext(p, events) ELSE p
  /\ UNCHANGED <<events, recording, mode, flowOn, resolved, flow, preparation, analysis, page>>

Sought == \/ \E d \in {-1, 1} : Jump(d)
          \/ \E i \in 0..Len(events) : Seek(i)

Next ==
  \/ TogglePlayback \/ StopPressed \/ ClearPressed \/ Sought \/ ChangeMode
  \/ ToggleRecording \/ Reload \/ FlowOn \/ FlowOff
  \/ SubmitFilter \/ FilterSet \/ FilterCleared \/ FilterFails
  \/ \E packet \in Stamps : PacketArrives(packet) \/ LiveAnalysisEnds(packet)
  \/ Leave \/ Return
  \/ Frame \/ \E found \in BOOLEAN : AnalysisEnds(found)
  \/ NextTimer

Spec == Init /\ [][Next]_vars

\* A browser fires timers, and draws frames of what is shown: of a tab that is hidden
\* it need not draw one.  The client of the worker answers an analysis itself when
\* the worker has not in time.
Fairness ==
  /\ WF_vars(~away /\ Frame)
  /\ WF_vars(\E found \in BOOLEAN : AnalysisEnds(found))
  /\ WF_vars(NextTimer)

FairSpec == Spec /\ Fairness

-----------------------------------------------------------------------------
(* Properties *)

\* Every variable holds what the code can put there; a position is one of the
\* list.
TypeOK ==
  /\ events \in Seq(Stamps) /\ Len(events) <= MaxEvents
  /\ player.index \in 0..Len(events)
  /\ mode \in Modes /\ flow \subseteq Stamps
  /\ preparation \in [stage : {"none", "frame", "flow"}, then : {"play", "resume", "stay"}]
  /\ analysis \in [on : BOOLEAN, of : SUBSET Stamps, valid : BOOLEAN,
                   again : BOOLEAN, next : SUBSET Stamps]
  /\ recording \in BOOLEAN /\ flowOn \in BOOLEAN /\ resolved \in BOOLEAN
  /\ capturing \in BOOLEAN /\ submitting \in BOOLEAN /\ held \in BOOLEAN
  /\ away \in BOOLEAN /\ suspended \in BOOLEAN

\* Packets are recorded only while nothing is played, paused or prepared, so that
\* the list that is played, or analysed, is the one that was recorded; whoever
\* ends a playback disarms its timer; and one that is on has exactly one timer to
\* go on with, unless a batch of an earlier, longer list was met
\* (usePacketReplayPlayback.ts:94-131, EmulatorTopologyPage.vue:1307, 1477-1489).
ReplayIsOrderly ==
  /\ recording => capturing /\ ~player.playing /\ ~player.paused /\ ~Preparing
  /\ ~(player.playing /\ player.paused)
  /\ player.timers \in {0, 1}
  /\ player.timers = 1 <=> player.playing /\ ~player.threw

\* The paths used for animation are those of the packets that are played, and
\* there are none while the animation is off: an analysis that ends after its
\* packets were replaced changes nothing that is seen
\* (EmulatorTopologyPage.vue:1203, 1321, 1467).
PathsMatchPackets ==
  /\ TypeOK
  /\ resolved => flowOn /\ (events # <<>> => flow = ToSet(events))

\* The panel is not locked by a preparation for ever, unless it awaits a frame of a
\* page that is not shown; one that is shown again, and stays, gets it.
PreparationEnds == Preparing ~> ~Preparing \/ (preparation.stage = "frame" /\ away)

\* A playback that is not sought in again and again ends, is paused or has met
\* the batch of an earlier list.
PlaybackEnds ==
  \/ []<><<Sought>>_vars
  \/ []<>(~player.playing \/ player.threw)

\* What the panel shows as under way, preparing or playing, comes to an end.
EventuallyDone == PreparationEnds /\ PlaybackEnds
=============================================================================
