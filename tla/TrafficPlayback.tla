-------------------------- MODULE TrafficPlayback --------------------------
(***************************************************************************)
(* useTrafficPlaybackController.ts of the satellite map, with the buttons  *)
(* of TrafficReplayPanel.vue that call it: recording packets, and playing  *)
(* a list of them one by one or, in window mode, those of a time window    *)
(* together.  A packet is its timestamp.  Time does not pass: a timer that *)
(* is set may fire at any moment, in the order of its delay.               *)
(*                                                                         *)
(* player is the state one playback handler changes, so that a handler     *)
(* which calls another is the composition of two functions.                *)
(*                                                                         *)
(* trafficReplaySeekPosition is index but while the slider is dragged,     *)
(* which ends with a seek.                                                 *)
(*                                                                         *)
(* trafficPlaybackGeneration is left out: each handler that raises it also *)
(* clears the timers that compare it, or runs when there are none.         *)
(***************************************************************************)
EXTENDS Integers, SequencesExt, Lists

CONSTANTS
  Stamps,     (* timestamps of packets *)
  Window,     (* trafficPlaybackTimelineWindowMs, when it is not 0 *)
  MaxEvents,  (* TRAFFIC_REPLAY_MAX_EVENTS *)
  Modes       (* "single": interval, or timeline without a window; "window" *)

ASSUME PlaybackAssumption ==
  /\ Stamps \subseteq Nat
  /\ Window \in Nat \ {0}
  /\ MaxEvents \in Nat \ {0}
  /\ Modes \subseteq {"single", "window"}

VARIABLES
  player,
  packets,    (* trafficPacketEvents: what was recorded or imported *)
  recording,
  mode,
  capturing,  (* isCaptureActive *)
  speed       (* settings.speed: of the map's clock *)

\* The fields of player are refs of the controller, but for
\*   timer      what trafficPlaybackTimerId will do
\*   scheduled  packets of trafficPlaybackScheduledTimerIds, by position
\*   clock      an animation frame is requested
\*   alone      history: it has not been paused, sought or jumped in
\*   shown      history: while alone, the positions triggered
\*   windowed   history: while alone, it has been in window mode
Stopped ==
  [enabled |-> FALSE, paused |-> TRUE, index |-> 0, playlist |-> <<>>,
   timer |-> "none", scheduled |-> {}, clock |-> FALSE,
   shown |-> {}, alone |-> FALSE, windowed |-> FALSE]

playback == <<player, packets, recording, mode>>

PlaybackInit ==
  /\ player = Stopped
  /\ packets = <<>>
  /\ recording = FALSE
  /\ mode \in Modes

\* isPanelDisabled
disabled == ~capturing /\ speed # 1

InOrder(list) == Ascending(list)

\* slice(-MaxEvents)
Newest(list) == SubSeq(list, 1 + (IF Len(list) > MaxEvents THEN Len(list) - MaxEvents ELSE 0), Len(list))

Clamp(i, low, high) == IF i < low THEN low ELSE IF i > high THEN high ELSE i

-----------------------------------------------------------------------------
(* Functions of the controller on the player *)

ClearTimers(p) == [p EXCEPT !.timer = "none", !.scheduled = {}]

\* triggerTrafficPacket for the packet at a position
Trigger(p, i) == [p EXCEPT !.shown = IF p.alone THEN @ \cup {i} ELSE {}]

Disturbed(p) == [p EXCEPT !.alone = FALSE, !.shown = {}, !.windowed = FALSE]

Silence(p) == [ClearTimers(p) EXCEPT !.clock = FALSE]

\* Seeded fault: the end of the list is left to the timer, which is not set.
ScheduleStalls(p) ==
  LET q == ClearTimers(p)
  IN  IF ~q.enabled \/ q.paused \/ q.index >= Len(q.playlist) THEN q ELSE [q EXCEPT !.timer = "next"]

\* scheduleNextTrafficPlaybackEvent
ScheduleNext(p) ==
  LET q == ClearTimers(p)
  IN  IF ~q.enabled \/ q.paused THEN q
      ELSE IF q.index >= Len(q.playlist) THEN [q EXCEPT !.paused = TRUE]
      ELSE [q EXCEPT !.timer = "next"]

\* The packets of a window get a timer each.  Unless it is the last window, the
\* timer of the next one is then set, which clears those of the packets.
PlayWindow(p) ==
  LET first == p.index + 1
      members == {i \in first..Len(p.playlist) : p.playlist[i] <= p.playlist[first] + Window}
      next == p.index + Cardinality(members)
      q == [p EXCEPT !.scheduled = members, !.index = next, !.clock = TRUE, !.windowed = p.alone]
  IN  IF next = Len(p.playlist) THEN [q EXCEPT !.timer = "finish"] ELSE ScheduleNext(q)

PlayOne(p) ==
  LET next == p.index + 1
  IN  ScheduleNext([Trigger(p, next) EXCEPT !.index = next, !.clock = next < Len(p.playlist)])

\* playCurrentTrafficPlaybackEvent
PlayCurrent(p) ==
  LET q == Silence(p)
  IN  IF ~q.enabled \/ q.paused THEN q
      ELSE IF q.index >= Len(q.playlist) THEN [q EXCEPT !.paused = TRUE]
      ELSE IF mode = "window" THEN PlayWindow(q) ELSE PlayOne(q)

\* The list that is played, or is to be.
Playlist == IF player.playlist # <<>> THEN player.playlist ELSE InOrder(packets)

\* Paused at a position of a list: jump and seek.
PausedAt(list, i) ==
  [Disturbed(Silence(player)) EXCEPT !.enabled = TRUE, !.paused = TRUE, !.playlist = list, !.index = i]

-----------------------------------------------------------------------------
(* Handlers of the page *)

StopPlayback == player' = Stopped

\* toggleTrafficPlayback, startTrafficPlayback
TogglePlayback ==
  /\ ~disabled /\ ~recording /\ packets # <<>>
  /\ IF ~player.enabled
     THEN player' = PlayCurrent([Stopped EXCEPT !.enabled = TRUE, !.paused = FALSE,
                                                !.playlist = InOrder(packets), !.alone = TRUE])
     ELSE IF ~player.paused
     THEN player' = [Disturbed(Silence(player)) EXCEPT !.paused = TRUE]
     ELSE player' = ScheduleNext([player EXCEPT !.paused = FALSE, !.clock = player.index < Len(player.playlist)])
  /\ UNCHANGED <<packets, recording, mode, capturing, speed>>

StopPressed ==
  /\ ~disabled /\ ~recording /\ (player.enabled \/ packets # <<>>)
  /\ StopPlayback
  /\ UNCHANGED <<packets, recording, mode, capturing, speed>>

\* The event shown is the last that was played.
Jump(direction) ==
  LET list == Playlist
      current == Clamp(player.index - 1, 0, Len(list) - 1)
  IN  /\ ~disabled /\ ~recording /\ packets # <<>>
      /\ player' = PausedAt(list, Clamp(current + direction, 0, Len(list) - 1) + 1)
      /\ UNCHANGED <<packets, recording, mode, capturing, speed>>

\* The slider is released at a position; 0 is the start of the list.
Seek(position) ==
  /\ ~disabled /\ ~recording /\ packets # <<>>
  /\ player' = PausedAt(Playlist, Clamp(position, 0, Len(Playlist)))
  /\ UNCHANGED <<packets, recording, mode, capturing, speed>>

\* Starting to record stops a playback.
ToggleRecording ==
  /\ ~disabled /\ ~player.enabled /\ capturing
  /\ recording' = ~recording
  /\ IF recording THEN UNCHANGED player ELSE StopPlayback
  /\ UNCHANGED <<packets, mode, capturing, speed>>

\* Packets are shown as they come unless a playback is on, which keeps them
\* from being recorded too.
PacketArrives(stamp) ==
  /\ recording /\ ~player.enabled
  /\ packets' = Newest(Append(packets, stamp))
  /\ UNCHANGED <<player, recording, mode, capturing, speed>>

\* Seeded fault: a playback goes on.
ImportWhilePlaying(list) ==
  /\ UNCHANGED player
  /\ recording' = FALSE
  /\ packets' = Newest(InOrder(list))

\* importTrafficReplayEvents
ImportEvents(list) ==
  /\ StopPlayback
  /\ recording' = FALSE
  /\ packets' = Newest(InOrder(list))

\* clearTrafficRecording
ClearRecording ==
  /\ ~recording /\ ~player.enabled
  /\ packets' = <<>>
  /\ player' = [player EXCEPT !.playlist = <<>>, !.index = 0]

ChangeMode ==
  /\ ~disabled
  /\ mode' \in Modes \ {mode}
  /\ UNCHANGED <<player, packets, recording, capturing, speed>>

-----------------------------------------------------------------------------
(* Timers *)

NextTimer ==
  /\ player.timer = "next"
  /\ player' = PlayCurrent(player)
  /\ UNCHANGED <<packets, recording, mode, capturing, speed>>

\* The packets of the last window, in their order.
PacketTimer ==
  LET first == CHOOSE i \in player.scheduled : \A j \in player.scheduled : i <= j
  IN  /\ player.scheduled # {}
      /\ player' = LET q == [player EXCEPT !.scheduled = @ \ {first}]
                   IN  IF q.enabled /\ ~q.paused THEN Trigger(q, first) ELSE q
      /\ UNCHANGED <<packets, recording, mode, capturing, speed>>

\* Set after the last window's packets and not before the last of them.
FinishTimer ==
  /\ player.timer = "finish"
  /\ player.scheduled = {}
  /\ player' = [player EXCEPT !.timer = "none", !.paused = TRUE]
  /\ UNCHANGED <<packets, recording, mode, capturing, speed>>

\* The last frame of the clock between two packets, or the first after a pause.
ClockEnds ==
  /\ player.clock
  /\ player' = [player EXCEPT !.clock = FALSE]
  /\ UNCHANGED <<packets, recording, mode, capturing, speed>>

Timers == NextTimer \/ PacketTimer \/ FinishTimer

Controls ==
  \/ TogglePlayback
  \/ StopPressed
  \/ \E d \in {-1, 1} : Jump(d)
  \/ \E i \in 0..Len(Playlist) : Seek(i)
  \/ ToggleRecording
  \/ ChangeMode

PlaybackNext ==
  \/ Controls
  \/ \E t \in Stamps : PacketArrives(t)
  \/ Timers \/ ClockEnds

-----------------------------------------------------------------------------
(* Properties *)

Positions == 0..MaxEvents

Players ==
  [enabled : BOOLEAN, paused : BOOLEAN, index : Positions, playlist : Seq(Stamps),
   timer : {"none", "next", "finish"}, scheduled : SUBSET Positions, clock : BOOLEAN,
   shown : SUBSET Positions, alone : BOOLEAN, windowed : BOOLEAN]

\* Type invariant: every variable holds what the code can put there, and the list
\* that is played is in the order of time.
PlaybackTypeOK ==
  /\ player \in Players
  /\ Len(player.playlist) <= MaxEvents
  /\ \A i \in 1..(Len(player.playlist) - 1) : player.playlist[i] <= player.playlist[i + 1]
  /\ player.scheduled \subseteq 1..Len(player.playlist)
  /\ packets \in Seq(Stamps) /\ Len(packets) <= MaxEvents
  /\ recording \in BOOLEAN
  /\ mode \in Modes

\* A timer is pending only while a playback runs, and whoever paused, stopped,
\* jumped, sought, cleared or imported in between has cleared it: nothing is
\* played any more, and after a stop the clock of the map is left alone (lines
\* 122-126, 163-164, 190-191, 224-225).
QuietUnlessPlaying ==
  /\ ~player.enabled \/ player.paused => player.timer = "none" /\ player.scheduled = {}
  /\ ~player.enabled => ~player.clock

\* A running playback has a timer that goes on with it, unless it has come to the
\* end: it cannot be stuck between two packets (lines 308-310, 347-358).
PlayingGoesOn ==
  player.enabled /\ ~player.paused =>
    player.timer # "none" /\ player.index <= Len(player.playlist) /\ player.playlist # <<>>

\* Recording and playing exclude one another, however playback was begun: live
\* packets never enter a list that is being played.
NeverBoth == ~(recording /\ player.enabled)

\* A playback nobody interferes with has shown each packet before its index, or
\* will: none is skipped.  This holds only outside of window mode.
NoneSkipped ==
  player.alone /\ ~player.windowed => player.shown = 1..player.index

\* The list that is played is the one the panel counts: nothing is recorded,
\* imported or cleared under a playback without an end to it.
PlaysItsPackets == player.playlist # <<>> => player.playlist = InOrder(packets)
=============================================================================
