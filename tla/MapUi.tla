------------------------------- MODULE MapUi -------------------------------
(***************************************************************************)
(* The topology map (utils/map-ui.ts): three parts of it colour the same   *)
(* nodes.  The flasher lights the nodes of the packets that arrive, the    *)
(* replayer those of a recording, the search those that match.  Each has   *)
(* timers of its own and none asks the others.                             *)
(*                                                                         *)
(* Left out: the log table, the nodes commanded over the vis socket, the   *)
(* slider's own display, and the controls' disabled flags, which           *)
(* _updateReplayControls sets from status and recording after every change *)
(* and which are therefore the guards below.                               *)
(***************************************************************************)
EXTENDS Integers, Sequences, SequencesExt

CONSTANTS
  Vertices,     \* hosts and networks of the map
  Lines,        \* what tcpdump may print: [at, source, nets], at = 0 without a time
  Terms,        \* the sets of nodes a search may find
  Positions,    \* what the slider can be moved to
  MaxEvents,    \* bound on the packets recorded
  MaxBack       \* bound on stepping back below the first event

ASSUME LinesAssumption ==
  \A l \in Lines : l.at \in Nat /\ l.source \in Vertices /\ l.nets \subseteq Vertices

VARIABLES
  status,       \* _replayStatus
  recording,    \* _recording
  events,       \* _events, one line each
  playlist,     \* _playlist
  pos,          \* _replayPos
  ticks,        \* the timeouts of _doReplay that are pending
  queue,        \* _flashQueue
  flashing,     \* _flashingNodes
  unflashes,    \* the 300 ms timeouts of _flashNodes that are pending
  lit,          \* the nodes drawn in dynamicDefault
  mode,         \* _filterMode
  highlights    \* _searchHighlightNodes

replay == <<status, playlist, pos, ticks>>
flash  == <<queue, flashing, unflashes>>
search == <<mode, highlights>>
mapVars == <<replay, recording, events, flash, lit, search>>

MapInit ==
  /\ status = "stopped" /\ recording = FALSE
  /\ events = <<>> /\ playlist = <<>> /\ pos = 0 /\ ticks = 0
  /\ queue = {} /\ flashing = {} /\ unflashes = 0
  /\ lit = {}
  /\ mode = "filter" /\ highlights = {}

----------------------------------------------------------------------------
(* Live packets. *)

\* A line that names no network is tcpdump talking, and flashes nothing.
Touched(line) == IF line.nets = {} THEN {} ELSE line.nets \cup {line.source}

Packet(line) ==
  /\ recording => Len(events) < MaxEvents
  /\ IF status = "stopped"
     THEN /\ queue' = queue \cup Touched(line)
          /\ events' = IF recording THEN Append(events, line) ELSE events
     ELSE UNCHANGED <<queue, events>>
  /\ UNCHANGED <<replay, recording, flashing, unflashes, lit, search>>

\* Seeded fault: flashing nodes are replaced by those of the next tick.
FlashAgain ==
  IF status # "stopped"
  THEN UNCHANGED <<queue, flashing, unflashes, lit>>
  ELSE /\ queue' = {}
       /\ flashing' = IF mode = "node-search" THEN {} ELSE queue
       /\ lit' = lit \cup flashing'
       /\ unflashes' = unflashes + (IF mode = "node-search" THEN 0 ELSE 1)

\* An interval calls _flashNodes every half second; in search mode it drops
\* what the queue holds.
FlashNodes ==
  IF status # "stopped" \/ flashing # {}
  THEN UNCHANGED <<queue, flashing, unflashes, lit>>
  ELSE /\ queue' = {}
       /\ flashing' = IF mode = "node-search" THEN {} ELSE queue
       /\ lit' = lit \cup flashing'
       /\ unflashes' = unflashes + (IF mode = "node-search" THEN 0 ELSE 1)

FlashTick ==
  /\ unflashes < 2                 \* 300 ms after a tick every 500 ms
  /\ FlashNodes
  /\ UNCHANGED <<replay, recording, events, search>>

\* The timeout takes back whatever is flashing by now.
Unflash ==
  /\ unflashes > 0
  /\ unflashes' = unflashes - 1
  /\ lit' = lit \ flashing
  /\ flashing' = {}
  /\ UNCHANGED <<replay, recording, events, queue, search>>

----------------------------------------------------------------------------
(* Recording and replay. *)

\* _buildPlayList: the lines with a time, in its order.
Playlist == SortSeq(SelectSeq(events, LAMBDA l : l.at > 0), LAMBDA k, l : k.at < l.at)

\* The nodes of the event at a position; there is none before the first.
VerticesAt(list, p) ==
  IF p + 1 \in DOMAIN list THEN list[p + 1].nets \cup {list[p + 1].source} ELSE {}

\* Seeded fault: the position stays where it is.
DoReplayStays(st, list, p) ==
  IF p >= Len(list)
  THEN /\ status' = "paused" /\ pos' = 0
       /\ UNCHANGED <<flashing, lit>>
  ELSE /\ status' = st /\ pos' = p
       /\ flashing' = VerticesAt(list, p)
       /\ lit' = (lit \ flashing) \cup flashing'

\* _doReplay once the timer is set: at the end, pause at the beginning;
\* otherwise take back what is lit and light the event.
DoReplay(st, list, p) ==
  IF p >= Len(list)
  THEN /\ status' = "paused" /\ pos' = 0
       /\ UNCHANGED <<flashing, lit>>
  ELSE /\ status' = st /\ pos' = IF st = "playing" THEN p + 1 ELSE p
       /\ flashing' = VerticesAt(list, p)
       /\ lit' = (lit \ flashing) \cup flashing'

\* The timer goes on while paused and at the end: it shows the event again.
ReplayTick ==
  /\ ticks > 0
  /\ IF status = "stopped"
     THEN ticks' = ticks - 1 /\ UNCHANGED <<status, pos, flashing, lit>>
     ELSE DoReplay(status, playlist, pos) /\ UNCHANGED ticks
  /\ UNCHANGED <<recording, events, playlist, queue, unflashes, search>>

RecordStartStop ==
  /\ status = "stopped"
  /\ recording' = ~recording
  /\ events' = IF recording THEN events ELSE <<>>
  /\ UNCHANGED <<replay, flash, lit, search>>

Play ==
  /\ status = "stopped" /\ ~recording
  /\ playlist' = Playlist
  /\ ticks' = ticks + 1
  /\ DoReplay("playing", playlist', 0)
  /\ UNCHANGED <<recording, events, queue, unflashes, search>>

PlayPause ==
  /\ status # "stopped" /\ ~recording
  /\ status' = IF status = "playing" THEN "paused" ELSE "playing"
  /\ UNCHANGED <<playlist, pos, ticks, recording, events, flash, lit, search>>

ReplayPlayPause == Play \/ PlayPause

\* Seeded fault: the timer is not cleared.
ReplayStopKeepsTimer ==
  /\ status # "stopped"
  /\ status' = "stopped"
  /\ lit' = lit \ flashing /\ flashing' = {}
  /\ UNCHANGED <<playlist, pos, ticks, recording, events, queue, unflashes, search>>

ReplayStop ==
  /\ status # "stopped"
  /\ status' = "stopped"
  /\ ticks' = ticks - 1
  /\ lit' = lit \ flashing /\ flashing' = {}
  /\ UNCHANGED <<playlist, pos, recording, events, queue, unflashes, search>>

\* Neither the slider nor the step buttons know where the record begins and ends.
ReplaySeek(p) ==
  /\ status # "stopped"
  /\ DoReplay("paused", playlist, p)
  /\ UNCHANGED <<playlist, ticks, recording, events, queue, unflashes, search>>

Step   == \E d \in {-1, 1} : pos + d >= -MaxBack /\ ReplaySeek(pos + d)
SeekTo == \E p \in Positions : ReplaySeek(p)

----------------------------------------------------------------------------
(* Search, and the log's clear button. *)

UpdateSearchHighlights(found) ==
  /\ highlights' = found
  /\ lit' = (lit \ (highlights \ found)) \cup (found \ highlights)

\* The search tab searches for what the box holds, the filter tab forgets it.
SetFilterMode(m) ==
  /\ m # mode
  /\ mode' = m
  /\ \E found \in Terms :
       /\ m = "filter" => found = {}
       /\ UpdateSearchHighlights(found)
  /\ UNCHANGED <<replay, recording, events, flash>>

OnSubmitSearch(found) ==
  /\ mode = "node-search"
  /\ UpdateSearchHighlights(found)
  /\ UNCHANGED <<replay, recording, events, flash, mode>>

OnLogClear ==
  /\ events' = <<>>
  /\ UNCHANGED <<replay, recording, flash, lit, search>>

----------------------------------------------------------------------------
MapNext ==
  \/ \E l \in Lines : Packet(l)
  \/ FlashTick
  \/ Unflash
  \/ ReplayTick
  \/ RecordStartStop
  \/ ReplayPlayPause
  \/ ReplayStop
  \/ Step
  \/ SeekTo
  \/ \E m \in {"filter", "node-search"} : SetFilterMode(m)
  \/ \E found \in Terms : OnSubmitSearch(found)
  \/ OnLogClear

MapSpec == MapInit /\ [][MapNext]_mapVars

\* The browser runs timers that are due.
FairMapSpec == MapSpec /\ WF_mapVars(ReplayTick) /\ WF_mapVars(Unflash) /\ WF_mapVars(FlashTick)

----------------------------------------------------------------------------
(* Properties. *)

\* Whatever the order of timers and commands, a node is lit only while the
\* flasher or the replayer has it in _flashingNodes or the search has found it;
\* and what flashes outside a replay has a timeout to take it back.  A node
\* forgotten would stay lit until the page is loaded again.
NothingStaysLit ==
  /\ lit \subseteq flashing \cup highlights
  /\ status = "stopped" /\ flashing # {} => unflashes > 0

\* There is one chain of replay timers during a replay and none outside: stop
\* then play does not replay at twice the speed.  Nothing is recorded during a
\* replay, whose events are shown as live ones are.
OneReplayer ==
  /\ ticks = (IF status = "stopped" THEN 0 ELSE 1)
  /\ recording => status = "stopped"

\* A replay that is left alone gets to its end, whatever arrives or is searched.
ReplayEnds == (status = "playing") ~> (status # "playing")
=============================================================================
