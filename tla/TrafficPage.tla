---------------------------- MODULE TrafficPage ----------------------------
(***************************************************************************)
(* The traffic panel of the satellite map's page: TrafficPlayback with all *)
(* that happens to it from outside.  useTrafficObserverConnection.ts asks  *)
(* the collector for its filter and sets it; StarlinkDashboard.vue imports *)
(* files and filters them off-line in a worker; the speed of the map's     *)
(* clock is a setting.  Each of them awaits an answer, and what was true   *)
(* when it asked need not be true when it goes on.                         *)
(*                                                                         *)
(* A list of packets that is imported stands for a JSON file; whether a    *)
(* pcap file came with it is all that matters of that one.                 *)
(***************************************************************************)
EXTENDS TrafficPlayback

CONSTANTS
  Filters,   (* collector filters that are not empty *)
  Off,       (* the empty filter *)
  JsonLists, (* JSON files to import *)
  Speeds     (* speedOptions of the settings *)

ASSUME PageAssumption ==
  /\ Off \notin Filters
  /\ JsonLists \subseteq Seq(Stamps) \ {<<>>}
  /\ 1 \in Speeds

VARIABLES
  server,     (* the collector's filter *)
  active,     (* trafficActiveFilter *)
  get,        (* GET /filter of the mounted page *)
  put,        (* PUT /filter of the page *)
  imported,   (* trafficImportedFileActive *)
  json,       (* trafficReplayJsonEvents *)
  pcap,       (* trafficReplayPcapPackets is not empty *)
  importing,  (* the import that is under way *)
  filtering,  (* the list the worker is to filter *)
  mounted,
  overlap,    (* history: imports, clearing and requests have overlapped *)
  stale       (* history: the answers on the filter may be out of order *)

connection == <<server, active, get, put>>
files == <<imported, json, pcap, importing, filtering>>
pageVars == <<connection, files, mounted, overlap, stale>>

None == [at |-> "no"]
AllFilters == Filters \cup {Off}

PageInit ==
  /\ PlaybackInit
  /\ server \in AllFilters
  /\ active = Off /\ capturing = FALSE
  /\ speed = 1
  /\ get = [at |-> "asked"] /\ put = None
  /\ imported = FALSE /\ json = <<>> /\ pcap = FALSE
  /\ importing = None /\ filtering = <<>>
  /\ mounted = TRUE
  /\ overlap = FALSE /\ stale = FALSE

\* trafficFilterSubmitting, which a PUT and an off-line filter share
Submitting == put # None \/ filtering # <<>>

OfflineFilterAvailable == imported /\ json # <<>> /\ pcap

\* filterControlsDisabled of the panel
CanSubmit == mounted /\ ~disabled /\ ~Submitting /\ (imported => OfflineFilterAvailable)

\* Something else is under way when a request, or clearing, begins.
Overlaps == get # None \/ put # None \/ importing # None \/ filtering # <<>>

-----------------------------------------------------------------------------
(* The collector's filter *)

\* Both answers end here.
ShowFilter(f) ==
  /\ active' = f
  /\ capturing' = (f # Off)
  /\ speed' = IF f # Off THEN 1 ELSE speed
  /\ recording' = (recording /\ f # Off)

GetRead ==
  /\ get.at = "asked"
  /\ get' = [at |-> "read", filter |-> server]
  /\ UNCHANGED <<playback, capturing, speed, server, active, put, files, mounted, overlap, stale>>

\* syncTrafficObserverFilter leaves a playback alone.
GetAnswered ==
  /\ get.at = "read"
  /\ get' = None
  /\ ShowFilter(get.filter)
  /\ UNCHANGED <<player, packets, mode, server, put, files, mounted, overlap, stale>>

GetFails ==
  /\ get # None
  /\ get' = None
  /\ stale' = TRUE
  /\ UNCHANGED <<playback, capturing, speed, server, active, put, files, mounted, overlap>>

\* Seeded fault: a filter can be submitted while a file is imported.
CanPutAlways == CanSubmit

\* submitTrafficFilter
CanPut == CanSubmit /\ ~imported

PutFilter(f) ==
  /\ CanPut
  /\ put' = [at |-> "sent", filter |-> f]
  /\ overlap' = (overlap \/ Overlaps)
  /\ stale' = (stale \/ get # None)
  /\ UNCHANGED <<playback, capturing, speed, server, active, get, files, mounted>>

PutApplied ==
  /\ put.at = "sent"
  /\ server' = put.filter
  /\ put' = [put EXCEPT !.at = "applied"]
  /\ UNCHANGED <<playback, capturing, speed, active, get, files, mounted, overlap, stale>>

\* Seeded fault: the speed of the clock is left as it was.
PutAnsweredAtSpeed ==
  /\ put.at = "applied"
  /\ put' = None
  /\ active' = put.filter
  /\ capturing' = (put.filter # Off)
  /\ recording' = (recording /\ put.filter # Off)
  /\ StopPlayback
  /\ stale' = (stale /\ get # None)
  /\ UNCHANGED <<packets, mode, speed, server, get, files, mounted, overlap>>

PutAnswered ==
  /\ put.at = "applied"
  /\ put' = None
  /\ ShowFilter(put.filter)
  /\ StopPlayback
  /\ stale' = (stale /\ get # None)
  /\ UNCHANGED <<packets, mode, server, get, files, mounted, overlap>>

\* Refused, or the answer is lost.
PutFails ==
  /\ put # None
  /\ put' = None
  /\ stale' = TRUE
  /\ UNCHANGED <<playback, capturing, speed, server, active, get, files, mounted, overlap>>

\* updateSettings; while packets are captured the choice is disabled, and 1 is
\* forced on the settings.
SetSpeed(s) ==
  /\ mounted /\ ~capturing
  /\ speed' = s
  /\ UNCHANGED <<playback, capturing, pageVars>>

-----------------------------------------------------------------------------
(* Files *)

\* importTrafficReplayFileFromDisk, behind importControlsDisabled of the panel.
\* First the containers are asked for.
ImportFile(list, withPcap) ==
  /\ mounted /\ ~disabled /\ importing = None
  /\ ~capturing /\ ~recording /\ ~player.enabled
  /\ importing' = [at |-> "containers", list |-> list, pcap |-> withPcap]
  /\ overlap' = (overlap \/ Overlaps)
  /\ UNCHANGED <<playback, capturing, speed, connection, imported, json, pcap, filtering, mounted, stale>>

\* The worker reads files without blocking, but filters in one go: an import it
\* is asked for after a filter comes after it.  After the page is left, this
\* starts another worker.
ContainersAnswered ==
  /\ importing.at = "containers"
  /\ importing' = [importing EXCEPT !.at = IF filtering = <<>> THEN "worker" ELSE "behind"]
  /\ UNCHANGED <<playback, capturing, speed, connection, imported, json, pcap, filtering, mounted, overlap, stale>>

ShowFile(list) ==
  /\ ImportEvents(list)
  /\ imported' = TRUE

\* Nothing is looked at again.
ImportAnswered ==
  /\ importing.at = "worker"
  /\ ShowFile(importing.list)
  /\ json' = importing.list /\ pcap' = importing.pcap
  /\ importing' = None
  /\ UNCHANGED <<mode, capturing, speed, connection, filtering, mounted, overlap, stale>>

\* A file that cannot be read, or holds no packet.
ImportFails ==
  /\ importing.at = "worker"
  /\ importing' = None
  /\ UNCHANGED <<playback, capturing, speed, connection, imported, json, pcap, filtering, mounted, overlap, stale>>

\* The empty filter needs no worker.
ClearOfflineFilter ==
  /\ CanSubmit /\ OfflineFilterAvailable
  /\ ShowFile(json)
  /\ UNCHANGED <<mode, capturing, speed, connection, json, pcap, importing, filtering, mounted, overlap, stale>>

OfflineFilter ==
  /\ CanSubmit /\ OfflineFilterAvailable
  /\ filtering' = json
  /\ overlap' = (overlap \/ Overlaps)
  /\ UNCHANGED <<playback, capturing, speed, connection, imported, json, pcap, importing, mounted, stale>>

\* The import that waited is next.
FilterDone ==
  /\ filtering # <<>>
  /\ filtering' = <<>>
  /\ importing' = IF importing.at = "behind" THEN [importing EXCEPT !.at = "worker"] ELSE importing

\* Any of the packets may match.
FilterAnswered(matching) ==
  /\ FilterDone
  /\ ShowFile(Filtered(filtering, matching))
  /\ UNCHANGED <<mode, capturing, speed, connection, json, pcap, mounted, overlap, stale>>

FilterFails ==
  /\ FilterDone
  /\ UNCHANGED <<playback, capturing, speed, connection, imported, json, pcap, mounted, overlap, stale>>

\* clearTrafficReplayPackets.  It calls nothing off.
Clear ==
  /\ mounted /\ ~disabled /\ packets # <<>>
  /\ ClearRecording
  /\ imported' = FALSE /\ json' = <<>> /\ pcap' = FALSE
  /\ overlap' = Overlaps
  /\ UNCHANGED <<recording, mode, capturing, speed, connection, importing, filtering, mounted, stale>>

\* The timers are cleared, and the worker ends with what it was asked.
Unmount ==
  /\ mounted
  /\ mounted' = FALSE
  /\ player' = Silence(player)
  /\ importing' = IF importing # None /\ importing.at # "containers" THEN None ELSE importing
  /\ filtering' = <<>>
  /\ UNCHANGED <<packets, recording, mode, capturing, speed, connection, imported, json, pcap, overlap, stale>>

-----------------------------------------------------------------------------

Requests ==
  \/ GetRead \/ GetAnswered \/ GetFails
  \/ PutApplied \/ PutAnswered \/ PutFails
  \/ ContainersAnswered \/ ImportAnswered \/ ImportFails
  \/ \E matching \in SUBSET Stamps : FilterAnswered(matching)
  \/ FilterFails

UserAsks ==
  \/ \E f \in AllFilters : PutFilter(f)
  \/ \E s \in Speeds : SetSpeed(s)
  \/ \E list \in JsonLists, withPcap \in BOOLEAN : ImportFile(list, withPcap)
  \/ OfflineFilter \/ ClearOfflineFilter
  \/ Clear
  \/ Unmount

Play ==
  /\ mounted
  /\ PlaybackNext
  /\ UNCHANGED pageVars

PageNext == Play \/ Requests \/ UserAsks

pageState == <<playback, capturing, speed, pageVars>>

\* A browser fires a timer that has come due.
PageSpec ==
  /\ PageInit
  /\ [][PageNext]_pageState
  /\ WF_pageState(mounted /\ Timers /\ UNCHANGED pageVars)

-----------------------------------------------------------------------------
(* Properties *)

\* Type invariant: the controller's, and a request of each kind at most.
PageTypeOK ==
  /\ PlaybackTypeOK
  /\ speed \in Speeds /\ capturing \in BOOLEAN
  /\ {server, active} \subseteq AllFilters /\ capturing = (active # Off)
  /\ get \in {None, [at |-> "asked"]} \cup [at : {"read"}, filter : AllFilters]
  /\ put \in {None} \cup [at : {"sent", "applied"}, filter : AllFilters]
  /\ json \in JsonLists \cup {<<>>} /\ filtering \in JsonLists \cup {<<>>}
  /\ importing \in {None} \cup
       [at : {"containers", "worker", "behind"}, list : JsonLists, pcap : BOOLEAN]
  /\ {imported, pcap, mounted, overlap, stale} \subseteq BOOLEAN

\* Whatever answers come while packets are recorded or played, the timers and
\* the list match the playback that is shown; after the page was left there is no
\* timer that plays.
PageIsOrderly ==
  /\ PageTypeOK
  /\ QuietUnlessPlaying /\ NeverBoth /\ NoneSkipped /\ PlaysItsPackets
  /\ mounted => PlayingGoesOn
  /\ ~mounted => player.timer = "none" /\ player.scheduled = {}

\* "Stop packet capture before importing a file." and "Clear imported replay file
\* before applying a capture filter." (TrafficReplayPanel.vue:393, 399): a file is
\* never shown while packets are captured, and all packets shown with it are its
\* own, unless one was asked for while the other was under way.
FilesExcludeCapture ==
  ~overlap /\ imported => ~capturing /\ ToSet(packets) \subseteq ToSet(json)

\* The panel shows the filter the collector runs unless an answer was lost or
\* overtaken; packets are recorded only while it runs one, and then the clock of
\* the map follows real time (lines 91-95, 116-123).
CaptureIsShown ==
  /\ get = None /\ put = None /\ ~stale => active = server
  /\ recording => capturing
  /\ capturing => speed = 1

\* A playback that runs comes to an end, or somebody stops, pauses or leaves it.
PageEnds == (player.enabled /\ ~player.paused) ~> (~player.enabled \/ player.paused \/ ~mounted)
=============================================================================
