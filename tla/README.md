# Verification of seed-visualization

`seed-visualization` shows what happens in a running SEED network emulator: maps in the browser, services that command
the emulator's containers, and an eBPF collector whose packets the maps replay. This directory holds TLA+ models of its
stateful parts, the TLC instances that check them and proofs for the TLA+ proof system. Paths are relative to the
repository; `tos` is `traffic-observer-service`, `ems` is `emulator-service/src`, and `sat`, `geo`, `top` are
`frontend/src` of `InternetMap-Satellite`, `-Geographic` and `-Toplogy`.

## 1. Inventory

| part | state | operations | talks to | hard behaviour | what makes it correct |
|---|---|---|---|---|---|
| capture program `tos/bpf` | filter map, ring buffer | one program run per packet | filter control (map), collector (ring) | runs while the map is written; full ring | only selected packets |
| collector loop `tos/cmd/collector` | none of its own | read, enrich, record, broadcast, shut down | all of `tos` | must never wait for a browser | every packet once, in order |
| packet hub `tos/internal/realtime` | clients, a channel per client | Broadcast, register, unregister, Close, two loops per client | collector, browsers | three goroutines close a client | no send on a closed channel, no hole in a stream |
| recorder `tos/internal/pcaprecorder` | batch, two open files, counters, files on disk | Write, SetEnabled, BeginCapture, Close | collector, HTTP, filter control | each file operation can fail, the process can die | files of a batch agree, none is overwritten |
| filter control `tos/internal/control` | reported filter | PUT, GET | filter map, recorder, interface manager | a failure half way | reported, applied and recorded filter agree |
| interface manager `tos/internal/ifacemanager`, `probe`, `dockeriface` | mapping, names, links | Refresh, EnsureReady, ReplaceInterfaces | Docker, kernel, filter control | concurrent refreshes, containers that come and go | a refresh brings everything up to date |
| node task controller `ems/utils/controller.ts` | pending tasks, promises, buffers | _run, _wait, results in chunks | sessions, REST API | awaits between check and use, lost results | every task answered |
| session manager, sniffer, REST API `ems` | sessions, filters, four lists of sockets | getSession, sniff, POST /sniff, /packet, /container/vis/set, /host | containers, browsers | awaits, overlapping requests, sessions that end | a node runs the filter last asked for, subscribers stay |
| event submission `ems/utils/submit-event.ts` | a temporary directory, scripts in containers | install, uninstall | containers, the process itself | overlapping calls, deletions nobody awaits | success means every node has the script |
| console sockets `ems/utils/socket-handler.ts` | listeners on sessions | handleSession, close | session manager, console pages | a socket or shell that ends while a session is got | a console hears its node's shell |
| satellite links: service, `sat` data source, clock, selection | timeline, links shown, what was removed | POST /links, message, advance, remove | satellite page | empty and overlapping timelines, clock that jumps | the links of the frame that is due |
| satellite traffic playback and panel `sat` | list, position, timers, filter, file | record, play, seek, import, filter, leave | collector, worker, clock | timers, late answers | shown once, in order, and it ends |
| packet replay `geo` | list, position, batches, analysis | record, prepare, play, filter, hide | worker, collector | an analysis or frame that comes late | paths belong to the packets, it ends |
| topology map `top/utils/map-ui.ts` | log of packets, lit nodes, timers | packet, flash, replay, search | data source | two flashers and a search colour the same nodes | what is lit is taken back |
| console windows `utils/window-manager.ts` (same file in `top` and `geo`) | windows, order, masks, drags, taskbar | open, activate, minimise, close, drag, resize | user, host's messages, pages in frames | a message opens a window in the middle of a drag | one window in front, masks end |
| filter expressions `tos/internal/filter`, `match_filter` of `tos/bpf` | none | parse, match | filter control | words in any order write the same fields | what is selected is what is written |
| event enrichment, Docker and Kubernetes adapters, sinks, data sources, drawing | none that lasts | | | | pure functions and I/O, not modelled |

`PROJECT.json` lists the parts with their status, and the hazards of the code, each at its line with the properties that
would catch it.

## 2. Modules

| module | models | extends / instantiates |
|---|---|---|
| `PacketStream` | what a browser is promised: the packets since it joined, in order, until it is dropped | |
| `PacketHub` | `packet_hub.go` and its callers in `main.go` | instantiates `PacketStream` with a refinement mapping |
| `PcapRecorder` | `recorder.go`, `control.go` of the recorder | |
| `IfaceManager` | `manager.go`, `probe.go`, discovery | |
| `CaptureControl` | the filter handler of `server.go`, the eBPF map and ring buffer, the collector's loop; the recorder reduced to its batch, EnsureReady to its outcome | |
| `FilterExpr` | `filter.go`, `match_filter` | |
| `FilteredCapture` | both: the value in the map is an expression parsed | extends `CaptureControl`, `FilterExpr` |
| `TaskController` | `controller.ts` and `session-manager.ts` of both emulator services | |
| `SnifferApi` | `sniffer.ts`, its routes, the lists of sockets | extends `Lists` |
| `SubmitEvent` | `submit-event.ts` | |
| `EmulatorService` | both in one process, which an unhandled rejection ends | extends `SnifferApi`, instantiates `SubmitEvent` |
| `TrafficPlayback` | `useTrafficPlaybackController.ts`, `trafficReplayService.ts` | extends `Lists` |
| `TrafficPage` | the page around it: collector's filter, imports, off-line filter, leaving | extends `TrafficPlayback` |
| `SatelliteLinks` | POST /links, the data source's timeline, its handlers, the clock, removals | extends `Lists` |
| `GeoReplay` | recording, preparation, analysis and playback on the geographic map | extends `Lists` |
| `MapUi` | flashing, replay and search of the topology map | |
| `WindowManager` | `window-manager.ts` under the mouse | |
| `ConsoleSessions` | a console page, its socket, the handler and the shared sessions | |
| `Consoles` | the windows with the pages in their frames | extends `WindowManager`, instantiates `ConsoleSessions` |
| `Lists` | sort and filter of JavaScript arrays (external); the modules that extend it need facts about them | |
| `ObserverProofs` | theorems about the traffic observer's packets: `PacketHub`, `CaptureControl`, `FilteredCapture` | the modules named, `TLAPS` |
| `IfaceManagerProofs`, `PcapRecorderProofs`, `EmulatorServiceProofs`, `GeoReplayProofs`, `ListsProofs` | theorems about the module named | the module, `TLAPS` |
| `SatelliteProofs` | theorems about the satellite map: `SatelliteLinks`, `TrafficPage` with its playback, `TaskController` behind it | the modules named, `TLAPS` |
| `TopologyMapProofs` | theorems about both halves of the topology map's page, `MapUi` and `Consoles` | the modules named, `TLAPS` |
| `MC...` | instances for TLC | the module named |

Variables carry the names of the fields they stand for; the comment of each says which field, or that it is a program
counter or a history variable, which no guard reads. `PROJECT.json` maps each definition to its lines. Operators whose
comment begins "Seeded fault" are not part of the models: each is a bug of a plausible kind, and replacing the
definition it mirrors by it makes TLC find the property it is listed with violated.

**What is one step.** Under a Go mutex a critical section is one step when nothing else can be seen to act inside it.
Three are split: the read-locked loop of `Broadcast`, because write loops drain channels during it; `Recorder.Write`,
because each file operation can fail and the process can die between two; and the filter handler, because packets are
captured and recorded while it holds its mutex. What happens without a lock is always separate steps. JavaScript and the
browser run one callback at a time: there a step is the code between two awaits, one event, or one timer. Vue's
watchers are steps of their own where something can happen before they run (`SatelliteLinks`).

**PacketHub.** `clients` is `h.clients`, `queue` the channels, `reader` and `writer` where the two loops are, `hub`
where the collector is. `BroadcastStart`, `BroadcastSend` (with the `select`, `Offer`), `BroadcastUnlock`,
`BroadcastEvict` and `BroadcastReturn` are `Broadcast`; the rest are the handler (`Upgrade`, `Register`), the loops
and shutdown (`CollectorStop`, `Close`).

**PcapRecorder.** A stem is a triple of sanitised filter, second and nanosecond. `pcaps` and `jsons` are the files on
disk by stem; bytes left by a failed or interrupted write are an entry `Torn`. `Write` is `WriteStart`, then as needed
`MkdirFails` or `OpenPcap`, `OpenJSON`, `WriteRecord`, `WriteMessage`, each with its success and its failures. `Kill` and
`Stop` end the process and start a new one on the same disk. A process dies between two of these steps (`DiesBetween`) or
within one, where the code writes in two parts or cuts two files (`DiesInPcapHeader`, `DiesInBracket`, `DiesInRecord`,
`DiesInMessage`, `DiesRollingBack`), and what it leaves is then torn although no operation failed. What was written stays
written: nothing is synced, so of a loss of power the model says nothing.

**IfaceManager.** A device is one host veth. A request is a program counter through `Count`, `List`, `Inspect`,
`ReplaceInterfaces` and `Publish`. `Appear` and `Disappear` are Docker's.

**CaptureControl.** A packet in the ring buffer is the filter that selected it. `filter_cfg` is an array map, whose
value is copied in place while programs read it, so between `UpdateStarts` and `UpdateEnds` it is `Mixed`.

**FilterExpr.** An expression is its words. The parser, which looks ahead in the list of words, is written as a fold that
remembers the words of a qualifier it has begun (`ReadWord`); a match flag and its value are one field, and the two ways the
code keeps protocols are one set. `Means` is written from what an expression says, and not from the code: every qualifier
holds on one of its sides, and one of the protocols. They agree on `Plain` expressions, which name each field once and
have different sides. Outside of it they do not: of `host a host b` the last one counts, `or` between anything but protocols is
read as `and`, and `src host a dst host a` selects what `host a` selects.

**TaskController.** A task is one call of `_run` and stands for its id; `pc` says at which await it is. `Run` is
`_wait`, `FindSession` and `SessionOpens` the two ends of `getSession` with the write and the promise that follow in
the same callback. A result is a begin mark and an end mark in the stream of its session; `DataWhole` delivers both in
one event, `DataBegin` and `DataEnd` one each. `_messageBuffer` is by node, so two sessions of a node share one.

**SnifferApi, SubmitEvent, EmulatorService.** A call is one POST. `sniff` takes the nodes that need a session off a list
that a few workers share (`left`, `opening`); `table` is the session manager's, `running` the filter a sniffer was given.
A POST /sniff awaits the containers (`PostSniff`) and reads the filter once they are listed (`Listed`), when a later request may
have changed it; a POST /packet writes its own.
`PostSniff`, `PostPacket`, `Notify`, `Connect` and `Leave` are the routes and sockets, `Prune` and `Misprune` what they
remove from the lists. An install is a directory, a copy and an archive per node; a deletion goes on after its call was
answered (`removing`), and when it fails `Die` ends the process and `Restart` begins both parts anew.

**TrafficPlayback, TrafficPage.** `player` is what one handler changes, so that handlers that call each other compose as
functions. A packet is its timestamp. A timer that is set may fire at any moment, in the order of delays. `get`, `put`,
`importing` and `filtering` say what is awaited; the answer goes on from the state it meets.

**SatelliteLinks.** A file is a sequence of timed requests; `FramesOf` is the timeline `scheduleLinkUpdates` makes of
it, `Advance` the data source, `ShowLinks` the handler of a frame, `RemoveSatellite`, `RemoveAll` and `SelectStations`
the user.

**GeoReplay.** `preparation` and `analysis` are the two coroutines of `EmulatorTopologyPage.vue`, `held` the packet
whose handler awaits the analysis of the live flow, `player.batches` the windows still to be played.

**MapUi.** `ticks` and `unflashes` count pending timeouts; `lit` is the set of nodes drawn as lit, whoever lit them.

**WindowManager, ConsoleSessions, Consoles.** `desk` is a record of the manager's fields and of what its windows look
like; windows are numbered as they are made, so that one made anew for a node is another. `pressed` is where the mouse
button went down; it may come up over the document (`MouseUp`, `MouseClick`) or over a frame that has no mask, whose
page swallows it (`MouseUpInFrame`). In `Consoles` a window that is made loads a page, one that is gone takes its page
with it (`Frames`), and a page is named by the socket it opens. `Resolved` and `Opened` are the two ends of `getSession`
with what the handler does in the same callback (`Attach`).

## 3. Runs

| run | asks | bounds |
|---|---|---|
| `PacketHub` | no send on a closed channel, no gap, complete or gone; implements `PacketStream`; broadcasts and loops return, queued packets are delivered or the client dropped | 2 clients, capacity 1, 3 packets |
| `PcapRecorder` | what the files hold after failures, deaths in the middle of a write, and restarts | 2 filters with one sanitised name, 3 packets, 2 batches, 2 seconds, 2 failures |
| `PcapRecorderSameStem` (violation) | one name for the two open files | 1 filter, 3 packets, 1 failure |
| `IfaceManager` | probe consistent, filters accepted only when attached, a refresh that runs alone is complete and repairs | 2 requests, 2 devices, 1 failure |
| `CaptureControl` | the three filters agree, the kernel selects what the reported expression says, every PUT is answered, a disabled filter falls silent | 2 requests, 2 filters and the empty one, ring of 2, 2 failures; expressions of 3 clauses over 2 hosts and 2 ports |
| `TaskController` | nobody waits in vain, every task returns | 3 tasks, 2 nodes, 1 failure |
| `EmulatorService` | subscribers stay, a node runs the filter last asked for in one sniffer, no worker is lost, success is everywhere | 2 calls, 2 nodes, 3 sockets, 1 worker, 1 failure |
| `TrafficPage` | timers match the playback, files exclude capture, the filter shown is the collector's, playback ends | stamps 1 and 4, lists of 2, both modes, 1 file, 2 speeds |
| `SatelliteLinks` | the links shown are current, what was removed stays so | 2 satellites, 2 stations, 6 times, 5 files, 2 messages on their way |
| `GeoReplay` | recording and replay exclude each other, paths belong to the packets, preparation (on a page that is shown) and playback end | stamps 1 and 3, lists of 2, two modes |
| `MapUi` | nothing stays lit, one replay timer, replay ends | 3 nodes, 3 lines, lists of 2, 1 step below the first event |
| `Consoles` | one window in front, masks end with drags, consoles hear their shell and settle | 2 nodes, 2 windows made, 2 pages, 2 failures |

**Why the bounds are enough.** Two clients are one that is evicted and one that is not. A channel of one is full after
one packet, and with the packet `writeLoop` holds and the one being sent three packets let a client be full and
dropped or drained. Two batches and three packets let a batch be interrupted, resumed and interrupted again; the two
filters share a sanitised name, and two seconds make a name taken in some runs and free in others. One failure is the
case the code handles, the second is a failure of its handling. Two requests or calls are enough for every pair of
interleaved steps (that a third request makes a node sure again is left to the proof), one device that comes while
another goes for every stale list, and two nodes for a call whose nodes fare differently. With three tasks one can
run, one be woken and one wait behind it; two of them share a node. One worker for two nodes leaves one waiting in the
list, which a lost worker would never take. Two packets, whose times fall in one window or in two, let a list be
replaced by a shorter one and a position be inside it, at its end and beyond it; the file's packet has a time of its
own so that it can be told from a recorded one when it matters. The five link files are one frame after another,
requests that overlap and are out of order, a gap, no frame at all, and an interval that is no number. Two windows are
one in front and one behind, and a window replaced while it is dragged is two windows made; two pages are two consoles
of one node that share or miss each other's shell, or one loaded twice. Longer streams, larger lists and more of
everything are covered by the proofs where there are any (section 5).

`CHECK_DEADLOCK FALSE` is in the cfg of a model that may stop: `PacketHub` and `PcapRecorder` (the collector stops, the
bounds on packets end the run), `TaskController` and `EmulatorService` (all calls answered),
`TrafficPage` and `SatelliteLinks` (the page was left), `Consoles` (no more windows or pages within the bounds). In the other models
some event is always possible.

**Fairness.** In Go: weak fairness of every step a runnable goroutine takes; strong fairness of taking `c.mu`, for a
waiter on a `sync.RWMutex` is not overtaken for ever; a write to a websocket ends within its two second deadline. In
`TaskController`: Docker answers or the call fails, a worker executes the commands of its shell in order, an open stream
delivers what was written to it. In the browser: timers that are due run (`TrafficPage` while the page is mounted,
`MapUi`, `GeoReplay`), an animation frame comes while the page is shown, for a hidden tab gets none, and a worker answers
(`GeoReplay`), and for each console the events that
have happened are handled and the calls that are awaited answered (`Consoles`). Nothing makes a browser connect or leave,
a user act, a packet, request, host's message or task come, a container appear, a session end or an operation fail. The
invariants and action properties of `EmulatorService`, `SatelliteLinks` and `PcapRecorder` assume no fairness.

## 4. What the checks found

`PcapRecorderSameStem` is a disagreement of test and documentation with the code, quoted in `PROJECT.json`: after one failed
write to the pcap file the pair of open files no longer has one name, and the n-th packet of one is no longer the n-th
message of the other (`recorder.go:191`).

The other behaviours that surprised are stated in the properties as exceptions, so that the properties say exactly
when the promise is kept, or are left out of the models and named here.

* Two tasks do run at once although `controller.ts:57` says "Only one task is allowed at a time": each looks for promises
  (147), awaits its session (152), and only then stores its own (158). Two that share a node may open two shells and the
  table keeps the later (`session-manager.ts:116`); `EveryTaskReturns` names the case. A task whose session ends, or that fails
  after it was woken, leaves those behind it waiting for ever (`broken`, `writable`), for there is no timeout.
* Of two concurrent refreshes the older may finish last and undo the newer (`manager.go:73`; `current = "alone"` in
  `RefreshAloneIsCurrent`). A refresh attaches nothing when the names are unchanged (`probe.go:94`), which leaves an interface
  recreated under its old name alone; the instance gives every device a name of its own, as Docker's random names do.
* When beginning a batch fails, the map keeps the new filter and GET reports the old one (`failed` in `InAgreement`). Packets
  selected by an old filter that are still in the ring buffer are recorded in the next batch (`server.go:172`). After a failed
  replacement the manager's snapshot still names interfaces the probe has lost, which `EnsureReady` rightly does not consult.
  When a JSON header cannot be written the batch records nothing more until it is changed or disabled and enabled.
* A dead packet subscriber is looked up in another list (`main.ts:427`): the last sniffer subscriber is removed
  (`misplaced`). Of two overlapping sniff requests that still await the containers, both apply the filter of the later
  (`main.ts:315`); one that had read its filter before may leave it on the nodes it comes to after the later one (`unsure`), and
  two that open a session of one node at once leave it two sniffers (`twice`). Overlapping installs and deletions disturb each
  other (`disturbed`), and a deletion that fails after its call was answered ends the process (`Die`).
* On the satellite map the list of an import may mix with packets recorded meanwhile, and answers about the filter may come out
  of order (`overlap`, `stale`). In window mode, playing the next window cancels packets of the last that are still to be shown
  (`windowed`). A links message that cannot be used empties the map (`blank`).
* On the geographic map interval mode plays a list in the order it has, though the panel speaks of timestamps
  (`LiveTrafficReplayPanel.vue:296`), and a batch of windows built for a longer list makes playing throw (`threw`). A replay that
  is prepared when its tab is hidden waits for a frame, and the panel with it, until the tab is shown again (`PreparationEnds`).
* The client of the observer (`trafficObserverService.ts:167`) opens two sockets when the close event of an old one comes after
  a new one is stored.
* A console whose socket closes while its session is being got leaves its listeners on the session (`early`), and two
  consoles of a node that open at once get a shell each (`together`). A mouse button released over a frame without a mask, which
  a window opened in the middle of a drag has, leaves the drag going; `MasksEndWithDrags` says that this is the only way.

## 5. Proofs

TLAPS checks these for every value of the constants the modules' named assumptions allow: any number of clients, channel
capacity, filters, devices, tasks, requests, calls, nodes, windows, packets and failures. Every safety property a passing run
checks is a theorem. Each is proved from an inductive invariant that TLC has checked, which is needed because hardly one of the
properties is inductive alone.

**ListsProofs.** `EnumerationIsOrdered`: the n-th member of a finite set is well defined when it is the one n - 1 others precede,
which is why `Lists` defines sort and filter so. `AscendingSorts` and `FilteredKeeps` are what the other proofs cite.

**ObserverProofs**
* The hub: `TypeCorrect`, `NeverSendsOnClosed`, `StreamHasNoGap`, `RegisteredIsComplete`, `StreamsAreComplete`, from `Invariance`.
  `NoSendOnClosed` needs that a closed client has left the map and that the loop's snapshot stays inside the map (`Membership`),
  which holds because a close needs the lock the loop shares. `NoGap` is about a concatenation and is proved in the three
  places a packet can be in (`InOrder`), which needs that `writeLoop` holds a packet exactly while it writes (`LoopState`).
  `CompleteOrGone` speaks of the time between broadcasts; `UpToDate` extends it to their middle. `HubImplementsStream` is the
  refinement: each action of the hub is mapped to a step of `PacketStream` or a stutter.
* Filter control: `ControlTypeCorrect`, and `FiltersAgree` from `ControlInvariance`, which adds that the mutex is held exactly by
  the request past `Lock` (`Holding`) and what that request has changed at each point (`Progress`). `ReportedIsWhatIsSelected`
  takes it to packets: if every filter by itself is read as it is meant, which TLC checks over short expressions, no sequence of
  changes makes the kernel select by another one.

**IfaceManagerProofs.** `TypeCorrect`, `ProbeIsConsistent` and `AcceptedFilterWasAttached` from `Invariance`, which adds that a
running request has recorded whatever the probe was attached to (`Seen`). `CurrentInvariance` is about a refresh that ran alone:
what it found is what is there until a device comes or goes (`FoundIsPresent`), no other ran beside it (`AloneRuns`), so it has
attached to every name (`AttachedToAll`), and a later one has listed nothing older (`CurrentByName`). It gives
`RefreshAloneIsCurrentByName` for any devices. `RefreshAloneUpdatesEverything`, the property the run checks, needs besides that no
two devices ever share a name, because `ReplaceInterfaces` compares names only (`probe.go:94`); its hypothesis says so, and
the random names Docker gives satisfy it.

**PcapRecorderProofs**
* `TypeCorrect`, `FilesKeepToTheirBatch`, `MessagesHavePackets` and `RecordingsAreSafe` from `Invariance`. Recordings are safe because
  a unique name carries a nanosecond above all that were used (`NamesAreOld`). A file keeps to its batch because the open files
  are of the current one (`OpenIsCurrent`), which holds because a batch begins only when both are closed. A message keeps its
  packet because a rollback cuts the last record only, which is the packet being written and no message yet (`NotYetSent`).
* `BatchesAreComplete` from `CompleteInvariance`: within a `Write` a batch lacks exactly the packet that is being written
  (`Completeness`), no file is of a batch to come (`NoneIsAhead`), and the name of an open capture file is still free for its
  JSON file (`NameIsFree`), so the error "name taken" never meets a batch in which nothing else failed.
* `RecordingsAreReadable` from `ReadableInvariance`. The packet that is written was in no file before (`NotYetRecorded`), so entries
  ascend; torn bytes lie only in files that nothing is appended to, and the counters agree with the files in the middle of a
  `Write` too (`Clean`). That holds as long as no rollback fails (`rollbackFailed`), as the property says, whatever else fails and
  wherever the process dies: the proof of `Kill` has a case for each place. The separators hold whatever fails.

**SatelliteProofs**
* The tasks: `TypeCorrect` and `NeverStranded`, whose conjuncts are inductive together: the task woken is the head of a queue that
  holds exactly the waiting tasks, each once, so it is not the one that returns.
* The links: `MapFollowsTimeline` and `RemovalsAreKept` from `LinksInvariance`: the page is coherent whatever message comes, it shows
  its active frame without what was removed (`Shown`), and that frame is the one due once the watcher has run.
* The traffic panel: `PlaybackIsOrderly`, `FilesAndCaptureExclude` and `PanelShowsCapture` from `PageInvariance`. Its parts are the
  player at rest between two handlers (`PlayerInv`, with a lemma for each handler, for they call each other), what is awaited
  (`Requested`), that it goes on while the page is shown and stops when it is left (`Alive`), how the filter shown, sent and applied relate at each
  point of a request (`CaptureInv`), and which of file, capture, import and filter may be under way together (`FilesInv`).

**GeoReplayProofs.** `RecordingAndReplayExclude` from `Invariance`, which adds where a position may lie and which coroutine may still
change what. `WindowsCoverTheList`: the windows leave no gap and do not overlap. `PathsAreOfTheseEvents` from `PathsInvariance`: an
analysis that is valid, and the one that will follow it, are of the list as it is (`FlowInv`), because whatever changes the
list invalidates them, and sorting it does not change which packets it has.

**EmulatorServiceProofs**
* `InstallsReachEveryNode` from `Invariance`: an install that was met by no other and by no deletion finds in the directory
  and in the containers what it put there itself, through the death and restart of the process.
* `NoWorkerIsLost`, `NodesKeepTheirSniffer` and `SubscribersAreKept` from `SnifferInvariance`. The nodes a call has left, opens and
  is for are disjoint or nested, and while nodes are left it opens as many as it has workers (`Workers`), whichever of them
  found a sniffer running and went on at once. Whoever may yet write to a node will write what was last asked for, where
  that is not noticed to be otherwise, and it runs where every call has come (`FilterKept`); a session is opened only while none
  is open, except by two calls at once (`OneKept`). A socket is in a list at most once, so that one that leaves removes itself
  and no other (`SocketsInv`).

**TopologyMapProofs**
* The map: `LitIsTakenBack` and `ReplayerIsAlone` from `MapInvariance`.
* The windows: `OneWindow` and `MasksEnd` from `DeskInvariance`. The strengthening (`Orderly`) says that windows and nodes
  know each other (`Linked`), with the windows not made yet blank, that those shown are in front or lit exactly when active
  (`Sorted`), and that the taskbar is drawn; `Masked` and `Held` are about masks and drags. There is a lemma per operation of
  the manager, so that the step lemma has one step per action. `ConsolesImplementDesktop` shows that the composition takes only
  steps of the window manager, and `ConsolesAreOrderly` carries both properties over to it.
* The consoles: `ConsolesHear` from `ConsolesInvariance`. A handler exists only where a page has asked (`Ages`); it listens to the
  session it has got and to no other, unless its socket closed first (`Hears`); a writable session that was opened alone is the
  one the table knows, so that the next console of its node finds it (`Opens`). That a frame's page was loaded (`Framed`) needs
  of the windows that those with a frame have a node, which `DeskInvariance` gives.

Types of the hub, the recorder, the interface manager and filter control are proved and not checked by a run of their own; the
types of the other parts are conjuncts of the properties named in their modules.

Only model-checked:
* liveness, with its fairness, and `ENABLED`, which are out of the prover's reach;
* that the parser reads every expression as it is meant: it is a fold over the words, and the induction this needs takes an operator
  as a parameter (where counting the members of a finite set, or its least one, does instead, it is used: for sort and filter,
  the windows of a replay and the workers of a call);
* `SameStem`, the property of the run that finds it violated.

## 6. Not modelled

* Pure functions: packet parsing, event enrichment, JSON
  and pcap formats, the path analyser and the workers that read files. The models take their results as values or choices.
* Adapters without state: Docker and Kubernetes clients, HTTP, CORS, configuration, the sink.
* Drawing: Cesium scenes, globes, labels, panels, positions and sizes of windows. The data sources of the maps hand packets on.
* Of the consoles: a console in a browser window of its own (opening it closes its window), the mark for input broadcast,
  notifications (two that come together are both shown, although a comment says they queue), what a shell prints, and a command
  that is typed a second after the page is up, which is lost when no session is there by then.
* The client of the traffic observer on the satellite map: one socket and one timer; see section 4.
* The timed execution of ground links in containers, one command after another.
* A packet without captured bytes and a disabled recorder leave no trace in the recorder and are stutters. The hub has no ping
  and no timeout for idle connections. Two processes recording in one directory are left out.

## 7. What could come next

1. Of the parts with state of their own, the import and export of recordings on the geographic map
   (`packetReplayFileService.ts`) and the observer's client on the satellite map are the largest that are left.
2. `CaptureControl`, `PcapRecorder` and `PacketHub` composed into one collector, whose filter is the recorder's batch.
3. An abstract recorder, a sequence of batches that are complete or damaged, which `PcapRecorder` implements: the invariants it
   needs are those of `BatchesAreComplete`.
