---------------------------- MODULE PcapRecorder ----------------------------
(***************************************************************************)
(* internal/pcaprecorder of traffic-observer-service: the recorder that    *)
(* writes the packets of a capture batch to a pcap file and the messages   *)
(* sent to the browsers to a JSON file of the same name.                   *)
(*                                                                         *)
(* The collector's loop calls Write; HTTP handlers call SetEnabled and     *)
(* BeginCapture; run's deferred call is Close.  All hold r.mu, so they are *)
(* one step each, except Write: its file operations are steps of their     *)
(* own, made while step is not "idle", because each can fail and the       *)
(* process can be killed between two of them.  An operation that writes    *)
(* twice (a header and its data, a separator and its message) is one step  *)
(* too, since r.mu is held; that the process dies between the two is an    *)
(* alternative of Kill.  The files stay on disk when the process goes.     *)
(*                                                                         *)
(* A packet is its position in the order the collector records; a message  *)
(* is the packet it describes.  The bytes of a write that failed, or was   *)
(* cut short by the end of the process, are Torn.                          *)
(* byteCount, which follows packetCount, is left out.                      *)
(***************************************************************************)
EXTENDS Integers, Sequences

CONSTANTS
  Filters,            (* non-empty filter expressions, trimmed *)
  SafeFilterName(_),  (* safeFilterName: different filters may share a name *)
  MaxPackets,         (* bound: packets recorded *)
  MaxBatches,         (* bound: batches begun *)
  MaxSeconds,         (* bound: times the second of the clock changes *)
  MaxFaults           (* bound: file operations that fail *)

NoFilter == ""
NoStem == <<>>

ASSUME RecorderAssumption ==
  /\ NoFilter \notin Filters
  /\ MaxPackets \in Nat
  /\ MaxBatches \in Nat
  /\ MaxSeconds \in Nat
  /\ MaxFaults \in Nat

VARIABLES
  enabled,        (* r.enabled *)
  captureActive,  (* r.captureActive *)
  filter,         (* r.filter *)
  fileStem,       (* r.fileStem: <<sanitised filter, second, nanosecond>>,
                     nanosecond 0 in a default stem *)
  pcapFile,       (* stem of the open pcap file, or NoStem *)
  jsonFile,       (* stem of the open JSON file, or NoStem *)
  jsonStarted,    (* r.jsonStarted: the next item needs a separator *)
  packetCount,    (* r.packetCount *)
  messageCount,   (* r.messageCount *)
  lastError,      (* r.lastError is not empty *)
  step,           (* "idle", or the next file operation of a Write *)
  pcaps,          (* .pcap files on disk, by stem: batch and records *)
  jsons,          (* .json files on disk, by stem: batch, items and ended, TRUE
                     once the closing bracket is written *)
  second,         (* the clock, in seconds *)
  nano,           (* the clock's nanoseconds at the last unique stem *)
  packets,        (* packets given to Write and not skipped by its guard *)
  batch,          (* history: number of the current batch *)
  offered,        (* history: the packets given to Write, by batch *)
  faults,         (* file operations that failed *)
  damaged,        (* history: batches in which one failed or the process died *)
  rollbackFailed  (* history: a truncateFileLocked of Write failed *)

control == <<enabled, captureActive, filter>>
open == <<pcapFile, jsonFile, jsonStarted>>
status == <<packetCount, messageCount, lastError>>
disk == <<pcaps, jsons>>
clock == <<second, nano>>
history == <<packets, batch, offered>>
faultVars == <<faults, damaged, rollbackFailed>>
vars == <<control, fileStem, open, status, step, disk, clock, history, faultVars>>

-----------------------------------------------------------------------------
(* Files *)

Torn == 0

Put(files, stem, file) ==
  [s \in DOMAIN files \cup {stem} |-> IF s = stem THEN file ELSE files[s]]

Exists(stem) == stem \in DOMAIN pcaps \cup DOMAIN jsons

DefaultFileStem(f) == <<SafeFilterName(f), second, 0>>

\* No two calls read the same nanosecond.
UniqueFileStem(f) == <<SafeFilterName(f), second, nano + 1>>

\* k file operations of this step fail; those after the first are rollbacks.
Fail(k) ==
  /\ faults + k <= MaxFaults
  /\ faults' = faults + k
  /\ damaged' = damaged \cup {batch}
  /\ rollbackFailed' = (rollbackFailed \/ k > 1)

\* Seeded fault: the error path forgets that the JSON file is open.
CloseLockedKeepsJSON(failed) ==
  /\ pcapFile' = NoStem
  /\ UNCHANGED <<jsonFile, jsonStarted, jsons>>
  /\ ~failed
  /\ UNCHANGED faultVars

\* closeLocked: both files are closed whatever fails; failed is whether an
\* error is returned.  The closing bracket is written first, and may be lost.
CloseLocked(failed) ==
  /\ pcapFile' = NoStem
  /\ jsonFile' = NoStem
  /\ jsonStarted' = FALSE
  /\ \E ended \in IF failed THEN BOOLEAN ELSE {TRUE} :
       jsons' = IF jsonFile = NoStem THEN jsons
                ELSE [jsons EXCEPT ![jsonFile].ended = ended]
  /\ IF failed
     THEN (pcapFile # NoStem \/ jsonFile # NoStem) /\ Fail(1)
     ELSE UNCHANGED faultVars

-----------------------------------------------------------------------------

\* New, in a directory with no recording; enabled comes from the environment.
Init ==
  /\ enabled \in BOOLEAN
  /\ captureActive = FALSE
  /\ filter = NoFilter
  /\ fileStem = NoStem
  /\ pcapFile = NoStem
  /\ jsonFile = NoStem
  /\ jsonStarted = FALSE
  /\ packetCount = 0
  /\ messageCount = 0
  /\ lastError = FALSE
  /\ step = "idle"
  /\ pcaps = <<>>
  /\ jsons = <<>>
  /\ second = 0
  /\ nano = 0
  /\ packets = 0
  /\ batch = 0
  /\ offered = [b \in 0 .. MaxBatches |-> {}]
  /\ faults = 0
  /\ damaged = {}
  /\ rollbackFailed = FALSE

SecondPasses ==
  /\ second < MaxSeconds
  /\ second' = second + 1
  /\ UNCHANGED <<control, fileStem, open, status, step, disk, nano, history, faultVars>>

-----------------------------------------------------------------------------
(* Requests *)

Enable ==
  /\ step = "idle"
  /\ enabled' = TRUE
  /\ lastError' = FALSE
  /\ UNCHANGED <<captureActive, filter, fileStem, open, packetCount, messageCount,
                 step, disk, clock, history, faultVars>>

Disable ==
  /\ step = "idle"
  /\ enabled' = FALSE
  /\ \E failed \in BOOLEAN : CloseLocked(failed)
  /\ UNCHANGED <<captureActive, filter, fileStem, status, step, pcaps, clock, history>>

\* BeginCapture("").
EndCapture ==
  /\ step = "idle"
  /\ captureActive' = FALSE
  /\ filter' = NoFilter
  /\ fileStem' = NoStem
  /\ packetCount' = 0
  /\ messageCount' = 0
  /\ \E failed \in BOOLEAN : CloseLocked(failed)
  /\ UNCHANGED <<enabled, lastError, step, pcaps, clock, history>>

\* BeginCapture of a filter other than the current one.  When closing the old
\* files fails the old batch stays.  The current filter changes nothing.
BeginCapture(f) ==
  /\ step = "idle"
  /\ ~(captureActive /\ filter = f)
  /\ batch < MaxBatches
  /\ \/ /\ CloseLocked(TRUE)
        /\ lastError' = TRUE
        /\ UNCHANGED <<captureActive, filter, fileStem, packetCount, messageCount, batch>>
     \/ /\ CloseLocked(FALSE)
        /\ captureActive' = TRUE
        /\ filter' = f
        /\ fileStem' = DefaultFileStem(f)
        /\ packetCount' = 0
        /\ messageCount' = 0
        /\ lastError' = FALSE
        /\ batch' = batch + 1
  /\ UNCHANGED <<enabled, step, pcaps, clock, packets, offered>>

-----------------------------------------------------------------------------
(* Write *)

NextStep(pcap, json) ==
  IF pcap = NoStem THEN "openPcap" ELSE IF json = NoStem THEN "openJSON" ELSE "record"

WriteStart ==
  /\ step = "idle"
  /\ enabled
  /\ captureActive
  /\ packets < MaxPackets
  /\ packets' = packets + 1
  /\ offered' = [offered EXCEPT ![batch] = @ \cup {packets + 1}]
  /\ step' = NextStep(pcapFile, jsonFile)
  /\ UNCHANGED <<control, fileStem, open, status, disk, clock, batch, faultVars>>

\* A file operation fails and Write returns its error.
GiveUp ==
  /\ lastError' = TRUE
  /\ step' = "idle"

\* Seeded fault: openPcapLocked opens with O_TRUNC and checks no name.
StemNotChecked ==
  UNCHANGED <<fileStem, nano>>

\* The name openPcapLocked chooses: a name in use by either file is not taken.
FreeStem == IF Exists(fileStem) THEN UniqueFileStem(filter) ELSE fileStem
NanoRead == IF Exists(fileStem) THEN nano + 1 ELSE nano

ChooseStem ==
  /\ fileStem' = FreeStem
  /\ nano' = NanoRead

\* MkdirAll fails: no name is chosen.
MkdirFails ==
  /\ step = "openPcap"
  /\ Fail(1)
  /\ GiveUp
  /\ UNCHANGED <<control, fileStem, open, packetCount, messageCount, disk, clock, history>>

OpenPcap ==
  /\ step = "openPcap"
  /\ ChooseStem
  /\ \/ /\ pcaps' = Put(pcaps, fileStem', [batch |-> batch, records |-> <<>>])
        /\ pcapFile' = fileStem'
        /\ packetCount' = 0
        /\ lastError' = FALSE
        /\ step' = NextStep(fileStem', jsonFile)
        /\ UNCHANGED faultVars
     \/ /\ Fail(1)
        /\ \/ pcaps' = pcaps
           \/ pcaps' = Put(pcaps, fileStem', [batch |-> batch, records |-> <<Torn>>])
        /\ GiveUp
        /\ UNCHANGED <<pcapFile, packetCount>>
  /\ UNCHANGED <<control, jsonFile, jsonStarted, messageCount, jsons, second, history>>

\* The name is the pcap file's and is not changed: a JSON file of that name is
\* an error, and no file operation has failed.
OpenJSON ==
  /\ step = "openJSON"
  /\ IF fileStem \in DOMAIN jsons
     THEN /\ GiveUp
          /\ UNCHANGED <<jsons, jsonFile, jsonStarted, messageCount, faultVars>>
     ELSE \/ /\ jsons' = Put(jsons, fileStem,
                             [batch |-> batch, items |-> <<>>, ended |-> FALSE])
             /\ jsonFile' = fileStem
             /\ jsonStarted' = FALSE
             /\ messageCount' = 0
             /\ step' = "record"
             /\ UNCHANGED <<faultVars, lastError>>
          \/ /\ Fail(1)
             /\ \/ jsons' = jsons
                \/ jsons' = Put(jsons, fileStem,
                                [batch |-> batch, items |-> <<Torn>>, ended |-> FALSE])
             /\ GiveUp
             /\ UNCHANGED <<jsonFile, jsonStarted, messageCount>>
  /\ UNCHANGED <<control, fileStem, pcapFile, packetCount, pcaps, clock, history>>

AppendRecords(records) == [pcaps EXCEPT ![pcapFile].records = @ \o records]
AppendItems(items) == [jsons EXCEPT ![jsonFile].items = @ \o items]

RecordWritten ==
  /\ pcaps' = AppendRecords(<<packets>>)
  /\ step' = "message"
  /\ UNCHANGED <<pcapFile, lastError, faultVars>>

\* One of the two Seek calls fails.
SeekFails ==
  /\ Fail(1)
  /\ GiveUp
  /\ UNCHANGED <<pcapFile, pcaps>>

\* Seeded fault: the pcap file stays open after a failed write.
RecordTornKept ==
  /\ Fail(1)
  /\ GiveUp
  /\ pcaps' = AppendRecords(<<Torn>>)
  /\ UNCHANGED pcapFile

\* Seeded fault: the error of writePacketRecord is logged and the message written.
RecordTornContinues ==
  /\ Fail(1)
  /\ lastError' = TRUE
  /\ step' = "message"
  /\ UNCHANGED <<pcaps, pcapFile>>

\* writePacketRecord fails: the pcap file is closed, the JSON file stays open.
RecordTorn ==
  /\ Fail(1)
  /\ GiveUp
  /\ pcaps' \in {pcaps, AppendRecords(<<Torn>>)}
  /\ pcapFile' = NoStem

WriteRecord ==
  /\ step = "record"
  /\ RecordWritten \/ SeekFails \/ RecordTorn
  /\ UNCHANGED <<control, fileStem, jsonFile, jsonStarted, packetCount, messageCount,
                 jsons, clock, history>>

MessageWritten ==
  /\ jsons' = AppendItems(<<packets>>)
  /\ jsonStarted' = TRUE
  /\ messageCount' = messageCount + 1
  /\ packetCount' = packetCount + 1
  /\ step' = "idle"
  /\ UNCHANGED <<pcaps, lastError, faultVars>>

DropLast(s) == SubSeq(s, 1, Len(s) - 1)

\* truncateFileLocked on the pcap file, k is 1 when it fails: the record stays,
\* or is cut and the next one starts after a hole.
RollBackPcap(k) ==
  LET cut == [pcaps EXCEPT ![pcapFile].records = DropLast(@)]
      hole == [pcaps EXCEPT ![pcapFile].records = Append(DropLast(@), Torn)]
  IN  pcaps' \in IF k = 0 THEN {cut} ELSE {pcaps, hole}

\* The same on the JSON file, after a write of which any part may have been made.
RollBackJSON(k) ==
  jsons' \in IF k = 0 THEN {jsons} ELSE {jsons, AppendItems(<<Torn>>)}

\* writeFrontendMessageDataLocked fails: both files are rolled back.
MessageFails ==
  /\ \E p, j \in {0, 1} : RollBackPcap(p) /\ RollBackJSON(j) /\ Fail(1 + p + j)
  /\ GiveUp
  /\ UNCHANGED <<jsonStarted, messageCount, packetCount>>

WriteMessage ==
  /\ step = "message"
  /\ MessageWritten \/ MessageFails
  /\ UNCHANGED <<control, fileStem, pcapFile, jsonFile, clock, history>>

-----------------------------------------------------------------------------
(* The process ends and a new one starts in the same directory *)

NewRecorder ==
  /\ enabled' \in BOOLEAN
  /\ captureActive' = FALSE
  /\ filter' = NoFilter
  /\ fileStem' = NoStem
  /\ packetCount' = 0
  /\ messageCount' = 0
  /\ lastError' = FALSE
  /\ step' = "idle"
  /\ UNCHANGED history

\* SIGINT or SIGTERM: run returns and its deferred calls close the recorder.
Stop ==
  /\ step = "idle"
  /\ \E failed \in BOOLEAN : CloseLocked(failed)
  /\ NewRecorder
  /\ UNCHANGED <<pcaps, clock>>

\* The process dies, and no file operation has failed.
Interrupted ==
  /\ damaged' = damaged \cup {batch}
  /\ UNCHANGED <<faults, rollbackFailed>>

DiesBetween ==
  /\ Interrupted
  /\ UNCHANGED <<disk, clock>>

\* Between the creation of the file and the end of its global header.
DiesInPcapHeader ==
  /\ step = "openPcap"
  /\ pcaps' = Put(pcaps, FreeStem, [batch |-> batch, records |-> <<Torn>>])
  /\ nano' = NanoRead
  /\ Interrupted
  /\ UNCHANGED <<jsons, second>>

\* Between the creation of the file and its opening bracket.
DiesInBracket ==
  /\ step = "openJSON"
  /\ fileStem \notin DOMAIN jsons
  /\ jsons' = Put(jsons, fileStem, [batch |-> batch, items |-> <<Torn>>, ended |-> FALSE])
  /\ Interrupted
  /\ UNCHANGED <<pcaps, clock>>

\* Between the header of a record and the end of its data.
DiesInRecord ==
  /\ step = "record"
  /\ pcaps' = AppendRecords(<<Torn>>)
  /\ Interrupted
  /\ UNCHANGED <<jsons, clock>>

\* Between the separator and the end of the message: the packet is recorded.
DiesInMessage ==
  /\ step = "message"
  /\ jsons' = AppendItems(<<Torn>>)
  /\ Interrupted
  /\ UNCHANGED <<pcaps, clock>>

\* Between the two rollbacks, the message having failed and k of the first.
DiesRollingBack ==
  /\ step = "message"
  /\ \E k \in {0, 1} : RollBackPcap(k) /\ Fail(1 + k)
  /\ jsons' \in {jsons, AppendItems(<<Torn>>)}
  /\ UNCHANGED clock

\* The process dies, in the middle of a Write or not.
Kill ==
  /\ pcapFile' = NoStem
  /\ jsonFile' = NoStem
  /\ jsonStarted' = FALSE
  /\ NewRecorder
  /\ \/ DiesBetween
     \/ DiesInPcapHeader
     \/ DiesInBracket
     \/ DiesInRecord
     \/ DiesInMessage
     \/ DiesRollingBack

-----------------------------------------------------------------------------

Next ==
  \/ SecondPasses
  \/ Enable \/ Disable
  \/ EndCapture
  \/ \E f \in Filters : BeginCapture(f)
  \/ WriteStart \/ MkdirFails \/ OpenPcap \/ OpenJSON \/ WriteRecord \/ WriteMessage
  \/ Stop
  \/ Kill

Spec == Init /\ [][Next]_vars

-----------------------------------------------------------------------------
(* Properties *)

Stems == {SafeFilterName(f) : f \in Filters} \X Nat \X Nat
Batches == 0 .. MaxBatches

\* Type invariant: every variable holds what the code can put there.
TypeOK ==
  /\ enabled \in BOOLEAN
  /\ captureActive \in BOOLEAN
  /\ filter \in Filters \cup {NoFilter}
  /\ fileStem \in Stems \cup {NoStem}
  /\ pcapFile \in DOMAIN pcaps \cup {NoStem}
  /\ jsonFile \in DOMAIN jsons \cup {NoStem}
  /\ jsonStarted \in BOOLEAN
  /\ packetCount \in Nat
  /\ messageCount \in Nat
  /\ lastError \in BOOLEAN
  /\ step \in {"idle", "openPcap", "openJSON", "record", "message"}
  /\ DOMAIN pcaps \subseteq Stems
  /\ \A s \in DOMAIN pcaps : pcaps[s] \in [batch : Batches, records : Seq(Nat)]
  /\ DOMAIN jsons \subseteq Stems
  /\ \A s \in DOMAIN jsons :
       jsons[s] \in [batch : Batches, items : Seq(Nat), ended : BOOLEAN]
  /\ second \in Nat
  /\ nano \in Nat
  /\ packets \in Nat
  /\ batch \in Batches
  /\ offered \in [Batches -> SUBSET (1 .. packets)]
  /\ faults \in Nat
  /\ damaged \subseteq Batches
  /\ rollbackFailed \in BOOLEAN

Whole(entries) == {entries[i] : i \in DOMAIN entries} \ {Torn}
PacketsOf(b) == UNION {Whole(pcaps[s].records) : s \in {t \in DOMAIN pcaps : pcaps[t].batch = b}}
MessagesOf(b) == UNION {Whole(jsons[s].items) : s \in {t \in DOMAIN jsons : jsons[t].batch = b}}

\* A recording belongs to one batch (README.md:34, 68): no file holds a packet
\* that was recorded in another batch than the one the file was opened in,
\* whatever fails and whenever the process is restarted.
OneBatchPerFile ==
  \A b \in Batches : PacketsOf(b) \cup MessagesOf(b) \subseteq offered[b]

\* The write order and the rollback (recorder.go:188-208) never leave a message
\* whose packet is not in a pcap file of the batch, whatever fails and even if
\* the process dies between the two writes.
MessageHasPacket == \A b \in Batches : MessagesOf(b) \subseteq PacketsOf(b)

\* A batch in which no file operation failed and no process died is complete:
\* each packet given to Write is in its pcap and its JSON files, across
\* disabling and enabling, repeated names and failures in other batches, and
\* every JSON file that is not open is a complete array.
UndamagedIsComplete ==
  step = "idle" =>
    \A b \in Batches \ damaged :
      /\ PacketsOf(b) = offered[b]
      /\ MessagesOf(b) = offered[b]
      /\ \A s \in DOMAIN jsons : jsons[s].batch = b => (jsons[s].ended <=> jsonFile # s)

Increasing(entries) ==
  \A i, j \in DOMAIN entries : i < j /\ entries[i] # Torn /\ entries[j] # Torn => entries[i] < entries[j]

\* What a reader can parse is everything: records and items are in order without
\* repetition, and torn bytes are the last of a file that is never appended to
\* again and, in a JSON file, that has no closing bracket: an array that ends is
\* whole.  It holds whatever operations fail and wherever the process dies, as
\* long as no rollback fails.
EntriesAreReadable ==
  ~rollbackFailed =>
    /\ \A s \in DOMAIN pcaps :
         LET r == pcaps[s].records
         IN  Increasing(r) /\ \A i \in DOMAIN r : r[i] = Torn => i = Len(r) /\ s # pcapFile
    /\ \A s \in DOMAIN jsons :
         LET t == jsons[s].items
         IN  /\ Increasing(t)
             /\ \A i \in DOMAIN t : t[i] = Torn => i = Len(t) /\ s # jsonFile /\ ~jsons[s].ended

\* GET /pcap tells the truth: as long as no rollback fails the two counters are
\* the numbers of whole entries in the two open files.
CountsMatchFiles ==
  step = "idle" /\ ~rollbackFailed =>
    /\ pcapFile # NoStem => packetCount = Len(pcaps[pcapFile].records)
    /\ jsonFile # NoStem => messageCount = Len(jsons[jsonFile].items)

\* A separator goes before every message but the first of its file
\* (recorder.go:300), whatever was rolled back before.
SeparatorsAreRight ==
  jsonFile # NoStem => (jsonStarted <=> Whole(jsons[jsonFile].items) # {})

\* What was recorded can be read back, is in order, and is what GET /pcap counts.
FilesAreReadable == EntriesAreReadable /\ CountsMatchFiles /\ SeparatorsAreRight

\* A file that is not open is never written again: neither a restart in the
\* same directory, nor a filter repeated within a second, nor two filters with
\* the same sanitised name overwrite an earlier recording.
ClosedFilesAreFrozen ==
  [][/\ \A s \in DOMAIN pcaps \ {pcapFile} : s \in DOMAIN pcaps' /\ pcaps'[s] = pcaps[s]
     /\ \A s \in DOMAIN jsons \ {jsonFile} : s \in DOMAIN jsons' /\ jsons'[s] = jsons[s]]_vars

\* The inductive invariant behind OneBatchPerFile, MessageHasPacket and
\* ClosedFilesAreFrozen.  A name taken from the clock is never taken again:
NamesAreOld ==
  \A s \in DOMAIN pcaps \cup DOMAIN jsons \cup {fileStem} : s # NoStem => s[3] <= nano

\* a Write runs in an active batch, and has the files its step needs:
WriteIsActive ==
  /\ captureActive => filter \in Filters /\ fileStem \in Stems
  /\ step # "idle" => captureActive /\ packets \in offered[batch]
  /\ step \in {"openJSON", "record", "message"} => pcapFile # NoStem
  /\ step \in {"record", "message"} => jsonFile # NoStem

\* the open files are of the current batch:
OpenIsCurrent ==
  /\ pcapFile # NoStem => pcaps[pcapFile].batch = batch
  /\ jsonFile # NoStem => jsons[jsonFile].batch = batch

\* and the packet being written is the last record of its file once recorded,
\* and no message yet, so that rolling it back takes it from no message.
NotYetSent ==
  /\ step = "message" =>
       LET records == pcaps[pcapFile].records
       IN  records # <<>> /\ records[Len(records)] = packets
  /\ step # "idle" => \A b \in Batches : packets \notin MessagesOf(b)

IInv ==
  /\ TypeOK
  /\ NamesAreOld
  /\ WriteIsActive
  /\ OpenIsCurrent
  /\ OneBatchPerFile
  /\ NotYetSent
  /\ MessageHasPacket

\* The pcap file and the JSON file being written have the same name
\* (recorder_test.go:123), so that the n-th packet of one is the n-th message
\* of the other (README.md:70).
SameStem ==
  step = "idle" /\ pcapFile # NoStem /\ jsonFile # NoStem => pcapFile = jsonFile
=============================================================================
