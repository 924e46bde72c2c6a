------------------------- MODULE PcapRecorderProofs -------------------------
(***************************************************************************)
(* Theorems of PcapRecorder, for any filters and sanitised names and any   *)
(* number of packets, batches, failures and restarts.                      *)
(*                                                                         *)
(* The invariants speak of PacketsOf and MessagesOf, so the proof first    *)
(* says what each change of a file does to these two, and then looks at    *)
(* the actions.  With the names that are never taken twice (IInv) come     *)
(* the batches that are complete, and the files that can be read.          *)
(***************************************************************************)
EXTENDS PcapRecorder, SequenceTheorems, TLAPS

USE RecorderAssumption DEF RecorderAssumption

-----------------------------------------------------------------------------
(* Entries *)

\* A file that is new, or starts with a torn header, holds no whole entry.
LEMMA WholeOfNone ==
  ASSUME NEW entries \in {<<>>, <<Torn>>}
  PROVE  entries \in Seq(Nat) /\ Whole(entries) = {}
<1>1. <<>> \in Seq(Nat) /\ DOMAIN <<>> = {}
  OBVIOUS
<1>2. <<Torn>> \in Seq(Nat) /\ DOMAIN <<Torn>> = {1} /\ <<Torn>>[1] = Torn
  BY DEF Torn
<1>3. CASE entries = <<>>
  BY <1>1, <1>3 DEF Whole
<1>4. CASE entries = <<Torn>>
  BY <1>2, <1>4 DEF Whole
<1> QED BY <1>3, <1>4

\* Appending adds one whole entry, or none if it is torn.
LEMMA WholeAppended ==
  ASSUME NEW entries \in Seq(Nat), NEW p \in Nat
  PROVE  /\ entries \o <<p>> \in Seq(Nat)
         /\ entries \o <<p>> # <<>>
         /\ (entries \o <<p>>)[Len(entries \o <<p>>)] = p
         /\ Whole(entries \o <<p>>) = Whole(entries) \cup ({p} \ {Torn})
<1> DEFINE longer == entries \o <<p>>
<1>1. /\ longer \in Seq(Nat)
      /\ Len(longer) = Len(entries) + 1
      /\ Len(entries) \in Nat
      /\ longer[Len(entries) + 1] = p
      /\ \A i \in 1 .. Len(entries) : longer[i] = entries[i]
  BY ConcatProperties
<1>2. DOMAIN entries = 1 .. Len(entries) /\ DOMAIN longer = 1 .. Len(entries) + 1
  BY <1>1
<1> HIDE DEF longer
<1>3. Whole(longer) = Whole(entries) \cup ({p} \ {Torn})
  <2>1. ASSUME NEW i \in DOMAIN longer
        PROVE  longer[i] \in {entries[j] : j \in DOMAIN entries} \cup {p}
    BY <1>1, <1>2
  <2>2. ASSUME NEW j \in DOMAIN entries
        PROVE  entries[j] \in {longer[i] : i \in DOMAIN longer}
    <3>1. j \in DOMAIN longer /\ longer[j] = entries[j]
      BY <1>1, <1>2
    <3> QED BY <3>1
  <2>3. p \in {longer[i] : i \in DOMAIN longer}
    <3>1. Len(entries) + 1 \in DOMAIN longer
      BY <1>1, <1>2
    <3> QED BY <3>1, <1>1
  <2>4. {longer[i] : i \in DOMAIN longer} = {entries[j] : j \in DOMAIN entries} \cup {p}
    BY <2>1, <2>2, <2>3
  <2> QED BY <2>4 DEF Whole
<1>4. longer # <<>>
  BY <1>1
<1> QED BY <1>1, <1>3, <1>4 DEF longer

\* Dropping the last entry loses that one at most.
LEMMA WholeDropped ==
  ASSUME NEW entries \in Seq(Nat), entries # <<>>
  PROVE  /\ DropLast(entries) \in Seq(Nat)
         /\ Whole(DropLast(entries)) \subseteq Whole(entries)
         /\ Whole(entries) \ {entries[Len(entries)]} \subseteq Whole(DropLast(entries))
<1> DEFINE n == Len(entries)
           shorter == DropLast(entries)
<1>1. n \in Nat /\ n >= 1 /\ DOMAIN entries = 1 .. n
  BY EmptySeq
<1>2. /\ shorter \in Seq(Nat)
      /\ Len(shorter) = n - 1
      /\ \A i \in 1 .. n - 1 : shorter[i] = entries[i]
  BY <1>1, SubSeqProperties DEF DropLast
<1>3. DOMAIN shorter = 1 .. n - 1
  BY <1>1, <1>2
<1> HIDE DEF n, shorter
<1>4. ASSUME NEW i \in DOMAIN shorter
      PROVE  shorter[i] \in {entries[j] : j \in DOMAIN entries}
  <2>1. i \in DOMAIN entries /\ shorter[i] = entries[i]
    BY <1>1, <1>2, <1>3
  <2> QED BY <2>1
<1>5. ASSUME NEW j \in DOMAIN entries, entries[j] # entries[n]
      PROVE  entries[j] \in {shorter[i] : i \in DOMAIN shorter}
  <2>1. j \in DOMAIN shorter /\ shorter[j] = entries[j]
    BY <1>1, <1>2, <1>3, <1>5
  <2> QED BY <2>1
<1>6. Whole(shorter) \subseteq Whole(entries)
  BY <1>4 DEF Whole
<1>7. Whole(entries) \ {entries[n]} \subseteq Whole(shorter)
  BY <1>5 DEF Whole
<1> QED BY <1>2, <1>6, <1>7 DEF n, shorter

\* The same with a hole in its place.
LEMMA WholeHoled ==
  ASSUME NEW entries \in Seq(Nat), entries # <<>>
  PROVE  /\ Append(DropLast(entries), Torn) \in Seq(Nat)
         /\ Whole(Append(DropLast(entries), Torn)) = Whole(DropLast(entries))
<1> DEFINE shorter == DropLast(entries)
<1>1. shorter \in Seq(Nat)
  BY WholeDropped
<1>2. Torn \in Nat /\ {Torn} \ {Torn} = {}
  BY DEF Torn
<1> HIDE DEF shorter
<1>3. Append(shorter, Torn) = shorter \o <<Torn>>
  BY <1>1, <1>2, AppendIsConcat
<1>4. /\ shorter \o <<Torn>> \in Seq(Nat)
      /\ Whole(shorter \o <<Torn>>) = Whole(shorter) \cup ({Torn} \ {Torn})
  BY <1>1, <1>2, WholeAppended
<1> QED BY <1>2, <1>3, <1>4 DEF shorter

\* The mark for no file is no name.
LEMMA NoStemIsNone == NoStem \notin Stems
BY DEF NoStem, Stems

-----------------------------------------------------------------------------
(* Packets and messages of a batch *)

\* A packet is in a batch when some capture file of the batch holds it whole.
LEMMA InPacketsOf ==
  /\ \A b, p : p \in PacketsOf(b) <=>
       \E s \in DOMAIN pcaps : pcaps[s].batch = b /\ p \in Whole(pcaps[s].records)
  /\ \A b, p : p \in PacketsOf(b)' <=>
       \E s \in DOMAIN pcaps' : pcaps'[s].batch = b /\ p \in Whole(pcaps'[s].records)
BY DEF PacketsOf, Whole, Torn

\* A message is in a batch when some JSON file of the batch holds it whole.
LEMMA InMessagesOf ==
  /\ \A b, p : p \in MessagesOf(b) <=>
       \E s \in DOMAIN jsons : jsons[s].batch = b /\ p \in Whole(jsons[s].items)
  /\ \A b, p : p \in MessagesOf(b)' <=>
       \E s \in DOMAIN jsons' : jsons'[s].batch = b /\ p \in Whole(jsons'[s].items)
BY DEF MessagesOf, Whole, Torn

PcapsOK ==
  /\ DOMAIN pcaps \subseteq Stems
  /\ \A s \in DOMAIN pcaps : pcaps[s] \in [batch : Batches, records : Seq(Nat)]

JsonsOK ==
  /\ DOMAIN jsons \subseteq Stems
  /\ \A s \in DOMAIN jsons : jsons[s] \in [batch : Batches, items : Seq(Nat), ended : BOOLEAN]

\* A new pcap file holds no packet.
LEMMA NewPcap ==
  ASSUME PcapsOK, NEW s \in Stems, s \notin DOMAIN pcaps, NEW n \in Batches,
         NEW records \in {<<>>, <<Torn>>},
         pcaps' = Put(pcaps, s, [batch |-> n, records |-> records])
  PROVE  /\ PcapsOK'
         /\ DOMAIN pcaps' = DOMAIN pcaps \cup {s}
         /\ \A t \in DOMAIN pcaps : pcaps'[t] = pcaps[t]
         /\ pcaps'[s].batch = n
         /\ \A b : PacketsOf(b)' = PacketsOf(b)
<1>1. /\ DOMAIN pcaps' = DOMAIN pcaps \cup {s}
      /\ \A t \in DOMAIN pcaps : pcaps'[t] = pcaps[t]
      /\ pcaps'[s] = [batch |-> n, records |-> records]
  BY DEF Put
<1>2. records \in Seq(Nat) /\ Whole(records) = {}
  BY WholeOfNone
<1>3. PcapsOK'
  BY <1>1, <1>2 DEF PcapsOK, Batches
<1>4. ASSUME NEW b PROVE PacketsOf(b)' = PacketsOf(b)
  <2>1. ASSUME NEW p PROVE p \in PacketsOf(b)' <=> p \in PacketsOf(b)
    BY <1>1, <1>2, InPacketsOf
  <2> QED BY <2>1
<1> QED BY <1>1, <1>3, <1>4

\* The records of one file change.
LEMMA ChangedPcap ==
  ASSUME PcapsOK, NEW s \in DOMAIN pcaps, NEW records \in Seq(Nat),
         pcaps' = [pcaps EXCEPT ![s].records = records]
  PROVE  /\ PcapsOK'
         /\ DOMAIN pcaps' = DOMAIN pcaps
         /\ \A t \in DOMAIN pcaps : t # s => pcaps'[t] = pcaps[t]
         /\ \A t \in DOMAIN pcaps : pcaps'[t].batch = pcaps[t].batch
         /\ pcaps'[s].records = records
<1>1. pcaps[s] \in [batch : Batches, records : Seq(Nat)]
  BY DEF PcapsOK
<1>2. /\ DOMAIN pcaps' = DOMAIN pcaps
      /\ \A t \in DOMAIN pcaps : t # s => pcaps'[t] = pcaps[t]
      /\ pcaps'[s] = [pcaps[s] EXCEPT !.records = records]
  OBVIOUS
<1>3. /\ pcaps'[s] \in [batch : Batches, records : Seq(Nat)]
      /\ pcaps'[s].batch = pcaps[s].batch
      /\ pcaps'[s].records = records
  BY <1>1, <1>2
<1>4. PcapsOK'
  BY <1>2, <1>3 DEF PcapsOK, Batches
<1> QED BY <1>2, <1>3, <1>4

\* What that does to the packets of the batches.
LEMMA GrownPcap ==
  ASSUME PcapsOK, NEW s \in DOMAIN pcaps, NEW p \in Nat,
         pcaps' = [pcaps EXCEPT ![s].records = @ \o <<p>>]
  PROVE  /\ PcapsOK'
         /\ DOMAIN pcaps' = DOMAIN pcaps
         /\ \A t \in DOMAIN pcaps : t # s => pcaps'[t] = pcaps[t]
         /\ \A t \in DOMAIN pcaps : pcaps'[t].batch = pcaps[t].batch
         /\ pcaps'[s].records # <<>>
         /\ pcaps'[s].records[Len(pcaps'[s].records)] = p
         /\ \A b, q : q \in PacketsOf(b)' <=>
              q \in PacketsOf(b) \/ (q = p /\ p # Torn /\ b = pcaps[s].batch)
<1> DEFINE records == pcaps[s].records \o <<p>>
<1>1. pcaps[s].records \in Seq(Nat)
  BY DEF PcapsOK
<1>2. /\ records \in Seq(Nat)
      /\ records # <<>>
      /\ records[Len(records)] = p
      /\ Whole(records) = Whole(pcaps[s].records) \cup ({p} \ {Torn})
  BY <1>1, WholeAppended
<1>3. pcaps' = [pcaps EXCEPT ![s].records = records]
  OBVIOUS
<1> HIDE DEF records
<1>4. /\ PcapsOK'
      /\ DOMAIN pcaps' = DOMAIN pcaps
      /\ \A t \in DOMAIN pcaps : t # s => pcaps'[t] = pcaps[t]
      /\ \A t \in DOMAIN pcaps : pcaps'[t].batch = pcaps[t].batch
      /\ pcaps'[s].records = records
  BY <1>2, <1>3, ChangedPcap
<1>5. \A t \in DOMAIN pcaps : \A q :
        q \in Whole(pcaps'[t].records) <=>
          q \in Whole(pcaps[t].records) \/ (t = s /\ q = p /\ p # Torn)
  BY <1>2, <1>4
<1>6. ASSUME NEW b, NEW q
      PROVE  q \in PacketsOf(b)' <=>
               q \in PacketsOf(b) \/ (q = p /\ p # Torn /\ b = pcaps[s].batch)
  <2>1. q \in PacketsOf(b)' <=>
          \E t \in DOMAIN pcaps' : pcaps'[t].batch = b /\ q \in Whole(pcaps'[t].records)
    BY InPacketsOf
  <2>2. q \in PacketsOf(b) <=>
          \E t \in DOMAIN pcaps : pcaps[t].batch = b /\ q \in Whole(pcaps[t].records)
    BY InPacketsOf
  <2>3. \A t \in DOMAIN pcaps :
          pcaps'[t].batch = b /\ q \in Whole(pcaps'[t].records) <=>
            \/ pcaps[t].batch = b /\ q \in Whole(pcaps[t].records)
            \/ pcaps[t].batch = b /\ t = s /\ q = p /\ p # Torn
    BY <1>4, <1>5
  <2>4. DOMAIN pcaps' = DOMAIN pcaps
    BY <1>4
  <2> QED BY <2>1, <2>2, <2>3, <2>4
<1> QED BY <1>2, <1>4, <1>6

\* The last record is cut, and perhaps leaves a hole.
LEMMA CutPcap ==
  ASSUME PcapsOK, NEW s \in DOMAIN pcaps, pcaps[s].records # <<>>,
         NEW records \in {DropLast(pcaps[s].records), Append(DropLast(pcaps[s].records), Torn)},
         pcaps' = [pcaps EXCEPT ![s].records = records]
  PROVE  /\ PcapsOK'
         /\ DOMAIN pcaps' = DOMAIN pcaps
         /\ \A t \in DOMAIN pcaps : t # s => pcaps'[t] = pcaps[t]
         /\ \A t \in DOMAIN pcaps : pcaps'[t].batch = pcaps[t].batch
         /\ \A b, q :
              /\ q \in PacketsOf(b)' => q \in PacketsOf(b)
              /\ q \in PacketsOf(b) /\ q # pcaps[s].records[Len(pcaps[s].records)] =>
                   q \in PacketsOf(b)'
<1> DEFINE old == pcaps[s].records
           last == old[Len(old)]
<1>1. old \in Seq(Nat)
  BY DEF PcapsOK
<1>2. /\ DropLast(old) \in Seq(Nat)
      /\ Whole(DropLast(old)) \subseteq Whole(old)
      /\ Whole(old) \ {last} \subseteq Whole(DropLast(old))
  BY <1>1, WholeDropped
<1>3. /\ records \in Seq(Nat)
      /\ Whole(records) \subseteq Whole(old)
      /\ Whole(old) \ {last} \subseteq Whole(records)
  <2>1. CASE records = DropLast(old)
    BY <1>2, <2>1
  <2>2. CASE records = Append(DropLast(old), Torn)
    <3>1. Append(DropLast(old), Torn) \in Seq(Nat)
      BY <1>1, WholeHoled
    <3>2. Whole(Append(DropLast(old), Torn)) = Whole(DropLast(old))
      BY <1>1, WholeHoled
    <3> QED BY <1>2, <2>2, <3>1, <3>2
  <2> QED BY <2>1, <2>2
<1> HIDE DEF old, last
<1>4. /\ PcapsOK'
      /\ DOMAIN pcaps' = DOMAIN pcaps
      /\ \A t \in DOMAIN pcaps : t # s => pcaps'[t] = pcaps[t]
      /\ \A t \in DOMAIN pcaps : pcaps'[t].batch = pcaps[t].batch
      /\ pcaps'[s].records = records
  BY <1>3, ChangedPcap
<1>5. \A t \in DOMAIN pcaps : \A q :
        /\ q \in Whole(pcaps'[t].records) => q \in Whole(pcaps[t].records)
        /\ q \in Whole(pcaps[t].records) /\ q # last => q \in Whole(pcaps'[t].records)
  BY <1>3, <1>4 DEF old
<1>6. ASSUME NEW b, NEW q
      PROVE  /\ q \in PacketsOf(b)' => q \in PacketsOf(b)
             /\ q \in PacketsOf(b) /\ q # last => q \in PacketsOf(b)'
  <2>1. q \in PacketsOf(b)' <=>
          \E t \in DOMAIN pcaps' : pcaps'[t].batch = b /\ q \in Whole(pcaps'[t].records)
    BY InPacketsOf
  <2>2. q \in PacketsOf(b) <=>
          \E t \in DOMAIN pcaps : pcaps[t].batch = b /\ q \in Whole(pcaps[t].records)
    BY InPacketsOf
  <2> QED BY <2>1, <2>2, <1>4, <1>5
<1> QED BY <1>4, <1>6 DEF old, last

\* A new JSON file holds no message.
LEMMA NewJSON ==
  ASSUME JsonsOK, NEW s \in Stems, s \notin DOMAIN jsons,
         NEW file \in [batch : Batches, items : Seq(Nat), ended : BOOLEAN],
         Whole(file.items) = {},
         jsons' = Put(jsons, s, file)
  PROVE  /\ JsonsOK'
         /\ DOMAIN jsons' = DOMAIN jsons \cup {s}
         /\ \A t \in DOMAIN jsons : jsons'[t] = jsons[t]
         /\ jsons'[s] = file
         /\ \A b : MessagesOf(b)' = MessagesOf(b)
<1>1. /\ DOMAIN jsons' = DOMAIN jsons \cup {s}
      /\ \A t \in DOMAIN jsons : jsons'[t] = jsons[t]
      /\ jsons'[s] = file
  BY DEF Put
<1>2. JsonsOK'
  BY <1>1 DEF JsonsOK, Batches
<1>3. ASSUME NEW b PROVE MessagesOf(b)' = MessagesOf(b)
  <2>1. ASSUME NEW p PROVE p \in MessagesOf(b)' <=> p \in MessagesOf(b)
    BY <1>1, InMessagesOf
  <2> QED BY <2>1
<1> QED BY <1>1, <1>2, <1>3

\* An item, or part of one, is written.
LEMMA GrownJSON ==
  ASSUME JsonsOK, NEW s \in DOMAIN jsons, NEW p \in Nat,
         jsons' = [jsons EXCEPT ![s].items = @ \o <<p>>]
  PROVE  /\ JsonsOK'
         /\ DOMAIN jsons' = DOMAIN jsons
         /\ \A t \in DOMAIN jsons : t # s => jsons'[t] = jsons[t]
         /\ \A t \in DOMAIN jsons : jsons'[t].batch = jsons[t].batch
         /\ \A b, q : q \in MessagesOf(b)' <=>
              q \in MessagesOf(b) \/ (q = p /\ p # Torn /\ b = jsons[s].batch)
<1> DEFINE items == jsons[s].items \o <<p>>
<1>1. jsons[s] \in [batch : Batches, items : Seq(Nat), ended : BOOLEAN]
  BY DEF JsonsOK
<1>2. /\ items \in Seq(Nat)
      /\ Whole(items) = Whole(jsons[s].items) \cup ({p} \ {Torn})
  BY <1>1, WholeAppended
<1>3. /\ DOMAIN jsons' = DOMAIN jsons
      /\ \A t \in DOMAIN jsons : t # s => jsons'[t] = jsons[t]
      /\ jsons'[s] = [jsons[s] EXCEPT !.items = items]
  OBVIOUS
<1> HIDE DEF items
<1>4. /\ jsons'[s] \in [batch : Batches, items : Seq(Nat), ended : BOOLEAN]
      /\ jsons'[s].batch = jsons[s].batch
      /\ jsons'[s].items = items
  BY <1>1, <1>2, <1>3
<1>5. JsonsOK'
  BY <1>3, <1>4 DEF JsonsOK, Batches
<1>6. \A t \in DOMAIN jsons : \A q :
        q \in Whole(jsons'[t].items) <=>
          q \in Whole(jsons[t].items) \/ (t = s /\ q = p /\ p # Torn)
  BY <1>2, <1>3, <1>4
<1>7. ASSUME NEW b, NEW q
      PROVE  q \in MessagesOf(b)' <=>
               q \in MessagesOf(b) \/ (q = p /\ p # Torn /\ b = jsons[s].batch)
  <2>1. q \in MessagesOf(b)' <=>
          \E t \in DOMAIN jsons' : jsons'[t].batch = b /\ q \in Whole(jsons'[t].items)
    BY InMessagesOf
  <2>2. q \in MessagesOf(b) <=>
          \E t \in DOMAIN jsons : jsons[t].batch = b /\ q \in Whole(jsons[t].items)
    BY InMessagesOf
  <2>3. \A t \in DOMAIN jsons : jsons'[t].batch = jsons[t].batch
    BY <1>3, <1>4
  <2> QED BY <2>1, <2>2, <2>3, <1>3, <1>6
<1> QED BY <1>3, <1>4, <1>5, <1>7

\* Closing the files writes nothing but a closing bracket.
LEMMA Closed ==
  ASSUME TypeOK, NEW failed \in BOOLEAN, CloseLocked(failed)
  PROVE  /\ pcapFile' = NoStem /\ jsonFile' = NoStem /\ jsonStarted' = FALSE
         /\ JsonsOK'
         /\ DOMAIN jsons' = DOMAIN jsons
         /\ \A t \in DOMAIN jsons : t # jsonFile => jsons'[t] = jsons[t]
         /\ \A b : MessagesOf(b)' = MessagesOf(b)
         /\ faults' \in Nat /\ damaged' \subseteq Batches /\ rollbackFailed' \in BOOLEAN
<1>1. pcapFile' = NoStem /\ jsonFile' = NoStem /\ jsonStarted' = FALSE
  BY DEF CloseLocked
<1>2. faults' \in Nat /\ damaged' \subseteq Batches /\ rollbackFailed' \in BOOLEAN
  BY DEF CloseLocked, Fail, faultVars, TypeOK
<1>3. JsonsOK
  BY DEF TypeOK, JsonsOK
<1>4. PICK ended \in BOOLEAN :
        jsons' = IF jsonFile = NoStem THEN jsons ELSE [jsons EXCEPT ![jsonFile].ended = ended]
  BY DEF CloseLocked
<1>5. CASE jsonFile = NoStem
  <2>1. jsons' = jsons
    BY <1>4, <1>5
  <2> QED BY <1>1, <1>2, <1>3, <2>1 DEF JsonsOK, MessagesOf
<1>6. CASE jsonFile # NoStem
  <2>1. jsonFile \in DOMAIN jsons
    BY <1>6 DEF TypeOK
  <2>2. jsons[jsonFile] \in [batch : Batches, items : Seq(Nat), ended : BOOLEAN]
    BY <1>3, <2>1 DEF JsonsOK
  <2>3. /\ DOMAIN jsons' = DOMAIN jsons
        /\ \A t \in DOMAIN jsons : t # jsonFile => jsons'[t] = jsons[t]
        /\ jsons'[jsonFile] = [jsons[jsonFile] EXCEPT !.ended = ended]
    BY <1>4, <1>6, <2>1
  <2>4. /\ jsons'[jsonFile] \in [batch : Batches, items : Seq(Nat), ended : BOOLEAN]
        /\ jsons'[jsonFile].batch = jsons[jsonFile].batch
        /\ jsons'[jsonFile].items = jsons[jsonFile].items
    BY <2>2, <2>3
  <2>5. JsonsOK'
    BY <1>3, <2>3, <2>4 DEF JsonsOK, Batches
  <2>6. ASSUME NEW b PROVE MessagesOf(b)' = MessagesOf(b)
    <3>1. \A t \in DOMAIN jsons : jsons'[t].batch = jsons[t].batch /\ jsons'[t].items = jsons[t].items
      BY <2>3, <2>4
    <3>2. ASSUME NEW p PROVE p \in MessagesOf(b)' <=> p \in MessagesOf(b)
      BY <2>3, <3>1, InMessagesOf
    <3> QED BY <3>2
  <2> QED BY <1>1, <1>2, <2>3, <2>5, <2>6
<1> QED BY <1>5, <1>6

-----------------------------------------------------------------------------
(* The invariant *)

\* What TypeOK says besides.
ControlOK ==
  /\ enabled \in BOOLEAN
  /\ captureActive \in BOOLEAN
  /\ filter \in Filters \cup {NoFilter}
  /\ fileStem \in Stems \cup {NoStem}
  /\ pcapFile \in DOMAIN pcaps \cup {NoStem}
  /\ jsonFile \in DOMAIN jsons \cup {NoStem}
  /\ jsonStarted \in BOOLEAN
  /\ packetCount \in Nat
  /\ messageCount \in Nat
  /\ lastError \in BOOLEAN
  /\ step \in {"idle", "openPcap", "openJSON", "record", "message"}
  /\ second \in Nat
  /\ nano \in Nat
  /\ packets \in Nat
  /\ batch \in Batches
  /\ offered \in [Batches -> SUBSET (1 .. packets)]
  /\ faults \in Nat
  /\ damaged \subseteq Batches
  /\ rollbackFailed \in BOOLEAN

\* The type invariant in three parts.
LEMMA Parts ==
  /\ TypeOK <=> ControlOK /\ PcapsOK /\ JsonsOK
  /\ TypeOK' <=> ControlOK' /\ PcapsOK' /\ JsonsOK'
BY DEF TypeOK, ControlOK, PcapsOK, JsonsOK

\* The names the recorder makes are names, and unique ones count up.
LEMMA NewStems ==
  /\ \A f \in Filters : second \in Nat => DefaultFileStem(f) \in Stems /\ DefaultFileStem(f)[3] = 0
  /\ \A f \in Filters : second \in Nat /\ nano \in Nat =>
       UniqueFileStem(f) \in Stems /\ UniqueFileStem(f)[3] = nano + 1
  /\ \A s \in Stems : s[3] \in Nat
BY DEF DefaultFileStem, UniqueFileStem, Stems

\* The name openPcapLocked takes is new, because unique names grow.
LEMMA FreshStem ==
  ASSUME IInv, step = "openPcap"
  PROVE  /\ FreeStem \in Stems
         /\ FreeStem \notin DOMAIN pcaps \cup DOMAIN jsons
         /\ NanoRead \in Nat
         /\ nano <= NanoRead
         /\ FreeStem[3] <= NanoRead
<1>1. /\ ControlOK /\ PcapsOK /\ JsonsOK
      /\ filter \in Filters /\ fileStem \in Stems
  BY Parts DEF IInv, WriteIsActive
<1>2. second \in Nat /\ nano \in Nat
  BY <1>1 DEF ControlOK
<1>3. CASE Exists(fileStem)
  <2>1. FreeStem = UniqueFileStem(filter) /\ NanoRead = nano + 1
    BY <1>3 DEF FreeStem, NanoRead
  <2>2. FreeStem \in Stems /\ FreeStem[3] = nano + 1
    BY <1>1, <1>2, <2>1, NewStems
  <2>3. \A s \in DOMAIN pcaps \cup DOMAIN jsons : s \in Stems /\ s[3] <= nano
    BY <1>1, NoStemIsNone DEF IInv, NamesAreOld, PcapsOK, JsonsOK
  <2>4. FreeStem \notin DOMAIN pcaps \cup DOMAIN jsons
    <3>1. ~(nano + 1 <= nano)
      BY <1>2
    <3> QED BY <2>2, <2>3, <3>1
  <2> QED BY <1>2, <2>1, <2>2, <2>4
<1>4. CASE ~Exists(fileStem)
  <2>1. FreeStem = fileStem /\ NanoRead = nano
    BY <1>4 DEF FreeStem, NanoRead
  <2>2. fileStem[3] <= nano
    BY <1>1, NoStemIsNone DEF IInv, NamesAreOld
  <2> QED BY <1>1, <1>2, <1>4, <2>1, <2>2 DEF Exists
<1> QED BY <1>3, <1>4

\* So is the one it opens.
LEMMA Chosen ==
  ASSUME IInv, step = "openPcap", ChooseStem
  PROVE  /\ fileStem' \in Stems
         /\ fileStem' \notin DOMAIN pcaps \cup DOMAIN jsons
         /\ nano' \in Nat
         /\ nano <= nano'
         /\ fileStem'[3] <= nano'
BY FreshStem DEF ChooseStem

\* A failure is counted and damages batches only.
LEMMA Failed ==
  ASSUME ControlOK, NEW k \in Nat, Fail(k)
  PROVE  faults' \in Nat /\ damaged' \subseteq Batches /\ rollbackFailed' \in BOOLEAN
BY DEF ControlOK, Fail

\* The parts of IInv about entries, when Write is not running any more.
LEMMA Quiet ==
  ASSUME IInv, step' = "idle", UNCHANGED <<packets, offered>>,
         \A b : MessagesOf(b)' = MessagesOf(b),
         \A b, p : p \in PacketsOf(b)' <=> p \in PacketsOf(b)
  PROVE  OneBatchPerFile' /\ NotYetSent' /\ MessageHasPacket'
<1>1. ASSUME NEW b \in Batches
      PROVE  PacketsOf(b)' \cup MessagesOf(b)' \subseteq offered'[b]
  BY <1>1 DEF IInv, OneBatchPerFile
<1>2. ASSUME NEW b \in Batches
      PROVE  MessagesOf(b)' \subseteq PacketsOf(b)'
  BY <1>2 DEF IInv, MessageHasPacket
<1>3. OneBatchPerFile'
  BY <1>1 DEF OneBatchPerFile, Batches
<1>4. MessageHasPacket'
  BY <1>2 DEF MessageHasPacket, Batches
<1> QED BY <1>3, <1>4 DEF NotYetSent

\* As long as no capture file changes, no batch loses a packet.
LEMMA PacketsKept ==
  ASSUME pcaps' = pcaps
  PROVE  \A b, p : p \in PacketsOf(b)' <=> p \in PacketsOf(b)
BY DEF PacketsOf

\* As long as no JSON file changes, no batch loses a message.
LEMMA MessagesKept ==
  ASSUME jsons' = jsons
  PROVE  \A b : MessagesOf(b)' = MessagesOf(b)
BY DEF MessagesOf

\* A recorder that has written nothing keeps every promise.
LEMMA InitIInv == Init => IInv
<1> SUFFICES ASSUME Init PROVE IInv
  OBVIOUS
<1>1. DOMAIN pcaps = {} /\ DOMAIN jsons = {}
  BY DEF Init
<1>2. 0 \in Batches
  BY DEF Batches
<1>3. offered \in [Batches -> SUBSET (1 .. packets)]
  BY DEF Init, Batches
<1>4. TypeOK
  <2>1. ControlOK
    BY <1>2, <1>3 DEF Init, ControlOK
  <2> QED BY <1>1, <2>1, Parts DEF PcapsOK, JsonsOK
<1>5. \A b : PacketsOf(b) = {} /\ MessagesOf(b) = {}
  BY <1>1 DEF PacketsOf, MessagesOf
<1>6. OneBatchPerFile /\ MessageHasPacket
  BY <1>5 DEF OneBatchPerFile, MessageHasPacket
<1>7. NamesAreOld
  BY <1>1 DEF Init, NamesAreOld
<1>8. WriteIsActive /\ OpenIsCurrent
  BY DEF Init, WriteIsActive, OpenIsCurrent
<1>9. NotYetSent
  BY DEF Init, NotYetSent
<1> QED BY <1>4, <1>6, <1>7, <1>8, <1>9 DEF IInv

-----------------------------------------------------------------------------
(* Requests, and the process that ends *)

\* Closing both files, whatever else the handler sets.
LEMMA Closing ==
  ASSUME IInv, NEW failed \in BOOLEAN, CloseLocked(failed),
         step' = "idle", UNCHANGED <<pcaps, clock, packets, offered>>,
         enabled' \in BOOLEAN, captureActive' \in BOOLEAN,
         filter' \in Filters \cup {NoFilter},
         fileStem' \in Stems \cup {NoStem},
         fileStem' # NoStem => fileStem'[3] <= nano,
         captureActive' => filter' \in Filters /\ fileStem' \in Stems,
         packetCount' \in Nat, messageCount' \in Nat, lastError' \in BOOLEAN,
         batch' \in Batches
  PROVE  IInv'
<1>1. /\ pcapFile' = NoStem /\ jsonFile' = NoStem /\ jsonStarted' = FALSE
      /\ JsonsOK'
      /\ DOMAIN jsons' = DOMAIN jsons
      /\ \A b : MessagesOf(b)' = MessagesOf(b)
      /\ faults' \in Nat /\ damaged' \subseteq Batches /\ rollbackFailed' \in BOOLEAN
  BY Closed DEF IInv
<1>2. ControlOK /\ PcapsOK
  BY Parts DEF IInv
<1>3. ControlOK'
  BY <1>1, <1>2 DEF ControlOK, clock, Batches
<1>4. PcapsOK'
  BY <1>2 DEF PcapsOK, Batches
<1>5. OneBatchPerFile' /\ NotYetSent' /\ MessageHasPacket'
  BY <1>1, Quiet, PacketsKept
<1>6. NamesAreOld'
  BY <1>1 DEF IInv, NamesAreOld, clock
<1>7. WriteIsActive' /\ OpenIsCurrent'
  BY <1>1 DEF WriteIsActive, OpenIsCurrent
<1> QED BY <1>1, <1>3, <1>4, <1>5, <1>6, <1>7, Parts DEF IInv

\* Requests and the end of a capture come between two writes.
LEMMA RequestStep ==
  ASSUME IInv, \/ SecondPasses \/ Enable \/ Disable \/ EndCapture \/ Stop
               \/ (\E f \in Filters : BeginCapture(f))
  PROVE  IInv'
<1>0. ControlOK /\ PcapsOK /\ JsonsOK
  BY Parts DEF IInv
<1>1. fileStem # NoStem => fileStem[3] <= nano
  BY DEF IInv, NamesAreOld
<1>2. captureActive => filter \in Filters /\ fileStem \in Stems
  BY DEF IInv, WriteIsActive
<1>3. CASE SecondPasses \/ Enable
  <2>1. /\ UNCHANGED <<captureActive, filter, fileStem, open, packetCount, messageCount,
                       step, disk, nano, history, faultVars>>
        /\ second' \in Nat /\ enabled' \in BOOLEAN /\ lastError' \in BOOLEAN
    <3>1. CASE SecondPasses
      BY <1>0, <3>1 DEF SecondPasses, control, status, ControlOK
    <3>2. CASE Enable
      BY <1>0, <3>2 DEF Enable, clock, ControlOK
    <3> QED BY <1>3, <3>1, <3>2
  <2>2. ControlOK' /\ PcapsOK' /\ JsonsOK'
    BY <1>0, <2>1 DEF ControlOK, PcapsOK, JsonsOK, Batches, open, disk, history, faultVars
  <2>3. /\ \A b : PacketsOf(b)' = PacketsOf(b)
        /\ \A b : MessagesOf(b)' = MessagesOf(b)
    BY <2>1 DEF PacketsOf, MessagesOf, disk
  <2>4. OneBatchPerFile' /\ MessageHasPacket'
    BY <2>1, <2>3 DEF IInv, OneBatchPerFile, MessageHasPacket, Batches, history
  <2>5. NamesAreOld' /\ WriteIsActive' /\ OpenIsCurrent'
    BY <2>1 DEF IInv, NamesAreOld, WriteIsActive, OpenIsCurrent, open, disk, history
  <2>6. NotYetSent'
    BY <2>1, <2>3 DEF IInv, NotYetSent, Batches, open, disk, history
  <2> QED BY <2>2, <2>4, <2>5, <2>6, Parts DEF IInv
<1>4. CASE Disable
  <2>1. PICK failed \in BOOLEAN : CloseLocked(failed)
    BY <1>4 DEF Disable
  <2>2. /\ step' = "idle" /\ enabled' = FALSE
        /\ UNCHANGED <<captureActive, filter, fileStem, status, pcaps, clock, history>>
    BY <1>4 DEF Disable
  <2> QED BY <1>0, <1>1, <1>2, <2>1, <2>2, Closing DEF ControlOK, status, history
<1>5. CASE EndCapture
  <2>1. PICK failed \in BOOLEAN : CloseLocked(failed)
    BY <1>5 DEF EndCapture
  <2>2. /\ step' = "idle" /\ captureActive' = FALSE /\ filter' = NoFilter /\ fileStem' = NoStem
        /\ packetCount' = 0 /\ messageCount' = 0
        /\ UNCHANGED <<enabled, lastError, pcaps, clock, history>>
    BY <1>5 DEF EndCapture
  <2> QED BY <1>0, <2>1, <2>2, Closing DEF ControlOK, history
<1>6. CASE Stop
  <2>1. PICK failed \in BOOLEAN : CloseLocked(failed)
    BY <1>6 DEF Stop
  <2>2. /\ step' = "idle" /\ captureActive' = FALSE /\ filter' = NoFilter /\ fileStem' = NoStem
        /\ packetCount' = 0 /\ messageCount' = 0 /\ lastError' = FALSE /\ enabled' \in BOOLEAN
        /\ UNCHANGED <<pcaps, clock, history>>
    BY <1>6 DEF Stop, NewRecorder
  <2> QED BY <1>0, <2>1, <2>2, Closing DEF ControlOK, history
<1>8. ASSUME NEW f \in Filters, BeginCapture(f) PROVE IInv'
  <2>1. step' = "idle" /\ UNCHANGED <<enabled, pcaps, clock, packets, offered>>
    BY <1>8 DEF BeginCapture
  <2>2. CASE /\ CloseLocked(TRUE)
             /\ lastError' = TRUE
             /\ UNCHANGED <<captureActive, filter, fileStem, packetCount, messageCount, batch>>
    BY <1>0, <1>1, <1>2, <2>1, <2>2, Closing DEF ControlOK
  <2>3. CASE /\ CloseLocked(FALSE)
             /\ captureActive' = TRUE
             /\ filter' = f
             /\ fileStem' = DefaultFileStem(f)
             /\ packetCount' = 0
             /\ messageCount' = 0
             /\ lastError' = FALSE
             /\ batch' = batch + 1
    <3>1. batch' \in Batches
      BY <1>0, <1>8, <2>3 DEF BeginCapture, ControlOK, Batches
    <3>2. fileStem' \in Stems /\ fileStem'[3] = 0 /\ 0 <= nano
      BY <1>0, <2>3, NewStems DEF ControlOK
    <3> QED BY <1>0, <2>1, <2>3, <3>1, <3>2, Closing DEF ControlOK
  <2> QED BY <1>8, <2>2, <2>3 DEF BeginCapture
<1> QED BY <1>3, <1>4, <1>5, <1>6, <1>8

-----------------------------------------------------------------------------
(* Write *)

\* A packet is offered to the batch, and every file of it is yet to be written.
LEMMA WriteStarts ==
  ASSUME IInv, WriteStart
  PROVE  IInv'
<1>0. ControlOK /\ PcapsOK /\ JsonsOK
  BY Parts DEF IInv
<1>1. /\ step = "idle" /\ captureActive
      /\ packets' = packets + 1
      /\ offered' = [offered EXCEPT ![batch] = @ \cup {packets + 1}]
      /\ step' = NextStep(pcapFile, jsonFile)
      /\ UNCHANGED <<control, fileStem, open, status, disk, clock, batch, faultVars>>
  BY DEF WriteStart
<1>2. packets \in Nat /\ batch \in Batches /\ offered \in [Batches -> SUBSET (1 .. packets)]
  BY <1>0 DEF ControlOK
<1>3. /\ \A b \in Batches : offered[b] \subseteq offered'[b]
      /\ packets' \in offered'[batch]
      /\ offered' \in [Batches -> SUBSET (1 .. packets')]
  BY <1>1, <1>2
<1>4. /\ \A b : PacketsOf(b)' = PacketsOf(b)
      /\ \A b : MessagesOf(b)' = MessagesOf(b)
  BY <1>1 DEF PacketsOf, MessagesOf, disk
<1>5. step' \in {"openPcap", "openJSON", "record"}
  BY <1>1 DEF NextStep
<1>6. ControlOK' /\ PcapsOK' /\ JsonsOK'
  BY <1>0, <1>1, <1>3, <1>5
     DEF ControlOK, PcapsOK, JsonsOK, Batches, control, open, status, disk, clock, faultVars
<1>7. OneBatchPerFile' /\ MessageHasPacket'
  BY <1>3, <1>4 DEF IInv, OneBatchPerFile, MessageHasPacket, Batches
<1>8. NamesAreOld' /\ OpenIsCurrent'
  BY <1>1 DEF IInv, NamesAreOld, OpenIsCurrent, open, disk, clock
<1>9. WriteIsActive'
  BY <1>1, <1>3 DEF IInv, WriteIsActive, NextStep, control, open
<1>10. NotYetSent'
  <2>1. ASSUME NEW b \in Batches PROVE packets' \notin MessagesOf(b)'
    <3>1. MessagesOf(b)' \subseteq 1 .. packets
      BY <1>2, <1>4 DEF IInv, OneBatchPerFile
    <3> QED BY <1>1, <1>2, <3>1
  <2> QED BY <1>5, <2>1 DEF NotYetSent, Batches
<1> QED BY <1>6, <1>7, <1>8, <1>9, <1>10, Parts DEF IInv

\* Without a directory nothing is written, and the batch is damaged.
LEMMA MkdirFailing ==
  ASSUME IInv, MkdirFails
  PROVE  IInv'
<1>0. ControlOK /\ PcapsOK /\ JsonsOK
  BY Parts DEF IInv
<1>1. /\ Fail(1) /\ lastError' = TRUE /\ step' = "idle"
      /\ UNCHANGED <<control, fileStem, open, packetCount, messageCount, disk, clock, history>>
  BY DEF MkdirFails, GiveUp
<1>2. faults' \in Nat /\ damaged' \subseteq Batches /\ rollbackFailed' \in BOOLEAN
  BY <1>0, <1>1, Failed
<1>3. ControlOK' /\ PcapsOK' /\ JsonsOK'
  BY <1>0, <1>1, <1>2
     DEF ControlOK, PcapsOK, JsonsOK, Batches, control, open, disk, clock, history
<1>4. OneBatchPerFile' /\ NotYetSent' /\ MessageHasPacket'
  BY <1>1, Quiet, PacketsKept, MessagesKept DEF history, disk
<1>5. NamesAreOld' /\ WriteIsActive' /\ OpenIsCurrent'
  BY <1>1 DEF IInv, NamesAreOld, WriteIsActive, OpenIsCurrent, control, open, disk, clock, history
<1> QED BY <1>3, <1>4, <1>5, Parts DEF IInv

\* OpenPcap: the files it leaves.
LEMMA PcapOpens ==
  ASSUME IInv, OpenPcap
  PROVE  /\ PcapsOK'
         /\ fileStem' \in Stems /\ fileStem' \notin DOMAIN pcaps
         /\ nano' \in Nat /\ nano <= nano' /\ fileStem'[3] <= nano'
         /\ DOMAIN pcaps \subseteq DOMAIN pcaps'
         /\ DOMAIN pcaps' \subseteq DOMAIN pcaps \cup {fileStem'}
         /\ \A t \in DOMAIN pcaps : pcaps'[t] = pcaps[t]
         /\ \A b : PacketsOf(b)' = PacketsOf(b)
         /\ \/ /\ pcapFile' = fileStem'
               /\ fileStem' \in DOMAIN pcaps' /\ pcaps'[fileStem'].batch = batch
               /\ packetCount' = 0 /\ lastError' = FALSE
               /\ step' = NextStep(fileStem', jsonFile)
               /\ UNCHANGED faultVars
            \/ Fail(1) /\ GiveUp /\ UNCHANGED <<pcapFile, packetCount>>
<1>1. PcapsOK /\ batch \in Batches
  BY Parts DEF IInv, ControlOK
<1>2. /\ fileStem' \in Stems /\ fileStem' \notin DOMAIN pcaps
      /\ nano' \in Nat /\ nano <= nano' /\ fileStem'[3] <= nano'
  BY Chosen DEF OpenPcap
<1>3. ASSUME NEW records \in {<<>>, <<Torn>>},
             pcaps' = Put(pcaps, fileStem', [batch |-> batch, records |-> records])
      PROVE  /\ PcapsOK'
             /\ DOMAIN pcaps' = DOMAIN pcaps \cup {fileStem'}
             /\ \A t \in DOMAIN pcaps : pcaps'[t] = pcaps[t]
             /\ pcaps'[fileStem'].batch = batch
             /\ \A b : PacketsOf(b)' = PacketsOf(b)
  <2>1. PICK new \in Stems : new = fileStem'
    BY <1>2
  <2>2. new \notin DOMAIN pcaps /\ pcaps' = Put(pcaps, new, [batch |-> batch, records |-> records])
    BY <1>2, <1>3, <2>1
  <2>3. /\ PcapsOK'
        /\ DOMAIN pcaps' = DOMAIN pcaps \cup {new}
        /\ \A t \in DOMAIN pcaps : pcaps'[t] = pcaps[t]
        /\ pcaps'[new].batch = batch
        /\ \A b : PacketsOf(b)' = PacketsOf(b)
    BY <1>1, <2>2, NewPcap
  <2> QED BY <2>1, <2>3
<1>4. CASE /\ pcaps' = Put(pcaps, fileStem', [batch |-> batch, records |-> <<>>])
           /\ pcapFile' = fileStem'
           /\ packetCount' = 0
           /\ lastError' = FALSE
           /\ step' = NextStep(fileStem', jsonFile)
           /\ UNCHANGED faultVars
  BY <1>2, <1>3, <1>4
<1>5. CASE /\ Fail(1)
           /\ pcaps' = Put(pcaps, fileStem', [batch |-> batch, records |-> <<Torn>>])
           /\ GiveUp
           /\ UNCHANGED <<pcapFile, packetCount>>
  BY <1>2, <1>3, <1>5
<1>6. CASE /\ Fail(1)
           /\ pcaps' = pcaps
           /\ GiveUp
           /\ UNCHANGED <<pcapFile, packetCount>>
  <2>1. PcapsOK'
    BY <1>1, <1>6 DEF PcapsOK, Batches
  <2>2. \A b : PacketsOf(b)' = PacketsOf(b)
    BY <1>6 DEF PacketsOf
  <2> QED BY <1>2, <1>6, <2>1, <2>2
<1> QED BY <1>4, <1>5, <1>6 DEF OpenPcap

\* The capture file is opened under a new name, or not at all.
LEMMA OpenPcapStep ==
  ASSUME IInv, OpenPcap
  PROVE  IInv'
<1>0. ControlOK /\ PcapsOK /\ JsonsOK
  BY Parts DEF IInv
<1>1. /\ step = "openPcap"
      /\ UNCHANGED <<control, jsonFile, jsonStarted, messageCount, jsons, second, history>>
  BY DEF OpenPcap
<1>2. /\ PcapsOK'
      /\ fileStem' \in Stems /\ fileStem' \notin DOMAIN pcaps
      /\ nano' \in Nat /\ nano <= nano' /\ fileStem'[3] <= nano'
      /\ DOMAIN pcaps \subseteq DOMAIN pcaps'
      /\ DOMAIN pcaps' \subseteq DOMAIN pcaps \cup {fileStem'}
      /\ \A t \in DOMAIN pcaps : pcaps'[t] = pcaps[t]
      /\ \A b : PacketsOf(b)' = PacketsOf(b)
  BY PcapOpens
<1>3. JsonsOK'
  BY <1>0, <1>1 DEF JsonsOK, Batches
<1>4. \A b : MessagesOf(b)' = MessagesOf(b)
  BY <1>1, MessagesKept
<1>5. OneBatchPerFile' /\ MessageHasPacket'
  BY <1>1, <1>2, <1>4 DEF IInv, OneBatchPerFile, MessageHasPacket, Batches, history
<1>6. NamesAreOld'
  <2>1. ASSUME NEW s \in DOMAIN pcaps' \cup DOMAIN jsons' \cup {fileStem'}, s # NoStem
        PROVE  s[3] <= nano'
    <3>1. CASE s = fileStem'
      BY <1>2, <3>1
    <3>2. CASE s # fileStem'
      <4>1. s \in DOMAIN pcaps \cup DOMAIN jsons /\ s \in Stems
        BY <1>0, <1>1, <1>2, <3>2, <2>1 DEF PcapsOK, JsonsOK
      <4>2. s[3] <= nano /\ s[3] \in Nat
        BY <4>1, <2>1, NewStems DEF IInv, NamesAreOld
      <4>3. nano \in Nat
        BY <1>0 DEF ControlOK
      <4> QED BY <1>2, <4>2, <4>3
    <3> QED BY <3>1, <3>2
  <2> QED BY <2>1 DEF NamesAreOld
<1>7. CASE /\ pcapFile' = fileStem'
           /\ fileStem' \in DOMAIN pcaps' /\ pcaps'[fileStem'].batch = batch
           /\ packetCount' = 0 /\ lastError' = FALSE
           /\ step' = NextStep(fileStem', jsonFile)
           /\ UNCHANGED faultVars
  <2>1. fileStem' # NoStem
    BY <1>2, NoStemIsNone
  <2>2. /\ step' \in {"openJSON", "record"}
        /\ step' = "record" => jsonFile # NoStem
    BY <1>7, <2>1 DEF NextStep
  <2>3. ControlOK'
    BY <1>0, <1>1, <1>2, <1>7, <2>2 DEF ControlOK, Batches, control, history, faultVars
  <2>4. WriteIsActive'
    BY <1>1, <1>2, <1>7, <2>1, <2>2 DEF IInv, WriteIsActive, control, history
  <2>5. OpenIsCurrent'
    BY <1>1, <1>7 DEF IInv, OpenIsCurrent, history
  <2>6. NotYetSent'
    BY <1>1, <1>4, <2>2 DEF IInv, NotYetSent, Batches, history
  <2> QED BY <1>2, <1>3, <1>5, <1>6, <2>3, <2>4, <2>5, <2>6, Parts DEF IInv
<1>8. CASE Fail(1) /\ GiveUp /\ UNCHANGED <<pcapFile, packetCount>>
  <2>1. faults' \in Nat /\ damaged' \subseteq Batches /\ rollbackFailed' \in BOOLEAN
    BY <1>0, <1>8, Failed
  <2>2. step' = "idle" /\ lastError' = TRUE
    BY <1>8 DEF GiveUp
  <2>3. ControlOK'
    BY <1>0, <1>1, <1>2, <1>8, <2>1, <2>2 DEF ControlOK, Batches, control, history
  <2>4. WriteIsActive'
    BY <1>1, <1>2, <2>2 DEF IInv, WriteIsActive, control
  <2>5. OpenIsCurrent'
    BY <1>0, <1>1, <1>2, <1>8 DEF IInv, OpenIsCurrent, history, ControlOK
  <2>6. NotYetSent'
    BY <2>2 DEF NotYetSent
  <2> QED BY <1>2, <1>3, <1>5, <1>6, <2>3, <2>4, <2>5, <2>6, Parts DEF IInv
<1>9. \/ /\ pcapFile' = fileStem'
         /\ fileStem' \in DOMAIN pcaps' /\ pcaps'[fileStem'].batch = batch
         /\ packetCount' = 0 /\ lastError' = FALSE
         /\ step' = NextStep(fileStem', jsonFile)
         /\ UNCHANGED faultVars
      \/ Fail(1) /\ GiveUp /\ UNCHANGED <<pcapFile, packetCount>>
  BY PcapOpens
<1> QED BY <1>7, <1>8, <1>9

\* OpenJSON: the files it leaves.
LEMMA JSONOpens ==
  ASSUME IInv, OpenJSON
  PROVE  /\ JsonsOK'
         /\ fileStem \in Stems
         /\ DOMAIN jsons \subseteq DOMAIN jsons'
         /\ DOMAIN jsons' \subseteq DOMAIN jsons \cup {fileStem}
         /\ \A t \in DOMAIN jsons : jsons'[t] = jsons[t]
         /\ \A b : MessagesOf(b)' = MessagesOf(b)
         /\ faults' \in Nat /\ damaged' \subseteq Batches /\ rollbackFailed' \in BOOLEAN
         /\ \/ /\ jsonFile' = fileStem
               /\ fileStem \in DOMAIN jsons' /\ jsons'[fileStem].batch = batch
               /\ jsonStarted' = FALSE /\ messageCount' = 0
               /\ step' = "record" /\ lastError' = lastError
            \/ GiveUp /\ UNCHANGED <<jsonFile, jsonStarted, messageCount>>
<1>0. ControlOK /\ JsonsOK
  BY Parts DEF IInv
<1>1. fileStem \in Stems /\ batch \in Batches
  BY <1>0 DEF IInv, WriteIsActive, OpenJSON, ControlOK
<1>2. ASSUME NEW items \in {<<>>, <<Torn>>}, fileStem \notin DOMAIN jsons,
             jsons' = Put(jsons, fileStem, [batch |-> batch, items |-> items, ended |-> FALSE])
      PROVE  /\ JsonsOK'
             /\ DOMAIN jsons' = DOMAIN jsons \cup {fileStem}
             /\ \A t \in DOMAIN jsons : jsons'[t] = jsons[t]
             /\ jsons'[fileStem].batch = batch
             /\ \A b : MessagesOf(b)' = MessagesOf(b)
  <2> DEFINE file == [batch |-> batch, items |-> items, ended |-> FALSE]
  <2>1. items \in Seq(Nat) /\ Whole(items) = {}
    BY WholeOfNone
  <2>2. /\ file \in [batch : Batches, items : Seq(Nat), ended : BOOLEAN]
        /\ file.items = items /\ file.batch = batch
    BY <1>1, <2>1
  <2>3. jsons' = Put(jsons, fileStem, file)
    BY <1>2
  <2> HIDE DEF file
  <2>4. Whole(file.items) = {}
    BY <2>1, <2>2
  <2>5. /\ JsonsOK'
        /\ DOMAIN jsons' = DOMAIN jsons \cup {fileStem}
        /\ \A t \in DOMAIN jsons : jsons'[t] = jsons[t]
        /\ jsons'[fileStem] = file
        /\ \A b : MessagesOf(b)' = MessagesOf(b)
    BY <1>0, <1>1, <1>2, <2>2, <2>3, <2>4, NewJSON
  <2> QED BY <2>2, <2>5
<1>3. ASSUME jsons' = jsons
      PROVE  /\ JsonsOK'
             /\ DOMAIN jsons' = DOMAIN jsons
             /\ \A t \in DOMAIN jsons : jsons'[t] = jsons[t]
             /\ \A b : MessagesOf(b)' = MessagesOf(b)
  BY <1>0, <1>3 DEF JsonsOK, Batches, MessagesOf
<1>4. CASE fileStem \in DOMAIN jsons
  <2>1. GiveUp /\ UNCHANGED <<jsons, jsonFile, jsonStarted, messageCount, faultVars>>
    BY <1>4 DEF OpenJSON
  <2> QED BY <1>0, <1>1, <1>3, <2>1 DEF ControlOK, faultVars
<1>5. CASE fileStem \notin DOMAIN jsons
  <2>1. CASE /\ jsons' = Put(jsons, fileStem, [batch |-> batch, items |-> <<>>, ended |-> FALSE])
             /\ jsonFile' = fileStem
             /\ jsonStarted' = FALSE
             /\ messageCount' = 0
             /\ step' = "record"
             /\ UNCHANGED <<faultVars, lastError>>
    BY <1>0, <1>1, <1>2, <1>5, <2>1 DEF ControlOK, faultVars
  <2>2. CASE /\ Fail(1)
             /\ jsons' = jsons
             /\ GiveUp
             /\ UNCHANGED <<jsonFile, jsonStarted, messageCount>>
    BY <1>0, <1>1, <1>3, <2>2, Failed
  <2>3. CASE /\ Fail(1)
             /\ jsons' = Put(jsons, fileStem, [batch |-> batch, items |-> <<Torn>>, ended |-> FALSE])
             /\ GiveUp
             /\ UNCHANGED <<jsonFile, jsonStarted, messageCount>>
    BY <1>0, <1>1, <1>2, <1>5, <2>3, Failed
  <2> QED BY <1>5, <2>1, <2>2, <2>3 DEF OpenJSON
<1> QED BY <1>4, <1>5

\* The JSON file is opened under a new name, or not at all.
LEMMA OpenJSONStep ==
  ASSUME IInv, OpenJSON
  PROVE  IInv'
<1>0. ControlOK /\ PcapsOK /\ JsonsOK
  BY Parts DEF IInv
<1>1. /\ step = "openJSON"
      /\ UNCHANGED <<control, fileStem, pcapFile, packetCount, pcaps, clock, history>>
  BY DEF OpenJSON
<1>2. /\ JsonsOK'
      /\ fileStem \in Stems
      /\ DOMAIN jsons \subseteq DOMAIN jsons'
      /\ DOMAIN jsons' \subseteq DOMAIN jsons \cup {fileStem}
      /\ \A t \in DOMAIN jsons : jsons'[t] = jsons[t]
      /\ \A b : MessagesOf(b)' = MessagesOf(b)
      /\ faults' \in Nat /\ damaged' \subseteq Batches /\ rollbackFailed' \in BOOLEAN
  BY JSONOpens
<1>3. \/ /\ jsonFile' = fileStem
         /\ fileStem \in DOMAIN jsons' /\ jsons'[fileStem].batch = batch
         /\ jsonStarted' = FALSE /\ messageCount' = 0
         /\ step' = "record" /\ lastError' = lastError
      \/ GiveUp /\ UNCHANGED <<jsonFile, jsonStarted, messageCount>>
  BY JSONOpens
<1>4. PcapsOK'
  BY <1>0, <1>1 DEF PcapsOK, Batches
<1>5. \A b : PacketsOf(b)' = PacketsOf(b)
  BY <1>1 DEF PacketsOf
<1>6. OneBatchPerFile' /\ MessageHasPacket'
  BY <1>1, <1>2, <1>5 DEF IInv, OneBatchPerFile, MessageHasPacket, Batches, history
<1>7. NamesAreOld'
  BY <1>1, <1>2 DEF IInv, NamesAreOld, clock
<1>8. fileStem # NoStem
  BY <1>2, NoStemIsNone
<1>9. CASE /\ jsonFile' = fileStem
           /\ fileStem \in DOMAIN jsons' /\ jsons'[fileStem].batch = batch
           /\ jsonStarted' = FALSE /\ messageCount' = 0
           /\ step' = "record" /\ lastError' = lastError
  <2>1. ControlOK'
    BY <1>0, <1>1, <1>2, <1>9 DEF ControlOK, Batches, control, clock, history
  <2>2. WriteIsActive' /\ OpenIsCurrent'
    BY <1>1, <1>8, <1>9 DEF IInv, WriteIsActive, OpenIsCurrent, control, history
  <2>3. NotYetSent'
    BY <1>1, <1>2, <1>9 DEF IInv, NotYetSent, Batches, history
  <2> QED BY <1>2, <1>4, <1>6, <1>7, <2>1, <2>2, <2>3, Parts DEF IInv
<1>10. CASE GiveUp /\ UNCHANGED <<jsonFile, jsonStarted, messageCount>>
  <2>1. step' = "idle" /\ lastError' = TRUE
    BY <1>10 DEF GiveUp
  <2>2. ControlOK'
    BY <1>0, <1>1, <1>2, <1>10, <2>1 DEF ControlOK, Batches, control, clock, history
  <2>3. WriteIsActive'
    BY <1>1, <2>1 DEF IInv, WriteIsActive, control
  <2>4. OpenIsCurrent'
    BY <1>0, <1>1, <1>2, <1>10 DEF IInv, OpenIsCurrent, history, ControlOK
  <2>5. NotYetSent'
    BY <2>1 DEF NotYetSent
  <2> QED BY <1>2, <1>4, <1>6, <1>7, <2>2, <2>3, <2>4, <2>5, Parts DEF IInv
<1> QED BY <1>3, <1>9, <1>10

\* The packet of a Write that runs is a packet, and the pcap file is of its batch.
LEMMA Writing ==
  ASSUME IInv, step \in {"record", "message"}
  PROVE  /\ packets \in Nat /\ packets # Torn
         /\ packets \in offered[batch]
         /\ pcapFile \in DOMAIN pcaps /\ pcaps[pcapFile].batch = batch
         /\ jsonFile \in DOMAIN jsons /\ jsons[jsonFile].batch = batch
<1>1. ControlOK
  BY Parts DEF IInv
<1>2. /\ packets \in offered[batch]
      /\ pcapFile # NoStem /\ jsonFile # NoStem
  BY DEF IInv, WriteIsActive
<1>3. packets \in Nat /\ packets # 0
  BY <1>1, <1>2 DEF ControlOK
<1>4. pcapFile \in DOMAIN pcaps /\ jsonFile \in DOMAIN jsons
  BY <1>1, <1>2 DEF ControlOK
<1> QED BY <1>2, <1>3, <1>4 DEF IInv, OpenIsCurrent, Torn

\* What stays when a step of Write touches one file of each kind at most.
LEMMA SameFiles ==
  ASSUME IInv, DOMAIN pcaps' = DOMAIN pcaps, DOMAIN jsons' = DOMAIN jsons,
         \A s \in DOMAIN pcaps : pcaps'[s].batch = pcaps[s].batch,
         \A s \in DOMAIN jsons : jsons'[s].batch = jsons[s].batch,
         pcapFile' \in {pcapFile, NoStem},
         UNCHANGED <<control, fileStem, jsonFile, clock, history>>
  PROVE  /\ NamesAreOld' /\ OpenIsCurrent'
         /\ step' = "idle" => WriteIsActive'
<1>1. ControlOK
  BY Parts DEF IInv
<1>2. NamesAreOld'
  BY DEF IInv, NamesAreOld, clock
<1>3. OpenIsCurrent'
  BY <1>1 DEF IInv, OpenIsCurrent, history, ControlOK
<1>4. step' = "idle" => WriteIsActive'
  BY DEF IInv, WriteIsActive, control
<1> QED BY <1>2, <1>3, <1>4

\* WriteRecord: what it appends to the pcap file.
LEMMA RecordStep ==
  ASSUME IInv, WriteRecord
  PROVE  IInv'
<1>0. ControlOK /\ PcapsOK /\ JsonsOK
  BY Parts DEF IInv
<1>1. /\ step = "record"
      /\ UNCHANGED <<control, fileStem, jsonFile, jsonStarted, packetCount, messageCount,
                     jsons, clock, history>>
  BY DEF WriteRecord
<1>2. /\ packets \in Nat /\ packets # Torn
      /\ packets \in offered[batch]
      /\ pcapFile \in DOMAIN pcaps /\ pcaps[pcapFile].batch = batch
      /\ jsonFile \in DOMAIN jsons
  BY <1>1, Writing
<1>3. JsonsOK' /\ \A b : MessagesOf(b)' = MessagesOf(b)
  BY <1>0, <1>1, MessagesKept DEF JsonsOK, Batches
<1>4. batch \in Batches
  BY <1>0 DEF ControlOK
<1>5. CASE RecordWritten
  <2>1. /\ pcaps' = [pcaps EXCEPT ![pcapFile].records = @ \o <<packets>>]
        /\ step' = "message"
        /\ UNCHANGED <<pcapFile, lastError, faultVars>>
    BY <1>5 DEF RecordWritten, AppendRecords
  <2>2. /\ PcapsOK'
        /\ DOMAIN pcaps' = DOMAIN pcaps
        /\ \A t \in DOMAIN pcaps : pcaps'[t].batch = pcaps[t].batch
        /\ pcaps'[pcapFile].records # <<>>
        /\ pcaps'[pcapFile].records[Len(pcaps'[pcapFile].records)] = packets
        /\ \A b, q : q \in PacketsOf(b)' <=>
             q \in PacketsOf(b) \/ (q = packets /\ packets # Torn /\ b = pcaps[pcapFile].batch)
    BY <1>0, <1>2, <2>1, GrownPcap
  <2>3. NamesAreOld' /\ OpenIsCurrent'
    BY <1>1, <2>1, <2>2, SameFiles
  <2>4. ControlOK'
    BY <1>0, <1>1, <2>1, <2>2
       DEF ControlOK, Batches, control, clock, history, faultVars
  <2>5. WriteIsActive'
    BY <1>1, <2>1 DEF IInv, WriteIsActive, control, history
  <2>6. OneBatchPerFile'
    <3>1. ASSUME NEW b \in Batches
          PROVE  PacketsOf(b)' \cup MessagesOf(b)' \subseteq offered'[b]
      BY <1>1, <1>2, <1>3, <2>2 DEF IInv, OneBatchPerFile, history
    <3> QED BY <3>1 DEF OneBatchPerFile, Batches
  <2>7. MessageHasPacket'
    <3>1. ASSUME NEW b \in Batches PROVE MessagesOf(b)' \subseteq PacketsOf(b)'
      BY <1>3, <2>2 DEF IInv, MessageHasPacket
    <3> QED BY <3>1 DEF MessageHasPacket, Batches
  <2>8. NotYetSent'
    BY <1>1, <1>3, <2>1, <2>2 DEF IInv, NotYetSent, Batches, history
  <2> QED BY <1>3, <2>2, <2>3, <2>4, <2>5, <2>6, <2>7, <2>8, Parts DEF IInv
<1>6. CASE SeekFails \/ RecordTorn
  <2>1. /\ Fail(1) /\ lastError' = TRUE /\ step' = "idle"
        /\ pcapFile' \in {pcapFile, NoStem}
        /\ pcaps' = pcaps \/ pcaps' = [pcaps EXCEPT ![pcapFile].records = @ \o <<Torn>>]
    BY <1>6 DEF SeekFails, RecordTorn, GiveUp, AppendRecords
  <2>2. /\ PcapsOK'
        /\ DOMAIN pcaps' = DOMAIN pcaps
        /\ \A t \in DOMAIN pcaps : pcaps'[t].batch = pcaps[t].batch
        /\ \A b, q : q \in PacketsOf(b)' <=> q \in PacketsOf(b)
    <3>1. CASE pcaps' = pcaps
      BY <1>0, <3>1 DEF PcapsOK, Batches, PacketsOf
    <3>2. CASE pcaps' = [pcaps EXCEPT ![pcapFile].records = @ \o <<Torn>>]
      <4>1. Torn \in Nat
        BY DEF Torn
      <4> QED BY <1>0, <1>2, <3>2, <4>1, GrownPcap
    <3> QED BY <2>1, <3>1, <3>2
  <2>3. faults' \in Nat /\ damaged' \subseteq Batches /\ rollbackFailed' \in BOOLEAN
    BY <1>0, <2>1, Failed
  <2>4. ControlOK'
    BY <1>0, <1>1, <2>1, <2>2, <2>3 DEF ControlOK, Batches, control, clock, history
  <2>5. NamesAreOld' /\ OpenIsCurrent' /\ WriteIsActive'
    BY <1>1, <2>1, <2>2, SameFiles
  <2>6. OneBatchPerFile' /\ NotYetSent' /\ MessageHasPacket'
    BY <1>1, <1>3, <2>1, <2>2, Quiet DEF history
  <2> QED BY <1>3, <2>2, <2>4, <2>5, <2>6, Parts DEF IInv
<1> QED BY <1>5, <1>6 DEF WriteRecord

\* Rolling back takes the packet being written from the capture file at most.
LEMMA RolledBack ==
  ASSUME IInv, step = "message", NEW k \in {0, 1}, RollBackPcap(k)
  PROVE  /\ PcapsOK'
         /\ DOMAIN pcaps' = DOMAIN pcaps
         /\ \A t \in DOMAIN pcaps : t # pcapFile => pcaps'[t] = pcaps[t]
         /\ \A t \in DOMAIN pcaps : pcaps'[t].batch = pcaps[t].batch
         /\ \A b, q : /\ q \in PacketsOf(b)' => q \in PacketsOf(b)
                      /\ q \in PacketsOf(b) /\ q # packets => q \in PacketsOf(b)'
<1>0. PcapsOK
  BY Parts DEF IInv
<1>1. pcapFile \in DOMAIN pcaps
  BY Writing
<1>2. /\ pcaps[pcapFile].records # <<>>
      /\ pcaps[pcapFile].records[Len(pcaps[pcapFile].records)] = packets
  BY DEF IInv, NotYetSent
<1>3. \/ pcaps' = pcaps
      \/ pcaps' = [pcaps EXCEPT ![pcapFile].records = DropLast(pcaps[pcapFile].records)]
      \/ pcaps' = [pcaps EXCEPT ![pcapFile].records = Append(DropLast(pcaps[pcapFile].records), Torn)]
  BY DEF RollBackPcap
<1>4. CASE pcaps' = pcaps
  BY <1>0, <1>4 DEF PcapsOK, Batches, PacketsOf
<1>5. ASSUME NEW records \in {DropLast(pcaps[pcapFile].records),
                              Append(DropLast(pcaps[pcapFile].records), Torn)},
             pcaps' = [pcaps EXCEPT ![pcapFile].records = records]
      PROVE  /\ PcapsOK'
             /\ DOMAIN pcaps' = DOMAIN pcaps
             /\ \A t \in DOMAIN pcaps : t # pcapFile => pcaps'[t] = pcaps[t]
             /\ \A t \in DOMAIN pcaps : pcaps'[t].batch = pcaps[t].batch
             /\ \A b, q :
                  /\ q \in PacketsOf(b)' => q \in PacketsOf(b)
                  /\ q \in PacketsOf(b) /\ q # pcaps[pcapFile].records[Len(pcaps[pcapFile].records)] =>
                       q \in PacketsOf(b)'
  BY <1>0, <1>1, <1>2, <1>5, CutPcap
<1> QED BY <1>2, <1>3, <1>4, <1>5

\* Torn bytes at the end of the JSON file take no message from it.
LEMMA TornJSON ==
  ASSUME IInv, step = "message", jsons' \in {jsons, AppendItems(<<Torn>>)}
  PROVE  /\ JsonsOK'
         /\ DOMAIN jsons' = DOMAIN jsons
         /\ \A t \in DOMAIN jsons : t # jsonFile => jsons'[t] = jsons[t]
         /\ \A t \in DOMAIN jsons : jsons'[t].batch = jsons[t].batch
         /\ \A b, q : q \in MessagesOf(b)' <=> q \in MessagesOf(b)
<1>0. JsonsOK
  BY Parts DEF IInv
<1>1. jsonFile \in DOMAIN jsons /\ Torn \in Nat
  BY Writing DEF Torn
<1>2. CASE jsons' = jsons
  BY <1>0, <1>2 DEF JsonsOK, Batches, MessagesOf
<1>3. CASE jsons' = AppendItems(<<Torn>>)
  <2>1. jsons' = [jsons EXCEPT ![jsonFile].items = @ \o <<Torn>>]
    BY <1>3 DEF AppendItems
  <2>2. \A t \in DOMAIN jsons : t # jsonFile => jsons'[t] = jsons[t]
    BY <2>1
  <2> QED BY <1>0, <1>1, <2>1, <2>2, GrownJSON
<1> QED BY <1>2, <1>3

\* WriteMessage: the message has its packet, or both are taken back.
LEMMA MessageStep ==
  ASSUME IInv, WriteMessage
  PROVE  IInv'
<1>0. ControlOK /\ PcapsOK /\ JsonsOK
  BY Parts DEF IInv
<1>1. /\ step = "message"
      /\ UNCHANGED <<control, fileStem, pcapFile, jsonFile, clock, history>>
  BY DEF WriteMessage
<1>2. /\ packets \in Nat /\ packets # Torn
      /\ packets \in offered[batch]
      /\ pcapFile \in DOMAIN pcaps /\ pcaps[pcapFile].batch = batch
      /\ jsonFile \in DOMAIN jsons /\ jsons[jsonFile].batch = batch
  BY <1>1, Writing
<1>3. /\ pcaps[pcapFile].records # <<>>
      /\ pcaps[pcapFile].records[Len(pcaps[pcapFile].records)] = packets
      /\ \A b \in Batches : packets \notin MessagesOf(b)
  BY <1>1 DEF IInv, NotYetSent
<1>4. batch \in Batches
  BY <1>0 DEF ControlOK
<1>5. packets \in PacketsOf(batch)
  <2>1. pcaps[pcapFile].records \in Seq(Nat)
    BY <1>0, <1>2 DEF PcapsOK
  <2>2. Len(pcaps[pcapFile].records) \in DOMAIN pcaps[pcapFile].records
    BY <1>3, <2>1, EmptySeq
  <2>3. packets \in Whole(pcaps[pcapFile].records)
    BY <1>2, <1>3, <2>2 DEF Whole
  <2> QED BY <1>2, <2>3, InPacketsOf
<1>6. CASE MessageWritten
  <2>1. /\ jsons' = [jsons EXCEPT ![jsonFile].items = @ \o <<packets>>]
        /\ jsonStarted' = TRUE /\ messageCount' = messageCount + 1 /\ packetCount' = packetCount + 1
        /\ step' = "idle"
        /\ UNCHANGED <<pcaps, lastError, faultVars>>
    BY <1>6 DEF MessageWritten, AppendItems
  <2>2. /\ JsonsOK'
        /\ DOMAIN jsons' = DOMAIN jsons
        /\ \A t \in DOMAIN jsons : jsons'[t].batch = jsons[t].batch
        /\ \A b, q : q \in MessagesOf(b)' <=>
             q \in MessagesOf(b) \/ (q = packets /\ packets # Torn /\ b = jsons[jsonFile].batch)
    BY <1>0, <1>2, <2>1, GrownJSON
  <2>3. PcapsOK' /\ \A b : PacketsOf(b)' = PacketsOf(b)
    BY <1>0, <2>1 DEF PcapsOK, Batches, PacketsOf
  <2>4. ControlOK'
    BY <1>0, <1>1, <2>1, <2>2 DEF ControlOK, Batches, control, clock, history, faultVars
  <2>5. NamesAreOld' /\ OpenIsCurrent' /\ WriteIsActive'
    BY <1>1, <2>1, <2>2, SameFiles
  <2>6. OneBatchPerFile'
    <3>1. ASSUME NEW b \in Batches
          PROVE  PacketsOf(b)' \cup MessagesOf(b)' \subseteq offered'[b]
      BY <1>1, <1>2, <2>2, <2>3 DEF IInv, OneBatchPerFile, history
    <3> QED BY <3>1 DEF OneBatchPerFile, Batches
  <2>7. MessageHasPacket'
    <3>1. ASSUME NEW b \in Batches PROVE MessagesOf(b)' \subseteq PacketsOf(b)'
      BY <1>2, <1>5, <2>2, <2>3 DEF IInv, MessageHasPacket
    <3> QED BY <3>1 DEF MessageHasPacket, Batches
  <2>8. NotYetSent'
    BY <2>1 DEF NotYetSent
  <2> QED BY <2>2, <2>3, <2>4, <2>5, <2>6, <2>7, <2>8, Parts DEF IInv
<1>7. CASE MessageFails
  <2>1. /\ GiveUp
        /\ UNCHANGED <<jsonStarted, messageCount, packetCount>>
        /\ \E p, j \in {0, 1} : RollBackPcap(p) /\ RollBackJSON(j) /\ Fail(1 + p + j)
    BY <1>7 DEF MessageFails
  <2>2. PICK p \in {0, 1}, j \in {0, 1} : RollBackPcap(p) /\ RollBackJSON(j) /\ Fail(1 + p + j)
    BY <2>1
  <2>3. faults' \in Nat /\ damaged' \subseteq Batches /\ rollbackFailed' \in BOOLEAN
    <3>1. 1 + p + j \in Nat
      OBVIOUS
    <3> QED BY <1>0, <2>2, <3>1, Failed
  <2>5. /\ PcapsOK'
        /\ DOMAIN pcaps' = DOMAIN pcaps
        /\ \A t \in DOMAIN pcaps : pcaps'[t].batch = pcaps[t].batch
        /\ \A b, q : /\ q \in PacketsOf(b)' => q \in PacketsOf(b)
                     /\ q \in PacketsOf(b) /\ q # packets => q \in PacketsOf(b)'
    BY <1>1, <2>2, RolledBack
  <2>6. jsons' \in {jsons, AppendItems(<<Torn>>)}
    BY <2>2 DEF RollBackJSON
  <2>7. /\ JsonsOK'
        /\ DOMAIN jsons' = DOMAIN jsons
        /\ \A t \in DOMAIN jsons : jsons'[t].batch = jsons[t].batch
        /\ \A b, q : q \in MessagesOf(b)' <=> q \in MessagesOf(b)
    BY <1>1, <2>6, TornJSON
  <2>8. step' = "idle" /\ lastError' = TRUE
    BY <2>1 DEF GiveUp
  <2>9. ControlOK'
    BY <1>0, <1>1, <2>1, <2>3, <2>5, <2>7, <2>8 DEF ControlOK, Batches, control, clock, history
  <2>10. NamesAreOld' /\ OpenIsCurrent' /\ WriteIsActive'
    BY <1>1, <2>5, <2>7, <2>8, SameFiles
  <2>11. OneBatchPerFile'
    <3>1. ASSUME NEW b \in Batches
          PROVE  PacketsOf(b)' \cup MessagesOf(b)' \subseteq offered'[b]
      BY <1>1, <2>5, <2>7 DEF IInv, OneBatchPerFile, history
    <3> QED BY <3>1 DEF OneBatchPerFile, Batches
  <2>12. MessageHasPacket'
    <3>1. ASSUME NEW b \in Batches PROVE MessagesOf(b)' \subseteq PacketsOf(b)'
      BY <1>3, <2>5, <2>7 DEF IInv, MessageHasPacket
    <3> QED BY <3>1 DEF MessageHasPacket, Batches
  <2>13. NotYetSent'
    BY <2>8 DEF NotYetSent
  <2> QED BY <2>5, <2>7, <2>9, <2>10, <2>11, <2>12, <2>13, Parts DEF IInv
<1> QED BY <1>6, <1>7 DEF WriteMessage

-----------------------------------------------------------------------------
(* The process dies *)

\* What a death leaves: no file but the open ones is touched, a new one is of the
\* current batch, no message is lost, and no packet but the one being written.
LEMMA Killed ==
  ASSUME IInv, Kill
  PROVE  /\ PcapsOK' /\ JsonsOK'
         /\ nano' \in Nat /\ nano <= nano' /\ second' = second
         /\ \A t \in DOMAIN pcaps : t \in DOMAIN pcaps' /\ pcaps'[t].batch = pcaps[t].batch
         /\ \A t \in DOMAIN pcaps \ {pcapFile} : pcaps'[t] = pcaps[t]
         /\ \A t \in DOMAIN pcaps' \ DOMAIN pcaps : pcaps'[t].batch = batch /\ t[3] <= nano'
         /\ \A t \in DOMAIN jsons : t \in DOMAIN jsons' /\ jsons'[t].batch = jsons[t].batch
         /\ \A t \in DOMAIN jsons \ {jsonFile} : jsons'[t] = jsons[t]
         /\ \A t \in DOMAIN jsons' \ DOMAIN jsons : jsons'[t].batch = batch /\ t[3] <= nano'
         /\ \A b, q : q \in MessagesOf(b)' <=> q \in MessagesOf(b)
         /\ \A b, q : /\ q \in PacketsOf(b)' => q \in PacketsOf(b)
                      /\ q \in PacketsOf(b) /\ (step # "message" \/ q # packets) => q \in PacketsOf(b)'
<1>0. ControlOK /\ PcapsOK /\ JsonsOK
  BY Parts DEF IInv
<1>1. /\ batch \in Batches /\ nano \in Nat /\ Torn \in Nat
      /\ fileStem # NoStem => fileStem[3] <= nano
  BY <1>0 DEF ControlOK, Torn, IInv, NamesAreOld
<1>2. ASSUME pcaps' = pcaps
      PROVE  PcapsOK' /\ \A b : PacketsOf(b)' = PacketsOf(b)
  BY <1>0, <1>2 DEF PcapsOK, Batches, PacketsOf
<1>3. ASSUME jsons' = jsons
      PROVE  JsonsOK' /\ \A b : MessagesOf(b)' = MessagesOf(b)
  BY <1>0, <1>3 DEF JsonsOK, Batches, MessagesOf
<1>4. CASE DiesBetween
  BY <1>1, <1>2, <1>3, <1>4 DEF DiesBetween, disk, clock
<1>5. CASE DiesInPcapHeader
  <2>1. /\ pcaps' = Put(pcaps, FreeStem, [batch |-> batch, records |-> <<Torn>>])
        /\ nano' = NanoRead /\ jsons' = jsons /\ second' = second
        /\ step = "openPcap"
    BY <1>5 DEF DiesInPcapHeader
  <2>2. /\ FreeStem \in Stems /\ FreeStem \notin DOMAIN pcaps
        /\ nano' \in Nat /\ nano <= nano' /\ FreeStem[3] <= nano'
    BY <2>1, FreshStem
  <2>3. PICK new \in Stems : new = FreeStem
    BY <2>2
  <2>4. <<Torn>> \in {<<>>, <<Torn>>}
    OBVIOUS
  <2>5. new \notin DOMAIN pcaps /\ pcaps' = Put(pcaps, new, [batch |-> batch, records |-> <<Torn>>])
    BY <2>1, <2>2, <2>3
  <2>6. /\ PcapsOK'
        /\ DOMAIN pcaps' = DOMAIN pcaps \cup {new}
        /\ \A t \in DOMAIN pcaps : pcaps'[t] = pcaps[t]
        /\ pcaps'[new].batch = batch
        /\ \A b : PacketsOf(b)' = PacketsOf(b)
    BY <1>0, <1>1, <2>4, <2>5, NewPcap
  <2> QED BY <1>3, <2>1, <2>2, <2>3, <2>6
<1>6. CASE DiesInBracket
  <2> DEFINE file == [batch |-> batch, items |-> <<Torn>>, ended |-> FALSE]
  <2>1. /\ step = "openJSON" /\ fileStem \notin DOMAIN jsons
        /\ jsons' = Put(jsons, fileStem, file)
        /\ UNCHANGED <<pcaps, nano, second>>
    BY <1>6 DEF DiesInBracket, clock
  <2>2. fileStem \in Stems /\ fileStem[3] <= nano
    BY <1>1, <2>1, NoStemIsNone DEF IInv, WriteIsActive
  <2>3. <<Torn>> \in Seq(Nat) /\ Whole(<<Torn>>) = {}
    BY WholeOfNone
  <2>4. /\ file \in [batch : Batches, items : Seq(Nat), ended : BOOLEAN]
        /\ file.items = <<Torn>> /\ file.batch = batch
    BY <1>1, <2>3
  <2> HIDE DEF file
  <2>5. Whole(file.items) = {}
    BY <2>3, <2>4
  <2>6. /\ JsonsOK'
        /\ DOMAIN jsons' = DOMAIN jsons \cup {fileStem}
        /\ \A t \in DOMAIN jsons : jsons'[t] = jsons[t]
        /\ jsons'[fileStem] = file
        /\ \A b : MessagesOf(b)' = MessagesOf(b)
    BY <1>0, <2>1, <2>2, <2>4, <2>5, NewJSON
  <2> QED BY <1>1, <1>2, <2>1, <2>2, <2>4, <2>6
<1>7. CASE DiesInRecord
  <2>1. /\ step = "record" /\ pcaps' = [pcaps EXCEPT ![pcapFile].records = @ \o <<Torn>>]
        /\ UNCHANGED <<jsons, nano, second>>
    BY <1>7 DEF DiesInRecord, AppendRecords, clock
  <2>2. pcapFile \in DOMAIN pcaps
    BY <2>1, Writing
  <2>3. /\ PcapsOK'
        /\ DOMAIN pcaps' = DOMAIN pcaps
        /\ \A t \in DOMAIN pcaps : t # pcapFile => pcaps'[t] = pcaps[t]
        /\ \A t \in DOMAIN pcaps : pcaps'[t].batch = pcaps[t].batch
        /\ \A b, q : q \in PacketsOf(b)' <=>
             q \in PacketsOf(b) \/ (q = Torn /\ Torn # Torn /\ b = pcaps[pcapFile].batch)
    BY <1>0, <1>1, <2>1, <2>2, GrownPcap
  <2> QED BY <1>1, <1>3, <2>1, <2>3
<1>8. CASE DiesInMessage
  <2>1. /\ step = "message" /\ jsons' \in {jsons, AppendItems(<<Torn>>)}
        /\ UNCHANGED <<pcaps, nano, second>>
    BY <1>8 DEF DiesInMessage, clock
  <2> QED BY <1>1, <1>2, <2>1, TornJSON
<1>9. CASE DiesRollingBack
  <2>1. /\ step = "message" /\ jsons' \in {jsons, AppendItems(<<Torn>>)}
        /\ UNCHANGED <<nano, second>>
        /\ \E k \in {0, 1} : RollBackPcap(k)
    BY <1>9 DEF DiesRollingBack, clock
  <2> QED BY <1>1, <2>1, TornJSON, RolledBack
<1> QED BY <1>4, <1>5, <1>6, <1>7, <1>8, <1>9 DEF Kill

\* And what it damages.
LEMMA KilledBatch ==
  ASSUME ControlOK, Kill
  PROVE  /\ faults' \in Nat /\ rollbackFailed' \in BOOLEAN /\ (rollbackFailed => rollbackFailed')
         /\ damaged' = damaged \cup {batch}
         /\ pcapFile' = NoStem /\ jsonFile' = NoStem /\ jsonStarted' = FALSE
         /\ enabled' \in BOOLEAN /\ captureActive' = FALSE /\ filter' = NoFilter /\ fileStem' = NoStem
         /\ packetCount' = 0 /\ messageCount' = 0 /\ lastError' = FALSE /\ step' = "idle"
         /\ UNCHANGED history
<1>1. CASE DiesBetween \/ DiesInPcapHeader \/ DiesInBracket \/ DiesInRecord \/ DiesInMessage
  BY <1>1 DEF Kill, NewRecorder, DiesBetween, DiesInPcapHeader, DiesInBracket, DiesInRecord, DiesInMessage,
     Interrupted, ControlOK
<1>2. CASE DiesRollingBack
  BY <1>2 DEF Kill, NewRecorder, DiesRollingBack, Fail, ControlOK
<1> QED BY <1>1, <1>2 DEF Kill

\* The new process has no file open and the files are as good as they were: a packet
\* that was lost has no message.
LEMMA KillStep ==
  ASSUME IInv, Kill
  PROVE  IInv'
<1>0. ControlOK
  BY Parts DEF IInv
<1>1. /\ faults' \in Nat /\ rollbackFailed' \in BOOLEAN
      /\ damaged' = damaged \cup {batch}
      /\ pcapFile' = NoStem /\ jsonFile' = NoStem /\ jsonStarted' = FALSE
      /\ enabled' \in BOOLEAN /\ captureActive' = FALSE /\ filter' = NoFilter /\ fileStem' = NoStem
      /\ packetCount' = 0 /\ messageCount' = 0 /\ lastError' = FALSE /\ step' = "idle"
      /\ UNCHANGED history
  BY <1>0, KilledBatch
<1>2. /\ PcapsOK' /\ JsonsOK'
      /\ nano' \in Nat /\ nano <= nano' /\ second' = second
      /\ \A t \in DOMAIN pcaps' \ DOMAIN pcaps : t[3] <= nano'
      /\ \A t \in DOMAIN jsons' \ DOMAIN jsons : t[3] <= nano'
      /\ \A b, q : q \in MessagesOf(b)' <=> q \in MessagesOf(b)
      /\ \A b, q : /\ q \in PacketsOf(b)' => q \in PacketsOf(b)
                   /\ q \in PacketsOf(b) /\ (step # "message" \/ q # packets) => q \in PacketsOf(b)'
  BY Killed
<1>3. ControlOK'
  BY <1>0, <1>1, <1>2 DEF ControlOK, Batches, history
<1>4. NamesAreOld'
  <2>1. ASSUME NEW s \in DOMAIN pcaps' \cup DOMAIN jsons'
        PROVE  s[3] <= nano'
    <3>1. CASE s \in DOMAIN pcaps \cup DOMAIN jsons
      <4>1. s \in Stems /\ s # NoStem
        BY <3>1, NoStemIsNone, Parts DEF IInv, PcapsOK, JsonsOK
      <4>2. s[3] <= nano /\ s[3] \in Nat
        BY <3>1, <4>1, NewStems DEF IInv, NamesAreOld
      <4> QED BY <1>0, <1>2, <4>2 DEF ControlOK
    <3> QED BY <1>2, <2>1, <3>1
  <2> QED BY <1>1, <2>1 DEF NamesAreOld
<1>5. WriteIsActive' /\ OpenIsCurrent' /\ NotYetSent'
  BY <1>1 DEF WriteIsActive, OpenIsCurrent, NotYetSent
<1>6. OneBatchPerFile'
  <2>1. ASSUME NEW b \in Batches
        PROVE  PacketsOf(b)' \cup MessagesOf(b)' \subseteq offered'[b]
    BY <1>1, <1>2 DEF IInv, OneBatchPerFile, history
  <2> QED BY <2>1 DEF OneBatchPerFile, Batches
<1>7. MessageHasPacket'
  <2>1. ASSUME NEW b \in Batches PROVE MessagesOf(b)' \subseteq PacketsOf(b)'
    <3>1. ASSUME NEW q \in MessagesOf(b) PROVE q \in PacketsOf(b)'
      <4>1. step # "message" \/ q # packets
        BY <3>1 DEF IInv, NotYetSent
      <4> QED BY <1>2, <3>1, <4>1 DEF IInv, MessageHasPacket
    <3> QED BY <1>2, <3>1
  <2> QED BY <2>1 DEF MessageHasPacket, Batches
<1> QED BY <1>2, <1>3, <1>4, <1>5, <1>6, <1>7, Parts DEF IInv

-----------------------------------------------------------------------------
(* Theorems *)

\* A step of somebody else changes nothing here.
LEMMA Stutter ==
  ASSUME IInv, UNCHANGED vars
  PROVE  IInv'
<1> USE DEF vars, control, open, status, disk, clock, history, faultVars
<1>1. ControlOK /\ PcapsOK /\ JsonsOK
  BY Parts DEF IInv
<1>2. ControlOK' /\ PcapsOK' /\ JsonsOK'
  BY <1>1 DEF ControlOK, PcapsOK, JsonsOK, Batches
<1>3. /\ \A b : PacketsOf(b)' = PacketsOf(b)
      /\ \A b : MessagesOf(b)' = MessagesOf(b)
  BY DEF PacketsOf, MessagesOf
<1>4. NamesAreOld' /\ WriteIsActive' /\ OpenIsCurrent'
  BY DEF IInv, NamesAreOld, WriteIsActive, OpenIsCurrent
<1>5. OneBatchPerFile' /\ MessageHasPacket' /\ NotYetSent'
  BY <1>3 DEF IInv, OneBatchPerFile, MessageHasPacket, NotYetSent, Batches
<1> QED BY <1>2, <1>4, <1>5, Parts DEF IInv

\* A step keeps the inductive invariant.
LEMMA StepHolds == IInv /\ [Next]_vars => IInv'
<1> SUFFICES ASSUME IInv, [Next]_vars PROVE IInv'
  OBVIOUS
<1>1. CASE Next
  BY <1>1, RequestStep, WriteStarts, MkdirFailing, OpenPcapStep, OpenJSONStep,
     RecordStep, MessageStep, KillStep DEF Next
<1> QED BY <1>1, Stutter

\* The inductive invariant of the recorder holds in every reachable state: the
\* code's names never repeat, and what is being written is consistent, through
\* failing operations (recorder.go:159-213) and restarts.
THEOREM Invariance == Spec => []IInv
BY InitIInv, StepHolds, PTL DEF Spec

\* No file ever holds a packet of another batch than its own (README.md:34, 68).
THEOREM FilesKeepToTheirBatch == Spec => []OneBatchPerFile
<1>1. IInv => OneBatchPerFile
  BY DEF IInv
<1> QED BY <1>1, Invariance, PTL

\* A message on disk always has its packet on disk, in a file of the same batch,
\* even if the process dies between the two writes (recorder.go:188-208).
THEOREM MessagesHavePackets == Spec => []MessageHasPacket
<1>1. IInv => MessageHasPacket
  BY DEF IInv
<1> QED BY <1>1, Invariance, PTL

\* No step writes to a file that is not open, so no earlier recording is ever
\* overwritten (recorder.go:221-231).
LEMMA Frozen ==
  ASSUME IInv, Next
  PROVE  /\ \A s \in DOMAIN pcaps \ {pcapFile} : s \in DOMAIN pcaps' /\ pcaps'[s] = pcaps[s]
         /\ \A s \in DOMAIN jsons \ {jsonFile} : s \in DOMAIN jsons' /\ jsons'[s] = jsons[s]
<1>0. CASE Kill
  BY <1>0, Killed
<1>1. CASE SecondPasses \/ Enable \/ WriteStart \/ MkdirFails
  BY <1>1 DEF SecondPasses, Enable, WriteStart, MkdirFails, disk
<1>2. CASE Disable \/ EndCapture \/ Stop \/ \E f \in Filters : BeginCapture(f)
  <2>1. pcaps' = pcaps /\ \E failed \in BOOLEAN : CloseLocked(failed)
    BY <1>2 DEF Disable, EndCapture, Stop, NewRecorder, BeginCapture
  <2>2. PICK failed \in BOOLEAN : CloseLocked(failed)
    BY <2>1
  <2>3. /\ DOMAIN jsons' = DOMAIN jsons
        /\ \A t \in DOMAIN jsons : t # jsonFile => jsons'[t] = jsons[t]
    BY <2>2, Closed DEF IInv
  <2> QED BY <2>1, <2>3
<1>3. CASE OpenPcap
  <2>1. jsons' = jsons
    BY <1>3 DEF OpenPcap
  <2> QED BY <1>3, <2>1, PcapOpens
<1>4. CASE OpenJSON
  <2>1. pcaps' = pcaps
    BY <1>4 DEF OpenJSON
  <2> QED BY <1>4, <2>1, JSONOpens
<1>5. CASE WriteRecord
  <2>1. jsons' = jsons
    BY <1>5 DEF WriteRecord
  <2>2. \/ pcaps' = pcaps
        \/ pcaps' = AppendRecords(<<packets>>)
        \/ pcaps' = AppendRecords(<<Torn>>)
    BY <1>5 DEF WriteRecord, RecordWritten, SeekFails, RecordTorn
  <2> QED BY <2>1, <2>2 DEF AppendRecords
<1>6. CASE WriteMessage
  <2>1. \/ pcaps' = pcaps
        \/ pcaps' = [pcaps EXCEPT ![pcapFile].records = DropLast(@)]
        \/ pcaps' = [pcaps EXCEPT ![pcapFile].records = Append(DropLast(@), Torn)]
    BY <1>6 DEF WriteMessage, MessageWritten, MessageFails, RollBackPcap
  <2>2. \/ jsons' = jsons
        \/ jsons' = AppendItems(<<packets>>)
        \/ jsons' = AppendItems(<<Torn>>)
    BY <1>6 DEF WriteMessage, MessageWritten, MessageFails, RollBackJSON
  <2>3. \A s \in DOMAIN pcaps \ {pcapFile} : s \in DOMAIN pcaps' /\ pcaps'[s] = pcaps[s]
    BY <2>1
  <2>4. \A s \in DOMAIN jsons \ {jsonFile} : s \in DOMAIN jsons' /\ jsons'[s] = jsons[s]
    BY <2>2 DEF AppendItems
  <2> QED BY <2>3, <2>4
<1> QED BY <1>0, <1>1, <1>2, <1>3, <1>4, <1>5, <1>6 DEF Next

\* The recorder and its files keep to their kinds: an open file is one of the
\* directory, and nothing is written to a name that was never opened.
THEOREM TypeCorrect == Spec => []TypeOK
<1>1. IInv => TypeOK
  BY DEF IInv
<1> QED BY <1>1, Invariance, PTL

\* No earlier recording is ever overwritten, by a restart in its directory, a
\* filter repeated within a second or one with the same sanitised name.
THEOREM RecordingsAreSafe == Spec => ClosedFilesAreFrozen
<1>1. IInv /\ [Next]_vars =>
        [/\ \A s \in DOMAIN pcaps \ {pcapFile} : s \in DOMAIN pcaps' /\ pcaps'[s] = pcaps[s]
         /\ \A s \in DOMAIN jsons \ {jsonFile} : s \in DOMAIN jsons' /\ jsons'[s] = jsons[s]]_vars
  BY Frozen
<1> QED BY <1>1, Invariance, PTL DEF Spec, ClosedFilesAreFrozen

-----------------------------------------------------------------------------
(* Complete batches *)

\* The packet of a Write that runs, while it is in no capture file, or in no JSON file.
Unrecorded(b) == IF step \in {"openPcap", "openJSON", "record"} /\ b = batch THEN {packets} ELSE {}
Unsent(b) == IF step # "idle" /\ b = batch THEN {packets} ELSE {}

\* A batch in which nothing failed lacks only that packet, and only the open JSON file
\* is not yet a complete array.
Completeness ==
  \A b \in Batches \ damaged :
    /\ PacketsOf(b) = offered[b] \ Unrecorded(b)
    /\ MessagesOf(b) = offered[b] \ Unsent(b)
    /\ \A s \in DOMAIN jsons : jsons[s].batch = b => (jsons[s].ended <=> jsonFile # s)

\* No packet and no file is of a batch to come.
NoneIsAhead ==
  /\ \A b \in Batches : b > batch => offered[b] = {}
  /\ \A s \in DOMAIN jsons : jsons[s].batch <= batch

\* The name of the open capture file is free for its JSON file, until something fails;
\* the JSON file is opened when there is none.
NameIsFree ==
  /\ pcapFile # NoStem /\ jsonFile = NoStem => fileStem \notin DOMAIN jsons \/ batch \in damaged
  /\ step = "openJSON" => jsonFile = NoStem

CompleteInv == Completeness /\ NoneIsAhead /\ NameIsFree

\* Closing the files changes no batch and no entry, and ends the array unless it fails.
LEMMA BracketWritten ==
  ASSUME TypeOK, NEW failed \in BOOLEAN, CloseLocked(failed)
  PROVE  /\ \A t \in DOMAIN jsons : jsons'[t].batch = jsons[t].batch /\ jsons'[t].items = jsons[t].items
         /\ failed => damaged' = damaged \cup {batch}
         /\ ~failed => /\ UNCHANGED faultVars
                       /\ \A t \in DOMAIN jsons : jsons'[t].ended <=> t = jsonFile \/ jsons[t].ended
<1>1. \A t \in DOMAIN jsons : jsons[t] \in [batch : Batches, items : Seq(Nat), ended : BOOLEAN]
  BY DEF TypeOK
<1>2. PICK ended \in IF failed THEN BOOLEAN ELSE {TRUE} :
        jsons' = IF jsonFile = NoStem THEN jsons ELSE [jsons EXCEPT ![jsonFile].ended = ended]
  BY DEF CloseLocked
<1>3. (failed => damaged' = damaged \cup {batch}) /\ (~failed => UNCHANGED faultVars)
  BY DEF CloseLocked, Fail
<1>4. CASE jsonFile = NoStem
  <2>1. jsons' = jsons /\ \A t \in DOMAIN jsons : t # jsonFile
    BY <1>2, <1>4, NoStemIsNone DEF TypeOK
  <2> QED BY <1>3, <2>1
<1>5. CASE jsonFile # NoStem
  <2>1. \A t \in DOMAIN jsons : t # jsonFile => jsons'[t] = jsons[t]
    BY <1>2, <1>5
  <2>2. jsonFile \in DOMAIN jsons => jsons'[jsonFile] = [jsons[jsonFile] EXCEPT !.ended = ended]
    BY <1>2, <1>5
  <2>3. jsonFile \in DOMAIN jsons =>
          /\ jsons'[jsonFile].batch = jsons[jsonFile].batch
          /\ jsons'[jsonFile].items = jsons[jsonFile].items
          /\ jsons'[jsonFile].ended = ended
    BY <1>1, <2>2
  <2>4. ~failed => ended = TRUE
    BY <1>2
  <2> QED BY <1>3, <2>1, <2>3, <2>4
<1> QED BY <1>4, <1>5

\* The steps that close the files.
Closes ==
  \/ Disable \/ EndCapture \/ Stop \/ \E f \in Filters : BeginCapture(f)

\* Files keep their batch, and a new one is of the current batch.
LEMMA BatchesKept ==
  ASSUME IInv, Next
  PROVE  /\ \A s \in DOMAIN pcaps : s \in DOMAIN pcaps' /\ pcaps'[s].batch = pcaps[s].batch
         /\ \A s \in DOMAIN pcaps' \ DOMAIN pcaps : pcaps'[s].batch = batch
         /\ \A s \in DOMAIN jsons : s \in DOMAIN jsons' /\ jsons'[s].batch = jsons[s].batch
         /\ \A s \in DOMAIN jsons' \ DOMAIN jsons : jsons'[s].batch = batch
<1>0. ControlOK /\ PcapsOK /\ JsonsOK
  BY Parts DEF IInv
<1>k. CASE Kill
  BY <1>k, Killed
<1>1. CASE SecondPasses \/ Enable \/ WriteStart \/ MkdirFails
  BY <1>1 DEF SecondPasses, Enable, WriteStart, MkdirFails, disk
<1>2. CASE Closes
  <2>1. pcaps' = pcaps /\ \E failed \in BOOLEAN : CloseLocked(failed)
    BY <1>2 DEF Closes, Disable, EndCapture, Stop, NewRecorder, BeginCapture
  <2> QED BY <2>1, Closed, BracketWritten DEF IInv
<1>3. CASE OpenPcap
  <2>1. jsons' = jsons
    BY <1>3 DEF OpenPcap
  <2>2. \/ pcaps' = pcaps
        \/ \E records \in {<<>>, <<Torn>>} : pcaps' = Put(pcaps, fileStem', [batch |-> batch, records |-> records])
    BY <1>3 DEF OpenPcap
  <2>3. fileStem' \notin DOMAIN pcaps
    BY <1>3, PcapOpens
  <2> QED BY <2>1, <2>2, <2>3 DEF Put
<1>4. CASE OpenJSON
  <2>1. pcaps' = pcaps
    BY <1>4 DEF OpenJSON
  <2>2. \/ jsons' = jsons
        \/ /\ fileStem \notin DOMAIN jsons
           /\ \E items \in {<<>>, <<Torn>>} :
                jsons' = Put(jsons, fileStem, [batch |-> batch, items |-> items, ended |-> FALSE])
    BY <1>4 DEF OpenJSON
  <2> QED BY <2>1, <2>2 DEF Put
<1>5. CASE WriteRecord
  <2>1. jsons' = jsons
    BY <1>5 DEF WriteRecord
  <2>2. pcapFile \in DOMAIN pcaps
    BY <1>5, Writing DEF WriteRecord
  <2>3. \/ pcaps' = pcaps
        \/ \E entries : pcaps' = [pcaps EXCEPT ![pcapFile].records = entries]
    BY <1>5 DEF WriteRecord, RecordWritten, SeekFails, RecordTorn, AppendRecords
  <2> QED BY <1>0, <2>1, <2>2, <2>3 DEF PcapsOK
<1>6. CASE WriteMessage
  <2>1. pcapFile \in DOMAIN pcaps /\ jsonFile \in DOMAIN jsons
    BY <1>6, Writing DEF WriteMessage
  <2>2. \/ pcaps' = pcaps
        \/ \E entries : pcaps' = [pcaps EXCEPT ![pcapFile].records = entries]
    BY <1>6 DEF WriteMessage, MessageWritten, MessageFails, RollBackPcap
  <2>3. \/ jsons' = jsons
        \/ \E entries : jsons' = [jsons EXCEPT ![jsonFile].items = entries]
    BY <1>6 DEF WriteMessage, MessageWritten, MessageFails, RollBackJSON, AppendItems
  <2>4. \A s \in DOMAIN pcaps : s \in DOMAIN pcaps' /\ pcaps'[s].batch = pcaps[s].batch
    BY <1>0, <2>1, <2>2 DEF PcapsOK
  <2>5. \A s \in DOMAIN jsons : s \in DOMAIN jsons' /\ jsons'[s].batch = jsons[s].batch
    BY <1>0, <2>1, <2>3 DEF JsonsOK
  <2> QED BY <2>2, <2>3, <2>4, <2>5
<1> QED BY <1>k, <1>1, <1>2, <1>3, <1>4, <1>5, <1>6 DEF Next, Closes

\* A step concerns the current batch alone.
LEMMA OtherBatches ==
  ASSUME IInv, Next, NEW b \in Batches, b # batch
  PROVE  /\ PacketsOf(b)' = PacketsOf(b)
         /\ MessagesOf(b)' = MessagesOf(b)
         /\ \A s \in DOMAIN jsons' : jsons'[s].batch = b => s \in DOMAIN jsons /\ s # jsonFile /\ jsons'[s] = jsons[s]
<1>0. ControlOK
  BY Parts DEF IInv
<1>1. /\ \A s \in DOMAIN pcaps : s \in DOMAIN pcaps' /\ pcaps'[s].batch = pcaps[s].batch
      /\ \A s \in DOMAIN pcaps' \ DOMAIN pcaps : pcaps'[s].batch = batch
      /\ \A s \in DOMAIN jsons : s \in DOMAIN jsons' /\ jsons'[s].batch = jsons[s].batch
      /\ \A s \in DOMAIN jsons' \ DOMAIN jsons : jsons'[s].batch = batch
  BY BatchesKept
<1>2. /\ \A s \in DOMAIN pcaps \ {pcapFile} : pcaps'[s] = pcaps[s]
      /\ \A s \in DOMAIN jsons \ {jsonFile} : jsons'[s] = jsons[s]
  BY Frozen
<1>3. /\ \A s \in DOMAIN pcaps : pcaps[s].batch = b => s # pcapFile
      /\ \A s \in DOMAIN jsons : jsons[s].batch = b => s # jsonFile
  BY NoStemIsNone, Parts DEF IInv, OpenIsCurrent, PcapsOK, JsonsOK
<1>4. ASSUME NEW p PROVE p \in PacketsOf(b)' <=> p \in PacketsOf(b)
  BY <1>1, <1>2, <1>3, InPacketsOf
<1>5. ASSUME NEW p PROVE p \in MessagesOf(b)' <=> p \in MessagesOf(b)
  BY <1>1, <1>2, <1>3, InMessagesOf
<1> QED BY <1>1, <1>2, <1>3, <1>4, <1>5

\* What a step can do to the batches: packets are offered to the current one, and
\* the next one begins with its files closed.
LEMMA BatchSteps ==
  ASSUME IInv, Next
  PROVE  /\ damaged \subseteq damaged'
         /\ \A b \in Batches \ {batch} : offered'[b] = offered[b]
         /\ \/ batch' = batch
            \/ batch' = batch + 1 /\ offered' = offered /\ step' = "idle" /\ jsonFile' = NoStem
<1>0. ControlOK
  BY Parts DEF IInv
<1>1. CASE Closes
  <2>1. \E failed \in BOOLEAN : CloseLocked(failed)
    BY <1>1 DEF Closes, Disable, EndCapture, Stop, BeginCapture
  <2>2. damaged \subseteq damaged' /\ jsonFile' = NoStem
    BY <2>1 DEF CloseLocked, Fail, faultVars
  <2>3. offered' = offered /\ step' = "idle" /\ batch' \in {batch, batch + 1}
    BY <1>1 DEF Closes, Disable, EndCapture, Stop, NewRecorder, BeginCapture, history
  <2> QED BY <2>2, <2>3
<1>2. CASE WriteStart
  BY <1>0, <1>2 DEF WriteStart, faultVars, ControlOK
<1>k. CASE Kill
  BY <1>0, <1>k, KilledBatch DEF history
<1>3. CASE SecondPasses \/ Enable \/ MkdirFails
  BY <1>3 DEF SecondPasses, Enable, MkdirFails, history, faultVars, Fail
<1>4. CASE OpenPcap \/ OpenJSON
  BY <1>4 DEF OpenPcap, OpenJSON, history, faultVars, Fail
<1>5. CASE WriteRecord \/ WriteMessage
  BY <1>5 DEF WriteRecord, RecordWritten, SeekFails, RecordTorn, WriteMessage, MessageWritten, MessageFails,
     history, faultVars, Fail
<1> QED BY <1>k, <1>1, <1>2, <1>3, <1>4, <1>5 DEF Next, Closes

\* Batches that are over stay complete, and one to come is.
LEMMA OthersComplete ==
  ASSUME IInv, IInv', CompleteInv, Next, NEW b \in Batches \ damaged', b # batch
  PROVE  /\ PacketsOf(b)' = (offered[b] \ Unrecorded(b))'
         /\ MessagesOf(b)' = (offered[b] \ Unsent(b))'
         /\ \A s \in DOMAIN jsons' : jsons'[s].batch = b => (jsons'[s].ended <=> jsonFile' # s)
<1>1. /\ damaged \subseteq damaged'
      /\ offered'[b] = offered[b]
      /\ \/ batch' = batch
         \/ batch' = batch + 1 /\ offered' = offered /\ step' = "idle" /\ jsonFile' = NoStem
  BY BatchSteps
<1>2. /\ PacketsOf(b)' = PacketsOf(b)
      /\ MessagesOf(b)' = MessagesOf(b)
      /\ \A s \in DOMAIN jsons' : jsons'[s].batch = b => s \in DOMAIN jsons /\ s # jsonFile /\ jsons'[s] = jsons[s]
  BY OtherBatches
<1>3. /\ PacketsOf(b) = offered[b] /\ MessagesOf(b) = offered[b]
      /\ \A s \in DOMAIN jsons : jsons[s].batch = b => (jsons[s].ended <=> jsonFile # s)
  BY <1>1 DEF CompleteInv, Completeness, Unrecorded, Unsent
<1>4. Unrecorded(b)' = {} /\ Unsent(b)' = {}
  BY <1>1 DEF Unrecorded, Unsent
<1>5. \A s \in DOMAIN jsons' : jsons'[s].batch = b => jsonFile' # s
  <2>1. \A s \in DOMAIN jsons' : s # NoStem
    BY NoStemIsNone, Parts DEF IInv, JsonsOK
  <2>2. jsonFile' # NoStem => jsons'[jsonFile'].batch = batch'
    BY DEF IInv, OpenIsCurrent
  <2> QED BY <1>1, <2>1, <2>2
<1> QED BY <1>1, <1>2, <1>3, <1>4, <1>5

\* The files of the current batch, when the step closes them without a failure.
LEMMA ClosesComplete ==
  ASSUME IInv, CompleteInv, Closes, NEW b \in Batches \ damaged', b = batch
  PROVE  /\ PacketsOf(b)' = offered'[b] /\ MessagesOf(b)' = offered'[b] /\ step' = "idle"
         /\ jsonFile' = NoStem /\ pcapFile' = NoStem
         /\ \A s \in DOMAIN jsons' : jsons'[s].batch = b => jsons'[s].ended /\ s # NoStem
<1>1. /\ step = "idle" /\ step' = "idle" /\ UNCHANGED <<pcaps, offered>>
      /\ \E failed \in BOOLEAN : CloseLocked(failed)
  BY DEF Closes, Disable, EndCapture, Stop, NewRecorder, BeginCapture, history
<1>2. CloseLocked(FALSE)
  BY <1>1 DEF CloseLocked, Fail
<1>3. /\ jsonFile' = NoStem /\ pcapFile' = NoStem /\ DOMAIN jsons' = DOMAIN jsons
      /\ MessagesOf(b)' = MessagesOf(b)
      /\ \A t \in DOMAIN jsons : jsons'[t].batch = jsons[t].batch
      /\ \A t \in DOMAIN jsons : jsons'[t].ended <=> t = jsonFile \/ jsons[t].ended
      /\ damaged' = damaged
  BY <1>2, Closed, BracketWritten DEF IInv, faultVars
<1>4. PacketsOf(b)' = PacketsOf(b)
  BY <1>1 DEF PacketsOf
<1>5. /\ PacketsOf(b) = offered[b] /\ MessagesOf(b) = offered[b]
      /\ \A s \in DOMAIN jsons : jsons[s].batch = b => (jsons[s].ended <=> jsonFile # s)
  BY <1>1, <1>3 DEF CompleteInv, Completeness, Unrecorded, Unsent
<1>6. \A s \in DOMAIN jsons : s # NoStem
  BY NoStemIsNone, Parts DEF IInv, JsonsOK
<1> QED BY <1>1, <1>3, <1>4, <1>5, <1>6

\* A batch is the current one before and after a step.
StaysCurrent(b) == batch = b /\ batch' = b

\* The current batch, through the steps that write.
LEMMA CurrentComplete ==
  ASSUME IInv, CompleteInv, Next, NEW b \in Batches \ damaged', StaysCurrent(b)
  PROVE  /\ PacketsOf(b)' = (offered[b] \ Unrecorded(b))'
         /\ MessagesOf(b)' = (offered[b] \ Unsent(b))'
         /\ \A s \in DOMAIN jsons' : jsons'[s].batch = b => (jsons'[s].ended <=> jsonFile' # s)
<1>0. ControlOK /\ PcapsOK /\ JsonsOK
  BY Parts DEF IInv
<1>b. batch = b /\ batch' = b
  BY DEF StaysCurrent
<1>1. b \notin damaged
  BY BatchSteps
<1>2. /\ PacketsOf(b) = offered[b] \ Unrecorded(b)
      /\ MessagesOf(b) = offered[b] \ Unsent(b)
      /\ \A s \in DOMAIN jsons : jsons[s].batch = b => (jsons[s].ended <=> jsonFile # s)
  BY <1>b, <1>1 DEF CompleteInv, Completeness
<1>3. CASE Closes
  BY <1>b, <1>3, ClosesComplete DEF Unrecorded, Unsent
<1>4. CASE SecondPasses \/ Enable
  <2>1. UNCHANGED <<pcaps, jsons, jsonFile, step, packets, offered>>
    BY <1>b, <1>4 DEF SecondPasses, Enable, open, disk, history
  <2> QED BY <1>b, <1>2, <2>1 DEF PacketsOf, MessagesOf, Unrecorded, Unsent
<1>5. ASSUME MkdirFails \/ Kill PROVE FALSE
  BY <1>b, <1>0, <1>5, KilledBatch DEF MkdirFails, Fail
<1>6. CASE WriteStart
  <2>1. /\ step = "idle" /\ step' \in {"openPcap", "openJSON", "record"}
        /\ packets' = packets + 1 /\ offered' = [offered EXCEPT ![batch] = @ \cup {packets + 1}]
        /\ UNCHANGED <<pcaps, jsons, jsonFile>>
    BY <1>b, <1>6 DEF WriteStart, NextStep, disk, open
  <2>2. PacketsOf(b)' = PacketsOf(b) /\ MessagesOf(b)' = MessagesOf(b)
    BY <1>b, <2>1 DEF PacketsOf, MessagesOf
  <2>3. offered[b] \subseteq 1 .. packets /\ packets \in Nat
    BY <1>b, <1>0 DEF ControlOK
  <2>4. offered'[b] \ {packets'} = offered[b]
    BY <1>b, <1>0, <2>1, <2>3 DEF ControlOK
  <2> QED BY <1>b, <1>2, <2>1, <2>2, <2>4 DEF Unrecorded, Unsent
<1>7. CASE OpenPcap
  <2>1. /\ step = "openPcap" /\ UNCHANGED <<jsons, jsonFile, packets, offered>>
        /\ PacketsOf(b)' = PacketsOf(b)
        /\ step' = NextStep(fileStem', jsonFile) /\ fileStem' \in Stems
    BY <1>b, <1>7, PcapOpens DEF OpenPcap, Fail, history
  <2>2. step' \in {"openJSON", "record"}
    BY <1>b, <2>1, NoStemIsNone DEF NextStep
  <2> QED BY <1>b, <1>2, <2>1, <2>2 DEF MessagesOf, Unrecorded, Unsent
<1>8. CASE OpenJSON
  <2>1. step = "openJSON" /\ pcapFile # NoStem /\ jsonFile = NoStem /\ UNCHANGED <<pcaps, packets, offered>>
    BY <1>b, <1>8 DEF OpenJSON, IInv, WriteIsActive, CompleteInv, NameIsFree, history
  <2>2. MessagesOf(b)' = MessagesOf(b)
    BY <1>b, <1>8, JSONOpens
  <2>3. fileStem \notin DOMAIN jsons
    BY <1>b, <1>1, <2>1 DEF CompleteInv, NameIsFree
  <2>4. /\ jsons' = Put(jsons, fileStem, [batch |-> batch, items |-> <<>>, ended |-> FALSE])
        /\ jsonFile' = fileStem /\ step' = "record"
    BY <1>b, <1>8, <2>3 DEF OpenJSON, Fail
  <2>5. /\ DOMAIN jsons' = DOMAIN jsons \cup {fileStem}
        /\ \A s \in DOMAIN jsons : jsons'[s] = jsons[s]
        /\ jsons'[fileStem].ended = FALSE
    BY <1>b, <2>3, <2>4 DEF Put
  <2>6. \A s \in DOMAIN jsons : s # NoStem
    BY <1>b, <1>0, NoStemIsNone DEF JsonsOK
  <2>7. PacketsOf(b)' = PacketsOf(b) /\ Unrecorded(b)' = Unrecorded(b) /\ Unsent(b)' = Unsent(b)
    BY <1>b, <2>1, <2>4 DEF PacketsOf, Unrecorded, Unsent
  <2>8. \A s \in DOMAIN jsons' : jsons'[s].batch = b => (jsons'[s].ended <=> jsonFile' # s)
    BY <1>b, <1>2, <2>1, <2>3, <2>4, <2>5, <2>6
  <2> QED BY <1>b, <1>2, <2>1, <2>2, <2>7, <2>8
<1>9. CASE WriteRecord
  <2>1. /\ step = "record" /\ RecordWritten /\ UNCHANGED <<jsons, jsonFile, packets, offered>>
    BY <1>b, <1>9 DEF WriteRecord, SeekFails, RecordTorn, Fail, history
  <2>2. /\ packets \in Nat /\ packets # Torn /\ packets \in offered[b]
        /\ pcapFile \in DOMAIN pcaps /\ pcaps[pcapFile].batch = batch
    BY <1>b, <2>1, Writing
  <2>3. pcaps' = [pcaps EXCEPT ![pcapFile].records = @ \o <<packets>>] /\ step' = "message"
    BY <1>b, <2>1 DEF RecordWritten, AppendRecords
  <2>4. \A c, q : q \in PacketsOf(c)' <=>
          q \in PacketsOf(c) \/ (q = packets /\ packets # Torn /\ c = pcaps[pcapFile].batch)
    BY <1>b, <1>0, <2>2, <2>3, GrownPcap
  <2>b. pcaps[pcapFile].batch = b
    BY <1>b, <2>2
  <2>5. \A q : q \in PacketsOf(b)' <=> q \in PacketsOf(b) \/ q = packets
    BY <2>2, <2>4, <2>b
  <2>6. MessagesOf(b)' = MessagesOf(b)
    BY <1>b, <2>1 DEF MessagesOf
  <2>7. Unrecorded(b) = {packets} /\ Unrecorded(b)' = {} /\ Unsent(b) = {packets} /\ Unsent(b)' = {packets}
    BY <1>b, <2>1, <2>3 DEF Unrecorded, Unsent
  <2> QED BY <1>b, <1>2, <2>1, <2>2, <2>5, <2>6, <2>7
<1>10. CASE WriteMessage
  <2>1. step = "message" /\ MessageWritten /\ UNCHANGED <<jsonFile, packets, offered>>
    BY <1>b, <1>10 DEF WriteMessage, MessageFails, Fail, history
  <2>2. /\ packets \in Nat /\ packets # Torn /\ packets \in offered[b]
        /\ jsonFile \in DOMAIN jsons /\ jsons[jsonFile].batch = batch
    BY <1>b, <2>1, Writing
  <2>3. jsons' = [jsons EXCEPT ![jsonFile].items = @ \o <<packets>>] /\ step' = "idle" /\ pcaps' = pcaps
    BY <1>b, <2>1 DEF MessageWritten, AppendItems
  <2>4. /\ DOMAIN jsons' = DOMAIN jsons
        /\ \A t \in DOMAIN jsons : jsons'[t].batch = jsons[t].batch
        /\ \A c, q : q \in MessagesOf(c)' <=>
             q \in MessagesOf(c) \/ (q = packets /\ packets # Torn /\ c = jsons[jsonFile].batch)
    BY <1>b, <1>0, <2>2, <2>3, GrownJSON
  <2>b. jsons[jsonFile].batch = b
    BY <1>b, <2>2
  <2>5. \A q : q \in MessagesOf(b)' <=> q \in MessagesOf(b) \/ q = packets
    BY <2>2, <2>4, <2>b
  <2>6. PacketsOf(b)' = PacketsOf(b)
    BY <1>b, <2>3 DEF PacketsOf
  <2>7. Unrecorded(b) = {} /\ Unrecorded(b)' = {} /\ Unsent(b) = {packets} /\ Unsent(b)' = {}
    BY <1>b, <2>1, <2>3 DEF Unrecorded, Unsent
  <2>8. \A s \in DOMAIN jsons : jsons'[s].ended = jsons[s].ended
    BY <1>b, <1>0, <2>2, <2>3 DEF JsonsOK
  <2> QED BY <1>b, <1>2, <2>1, <2>2, <2>4, <2>5, <2>6, <2>7, <2>8
<1> QED BY <1>b, <1>3, <1>4, <1>5, <1>6, <1>7, <1>8, <1>9, <1>10 DEF Next, Closes

\* Numbers of batches grow with the batches.
LEMMA AheadStep ==
  ASSUME IInv, CompleteInv, Next
  PROVE  NoneIsAhead'
<1>0. ControlOK /\ JsonsOK
  BY Parts DEF IInv
<1>1. /\ \A b \in Batches \ {batch} : offered'[b] = offered[b]
      /\ batch' \in {batch, batch + 1} /\ batch \in Nat
  BY <1>0, BatchSteps DEF ControlOK, Batches
<1>2. ASSUME NEW b \in Batches, b > batch' PROVE offered'[b] = {}
  <2>1. b > batch /\ b # batch
    BY <1>1, <1>2 DEF Batches
  <2> QED BY <1>1, <2>1 DEF CompleteInv, NoneIsAhead
<1>3. ASSUME NEW s \in DOMAIN jsons' PROVE jsons'[s].batch <= batch'
  <2>1. jsons'[s].batch = batch \/ (s \in DOMAIN jsons /\ jsons'[s].batch = jsons[s].batch)
    BY BatchesKept
  <2>2. s \in DOMAIN jsons => jsons[s].batch <= batch /\ jsons[s].batch \in Nat
    BY <1>0 DEF CompleteInv, NoneIsAhead, JsonsOK, Batches
  <2> QED BY <1>1, <2>1, <2>2
<1> QED BY <1>2, <1>3 DEF NoneIsAhead, Batches

\* The name of a capture file that is opened is free, and is taken by its JSON file
\* or by a failure.
LEMMA NameStep ==
  ASSUME IInv, CompleteInv, Next
  PROVE  NameIsFree'
<1>1. CASE Closes \/ Kill
  BY <1>1 DEF Closes, Disable, EndCapture, Stop, NewRecorder, BeginCapture, CloseLocked, Kill, NameIsFree
<1>2. CASE SecondPasses \/ Enable \/ WriteStart
  BY <1>2 DEF SecondPasses, Enable, WriteStart, NextStep, open, disk, history, faultVars, CompleteInv, NameIsFree
<1>3. CASE MkdirFails
  BY <1>3 DEF MkdirFails, GiveUp, Fail, open, disk, history, CompleteInv, NameIsFree
<1>4. CASE OpenPcap
  <2>1. fileStem' \notin DOMAIN jsons /\ jsons' = jsons /\ jsonFile' = jsonFile
        /\ (step' = "idle" \/ step' = NextStep(fileStem', jsonFile))
    BY <1>4, Chosen DEF OpenPcap, GiveUp
  <2> QED BY <2>1 DEF NameIsFree, NextStep
<1>5. CASE OpenJSON
  <2>1. UNCHANGED <<fileStem, pcapFile, batch>> /\ fileStem \in Stems /\ step' \in {"idle", "record"}
    BY <1>5, JSONOpens DEF OpenJSON, GiveUp, history
  <2>2. \/ jsons' = jsons /\ jsonFile' = jsonFile /\ damaged' = damaged
        \/ jsonFile' = fileStem
        \/ damaged' = damaged \cup {batch}
    BY <1>5 DEF OpenJSON, Fail, faultVars
  <2> QED BY <2>1, <2>2, NoStemIsNone DEF CompleteInv, NameIsFree
<1>6. CASE WriteRecord
  BY <1>6 DEF WriteRecord, RecordWritten, SeekFails, RecordTorn, GiveUp, Fail, history, faultVars, CompleteInv, NameIsFree
<1>7. CASE WriteMessage
  <2>1. jsonFile # NoStem /\ jsonFile' = jsonFile /\ step' = "idle"
    BY <1>7 DEF WriteMessage, MessageWritten, MessageFails, GiveUp, IInv, WriteIsActive
  <2> QED BY <2>1 DEF NameIsFree
<1> QED BY <1>1, <1>2, <1>3, <1>4, <1>5, <1>6, <1>7 DEF Next, Closes

\* The recorder begins with nothing to complete.
LEMMA CompleteInit == Init => CompleteInv
<1> SUFFICES ASSUME Init PROVE CompleteInv
  OBVIOUS
<1>1. DOMAIN pcaps = {} /\ DOMAIN jsons = {} /\ step = "idle" /\ pcapFile = NoStem
      /\ \A b \in Batches : offered[b] = {}
  BY DEF Init, Batches
<1> QED BY <1>1 DEF CompleteInv, Completeness, NoneIsAhead, NameIsFree, PacketsOf, MessagesOf, Unrecorded, Unsent

\* Every step keeps the batches complete.
LEMMA CompleteStep == IInv /\ CompleteInv /\ [Next]_vars => CompleteInv'
<1> SUFFICES ASSUME IInv, CompleteInv, [Next]_vars PROVE CompleteInv'
  OBVIOUS
<1>1. IInv'
  BY StepHolds
<1>2. CASE Next
  <2>1. ControlOK
    BY Parts DEF IInv
  <2>2. ASSUME NEW b \in Batches \ damaged'
        PROVE  /\ PacketsOf(b)' = (offered[b] \ Unrecorded(b))'
               /\ MessagesOf(b)' = (offered[b] \ Unsent(b))'
               /\ \A s \in DOMAIN jsons' : jsons'[s].batch = b => (jsons'[s].ended <=> jsonFile' # s)
    <3>1. CASE b # batch
      BY <1>1, <1>2, <3>1, OthersComplete
    <3>2. CASE b = batch /\ b = batch'
      BY <1>2, <3>2, CurrentComplete DEF StaysCurrent
    <3>3. CASE b = batch /\ b # batch'
      <4>1. Closes /\ batch' # batch
        BY <1>2, <3>3 DEF Next, Closes, SecondPasses, Enable, WriteStart, MkdirFails, OpenPcap, OpenJSON,
           WriteRecord, WriteMessage, Kill, NewRecorder, history
      <4> QED BY <3>3, <4>1, ClosesComplete DEF Unrecorded, Unsent
    <3> QED BY <3>1, <3>2, <3>3
  <2>3. Completeness'
    BY <2>2 DEF Completeness, Batches
  <2> QED BY <1>2, <2>3, AheadStep, NameStep DEF CompleteInv
<1>3. CASE UNCHANGED vars
  BY <1>3 DEF vars, control, open, status, disk, clock, history, faultVars, CompleteInv, Completeness, NoneIsAhead,
     NameIsFree, PacketsOf, MessagesOf, Unrecorded, Unsent, Batches
<1> QED BY <1>2, <1>3

\* With the names never taken twice, what is lacking from a batch in which nothing
\* failed is the packet being written: for any filters, packets and failures.
THEOREM CompleteInvariance == Spec => []CompleteInv
BY CompleteInit, CompleteStep, Invariance, PTL DEF Spec

\* A batch in which no file operation failed and no process died is complete.
THEOREM BatchesAreComplete == Spec => []UndamagedIsComplete
<1>1. CompleteInv => UndamagedIsComplete
  BY DEF CompleteInv, Completeness, UndamagedIsComplete, Unrecorded, Unsent
<1> QED BY <1>1, CompleteInvariance, PTL

-----------------------------------------------------------------------------
(* Readable files *)

\* What a reader of a capture file, or of an array, can take for granted as long as no
\* rollback failed.
CapturesReadable ==
  \A s \in DOMAIN pcaps :
    LET r == pcaps[s].records
    IN  Increasing(r) /\ \A i \in DOMAIN r : r[i] = Torn => i = Len(r) /\ s # pcapFile

ArraysReadable ==
  \A s \in DOMAIN jsons :
    LET t == jsons[s].items
    IN  /\ Increasing(t)
        /\ \A i \in DOMAIN t : t[i] = Torn => i = Len(t) /\ s # jsonFile /\ ~jsons[s].ended

\* The open JSON file has no closing bracket yet.
OpenIsUnended ==
  jsonFile # NoStem => ~jsons[jsonFile].ended

\* The counters, in the middle of a Write too: a record is counted with its message.
Counted ==
  /\ pcapFile # NoStem =>
       Len(pcaps[pcapFile].records) = IF step = "message" THEN packetCount + 1 ELSE packetCount
  /\ jsonFile # NoStem => messageCount = Len(jsons[jsonFile].items)

Clean == CapturesReadable /\ ArraysReadable /\ OpenIsUnended /\ Counted

\* The packet that is to be recorded is in no capture file.
NotYetRecorded ==
  step \in {"openPcap", "openJSON", "record"} => \A b \in Batches : packets \notin PacketsOf(b)

ReadableInv ==
  /\ SeparatorsAreRight
  /\ NotYetRecorded
  /\ ~rollbackFailed => Clean

\* A file with one entry more begins as it was.
LEMMA EntryAppended ==
  ASSUME NEW entries \in Seq(Nat), NEW p \in Nat, NEW longer, longer = entries \o <<p>>
  PROVE  /\ Len(longer) = Len(entries) + 1 /\ Len(entries) \in Nat
         /\ DOMAIN entries = 1 .. Len(entries) /\ DOMAIN longer = 1 .. Len(entries) + 1
         /\ longer[Len(entries) + 1] = p
         /\ \A i \in DOMAIN entries : longer[i] = entries[i]
BY ConcatProperties

\* It is in order if the new entry comes after those before it.
LEMMA OrderAppended ==
  ASSUME NEW entries \in Seq(Nat), NEW p \in Nat, NEW longer, longer = entries \o <<p>>,
         Increasing(entries), p = Torn \/ \A i \in DOMAIN entries : entries[i] = Torn \/ entries[i] < p
  PROVE  Increasing(longer)
<1>1. /\ Len(longer) = Len(entries) + 1 /\ Len(entries) \in Nat
      /\ DOMAIN entries = 1 .. Len(entries) /\ DOMAIN longer = 1 .. Len(entries) + 1
      /\ longer[Len(entries) + 1] = p
      /\ \A i \in DOMAIN entries : longer[i] = entries[i]
  BY EntryAppended
<1>2. ASSUME NEW i \in DOMAIN longer, NEW j \in DOMAIN longer, i < j, longer[i] # Torn, longer[j] # Torn
      PROVE  longer[i] < longer[j]
  <2>1. i \in DOMAIN entries /\ longer[i] = entries[i]
    BY <1>1, <1>2
  <2>2. CASE j \in DOMAIN entries
    BY <1>1, <1>2, <2>1, <2>2 DEF Increasing
  <2>3. CASE j \notin DOMAIN entries
    <3>1. j = Len(entries) + 1 /\ longer[j] = p
      BY <1>1, <2>3
    <3> QED BY <1>2, <2>1, <3>1
  <2> QED BY <2>2, <2>3
<1> QED BY <1>2 DEF Increasing

\* So is one that ends in torn bytes, and they are its last entry.
LEMMA TornAppended ==
  ASSUME NEW entries \in Seq(Nat), NEW longer, longer = entries \o <<Torn>>,
         Increasing(entries), \A i \in DOMAIN entries : entries[i] # Torn
  PROVE  Increasing(longer) /\ \A i \in DOMAIN longer : longer[i] = Torn => i = Len(longer)
<1>1. Torn \in Nat
  BY DEF Torn
<1>2. /\ Len(longer) = Len(entries) + 1 /\ Len(entries) \in Nat
      /\ DOMAIN entries = 1 .. Len(entries) /\ DOMAIN longer = 1 .. Len(entries) + 1
      /\ \A i \in DOMAIN entries : longer[i] = entries[i]
  BY <1>1, EntryAppended
<1>3. \A i \in DOMAIN longer : longer[i] = Torn => i = Len(longer)
  BY <1>2
<1> QED BY <1>1, <1>3, OrderAppended

\* So is one without its last entry.
LEMMA OrderDropped ==
  ASSUME NEW entries \in Seq(Nat), entries # <<>>
  PROVE  /\ DropLast(entries) \in Seq(Nat)
         /\ Len(DropLast(entries)) = Len(entries) - 1
         /\ DOMAIN DropLast(entries) \subseteq DOMAIN entries
         /\ \A i \in DOMAIN DropLast(entries) : DropLast(entries)[i] = entries[i]
         /\ Increasing(entries) => Increasing(DropLast(entries))
<1> DEFINE n == Len(entries)
           shorter == DropLast(entries)
<1>1. n \in Nat /\ n >= 1 /\ DOMAIN entries = 1 .. n
  BY EmptySeq
<1>2. /\ shorter \in Seq(Nat)
      /\ Len(shorter) = n - 1
      /\ \A i \in 1 .. n - 1 : shorter[i] = entries[i]
  BY <1>1, SubSeqProperties DEF DropLast
<1>3. DOMAIN shorter = 1 .. n - 1
  BY <1>1, <1>2
<1> HIDE DEF n, shorter
<1>4. DOMAIN shorter \subseteq DOMAIN entries
  BY <1>1, <1>3
<1>5. Increasing(entries) => Increasing(shorter)
  BY <1>2, <1>3, <1>4 DEF Increasing
<1> QED BY <1>2, <1>3, <1>4, <1>5 DEF n, shorter

\* What is in a file was offered, and what is being written comes after it.
LEMMA EntriesBefore ==
  ASSUME IInv
  PROVE  /\ \A s \in DOMAIN pcaps : \A i \in DOMAIN pcaps[s].records :
              LET e == pcaps[s].records[i]
              IN  e = Torn \/ (e \in 1 .. packets /\ (NotYetRecorded /\ step = "record" => e < packets))
         /\ \A s \in DOMAIN jsons : \A i \in DOMAIN jsons[s].items :
              LET e == jsons[s].items[i]
              IN  e = Torn \/ (e \in 1 .. packets /\ (step # "idle" => e < packets))
<1>0. ControlOK /\ PcapsOK /\ JsonsOK
  BY Parts DEF IInv
<1>1. packets \in Nat /\ \A b \in Batches : offered[b] \subseteq 1 .. packets
  BY <1>0 DEF ControlOK
<1>2. ASSUME NEW s \in DOMAIN pcaps, NEW i \in DOMAIN pcaps[s].records, pcaps[s].records[i] # Torn
      PROVE  /\ pcaps[s].records[i] \in 1 .. packets
             /\ NotYetRecorded /\ step = "record" => pcaps[s].records[i] < packets
  <2> DEFINE e == pcaps[s].records[i]
  <2>1. PICK b \in Batches : pcaps[s].batch = b
    BY <1>0 DEF PcapsOK
  <2>2. e \in Whole(pcaps[s].records)
    BY <1>2 DEF Whole
  <2> HIDE DEF e
  <2>3. e \in PacketsOf(b)
    BY <2>1, <2>2, InPacketsOf
  <2>4. e \in 1 .. packets
    BY <1>1, <2>3 DEF IInv, OneBatchPerFile
  <2>5. NotYetRecorded /\ step = "record" => e # packets
    BY <2>3 DEF NotYetRecorded
  <2>6. NotYetRecorded /\ step = "record" => e < packets
    BY <1>1, <2>4, <2>5
  <2> QED BY <2>4, <2>6 DEF e
<1>3. ASSUME NEW s \in DOMAIN jsons, NEW i \in DOMAIN jsons[s].items, jsons[s].items[i] # Torn
      PROVE  /\ jsons[s].items[i] \in 1 .. packets
             /\ step # "idle" => jsons[s].items[i] < packets
  <2> DEFINE e == jsons[s].items[i]
  <2>1. PICK b \in Batches : jsons[s].batch = b
    BY <1>0 DEF JsonsOK
  <2>2. e \in Whole(jsons[s].items)
    BY <1>3 DEF Whole
  <2> HIDE DEF e
  <2>3. e \in MessagesOf(b)
    BY <2>1, <2>2, InMessagesOf
  <2>4. e \in 1 .. packets
    BY <1>1, <2>3 DEF IInv, OneBatchPerFile
  <2>5. step # "idle" => e # packets
    BY <2>3 DEF IInv, NotYetSent
  <2>6. step # "idle" => e < packets
    BY <1>1, <2>4, <2>5
  <2> QED BY <2>4, <2>6 DEF e
<1> QED BY <1>2, <1>3

\* A rollback that failed is never made good.
LEMMA RollbackStays ==
  ASSUME IInv, Next, rollbackFailed
  PROVE  rollbackFailed'
<1>0. ControlOK
  BY Parts DEF IInv
<1>1. CASE Closes
  <2>1. \E failed \in BOOLEAN : CloseLocked(failed)
    BY <1>1 DEF Closes, Disable, EndCapture, Stop, BeginCapture
  <2> QED BY <2>1 DEF CloseLocked, Fail, faultVars
<1>2. CASE SecondPasses \/ Enable \/ WriteStart \/ MkdirFails
  BY <1>2 DEF SecondPasses, Enable, WriteStart, MkdirFails, faultVars, Fail
<1>3. CASE OpenPcap \/ OpenJSON
  BY <1>3 DEF OpenPcap, OpenJSON, faultVars, Fail
<1>4. CASE WriteRecord
  BY <1>4 DEF WriteRecord, RecordWritten, SeekFails, RecordTorn, faultVars, Fail
<1>5. CASE WriteMessage
  BY <1>5 DEF WriteMessage, MessageWritten, MessageFails, faultVars, Fail
<1>6. CASE Kill
  BY <1>0, <1>6, KilledBatch
<1> QED BY <1>1, <1>2, <1>3, <1>4, <1>5, <1>6 DEF Next, Closes

\* A step that fails more than once has failed to roll back.
LEMMA OneFails ==
  ASSUME NEW k, Fail(k), ~rollbackFailed'
  PROVE  ~(k > 1)
BY DEF Fail

\* The packet of a new Write was never recorded.
LEMMA RecordedStep ==
  ASSUME IInv, NotYetRecorded, Next
  PROVE  NotYetRecorded'
<1>0. ControlOK
  BY Parts DEF IInv
<1>1. CASE Closes \/ MkdirFails \/ Kill
  <2>1. step' = "idle"
    BY <1>1 DEF Closes, Disable, EndCapture, Stop, BeginCapture, NewRecorder, MkdirFails, GiveUp, Kill
  <2> QED BY <2>1 DEF NotYetRecorded
<1>2. CASE SecondPasses \/ Enable
  BY <1>2 DEF SecondPasses, Enable, disk, history, NotYetRecorded, PacketsOf, Batches
<1>3. CASE WriteStart
  <2>1. packets' = packets + 1 /\ packets \in Nat /\ pcaps' = pcaps
    BY <1>0, <1>3 DEF WriteStart, disk, ControlOK
  <2>2. ASSUME NEW b \in Batches PROVE packets' \notin PacketsOf(b)'
    <3>1. PacketsOf(b)' = PacketsOf(b)
      BY <2>1 DEF PacketsOf
    <3>2. PacketsOf(b) \subseteq 1 .. packets
      BY <1>0 DEF IInv, OneBatchPerFile, ControlOK
    <3> QED BY <2>1, <3>1, <3>2
  <2> QED BY <2>2 DEF NotYetRecorded, Batches
<1>4. CASE OpenPcap
  <2>1. step = "openPcap" /\ packets' = packets /\ \A b : PacketsOf(b)' = PacketsOf(b)
    BY <1>4, PcapOpens DEF OpenPcap, history
  <2> QED BY <2>1 DEF NotYetRecorded, Batches
<1>5. CASE OpenJSON
  <2>1. step = "openJSON" /\ packets' = packets /\ pcaps' = pcaps
    BY <1>5 DEF OpenJSON, history
  <2> QED BY <2>1 DEF NotYetRecorded, PacketsOf, Batches
<1>6. CASE WriteRecord \/ WriteMessage
  <2>1. step' \in {"idle", "message"}
    BY <1>6 DEF WriteRecord, RecordWritten, SeekFails, RecordTorn, WriteMessage, MessageWritten, MessageFails, GiveUp
  <2> QED BY <2>1 DEF NotYetRecorded
<1> QED BY <1>1, <1>2, <1>3, <1>4, <1>5, <1>6 DEF Next, Closes

\* Torn bytes are no message, so the separator follows the messages of the file.
LEMMA SeparatorStep ==
  ASSUME IInv, SeparatorsAreRight, Next
  PROVE  SeparatorsAreRight'
<1>0. ControlOK /\ JsonsOK
  BY Parts DEF IInv
<1>1. CASE Closes \/ Kill
  BY <1>1 DEF Closes, Disable, EndCapture, Stop, BeginCapture, CloseLocked, Kill, SeparatorsAreRight
<1>2. CASE SecondPasses \/ Enable \/ WriteStart \/ MkdirFails \/ OpenPcap \/ WriteRecord
  <2>1. UNCHANGED <<jsons, jsonFile, jsonStarted>>
    BY <1>2 DEF SecondPasses, Enable, WriteStart, MkdirFails, OpenPcap, WriteRecord, open, disk
  <2> QED BY <2>1 DEF SeparatorsAreRight
<1>3. CASE OpenJSON
  <2>1. \A t \in DOMAIN jsons : jsons'[t] = jsons[t]
    BY <1>3, JSONOpens
  <2>2. CASE jsonFile' = jsonFile /\ jsonStarted' = jsonStarted
    BY <1>0, <2>1, <2>2 DEF ControlOK, SeparatorsAreRight
  <2>3. CASE /\ jsons' = Put(jsons, fileStem, [batch |-> batch, items |-> <<>>, ended |-> FALSE])
             /\ jsonFile' = fileStem /\ jsonStarted' = FALSE
    <3>1. jsons'[jsonFile'].items = <<>>
      BY <2>3 DEF Put
    <3>2. Whole(<<>>) = {}
      BY WholeOfNone
    <3> QED BY <2>3, <3>1, <3>2 DEF SeparatorsAreRight
  <2> QED BY <1>3, <2>2, <2>3 DEF OpenJSON
<1>4. CASE WriteMessage
  <2>1. /\ step = "message" /\ jsonFile' = jsonFile
        /\ \/ jsonStarted' = TRUE /\ jsons' = [jsons EXCEPT ![jsonFile].items = @ \o <<packets>>]
           \/ jsonStarted' = jsonStarted /\ (jsons' = jsons \/ jsons' = [jsons EXCEPT ![jsonFile].items = @ \o <<Torn>>])
    BY <1>4 DEF WriteMessage, MessageWritten, MessageFails, RollBackJSON, AppendItems
  <2>2. jsonFile \in DOMAIN jsons /\ packets \in Nat /\ packets # Torn /\ Torn \in Nat
    BY <2>1, Writing DEF Torn
  <2>3. jsonFile # NoStem /\ jsons[jsonFile].items \in Seq(Nat)
    BY <1>0, <2>2, NoStemIsNone DEF JsonsOK
  <2> DEFINE items == jsons[jsonFile].items
  <2>4. ASSUME NEW p \in Nat, jsons' = [jsons EXCEPT ![jsonFile].items = @ \o <<p>>]
        PROVE  Whole(jsons'[jsonFile].items) = Whole(items) \cup ({p} \ {Torn})
    <3>1. jsons'[jsonFile].items = items \o <<p>>
      BY <1>0, <2>2, <2>4 DEF JsonsOK
    <3> QED BY <2>3, <3>1, WholeAppended
  <2> HIDE DEF items
  <2>5. jsonStarted <=> Whole(items) # {}
    BY <2>3 DEF SeparatorsAreRight, items
  <2>6. jsonStarted' <=> Whole(jsons'[jsonFile].items) # {}
    <3>1. CASE jsonStarted' = TRUE /\ jsons' = [jsons EXCEPT ![jsonFile].items = @ \o <<packets>>]
      <4>1. packets \in Whole(jsons'[jsonFile].items)
        BY <2>2, <2>4, <3>1
      <4> QED BY <3>1, <4>1
    <3>2. CASE jsonStarted' = jsonStarted /\ jsons' = [jsons EXCEPT ![jsonFile].items = @ \o <<Torn>>]
      BY <2>2, <2>4, <2>5, <3>2
    <3>3. CASE jsonStarted' = jsonStarted /\ jsons' = jsons
      BY <2>5, <3>3 DEF items
    <3> QED BY <2>1, <3>1, <3>2, <3>3
  <2> QED BY <2>1, <2>6 DEF SeparatorsAreRight
<1> QED BY <1>1, <1>2, <1>3, <1>4 DEF Next, Closes

\* Files that stay as they are, whether or not they stay open.
LEMMA CleanKept ==
  ASSUME IInv, Clean, pcaps' = pcaps, DOMAIN jsons' = DOMAIN jsons,
         \A s \in DOMAIN jsons : jsons'[s].items = jsons[s].items,
         \A s \in DOMAIN jsons :
           jsons'[s].ended => jsons[s].ended \/ (s = jsonFile /\ jsonFile' = NoStem),
         \/ /\ pcapFile' = NoStem /\ jsonFile' = NoStem
         \/ /\ UNCHANGED <<pcapFile, jsonFile, packetCount, messageCount>>
            /\ (step = "message" <=> step' = "message")
  PROVE  Clean'
<1>0. ControlOK /\ PcapsOK /\ JsonsOK
  BY Parts DEF IInv
<1>1. CapturesReadable'
  BY <1>0, NoStemIsNone DEF PcapsOK, Clean, CapturesReadable
<1>2. ArraysReadable'
  BY <1>0, NoStemIsNone DEF JsonsOK, Clean, ArraysReadable
<1>3. OpenIsUnended' /\ Counted'
  BY <1>0 DEF ControlOK, Clean, OpenIsUnended, Counted
<1> QED BY <1>1, <1>2, <1>3 DEF Clean

\* A new capture file is empty, or its header is torn and it is not open.
LEMMA OpenPcapClean ==
  ASSUME IInv, Clean, OpenPcap
  PROVE  Clean'
<1>0. ControlOK /\ PcapsOK /\ JsonsOK
  BY Parts DEF IInv
<1>1. /\ step = "openPcap" /\ UNCHANGED <<jsons, jsonFile, messageCount>>
      /\ fileStem' \in Stems /\ fileStem' \notin DOMAIN pcaps
  BY PcapOpens DEF OpenPcap
<1>2. OpenIsUnended' /\ ArraysReadable' /\ (jsonFile' # NoStem => messageCount' = Len(jsons'[jsonFile'].items))
  BY <1>1 DEF Clean, OpenIsUnended, ArraysReadable, Counted
<1>3. PICK records \in {<<>>, <<Torn>>} :
        \/ /\ pcaps' = Put(pcaps, fileStem', [batch |-> batch, records |-> records])
           /\ \/ records = <<>> /\ pcapFile' = fileStem' /\ packetCount' = 0 /\ step' # "message"
              \/ pcapFile' = pcapFile /\ packetCount' = packetCount /\ step' = "idle"
        \/ pcaps' = pcaps /\ pcapFile' = pcapFile /\ packetCount' = packetCount /\ step' = "idle"
  BY DEF OpenPcap, GiveUp, NextStep
<1>4. CASE pcaps' = pcaps /\ pcapFile' = pcapFile /\ packetCount' = packetCount /\ step' = "idle"
  BY <1>1, <1>2, <1>4 DEF Clean, CapturesReadable, Counted
<1>5. CASE pcaps' = Put(pcaps, fileStem', [batch |-> batch, records |-> records])
  <2>1. /\ DOMAIN pcaps' = DOMAIN pcaps \cup {fileStem'}
        /\ \A t \in DOMAIN pcaps : pcaps'[t] = pcaps[t]
        /\ pcaps'[fileStem'].records = records
    BY <1>1, <1>5 DEF Put
  <2>2. Len(<<>>) = 0 /\ Increasing(<<>>) /\ Increasing(<<Torn>>) /\ DOMAIN <<>> = {}
        /\ DOMAIN <<Torn>> = {1} /\ Len(<<Torn>>) = 1
    BY DEF Increasing
  <2>3. pcapFile \in DOMAIN pcaps \cup {NoStem} /\ fileStem' # NoStem
    BY <1>0, <1>1, NoStemIsNone DEF ControlOK
  <2>4. CASE records = <<>> /\ pcapFile' = fileStem' /\ packetCount' = 0 /\ step' # "message"
    <3>1. CapturesReadable'
      BY <1>1, <2>1, <2>2, <2>4 DEF Clean, CapturesReadable
    <3>2. Counted'
      BY <1>2, <2>1, <2>2, <2>4 DEF Counted
    <3> QED BY <1>2, <3>1, <3>2 DEF Clean
  <2>5. CASE pcapFile' = pcapFile /\ packetCount' = packetCount /\ step' = "idle"
    <3>1. CapturesReadable'
      <4> SUFFICES ASSUME NEW s \in DOMAIN pcaps'
                   PROVE  /\ Increasing(pcaps'[s].records)
                          /\ \A i \in DOMAIN pcaps'[s].records :
                               pcaps'[s].records[i] = Torn => i = Len(pcaps'[s].records) /\ s # pcapFile'
        BY DEF CapturesReadable
      <4>1. CASE s = fileStem'
        <5>1. pcaps'[s].records = records /\ s # pcapFile'
          BY <1>1, <2>1, <2>3, <2>5, <4>1
        <5> QED BY <2>2, <5>1
      <4>2. CASE s \in DOMAIN pcaps
        BY <2>1, <2>5, <4>2 DEF Clean, CapturesReadable
      <4> QED BY <2>1, <4>1, <4>2
    <3>2. Counted'
      BY <1>1, <1>2, <2>1, <2>3, <2>5 DEF Clean, Counted
    <3> QED BY <1>2, <3>1, <3>2 DEF Clean
  <2> QED BY <1>1, <1>3, <1>5, <2>1, <2>4, <2>5
<1> QED BY <1>3, <1>4, <1>5

\* A new JSON file is empty, or torn at its beginning and not open.
LEMMA OpenJSONClean ==
  ASSUME IInv, Clean, OpenJSON
  PROVE  Clean'
<1>0. ControlOK /\ PcapsOK /\ JsonsOK
  BY Parts DEF IInv
<1>1. step = "openJSON" /\ UNCHANGED <<pcaps, pcapFile, packetCount>> /\ fileStem \in Stems
  BY JSONOpens DEF OpenJSON
<1>2. step' # "message"
  BY DEF OpenJSON, GiveUp
<1>3. CapturesReadable' /\ (pcapFile' # NoStem => Len(pcaps'[pcapFile'].records) = packetCount')
  BY <1>1 DEF Clean, CapturesReadable, Counted
<1>4. CASE jsons' = jsons /\ jsonFile' = jsonFile /\ messageCount' = messageCount
  BY <1>2, <1>3, <1>4 DEF Clean, ArraysReadable, OpenIsUnended, Counted
<1>5. ASSUME NEW items \in {<<>>, <<Torn>>}, fileStem \notin DOMAIN jsons,
             jsons' = Put(jsons, fileStem, [batch |-> batch, items |-> items, ended |-> FALSE]),
             \/ items = <<>> /\ jsonFile' = fileStem /\ messageCount' = 0
             \/ jsonFile' = jsonFile /\ messageCount' = messageCount
      PROVE  Clean'
  <2>1. /\ DOMAIN jsons' = DOMAIN jsons \cup {fileStem}
        /\ \A t \in DOMAIN jsons : jsons'[t] = jsons[t]
        /\ jsons'[fileStem].items = items /\ ~jsons'[fileStem].ended
    BY <1>5 DEF Put
  <2>2. Len(<<>>) = 0 /\ Increasing(<<>>) /\ Increasing(<<Torn>>) /\ DOMAIN <<>> = {}
        /\ DOMAIN <<Torn>> = {1} /\ Len(<<Torn>>) = 1
    BY DEF Increasing
  <2>3. jsonFile \in DOMAIN jsons \cup {NoStem} /\ fileStem # NoStem
    BY <1>0, <1>1, NoStemIsNone DEF ControlOK
  <2>4. ArraysReadable'
    <3> SUFFICES ASSUME NEW s \in DOMAIN jsons'
                 PROVE  /\ Increasing(jsons'[s].items)
                        /\ \A i \in DOMAIN jsons'[s].items :
                             jsons'[s].items[i] = Torn =>
                               i = Len(jsons'[s].items) /\ s # jsonFile' /\ ~jsons'[s].ended
      BY DEF ArraysReadable
    <3>1. CASE s = fileStem
      BY <1>5, <2>1, <2>2, <2>3, <3>1
    <3>2. CASE s \in DOMAIN jsons
      BY <1>5, <2>1, <3>2 DEF Clean, ArraysReadable
    <3> QED BY <2>1, <3>1, <3>2
  <2>5. OpenIsUnended' /\ (jsonFile' # NoStem => messageCount' = Len(jsons'[jsonFile'].items))
    BY <1>5, <2>1, <2>2, <2>3 DEF Clean, OpenIsUnended, Counted
  <2> QED BY <1>2, <1>3, <2>4, <2>5 DEF Clean, Counted
<1> QED BY <1>4, <1>5 DEF OpenJSON

\* A record comes after those before it; one that is torn is the last of a file that
\* is closed.
LEMMA RecordClean ==
  ASSUME IInv, NotYetRecorded, Clean, WriteRecord
  PROVE  Clean'
<1>0. ControlOK /\ PcapsOK /\ JsonsOK
  BY Parts DEF IInv
<1>1. step = "record" /\ UNCHANGED <<jsons, jsonFile, packetCount, messageCount>>
  BY DEF WriteRecord
<1>2. packets \in Nat /\ packets # Torn /\ Torn \in Nat /\ pcapFile \in DOMAIN pcaps /\ pcapFile # NoStem
  BY <1>0, <1>1, Writing, NoStemIsNone DEF Torn, PcapsOK
<1>3. ArraysReadable' /\ OpenIsUnended' /\ (jsonFile' # NoStem => messageCount' = Len(jsons'[jsonFile'].items))
  BY <1>1 DEF Clean, ArraysReadable, OpenIsUnended, Counted
<1> DEFINE old == pcaps[pcapFile].records
<1>4. old \in Seq(Nat) /\ \A s \in DOMAIN pcaps : pcaps[s].records \in Seq(Nat)
  BY <1>0, <1>2 DEF PcapsOK
<1>5. ASSUME NEW p \in {packets, Torn}, pcaps' = [pcaps EXCEPT ![pcapFile].records = @ \o <<p>>],
             \/ p = packets /\ pcapFile' = pcapFile /\ step' = "message"
             \/ p = Torn /\ pcapFile' = NoStem
      PROVE  Clean'
  <2> DEFINE longer == old \o <<p>>
  <2>1. /\ DOMAIN pcaps' = DOMAIN pcaps /\ pcaps'[pcapFile].records = longer
        /\ \A s \in DOMAIN pcaps : s # pcapFile => pcaps'[s] = pcaps[s]
    BY <1>0, <1>2, <1>5 DEF PcapsOK
  <2>2. p = Torn \/ \A i \in DOMAIN old : old[i] = Torn \/ old[i] < p
    BY <1>1, <1>2, <1>5, EntriesBefore
  <2>3. Increasing(old) /\ (\A i \in DOMAIN old : old[i] # Torn) /\ Len(old) = packetCount
    BY <1>1, <1>2 DEF Clean, CapturesReadable, Counted
  <2>4. longer = old \o <<p>> /\ p \in Nat
    BY <1>2
  <2> HIDE DEF old, longer
  <2>5. /\ Len(longer) = Len(old) + 1 /\ Len(old) \in Nat
        /\ DOMAIN old = 1 .. Len(old) /\ DOMAIN longer = 1 .. Len(old) + 1
        /\ longer[Len(old) + 1] = p
        /\ \A i \in DOMAIN old : longer[i] = old[i]
    BY <1>4, <2>4, EntryAppended
  <2>o. Increasing(longer)
    BY <1>4, <2>2, <2>3, <2>4, OrderAppended
  <2>6. \A i \in DOMAIN longer : longer[i] = Torn => i = Len(longer) /\ p = Torn
    BY <2>3, <2>5
  <2>7. CapturesReadable'
    <3> SUFFICES ASSUME NEW s \in DOMAIN pcaps'
                 PROVE  /\ Increasing(pcaps'[s].records)
                        /\ \A i \in DOMAIN pcaps'[s].records :
                             pcaps'[s].records[i] = Torn => i = Len(pcaps'[s].records) /\ s # pcapFile'
      BY DEF CapturesReadable
    <3>1. CASE s = pcapFile
      BY <1>2, <1>5, <2>1, <2>6, <2>o, <3>1
    <3>2. CASE s # pcapFile
      <4>1. s # NoStem
        BY <1>0, <2>1, NoStemIsNone DEF PcapsOK
      <4> QED BY <1>5, <2>1, <3>2, <4>1 DEF Clean, CapturesReadable
    <3> QED BY <3>1, <3>2
  <2>8. Counted'
    <3>1. pcapFile' # NoStem => pcapFile' = pcapFile /\ step' = "message"
      BY <1>5
    <3>2. pcapFile' # NoStem => Len(pcaps'[pcapFile'].records) = packetCount' + 1
      BY <1>1, <2>1, <2>3, <2>5, <3>1
    <3> QED BY <1>3, <3>1, <3>2 DEF Counted
  <2> QED BY <1>3, <2>7, <2>8 DEF Clean
<1>6. CASE pcaps' = pcaps /\ pcapFile' \in {pcapFile, NoStem} /\ step' = "idle"
  <2>1. CapturesReadable'
    BY <1>0, <1>6, NoStemIsNone DEF Clean, CapturesReadable, PcapsOK
  <2>2. Counted'
    BY <1>1, <1>3, <1>6 DEF Clean, Counted
  <2> QED BY <1>3, <2>1, <2>2 DEF Clean
<1>7. \/ pcaps' = [pcaps EXCEPT ![pcapFile].records = @ \o <<packets>>] /\ pcapFile' = pcapFile /\ step' = "message"
      \/ pcaps' = [pcaps EXCEPT ![pcapFile].records = @ \o <<Torn>>] /\ pcapFile' = NoStem
      \/ pcaps' = pcaps /\ pcapFile' \in {pcapFile, NoStem} /\ step' = "idle"
  BY DEF WriteRecord, RecordWritten, SeekFails, RecordTorn, GiveUp, AppendRecords
<1> QED BY <1>5, <1>6, <1>7

\* A message comes after those before it; when it fails and is rolled back the record is
\* taken back and nothing is left of the message.
LEMMA MessageClean ==
  ASSUME IInv, Clean, WriteMessage, ~rollbackFailed'
  PROVE  Clean'
<1>0. ControlOK /\ PcapsOK /\ JsonsOK
  BY Parts DEF IInv
<1>1. step = "message" /\ UNCHANGED <<pcapFile, jsonFile>> /\ step' = "idle"
  BY DEF WriteMessage, MessageWritten, MessageFails, GiveUp
<1>2. /\ packets \in Nat /\ packets # Torn
      /\ pcapFile \in DOMAIN pcaps /\ pcapFile # NoStem /\ jsonFile \in DOMAIN jsons /\ jsonFile # NoStem
  BY <1>0, <1>1, Writing, NoStemIsNone DEF PcapsOK, JsonsOK
<1> DEFINE records == pcaps[pcapFile].records
           items == jsons[jsonFile].items
<1>3. records \in Seq(Nat) /\ items \in Seq(Nat) /\ records # <<>>
  BY <1>0, <1>1, <1>2 DEF PcapsOK, JsonsOK, IInv, NotYetSent
<1>4. /\ Increasing(records) /\ (\A i \in DOMAIN records : records[i] # Torn)
      /\ Increasing(items) /\ (\A i \in DOMAIN items : items[i] # Torn)
      /\ ~jsons[jsonFile].ended
      /\ Len(records) = packetCount + 1 /\ messageCount = Len(items) /\ packetCount \in Nat
  BY <1>0, <1>1, <1>2 DEF Clean, CapturesReadable, ArraysReadable, OpenIsUnended, Counted, ControlOK
<1>5. CASE MessageWritten
  <2> DEFINE longer == items \o <<packets>>
  <2>1. /\ jsons' = [jsons EXCEPT ![jsonFile].items = longer] /\ pcaps' = pcaps
        /\ messageCount' = messageCount + 1 /\ packetCount' = packetCount + 1
    BY <1>5 DEF MessageWritten, AppendItems
  <2>2. /\ DOMAIN jsons' = DOMAIN jsons /\ jsons'[jsonFile].items = longer
        /\ jsons'[jsonFile].ended = jsons[jsonFile].ended
        /\ \A s \in DOMAIN jsons : s # jsonFile => jsons'[s] = jsons[s]
    BY <1>0, <1>2, <2>1 DEF JsonsOK
  <2>3. \A i \in DOMAIN items : items[i] = Torn \/ items[i] < packets
    BY <1>1, <1>2, EntriesBefore
  <2>4. longer = items \o <<packets>>
    OBVIOUS
  <2> HIDE DEF items, longer
  <2>5. /\ Len(longer) = Len(items) + 1
        /\ DOMAIN items = 1 .. Len(items) /\ DOMAIN longer = 1 .. Len(items) + 1
        /\ longer[Len(items) + 1] = packets
        /\ \A i \in DOMAIN items : longer[i] = items[i]
        /\ Len(items) \in Nat
    BY <1>2, <1>3, <2>4, EntryAppended
  <2>o. Increasing(longer)
    BY <1>2, <1>3, <1>4, <2>3, <2>4, OrderAppended
  <2>6. \A i \in DOMAIN longer : longer[i] # Torn
    BY <1>2, <1>4, <2>5
  <2>7. CapturesReadable'
    BY <1>1, <2>1 DEF Clean, CapturesReadable
  <2>8. ArraysReadable' /\ OpenIsUnended'
    BY <1>1, <1>4, <2>2, <2>6, <2>o DEF Clean, ArraysReadable, OpenIsUnended
  <2>9. Counted'
    BY <1>1, <1>4, <2>1, <2>2, <2>5 DEF Counted
  <2> QED BY <2>7, <2>8, <2>9 DEF Clean
<1>6. CASE MessageFails
  <2> DEFINE shorter == DropLast(records)
  <2>1. /\ UNCHANGED <<jsonStarted, messageCount, packetCount>>
        /\ pcaps' = [pcaps EXCEPT ![pcapFile].records = shorter] /\ jsons' = jsons
    <3>1. PICK p \in {0, 1}, j \in {0, 1} : RollBackPcap(p) /\ RollBackJSON(j) /\ Fail(1 + p + j)
      BY <1>6 DEF MessageFails
    <3>2. p = 0 /\ j = 0
      <4>1. ~(1 + p + j > 1)
        BY <3>1, OneFails
      <4> QED BY <4>1
    <3>3. UNCHANGED <<jsonStarted, messageCount, packetCount>>
      BY <1>6 DEF MessageFails
    <3> QED BY <3>1, <3>2, <3>3 DEF RollBackPcap, RollBackJSON
  <2>2. /\ DOMAIN pcaps' = DOMAIN pcaps /\ pcaps'[pcapFile].records = shorter
        /\ \A s \in DOMAIN pcaps : s # pcapFile => pcaps'[s] = pcaps[s]
    BY <1>0, <1>2, <2>1 DEF PcapsOK
  <2>3. /\ Len(shorter) = Len(records) - 1 /\ DOMAIN shorter \subseteq DOMAIN records
        /\ \A i \in DOMAIN shorter : shorter[i] = records[i]
        /\ Increasing(shorter)
    BY <1>3, <1>4, OrderDropped
  <2> HIDE DEF records, shorter
  <2>4. \A i \in DOMAIN shorter : shorter[i] # Torn
    BY <1>4, <2>3
  <2>5. CapturesReadable'
    BY <1>1, <2>2, <2>3, <2>4 DEF Clean, CapturesReadable
  <2>6. ArraysReadable' /\ OpenIsUnended'
    BY <1>1, <2>1 DEF Clean, ArraysReadable, OpenIsUnended
  <2>7. Counted'
    BY <1>1, <1>4, <2>1, <2>2, <2>3 DEF Counted
  <2> QED BY <2>5, <2>6, <2>7 DEF Clean
<1> QED BY <1>5, <1>6 DEF WriteMessage

\* A death leaves at most one torn entry, the last of a file that was open or is new.
LEMMA KillClean ==
  ASSUME IInv, Clean, Kill, ~rollbackFailed'
  PROVE  Clean'
<1>0. ControlOK /\ PcapsOK /\ JsonsOK /\ pcapFile' = NoStem /\ jsonFile' = NoStem
  BY Parts DEF IInv, Kill
<1>1. OpenIsUnended' /\ Counted'
  BY <1>0 DEF OpenIsUnended, Counted
<1>2. \A s \in DOMAIN pcaps \cup DOMAIN jsons : s # NoStem
  BY <1>0, NoStemIsNone DEF PcapsOK, JsonsOK
<1>3. Increasing(<<Torn>>) /\ DOMAIN <<Torn>> = {1} /\ Len(<<Torn>>) = 1
  BY DEF Increasing
<1>4. ASSUME pcaps' = pcaps PROVE CapturesReadable'
  BY <1>0, <1>2, <1>4 DEF Clean, CapturesReadable
<1>5. ASSUME jsons' = jsons PROVE ArraysReadable'
  BY <1>0, <1>2, <1>5 DEF Clean, ArraysReadable
<1>6. ASSUME NEW s, s \notin DOMAIN pcaps, s # NoStem,
             pcaps' = Put(pcaps, s, [batch |-> batch, records |-> <<Torn>>])
      PROVE  CapturesReadable'
  <2>1. /\ DOMAIN pcaps' = DOMAIN pcaps \cup {s} /\ pcaps'[s].records = <<Torn>>
        /\ \A t \in DOMAIN pcaps : pcaps'[t] = pcaps[t]
    BY <1>6 DEF Put
  <2> QED BY <1>0, <1>2, <1>3, <1>6, <2>1 DEF Clean, CapturesReadable
<1>7. ASSUME NEW s, s \notin DOMAIN jsons, s # NoStem,
             jsons' = Put(jsons, s, [batch |-> batch, items |-> <<Torn>>, ended |-> FALSE])
      PROVE  ArraysReadable'
  <2>1. /\ DOMAIN jsons' = DOMAIN jsons \cup {s} /\ jsons'[s].items = <<Torn>> /\ ~jsons'[s].ended
        /\ \A t \in DOMAIN jsons : jsons'[t] = jsons[t]
    BY <1>7 DEF Put
  <2>2. ASSUME NEW t \in DOMAIN jsons'
        PROVE  /\ Increasing(jsons'[t].items)
               /\ \A i \in DOMAIN jsons'[t].items :
                    jsons'[t].items[i] = Torn =>
                      i = Len(jsons'[t].items) /\ t # jsonFile' /\ ~jsons'[t].ended
    <3>1. CASE t = s
      BY <1>0, <1>3, <1>7, <2>1, <3>1
    <3>2. CASE t \in DOMAIN jsons
      BY <1>0, <1>2, <2>1, <3>2 DEF Clean, ArraysReadable
    <3> QED BY <2>1, <3>1, <3>2
  <2> QED BY <2>2 DEF ArraysReadable
<1>8. ASSUME NEW records \in Seq(Nat), pcapFile \in DOMAIN pcaps,
             pcaps' = [pcaps EXCEPT ![pcapFile].records = records],
             Increasing(records), \A i \in DOMAIN records : records[i] = Torn => i = Len(records)
      PROVE  CapturesReadable'
  <2>1. /\ DOMAIN pcaps' = DOMAIN pcaps /\ pcaps'[pcapFile].records = records
        /\ \A t \in DOMAIN pcaps : t # pcapFile => pcaps'[t] = pcaps[t]
    BY <1>0, <1>8, ChangedPcap
  <2> QED BY <1>0, <1>2, <1>8, <2>1 DEF Clean, CapturesReadable
<1>9. ASSUME jsonFile \in DOMAIN jsons, jsons' = AppendItems(<<Torn>>)
      PROVE  ArraysReadable'
  <2> DEFINE items == jsons[jsonFile].items
             longer == items \o <<Torn>>
  <2>1. /\ DOMAIN jsons' = DOMAIN jsons /\ jsons'[jsonFile].items = longer
        /\ jsons'[jsonFile].ended = jsons[jsonFile].ended
        /\ \A t \in DOMAIN jsons : t # jsonFile => jsons'[t] = jsons[t]
    BY <1>0, <1>9 DEF JsonsOK, AppendItems
  <2>2. items \in Seq(Nat) /\ Increasing(items) /\ (\A i \in DOMAIN items : items[i] # Torn)
        /\ ~jsons[jsonFile].ended
    BY <1>0, <1>2, <1>9 DEF JsonsOK, Clean, ArraysReadable, OpenIsUnended
  <2>3. longer = items \o <<Torn>>
    OBVIOUS
  <2> HIDE DEF items, longer
  <2>4. Increasing(longer) /\ \A i \in DOMAIN longer : longer[i] = Torn => i = Len(longer)
    BY <2>2, <2>3, TornAppended
  <2> QED BY <1>0, <1>2, <2>1, <2>2, <2>4 DEF Clean, ArraysReadable
<1>10. step \in {"record", "message"} => pcapFile \in DOMAIN pcaps /\ jsonFile \in DOMAIN jsons
  BY Writing
<1>11. CASE DiesBetween
  BY <1>1, <1>4, <1>5, <1>11 DEF DiesBetween, disk, Clean
<1>12. CASE DiesInPcapHeader
  <2>1. /\ pcaps' = Put(pcaps, FreeStem, [batch |-> batch, records |-> <<Torn>>])
        /\ step = "openPcap" /\ jsons' = jsons
    BY <1>12 DEF DiesInPcapHeader
  <2>2. FreeStem \notin DOMAIN pcaps /\ FreeStem # NoStem
    BY <2>1, FreshStem, NoStemIsNone
  <2> QED BY <1>1, <1>5, <1>6, <2>1, <2>2 DEF Clean
<1>13. CASE DiesInBracket
  <2>1. /\ jsons' = Put(jsons, fileStem, [batch |-> batch, items |-> <<Torn>>, ended |-> FALSE])
        /\ fileStem \notin DOMAIN jsons /\ step = "openJSON" /\ pcaps' = pcaps
    BY <1>13 DEF DiesInBracket
  <2>2. fileStem # NoStem
    BY <2>1, NoStemIsNone DEF IInv, WriteIsActive
  <2> QED BY <1>1, <1>4, <1>7, <2>1, <2>2 DEF Clean
<1>14. CASE DiesInRecord
  <2> DEFINE records == pcaps[pcapFile].records
             longer == records \o <<Torn>>
  <2>1. /\ step = "record" /\ jsons' = jsons
        /\ pcaps' = [pcaps EXCEPT ![pcapFile].records = longer]
    BY <1>14 DEF DiesInRecord, AppendRecords
  <2>2. /\ records \in Seq(Nat) /\ Increasing(records) /\ (\A i \in DOMAIN records : records[i] # Torn)
        /\ pcapFile \in DOMAIN pcaps
    BY <1>0, <1>10, <2>1 DEF PcapsOK, Clean, CapturesReadable
  <2>3. longer = records \o <<Torn>> /\ longer \in Seq(Nat)
    BY <2>2, WholeAppended DEF Torn
  <2> HIDE DEF records, longer
  <2>4. Increasing(longer) /\ \A i \in DOMAIN longer : longer[i] = Torn => i = Len(longer)
    BY <2>2, <2>3, TornAppended
  <2>5. CapturesReadable'
    BY <1>8, <2>1, <2>2, <2>3, <2>4
  <2> QED BY <1>1, <1>5, <2>1, <2>5 DEF Clean
<1>15. CASE DiesInMessage
  <2>1. /\ step = "message" /\ jsons' = AppendItems(<<Torn>>) /\ pcaps' = pcaps
    BY <1>15 DEF DiesInMessage
  <2> QED BY <1>1, <1>4, <1>9, <1>10, <2>1 DEF Clean
<1>16. CASE DiesRollingBack
  <2> DEFINE records == pcaps[pcapFile].records
             shorter == DropLast(records)
  <2>1. /\ step = "message" /\ jsons' \in {jsons, AppendItems(<<Torn>>)}
        /\ \E k \in {0, 1} : RollBackPcap(k) /\ Fail(1 + k)
    BY <1>16 DEF DiesRollingBack
  <2>2. PICK k \in {0, 1} : RollBackPcap(k) /\ Fail(1 + k)
    BY <2>1
  <2>3. k = 0
    <3>1. ~(1 + k > 1)
      BY <2>2, OneFails
    <3> QED BY <3>1
  <2>4. pcaps' = [pcaps EXCEPT ![pcapFile].records = shorter]
    BY <2>2, <2>3 DEF RollBackPcap
  <2>5. /\ records \in Seq(Nat) /\ Increasing(records) /\ (\A i \in DOMAIN records : records[i] # Torn)
        /\ pcapFile \in DOMAIN pcaps /\ records # <<>>
    BY <1>0, <1>10, <2>1 DEF PcapsOK, Clean, CapturesReadable, IInv, NotYetSent
  <2>6. /\ shorter \in Seq(Nat) /\ Increasing(shorter)
        /\ DOMAIN shorter \subseteq DOMAIN records
        /\ \A i \in DOMAIN shorter : shorter[i] = records[i]
    BY <2>5, OrderDropped
  <2> HIDE DEF records, shorter
  <2>7. \A i \in DOMAIN shorter : shorter[i] # Torn
    BY <2>5, <2>6
  <2>8. CapturesReadable'
    BY <1>8, <2>4, <2>5, <2>6, <2>7
  <2> QED BY <1>1, <1>5, <1>9, <1>10, <2>1, <2>8 DEF Clean
<1> QED BY <1>11, <1>12, <1>13, <1>14, <1>15, <1>16 DEF Kill

\* The recorder begins with no file.
LEMMA ReadableInit == Init => ReadableInv
<1> SUFFICES ASSUME Init PROVE ReadableInv
  OBVIOUS
<1>1. DOMAIN pcaps = {} /\ DOMAIN jsons = {} /\ step = "idle" /\ pcapFile = NoStem /\ jsonFile = NoStem
  BY DEF Init
<1> QED BY <1>1 DEF ReadableInv, SeparatorsAreRight, NotYetRecorded, Clean, CapturesReadable, ArraysReadable,
   OpenIsUnended, Counted

\* Every step keeps the files readable.
LEMMA ReadableStep == IInv /\ ReadableInv /\ [Next]_vars => ReadableInv'
<1> SUFFICES ASSUME IInv, ReadableInv, [Next]_vars PROVE ReadableInv'
  OBVIOUS
<1>1. CASE Next
  <2>1. SeparatorsAreRight' /\ NotYetRecorded'
    BY <1>1, SeparatorStep, RecordedStep DEF ReadableInv
  <2>2. ASSUME ~rollbackFailed' PROVE Clean'
    <3>1. Clean /\ NotYetRecorded
      BY <1>1, <2>2, RollbackStays DEF ReadableInv
    <3>2. CASE Closes
      <4>1. /\ pcaps' = pcaps /\ pcapFile' = NoStem /\ jsonFile' = NoStem
            /\ \E failed \in BOOLEAN : CloseLocked(failed)
        BY <3>2 DEF Closes, Disable, EndCapture, Stop, NewRecorder, BeginCapture, CloseLocked
      <4>2. /\ DOMAIN jsons' = DOMAIN jsons
            /\ \A s \in DOMAIN jsons : jsons'[s].items = jsons[s].items
            /\ \A s \in DOMAIN jsons : s # jsonFile => jsons'[s] = jsons[s]
        BY <4>1, Closed, BracketWritten DEF IInv
      <4> QED BY <3>1, <4>1, <4>2, CleanKept
    <3>3. CASE Kill
      BY <2>2, <3>1, <3>3, KillClean
    <3>4. CASE SecondPasses \/ Enable \/ WriteStart \/ MkdirFails
      <4>1. /\ UNCHANGED <<pcaps, jsons, pcapFile, jsonFile, packetCount, messageCount>>
            /\ (step = "message" <=> step' = "message")
        BY <3>4 DEF SecondPasses, Enable, WriteStart, MkdirFails, NextStep, GiveUp, open, status, disk
      <4> QED BY <3>1, <4>1, CleanKept
    <3> QED BY <1>1, <2>2, <3>1, <3>2, <3>3, <3>4, OpenPcapClean, OpenJSONClean, RecordClean, MessageClean
       DEF Next, Closes
  <2> QED BY <2>1, <2>2 DEF ReadableInv
<1>2. CASE UNCHANGED vars
  BY <1>2 DEF vars, control, open, status, disk, clock, history, faultVars, ReadableInv, SeparatorsAreRight,
     NotYetRecorded, Clean, CapturesReadable, ArraysReadable, OpenIsUnended, Counted, PacketsOf, Batches
<1> QED BY <1>1, <1>2

\* The entries of the files are in order, and the counters and the separator agree
\* with them in the middle of a Write too (recorder.go:159-213, 271-318).
THEOREM ReadableInvariance == Spec => []ReadableInv
BY ReadableInit, ReadableStep, Invariance, PTL DEF Spec

\* What was recorded can be read back, is in order, and is what GET /pcap counts.
THEOREM RecordingsAreReadable == Spec => []FilesAreReadable
<1>1. ReadableInv => FilesAreReadable
  BY DEF ReadableInv, Clean, CapturesReadable, ArraysReadable, Counted, FilesAreReadable, EntriesAreReadable,
     CountsMatchFiles
<1> QED BY <1>1, ReadableInvariance, PTL
=============================================================================
