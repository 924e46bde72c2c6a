----------------------- MODULE EmulatorServiceProofs -----------------------
(***************************************************************************)
(* What holds of one process of emulator-service, for any calls,           *)
(* containers, sockets and failures.                                       *)
(*                                                                         *)
(* First the plugin installer, whose steps the sniffer's do not disturb;   *)
(* then the sniffer: the workers of one call, the filter and the sessions  *)
(* of one node while calls overlap, and the lists of subscribers.  The two *)
(* meet only when the process dies.                                        *)
(***************************************************************************)
EXTENDS EmulatorService, ListsProofs

-----------------------------------------------------------------------------
(* The installer *)

Requests == {"new", "installing", "clearing", "refusing", "success", "error", "uninstalled", "lost"}

\* Both tables have an entry for every call.
Tables ==
  /\ request \in [Calls -> Requests]
  /\ copying \in [Calls -> [Nodes -> Plugin!Stages]]
  /\ temp \in [Nodes -> Calls \cup {Nothing}]
  /\ script \in [Nodes -> Calls \cup {Nothing}]

Undisturbed(c) == Plugin!Installing(c) /\ c \notin disturbed

\* An install that has met nobody is the only one with copies under way, and no
\* deletion is: whoever comes later meets it.
Alone == \A c \in Calls : Undisturbed(c) => Plugin!Meets(c) = {} /\ removing = {}

\* Its script is in the directory from the write to the copy, and in the container
\* from then on; and it is cleared after the last copy.
Progress ==
  \A c \in Calls : Undisturbed(c) =>
    \A n \in Nodes :
      /\ copying[c][n] \in {"copy", "pack"} => temp[n] = c
      /\ copying[c][n] = "copied" => script[n] = c
      /\ request[c] = "clearing" => copying[c][n] = "copied"

IInv == Tables /\ Alone /\ Progress

\* The first process has no install under way.
LEMMA InitHolds == ServiceInit => IInv
BY ServiceAssumption DEF ServiceInit, Plugin!Init, IInv, Tables, Alone, Progress, Undisturbed, Plugin!Installing, Requests,
   Plugin!Stages

\* One part of one call goes on, all others stay where they are.
LEMMA Moves ==
  ASSUME copying \in [Calls -> [Nodes -> Plugin!Stages]],
         NEW c \in Calls, NEW n \in Nodes, NEW from, NEW to \in Plugin!Stages, Plugin!At(c, n, from, to)
  PROVE  /\ copying' \in [Calls -> [Nodes -> Plugin!Stages]]
         /\ copying[c][n] = from /\ copying'[c][n] = to
         /\ \A d \in Calls, m \in Nodes : <<d, m>> # <<c, n>> => copying'[d][m] = copying[d][m]
BY DEF Plugin!At

\* What a part does next: where it was, where it is then, and what it changes.
LEMMA Parts ==
  ASSUME Tables, NEW c \in Calls, NEW n \in Nodes,
         Plugin!Write(c, n) \/ Plugin!Pack(c, n) \/ Plugin!Copy(c, n) \/ Plugin!CopyFails(c, n)
  PROVE  /\ UNCHANGED <<request, removing, disturbed>>
         /\ copying' \in [Calls -> [Nodes -> Plugin!Stages]]
         /\ \A d \in Calls, m \in Nodes : <<d, m>> # <<c, n>> => copying'[d][m] = copying[d][m]
         /\ \/ /\ copying[c][n] = "mkdir" /\ copying'[c][n] = "copy"
               /\ temp' = [temp EXCEPT ![n] = c] /\ UNCHANGED script
            \/ /\ copying[c][n] = "copy" /\ copying'[c][n] = "pack"
               /\ UNCHANGED <<temp, script>>
            \/ /\ copying[c][n] = "pack" /\ copying'[c][n] = "copied"
               /\ script' = IF temp[n] = Nothing THEN script ELSE [script EXCEPT ![n] = temp[n]]
               /\ UNCHANGED temp
            \/ /\ copying[c][n] \in {"mkdir", "copy", "pack"} /\ copying'[c][n] = "failed"
               /\ UNCHANGED <<temp, script>>
<1>a. /\ {"copy", "pack", "copied", "failed"} \subseteq Plugin!Stages
      /\ copying \in [Calls -> [Nodes -> Plugin!Stages]]
  BY DEF Plugin!Stages, Tables
<1>1. CASE Plugin!Write(c, n)
  <2>1. CASE Plugin!At(c, n, "mkdir", "copy") /\ temp' = [temp EXCEPT ![n] = c]
    BY <1>1, <1>a, <2>1, Moves DEF Plugin!Write
  <2>2. CASE Plugin!At(c, n, "mkdir", "failed") /\ UNCHANGED temp
    BY <1>1, <1>a, <2>2, Moves DEF Plugin!Write
  <2>3. QED
    BY <1>1, <2>1, <2>2 DEF Plugin!Write
<1>2. CASE Plugin!Pack(c, n)
  <2>1. UNCHANGED <<request, temp, script, removing, disturbed>>
    BY <1>2 DEF Plugin!Pack
  <2>2. CASE Plugin!At(c, n, "copy", "failed")
    BY <1>a, <2>1, <2>2, Moves
  <2>3. CASE Plugin!At(c, n, "copy", "pack")
    BY <1>a, <2>1, <2>3, Moves
  <2>4. QED
    BY <1>2, <2>2, <2>3 DEF Plugin!Pack
<1>3. CASE Plugin!Copy(c, n)
  BY <1>3, <1>a, Moves DEF Plugin!Copy
<1>4. CASE Plugin!CopyFails(c, n)
  <2>1. UNCHANGED <<request, temp, script, removing, disturbed>>
    BY <1>4 DEF Plugin!CopyFails
  <2>2. CASE Plugin!At(c, n, "copy", "failed")
    BY <1>a, <2>1, <2>2, Moves
  <2>3. CASE Plugin!At(c, n, "pack", "failed")
    BY <1>a, <2>1, <2>3, Moves
  <2>4. QED
    BY <1>4, <2>2, <2>3 DEF Plugin!CopyFails
<1>5. QED
  BY <1>1, <1>2, <1>3, <1>4

\* A part of an install keeps the invariant.
LEMMA PartStep ==
  ASSUME IInv, NEW c \in Calls, NEW n \in Nodes,
         Plugin!Write(c, n) \/ Plugin!Pack(c, n) \/ Plugin!Copy(c, n) \/ Plugin!CopyFails(c, n)
  PROVE  IInv'
<1>a. /\ Tables /\ Alone /\ Progress
      /\ UNCHANGED <<request, removing, disturbed>>
      /\ copying' \in [Calls -> [Nodes -> Plugin!Stages]]
      /\ \A d \in Calls, m \in Nodes : <<d, m>> # <<c, n>> => copying'[d][m] = copying[d][m]
      /\ copying[c][n] \in {"mkdir", "copy", "pack"}
  BY Parts DEF IInv
<1>b. \A d \in Calls : Undisturbed(d)' <=> Undisturbed(d)
  BY <1>a DEF Undisturbed, Plugin!Installing
<1>c. \A d \in Calls : Undisturbed(d) => d = c
  BY <1>a DEF Alone, Plugin!Meets
<1>1. Tables'
  <2>1. /\ temp' = temp \/ temp' = [temp EXCEPT ![n] = c]
        /\ script' = script \/ script' = [script EXCEPT ![n] = temp[n]]
    BY <1>a, Parts
  <2>2. temp[n] \in Calls \cup {Nothing}
    BY <1>a DEF Tables
  <2>3. temp' \in [Nodes -> Calls \cup {Nothing}] /\ script' \in [Nodes -> Calls \cup {Nothing}]
    BY <1>a, <2>1, <2>2 DEF Tables
  <2>4. QED
    BY <1>a, <2>3 DEF Tables
<1>2. Alone'
  <2>1. \A d \in Calls : Plugin!Meets(d)' \subseteq Plugin!Meets(d)
    BY <1>a DEF Plugin!Meets, Plugin!Installing
  <2>2. QED
    BY <1>a, <1>b, <2>1 DEF Alone
<1>3. Progress'
  <2> SUFFICES ASSUME Undisturbed(c), NEW m \in Nodes
               PROVE  /\ copying'[c][m] \in {"copy", "pack"} => temp'[m] = c
                      /\ copying'[c][m] = "copied" => script'[m] = c
                      /\ request'[c] = "clearing" => copying'[c][m] = "copied"
    BY <1>b, <1>c DEF Progress
  <2>1. /\ copying[c][m] \in {"copy", "pack"} => temp[m] = c
        /\ copying[c][m] = "copied" => script[m] = c
        /\ request[c] = "clearing" => copying[c][m] = "copied"
    BY <1>a DEF Progress
  <2>2. request'[c] # "clearing"
    BY <1>a DEF Progress
  <2>3. c # Nothing
    BY ServiceAssumption DEF ServiceAssumption
  <2>4. CASE m = n
    BY <1>a, <2>1, <2>2, <2>3, <2>4, Parts DEF Tables
  <2>5. CASE m # n
    <3>1. copying'[c][m] = copying[c][m] /\ temp'[m] = temp[m] /\ script'[m] = script[m]
      BY <1>a, <2>5, Parts DEF Tables
    <3>2. QED
      BY <2>1, <2>2, <3>1
  <2>6. QED
    BY <2>4, <2>5
<1>4. QED
  BY <1>1, <1>2, <1>3 DEF IInv

\* A call that comes disturbs those it meets.
LEMMA PostStep ==
  ASSUME IInv, NEW c \in Calls, Plugin!Post(c)
  PROVE  IInv'
<1>1. CASE Plugin!Install(c)
  <2>a. /\ request[c] = "new" /\ request' = [request EXCEPT ![c] = "installing"]
        /\ copying' = [copying EXCEPT ![c] = [n \in Nodes |-> "mkdir"]]
        /\ disturbed' = disturbed \cup Plugin!Meets(c)
                        \cup (IF Plugin!Meets(c) # {} \/ removing # {} THEN {c} ELSE {})
        /\ UNCHANGED <<temp, script, removing>>
    BY <1>1 DEF Plugin!Install
  <2>1. Tables'
    BY <2>a DEF IInv, Tables, Requests, Plugin!Stages
  <2>2. \A d \in Calls \ {c} : Undisturbed(d)' => Undisturbed(d) /\ d \notin Plugin!Meets(c)
    BY <2>a DEF IInv, Tables, Undisturbed, Plugin!Installing
  <2>3. \A d \in Calls \ {c} : ~Undisturbed(d)'
    BY <2>2 DEF Undisturbed, Plugin!Meets
  <2>4. Undisturbed(c)' => Plugin!Meets(c)' = {} /\ removing' = {}
    <3>1. Plugin!Meets(c)' = Plugin!Meets(c)
      BY <2>a DEF IInv, Tables, Plugin!Meets, Plugin!Installing
    <3>2. QED
      BY <2>a, <3>1 DEF Undisturbed
  <2>5. Alone'
    BY <2>3, <2>4 DEF Alone
  <2>6. Progress'
    BY <2>a, <2>3 DEF Progress, IInv, Tables
  <2>7. QED
    BY <2>1, <2>5, <2>6 DEF IInv
<1>2. CASE Plugin!Uninstall(c)
  <2>a. /\ request[c] = "new" /\ request' = [request EXCEPT ![c] = "uninstalled"]
        /\ disturbed' = disturbed \cup Plugin!Meets(c)
        /\ UNCHANGED <<temp, script, copying>>
    BY <1>2 DEF Plugin!Uninstall
  <2>1. Tables'
    BY <2>a DEF IInv, Tables, Requests
  <2>2. \A d \in Calls : Undisturbed(d)' => d # c /\ Undisturbed(d) /\ d \notin Plugin!Meets(c)
    BY <2>a DEF IInv, Tables, Undisturbed, Plugin!Installing
  <2>3. \A d \in Calls : ~Undisturbed(d)'
    BY <2>2 DEF Undisturbed, Plugin!Meets
  <2>4. QED
    BY <2>1, <2>3 DEF IInv, Alone, Progress
<1>3. QED
  BY <1>1, <1>2 DEF Plugin!Post

\* Clearing begins after the last copy or the first failure, and ends the call.
LEMMA ClearStep ==
  ASSUME IInv, NEW c \in Calls, Plugin!Clear(c) \/ Plugin!RemoveTemp(c)
  PROVE  IInv'
<1>a. Tables /\ Alone /\ Progress
  BY DEF IInv
<1>1. CASE Plugin!Clear(c)
  <2>a. /\ UNCHANGED <<copying, temp, script, removing, disturbed>>
        /\ request[c] = "installing"
        /\ \/ request' = [request EXCEPT ![c] = "clearing"] /\ \A n \in Nodes : copying[c][n] = "copied"
           \/ request' = [request EXCEPT ![c] = "refusing"]
    BY <1>1 DEF Plugin!Clear
  <2>1. Tables'
    BY <1>a, <2>a DEF Tables, Requests
  <2>2. \A d \in Calls : Plugin!Installing(d)' <=> Plugin!Installing(d)
    BY <1>a, <2>a DEF Tables, Plugin!Installing
  <2>3. \A d \in Calls : (Undisturbed(d)' <=> Undisturbed(d)) /\ Plugin!Meets(d)' = Plugin!Meets(d)
    BY <2>a, <2>2 DEF Undisturbed, Plugin!Meets
  <2>4. Alone'
    BY <1>a, <2>a, <2>3 DEF Alone
  <2>5. \A d \in Calls : request'[d] = "clearing" => request[d] = "clearing" \/ \A n \in Nodes : copying[d][n] = "copied"
    BY <1>a, <2>a DEF Tables
  <2>6. Progress'
    BY <1>a, <2>a, <2>3, <2>5 DEF Progress
  <2>7. QED
    BY <2>1, <2>4, <2>6 DEF IInv
<1>2. CASE Plugin!RemoveTemp(c)
  <2>a. /\ request[c] \in {"clearing", "refusing"}
        /\ temp' = [n \in Nodes |-> Nothing]
        /\ request' = [request EXCEPT ![c] = IF @ = "clearing" THEN "success" ELSE "error"]
        /\ UNCHANGED <<copying, script, removing, disturbed>>
    BY <1>2 DEF Plugin!RemoveTemp
  <2>1. Tables'
    BY <1>a, <2>a DEF Tables, Requests
  <2>2. \A d \in Calls : ~Undisturbed(d)'
    <3>1. Plugin!Installing(c) /\ ~Plugin!Installing(c)'
      BY <1>a, <2>a DEF Tables, Plugin!Installing
    <3>2. \A d \in Calls \ {c} : ~Undisturbed(d)
      BY <1>a, <3>1 DEF Alone, Plugin!Meets
    <3>3. \A d \in Calls \ {c} : Undisturbed(d)' => Undisturbed(d)
      BY <1>a, <2>a DEF Tables, Undisturbed, Plugin!Installing
    <3>4. QED
      BY <3>1, <3>2, <3>3 DEF Undisturbed
  <2>3. QED
    BY <2>1, <2>2 DEF IInv, Alone, Progress
<1>3. QED
  BY <1>1, <1>2

\* A deletion takes place only while no undisturbed install is under way.
LEMMA DeleteStep ==
  ASSUME IInv, NEW c \in Calls, NEW n \in Nodes, Plugin!Delete(c, n)
  PROVE  IInv'
<1>a. /\ Tables /\ Alone /\ Progress
      /\ removing # {} /\ script' = [script EXCEPT ![n] = Nothing]
      /\ UNCHANGED <<request, copying, temp, disturbed>>
  BY DEF IInv, Plugin!Delete
<1>1. Tables'
  BY <1>a DEF Tables
<1>2. \A d \in Calls : ~Undisturbed(d)'
  BY <1>a DEF Alone, Undisturbed, Plugin!Installing
<1>3. QED
  BY <1>1, <1>2 DEF IInv, Alone, Progress

\* A new process knows of no install.
LEMMA RestartStep ==
  ASSUME IInv, Plugin!Restart
  PROVE  IInv'
<1>a. /\ Tables
      /\ request' = [c \in Calls |-> IF Plugin!Installing(c) THEN "lost" ELSE request[c]]
      /\ copying' = [c \in Calls |-> [n \in Nodes |-> "none"]]
      /\ UNCHANGED <<temp, script>>
  BY DEF IInv, Plugin!Restart
<1>1. Tables'
  BY <1>a DEF Tables, Requests, Plugin!Stages
<1>2. \A d \in Calls : ~Undisturbed(d)'
  BY <1>a DEF Undisturbed, Plugin!Installing
<1>3. QED
  BY <1>1, <1>2 DEF IInv, Alone, Progress

\* Every step of the process keeps what is said of installs.
LEMMA NextHolds == IInv /\ [ServiceNext]_service => IInv'
<1> SUFFICES ASSUME IInv, [ServiceNext]_service
             PROVE  IInv'
  OBVIOUS
<1>1. CASE UNCHANGED plugin
  BY <1>1 DEF plugin, IInv, Tables, Alone, Progress, Undisturbed, Plugin!Installing, Plugin!Meets
<1>2. ASSUME NEW c \in Calls, Plugin!Post(c) \/ Plugin!Serve(c)
      PROVE  IInv'
  BY <1>2, PostStep, ClearStep, PartStep DEF Plugin!Serve
<1>3. CASE Plugin!Deleting
  BY <1>3, DeleteStep DEF Plugin!Deleting
<1>4. CASE Die
  BY <1>4, RestartStep DEF Die
<1>5. CASE UNCHANGED service
  BY <1>1, <1>5 DEF service
<1>6. QED
  BY <1>1, <1>2, <1>3, <1>4, <1>5 DEF ServiceNext, Receive, Serve

\* The inductive invariant holds in every reachable state.
THEOREM Invariance == ServiceSpec => []IInv
BY InitHolds, NextHolds, PTL DEF ServiceSpec

\* An install answered with success has put its script in every container,
\* whatever failed, unless it met another install or a deletion
\* (submit-event.ts:128-142).
THEOREM InstallsReachEveryNode == ServiceSpec => SuccessIsEverywhere
<1> DEFINE Answer(c) == Plugin!Succeeds(c) /\ c \notin disturbed => \A n \in Nodes : script[n] = c
<1>1. ASSUME IInv, [ServiceNext]_service, NEW c \in Calls, Plugin!Succeeds(c), c \notin disturbed, NEW n \in Nodes
      PROVE  script[n] = c
  <2>1. request[c] = "clearing"
    <3> USE DEF Plugin!Succeeds, IInv, Tables
    <3>1. CASE UNCHANGED plugin
      BY <1>1, <3>1 DEF plugin
    <3>2. ASSUME NEW d \in Calls, Plugin!Post(d) \/ Plugin!Serve(d)
          PROVE  request[c] = "clearing"
      <4>1. CASE Plugin!Post(d) \/ Plugin!Clear(d) \/ Plugin!RemoveTemp(d)
        BY <1>1, <4>1 DEF Plugin!Post, Plugin!Install, Plugin!Uninstall, Plugin!Clear, Plugin!RemoveTemp
      <4>2. ASSUME NEW m \in Nodes,
                   Plugin!Write(d, m) \/ Plugin!Pack(d, m) \/ Plugin!Copy(d, m) \/ Plugin!CopyFails(d, m)
            PROVE  request' = request
        BY <4>2 DEF Plugin!Write, Plugin!Pack, Plugin!Copy, Plugin!CopyFails
      <4>3. QED
        BY <1>1, <3>2, <4>1, <4>2 DEF Plugin!Serve
    <3>3. CASE Plugin!Deleting
      BY <1>1, <3>3 DEF Plugin!Deleting, Plugin!Delete
    <3>4. CASE Die
      BY <1>1, <3>4 DEF Die, Plugin!Restart
    <3>5. CASE UNCHANGED service
      BY <1>1, <3>5 DEF service, plugin
    <3>6. QED
      BY <1>1, <3>1, <3>2, <3>3, <3>4, <3>5 DEF ServiceNext, Receive, Serve
  <2>2. QED
    BY <1>1, <2>1 DEF IInv, Progress, Undisturbed, Plugin!Installing
<1>2. IInv /\ [ServiceNext]_service => \A c \in Calls : Answer(c)
  BY <1>1
<1>3. QED
  BY <1>2, Invariance, PTL DEF ServiceSpec, SuccessIsEverywhere, Plugin!SuccessIsEverywhere
-----------------------------------------------------------------------------
(* The workers of a call *)

Injective(list) == \A i, j \in DOMAIN list : list[i] = list[j] => i = j

\* A list in two parts, neither of which has a member of the other.
LEMMA SplitList ==
  ASSUME NEW V, NEW list \in Seq(V), Injective(list), NEW k \in 0..Len(list)
  PROVE  LET head == SubSeq(list, 1, k)
             rest == SubSeq(list, k + 1, Len(list))
         IN  /\ head \in Seq(V) /\ Len(head) = k /\ Injective(head)
             /\ \A i \in 1..k : head[i] = list[i]
             /\ rest \in Seq(V) /\ Len(rest) = Len(list) - k /\ Injective(rest)
             /\ ToSet(head) \subseteq ToSet(list)
             /\ ToSet(rest) = ToSet(list) \ ToSet(head)
<1> DEFINE n == Len(list)
           head == SubSeq(list, 1, k)
           rest == SubSeq(list, k + 1, n)
<1>1. n \in Nat /\ DOMAIN list = 1..n /\ \A i \in 1..n : list[i] \in V
  BY LenProperties, ElementOfSeq
<1>2. k \in Nat /\ k <= n
  BY <1>1
<1>3. head \in Seq(V) /\ Len(head) = k /\ \A i \in 1..k : head[i] = list[i]
  <2>1. \A i \in 1..k : list[i] \in V
    BY <1>1, <1>2
  <2>2. /\ head \in Seq(V)
        /\ Len(head) = IF 1 <= k THEN k - 1 + 1 ELSE 0
        /\ \A i \in 1..(k - 1 + 1) : head[i] = list[1 + i - 1]
    BY <1>2, <2>1, SubSeqProperties
  <2> HIDE DEF head
  <2>3. Len(head) = k /\ k - 1 + 1 = k /\ \A i \in 1..k : 1 + i - 1 = i
    BY <1>2, <2>2
  <2> QED BY <2>2, <2>3
<1>4. rest \in Seq(V) /\ Len(rest) = n - k /\ \A i \in 1..(n - k) : rest[i] = list[k + i]
  <2>0. \A i \in (k + 1)..n : i \in 1..n
    BY <1>1, <1>2
  <2>1. \A i \in (k + 1)..n : list[i] \in V
    BY <1>1, <2>0
  <2>2. /\ rest \in Seq(V)
        /\ Len(rest) = IF k + 1 <= n THEN n - (k + 1) + 1 ELSE 0
        /\ \A i \in 1..(n - (k + 1) + 1) : rest[i] = list[(k + 1) + i - 1]
    BY <1>1, <1>2, <2>1, SubSeqProperties
  <2> HIDE DEF rest, n
  <2>3. Len(rest) = n - k /\ n - (k + 1) + 1 = n - k /\ \A i \in 1..(n - k) : (k + 1) + i - 1 = k + i
    BY <1>1, <1>2, <2>2
  <2> QED BY <2>2, <2>3
<1>5. DOMAIN head = 1..k /\ DOMAIN rest = 1..(n - k)
  BY <1>3, <1>4, LenProperties
<1> HIDE DEF head, rest, n
<1>6. Injective(head) /\ ToSet(head) \subseteq ToSet(list)
  BY <1>1, <1>2, <1>3, <1>5 DEF Injective, ToSet
<1>7. Injective(rest)
  <2> SUFFICES ASSUME NEW i \in 1..(n - k), NEW j \in 1..(n - k), rest[i] = rest[j] PROVE i = j
    BY <1>5 DEF Injective
  <2>1. k + i \in 1..n /\ k + j \in 1..n /\ list[k + i] = list[k + j]
    BY <1>1, <1>2, <1>4
  <2>2. k + i = k + j
    BY <1>1, <2>1 DEF Injective
  <2> QED BY <1>2, <2>2
<1>8. ToSet(rest) = ToSet(list) \ ToSet(head)
  <2>1. ASSUME NEW x \in ToSet(rest) PROVE x \in ToSet(list) \ ToSet(head)
    <3>1. PICK i \in 1..(n - k) : x = list[k + i]
      BY <1>4, <1>5, <2>1 DEF ToSet
    <3>2. k + i \in 1..n /\ k + i \notin 1..k
      BY <1>1, <1>2
    <3>3. \A j \in 1..k : j \in 1..n /\ list[j] # x
      BY <1>1, <1>2, <3>1, <3>2 DEF Injective
    <3> QED BY <1>1, <1>3, <1>5, <3>1, <3>2, <3>3 DEF ToSet
  <2>2. ASSUME NEW x \in ToSet(list), x \notin ToSet(head) PROVE x \in ToSet(rest)
    <3>1. PICK i \in 1..n : x = list[i]
      BY <1>1, <2>2 DEF ToSet
    <3>2. i \notin 1..k
      BY <1>3, <1>5, <2>2, <3>1 DEF ToSet
    <3>3. i - k \in 1..(n - k) /\ k + (i - k) = i
      BY <1>1, <1>2, <3>1, <3>2
    <3> QED BY <1>4, <1>5, <3>1, <3>3 DEF ToSet
  <2> QED BY <2>1, <2>2
<1> QED BY <1>3, <1>4, <1>6, <1>7, <1>8 DEF head, rest, n

\* Filtering keeps the members that are in the set.
LEMMA FilteredMembers ==
  ASSUME NEW V, NEW list \in Seq(V), NEW S
  PROVE  Filtered(list, S) \in Seq(V) /\ ToSet(Filtered(list, S)) = ToSet(list) \cap S
<1>1. Filtered(list, S) \in Seq(V)
  BY FilteredKeeps
<1>2. {Filtered(list, S)[i] : i \in DOMAIN Filtered(list, S)} = {list[i] : i \in DOMAIN list} \cap S
  BY FilteredKeeps
<1> QED BY <1>1, <1>2 DEF ToSet

\* A list that names nobody twice still does not when it is filtered.
LEMMA FilteredInjective ==
  ASSUME NEW V, NEW list \in Seq(V), Injective(list), NEW S
  PROVE  /\ Filtered(list, S) \in Seq(V) /\ Injective(Filtered(list, S))
         /\ ToSet(Filtered(list, S)) = ToSet(list) \cap S
<1> DEFINE kept == Filtered(list, S)
<1>1. kept \in Seq(V) /\ ToSet(kept) = ToSet(list) \cap S
  BY FilteredMembers
<1>2. PICK at \in [DOMAIN kept -> DOMAIN list] :
        /\ \A i \in DOMAIN at : kept[i] = list[at[i]]
        /\ \A i, j \in DOMAIN at : i < j => at[i] < at[j]
  BY FilteredKeeps
<1>3. DOMAIN kept \subseteq Nat /\ DOMAIN list \subseteq Nat
  BY <1>1, LenProperties
<1> HIDE DEF kept
<1>4. ASSUME NEW i \in DOMAIN kept, NEW j \in DOMAIN kept, kept[i] = kept[j] PROVE i = j
  <2>1. at[i] = at[j]
    BY <1>2, <1>4 DEF Injective
  <2>2. ~(i < j) /\ ~(j < i)
    BY <1>2, <1>3, <2>1
  <2> QED BY <1>3, <2>2
<1> QED BY <1>1, <1>4 DEF Injective, kept

\* The positions among the first i of the nodes left that have no session.
Waits(list, i, t, r) == {j \in 1..i : ~HasSession(list[j], t, r)}

\* One more node needs at most one more session.
LEMMA WaitsGrow ==
  ASSUME NEW list, NEW i \in Nat, NEW t, NEW r
  PROVE  /\ IsFiniteSet(Waits(list, i, t, r)) /\ Cardinality(Waits(list, i, t, r)) \in Nat
         /\ i = 0 => Cardinality(Waits(list, i, t, r)) = 0
         /\ i > 0 => Cardinality(Waits(list, i, t, r)) <= Cardinality(Waits(list, i - 1, t, r)) + 1
<1> DEFINE W(j) == Waits(list, j, t, r)
<1>1. ASSUME NEW j \in Nat PROVE IsFiniteSet(W(j)) /\ Cardinality(W(j)) \in Nat
  <2>1. IsFiniteSet(1..j) /\ W(j) \subseteq 1..j
    BY FS_Interval DEF Waits
  <2> HIDE DEF W
  <2> QED BY <2>1, FS_Subset, FS_CardinalityType
<1>2. i = 0 => W(i) = {}
  BY DEF Waits
<1>3. ASSUME i > 0 PROVE Cardinality(W(i)) <= Cardinality(W(i - 1)) + 1
  <2>1. i - 1 \in Nat /\ W(i) \subseteq W(i - 1) \cup {i}
    BY <1>3 DEF Waits
  <2> HIDE DEF W
  <2>2. /\ IsFiniteSet(W(i - 1) \cup {i})
        /\ Cardinality(W(i - 1) \cup {i}) <= Cardinality(W(i - 1)) + 1
        /\ Cardinality(W(i - 1) \cup {i}) \in Nat
    <3> DEFINE old == W(i - 1)
    <3>1. IsFiniteSet(old) /\ Cardinality(old) \in Nat
      BY <1>1, <2>1
    <3> HIDE DEF old
    <3>2. IsFiniteSet(old \cup {i})
          /\ Cardinality(old \cup {i}) = IF i \in old THEN Cardinality(old) ELSE Cardinality(old) + 1
      BY <3>1, FS_AddElement
    <3>3. Cardinality(old \cup {i}) \in Nat /\ Cardinality(old \cup {i}) <= Cardinality(old) + 1
      BY <3>1, <3>2
    <3> QED BY <3>2, <3>3 DEF old
  <2>3. Cardinality(W(i)) <= Cardinality(W(i - 1) \cup {i})
    BY <2>1, <2>2, FS_Subset
  <2> QED BY <1>1, <2>1, <2>2, <2>3
<1> HIDE DEF W
<1> QED BY <1>1, <1>2, <1>3, FS_EmptySet DEF W

\* The nodes of a list without a session are as many as their positions.
LEMMA WaitingNodes ==
  ASSUME NEW V, NEW list \in Seq(V), Injective(list), NEW t, NEW r
  PROVE  LET S == {n \in ToSet(list) : ~HasSession(n, t, r)}
         IN  IsFiniteSet(S) /\ Cardinality(S) = Cardinality(Waits(list, Len(list), t, r))
<1> DEFINE W == Waits(list, Len(list), t, r)
           S == {n \in ToSet(list) : ~HasSession(n, t, r)}
           f == [j \in W |-> list[j]]
<1>1. Len(list) \in Nat /\ DOMAIN list = 1..Len(list)
  BY LenProperties
<1>2. IsFiniteSet(W)
  BY <1>1, WaitsGrow
<1>3. f \in Bijection(W, S)
  <2>1. W = {j \in DOMAIN list : ~HasSession(list[j], t, r)}
    BY <1>1 DEF Waits
  <2>2. f \in [W -> S]
    BY <2>1 DEF ToSet
  <2>3. \A x \in S : \E j \in W : f[j] = x
    BY <2>1 DEF ToSet
  <2>4. \A i, j \in W : f[i] = f[j] => i = j
    BY <2>1 DEF Injective
  <2> HIDE DEF W, S, f
  <2> QED BY <2>2, <2>3, <2>4 DEF Bijection, Injection, IsInjective, Surjection
<1>4. ExistsBijection(W, S)
  BY <1>3 DEF ExistsBijection
<1> HIDE DEF W, S, f
<1> QED BY <1>2, <1>4, FS_Bijection DEF W, S

\* The nodes the workers of a call take need no more sessions than workers are
\* free; and if they leave a node, exactly as many.
LEMMA TakenFills ==
  ASSUME NEW w, w.left \in Seq(Nodes), Injective(w.left), NEW t, NEW r,
         Concurrency - Cardinality(w.opening) \in Nat \ {0}
  PROVE  LET free == Concurrency - Cardinality(w.opening)
             next == Taken(w, t, r)
             k == Len(next)
             open == ToOpen(w, ToSet(next), t, r)
         IN  /\ k \in 0..Len(w.left) /\ next = SubSeq(w.left, 1, k)
             /\ IsFiniteSet(open) /\ Cardinality(open) \in Nat /\ Cardinality(open) <= free
             /\ k < Len(w.left) => Cardinality(open) = free
<1> DEFINE list == w.left
           n == Len(list)
           free == Concurrency - Cardinality(w.opening)
           count(i) == Cardinality(Waits(list, i, t, r))
           full == {i \in DOMAIN list : w.filter # Off /\ count(i) = free}
<1>1. n \in Nat /\ DOMAIN list = 1..n /\ list \in Seq(Nodes) /\ Injective(list)
  BY LenProperties
<1>2. Taken(w, t, r) = IF full = {} THEN list
                       ELSE SubSeq(list, 1, CHOOSE i \in full : \A j \in full : i <= j)
  BY DEF Taken, Waits
<1>3. free \in Nat \ {0}
  OBVIOUS
<1>4. \A i \in Nat : count(i) \in Nat /\ (i = 0 => count(i) = 0) /\ (i > 0 => count(i) <= count(i - 1) + 1)
  BY WaitsGrow
<1> HIDE DEF list, free, count
\* Before the first position with as many as are free there are fewer.
<1>5. ASSUME NEW k \in 0..n, w.filter # Off, \A i \in 1..k : i \notin full
      PROVE  count(k) < free
  <2> DEFINE Bad == {i \in 0..k : ~(count(i) < free)}
  <2>1. Bad = {}
    <3> SUFFICES ASSUME Bad # {} PROVE FALSE
      OBVIOUS
    <3>1. Bad \in SUBSET Nat
      BY <1>1
    <3>2. PICK i \in Bad : \A j \in Bad : i <= j
      <4> HIDE DEF Bad
      <4> QED BY <3>1, FirstPosition
    <3>3. i \in 0..k /\ ~(count(i) < free)
      BY <3>2
    <3>4. i # 0
      BY <1>3, <1>4, <3>3
    <3>5. i - 1 \in 0..k /\ i \in 1..k /\ i \in DOMAIN list /\ ~(i <= i - 1)
      BY <1>1, <3>3, <3>4
    <3>6. i - 1 \notin Bad
      <4> HIDE DEF Bad
      <4> QED BY <3>2, <3>5
    <3>7. count(i - 1) < free /\ count(i) # free
      BY <1>5, <3>5, <3>6
    <3>8. i \in Nat /\ i - 1 \in Nat /\ i > 0
      BY <3>5
    <3>9. count(i) \in Nat /\ count(i - 1) \in Nat /\ count(i) <= count(i - 1) + 1
      BY <1>4, <3>8
    <3> QED BY <1>3, <3>3, <3>7, <3>9
  <2>2. k \in 0..k
    BY <1>1
  <2> QED BY <2>1, <2>2
\* What is opened of the first k nodes.
<1>6. ASSUME NEW k \in 0..n, w.filter # Off
      PROVE  LET open == ToOpen(w, ToSet(SubSeq(list, 1, k)), t, r)
             IN  IsFiniteSet(open) /\ Cardinality(open) = count(k)
  <2> DEFINE head == SubSeq(list, 1, k)
  <2>1. head \in Seq(Nodes) /\ Len(head) = k /\ Injective(head) /\ \A i \in 1..k : head[i] = list[i]
    BY <1>1, SplitList DEF n
  <2> HIDE DEF head
  <2>2. Waits(head, Len(head), t, r) = Waits(list, k, t, r)
    BY <2>1 DEF Waits
  <2>3. ToOpen(w, ToSet(head), t, r) = {x \in ToSet(head) : ~HasSession(x, t, r)}
    BY <1>6 DEF ToOpen
  <2>4. LET S == {x \in ToSet(head) : ~HasSession(x, t, r)}
        IN  IsFiniteSet(S) /\ Cardinality(S) = Cardinality(Waits(head, Len(head), t, r))
    BY <2>1, WaitingNodes
  <2> QED BY <2>2, <2>3, <2>4 DEF head, count
<1>7. list = SubSeq(list, 1, n) /\ n \in 0..n
  BY <1>1 DEF n
<1> DEFINE next == Taken(w, t, r)
           open == ToOpen(w, ToSet(next), t, r)
<1>8. CASE w.filter = Off
  <2>1. full = {}
    BY <1>8
  <2>2. open = {} /\ next = list
    BY <1>2, <1>8, <2>1 DEF ToOpen
  <2> HIDE DEF full, next, open
  <2>3. IsFiniteSet(open) /\ Cardinality(open) = 0
    BY <2>2, FS_EmptySet
  <2> QED BY <1>1, <1>3, <1>7, <2>2, <2>3 DEF list, free, n, next, open
<1>9. CASE w.filter # Off /\ full = {}
  <2>1. next = list
    BY <1>2, <1>9
  <2>2. \A i \in 1..n : i \notin full
    BY <1>9
  <2> HIDE DEF full, next
  <2>3. IsFiniteSet(open) /\ Cardinality(open) = count(n) /\ count(n) < free /\ count(n) \in Nat
    BY <1>1, <1>4, <1>5, <1>6, <1>7, <1>9, <2>1, <2>2
  <2> HIDE DEF open
  <2> QED BY <1>1, <1>3, <1>7, <2>1, <2>3 DEF list, free, n, next, open
<1>10. CASE w.filter # Off /\ full # {}
  <2> DEFINE k == CHOOSE i \in full : \A j \in full : i <= j
  <2>1. full \in SUBSET Nat /\ full \subseteq 1..n
    BY <1>1
  <2>2. k \in full
    <3> HIDE DEF full
    <3> QED BY <1>10, <2>1, FirstPosition
  <2> HIDE DEF k
  <2>3. k \in 1..n /\ k \in 0..n /\ count(k) = free
    BY <1>1, <2>1, <2>2
  <2>4. next = SubSeq(list, 1, k)
    BY <1>2, <1>10 DEF k
  <2>5. Len(next) = k
    BY <1>1, <2>3, <2>4, SplitList DEF n
  <2> HIDE DEF full, next
  <2>6. IsFiniteSet(open) /\ Cardinality(open) = free
    BY <1>6, <1>10, <2>3, <2>4
  <2> HIDE DEF open
  <2> QED BY <1>1, <1>3, <2>3, <2>4, <2>5, <2>6 DEF list, free, n, next, open
<1> QED BY <1>8, <1>9, <1>10

\* A call, whatever it is doing: it has no node twice, and as long as nodes are
\* left all workers are at work.
Workers(w) ==
  /\ w \in Work
  /\ Injective(w.left)
  /\ w.opening \subseteq w.nodes /\ ToSet(w.left) \subseteq w.nodes
  /\ w.opening \cap ToSet(w.left) = {}
  /\ Cardinality(w.opening) <= Concurrency
  /\ w.at = "sniffing" => w.opening # {}
  /\ w.left # <<>> => Cardinality(w.opening) = Concurrency
  /\ w.at # "sniffing" => w.opening = {} /\ w.left = <<>>
  /\ w.at = "listing" => w.nodes = Nodes

\* A call whose workers are about to run: one of them is free.
Ready(w) ==
  /\ w \in Work /\ w.at = "sniffing"
  /\ Injective(w.left)
  /\ w.opening \subseteq w.nodes /\ ToSet(w.left) \subseteq w.nodes
  /\ w.opening \cap ToSet(w.left) = {}
  /\ Cardinality(w.opening) < Concurrency

\* The call w after its workers have taken some nodes.
Ran(w2, w, taken, t, r) ==
  /\ w2.nodes = w.nodes /\ w2.filter = w.filter
  /\ w2.at \in {"sniffing", "done", "failed"}
  /\ taken \subseteq ToSet(w.left)
  /\ w2.opening = w.opening \cup ToOpen(w, taken, t, r)
  /\ ToSet(w2.left) = ToSet(w.left) \ taken

\* A Docker host has finitely many containers.
LEMMA NodesAreFinite == IsFiniteSet(Nodes)
<1>1. IsFiniteSet(DOMAIN NodeList)
  BY SnifferAssumption, PositionsAreFinite, LenProperties DEF SnifferAssumption
<1> QED BY <1>1, ImageIsFinite DEF Nodes

\* The workers run until they are all at work or no node is left.
LEMMA WorkersRun ==
  ASSUME NEW w, Ready(w), NEW t, NEW r
  PROVE  LET next == Taken(w, t, r)
             w2 == Settled([w EXCEPT !.opening = @ \cup ToOpen(w, ToSet(next), t, r),
                                     !.left = SubSeq(@, Len(next) + 1, Len(@))])
         IN  Workers(w2) /\ Ran(w2, w, ToSet(next), t, r)
<1> DEFINE next == Taken(w, t, r)
           k == Len(next)
           taken == ToSet(next)
           open == ToOpen(w, taken, t, r)
           rest == SubSeq(w.left, k + 1, Len(w.left))
           w1 == [w EXCEPT !.opening = @ \cup open, !.left = rest]
           w2 == Settled(w1)
<1>1. /\ w \in Work /\ w.at = "sniffing" /\ w.left \in Seq(Nodes) /\ Injective(w.left)
      /\ w.opening \in SUBSET Nodes /\ Concurrency \in Nat \ {0}
      /\ Cardinality(w.opening) < Concurrency
  BY SnifferAssumption DEF Ready, Work, SnifferAssumption
<1>2. IsFiniteSet(w.opening) /\ Cardinality(w.opening) \in Nat
  BY <1>1, NodesAreFinite, FS_Subset, FS_CardinalityType
<1> DEFINE free == Concurrency - Cardinality(w.opening)
<1>3. free \in Nat \ {0}
  BY <1>1, <1>2
<1>4. /\ k \in 0..Len(w.left) /\ next = SubSeq(w.left, 1, k)
      /\ IsFiniteSet(open) /\ Cardinality(open) \in Nat /\ Cardinality(open) <= free
      /\ k < Len(w.left) => Cardinality(open) = free
  BY <1>1, <1>3, TakenFills
<1>5. /\ taken \subseteq ToSet(w.left)
      /\ rest \in Seq(Nodes) /\ Len(rest) = Len(w.left) - k /\ Injective(rest)
      /\ ToSet(rest) = ToSet(w.left) \ taken
  <2> HIDE DEF k
  <2>1. next = SubSeq(w.left, 1, k)
    BY <1>4
  <2> HIDE DEF next
  <2> QED BY <1>1, <1>4, <2>1, SplitList
<1>6. open \subseteq taken
  BY DEF ToOpen
<1>7. Len(w.left) \in Nat /\ k \in Nat
  BY <1>1, <1>4, LenProperties
<1>8. w1 = [w EXCEPT !.opening = @ \cup ToOpen(w, ToSet(next), t, r),
                     !.left = SubSeq(@, Len(next) + 1, Len(@))]
  BY <1>1 DEF Work
<1> HIDE DEF open, rest, taken, next, k
<1> DEFINE busy == w.opening \cup open
<1>9. busy \subseteq w.nodes /\ busy \in SUBSET Nodes /\ ToSet(rest) \subseteq w.nodes /\ busy \cap ToSet(rest) = {}
  BY <1>1, <1>5, <1>6 DEF Ready, Work
<1>10. Cardinality(busy) = Cardinality(w.opening) + Cardinality(open)
  <2>1. w.opening \cap open = {}
    BY <1>5, <1>6 DEF Ready
  <2>2. Cardinality(w.opening \cup open)
          = Cardinality(w.opening) + Cardinality(open) - Cardinality(w.opening \cap open)
    BY <1>2, <1>4, FS_Union
  <2>3. Cardinality(w.opening \cap open) = 0
    BY <2>1, FS_EmptySet
  <2> QED BY <1>2, <1>4, <2>2, <2>3
<1>11. Cardinality(busy) <= Concurrency /\ (k < Len(w.left) => Cardinality(busy) = Concurrency)
  BY <1>1, <1>2, <1>3, <1>4, <1>10
<1>12. rest # <<>> => k < Len(w.left)
  BY <1>5, <1>7, EmptySeq
<1>13. rest # <<>> => busy # {}
  BY <1>1, <1>11, <1>12, FS_EmptySet
<1>14. /\ w1 \in Work /\ w1.opening = busy /\ w1.left = rest /\ w1.nodes = w.nodes
       /\ w1.filter = w.filter /\ w1.at = "sniffing"
  BY <1>1, <1>5, <1>9 DEF Work
<1> HIDE DEF w1, busy
<1>15. CASE rest = <<>> /\ busy = {}
  <2>1. w2 = [w1 EXCEPT !.at = IF w1.failed THEN "failed" ELSE "done"]
    BY <1>14, <1>15 DEF Settled
  <2>2. /\ w2 \in Work /\ w2.opening = busy /\ w2.left = rest /\ w2.nodes = w.nodes
        /\ w2.filter = w.filter /\ w2.at \in {"done", "failed"}
    BY <1>14, <2>1 DEF Work, Answered
  <2> HIDE DEF w2
  <2>3. Workers(w2)
    BY <1>5, <1>9, <1>11, <1>15, <2>2 DEF Workers
  <2>4. Ran(w2, w, taken, t, r)
    BY <1>5, <2>2 DEF Ran, busy, open
  <2> QED BY <1>8, <2>3, <2>4 DEF w2, taken, next
<1>16. CASE ~(rest = <<>> /\ busy = {})
  <2>1. w2 = w1
    BY <1>14, <1>16 DEF Settled
  <2> HIDE DEF w2
  <2>2. Workers(w2)
    BY <1>5, <1>9, <1>11, <1>12, <1>13, <1>14, <1>16, <2>1 DEF Workers
  <2>3. Ran(w2, w, taken, t, r)
    BY <1>5, <1>14, <2>1 DEF Ran, busy, open
  <2> QED BY <1>8, <2>2, <2>3 DEF w2, taken, next
<1> QED BY <1>15, <1>16

-----------------------------------------------------------------------------
(* The sniffers of a node *)

\* A call that has yet to come to the node, or to write to it; and what it writes.
Pends(w, n) == w.at = "listing" \/ n \in ToSet(w.left)
Owes(w, n) == Pends(w, n) \/ n \in w.opening
Will(w, now) == IF w.at = "listing" THEN now ELSE w.filter

\* A node of which it is sure what calls write: whoever may yet write to it writes the
\* filter last asked for; and that filter runs where every call has come.
FilterKept(n, cl, t, r, a, now) ==
  /\ \A c \in Calls : Owes(cl[c], n) => Will(cl[c], now) = a[n]
  /\ (\A c \in Calls : ~Pends(cl[c], n)) /\ t[n] # Nothing => r[t[n]] \in {Nothing, a[n]}

\* A node no two calls were opening at once: a call opens a session only while none is
\* open, so there is one at most, the one in the table.
OneKept(n, cl, t, r) ==
  /\ \A c, d \in Calls : n \in cl[c].opening /\ n \in cl[d].opening => c = d
  /\ \A c \in Calls : n \in cl[c].opening => \A d \in Calls : r[<<d, n>>] = Nothing
  /\ \A c \in Calls : r[<<c, n>>] # Nothing => t[n] = <<c, n>>

NodeInv(n, cl, t, r, a, now, u, tw) ==
  /\ t[n] # Nothing => t[n][2] = n
  /\ n \notin u => FilterKept(n, cl, t, r, a, now)
  /\ n \notin tw => OneKept(n, cl, t, r)

Tabled == [Nodes -> (Calls \X Nodes) \cup {Nothing}]
Runs == [Calls \X Nodes -> Filters \cup {Nothing}]

\* What the workers of a call write is what was asked for, and they write it to the
\* session of every node they come to.
LEMMA SniffKeepsFilter ==
  ASSUME NEW n \in Nodes, NEW c \in Calls, NEW w, NEW w2, NEW taken,
         NEW t \in Tabled, NEW r \in Runs, NEW a, NEW now, NEW cl, NEW cl2,
         DOMAIN cl = Calls, cl[c] = w, cl2 = [cl EXCEPT ![c] = w2],
         Ready(w), Ran(w2, w, taken, t, r),
         t[n] # Nothing => t[n][2] = n,
         FilterKept(n, cl, t, r, a, now)
  PROVE  FilterKept(n, cl2, t, Written(w, taken, t, r), a, now)
<1>1. cl2[c] = w2 /\ \A d \in Calls \ {c} : cl2[d] = cl[d]
  OBVIOUS
<1>2. Will(w, now) = w.filter /\ Will(w2, now) = w.filter
  BY DEF Will, Ready, Ran
<1>3. Owes(w2, n) => Owes(w, n)
  BY DEF Owes, Pends, Ran, ToOpen
<1>4. Owes(w, n) => w.filter = a[n]
  BY <1>2 DEF FilterKept
<1>5. ASSUME NEW d \in Calls, Owes(cl2[d], n) PROVE Will(cl2[d], now) = a[n]
  BY <1>1, <1>2, <1>3, <1>4, <1>5 DEF FilterKept
<1>6. ASSUME \A d \in Calls : ~Pends(cl2[d], n), t[n] # Nothing
      PROVE  Written(w, taken, t, r)[t[n]] \in {Nothing, a[n]}
  <2> DEFINE s == t[n]
  <2>1. s \in Calls \X Nodes /\ s[2] = n
    BY <1>6 DEF Tabled
  <2>2. Written(w, taken, t, r)[s] = IF n \in taken /\ r[s] # Nothing THEN w.filter ELSE r[s]
    BY <2>1 DEF Written, Runs
  <2>3. CASE n \in taken
    <3>1. w.filter = a[n]
      BY <1>4, <2>3 DEF Owes, Pends, Ran
    <3> QED BY <2>2, <2>3, <3>1
  <2>4. CASE n \notin taken
    <3>1. ~Pends(w, n)
      BY <1>1, <1>6, <2>4 DEF Pends, Ready, Ran
    <3>2. \A d \in Calls : ~Pends(cl[d], n)
      BY <1>1, <1>6, <3>1
    <3> QED BY <1>6, <2>2, <2>4, <3>2 DEF FilterKept
  <2> QED BY <2>3, <2>4
<1> QED BY <1>5, <1>6 DEF FilterKept

\* The workers of a call open a session only where none is open; another call that is
\* opening one there is noticed.
LEMMA SniffKeepsOne ==
  ASSUME NEW n \in Nodes, NEW c \in Calls, NEW w, NEW w2, NEW taken,
         NEW t, NEW r \in Runs, NEW cl, NEW cl2,
         DOMAIN cl = Calls, cl[c] = w, cl2 = [cl EXCEPT ![c] = w2],
         w.filter \in Filters, Ran(w2, w, taken, t, r),
         n \in ToOpen(w, taken, t, r) => \A d \in Calls \ {c} : n \notin cl[d].opening,
         OneKept(n, cl, t, r)
  PROVE  OneKept(n, cl2, t, Written(w, taken, t, r))
<1> DEFINE r2 == Written(w, taken, t, r)
<1>1. cl2[c] = w2 /\ \A d \in Calls \ {c} : cl2[d] = cl[d]
  OBVIOUS
<1>2. \A d \in Calls : r2[<<d, n>>] = Nothing <=> r[<<d, n>>] = Nothing
  <2>1. \A d \in Calls :
          r2[<<d, n>>] = IF n \in taken /\ t[n] = <<d, n>> /\ r[<<d, n>>] # Nothing THEN w.filter
                         ELSE r[<<d, n>>]
    BY DEF Written, Runs
  <2>2. Nothing \notin Filters
    BY SnifferAssumption DEF SnifferAssumption
  <2> QED BY <2>1, <2>2
<1> HIDE DEF r2
<1>3. n \in w2.opening => n \in w.opening \/ n \in ToOpen(w, taken, t, r)
  BY DEF Ran
<1>4. n \in ToOpen(w, taken, t, r) => \A d \in Calls : r[<<d, n>>] = Nothing
  <2>1. Nothing \notin Calls \X Nodes
    BY SnifferAssumption DEF SnifferAssumption
  <2>2. n \in ToOpen(w, taken, t, r) => ~HasSession(n, t, r)
    BY DEF ToOpen
  <2> QED BY <2>1, <2>2 DEF HasSession, OneKept
<1>5. \A d, e \in Calls : n \in cl2[d].opening /\ n \in cl2[e].opening => d = e
  BY <1>1, <1>3 DEF OneKept
<1>6. ASSUME NEW d \in Calls, n \in cl2[d].opening, NEW e \in Calls PROVE r2[<<e, n>>] = Nothing
  <2>1. CASE n \in cl[d].opening
    BY <1>2, <2>1 DEF OneKept
  <2>2. CASE n \notin cl[d].opening
    <3>1. n \in ToOpen(w, taken, t, r)
      BY <1>1, <1>3, <1>6, <2>2
    <3> QED BY <1>2, <1>4, <3>1
  <2> QED BY <2>1, <2>2
<1>7. \A d \in Calls : r2[<<d, n>>] # Nothing => t[n] = <<d, n>>
  BY <1>2 DEF OneKept
<1> QED BY <1>5, <1>6, <1>7 DEF OneKept, r2

\* Only the call c is another: it may be past the node only if it was.
LEMMA RelayKeepsFilter ==
  ASSUME NEW n, NEW c \in Calls, NEW w, NEW t, NEW r, NEW a, NEW now, NEW cl, NEW cl2,
         DOMAIN cl = Calls, cl2 = [cl EXCEPT ![c] = w],
         FilterKept(n, cl, t, r, a, now),
         Owes(w, n) => Owes(cl[c], n) /\ Will(w, now) = Will(cl[c], now),
         Pends(cl[c], n) => Pends(w, n)
  PROVE  FilterKept(n, cl2, t, r, a, now)
<1>1. cl2[c] = w /\ \A d \in Calls \ {c} : cl2[d] = cl[d]
  OBVIOUS
<1>2. \A d \in Calls : Owes(cl2[d], n) => Owes(cl[d], n) /\ Will(cl2[d], now) = Will(cl[d], now)
  BY <1>1
<1>3. \A d \in Calls : Pends(cl[d], n) => Pends(cl2[d], n)
  BY <1>1
<1> QED BY <1>2, <1>3 DEF FilterKept

\* Only the call c is another: it may open the node only if it was opening it.
LEMMA RelayKeepsOne ==
  ASSUME NEW n, NEW c \in Calls, NEW w, NEW t, NEW r, NEW cl, NEW cl2,
         DOMAIN cl = Calls, cl2 = [cl EXCEPT ![c] = w],
         OneKept(n, cl, t, r), n \in w.opening => n \in cl[c].opening
  PROVE  OneKept(n, cl2, t, r)
<1>1. \A d \in Calls : n \in cl2[d].opening => n \in cl[d].opening
  OBVIOUS
<1> QED BY <1>1 DEF OneKept

-----------------------------------------------------------------------------
(* The steps of the sniffer *)

CallsInv == call \in [Calls -> Work] /\ \A c \in Calls : Workers(call[c])

NodesInv ==
  /\ table \in Tabled
  /\ running \in Runs
  /\ asked \in [Nodes -> Filters]
  /\ current \in Filters
  /\ unsure \subseteq Nodes
  /\ twice \subseteq Nodes
  /\ \A n \in Nodes : NodeInv(n, call, table, running, asked, current, unsure, twice)

\* The workers of a call run: what held as they began holds as they end.
LEMMA SniffStep ==
  ASSUME CallsInv, NEW c \in Calls, NEW w, Ready(w), NEW t \in Tabled, NEW r \in Runs,
         Sniff(c, w, t, r), asked' \in [Nodes -> Filters], current' \in Filters,
         unsure' \subseteq Nodes, twice \subseteq Nodes,
         \A n \in Nodes : NodeInv(n, [call EXCEPT ![c] = w], t, r, asked', current', unsure', twice)
  PROVE  CallsInv' /\ NodesInv'
<1> DEFINE next == Taken(w, t, r)
           taken == ToSet(next)
           w2 == Settled([w EXCEPT !.opening = @ \cup ToOpen(w, ToSet(next), t, r),
                                   !.left = SubSeq(@, Len(next) + 1, Len(@))])
           open == ToOpen(w, ToSet(next), t, r)
<1>1. Workers(w2) /\ Ran(w2, w, taken, t, r)
  BY WorkersRun
<1>2. /\ call' = [call EXCEPT ![c] = w2] /\ table' = t /\ running' = Written(w, taken, t, r)
      /\ twice' = twice \cup {n \in open : \E d \in Calls \ {c} : n \in call[d].opening}
  BY DEF Sniff
<1>3. open \subseteq Nodes
  <2>1. ToOpen(w, taken, t, r) \subseteq taken
    BY DEF ToOpen
  <2>2. taken \subseteq ToSet(w.left) /\ ToSet(w.left) \subseteq Nodes
    BY <1>1 DEF Ran, Ready, Work
  <2> HIDE DEF next
  <2> QED BY <2>1, <2>2
<1>4. open = ToOpen(w, taken, t, r)
  OBVIOUS
<1> HIDE DEF w2, taken, open
<1>5. w2 \in Work /\ call \in [Calls -> Work] /\ DOMAIN call = Calls
  BY <1>1 DEF Workers, CallsInv
<1>6. CallsInv'
  <2>1. call' \in [Calls -> Work]
    BY <1>2, <1>5
  <2>2. ASSUME NEW d \in Calls PROVE Workers(call'[d])
    <3>1. call'[d] = IF d = c THEN w2 ELSE call[d]
      BY <1>2, <1>5
    <3> QED BY <1>1, <3>1 DEF CallsInv
  <2> QED BY <2>1, <2>2 DEF CallsInv
<1>7. running' \in Runs
  BY <1>2 DEF Written, Runs, Ready, Work
<1>8. twice' \subseteq Nodes
  BY <1>2, <1>3
<1>9. ASSUME NEW n \in Nodes
      PROVE  NodeInv(n, call', table', running', asked', current', unsure', twice')
  <2> DEFINE cl == [call EXCEPT ![c] = w]
             cl2 == [cl EXCEPT ![c] = w2]
  <2>1. cl2 = call'
    BY <1>2, <1>5
  <2>2. /\ DOMAIN cl = Calls /\ cl[c] = w /\ NodeInv(n, cl, t, r, asked', current', unsure', twice)
        /\ \A d \in Calls \ {c} : cl[d] = call[d]
    BY <1>5
  <2> HIDE DEF cl
  <2>3. t[n] # Nothing => t[n][2] = n
    BY <2>2 DEF NodeInv
  <2>4. ASSUME n \notin unsure' PROVE FilterKept(n, cl2, t, Written(w, taken, t, r), asked', current')
    <3>1. FilterKept(n, cl, t, r, asked', current')
      BY <2>2, <2>4 DEF NodeInv
    <3> QED BY <1>1, <2>2, <2>3, <3>1, SniffKeepsFilter
  <2>5. ASSUME n \notin twice' PROVE OneKept(n, cl2, t, Written(w, taken, t, r))
    <3>1. n \notin twice /\ (n \in open => \A d \in Calls \ {c} : n \notin call[d].opening)
      BY <1>2, <2>5
    <3>2. OneKept(n, cl, t, r)
      BY <2>2, <3>1 DEF NodeInv
    <3>3. w.filter \in Filters
      BY DEF Ready, Work
    <3> QED BY <1>1, <1>4, <2>2, <3>1, <3>2, <3>3, SniffKeepsOne
  <2> HIDE DEF cl2
  <2> QED BY <1>2, <2>1, <2>3, <2>4, <2>5 DEF NodeInv
<1> QED BY <1>2, <1>6, <1>7, <1>8, <1>9 DEF NodesInv

\* The containers are listed: all of them are left, and the filter is that of the moment.
LEMMA ListedStep ==
  ASSUME CallsInv, NodesInv, NEW c \in Calls, Listed(c)
  PROVE  CallsInv' /\ NodesInv'
<1> DEFINE w == [call[c] EXCEPT !.at = "sniffing", !.left = NodeList, !.filter = current]
<1>1. call[c].at = "listing" /\ Sniff(c, w, table, running) /\ UNCHANGED <<asked, unsure, current>>
  BY DEF Listed, listeners
<1>2. Workers(call[c]) /\ call[c] \in Work /\ DOMAIN call = Calls /\ current \in Filters
  BY DEF CallsInv, Workers, NodesInv
<1>3. NodeList \in Seq(Nodes) /\ Injective(NodeList) /\ ToSet(NodeList) = Nodes
  BY SnifferAssumption DEF SnifferAssumption, Injective, ToSet, Nodes
<1>4. /\ w \in Work /\ w.at = "sniffing" /\ w.left = NodeList /\ w.nodes = call[c].nodes
      /\ w.opening = {} /\ w.filter = current
  BY <1>1, <1>2, <1>3 DEF Work, Workers
<1> HIDE DEF w
<1>5. Cardinality({}) < Concurrency
  BY FS_EmptySet, SnifferAssumption DEF SnifferAssumption
<1>6. Ready(w)
  BY <1>1, <1>2, <1>3, <1>4, <1>5 DEF Ready, Workers
<1>7. ASSUME NEW n \in Nodes
      PROVE  NodeInv(n, [call EXCEPT ![c] = w], table, running, asked, current, unsure, twice)
  <2>1. NodeInv(n, call, table, running, asked, current, unsure, twice)
    BY DEF NodesInv
  <2>2. Owes(call[c], n) /\ Pends(w, n) /\ Will(w, current) = Will(call[c], current)
    BY <1>1, <1>3, <1>4 DEF Owes, Pends, Will
  <2>3. n \notin w.opening
    BY <1>4
  <2> QED BY <1>2, <2>1, <2>2, <2>3, RelayKeepsFilter, RelayKeepsOne DEF NodeInv
<1> QED BY <1>1, <1>2, <1>6, <1>7, SniffStep DEF NodesInv

\* A request asks for a filter: whoever may yet write another makes the node unsure, and
\* a node of which that is not so is sure from now on.
LEMMA AskKeepsNode ==
  ASSUME CallsInv, NodesInv, NEW c \in Calls, call[c].at = "new",
         NEW nodes \in SUBSET Nodes, NEW f \in Filters, NEW now, Ask(nodes, f, now),
         now = current \/ nodes = Nodes,
         NEW w, w.opening = {}, Will(w, now) = f,
         \A n \in Nodes : Pends(w, n) <=> n \in nodes
  PROVE  /\ asked' \in [Nodes -> Filters] /\ unsure' \subseteq Nodes
         /\ \A n \in Nodes :
              NodeInv(n, [call EXCEPT ![c] = w], table, running, asked', now, unsure', twice)
<1>1. asked' \in [Nodes -> Filters] /\ unsure' \subseteq Nodes
  BY DEF Ask, NodesInv
<1>2. DOMAIN call = Calls /\ \A d \in Calls : Workers(call[d])
  BY DEF CallsInv
<1> DEFINE cl == [call EXCEPT ![c] = w]
<1>3. cl[c] = w /\ \A d \in Calls \ {c} : cl[d] = call[d]
  BY <1>2
<1>4. ASSUME NEW n \in Nodes
      PROVE  NodeInv(n, cl, table, running, asked', now, unsure', twice)
  <2>1. NodeInv(n, call, table, running, asked, current, unsure, twice)
    BY DEF NodesInv
  <2>2. ASSUME n \notin twice PROVE OneKept(n, cl, table, running)
    BY <1>2, <2>1, <2>2, RelayKeepsOne DEF NodeInv
  <2>3. ASSUME n \notin unsure', n \in nodes PROVE FilterKept(n, cl, table, running, asked', now)
    <3>1. asked'[n] = f /\ Pends(w, n)
      BY <2>3 DEF Ask
    <3>2. \A d \in Calls : Owes(call[d], n) => Will(call[d], now) = f
      BY <2>3 DEF Ask, ToWrite, ToCome, FilterOf, Owes, Pends, Will
    <3>3. \A d \in Calls : Owes(cl[d], n) => Will(cl[d], now) = f
      BY <1>3, <3>2
    <3> HIDE DEF cl
    <3> QED BY <1>3, <3>1, <3>3 DEF FilterKept
  <2>4. ASSUME n \notin unsure', n \notin nodes PROVE FilterKept(n, cl, table, running, asked', now)
    <3>1. asked'[n] = asked[n] /\ n \notin unsure /\ now = current
      BY <2>4 DEF Ask, NodesInv
    <3>2. FilterKept(n, call, table, running, asked', now)
      BY <2>1, <3>1 DEF NodeInv, FilterKept
    <3>3. ~Owes(w, n) /\ ~Pends(call[c], n)
      <4>1. Workers(call[c])
        BY <1>2
      <4>2. ToSet(<<>>) = {}
        BY EmptySeq DEF ToSet
      <4> QED BY <2>4, <4>1, <4>2 DEF Owes, Pends, Workers
    <3> QED BY <1>2, <3>2, <3>3, RelayKeepsFilter
  <2> HIDE DEF cl
  <2> QED BY <2>1, <2>2, <2>3, <2>4 DEF NodeInv
<1> QED BY <1>1, <1>4

\* POST /sniff asks for its filter at every node before it knows the containers, and
\* every request that waits for them will read this one.
LEMMA PostSniffStep ==
  ASSUME CallsInv, NodesInv, NEW c \in Calls, NEW f \in Filters, PostSniff(c, f)
  PROVE  CallsInv' /\ NodesInv'
<1> DEFINE w == [Idle EXCEPT !.at = "listing", !.nodes = Nodes]
<1>1. /\ call[c].at = "new" /\ call' = [call EXCEPT ![c] = w] /\ Ask(Nodes, f, f)
      /\ current' = f /\ UNCHANGED <<table, running, twice>>
  BY DEF PostSniff, sessions
<1>2. /\ w.at = "listing" /\ w.nodes = Nodes /\ w.left = <<>> /\ w.opening = {}
      /\ w.failed = FALSE /\ w \in Work
  BY EmptySeq, SnifferAssumption DEF SnifferAssumption, Idle, Work
<1> HIDE DEF w
<1>3. Workers(w)
  <2>1. Injective(<<>>) /\ ToSet(<<>>) = {}
    BY EmptySeq DEF Injective, ToSet
  <2>2. Cardinality({}) <= Concurrency
    BY FS_EmptySet, SnifferAssumption DEF SnifferAssumption
  <2> QED BY <1>2, <2>1, <2>2 DEF Workers
<1>4. call \in [Calls -> Work]
  BY DEF CallsInv
<1>5. CallsInv'
  BY <1>1, <1>2, <1>3, <1>4 DEF CallsInv
<1>6. Will(w, f) = f /\ \A n \in Nodes : Pends(w, n)
  BY <1>2 DEF Will, Pends
<1>7. /\ asked' \in [Nodes -> Filters] /\ unsure' \subseteq Nodes
      /\ \A n \in Nodes : NodeInv(n, call', table, running, asked', f, unsure', twice)
  BY <1>1, <1>2, <1>6, AskKeepsNode
<1> QED BY <1>1, <1>5, <1>7 DEF NodesInv

\* POST /packet asks for its filter at one node, and its worker runs at once.
LEMMA PostPacketStep ==
  ASSUME CallsInv, NodesInv, NEW c \in Calls, NEW n \in Nodes, NEW f \in Filters, PostPacket(c, n, f)
  PROVE  CallsInv' /\ NodesInv'
<1> DEFINE w == [Idle EXCEPT !.at = "sniffing", !.nodes = {n}, !.filter = f, !.left = <<n>>]
<1>1. call[c].at = "new" /\ Ask({n}, f, current) /\ Sniff(c, w, table, running) /\ UNCHANGED current
  BY DEF PostPacket
<1>2. /\ w.at = "sniffing" /\ w.nodes = {n} /\ w.filter = f /\ w.left = <<n>> /\ w.opening = {}
      /\ w \in Work
  <2>1. <<n>> \in Seq(Nodes) /\ {n} \in SUBSET Nodes /\ {} \in SUBSET Nodes
    OBVIOUS
  <2> DEFINE one == <<n>>
  <2>2. one \in Seq(Nodes)
    BY <2>1
  <2> HIDE DEF one
  <2>3. LET v == [Idle EXCEPT !.at = "sniffing", !.nodes = {n}, !.filter = f, !.left = one]
        IN  /\ v.at = "sniffing" /\ v.nodes = {n} /\ v.filter = f /\ v.left = one /\ v.opening = {}
            /\ v \in Work
    BY <2>1, <2>2 DEF Idle, Work
  <2> QED BY <2>3 DEF one
<1>3. ToSet(<<n>>) = {n} /\ Injective(<<n>>)
  BY DEF ToSet, Injective
<1> HIDE DEF w
<1>4. Cardinality({}) < Concurrency
  BY FS_EmptySet, SnifferAssumption DEF SnifferAssumption
<1>5. Ready(w)
  BY <1>2, <1>3, <1>4 DEF Ready
<1>6. Will(w, current) = f /\ \A m \in Nodes : Pends(w, m) <=> m \in {n}
  BY <1>2, <1>3 DEF Will, Pends
<1>7. {n} \in SUBSET Nodes
  OBVIOUS
<1>8. /\ asked' \in [Nodes -> Filters] /\ unsure' \subseteq Nodes
      /\ \A m \in Nodes : NodeInv(m, [call EXCEPT ![c] = w], table, running, asked', current, unsure', twice)
  BY <1>1, <1>2, <1>6, <1>7, AskKeepsNode
<1> QED BY <1>1, <1>5, <1>8, SniffStep DEF NodesInv

\* A worker has an answer: it is free again.
LEMMA FreeWorker ==
  ASSUME CallsInv, NEW c \in Calls, NEW n \in call[c].opening, NEW w \in Work,
         w.at = call[c].at, w.nodes = call[c].nodes, w.left = call[c].left,
         w.opening = call[c].opening \ {n}
  PROVE  Ready(w)
<1>1. Workers(call[c]) /\ call[c] \in Work
  BY DEF CallsInv, Workers
<1>2. call[c].at = "sniffing"
  BY <1>1 DEF Workers
<1>3. Cardinality(call[c].opening \ {n}) < Concurrency
  <2> DEFINE S == call[c].opening
  <2>1. S \subseteq Nodes /\ Cardinality(S) <= Concurrency /\ n \in S
    BY <1>1 DEF Work, Workers
  <2> HIDE DEF S
  <2>2. IsFiniteSet(S) /\ Cardinality(S) \in Nat
    BY <2>1, NodesAreFinite, FS_Subset, FS_CardinalityType
  <2>3. Cardinality(S \ {n}) = Cardinality(S) - 1
    BY <2>1, <2>2, FS_RemoveElement
  <2>4. Cardinality(S \ {n}) < Concurrency
    BY <2>1, <2>2, <2>3, SnifferAssumption DEF SnifferAssumption
  <2> QED BY <2>4 DEF S
<1> QED BY <1>1, <1>2, <1>3 DEF Ready, Workers

\* A session that cannot be opened frees its worker as one that opens does.
LEMMA OpenFailsStep ==
  ASSUME CallsInv, NodesInv, NEW c \in Calls, NEW n \in Nodes, OpenFails(c, n)
  PROVE  CallsInv' /\ NodesInv'
<1> DEFINE w == [call[c] EXCEPT !.opening = @ \ {n}, !.failed = TRUE]
<1>1. n \in call[c].opening /\ Sniff(c, w, table, running) /\ UNCHANGED <<asked, unsure, current>>
  BY DEF OpenFails, listeners
<1>2. /\ Ready(w) /\ w.nodes = call[c].nodes /\ w.filter = call[c].filter
      /\ w.opening = call[c].opening \ {n} /\ w.left = call[c].left /\ w.at = call[c].at
  <2>1. call[c] \in Work
    BY DEF CallsInv
  <2>2. /\ w \in Work /\ w.nodes = call[c].nodes /\ w.filter = call[c].filter
        /\ w.opening = call[c].opening \ {n} /\ w.left = call[c].left /\ w.at = call[c].at
    BY <2>1 DEF Work
  <2> HIDE DEF w
  <2> QED BY <1>1, <2>2, FreeWorker
<1> HIDE DEF w
<1>3. DOMAIN call = Calls
  BY DEF CallsInv
<1>4. ASSUME NEW m \in Nodes
      PROVE  NodeInv(m, [call EXCEPT ![c] = w], table, running, asked, current, unsure, twice)
  <2>1. NodeInv(m, call, table, running, asked, current, unsure, twice)
    BY DEF NodesInv
  <2>2. /\ Pends(w, m) <=> Pends(call[c], m)
        /\ Owes(w, m) => Owes(call[c], m)
        /\ Will(w, current) = Will(call[c], current)
        /\ m \in w.opening => m \in call[c].opening
    BY <1>2 DEF Owes, Pends, Will
  <2> QED BY <1>3, <2>1, <2>2, RelayKeepsFilter, RelayKeepsOne DEF NodeInv
<1> QED BY <1>1, <1>2, <1>4, SniffStep DEF NodesInv

\* The new session is the one the table knows, and runs the filter of its call.
LEMMA SessionOpensStep ==
  ASSUME CallsInv, NodesInv, NEW c \in Calls, NEW n \in Nodes, SessionOpens(c, n)
  PROVE  CallsInv' /\ NodesInv'
<1> DEFINE s == <<c, n>>
           w == [call[c] EXCEPT !.opening = @ \ {n}]
           t == [table EXCEPT ![n] = s]
           r == [running EXCEPT ![s] = call[c].filter]
           cl == [call EXCEPT ![c] = w]
<1>1. n \in call[c].opening /\ Sniff(c, w, t, r) /\ UNCHANGED <<asked, unsure, current>>
  BY DEF SessionOpens, listeners
<1>2. Workers(call[c]) /\ call[c] \in Work /\ DOMAIN call = Calls
  BY DEF CallsInv, Workers
<1>3. /\ Ready(w) /\ w.nodes = call[c].nodes /\ w.filter = call[c].filter
      /\ w.opening = call[c].opening \ {n} /\ w.left = call[c].left /\ w.at = call[c].at
  <2>1. /\ w \in Work /\ w.nodes = call[c].nodes /\ w.filter = call[c].filter
        /\ w.opening = call[c].opening \ {n} /\ w.left = call[c].left /\ w.at = call[c].at
    BY <1>2 DEF Work
  <2> HIDE DEF w
  <2> QED BY <1>1, <2>1, FreeWorker
<1> HIDE DEF w
<1>4. t \in Tabled /\ r \in Runs
  BY <1>2 DEF Work, NodesInv, Tabled, Runs
<1>5. /\ \A m \in Nodes : t[m] = IF m = n THEN s ELSE table[m]
      /\ \A x \in Calls \X Nodes : r[x] = IF x = s THEN call[c].filter ELSE running[x]
  BY DEF NodesInv, Tabled, Runs
<1>6. cl[c] = w /\ \A d \in Calls \ {c} : cl[d] = call[d]
  BY <1>2
<1> HIDE DEF t, r
<1>7. ASSUME NEW m \in Nodes PROVE NodeInv(m, cl, t, r, asked, current, unsure, twice)
  <2>1. /\ NodeInv(m, call, table, running, asked, current, unsure, twice)
        /\ table[m] \in (Calls \X Nodes) \cup {Nothing}
    BY DEF NodesInv, Tabled
  <2>2. /\ Pends(w, m) <=> Pends(call[c], m)
        /\ Owes(w, m) => Owes(call[c], m)
        /\ Will(w, current) = Will(call[c], current)
        /\ m \in w.opening => m \in call[c].opening
    BY <1>3 DEF Owes, Pends, Will
  <2>3. CASE m # n
    <3>1. \A d \in Calls : r[<<d, m>>] = running[<<d, m>>]
      BY <1>5, <2>3
    <3>2. t[m] = table[m] /\ (table[m] # Nothing => table[m][2] = m)
      BY <1>5, <2>1, <2>3 DEF NodeInv
    <3>3. table[m] # Nothing => r[table[m]] = running[table[m]]
      <4> SUFFICES ASSUME table[m] # Nothing PROVE r[table[m]] = running[table[m]]
        OBVIOUS
      <4>1. table[m] \in Calls \X Nodes /\ table[m] # s
        BY <2>1, <2>3, <3>2
      <4> QED BY <1>5, <4>1
    <3>4. NodeInv(m, call, t, r, asked, current, unsure, twice)
      BY <2>1, <3>1, <3>2, <3>3 DEF NodeInv, FilterKept, OneKept
    <3> QED BY <1>2, <2>2, <3>4, RelayKeepsFilter, RelayKeepsOne DEF NodeInv
  <2>4. CASE m = n
    <3>1. t[n] = s /\ s \in Calls \X Nodes /\ r[s] = call[c].filter
      BY <1>5
    <3>2. ASSUME n \notin unsure PROVE FilterKept(n, cl, t, r, asked, current)
      <4>1. FilterKept(n, call, table, running, asked, current)
        BY <2>1, <2>4, <3>2 DEF NodeInv
      <4>2. call[c].filter = asked[n]
        <5>1. Owes(call[c], n) /\ call[c].at = "sniffing"
          BY <1>1, <1>2 DEF Owes, Workers
        <5> QED BY <4>1, <5>1 DEF FilterKept, Will
      <4>3. \A d \in Calls : Owes(cl[d], n) => Will(cl[d], current) = asked[n]
        BY <1>6, <2>2, <2>4, <4>1 DEF FilterKept
      <4> HIDE DEF s, cl
      <4> QED BY <3>1, <4>2, <4>3 DEF FilterKept
    <3>3. ASSUME n \notin twice PROVE OneKept(n, cl, t, r)
      <4>1. OneKept(n, call, table, running)
        BY <2>1, <2>4, <3>3 DEF NodeInv
      <4>2. \A d \in Calls : running[<<d, n>>] = Nothing
        BY <1>1, <4>1 DEF OneKept
      <4>3. \A d \in Calls : n \notin cl[d].opening
        BY <1>1, <1>3, <1>6, <4>1 DEF OneKept
      <4>4. \A d \in Calls : r[<<d, n>>] # Nothing => t[n] = <<d, n>>
        BY <1>5, <4>2
      <4> QED BY <4>3, <4>4 DEF OneKept
    <3> QED BY <2>4, <3>1, <3>2, <3>3 DEF NodeInv
  <2> QED BY <2>3, <2>4
<1>8. /\ asked \in [Nodes -> Filters] /\ current \in Filters /\ unsure \subseteq Nodes
      /\ twice \subseteq Nodes
  BY DEF NodesInv
<1> QED BY <1>1, <1>3, <1>4, <1>7, <1>8, SniffStep

\* The containers cannot be listed: a node stays sure if another call has yet to come to it.
LEMMA ListFailsStep ==
  ASSUME CallsInv, NodesInv, NEW c \in Calls, ListFails(c)
  PROVE  CallsInv' /\ NodesInv'
<1> DEFINE w == [call[c] EXCEPT !.at = "failed"]
<1>1. /\ call[c].at = "listing" /\ call' = [call EXCEPT ![c] = w]
      /\ unsure' = unsure \cup {n \in Nodes : \A d \in Calls \ {c} : ~ToCome(d, n)}
      /\ UNCHANGED <<table, running, asked, current, twice>>
  BY DEF ListFails, sessions, listeners
<1>2. Workers(call[c]) /\ call[c] \in Work /\ call \in [Calls -> Work] /\ DOMAIN call = Calls
  BY DEF CallsInv, Workers
<1>3. /\ w \in Work /\ w.at = "failed" /\ w.left = call[c].left /\ w.nodes = call[c].nodes
      /\ w.opening = call[c].opening
  BY <1>2 DEF Work, Answered
<1> HIDE DEF w
<1>4. Workers(w)
  BY <1>1, <1>2, <1>3 DEF Workers
<1>5. CallsInv'
  BY <1>1, <1>2, <1>3, <1>4 DEF CallsInv
<1>6. ASSUME NEW n \in Nodes
      PROVE  NodeInv(n, call', table, running, asked, current, unsure', twice)
  <2>1. NodeInv(n, call, table, running, asked, current, unsure, twice)
    BY DEF NodesInv
  <2>2. call'[c] = w /\ \A d \in Calls \ {c} : call'[d] = call[d]
    BY <1>1, <1>2
  <2>3. ASSUME n \notin unsure' PROVE FilterKept(n, call', table, running, asked, current)
    <3>1. FilterKept(n, call, table, running, asked, current)
      BY <1>1, <2>1, <2>3 DEF NodeInv
    <3>2. \E d \in Calls \ {c} : Pends(call[d], n)
      BY <1>1, <2>3 DEF ToCome, Pends
    <3>3. ~Owes(w, n)
      <4>1. ToSet(<<>>) = {}
        BY EmptySeq DEF ToSet
      <4> QED BY <1>3, <1>4, <4>1 DEF Owes, Pends, Workers
    <3>4. \E d \in Calls : Pends(call'[d], n)
      BY <2>2, <3>2
    <3>5. \A d \in Calls : Owes(call'[d], n) => Will(call'[d], current) = asked[n]
      BY <2>2, <3>1, <3>3 DEF FilterKept
    <3> QED BY <3>4, <3>5 DEF FilterKept
  <2>4. ASSUME n \notin twice PROVE OneKept(n, call', table, running)
    BY <1>1, <1>2, <1>3, <2>1, <2>4, RelayKeepsOne DEF NodeInv
  <2> QED BY <2>1, <2>3, <2>4 DEF NodeInv
<1> QED BY <1>1, <1>5, <1>6 DEF NodesInv

\* A session that ends is one less that is open.
LEMMA SessionEndsStep ==
  ASSUME CallsInv, NodesInv, NEW s \in Calls \X Nodes, SessionEnds(s)
  PROVE  CallsInv' /\ NodesInv'
<1>1. /\ running' = [running EXCEPT ![s] = Nothing]
      /\ UNCHANGED <<call, table, asked, unsure, twice, current>>
  BY DEF SessionEnds, history, listeners
<1>2. running' \in Runs
  BY <1>1 DEF NodesInv, Runs
<1>3. \A x \in Calls \X Nodes : running'[x] = running[x] \/ running'[x] = Nothing
  BY <1>1 DEF NodesInv, Runs
<1>4. ASSUME NEW n \in Nodes
      PROVE  NodeInv(n, call, table, running', asked, current, unsure, twice)
  <2>1. /\ NodeInv(n, call, table, running, asked, current, unsure, twice)
        /\ table[n] \in (Calls \X Nodes) \cup {Nothing}
    BY DEF NodesInv, Tabled
  <2>2. \A d \in Calls : running'[<<d, n>>] = running[<<d, n>>] \/ running'[<<d, n>>] = Nothing
    BY <1>3
  <2>3. table[n] # Nothing => running'[table[n]] = running[table[n]] \/ running'[table[n]] = Nothing
    BY <1>3, <2>1
  <2>4. n \notin unsure => FilterKept(n, call, table, running', asked, current)
    BY <2>1, <2>3 DEF NodeInv, FilterKept
  <2>5. n \notin twice => OneKept(n, call, table, running')
    BY <2>1, <2>2 DEF NodeInv, OneKept
  <2> QED BY <2>1, <2>4, <2>5 DEF NodeInv
<1> QED BY <1>1, <1>2, <1>4 DEF CallsInv, NodesInv

\* A new process has no call under way and no session.
LEMMA RestartKeepsNodes ==
  ASSUME CallsInv, NodesInv, Restart
  PROVE  CallsInv' /\ NodesInv'
<1>1. /\ call' = [c \in Calls |-> IF Working(c) THEN [call[c] EXCEPT !.at = "lost", !.opening = {}, !.left = <<>>]
                                  ELSE call[c]]
      /\ table' = [n \in Nodes |-> Nothing] /\ running' = [s \in Calls \X Nodes |-> Nothing]
      /\ current' = Off /\ unsure' = {} /\ twice' = {} /\ UNCHANGED asked
  BY DEF Restart
<1>2. ToSet(<<>>) = {}
  BY EmptySeq DEF ToSet
<1>3. ASSUME NEW c \in Calls
      PROVE  /\ call'[c] \in Work /\ Workers(call'[c]) /\ call'[c].opening = {}
             /\ \A n \in Nodes : ~Owes(call'[c], n)
  <2>1. Workers(call[c]) /\ call[c] \in Work
    BY DEF CallsInv, Workers
  <2>2. CASE Working(c)
    <3> DEFINE w == [call[c] EXCEPT !.at = "lost", !.opening = {}, !.left = <<>>]
    <3>1. call'[c] = w
      BY <1>1, <2>2
    <3>2. /\ w \in Work /\ w.at = "lost" /\ w.opening = {} /\ w.left = <<>>
      BY <2>1, EmptySeq DEF Work, Answered
    <3> HIDE DEF w
    <3>3. Injective(<<>>)
      BY EmptySeq DEF Injective
    <3>4. Cardinality({}) <= Concurrency
      BY FS_EmptySet, SnifferAssumption DEF SnifferAssumption
    <3>5. Workers(w)
      BY <1>2, <3>2, <3>3, <3>4 DEF Workers
    <3> QED BY <1>2, <3>1, <3>2, <3>5 DEF Owes, Pends
  <2>3. CASE ~Working(c)
    <3>1. call'[c] = call[c] /\ call[c].at \notin {"listing", "sniffing"}
      BY <1>1, <2>3 DEF Working
    <3> QED BY <1>2, <2>1, <3>1 DEF Owes, Pends, Workers
  <2> QED BY <2>2, <2>3
<1>4. call' \in [Calls -> Work]
  <2>1. call' = [c \in Calls |-> call'[c]]
    BY <1>1
  <2> QED BY <1>3, <2>1
<1>5. \A n \in Nodes : NodeInv(n, call', table', running', asked, Off, {}, {})
  BY <1>1, <1>3 DEF NodeInv, FilterKept, OneKept
<1>6. Off \in Filters
  BY SnifferAssumption DEF SnifferAssumption
<1> QED BY <1>1, <1>3, <1>4, <1>5, <1>6 DEF CallsInv, NodesInv, Tabled, Runs

-----------------------------------------------------------------------------
(* The subscribers *)

\* A list names a socket once, and one that has not come not at all.
SocketsInv ==
  /\ readyState \in [Sockets -> {"new", "open", "closed"}]
  /\ subscribers \in [Kinds -> Seq(Sockets)]
  /\ misplaced \in BOOLEAN
  /\ \A k \in Kinds : Injective(subscribers[k])
  /\ \A s \in Sockets : readyState[s] = "new" => \A k \in Kinds : s \notin ToSet(subscribers[k])
  /\ SubscribersStay

\* What is left of a list when its last members are taken from it, or all.
LEMMA MispruneKeeps ==
  ASSUME NEW V, NEW list \in Seq(V), Injective(list), NEW dead \in Seq(V)
  PROVE  /\ Misprune(list, dead) \in Seq(V)
         /\ Injective(Misprune(list, dead))
         /\ ToSet(Misprune(list, dead)) \subseteq ToSet(list)
         /\ dead = <<>> => Misprune(list, dead) = list
<1> DEFINE n == Len(list)
           k == n - Len(dead)
           short == SubSeq(list, 1, k)
<1>1. n \in Nat /\ Len(dead) \in Nat
  BY LenProperties
<1>2. CASE k \in 0..n
  <2>1. short \in Seq(V) /\ Injective(short) /\ ToSet(short) \subseteq ToSet(list)
    BY <1>2, SplitList
  <2>2. ASSUME dead = <<>> PROVE short = list
    <3>1. k = n
      BY <1>1, <2>2, EmptySeq
    <3>2. Len(short) = n /\ \A i \in 1..n : short[i] = list[i]
      BY <1>2, <3>1, SplitList
    <3> HIDE DEF short
    <3> QED BY <2>1, <3>2, SeqEqual
  <2> QED BY <2>1, <2>2 DEF Misprune
<1>3. CASE k \notin 0..n
  <2>1. k \in Int /\ ~(1 <= k)
    BY <1>1, <1>3
  <2>2. short \in Seq(V) /\ Len(short) = 0
    <3> HIDE DEF k
    <3>1. \A i \in 1..k : list[i] \in V
      BY <2>1
    <3>2. short \in Seq(V) /\ Len(short) = IF 1 <= k THEN k - 1 + 1 ELSE 0
      BY <2>1, <3>1, SubSeqProperties
    <3> QED BY <2>1, <3>2
  <2>3. short = <<>>
    <3> HIDE DEF short
    <3> QED BY <2>2, EmptySeq
  <2>4. Injective(<<>>) /\ ToSet(<<>>) = {} /\ <<>> \in Seq(V)
    BY EmptySeq DEF Injective, ToSet
  <2>5. dead # <<>>
    BY <1>1, <1>3, EmptySeq
  <2> HIDE DEF short
  <2> QED BY <2>3, <2>4, <2>5 DEF Misprune, short, k, n
<1> QED BY <1>2, <1>3

\* A socket is appended to the list of its route, where it was not.
LEMMA ConnectStep ==
  ASSUME SocketsInv, NEW s \in Sockets, Connect(s)
  PROVE  SocketsInv'
<1> DEFINE k == KindOf(s)
           list == subscribers[k]
           more == Append(list, s)
<1>1. /\ readyState[s] = "new" /\ readyState' = [readyState EXCEPT ![s] = "open"]
      /\ subscribers' = [subscribers EXCEPT ![k] = more] /\ UNCHANGED misplaced
  BY DEF Connect
<1>2. k \in Kinds /\ list \in Seq(Sockets) /\ Injective(list) /\ s \notin ToSet(list)
  BY <1>1, SnifferAssumption DEF SnifferAssumption, SocketsInv
<1>3. /\ more \in Seq(Sockets) /\ Len(more) = Len(list) + 1 /\ Len(list) \in Nat
      /\ \A i \in 1..Len(list) : more[i] = list[i]
      /\ more[Len(list) + 1] = s
      /\ DOMAIN list = 1..Len(list) /\ DOMAIN more = 1..(Len(list) + 1)
  BY <1>2, AppendProperties, LenProperties
<1>4. \A j \in Kinds : subscribers'[j] = IF j = k THEN more ELSE subscribers[j]
  BY <1>1 DEF SocketsInv
<1>5. subscribers' \in [Kinds -> Seq(Sockets)]
  BY <1>1, <1>3 DEF SocketsInv
<1> HIDE DEF list, more
<1>6. Injective(more) /\ ToSet(more) = ToSet(list) \cup {s}
  <2>1. \A i \in 1..Len(list) : list[i] # s
    BY <1>2, <1>3 DEF ToSet
  <2>2. \A i \in DOMAIN more : i \in 1..Len(list) \/ i = Len(list) + 1
    BY <1>3
  <2>3. Injective(more)
    BY <1>2, <1>3, <2>1, <2>2 DEF Injective
  <2> QED BY <1>3, <2>2, <2>3 DEF ToSet
<1> HIDE DEF k
<1>7. \A j \in Kinds : Injective(subscribers'[j]) /\ ToSet(subscribers[j]) \subseteq ToSet(subscribers'[j])
  BY <1>2, <1>4, <1>6 DEF SocketsInv, list
<1>8. /\ readyState' \in [Sockets -> {"new", "open", "closed"}]
      /\ \A z \in Sockets : readyState'[z] = IF z = s THEN "open" ELSE readyState[z]
  BY <1>1 DEF SocketsInv
<1>9. ASSUME NEW z \in Sockets, readyState'[z] = "new", NEW j \in Kinds PROVE z \notin ToSet(subscribers'[j])
  BY <1>2, <1>4, <1>6, <1>8, <1>9 DEF SocketsInv, list
<1>10. SubscribersStay'
  <2> SUFFICES ASSUME NEW z \in Sockets, readyState'[z] = "open"
               PROVE  z \in ToSet(subscribers'[KindOf(z)]) \/ (KindOf(z) = "sniff" /\ misplaced')
    BY DEF SubscribersStay
  <2>1. KindOf(z) \in Kinds
    BY SnifferAssumption DEF SnifferAssumption
  <2>2. CASE z = s
    BY <1>2, <1>4, <1>6, <2>2 DEF k
  <2>3. CASE z # s
    <3>1. z \in ToSet(subscribers[KindOf(z)]) \/ (KindOf(z) = "sniff" /\ misplaced)
      BY <1>8, <2>3 DEF SocketsInv, SubscribersStay
    <3> QED BY <1>1, <1>7, <2>1, <3>1
  <2> QED BY <2>2, <2>3
<1> QED BY <1>1, <1>5, <1>7, <1>8, <1>9, <1>10 DEF SocketsInv

\* A socket that closes stays in its list.
LEMMA LeaveStep ==
  ASSUME SocketsInv, NEW s \in Sockets, Leave(s)
  PROVE  SocketsInv'
<1>1. /\ readyState' = [readyState EXCEPT ![s] = "closed"] /\ UNCHANGED <<subscribers, misplaced>>
  BY DEF Leave
<1>2. readyState' \in [Sockets -> {"new", "open", "closed"}]
  BY <1>1 DEF SocketsInv
<1>3. \A z \in Sockets : readyState'[z] = readyState[z] \/ readyState'[z] = "closed"
  BY <1>1 DEF SocketsInv
<1>4. SubscribersStay'
  BY <1>1, <1>3 DEF SocketsInv, SubscribersStay
<1> QED BY <1>1, <1>2, <1>3, <1>4 DEF SocketsInv

\* Pruning removes only those that have closed.
LEMMA PruneKeeps ==
  ASSUME SocketsInv, NEW k \in Kinds
  PROVE  /\ Prune(subscribers[k]) \in Seq(Sockets) /\ Injective(Prune(subscribers[k]))
         /\ ToSet(Prune(subscribers[k])) = {s \in ToSet(subscribers[k]) : readyState[s] # "closed"}
<1>1. subscribers[k] \in Seq(Sockets) /\ Injective(subscribers[k])
  BY DEF SocketsInv
<1>2. LET S == {s \in Sockets : readyState[s] # "closed"}
      IN  /\ Filtered(subscribers[k], S) \in Seq(Sockets) /\ Injective(Filtered(subscribers[k], S))
          /\ ToSet(Filtered(subscribers[k], S)) = ToSet(subscribers[k]) \cap S
  BY <1>1, FilteredInjective
<1>3. ToSet(subscribers[k]) \subseteq Sockets
  BY <1>1, LenProperties, ElementOfSeq DEF ToSet
<1> QED BY <1>2, <1>3 DEF Prune

\* One list loses members that have closed, or the list of sniff subscribers
\* members that have not, and then misplaced says so.
LEMMA ListShrinks ==
  ASSUME SocketsInv, NEW k \in Kinds, NEW short \in Seq(Sockets), Injective(short),
         subscribers' = [subscribers EXCEPT ![k] = short], UNCHANGED readyState,
         misplaced' \in BOOLEAN, misplaced => misplaced',
         ToSet(short) \subseteq ToSet(subscribers[k]),
         \/ k = "sniff" /\ misplaced'
         \/ \A s \in ToSet(subscribers[k]) : readyState[s] = "open" => s \in ToSet(short)
  PROVE  SocketsInv'
<1>1. /\ \A j \in Kinds : subscribers'[j] = IF j = k THEN short ELSE subscribers[j]
      /\ subscribers' \in [Kinds -> Seq(Sockets)]
  BY DEF SocketsInv
<1>2. SubscribersStay'
  <2> SUFFICES ASSUME NEW z \in Sockets, readyState'[z] = "open"
               PROVE  z \in ToSet(subscribers'[KindOf(z)]) \/ (KindOf(z) = "sniff" /\ misplaced')
    BY DEF SubscribersStay
  <2>1. KindOf(z) \in Kinds
    BY SnifferAssumption DEF SnifferAssumption
  <2>2. z \in ToSet(subscribers[KindOf(z)]) \/ (KindOf(z) = "sniff" /\ misplaced)
    BY DEF SocketsInv, SubscribersStay
  <2> QED BY <1>1, <2>1, <2>2
<1> QED BY <1>1, <1>2 DEF SocketsInv

\* The lists of /vis and /host lose only what has closed.
LEMMA NotifyStep ==
  ASSUME SocketsInv, NEW k \in Kinds, Notify(k)
  PROVE  SocketsInv'
<1> DEFINE short == Prune(subscribers[k])
<1>1. subscribers' = [subscribers EXCEPT ![k] = short] /\ UNCHANGED <<readyState, misplaced>>
  BY DEF Notify
<1>2. /\ short \in Seq(Sockets) /\ Injective(short)
      /\ ToSet(short) = {s \in ToSet(subscribers[k]) : readyState[s] # "closed"}
  BY PruneKeeps
<1> HIDE DEF short
<1>3. misplaced' \in BOOLEAN /\ (misplaced => misplaced')
  BY <1>1 DEF SocketsInv
<1>4. ToSet(short) \subseteq ToSet(subscribers[k])
  BY <1>2
<1>5. \A s \in ToSet(subscribers[k]) : readyState[s] = "open" => s \in ToSet(short)
  BY <1>2
<1>6. UNCHANGED readyState
  BY <1>1
<1> QED BY <1>1, <1>2, <1>3, <1>4, <1>5, <1>6, ListShrinks

\* What a sniffer prints prunes the list of sniff subscribers, rightly or not.
LEMMA DataStep ==
  ASSUME SocketsInv, NEW s \in Calls \X Nodes, Data(s)
  PROVE  SocketsInv'
<1> DEFINE dead == IF s[2] = capturing THEN Dead(subscribers["packet"]) ELSE <<>>
           list == IF listening THEN Prune(subscribers["sniff"]) ELSE subscribers["sniff"]
           short == Misprune(list, dead)
<1>1. /\ subscribers' = [subscribers EXCEPT !["sniff"] = short]
      /\ misplaced' = (misplaced \/ dead # <<>>) /\ UNCHANGED readyState
  BY DEF Data
<1>2. "sniff" \in Kinds /\ "packet" \in Kinds
  BY DEF Kinds
<1>3. dead \in Seq(Sockets)
  <2>1. subscribers["packet"] \in Seq(Sockets)
    BY <1>2 DEF SocketsInv
  <2>2. Dead(subscribers["packet"]) \in Seq(Sockets)
    BY <2>1, FilteredMembers DEF Dead
  <2>3. <<>> \in Seq(Sockets)
    BY EmptySeq
  <2> QED BY <2>2, <2>3
<1>4. /\ list \in Seq(Sockets) /\ Injective(list) /\ ToSet(list) \subseteq ToSet(subscribers["sniff"])
      /\ \A z \in ToSet(subscribers["sniff"]) : readyState[z] = "open" => z \in ToSet(list)
  <2>1. CASE listening
    <3> DEFINE kept == Prune(subscribers["sniff"])
    <3>1. /\ kept \in Seq(Sockets) /\ Injective(kept)
          /\ ToSet(kept) = {z \in ToSet(subscribers["sniff"]) : readyState[z] # "closed"}
      BY <1>2, PruneKeeps
    <3>2. list = kept
      BY <2>1
    <3> HIDE DEF kept, list
    <3> QED BY <3>1, <3>2
  <2>2. CASE ~listening
    BY <1>2, <2>2 DEF SocketsInv
  <2> QED BY <2>1, <2>2
<1> HIDE DEF list, dead
<1>5. /\ short \in Seq(Sockets) /\ Injective(short) /\ ToSet(short) \subseteq ToSet(list)
      /\ dead = <<>> => short = list
  BY <1>3, <1>4, MispruneKeeps
<1> HIDE DEF short
<1>6. misplaced' \in BOOLEAN
  BY <1>1
<1>7. misplaced => misplaced'
  BY <1>1
<1>8. dead # <<>> => misplaced'
  BY <1>1
<1>9. ToSet(short) \subseteq ToSet(subscribers["sniff"])
  BY <1>4, <1>5
<1>10. misplaced' \/ \A z \in ToSet(subscribers["sniff"]) : readyState[z] = "open" => z \in ToSet(short)
  BY <1>4, <1>5, <1>8
<1> QED BY <1>1, <1>2, <1>5, <1>6, <1>7, <1>9, <1>10, ListShrinks

-----------------------------------------------------------------------------
(* The process *)

ListenersTyped ==
  /\ current \in Filters
  /\ listening \in BOOLEAN
  /\ capturing \in Nodes \cup {Nothing}

SnifferInv == CallsInv /\ NodesInv /\ SocketsInv /\ ListenersTyped

\* Nothing of the sniffer changes while the installer goes on.
LEMMA SnifferRests ==
  ASSUME SnifferInv, UNCHANGED state
  PROVE  SnifferInv'
<1>1. UNCHANGED <<call, current, listening, capturing, table, running, readyState, subscribers, misplaced,
                  asked, unsure, twice>>
  BY DEF state, listeners, sessions, sockets, history
<1>2. CallsInv' /\ NodesInv'
  BY <1>1 DEF SnifferInv, CallsInv, NodesInv
<1>3. SocketsInv' /\ ListenersTyped'
  BY <1>1 DEF SnifferInv, SocketsInv, SubscribersStay, ListenersTyped
<1> QED BY <1>2, <1>3 DEF SnifferInv

\* The lists and their sockets change by what the sockets do, and end with the process.
LEMMA SocketsRest ==
  ASSUME SocketsInv, UNCHANGED sockets
  PROVE  SocketsInv'
BY DEF sockets, SocketsInv, SubscribersStay

\* A new process has no subscribers, and no socket is open.
LEMMA SocketsRestart ==
  ASSUME SocketsInv, Restart
  PROVE  SocketsInv'
<1>1. /\ readyState' = [s \in Sockets |-> IF readyState[s] = "open" THEN "closed" ELSE readyState[s]]
      /\ subscribers' = [k \in Kinds |-> <<>>] /\ misplaced' = FALSE
  BY DEF Restart
<1>2. <<>> \in Seq(Sockets) /\ Injective(<<>>) /\ ToSet(<<>>) = {}
  BY EmptySeq DEF Injective, ToSet
<1>3. \A s \in Sockets : readyState'[s] # "open"
  BY <1>1
<1>4. readyState' \in [Sockets -> {"new", "open", "closed"}]
  BY <1>1 DEF SocketsInv
<1>5. \A k \in Kinds : subscribers'[k] = <<>>
  BY <1>1
<1>6. subscribers' \in [Kinds -> Seq(Sockets)]
  BY <1>1, <1>2
<1>7. misplaced' \in BOOLEAN
  BY <1>1 DEF SocketsInv
<1>8. /\ \A k \in Kinds : Injective(subscribers'[k])
      /\ \A s \in Sockets : readyState'[s] = "new" => \A k \in Kinds : s \notin ToSet(subscribers'[k])
  BY <1>2, <1>5
<1>9. SubscribersStay'
  BY <1>3 DEF SubscribersStay
<1> QED BY <1>4, <1>6, <1>7, <1>8, <1>9 DEF SocketsInv

\* A call is received or served.
LEMMA CallStep ==
  ASSUME SnifferInv, NEW c \in Calls, Post(c) \/ Docker(c)
  PROVE  SnifferInv'
<1>1. CallsInv /\ NodesInv /\ SocketsInv /\ ListenersTyped
  BY DEF SnifferInv
<1>2. CASE \E f \in Filters : PostSniff(c, f)
  <2>1. PICK f \in Filters : PostSniff(c, f)
    BY <1>2
  <2>2. CallsInv' /\ NodesInv'
    BY <1>1, <2>1, PostSniffStep
  <2>3. SocketsInv'
    BY <1>1, <2>1, SocketsRest DEF PostSniff
  <2>4. ListenersTyped'
    BY <1>1, <2>1 DEF PostSniff, ListenersTyped
  <2> QED BY <2>2, <2>3, <2>4 DEF SnifferInv
<1>3. CASE \E f \in Filters, n \in Nodes : PostPacket(c, n, f)
  <2>1. PICK f \in Filters, n \in Nodes : PostPacket(c, n, f)
    BY <1>3
  <2>2. CallsInv' /\ NodesInv'
    BY <1>1, <2>1, PostPacketStep
  <2>3. SocketsInv'
    BY <1>1, <2>1, SocketsRest DEF PostPacket
  <2>4. ListenersTyped'
    BY <1>1, <2>1 DEF PostPacket, ListenersTyped
  <2> QED BY <2>2, <2>3, <2>4 DEF SnifferInv
<1>4. CASE Docker(c)
  <2>1. CallsInv' /\ NodesInv'
    BY <1>1, <1>4, ListedStep, ListFailsStep, SessionOpensStep, OpenFailsStep DEF Docker
  <2>2. UNCHANGED <<listeners, sockets>>
    BY <1>4 DEF Docker, Listed, ListFails, SessionOpens, OpenFails
  <2>3. SocketsInv' /\ ListenersTyped'
    BY <1>1, <2>2, SocketsRest DEF ListenersTyped, listeners
  <2> QED BY <2>1, <2>3 DEF SnifferInv
<1> QED BY <1>2, <1>3, <1>4 DEF Post

\* A session ends or prints, a socket comes or goes, or subscribers are told.
LEMMA AmongStep ==
  ASSUME SnifferInv, Sniffing \/ Subscribing
  PROVE  SnifferInv'
<1>1. CallsInv /\ NodesInv /\ SocketsInv /\ ListenersTyped
  BY DEF SnifferInv
<1>2. ASSUME NEW s \in Calls \X Nodes, SessionEnds(s) PROVE SnifferInv'
  <2>1. CallsInv' /\ NodesInv'
    BY <1>1, <1>2, SessionEndsStep
  <2>2. UNCHANGED <<listeners, sockets>>
    BY <1>2 DEF SessionEnds
  <2>3. SocketsInv' /\ ListenersTyped'
    BY <1>1, <2>2, SocketsRest DEF ListenersTyped, listeners
  <2> QED BY <2>1, <2>3 DEF SnifferInv
<1>3. ASSUME UNCHANGED <<call, listeners, sessions, history>> PROVE CallsInv' /\ NodesInv' /\ ListenersTyped'
  <2>1. UNCHANGED <<call, current, listening, capturing, table, running, asked, unsure, twice>>
    BY <1>3 DEF listeners, sessions, history
  <2> QED BY <1>1, <2>1 DEF CallsInv, NodesInv, ListenersTyped
<1>4. ASSUME NEW s \in Calls \X Nodes, Data(s) PROVE SnifferInv'
  BY <1>1, <1>3, <1>4, DataStep DEF Data, SnifferInv
<1>5. ASSUME NEW s \in Sockets, Connect(s) PROVE SnifferInv'
  BY <1>1, <1>3, <1>5, ConnectStep DEF Connect, SnifferInv
<1>6. ASSUME NEW s \in Sockets, Leave(s) PROVE SnifferInv'
  BY <1>1, <1>3, <1>6, LeaveStep DEF Leave, SnifferInv
<1>7. ASSUME NEW k \in {"vis", "host"}, Notify(k) PROVE SnifferInv'
  <2>1. k \in Kinds
    BY DEF Kinds
  <2> QED BY <1>1, <1>3, <1>7, <2>1, NotifyStep DEF Notify, SnifferInv
<1> QED BY <1>2, <1>4, <1>5, <1>6, <1>7 DEF Sniffing, Subscribing

\* The first process has no call under way, no session and no subscriber.
LEMMA SnifferInit == ServiceInit => SnifferInv
<1> SUFFICES ASSUME Init PROVE SnifferInv
  BY DEF ServiceInit
<1>1. /\ Idle.at = "new" /\ Idle.nodes = {} /\ Idle.left = <<>> /\ Idle.opening = {}
      /\ Idle \in Work
  BY EmptySeq, SnifferAssumption DEF SnifferAssumption, Idle, Work
<1>2. Injective(<<>>) /\ ToSet(<<>>) = {} /\ <<>> \in Seq(Sockets)
  BY EmptySeq DEF Injective, ToSet
<1>3. Cardinality({}) <= Concurrency
  BY FS_EmptySet, SnifferAssumption DEF SnifferAssumption
<1>4. Workers(Idle)
  BY <1>1, <1>2, <1>3 DEF Workers
<1>5. \A c \in Calls : call[c] = Idle
  BY DEF Init
<1>6. CallsInv
  <2>1. call \in [Calls -> Work]
    BY <1>1 DEF Init
  <2> QED BY <1>4, <1>5, <2>1 DEF CallsInv
<1>7. NodesInv
  <2>1. \A c \in Calls, n \in Nodes : ~Owes(call[c], n)
    BY <1>1, <1>2, <1>5 DEF Owes, Pends
  <2>2. \A n \in Nodes : NodeInv(n, call, table, running, asked, current, unsure, twice)
    BY <1>1, <1>5, <2>1 DEF Init, NodeInv, FilterKept, OneKept
  <2> QED BY <2>2, SnifferAssumption DEF SnifferAssumption, Init, NodesInv, Tabled, Runs
<1>8. SocketsInv
  BY <1>2 DEF Init, SocketsInv, SubscribersStay
<1>9. ListenersTyped
  BY SnifferAssumption DEF SnifferAssumption, Init, ListenersTyped
<1> QED BY <1>6, <1>7, <1>8, <1>9 DEF SnifferInv

\* Every step of the process keeps what is said of the sniffer.
LEMMA SnifferNext == SnifferInv /\ [ServiceNext]_service => SnifferInv'
<1> SUFFICES ASSUME SnifferInv, [ServiceNext]_service PROVE SnifferInv'
  OBVIOUS
<1>1. CASE \E c \in Calls : Post(c) \/ Docker(c)
  BY <1>1, CallStep
<1>2. CASE Sniffing \/ Subscribing
  BY <1>2, AmongStep
<1>3. CASE Die
  <2>1. Restart
    BY <1>3 DEF Die
  <2>2. CallsInv' /\ NodesInv' /\ SocketsInv'
    BY <2>1, RestartKeepsNodes, SocketsRestart DEF SnifferInv
  <2>3. ListenersTyped'
    BY <2>1, SnifferAssumption DEF SnifferAssumption, Restart, ListenersTyped
  <2> QED BY <2>2, <2>3 DEF SnifferInv
<1>4. CASE UNCHANGED state
  BY <1>4, SnifferRests
<1> QED BY <1>1, <1>2, <1>3, <1>4 DEF ServiceNext, Receive, Serve, service, vars

\* The inductive invariant of the sniffer: whatever answers Docker gives, and in
\* whatever order, whoever may yet write to a node writes what was last asked for,
\* unless that was noticed; a node no two calls were opening at once has one session
\* at most; no worker is lost; and a list names its open sockets.
THEOREM SnifferInvariance == ServiceSpec => []SnifferInv
BY SnifferInit, SnifferNext, PTL DEF ServiceSpec

\* A call under way awaits an answer of Docker (sniffer.ts:41-54).
THEOREM NoWorkerIsLost == ServiceSpec => []CallsAwaitDocker
<1>1. SnifferInv => CallsAwaitDocker
  <2> SUFFICES ASSUME SnifferInv, NEW c \in Calls
               PROVE  /\ call[c].at = "sniffing" => call[c].opening # {}
                      /\ Len(call[c].left) > 0 => Cardinality(call[c].opening) = Concurrency
    BY DEF CallsAwaitDocker
  <2>1. Workers(call[c])
    BY DEF SnifferInv, CallsInv
  <2>2. Len(<<>>) = 0
    BY EmptySeq
  <2> QED BY <2>1, <2>2 DEF Workers
<1> QED BY <1>1, SnifferInvariance, PTL

\* An open socket is in its list, unless it is a sniff subscriber and a dead packet
\* subscriber was looked up there (main.ts:427).
THEOREM SubscribersAreKept == ServiceSpec => []SubscribersStay
<1>1. SnifferInv => SubscribersStay
  BY DEF SnifferInv, SocketsInv
<1> QED BY <1>1, SnifferInvariance, PTL

\* A call is for one part of the process only.
Apart == \A c \in Calls : call[c].at = "new" \/ request[c] = "new"

\* A call that has not come is not served.
LEMMA DockerServes ==
  ASSUME CallsInv, NEW c \in Calls, Docker(c)
  PROVE  call[c].at # "new" /\ \A d \in Calls \ {c} : call'[d] = call[d]
<1>1. Workers(call[c])
  BY DEF CallsInv
<1>2. call[c].at # "new"
  BY <1>1 DEF Docker, Listed, ListFails, SessionOpens, OpenFails, Workers
<1>3. \A d \in Calls \ {c} : call'[d] = call[d]
  BY DEF Docker, Listed, ListFails, SessionOpens, OpenFails, Sniff, CallsInv
<1> QED BY <1>2, <1>3

\* A request that comes changes no other call.
LEMMA PostServes ==
  ASSUME CallsInv, NEW c \in Calls, Post(c)
  PROVE  \A d \in Calls \ {c} : call'[d] = call[d]
BY DEF Post, PostSniff, PostPacket, Sniff, CallsInv

\* What the installer does for one call changes none that has not come.
LEMMA PluginServes ==
  ASSUME Tables, NEW c \in Calls, Plugin!Serve(c)
  PROVE  \A d \in Calls : request[d] = "new" => request'[d] = "new"
<1>1. CASE Plugin!Clear(c) \/ Plugin!RemoveTemp(c)
  BY <1>1 DEF Tables, Plugin!Clear, Plugin!RemoveTemp
<1>2. ASSUME NEW n \in Nodes, Plugin!Write(c, n) \/ Plugin!Pack(c, n) \/ Plugin!Copy(c, n) \/ Plugin!CopyFails(c, n)
      PROVE  request' = request
  BY <1>2 DEF Plugin!Write, Plugin!Pack, Plugin!Copy, Plugin!CopyFails
<1> QED BY <1>1, <1>2 DEF Plugin!Serve

\* A call that comes to one part never comes to the other.
LEMMA ApartStep ==
  ASSUME SnifferInv, Tables, Apart, [ServiceNext]_service
  PROVE  Apart'
<1>1. CallsInv
  BY DEF SnifferInv
<1>2. ASSUME NEW c \in Calls, request[c] = "new", Post(c), UNCHANGED plugin PROVE Apart'
  <2>1. UNCHANGED request
    BY <1>2 DEF plugin
  <2> QED BY <1>1, <1>2, <2>1, PostServes DEF Apart
<1>3. ASSUME NEW c \in Calls, call[c].at = "new", Plugin!Post(c), UNCHANGED state PROVE Apart'
  <2>1. UNCHANGED call
    BY <1>3 DEF state
  <2>2. \A d \in Calls \ {c} : request'[d] = request[d]
    BY <1>3 DEF Tables, Plugin!Post, Plugin!Install, Plugin!Uninstall
  <2> QED BY <1>3, <2>1, <2>2 DEF Apart
<1>4. ASSUME NEW c \in Calls, Docker(c), UNCHANGED plugin PROVE Apart'
  <2>1. UNCHANGED request
    BY <1>4 DEF plugin
  <2> QED BY <1>1, <1>4, <2>1, DockerServes DEF Apart
<1>5. ASSUME NEW c \in Calls, Plugin!Serve(c), UNCHANGED state PROVE Apart'
  <2>1. UNCHANGED call
    BY <1>5 DEF state
  <2> QED BY <1>5, <2>1, PluginServes DEF Apart
<1>6. CASE (Sniffing \/ Subscribing) /\ UNCHANGED plugin
  <2>1. UNCHANGED <<call, request>>
    BY <1>6 DEF plugin, Sniffing, Subscribing, SessionEnds, Data, Connect, Leave, Notify
  <2> QED BY <2>1 DEF Apart
<1>7. CASE Plugin!Deleting /\ UNCHANGED state
  <2>1. UNCHANGED <<call, request>>
    BY <1>7 DEF state, Plugin!Deleting, Plugin!Delete
  <2> QED BY <2>1 DEF Apart
<1>8. CASE Die
  <2>1. Plugin!Restart /\ Restart
    BY <1>8 DEF Die
  <2>2. \A c \in Calls : call[c].at = "new" => call'[c].at = "new"
    BY <2>1 DEF Restart, Working
  <2>3. \A c \in Calls : request[c] = "new" => request'[c] = "new"
    BY <2>1 DEF Plugin!Restart, Plugin!Installing
  <2> QED BY <2>2, <2>3 DEF Apart
<1>9. CASE UNCHANGED service
  <2>1. UNCHANGED <<call, request>>
    BY <1>9 DEF service, vars, state, plugin
  <2> QED BY <2>1 DEF Apart
<1> QED BY <1>2, <1>3, <1>4, <1>5, <1>6, <1>7, <1>8, <1>9 DEF ServiceNext, Receive, Serve

\* What the installer has yet to delete, whom it met, and the failures so far.
Counted ==
  /\ removing \subseteq Calls \X Nodes
  /\ disturbed \subseteq Calls
  /\ faults \in Nat

\* Failures are counted, and only calls have deletions to do or meet others.
LEMMA CountedStep ==
  ASSUME Counted, [ServiceNext]_service
  PROVE  Counted'
<1>1. \A c \in Calls : Plugin!Meets(c) \subseteq Calls
  BY DEF Plugin!Meets
<1>2. ASSUME NEW c \in Calls, Post(c) \/ Docker(c), UNCHANGED plugin PROVE Counted'
  <2>1. UNCHANGED <<removing, disturbed>>
    BY <1>2 DEF plugin
  <2>2. faults' \in {faults, faults + 1}
    BY <1>2 DEF Post, PostSniff, PostPacket, Docker, Listed, ListFails, SessionOpens, OpenFails, Failure
  <2> QED BY <2>1, <2>2 DEF Counted
<1>3. ASSUME NEW c \in Calls, Plugin!Post(c) PROVE Counted'
  <2>1. /\ removing' \subseteq removing \cup (Calls \X Nodes)
        /\ disturbed' \subseteq disturbed \cup Plugin!Meets(c) \cup {c}
        /\ UNCHANGED faults
    BY <1>3 DEF Plugin!Post, Plugin!Install, Plugin!Uninstall
  <2> QED BY <1>1, <2>1 DEF Counted
<1>4. ASSUME NEW c \in Calls, Plugin!Serve(c) PROVE Counted'
  <2>1. CASE Plugin!Clear(c) \/ Plugin!RemoveTemp(c)
    BY <2>1 DEF Counted, Plugin!Clear, Plugin!RemoveTemp
  <2>2. ASSUME NEW n \in Nodes, Plugin!Write(c, n) \/ Plugin!Pack(c, n) \/ Plugin!Copy(c, n) \/ Plugin!CopyFails(c, n)
        PROVE  Counted'
    BY <2>2 DEF Counted, Plugin!Write, Plugin!Pack, Plugin!Copy, Plugin!CopyFails, Plugin!Failure
  <2> QED BY <1>4, <2>1, <2>2 DEF Plugin!Serve
<1>5. CASE (Sniffing \/ Subscribing) /\ UNCHANGED plugin
  <2>1. UNCHANGED <<removing, disturbed>>
    BY <1>5 DEF plugin
  <2>2. faults' \in {faults, faults + 1}
    BY <1>5 DEF Sniffing, Subscribing, SessionEnds, Data, Connect, Leave, Notify, Failure
  <2> QED BY <2>1, <2>2 DEF Counted
<1>6. CASE Plugin!Deleting
  BY <1>6 DEF Counted, Plugin!Deleting, Plugin!Delete
<1>7. CASE Die
  BY <1>7 DEF Counted, Die, Plugin!DeleteRejects, Plugin!Restart, Plugin!Failure
<1>8. CASE UNCHANGED service
  BY <1>8 DEF Counted, service, vars, plugin
<1> QED BY <1>2, <1>3, <1>4, <1>5, <1>6, <1>7, <1>8 DEF ServiceNext, Receive, Serve

\* The types of the whole process.
LEMMA ServiceTypes ==
  ASSUME SnifferInv, Tables, Apart, Counted
  PROVE  ServiceTypeOK
<1>1. \A c \in Calls : Cardinality(call[c].opening) <= Concurrency
  BY DEF SnifferInv, CallsInv, Workers
<1>2. TypeOK
  BY <1>1 DEF SnifferInv, CallsInv, NodesInv, SocketsInv, ListenersTyped, Counted, TypeOK, Tabled, Runs, Injective
<1>3. Plugin!TypeOK
  BY DEF Tables, Counted, Plugin!TypeOK, Requests
<1> QED BY <1>2, <1>3 DEF ServiceTypeOK, Apart

\* Whatever fails and however requests overlap, a node that every call has come to
\* runs the filter last asked for, except where a call that had read another was
\* still to write it or the containers could not be listed; and it has one sniffer at
\* most, which the table knows, except where two calls were opening one at the same
\* time (main.ts:315, sniffer.ts:40-53, session-manager.ts:116).
THEOREM NodesKeepTheirSniffer == ServiceSpec => []SniffersAreKept
<1>1. SnifferInv => NodesRunLastFilter
  <2> SUFFICES ASSUME SnifferInv, NEW n \in Nodes, n \notin unsure, table[n] # Nothing,
                      \A c \in Calls : ~ToCome(c, n)
               PROVE  running[table[n]] \in {Nothing, asked[n]}
    BY DEF NodesRunLastFilter
  <2>1. FilterKept(n, call, table, running, asked, current)
    BY DEF SnifferInv, NodesInv, NodeInv
  <2>2. \A c \in Calls : ~Pends(call[c], n)
    BY DEF Pends, ToCome
  <2> QED BY <2>1, <2>2 DEF FilterKept
<1>2. SnifferInv => OneSnifferPerNode
  <2> SUFFICES ASSUME SnifferInv, NEW c \in Calls, NEW n \in Nodes, running[<<c, n>>] # Nothing, n \notin twice
               PROVE  table[n] = <<c, n>>
    BY DEF OneSnifferPerNode
  <2>1. OneKept(n, call, table, running)
    BY DEF SnifferInv, NodesInv, NodeInv
  <2> QED BY <2>1 DEF OneKept
<1>3. ServiceInit => Apart /\ Counted
  BY DEF ServiceInit, Plugin!Init, Apart, Counted
<1>4. SnifferInv /\ IInv /\ Apart /\ Counted /\ [ServiceNext]_service => (Apart /\ Counted)'
  BY ApartStep, CountedStep DEF IInv
<1>5. ServiceSpec => [](Apart /\ Counted)
  BY <1>3, <1>4, SnifferInvariance, Invariance, PTL DEF ServiceSpec
<1>6. SnifferInv /\ IInv /\ Apart /\ Counted => SniffersAreKept
  BY <1>1, <1>2, ServiceTypes DEF SniffersAreKept, IInv
<1> QED BY <1>5, <1>6, SnifferInvariance, Invariance, PTL
=============================================================================
