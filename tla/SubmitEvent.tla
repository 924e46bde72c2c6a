---------------------------- MODULE SubmitEvent ----------------------------
(***************************************************************************)
(* utils/submit-event.ts of emulator-service: the plugin that lets a node  *)
(* report events is installed by copying a script to every container, by   *)
(* way of one temporary directory that all installs share, and uninstalled *)
(* by deleting it there.  The script holds the address the request came    *)
(* to, so the scripts of two calls differ: a script is named by its call.  *)
(***************************************************************************)
EXTENDS Naturals, FiniteSets

CONSTANTS
  Calls,     (* POST /install and POST /uninstall requests *)
  Nodes,     (* containers *)
  Nothing,   (* in place of a script; no call *)
  MaxFaults  (* bound: container operations that fail *)

VARIABLES
  request,    (* what each call is doing *)
  copying,    (* where each call's part for a node is *)
  temp,       (* the script in the temporary directory of a node *)
  script,     (* the script in a container *)
  removing,   (* deletions under way: no call waits for them *)
  disturbed,  (* history: installs that met another one or a deletion *)
  faults

state == <<request, copying, temp, script, removing, disturbed>>
vars == <<state, faults>>

Init ==
  /\ request = [c \in Calls |-> "new"]
  /\ copying = [c \in Calls |-> [n \in Nodes |-> "none"]]
  /\ temp = [n \in Nodes |-> Nothing]
  /\ script = [n \in Nodes |-> Nothing]
  /\ removing = {}
  /\ disturbed = {}
  /\ faults = 0

Failure ==
  /\ faults < MaxFaults
  /\ faults' = faults + 1

Installing(c) == request[c] \in {"installing", "clearing", "refusing"}

\* Other installs that have copies under way: one that fails is answered while
\* its other copies go on.
Meets(c) ==
  {d \in Calls \ {c} : Installing(d) \/ \E n \in Nodes : copying[d][n] \in {"mkdir", "copy", "pack"}}

-----------------------------------------------------------------------------
(* _installSubmitEvent *)

Install(c) ==
  /\ request[c] = "new"
  /\ request' = [request EXCEPT ![c] = "installing"]
  /\ copying' = [copying EXCEPT ![c] = [n \in Nodes |-> "mkdir"]]
  /\ disturbed' = disturbed \cup Meets(c)
                  \cup (IF Meets(c) # {} \/ removing # {} THEN {c} ELSE {})
  /\ UNCHANGED <<temp, script, removing, faults>>

At(c, n, from, to) ==
  /\ copying[c][n] = from
  /\ copying' = [copying EXCEPT ![c][n] = to]

\* The directory is made, the script written to it and the target made in the
\* container; the write fails when another call has removed the directory.
Write(c, n) ==
  /\ \/ /\ At(c, n, "mkdir", "copy")
        /\ temp' = [temp EXCEPT ![n] = c]
     \/ /\ At(c, n, "mkdir", "failed")
        /\ Meets(c) # {} \/ request[c] # "installing"
        /\ UNCHANGED temp
  /\ UNCHANGED <<request, script, removing, disturbed, faults>>

\* The archive is packed from what the directory holds.
Pack(c, n) ==
  /\ At(c, n, "copy", IF temp[n] = Nothing THEN "failed" ELSE "pack")
  /\ UNCHANGED <<request, temp, script, removing, disturbed, faults>>

\* The script is read while the archive is sent; a file deleted since the
\* directory was listed is left out of it, and the copy still succeeds.
Copy(c, n) ==
  /\ At(c, n, "pack", "copied")
  /\ script' = IF temp[n] = Nothing THEN script ELSE [script EXCEPT ![n] = temp[n]]
  /\ UNCHANGED <<request, temp, removing, disturbed, faults>>

\* mkdir or the copy fails in the container.
CopyFails(c, n) ==
  /\ At(c, n, "copy", "failed") \/ At(c, n, "pack", "failed")
  /\ Failure
  /\ UNCHANGED <<request, temp, script, removing, disturbed>>

\* Seeded fault: the copies are started and not awaited.
ClearEarly(c) ==
  /\ request[c] = "installing"
  /\ request' = [request EXCEPT ![c] =
                   IF \E n \in Nodes : copying[c][n] = "failed" THEN "refusing" ELSE "clearing"]
  /\ UNCHANGED <<copying, temp, script, removing, disturbed, faults>>

\* Promise.all: every copy has ended, or one has failed and the others go on.
Clear(c) ==
  /\ request[c] = "installing"
  /\ \/ /\ \A n \in Nodes : copying[c][n] = "copied"
        /\ request' = [request EXCEPT ![c] = "clearing"]
     \/ /\ \E n \in Nodes : copying[c][n] = "failed"
        /\ request' = [request EXCEPT ![c] = "refusing"]
  /\ UNCHANGED <<copying, temp, script, removing, disturbed, faults>>

\* The directory of all calls is removed, then the call is answered.
RemoveTemp(c) ==
  /\ request[c] \in {"clearing", "refusing"}
  /\ temp' = [n \in Nodes |-> Nothing]
  /\ request' = [request EXCEPT ![c] = IF @ = "clearing" THEN "success" ELSE "error"]
  /\ UNCHANGED <<copying, script, removing, disturbed, faults>>

-----------------------------------------------------------------------------
(* _uninstall *)

\* delFileInContainer does not await the deletion: the call is answered at once.
Uninstall(c) ==
  /\ request[c] = "new"
  /\ request' = [request EXCEPT ![c] = "uninstalled"]
  /\ removing' = removing \cup {<<c, n>> : n \in Nodes}
  /\ disturbed' = disturbed \cup Meets(c)
  /\ UNCHANGED <<copying, temp, script, faults>>

Delete(c, n) ==
  /\ <<c, n>> \in removing
  /\ removing' = removing \ {<<c, n>>}
  /\ script' = [script EXCEPT ![n] = Nothing]
  /\ UNCHANGED <<request, copying, temp, disturbed, faults>>

\* Nobody handles the rejection of a deletion: the runtime ends the process.
DeleteRejects(c, n) ==
  /\ <<c, n>> \in removing
  /\ Failure

\* The process is started again.  What containers and disk hold is as it was.
Restart ==
  /\ request' = [c \in Calls |-> IF Installing(c) THEN "lost" ELSE request[c]]
  /\ copying' = [c \in Calls |-> [n \in Nodes |-> "none"]]
  /\ removing' = {}
  /\ UNCHANGED <<temp, script, disturbed>>

-----------------------------------------------------------------------------

\* What follows once a call has come.
Serve(c) ==
  \/ Clear(c) \/ RemoveTemp(c)
  \/ \E n \in Nodes : Write(c, n) \/ Pack(c, n) \/ Copy(c, n) \/ CopyFails(c, n)

Post(c) == Install(c) \/ Uninstall(c)

Deleting == \E c \in Calls, n \in Nodes : Delete(c, n)

Crash == (\E c \in Calls, n \in Nodes : DeleteRejects(c, n)) /\ Restart

Next == (\E c \in Calls : Post(c) \/ Serve(c)) \/ Deleting \/ Crash

Spec == Init /\ [][Next]_vars

-----------------------------------------------------------------------------
(* Properties *)

Stages == {"none", "mkdir", "copy", "pack", "copied", "failed"}

\* Type invariant: every variable holds what the code can put there.
TypeOK ==
  /\ request \in [Calls -> {"new", "installing", "clearing", "refusing", "success", "error", "uninstalled", "lost"}]
  /\ copying \in [Calls -> [Nodes -> Stages]]
  /\ temp \in [Nodes -> Calls \cup {Nothing}]
  /\ script \in [Nodes -> Calls \cup {Nothing}]
  /\ removing \subseteq Calls \X Nodes
  /\ disturbed \subseteq Calls
  /\ faults \in Nat

Succeeds(c) == request[c] # "success" /\ request'[c] = "success"

\* When an install is answered with success every container holds its script,
\* whatever failed and in whatever order the copies ended, unless it met another
\* install or a deletion (submit-event.ts:128-142): these share the directory,
\* and a deletion may come after the script it does not belong to.
SuccessIsEverywhere ==
  [][\A c \in Calls : Succeeds(c) /\ c \notin disturbed => \A n \in Nodes : script[n] = c]_vars
=============================================================================
