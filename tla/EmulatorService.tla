-------------------------- MODULE EmulatorService --------------------------
(***************************************************************************)
(* One process of emulator-service: the sniffer with its websockets and    *)
(* the plugin installer.  A call is one POST to any of the four routes.    *)
(* What the parts share is the process: a deletion that fails after an     *)
(* uninstall was answered rejects a promise nobody handles, which ends the *)
(* process, and Docker starts a new one with neither sessions nor sockets. *)
(***************************************************************************)
EXTENDS SnifferApi

\* A script is named by its call, and Nothing by none.
ASSUME ServiceAssumption == Nothing \notin Calls

VARIABLES request, copying, temp, script, removing, disturbed

Plugin == INSTANCE SubmitEvent

plugin == <<request, copying, temp, script, removing, disturbed>>
service == <<vars, plugin>>

ServiceInit == Init /\ Plugin!Init

\* A call is for one part.
Receive(c) ==
  \/ request[c] = "new" /\ Post(c) /\ UNCHANGED plugin
  \/ call[c].at = "new" /\ Plugin!Post(c) /\ UNCHANGED state

\* An unhandled rejection ends the process, and both parts begin anew.
Die ==
  /\ \E c \in Calls, n \in Nodes : Plugin!DeleteRejects(c, n)
  /\ Plugin!Restart
  /\ Restart

\* What is done for a call that has come, by Docker and by the process.
Serve(c) ==
  \/ Docker(c) /\ UNCHANGED plugin
  \/ Plugin!Serve(c) /\ UNCHANGED state

ServiceNext ==
  \/ \E c \in Calls : Receive(c) \/ Serve(c)
  \/ (Sniffing \/ Subscribing) /\ UNCHANGED plugin
  \/ Plugin!Deleting /\ UNCHANGED state
  \/ Die

ServiceSpec == ServiceInit /\ [][ServiceNext]_service

-----------------------------------------------------------------------------
(* Properties *)

\* Type invariant of both parts; no call is for both.
ServiceTypeOK ==
  /\ TypeOK
  /\ Plugin!TypeOK
  /\ \A c \in Calls : call[c].at = "new" \/ request[c] = "new"

\* An install answered with success is everywhere; see SubmitEvent.
SuccessIsEverywhere == Plugin!SuccessIsEverywhere

\* A node every call has come to runs the filter it was last asked for, and none has
\* a sniffer the table has forgotten, with the exceptions named; see SnifferApi.
SniffersAreKept == ServiceTypeOK /\ NodesRunLastFilter /\ OneSnifferPerNode
=============================================================================
