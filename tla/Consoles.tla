------------------------------ MODULE Consoles ------------------------------
(***************************************************************************)
(* The console windows of a map with the consoles in their frames: the     *)
(* mouse, the taskbar, the console links and the host's messages open and  *)
(* close windows (WindowManager), a window loads a page and takes it away  *)
(* with it, and the page opens a socket to emulator-service                *)
(* (ConsoleSessions).                                                      *)
(***************************************************************************)
EXTENDS WindowManager

CONSTANTS MaxLoads, MaxFaults

ASSUME ConsolesAssumption ==
  /\ MaxLoads \in Nat
  /\ MaxFaults \in Nat
  /\ Nothing \notin 1 .. MaxLoads

VARIABLES
  loads, page, consoleOf, handler, heard, closing, closed, session, table, listeners, early, together, faults,
  frame        (* the socket of the page in the frame of each window made *)

Shells == INSTANCE ConsoleSessions

vars == <<desktop, Shells!consoles, frame>>

Init ==
  /\ DeskInit
  /\ Shells!ConsolesInit
  /\ frame = [w \in Windows |-> Nothing]

Pages(ws) == {frame[w] : w \in ws}

Load(w, n, left) ==
  /\ frame' = [frame EXCEPT ![w] = loads + 1]
  /\ Shells!Navigate(left, n)

\* The frames of windows that are gone are unloaded, that of a new one is loaded.
Frames ==
  LET gone == OnDesktop(desk) \ OnDesktop(desk')
      new == OnDesktop(desk') \ OnDesktop(desk)
  IN  \/ \E w \in new : Load(w, desk'.nodeOf[w], Pages(gone))
      \/ new = {} /\ Shells!Navigate(Pages(gone), Nothing) /\ UNCHANGED frame

\* The page is loaded again in its frame.
Reload ==
  /\ MouseClick("reload")
  /\ Load(pressed[1], desk.nodeOf[pressed[1]], Pages({pressed[1]}))

Mouse ==
  \/ MouseMoves /\ Frames
  \/ Reload

Open(n) == (OnConsoleLink(n) \/ HostMessage(n)) /\ Frames

Work(s) == Shells!Progress(s) /\ UNCHANGED <<desktop, frame>>

Next ==
  \/ Mouse
  \/ \E n \in Nodes : Open(n)
  \/ Shells!ConsolesNext /\ UNCHANGED <<desktop, frame>>

Spec == Init /\ [][Next]_vars

\* Events that have happened are handled, and calls that are awaited answered.
FairSpec == Spec /\ \A s \in Shells!Sockets : WF_vars(Work(s))

-----------------------------------------------------------------------------
(* Properties *)

\* See ConsoleSessions.
ConsolesHearTheirShell == Shells!ConsolesHearTheirShell

\* See ConsoleSessions.
ConsolesSettle == Shells!ConsolesSettle
=============================================================================
