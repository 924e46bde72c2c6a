--------------------------- MODULE WindowManager ---------------------------
(***************************************************************************)
(* The desktop of console windows of the topology and geographic maps      *)
(* (utils/window-manager.ts): which windows there are, which one is        *)
(* active, and the mouse.  The masks a drag lays over the frames exist so  *)
(* that the frames do not swallow the mouse; a window that a message of    *)
(* the host opens in the middle of a drag has none.                        *)
(*                                                                         *)
(* Windows are numbered in the order they are made.  Places and sizes are  *)
(* left out.                                                               *)
(***************************************************************************)
EXTENDS Naturals

CONSTANTS
  Nodes,       (* the ids of nodes, by which windows are known *)
  Nothing,
  MaxWindows   (* bound: windows made *)

Windows == 1 .. MaxWindows

\* What of a window the mouse is pressed on: the title bar, in which the buttons
\* lie, or a handle at the edge.
Parts == {"bar", "edge"}

ASSUME WindowAssumption ==
  /\ Nothing \notin Nodes /\ Nothing \notin Windows /\ Nothing \notin Windows \X Parts
  /\ MaxWindows \in Nat

\* What in the title bar a click can meet: the title or a button.  Opening in a
\* browser window closes the window; the mark of input broadcast is only drawn.
Buttons == {"title", "close", "minimize", "reload"}

VARIABLES
  desk,        (* the windows, a record *)
  pressed      (* where the mouse button went down, <<window, part>>; Nothing: it is up *)

desktop == <<desk, pressed>>

EmptyDesk ==
  [ made      |-> 0,                           (* windows made so far *)
    windows   |-> [n \in Nodes |-> Nothing],   (* _windows *)
    nodeOf    |-> [w \in Windows |-> Nothing], (* _id of each window made *)
    active    |-> Nothing,                     (* _activeWindowId *)
    raised    |-> {},                          (* zIndex is 20000 *)
    lit       |-> {},                          (* the title bar is active *)
    minimized |-> {},                          (* _isMinimized, not displayed *)
    masked    |-> {},                          (* the mask is displayed *)
    dragging  |-> {},                          (* _dragging *)
    resizing  |-> {},                          (* _isResizing *)
    bar       |-> [items |-> {}, active |-> Nothing] ]  (* the taskbar as last drawn *)

DeskInit ==
  /\ desk = EmptyDesk
  /\ pressed = Nothing

OnDesktop(d) == {d.windows[n] : n \in Nodes} \ {Nothing}

Shown(d) == OnDesktop(d) \ d.minimized

-----------------------------------------------------------------------------
(* What the manager does to its windows *)

UpdateTaskbar(d) ==
  [d EXCEPT !.bar = [ items  |-> {n \in Nodes : d.windows[n] # Nothing},
                      active |-> IF d.active # Nothing /\ d.windows[d.active] # Nothing
                                 THEN d.active ELSE Nothing ]]

\* The window that was active, if it still exists.
Former(d) == IF d.active = Nothing THEN {} ELSE {d.windows[d.active]} \ {Nothing}

ToBack(d, ws) == [d EXCEPT !.raised = @ \ ws, !.lit = @ \ ws]

\* A window that was minimised is restored.
ToFront(d, w) == [d EXCEPT !.raised = @ \cup {w}, !.lit = @ \cup {w}, !.minimized = @ \ {w}]

\* Seeded fault: the window that was active stays in front.
SetActiveOnly(d, w) ==
  IF d.active = d.nodeOf[w] THEN d
  ELSE UpdateTaskbar([ToFront(d, w) EXCEPT !.active = d.nodeOf[w]])

\* setActiveWindowDirect: the former goes to the back, the window to the front.
SetActive(d, w) ==
  IF d.active = d.nodeOf[w] THEN d
  ELSE UpdateTaskbar([ToFront(ToBack(d, Former(d)), w) EXCEPT !.active = d.nodeOf[w]])

\* What a window that was removed looked like is forgotten; it may be dragged on.
Detach(d, w) ==
  [d EXCEPT !.raised = @ \ {w}, !.lit = @ \ {w}, !.minimized = @ \ {w},
            !.masked = @ \ {w}, !.resizing = @ \ {w}]

\* closeWindow goes by the id.
CloseWindow(d, n) ==
  IF d.windows[n] = Nothing THEN d
  ELSE UpdateTaskbar([Detach(d, d.windows[n]) EXCEPT !.windows[n] = Nothing,
                                                     !.active = IF @ = n THEN Nothing ELSE @])

\* It stays in front, hidden, until another window is activated or it is itself.
MinimizeWindow(d, w) ==
  UpdateTaskbar([d EXCEPT !.active = IF @ = d.nodeOf[w] THEN Nothing ELSE @])

Minimize(d, w) ==
  MinimizeWindow([d EXCEPT !.minimized = @ \cup {w}, !.lit = @ \ {w}], w)

\* createWindow: an open window is activated, or closed first when it reloads.
CreateWindow(d, n, reload) ==
  IF d.windows[n] # Nothing /\ ~reload THEN SetActive(d, d.windows[n])
  ELSE LET w == d.made + 1
           closed == CloseWindow(d, n)
       IN  UpdateTaskbar(SetActive([closed EXCEPT !.made = w, !.windows[n] = w, !.nodeOf[w] = n], w))

CanCreate(d, n, reload) == (d.windows[n] # Nothing /\ ~reload) \/ d.made < MaxWindows

BlockWindows(d) == [d EXCEPT !.masked = @ \cup OnDesktop(d)]
UnblockWindows(d) == [d EXCEPT !.masked = @ \ OnDesktop(d)]

-----------------------------------------------------------------------------
(* The mouse *)

\* Pressing a button begins a drag as well.
HandleDragStart(d, w) ==
  IF w \in d.resizing THEN d
  ELSE [SetActive(BlockWindows(d), w) EXCEPT !.dragging = @ \cup {w}]

StartResize(d, w) == [SetActive(d, w) EXCEPT !.resizing = @ \cup {w}]

\* Seeded fault: a drag that ends takes the masks of the dragged windows away.
HandleDragEndOwn(d) ==
  [d EXCEPT !.masked = @ \ d.dragging, !.dragging = {}, !.resizing = {}]

\* The document sees the button come up: every window listens, the closed ones
\* too, and the first that is dragged takes all masks away.
HandleDragEnd(d) ==
  [(IF d.dragging = {} THEN d ELSE UnblockWindows(d)) EXCEPT !.dragging = {}, !.resizing = {}]

MouseDown(w, part) ==
  /\ pressed = Nothing
  /\ w \in Shown(desk)
  /\ pressed' = <<w, part>>
  /\ desk' = IF part = "edge" THEN StartResize(desk, w) ELSE HandleDragStart(desk, w)

\* What the click does that follows when the button comes up where it went down:
\* a handle is clicked to no effect, reload is the page's matter.
Click(d, w, button) ==
  CASE button = "title"    -> SetActive(d, w)
    [] button = "close"    -> CloseWindow(d, d.nodeOf[w])
    [] button = "minimize" -> Minimize(d, w)
    [] OTHER               -> d

\* The button comes up over the document, as it always does over a mask.
MouseUp ==
  /\ pressed # Nothing
  /\ pressed' = Nothing
  /\ desk' = HandleDragEnd(desk)

\* It comes up where it went down; a window that is gone is not clicked.
MouseClick(button) ==
  /\ pressed # Nothing
  /\ pressed[1] \in Shown(desk)
  /\ pressed[2] = "bar"
  /\ pressed' = Nothing
  /\ desk' = Click(HandleDragEnd(desk), pressed[1], button)

\* It comes up over a frame without a mask, and the document does not see it.
MouseUpInFrame ==
  /\ pressed # Nothing
  /\ \E w \in Shown(desk) : w \notin desk.masked
  /\ pressed' = Nothing
  /\ UNCHANGED desk

\* The page in the frame is clicked, which the manager has made it tell.
ClickPage(w) ==
  /\ pressed = Nothing
  /\ w \in Shown(desk)
  /\ w \notin desk.masked
  /\ desk' = SetActive(desk, w)
  /\ UNCHANGED pressed

\* _handleTaskbarClick: the active window is minimised, another one activated.
ClickTaskbar(n) ==
  /\ pressed = Nothing
  /\ n \in desk.bar.items
  /\ desk' = LET d == HandleDragEnd(desk)
             IN  CASE d.windows[n] = Nothing -> d
                   [] d.active = n           -> Minimize(d, d.windows[n])
                   [] OTHER                  -> SetActive(d, d.windows[n])
  /\ UNCHANGED pressed

\* The console link of a node: an open window is brought to the front.
OnConsoleLink(n) ==
  /\ pressed = Nothing
  /\ CanCreate(desk, n, FALSE)
  /\ desk' = CreateWindow(HandleDragEnd(desk), n, FALSE)
  /\ UNCHANGED pressed

\* A message of the host opens a window anew, whatever the mouse is doing.
HostMessage(n) ==
  /\ CanCreate(desk, n, TRUE)
  /\ desk' = CreateWindow(desk, n, TRUE)
  /\ UNCHANGED pressed

MouseMoves ==
  \/ \E w \in Windows : ClickPage(w) \/ \E part \in Parts : MouseDown(w, part)
  \/ MouseUp
  \/ MouseUpInFrame
  \/ \E button \in Buttons \ {"reload"} : MouseClick(button)
  \/ \E n \in Nodes : ClickTaskbar(n)

DeskNext ==
  \/ MouseMoves
  \/ MouseClick("reload")
  \/ \E n \in Nodes : OnConsoleLink(n) \/ HostMessage(n)

DeskSpec == DeskInit /\ [][DeskNext]_desktop

-----------------------------------------------------------------------------
(* Properties *)

\* The active window, if there is one.
FrontWindow(d) == IF d.active = Nothing THEN {} ELSE {d.windows[d.active]}

\* The active window is there, in front and lit, no other that is shown is in
\* front or lit, and the taskbar shows the windows there are and marks this one:
\* whichever of the link, the taskbar, the frames, the buttons and the host's
\* messages changed the desktop last, and in between a press and its release.
OneWindowInFront ==
  /\ FrontWindow(desk) \subseteq Shown(desk)
  /\ desk.raised \cap Shown(desk) = FrontWindow(desk)
  /\ desk.lit \cap Shown(desk) = FrontWindow(desk)
  /\ desk.bar = [items |-> {n \in Nodes : desk.windows[n] # Nothing}, active |-> desk.active]

\* Frames are masked only while a window is dragged, though it be closed and
\* made anew under the mouse; and with the button up a drag goes on only while
\* some frame has no mask, over which the release was not seen.
MasksEndWithDrags ==
  /\ desk.masked \cap OnDesktop(desk) # {} => desk.dragging # {}
  /\ pressed = Nothing /\ desk.dragging # {} => OnDesktop(desk) \ desk.masked # {}
=============================================================================
