----------------------------------- MODULE Wm ------------------------------------
(*****************************************************************************)
(* The compositor (userland/wm.c, wm_windows.c, wm_damage.c, wm_overlays.c,   *)
(* wm_dock.c): its table of windows, kept in step with the kernel's table of  *)
(* surfaces by wm_scan, the z-order, the keyboard focus, the context menu,    *)
(* the switcher and the other overlays, and the damaged part of the screen    *)
(* that one frame repaints.  Apps create, flip and lose surfaces between any  *)
(* two steps of the compositor's loop.                                        *)
(*                                                                           *)
(* The screen is a set of cells; a window covers one cell, or all of them     *)
(* when it is maximized, so moving, snapping and resizing a window all choose *)
(* its cell.  The damage list only ever grows by merging, so it is the set of *)
(* damaged cells.  Animations take any number of frames.                      *)
(*****************************************************************************)
EXTENDS Integers, Sequences, SequencesExt, FiniteSets

CONSTANTS Slots,     \* entries of G_win, and of the kernel's surface table
          Cell,      \* cells of the screen
          Spaces,    \* number of workspaces
          Overlays,  \* overlays modelled, of {"grid", "overview", "popover"}
          Titles,    \* titles of the apps' windows
          MaxOpen,   \* bound: surfaces in use at once
          MaxApps,   \* bound: apps started
          MaxInputs  \* bound: input events

Slot == 1..Slots
NoSlot == 0
None == "none"

(* sys_wm_create stores the slot's number and then clears the whole entry, so  *)
(* every surface has the number of the first slot: the compositor sees one     *)
(* window for all of them, and they share one address in its space.            *)
SurfaceId == 1

VARIABLES d,         \* the compositor's globals and the kernel's window globals
          screen,    \* what each cell of the framebuffer shows
          launched,  \* apps started so far, numbered from 1
          inputs,    \* input events so far
          shown      \* a frame has just been presented

vars == <<d, screen, launched, inputs, shown>>

--------------------------------------------------------------------------------
(* Faulty variants of the definitions below. *)

\* windows whose surface is gone are dropped without repainting what was under them
ForgetVanishedUnpainted(x) ==
  LET gone == {i \in 1..Slots : x.win[i].active /\ ~\E s \in 1..Slots : x.surf[s].app # 0} IN
  [x EXCEPT !.win = [i \in 1..Slots |-> IF i \in gone
                       THEN [@[i] EXCEPT !.active = FALSE, !.dirty = FALSE, !.prev = {}]
                       ELSE @[i]],
            !.focus = IF @ \in gone THEN NoSlot ELSE @]

--------------------------------------------------------------------------------
(* The window table. *)

NoWin == [active |-> FALSE, id |-> NoSlot, owner |-> 0, title |-> None, minimized |-> FALSE,
          minimizing |-> FALSE, closing |-> FALSE, hidden |-> FALSE,
          maximized |-> FALSE, ws |-> 0, dirty |-> FALSE, at |-> CHOOSE c \in Cell : TRUE,
          prev |-> {}]

Rect(w) == IF w.maximized THEN Cell ELSE {w.at}
OnSpace(x, w) == w.ws = x.ws
Painted(x, i) ==
  LET w == x.win[i] IN w.active /\ ~w.hidden /\ ~w.minimized /\ OnSpace(x, w)

(* win_at: the topmost painted window over a cell. *)
WinAt(x, c) ==
  LET over == SelectSeq(x.stack, LAMBDA i : Painted(x, i) /\ c \in Rect(x.win[i])) IN
  IF over = <<>> THEN NoSlot ELSE Last(over)

Whole(x) == [x EXCEPT !.damage = Cell]

(* SYS_WM_FOCUS: the kernel refuses a task that is gone. *)
WmFocus(x, pid) == IF pid = 0 \/ pid \in x.alive THEN [x EXCEPT !.key = pid] ELSE x

BringFront(x, i) ==
  LET w == x.win[i] IN
  [x EXCEPT !.stack = Append(SelectSeq(@, LAMBDA j : j # i), i),
            !.focus = i,
            !.damage = IF w.active /\ ~w.minimized THEN @ \cup Rect(w) ELSE @]

Select(x, i) == WmFocus(BringFront(x, i), x.win[i].owner)

CloseWin(x, i) ==
  IF x.win[i].closing THEN x
  ELSE [x EXCEPT !.win[i].closing = TRUE, !.alive = @ \ {x.win[i].owner}]

ToggleMax(x, i) == Whole([x EXCEPT !.win[i].maximized = ~@, !.win[i].dirty = TRUE])

MinimizeWin(x, i) ==
  LET y == IF x.win[i].maximized THEN ToggleMax(x, i) ELSE x
      w == y.win[i]
  IN  IF w.minimized \/ w.minimizing THEN y
      ELSE WmFocus([y EXCEPT !.win[i].minimizing = TRUE], 0)

RestoreWin(x, i) ==
  Select([x EXCEPT !.win[i].minimized = FALSE, !.win[i].minimizing = FALSE], i)

(* win_snap to a side, and a drag or resize by the mouse. *)
Place(x, i, c) ==
  Whole([x EXCEPT !.win[i].maximized = FALSE, !.win[i].at = c, !.win[i].dirty = TRUE])

--------------------------------------------------------------------------------
(* scan_windows: every surface the kernel lists gets its window; a window     *)
(* whose surface is gone is forgotten.  A slot taken again keeps the hidden   *)
(* and minimizing marks of the window that had it.                            *)
FindWin(x, s) == {i \in Slot : x.win[i].active /\ x.win[i].id = SurfaceId}
FreeWin(x) == {i \in Slot : ~x.win[i].active}
MinOf(S) == CHOOSE i \in S : \A j \in S : i <= j

NewWin(x, i, s) ==
  [x EXCEPT !.win[i].active = TRUE, !.win[i].id = SurfaceId,
            !.win[i].owner = x.surf[s].app, !.win[i].title = None,
            !.win[i].maximized = FALSE, !.win[i].minimized = FALSE,
            !.win[i].closing = FALSE, !.win[i].ws = x.ws,
            !.win[i].at = CHOOSE c \in Cell : TRUE]

Entitle(x, i, s) ==
  IF x.win[i].title = x.surf[s].title THEN x
  ELSE [x EXCEPT !.win[i].title = x.surf[s].title, !.win[i].dirty = TRUE,
                 !.damage = @ \cup Rect(x.win[i])]

ScanOne(x, s) ==
  LET found == FindWin(x, s)
      isNew == found = {}
      i == MinOf(IF isNew THEN FreeWin(x) ELSE found)
      y == Entitle(IF isNew THEN NewWin(x, i, s) ELSE x, i, s)
      z == [y EXCEPT !.win[i].dirty = @ \/ x.surf[s].dirty]
  IN  IF x.surf[s].app = 0 THEN x
      ELSE [IF isNew /\ FreeWin(x) = {} THEN x
            ELSE IF isNew THEN Select(z, i) ELSE z
            EXCEPT !.surf[s].dirty = FALSE]

Vanished(x) == {i \in Slot : x.win[i].active /\ ~\E s \in Slot : x.surf[s].app # 0}

ForgetVanished(x) ==
  LET gone == Vanished(x) IN
  [x EXCEPT !.win = [i \in Slot |-> IF i \in gone
                       THEN [@[i] EXCEPT !.active = FALSE, !.dirty = FALSE, !.prev = {}]
                       ELSE @[i]],
            !.damage = @ \cup UNION {Rect(x.win[i]) : i \in gone},
            !.focus = IF @ \in gone THEN NoSlot ELSE @]

ScanWindows(x) ==
  ForgetVanished(FoldLeft(ScanOne, x, [s \in 1..Slots |-> s]))

--------------------------------------------------------------------------------
(* win_update and windows_update_and_damage for one slot; done says that its  *)
(* animation is over.                                                         *)

(* The kernel's teardown of a surface, and SYS_WM_DESTROY by the window's      *)
(* number.                                                                     *)
Teardown(x, s) ==
  [x EXCEPT !.key = IF x.surf[s].app # 0 /\ @ = x.surf[s].app THEN 0 ELSE @,
            !.surf[s].app = 0, !.surf[s].dirty = FALSE]

Destroyed(x, i) ==
  LET y == Teardown(x, x.win[i].id)
      z == IF y.focus = i THEN WmFocus([y EXCEPT !.focus = NoSlot], 0) ELSE y
  IN  [z EXCEPT !.win[i].active = FALSE, !.win[i].closing = FALSE,
                !.damage = @ \cup z.win[i].prev, !.win[i].prev = {}]

Repaint(x, i) ==
  LET w == x.win[i]
      cr == IF Painted(x, i) THEN Rect(w) ELSE {}
      paint == w.dirty \/ cr # w.prev \/ w.closing \/ w.minimizing
  IN  [x EXCEPT !.damage = IF paint THEN @ \cup cr \cup w.prev ELSE @,
                !.win[i].prev = cr, !.win[i].dirty = FALSE]

WinUpdate(x, i, done) ==
  LET w == x.win[i] IN
  IF ~w.active THEN [x EXCEPT !.win[i].prev = {}]
  ELSE IF ~w.minimized /\ w.closing /\ done THEN Destroyed(x, i)
  ELSE IF ~w.minimized /\ ~w.closing /\ w.minimizing /\ done
    THEN Repaint([x EXCEPT !.win[i].minimized = TRUE, !.win[i].minimizing = FALSE], i)
  ELSE Repaint(x, i)

(* The overlay mask of wm_run: a change repaints everything and moves the     *)
(* keyboard between the overlays and the focused window.                      *)
OverlayRouting(x) ==
  LET y == Whole([x EXCEPT !.ovFocus = x.open # {}])
      w == x.win[x.focus]
  IN  IF x.ovFocus = (x.open # {}) THEN x
      ELSE IF ~x.ovFocus THEN WmFocus(y, 0)
      ELSE IF x.focus # NoSlot /\ w.active /\ ~w.minimized /\ OnSpace(x, w)
        THEN WmFocus(y, w.owner)
      ELSE y

(* composite_rect over the damaged cells. *)
Shows(x, c) == IF WinAt(x, c) = NoSlot THEN NoSlot ELSE x.win[WinAt(x, c)].id
Composite(x, c) == [id |-> Shows(x, c), fresh |-> TRUE]

--------------------------------------------------------------------------------
(* Input. *)

Init ==
  /\ d = [win |-> [i \in Slot |-> NoWin], stack |-> <<>>, focus |-> NoSlot, ws |-> 0,
          open |-> {}, ovFocus |-> FALSE, menu |-> NoSlot,
          pick |-> NoSlot, grab |-> NoSlot, damage |-> Cell,
          surf |-> [s \in Slot |-> [app |-> 0, dirty |-> FALSE, title |-> None]],
          canvas |-> 0, alive |-> {}, key |-> 0]
  /\ screen = [c \in Cell |-> [id |-> NoSlot, fresh |-> TRUE]]
  /\ launched = 0 /\ inputs = 0 /\ shown = FALSE

InputStep(x) ==
  /\ inputs < MaxInputs /\ inputs' = inputs + 1
  /\ shown' = FALSE /\ d' = x /\ UNCHANGED <<screen, launched>>

(* handle_press with no overlay in the way: a window is raised and its title  *)
(* bar may close, maximize, minimize or grab it. *)
PressWindow(c) ==
  LET i == WinAt(d, c)
      x == Select(d, i)
  IN  /\ d.open = {} /\ i # NoSlot
      /\ \/ InputStep(x)
         \/ InputStep(CloseWin(x, i))
         \/ InputStep(ToggleMax(x, i))
         \/ InputStep(MinimizeWin(x, i))
         \/ InputStep([IF x.win[i].maximized THEN ToggleMax(x, i) ELSE x
                       EXCEPT !.grab = i])

PressDesktop ==
  /\ d.open = {}
  /\ \/ InputStep(WmFocus(d, 0))
     \/ InputStep(WmFocus([d EXCEPT !.focus = NoSlot], 0))

(* handle_press, button 3: a second right click closes the menu. *)
RightPress(c) ==
  LET i == WinAt(d, c) IN
  /\ \/ "menu" \in d.open /\ InputStep([d EXCEPT !.open = @ \ {"menu"}, !.menu = NoSlot])
     \/ "menu" \notin d.open /\ i # NoSlot
        /\ InputStep([d EXCEPT !.open = @ \cup {"menu"}, !.menu = i])

(* menu_dispatch: the item names a slot of the table, not a window. *)
MenuDispatch ==
  LET i == d.menu
      x == [d EXCEPT !.open = @ \ {"menu"}, !.menu = NoSlot]
      r == IF x.win[i].maximized THEN ToggleMax(x, i) ELSE x
  IN  /\ "menu" \in d.open
      /\ \/ InputStep(MinimizeWin(x, i))
         \/ InputStep(IF x.win[i].active THEN RestoreWin(r, i) ELSE x)
         \/ InputStep(ToggleMax(x, i))
         \/ \E c \in Cell : InputStep(Place(x, i, c))
         \/ InputStep(CloseWin(x, i))

Drag(c) ==
  /\ d.grab # NoSlot /\ d.win[d.grab].active
  /\ InputStep(Whole([d EXCEPT !.win[d.grab].at = c, !.win[d.grab].dirty = TRUE]))

(* handle_release: an edge snaps the focused window, whichever was dragged. *)
Release ==
  LET x == Whole([d EXCEPT !.grab = NoSlot])
      i == d.focus
  IN  /\ d.grab # NoSlot
      /\ \/ InputStep(x)
         \/ /\ i # NoSlot /\ d.win[i].active /\ ~d.win[i].maximized
            /\ \/ InputStep(ToggleMax(x, i))
               \/ \E c \in Cell : InputStep(Place(x, i, c))

ToggleOverlay(o) ==
  /\ "menu" \notin d.open
  /\ InputStep([d EXCEPT !.open = IF o \in @ THEN @ \ {o} ELSE @ \cup {o}])

(* A card of the overview, and the dock icon of an open window. *)
OverviewPick(i) ==
  /\ "overview" \in d.open /\ Painted(d, i)
  /\ InputStep([Select(d, i) EXCEPT !.open = @ \ {"overview"}])

LaunchDock(i) ==
  LET w == d.win[i]
      x == IF w.hidden THEN Whole([d EXCEPT !.win[i].hidden = FALSE, !.win[i].dirty = TRUE])
           ELSE d
  IN  /\ d.open = {} /\ w.active /\ OnSpace(d, w)
      /\ InputStep(IF w.minimized THEN RestoreWin(x, i)
                   ELSE IF d.focus = i THEN x ELSE Select(x, i))

CtrlW ==
  /\ d.focus # NoSlot /\ d.win[d.focus].active
  /\ InputStep(CloseWin(d, d.focus))

ShowDesktop ==
  LET active == {i \in Slot : d.win[i].active}
      any == \E i \in active : d.win[i].hidden
  IN      /\ InputStep(Whole([d EXCEPT !.open = @ \cap {"switcher"},
           !.win = [i \in Slot |-> IF i \in active THEN [@[i] EXCEPT !.hidden = ~any]
                                   ELSE @[i]]]))

(* Ctrl with a digit drops the keyboard, Ctrl with an arrow does not. *)
SwitchSpace(s) ==
  LET x == Whole([d EXCEPT !.ws = s]) IN
  /\ s # d.ws
  /\ \/ InputStep(WmFocus(x, 0))
     \/ s \in {d.ws - 1, d.ws + 1} /\ InputStep(x)

(* switcher_advance: the next window in table order; Esc takes it. *)
Candidate(i) ==
  LET w == d.win[i] IN w.active /\ ~w.minimized /\ ~w.closing /\ OnSpace(d, w)
SwitcherAdvance ==
  LET from == IF "switcher" \in d.open THEN d.pick ELSE NoSlot
      ahead == {k \in 1..Slots : Candidate(((from + k - 1) % Slots) + 1)}
      next == ((from + (IF ahead = {} THEN Slots ELSE MinOf(ahead)) - 1) % Slots) + 1
      stays == ahead # {} \/ next # from
  IN      /\ InputStep(Whole([d EXCEPT !.pick = next,
                  !.open = IF stays THEN @ \cup {"switcher"} ELSE @ \ {"switcher"}]))

Escape ==
  LET i == d.pick
      x == Whole([d EXCEPT !.open = @ \ {"switcher"}, !.pick = NoSlot])
  IN      /\ IF "switcher" \in d.open
           THEN InputStep(IF ~d.win[i].active THEN x
                          ELSE IF d.win[i].minimized THEN RestoreWin(x, i)
                          ELSE Select(x, i))
           ELSE InputStep([d EXCEPT !.open = {}])

--------------------------------------------------------------------------------
(* The rest of a frame of wm_run: wm_scan every other frame, the animations   *)
(* (done: those that are over), the overlays, and the repaint of the damaged  *)
(* cells.  A flip or an exit in the middle of it is one just after it.        *)
Frame(scan) ==
  LET x == IF scan THEN ScanWindows(d) ELSE d IN
  /\ \E done \in SUBSET Slot :
       LET y == OverlayRouting(FoldLeft(LAMBDA z, i : WinUpdate(z, i, i \in done), x,
                                        [i \in 1..Slots |-> i]))
       IN  /\ screen' = [c \in Cell |-> IF c \in y.damage THEN Composite(y, c) ELSE screen[c]]
           /\ d' = [y EXCEPT !.damage = {}]
  /\ shown' = TRUE
  /\ UNCHANGED <<launched, inputs>>

--------------------------------------------------------------------------------
(* The apps and the kernel, between any two of these steps. *)

Outdated == [c \in Cell |-> IF screen[c].id # NoSlot THEN [screen[c] EXCEPT !.fresh = FALSE]
                            ELSE screen[c]]

(* The new surface's frames take the compositor's one address over; the app   *)
(* has not flipped yet.                                                       *)
WmCreate(title) ==
  LET free == {s \in Slot : d.surf[s].app = 0}
      app == launched + 1
  IN  /\ launched < MaxApps /\ free # {} /\ Slots - Cardinality(free) < MaxOpen
      /\ launched' = app
      /\ d' = [d EXCEPT !.surf[MinOf(free)] = [app |-> app, dirty |-> FALSE, title |-> title],
                        !.canvas = app, !.alive = @ \cup {app}]
      /\ screen' = [c \in Cell |-> [screen[c] EXCEPT !.fresh = TRUE]]
      /\ UNCHANGED <<inputs, shown>>

(* The app has drawn; SYS_WM_FLIP refuses a number whose owner is another. *)
WmFlip(s) ==
  LET app == d.surf[s].app IN
  /\ app \in d.alive
  /\ d' = [d EXCEPT !.surf[SurfaceId].dirty = @ \/ d.surf[SurfaceId].app = app]
  /\ screen' = IF d.canvas = app THEN Outdated ELSE screen
  /\ UNCHANGED <<launched, inputs, shown>>

Exit(a) ==
  /\ a \in d.alive
  /\ d' = [d EXCEPT !.alive = @ \ {a}]
  /\ UNCHANGED <<screen, launched, inputs, shown>>

OwnerDied(s) ==
  /\ d.surf[s].app \notin d.alive \cup {0}
  /\ d' = Teardown(d, s)
  /\ UNCHANGED <<screen, launched, inputs, shown>>

Next ==
  \/ \E c \in Cell : PressWindow(c) \/ RightPress(c) \/ Drag(c)
  \/ PressDesktop \/ MenuDispatch \/ Release
  \/ \E o \in Overlays : ToggleOverlay(o)
  \/ \E i \in Slot : OverviewPick(i) \/ LaunchDock(i) \/ WmFlip(i) \/ OwnerDied(i)
  \/ \E s \in 0..(Spaces - 1) : SwitchSpace(s)
  \/ CtrlW \/ ShowDesktop \/ SwitcherAdvance \/ Escape
  \/ \E scan \in BOOLEAN : Frame(scan)
  \/ \E title \in Titles : WmCreate(title)
  \/ \E a \in 1..MaxApps : Exit(a)

Spec == Init /\ [][Next]_vars

--------------------------------------------------------------------------------
(* Damage tracking loses nothing: when a frame is on the screen, every cell   *)
(* shows the topmost window over it, or the backdrop, and a window that is     *)
(* behind the last flip of the app it shows has that flip still pending in the *)
(* kernel, for the next scan.                                                 *)
ScreenCurrent ==
  shown =>
    \A c \in Cell :
      /\ screen[c].id = Shows(d, c)
      /\ WinAt(d, c) # NoSlot =>
           \A s \in Slot : d.surf[s].app = d.canvas =>
             screen[c].fresh \/ d.surf[s].dirty
===============================================================================
