------------------------------- MODULE Launcher -------------------------------
(***************************************************************************)
(* What the desktop offers to start, and what of it survives a restart of  *)
(* the compositor: the application list that a periodic scan of the        *)
(* desktop entries keeps up to date (wm.c), the dock with its pins and its *)
(* hidden applications (wm_dock.c), the icons of the desktop, and the      *)
(* menu entries that change them (wm_overlays.c).  The three files         *)
(* desktop.conf, dock.conf and dock_hidden.conf are sequences of lines;    *)
(* names and pictures are left out, a position is a cell of the grid.      *)
(***************************************************************************)
EXTENDS Integers, Sequences, FiniteSets, SequencesExt

CONSTANTS BuiltIn,      \* sequence of the paths load_apps_config adds
          DockApps,     \* sequence of the paths default_dock adds, not core
          Places,       \* sequence of the paths of the default icons
          Exec,         \* function: name of a desktop entry -> its Exec= path
          Base,         \* function: path of an application -> its last component
          MaxApps,      \* MAX_APPS
          MaxDock,      \* MAX_DOCK
          MaxDesktop,   \* MAX_DESKTOP
          Rows, Cols,   \* the grid of the desktop
          MaxSteps      \* bound: menu choices, drags, installations, restarts

VARIABLES apps,      \* G_app: sequence of [path, dynamic]
          dock,      \* G_dock: sequence of [path, core]
          desk,      \* G_desk: sequence of [path, at]
          entries,   \* /usr/share/applications: sequence of entry names
          conf,      \* desktop.conf: [dock: paths, desk: icons]
          pins,      \* dock.conf: sequence of paths
          hidden,    \* dock_hidden.conf: sequence of paths
          fresh,     \* history: no entry came or went since the last scan
          placed,    \* history: the icons as the user left them, path -> cell
          steps

vars == <<apps, dock, desk, entries, conf, pins, hidden, fresh, placed, steps>>

Apps == "Show Apps"
Trash == "trash"

Paths(s) == [i \in DOMAIN s |-> s[i].path]
Has(s, p) == \E i \in DOMAIN s : s[i].path = p
IndexOf(s, p) == CHOOSE i \in DOMAIN s : s[i].path = p
IsFile(p) == p \notin {Apps, Trash}      \* path[0] == '/'

-----------------------------------------------------------------------------
(* Faulty variants of the definitions below.                               *)

(* The scan only adds. *)
PrunedNever(as) == as

(* Icons are saved without where they are. *)
SavedUnplaced(d, k) ==
  [dock |-> Paths(SelectSeq(d, LAMBDA e : ~e.core)),
   desk |-> [i \in DOMAIN k |-> [path |-> k[i].path, at |-> <<0, 0>>]]]

(* The default dock ignores dock_hidden.conf. *)
ApplyHiddenNot(d) == d

-----------------------------------------------------------------------------
(* The application list.                                                   *)

AddApp(as, p) ==
  IF Len(as) >= MaxApps \/ Has(as, p) THEN as ELSE Append(as, [path |-> p, dynamic |-> FALSE])

AddDesktopApp(as, p) ==
  IF Len(as) >= MaxApps \/ Has(as, p) THEN as ELSE Append(as, [path |-> p, dynamic |-> TRUE])

LoadApps == FoldLeft(AddApp, << >>, BuiltIn)

(* The entry looked for is named after the program, not after the entry it *)
(* came from.                                                              *)
Pruned(as) == SelectSeq(as, LAMBDA a : ~a.dynamic \/ Contains(entries, Base[a.path]))

Scanned(as) == FoldLeft(LAMBDA r, e : AddDesktopApp(r, Exec[e]), Pruned(as), entries)

-----------------------------------------------------------------------------
(* The dock and its two files.                                             *)

AddDock(d, p, core) ==
  IF Len(d) >= MaxDock \/ Has(d, p) THEN d ELSE Append(d, [path |-> p, core |-> core])

AddDocks(d, ps, core) == FoldLeft(LAMBDA r, p : AddDock(r, p, core), d, ps)

DefaultDock == AddDock(AddDocks(AddDock(<< >>, Apps, TRUE), DockApps, FALSE), Trash, TRUE)

ApplyHidden(d) == SelectSeq(d, LAMBDA e : e.core \/ ~Contains(hidden, e.path))

HiddenWith(h, p) == IF Contains(h, p) THEN h ELSE Append(h, p)
HiddenWithout(h, p) == SelectSeq(h, LAMBDA q : q # p)

SavedPins(d) == Paths(SelectSeq(d, LAMBDA e : ~e.core /\ IsFile(e.path)))

-----------------------------------------------------------------------------
(* The icons and desktop.conf.                                             *)

AddDesktopAt(k, p, at) ==
  IF Has(k, p) THEN [k EXCEPT ![IndexOf(k, p)].at = at]
  ELSE IF Len(k) >= MaxDesktop THEN k ELSE Append(k, [path |-> p, at |-> at])

AddDesktop(k, p) == AddDesktopAt(k, p, <<Len(k) \div Rows, Len(k) % Rows>>)

Saved(d, k) == [dock |-> Paths(SelectSeq(d, LAMBDA e : ~e.core)), desk |-> k]

LoadIcons ==
  FoldLeft(LAMBDA k, e : AddDesktopAt(k, e.path, e.at),
           FoldLeft(AddDesktop, << >>, Places), conf.desk)

(* Dropping an icon: the first free cell from the one under it, row by row. *)
NextCell(c) == IF c[1] + 1 >= Cols THEN <<0, c[2] + 1>> ELSE <<c[1] + 1, c[2]>>

FreeCell(k, i, c) ==
  LET cell[n \in 0 .. Len(k)] == IF n = 0 THEN c ELSE NextCell(cell[n - 1])
      free(n) == \A j \in DOMAIN k \ {i} : k[j].at # cell[n]
  IN cell[CHOOSE n \in 0 .. Len(k) : free(n) /\ \A m \in 0 .. n - 1 : ~free(m)]

PlacedAs(k) == [p \in ToSet(Paths(k)) |-> k[IndexOf(k, p)].at]

-----------------------------------------------------------------------------
(* Steps.                                                                  *)

Init ==
  /\ apps = LoadApps /\ dock = DefaultDock
  /\ desk = FoldLeft(AddDesktop, << >>, Places)
  /\ entries = << >> /\ pins = << >> /\ hidden = << >>
  /\ conf = [dock |-> << >>, desk |-> << >>]
  /\ fresh = TRUE
  /\ placed = PlacedAs(desk)
  /\ steps = 0

Step == steps < MaxSteps /\ steps' = steps + 1

(* apk add and apk del, in another process. *)
Install(e) ==
  /\ Step /\ ~Contains(entries, e)
  /\ entries' = Append(entries, e)
  /\ fresh' = FALSE
  /\ UNCHANGED <<apps, dock, desk, conf, pins, hidden, placed>>

Delete(e) ==
  /\ Step /\ Contains(entries, e)
  /\ entries' = SelectSeq(entries, LAMBDA x : x # e)
  /\ fresh' = FALSE
  /\ UNCHANGED <<apps, dock, desk, conf, pins, hidden, placed>>

(* The scan the main loop makes every two seconds. *)
Scan ==
  /\ apps' = Scanned(apps)
  /\ fresh' = TRUE
  /\ UNCHANGED <<dock, desk, entries, conf, pins, hidden, placed, steps>>

(* What menu_open offers on a slot of the dock and in the launcher.         *)
UnpinOffered(p) == IsFile(p) /\ Has(dock, p) /\ ~dock[IndexOf(dock, p)].core
PinOffered(p)   == Has(apps, p) /\ ~Has(dock, p)

PinApp(p) ==
  /\ Step /\ PinOffered(p)
  /\ hidden' = HiddenWithout(hidden, p)
  /\ dock' = AddDock(dock, p, TRUE)
  /\ pins' = SavedPins(dock')
  /\ conf' = Saved(dock', desk)
  /\ UNCHANGED <<apps, desk, entries, fresh, placed>>

(* desktop.conf is not written again. *)
UnpinDock(p) ==
  /\ Step /\ UnpinOffered(p)
  /\ dock' = SelectSeq(dock, LAMBDA e : e.path # p)
  /\ hidden' = HiddenWith(hidden, p)
  /\ pins' = SavedPins(dock')
  /\ UNCHANGED <<apps, desk, entries, conf, fresh, placed>>

(* The icons change and desktop.conf is written. *)
Arrange(k) ==
  /\ desk' = k
  /\ conf' = Saved(dock, k)
  /\ placed' = PlacedAs(k)
  /\ UNCHANGED <<apps, dock, entries, pins, hidden, fresh>>

AddToDesktop(p) ==
  /\ Step /\ Has(apps, p)
  /\ Arrange(AddDesktop(desk, p))

RemoveFromDesktop(i) ==
  /\ Step
  /\ Arrange(RemoveAt(desk, i))

DropIcon(i, c) ==
  /\ Step
  /\ Arrange([desk EXCEPT ![i].at = FreeCell(desk, i, c)])

(* load_all of a compositor that starts again. *)
Restart ==
  /\ Step
  /\ apps' = Scanned(LoadApps)
  /\ dock' = AddDocks(AddDocks(ApplyHidden(DefaultDock), pins, TRUE), conf.dock, TRUE)
  /\ desk' = LoadIcons
  /\ fresh' = TRUE
  /\ UNCHANGED <<entries, conf, pins, hidden, placed>>

Next ==
  \/ \E e \in DOMAIN Exec : Install(e) \/ Delete(e)
  \/ Scan
  \/ \E p \in DOMAIN Base : PinApp(p) \/ UnpinDock(p) \/ AddToDesktop(p)
  \/ \E i \in DOMAIN desk : RemoveFromDesktop(i)
  \/ \E i \in DOMAIN desk, c \in 0 .. Cols - 1, r \in 0 .. Rows - 1 : DropIcon(i, <<c, r>>)
  \/ Restart

Spec == Init /\ [][Next]_vars

-----------------------------------------------------------------------------
(* Properties.                                                             *)

(* After a scan the launcher lists the built-in applications and what the  *)
(* desktop entries name, each once: nothing that apk removed is left and   *)
(* nothing it installed is missing (while the table has room).             *)
AppsCurrent ==
  /\ IsInjective(Paths(apps))
  /\ fresh /\ Len(apps) < MaxApps =>
       ToSet(Paths(apps)) = ToSet(BuiltIn) \cup {Exec[e] : e \in ToSet(entries)}

(* The dock lists nothing twice, keeps its two fixed slots, and what the   *)
(* user may unpin is never also hidden.                                    *)
DockSound ==
  /\ IsInjective(Paths(dock))
  /\ Has(dock, Apps) /\ Has(dock, Trash)
  /\ \A i \in DOMAIN dock : ~dock[i].core => ~Contains(hidden, dock[i].path)

(* Through every restart the icons stay where the user left them; only a   *)
(* default icon that was removed may come back.                            *)
IconsKept ==
  /\ IsInjective(Paths(desk))
  /\ ToSet(Paths(desk)) \subseteq DOMAIN placed \cup ToSet(Places)
  /\ Cardinality(DOMAIN placed \cup ToSet(Places)) <= MaxDesktop =>
       \A p \in DOMAIN placed : Has(desk, p) /\ desk[IndexOf(desk, p)].at = placed[p]

LauncherSound == AppsCurrent /\ DockSound /\ IconsKept
===============================================================================
