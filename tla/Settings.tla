------------------------------ MODULE Settings ------------------------------
(***************************************************************************)
(* The Settings application (userland/gui_apps.c, APP_SETTINGS), the file  *)
(* settings.conf it rewrites at every change, and the compositor           *)
(* (userland/wm.c) that reads the file every two seconds and applies it.   *)
(* The file is rewritten by a truncating open and one write for each key,  *)
(* and the compositor may read it in between.  A preference is the index   *)
(* of a value; the first one is the default.                               *)
(***************************************************************************)
EXTENDS Integers, Sequences

CONSTANTS
  Pages,      \* the pages of the application; the first one is "home"
  MaxHistory, \* MAX_HISTORY
  MaxMoves,   \* bound: page changes
  MaxChanges, \* bound: changes of a preference, by the application or the slider
  MaxOpens    \* bound: how often the application is opened

VARIABLES
  open,     \* the application runs
  hist, idx,\* s_hist[0 .. s_hist_len - 1], s_hist_idx + 1
  pref,     \* s_accent, s_cursor, ...: the values on the pages
  file,     \* the lines of settings.conf, in order; << >> when empty or absent
  wr,       \* lines of the rewrite in progress still to be written, or 0
  applied,  \* the compositor's values
  moves, changes, opens

vars == <<open, hist, idx, pref, file, wr, applied, moves, changes, opens>>

Order == <<"accent", "cursor", "wallpaper", "dock", "volume", "scale">>
Key == {Order[i] : i \in DOMAIN Order}
OnPage(p) == CASE p = "personalization" -> {"accent", "cursor", "wallpaper"}
               [] p = "system" -> {"dock", "volume", "scale"}
               [] OTHER -> {}

(* A line of the file is the key and the text written for the value. *)
Held(k) == {file[i].value : i \in {j \in DOMAIN file : file[j].key = k}}

Init ==
  /\ open = FALSE /\ hist = <<"home">> /\ idx = 1
  /\ pref = [k \in Key |-> 0] /\ applied = [k \in Key |-> 0]
  /\ file = <<>> /\ wr = 0 /\ moves = 0 /\ changes = 0 /\ opens = 0

-----------------------------------------------------------------------------
(* Faulty variants of the definitions below: each breaks one of the properties *)

(* The last line is not written. *)
ConfWriteShort ==
  /\ wr > 1
  /\ LET k == Order[Len(Order) - wr + 1] IN
     file' = Append(file, [key |-> k, value |-> pref[k]])
  /\ wr' = IF wr = 2 THEN 0 ELSE wr - 1
  /\ UNCHANGED <<open, hist, idx, pref, applied, moves, changes, opens>>

(* settings_apply has no case for the volume. *)
AppliedNotVolume(k) ==
  IF k = "volume" \/ Held(k) = {} THEN applied[k] ELSE CHOOSE x \in Held(k) : TRUE

(* The volume is read with the key of another line. *)
ReadBackShifted(k) ==
  LET v == Held(IF k = "volume" THEN "dock" ELSE k) IN
  IF k = "accent" \/ v = {} THEN 0 ELSE CHOOSE x \in v : TRUE

-----------------------------------------------------------------------------
(* conf_get and conf_get_str in settings_init.  The accent is written as "#" and
   six digits and looked up without the "#": it is never found. *)
ReadBack(k) ==
  LET v == Held(k) IN IF k = "accent" \/ v = {} THEN 0 ELSE CHOOSE x \in v : TRUE

(* main_entry and settings_init *)
Start ==
  /\ ~open /\ opens < MaxOpens
  /\ open' = TRUE /\ opens' = opens + 1
  /\ hist' = <<"home">> /\ idx' = 1
  /\ pref' = [k \in Key |-> ReadBack(k)]
  /\ UNCHANGED <<file, wr, applied, moves, changes>>

(* The window is closed; wr = 0: between two events. *)
Close ==
  /\ open /\ wr = 0 /\ open' = FALSE
  /\ UNCHANGED <<hist, idx, pref, file, wr, applied, moves, changes, opens>>

(* settings_reduce.  A full history refuses the page, and has lost the pages
   that Forward led to. *)
Reduce ==
  /\ open /\ wr = 0 /\ moves < MaxMoves /\ moves' = moves + 1
  /\ \/ \E p \in Pages \ {hist[idx]} :
          IF idx >= MaxHistory THEN hist' = SubSeq(hist, 1, idx) /\ UNCHANGED idx
          ELSE hist' = Append(SubSeq(hist, 1, idx), p) /\ idx' = idx + 1
     \/ idx > 1 /\ idx' = idx - 1 /\ UNCHANGED hist
     \/ idx < Len(hist) /\ idx' = idx + 1 /\ UNCHANGED hist
  /\ UNCHANGED <<open, pref, file, wr, applied, changes, opens>>

(* settings_key and settings_click: a new value, and conf_write's open. *)
Change ==
  /\ open /\ wr = 0 /\ changes < MaxChanges /\ changes' = changes + 1
  /\ \E k \in OnPage(hist[idx]) : pref' = [pref EXCEPT ![k] = 1 - @]
  /\ file' = <<>> /\ wr' = Len(Order)
  /\ UNCHANGED <<open, hist, idx, applied, moves, opens>>

(* conf_write, one line *)
ConfWrite ==
  /\ wr > 0
  /\ LET k == Order[Len(Order) - wr + 1] IN
     file' = Append(file, [key |-> k, value |-> pref[k]])
  /\ wr' = wr - 1
  /\ UNCHANGED <<open, hist, idx, pref, applied, moves, changes, opens>>

(* settings_apply, for a key the file may hold *)
Applied(k) == IF Held(k) = {} THEN applied[k] ELSE CHOOSE x \in Held(k) : TRUE

(* settings_poll and settings_load: every line of the file as it is now *)
Poll ==
  /\ applied' = [k \in Key |-> Applied(k)]
  /\ UNCHANGED <<open, hist, idx, pref, file, wr, moves, changes, opens>>

(* The volume slider of the compositor's quick panel *)
Slider ==
  /\ changes < MaxChanges /\ changes' = changes + 1
  /\ applied' = [applied EXCEPT !["volume"] = 1 - @]
  /\ UNCHANGED <<open, hist, idx, pref, file, wr, moves, opens>>

Next == Start \/ Close \/ Reduce \/ Change \/ ConfWrite \/ Poll \/ Slider

Spec == Init /\ [][Next]_vars

(* The application finishes the handler it is in, and the compositor's loop goes
   round. *)
FairSpec == Spec /\ WF_vars(ConfWrite) /\ WF_vars(Poll)

-----------------------------------------------------------------------------
(* The page shown is one of the history, and between two events of an open
   application a file that was written holds what the pages show: opening
   Settings again reads back every preference but the accent, so that changing
   one does not change another. *)
PrefsKept ==
  /\ idx \in DOMAIN hist /\ hist[idx] \in Pages
  /\ open /\ wr = 0 /\ file # <<>> => \A k \in Key \ {"accent"} : Held(k) = {pref[k]}

(* What it comes to once the user stops: the desktop shows what the file holds,
   though it may have read half a file on the way. *)
Shown == \A k \in Key : Held(k) \subseteq {applied[k]} /\ (file # <<>> => Held(k) # {})
=============================================================================
