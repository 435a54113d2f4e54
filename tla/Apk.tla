-------------------------------- MODULE Apk --------------------------------
(***************************************************************************)
(* The package manager of userland/apk_core.c (run by apk, the launcher    *)
(* and the shell) and the file helpers of fsutil.c.  One package: what is  *)
(* on the file system for it is its binary in /bin, its launcher entry and *)
(* its record in the package database; "tmp" is the download in /tmp and   *)
(* "index" the cached repository index.  A file is "no", "empty", "part"   *)
(* or "full".  apk add and apk del are sequences of system calls: a        *)
(* process can be killed between any two of them, a write can fail, and    *)
(* a download ends early without an error when the peer falls silent.      *)
(***************************************************************************)
EXTENDS Integers

CONSTANTS
  Proc,      \* processes that run apk
  Kinds      \* what a repository can offer: a package may be "bad" (header or
             \* identity), "cut" (shorter than its header says), "plain", "app"

VARIABLES
  file,      \* the five files
  local,     \* what find_pkg finds in /repo: a kind or "no"
  disk,      \* blkfs_active(): without it every fsync fails
  pc,        \* the next step of each process
  pkg,       \* the kind of package it is installing
  mine       \* the files its failure path removes: installed_path, desktop_path

vars == <<file, local, disk, pc, pkg, mine>>

File == {"bin", "desktop", "record", "tmp", "index"}

Init ==
  /\ file = [f \in File |-> "no"]
  /\ local \in Kinds \cup {"no"}
  /\ disk \in BOOLEAN
  /\ pc = [p \in Proc |-> "idle"]
  /\ pkg = [p \in Proc |-> "bad"]
  /\ mine = [p \in Proc |-> {}]

-----------------------------------------------------------------------------
(* Faulty variants of the definitions below: each breaks one of the properties *)

(* The result of writing the binary is not looked at. *)
FillUnchecked(p, f, ok, fail) ==
  \E to \in {"empty", "part", "full"} :
    /\ file' = [file EXCEPT ![f] = to]
    /\ pc' = [pc EXCEPT ![p] = IF f = "bin" \/ (to = "full" /\ disk) THEN ok ELSE fail]

-----------------------------------------------------------------------------
Goto(p, l) == pc' = [pc EXCEPT ![p] = l]
Exists(f) == file[f] # "no"            \* open(f, O_RDONLY) succeeds

(* fs_write_file: the open creates or truncates the file, or fails; the writes
   stop early or complete; then the file is flushed, which fails without a
   disk.  Anything but a complete flushed file is an error. *)
Truncate(p, f, to, fail) ==
  \/ file' = [file EXCEPT ![f] = "empty"] /\ Goto(p, to)
  \/ Goto(p, fail) /\ UNCHANGED file

Fill(p, f, ok, fail) ==
  \E to \in {"empty", "part", "full"} :
    /\ file' = [file EXCEPT ![f] = to]
    /\ pc' = [pc EXCEPT ![p] = IF to = "full" /\ disk THEN ok ELSE fail]

-----------------------------------------------------------------------------
(* add_pkg, up to the package in memory: an installed package is left alone, a
   package of /repo is read, any other is fetched.  http_get hands on what it
   has once the peer has been silent for three seconds. *)
Add(p) ==
  /\ pc[p] = "idle" /\ ~Exists("record")
  /\ mine' = [mine EXCEPT ![p] = {}]
  /\ \/ /\ local # "no"
        /\ pkg' = [pkg EXCEPT ![p] = local] /\ Goto(p, "check")
     \/ /\ local = "no"
        /\ \E k \in Kinds : pkg' = [pkg EXCEPT ![p] = k]
        /\ Goto(p, "stash")
  /\ UNCHANGED <<file, local, disk>>

StashOpen(p) ==
  /\ pc[p] = "stash" /\ Truncate(p, "tmp", "stash_fill", "idle")
  /\ UNCHANGED <<local, disk, pkg, mine>>

StashFill(p) ==
  /\ pc[p] = "stash_fill" /\ Fill(p, "tmp", "check", "idle")
  /\ UNCHANGED <<local, disk, pkg, mine>>

(* read_header and the identity checks return at once; the checks of the file
   entry end in the failure path, with nothing to remove yet. *)
Check(p) ==
  /\ pc[p] = "check"
  /\ Goto(p, CASE pkg[p] = "bad" -> "idle"
               [] pkg[p] = "cut" \/ Exists("bin") -> "undo"
               [] OTHER -> "bin")
  /\ mine' = [mine EXCEPT ![p] = IF pkg[p] \in {"bad", "cut"} \/ Exists("bin") THEN {} ELSE {"bin"}]
  /\ UNCHANGED <<file, local, disk, pkg>>

BinOpen(p) ==
  /\ pc[p] = "bin" /\ Truncate(p, "bin", "bin_fill", "undo")
  /\ UNCHANGED <<local, disk, pkg, mine>>

BinFill(p) ==
  /\ pc[p] = "bin_fill"
  /\ Fill(p, "bin", IF pkg[p] = "app" THEN "desktop" ELSE "record", "undo")
  /\ UNCHANGED <<local, disk, pkg, mine>>

DesktopOpen(p) ==
  /\ pc[p] = "desktop"
  /\ IF Exists("desktop") THEN Goto(p, "undo") /\ UNCHANGED file
                          ELSE Truncate(p, "desktop", "desktop_fill", "undo")
  /\ UNCHANGED <<local, disk, pkg, mine>>

(* desktop_written is set only after a write that succeeded. *)
DesktopFill(p) ==
  /\ pc[p] = "desktop_fill" /\ Fill(p, "desktop", "record", "undo")
  /\ mine' = [mine EXCEPT ![p] = @ \cup {f \in {"desktop"} : pc'[p] = "record"}]
  /\ UNCHANGED <<local, disk, pkg>>

(* The record comes last: a package with a record is installed. *)
RecordOpen(p) ==
  /\ pc[p] = "record" /\ Truncate(p, "record", "record_fill", "undo")
  /\ UNCHANGED <<local, disk, pkg, mine>>

RecordFill(p) ==
  /\ pc[p] = "record_fill" /\ Fill(p, "record", "idle", "undo")
  /\ UNCHANGED <<local, disk, pkg, mine>>

(* The failure path: one unlink for each file this call made. *)
Undo(p) ==
  /\ pc[p] = "undo"
  /\ \/ /\ mine[p] = {} /\ Goto(p, "idle") /\ UNCHANGED <<file, mine>>
     \/ /\ mine[p] # {}
        /\ LET f == IF "bin" \in mine[p] THEN "bin" ELSE "desktop" IN
             /\ file' = [file EXCEPT ![f] = "no"]
             /\ mine' = [mine EXCEPT ![p] = @ \ {f}]
        /\ UNCHANGED pc
  /\ UNCHANGED <<local, disk, pkg>>

-----------------------------------------------------------------------------
(* del_pkg: an empty record is "not installed", a cut one names no path the
   package may have.  The binary goes first and the record last; the first
   unlink that fails ends the call. *)
Del(p) ==
  /\ pc[p] = "idle" /\ file["record"] = "full"
  /\ Goto(p, "del_bin")
  /\ UNCHANGED <<file, local, disk, pkg, mine>>

Unlink(p, at, f, then) ==
  /\ pc[p] = at
  /\ file' = [file EXCEPT ![f] = "no"]
  /\ Goto(p, then)
  /\ UNCHANGED <<local, disk, pkg, mine>>

DelBin(p) == Unlink(p, "del_bin", "bin", IF Exists("bin") THEN "del_desktop" ELSE "idle")
DelDesktop(p) == Unlink(p, "del_desktop", "desktop", "del_record")
DelRecord(p) == Unlink(p, "del_record", "record", "idle")

(* update_repo: the index is cached beside the records. *)
Update(p) ==
  /\ \/ pc[p] = "idle" /\ Truncate(p, "index", "index_fill", "idle")
     \/ pc[p] = "index_fill" /\ Fill(p, "index", "idle", "idle")
  /\ UNCHANGED <<local, disk, pkg, mine>>

(* A signal, or the window of the terminal closed, between two system calls. *)
Killed(p) ==
  /\ pc[p] # "idle" /\ Goto(p, "idle")
  /\ UNCHANGED <<file, local, disk, pkg, mine>>

Next == \E p \in Proc :
  \/ Add(p) \/ StashOpen(p) \/ StashFill(p) \/ Check(p) \/ BinOpen(p) \/ BinFill(p)
  \/ DesktopOpen(p) \/ DesktopFill(p) \/ RecordOpen(p) \/ RecordFill(p) \/ Undo(p)
  \/ Del(p) \/ DelBin(p) \/ DelDesktop(p) \/ DelRecord(p) \/ Update(p) \/ Killed(p)

Spec == Init /\ [][Next]_vars

-----------------------------------------------------------------------------
(* A package whose record is complete has a complete binary, or none when its
   removal was cut short: whatever write fails and wherever add_pkg is killed,
   the record never vouches for a binary that is half written, for a download
   that ended early, or for one that was never flushed to a disk. *)
InstalledIsWhole ==
  file["record"] = "full" => disk /\ file["bin"] \in {"no", "full"}
=============================================================================
