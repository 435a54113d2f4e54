------------------------------ MODULE FilesApp ------------------------------
(***************************************************************************)
(* The Files application (userland/gui_apps.c, APP_FILES) over the         *)
(* directory calls of the kernel: getdents, rename, unlink, mkdir.  Keys   *)
(* are handled in batches: every key acts on the listing of the last       *)
(* repaint, while the directory changes under it.  A path is the sequence  *)
(* of names below /home/yart, a name a base and the number appended to it. *)
(* A file's data is a model value of Data or Blank, a directory's "dir".   *)
(***************************************************************************)
EXTENDS Integers, Sequences, SequencesExt, FiniteSetsExt, TLC

CONSTANTS
  Data, Blank,   \* what files hold; the data of an empty file
  Bases,         \* names the user types in a rename
  MaxN,          \* bound: the highest number appended to a name
  MaxFiles,      \* bound: entries in all directories together
  MaxDepth,      \* bound: directories below /home/yart the user enters
  MaxKeys,       \* bound: keys and clicks
  HistMax        \* F_HIST_MAX

VARIABLES
  dirs,    \* the directories: path -> sequence of [name, data], in creation order
  path,    \* f_path
  hist,    \* f_hist[0 .. f_hist_len - 1]
  idx,     \* f_hist_idx + 1
  ent,     \* f_ent: the listing of the last repaint
  sel,     \* f_sel + 1 (0: nothing selected)
  ren,     \* f_renaming + 1 (0: no rename in progress)
  keys,    \* keys and clicks so far
  clip     \* f_copybuf and f_copybuf_cut: <<>> or <<[dir, name, cut]>>

vars == <<dirs, path, hist, idx, ent, sel, ren, keys, clip>>

Home == <<>>
TrashName == <<".trash", 0>>
DocsName == <<"docs", 0>>
Trash == <<TrashName>>
Docs == <<DocsName>>
Name == (Bases \cup {"docs", ".trash", "NewFolder"}) \X (0..MaxN)

(* f_renaming has no initialiser, so it starts at 0: the application opens with
   a rename of the first entry in progress. *)
Init ==
  /\ \E d \in [{Home, Docs} -> Data], b \in Bases :
       d[Home] # d[Docs] /\
       dirs = (Trash :> <<>>) @@ (Docs :> <<[name |-> <<b, 0>>, data |-> d[Docs]]>>)
              @@ (Home :> << [name |-> <<b, 0>>, data |-> d[Home]],
                             [name |-> DocsName, data |-> "dir"],
                             [name |-> TrashName, data |-> "dir"] >>)
  /\ path = Home /\ hist = <<Home>> /\ idx = 1
  /\ ent = dirs[Home] /\ sel = 1 /\ ren = 1 /\ clip = <<>> /\ keys = 0

-----------------------------------------------------------------------------
(* The kernel's side: what a call leaves on the file system *)

Find(D, dir, name) ==
  IF dir \notin DOMAIN D THEN {} ELSE {i \in DOMAIN D[dir] : D[dir][i].name = name}
Entry(D, dir, name) == D[dir][CHOOSE i \in Find(D, dir, name) : TRUE]
Drop(D, dir, name) == [D EXCEPT ![dir] = RemoveAt(@, CHOOSE i \in Find(D, dir, name) : TRUE)]
Full(D) == FoldSet(LAMBDA d, n : n + Len(D[d]), 0, DOMAIN D) >= MaxFiles

(* vfs_create: an existing name is refused. *)
Create(D, dir, name, data) ==
  LET E == [D EXCEPT ![dir] = Append(@, [name |-> name, data |-> data])] IN
  IF data = "dir" THEN E @@ (Append(dir, name) :> <<>>) ELSE E

(* vfs_unlink: a directory must be empty. *)
Unlinkable(D, dir, name) ==
  Find(D, dir, name) # {} /\ (Entry(D, dir, name).data = "dir" => D[Append(dir, name)] = <<>>)
Unlink(D, dir, name) ==
  LET E == Drop(D, dir, name) IN
  IF Entry(D, dir, name).data = "dir" THEN [d \in DOMAIN E \ {Append(dir, name)} |-> E[d]] ELSE E

-----------------------------------------------------------------------------
(* Faulty variants of the definitions below: each breaks one of the properties *)

(* rename overwrites a name that exists. *)
RenameOver(D, from, old, to, new) ==
  IF Find(D, from, old) = {} \/ to \notin DOMAIN D \/ Entry(D, from, old).data = "dir" THEN D
  ELSE LET E == IF Find(D, to, new) # {} /\ <<to, new>> # <<from, old>>
                THEN Drop(D, to, new) ELSE D IN
       Unlink(Create(E, to, new, Entry(D, from, old).data), from, old)

-----------------------------------------------------------------------------
(* sys_rename: the new name must be free; a node of the same type and data is
   made there, and the old one unlinked.  The unlink of a directory that is not
   empty fails after the new one was made. *)
Rename(D, from, old, to, new) ==
  IF Find(D, from, old) = {} \/ to \notin DOMAIN D \/ Find(D, to, new) # {} THEN D
  ELSE LET E == Create(D, to, new, Entry(D, from, old).data) IN
       IF Unlinkable(E, from, old) THEN Unlink(E, from, old) ELSE E

(* f_copy_file: the target is created or truncated before the source is read, so
   a file copied onto itself is empty.  A directory opens, but has no bytes. *)
CopyFile(D, from, name, to) ==
  LET exists == Find(D, to, name) # {}
      bytes == IF from = to \/ Entry(D, from, name).data = "dir" THEN Blank
               ELSE Entry(D, from, name).data IN
  IF exists /\ Entry(D, to, name).data = "dir" THEN D
  ELSE IF exists
  THEN [D EXCEPT ![to] = [i \in DOMAIN @ |-> IF @[i].name = name THEN [@[i] EXCEPT !.data = bytes] ELSE @[i]]]
  ELSE Create(D, to, name, bytes)

(* f_empty_trash: one getdents call for each entry, whose position counts the
   entries handed out, and an unlink in between that moves the later entries one
   place down: every second entry is skipped. *)
Sweep(D) ==
  LET gone == {i \in DOMAIN D[Trash] :
                 i % 2 = 1 /\ (D[Trash][i].data = "dir" => D[Append(Trash, D[Trash][i].name)] = <<>>)}
      names == {D[Trash][i].name : i \in gone} IN
  [d \in DOMAIN D \ {Append(Trash, n) : n \in names} |->
     IF d = Trash THEN SelectSeq(D[d], LAMBDA e : e.name \notin names) ELSE D[d]]

-----------------------------------------------------------------------------
(* The application *)

Selected == sel \in DOMAIN ent
FreeNames(dir, base, from) ==
  {n \in {0} \cup (from..MaxN) : Find(dirs, dir, <<base, n>>) = {}}
Least(S) == CHOOSE n \in S : \A m \in S : n <= m

(* f_goto: the forward history is cut and the path pushed; in a full history it
   takes the place of the entry it came from. *)
Goto(p) ==
  IF p = path THEN UNCHANGED <<path, hist, idx, sel>>
  ELSE LET n == IF idx + 1 > HistMax THEN HistMax ELSE idx + 1 IN
       /\ path' = p /\ idx' = n /\ sel' = 1
       /\ hist' = Append(SubSeq(hist, 1, n - 1), p)

Walk == UNCHANGED <<dirs, ent, ren, clip>>
Still == UNCHANGED <<path, hist, idx, ent, ren>>

Back == ren = 0 /\ idx > 1 /\ idx' = idx - 1 /\ path' = hist[idx - 1] /\ sel' = 1
        /\ Walk /\ UNCHANGED hist
Forward == idx < Len(hist) /\ idx' = idx + 1 /\ path' = hist[idx + 1] /\ sel' = 1
           /\ Walk /\ UNCHANGED hist
(* f_up; the directories above /home/yart are left out. *)
Up == path # Home /\ Goto(Front(path)) /\ Walk
Place == \E p \in {Home, Docs, Trash} : Goto(p) /\ Walk
Enter == ren = 0 /\ Selected /\ Len(path) < MaxDepth /\ ent[sel].data = "dir" /\ Goto(Append(path, ent[sel].name))
         /\ Walk
Select == ren = 0 /\ sel' \in DOMAIN ent /\ UNCHANGED <<dirs, path, hist, idx, ent, ren, clip>>

(* draw_files: every repaint reads the directory again. *)
Draw ==
  /\ ent' = IF path \in DOMAIN dirs THEN dirs[path] ELSE <<>>
  /\ UNCHANGED <<dirs, path, hist, idx, sel, ren, clip>>

(* f_delete_sel; the Trash is made when it is missing. *)
DeleteSel ==
  /\ ren = 0 /\ Selected
  /\ LET name == ent[sel].name
         E == IF Trash \in DOMAIN dirs THEN dirs ELSE Create(dirs, Home, TrashName, "dir")
         to == <<name[1], Least(FreeNames(Trash, name[1], 1))>>
         D == IF path = Trash
              THEN IF Unlinkable(dirs, path, name) THEN Unlink(dirs, path, name) ELSE dirs
              ELSE Rename(E, path, name, Trash, to) IN
     /\ path # Trash => FreeNames(Trash, name[1], 1) # {}
     /\ dirs' = D /\ sel' = IF D = E THEN sel ELSE 0
  /\ Still /\ UNCHANGED clip

(* f_restore_sel *)
RestoreSel ==
  /\ ren = 0 /\ Selected /\ path = Trash
  /\ dirs' = Rename(dirs, Trash, ent[sel].name, Home, ent[sel].name)
  /\ sel' = IF dirs' = dirs THEN sel ELSE 0
  /\ Still /\ UNCHANGED clip

EmptyTrash ==
  /\ ren = 0 /\ path = Trash /\ Trash \in DOMAIN dirs
  /\ dirs' = Sweep(dirs) /\ sel' = 0
  /\ Still /\ UNCHANGED clip

(* f_copy_sel, f_cut_sel, f_paste *)
CopySel(cut) ==
  /\ ren = 0 /\ Selected
  /\ clip' = <<[dir |-> path, name |-> ent[sel].name, cut |-> cut]>>
  /\ Still /\ UNCHANGED <<dirs, sel>>

Paste ==
  /\ ren = 0 /\ clip # <<>> /\ path \in DOMAIN dirs /\ ~Full(dirs)
  /\ LET c == clip[1]
         found == Find(dirs, c.dir, c.name) # {} IN
     /\ dirs' = IF ~found THEN dirs
                ELSE IF c.cut THEN Rename(dirs, c.dir, c.name, path, c.name)
                              ELSE CopyFile(dirs, c.dir, c.name, path)
     /\ clip' \in IF dirs' # dirs THEN {<<>>} ELSE {<<>>, clip}
  /\ Still /\ UNCHANGED sel

(* f_new_folder: the first free name *)
NewFolder ==
  /\ ren = 0 /\ path \in DOMAIN dirs /\ ~Full(dirs) /\ FreeNames(path, "NewFolder", 2) # {}
  /\ dirs' = Create(dirs, path, <<"NewFolder", Least(FreeNames(path, "NewFolder", 2))>>, "dir")
  /\ sel' = 0
  /\ Still /\ UNCHANGED clip

(* f_begin_rename; Enter renames the entry at that index in the listing of the
   last repaint, Escape gives up.  The text is edited in between. *)
BeginRename ==
  /\ ren = 0 /\ Selected /\ path # Trash
  /\ ren' = sel /\ UNCHANGED <<dirs, path, hist, idx, ent, sel, clip>>

EndRename ==
  /\ ren # 0 /\ ren' = 0
  /\ \/ UNCHANGED dirs
     \/ \E b \in Bases : ren \in DOMAIN ent /\ dirs' = Rename(dirs, path, ent[ren].name, path, <<b, 0>>)
  /\ UNCHANGED <<path, hist, idx, ent, sel, clip>>

Next ==
  /\ keys < MaxKeys /\ keys' = keys + 1
  /\ \/ Back \/ Forward \/ Up \/ Place \/ Enter \/ Select \/ Draw \/ DeleteSel \/ RestoreSel
     \/ EmptyTrash \/ CopySel(TRUE) \/ CopySel(FALSE) \/ Paste \/ NewFolder
     \/ BeginRename \/ EndRename

Spec == Init /\ [][Next]_vars

-----------------------------------------------------------------------------

(* Of every step: outside the Trash, and unless a copied file is pasted, no key loses the bytes
   of a file: moving to the Trash, cutting and pasting, renaming and restoring
   act on a stale listing and on names that are taken, and still every file that
   was there is there, under some name. *)
FilesKept ==
  \/ path = Trash \/ (clip # <<>> /\ ~clip[1].cut)
  \/ \A d \in Data : (\E p \in DOMAIN dirs : \E i \in DOMAIN dirs[p] : dirs[p][i].data = d)
       => (\E p \in DOMAIN dirs' : \E i \in DOMAIN dirs'[p] : dirs'[p][i].data = d)
=============================================================================
