------------------------------ MODULE VfsTree -------------------------------
(***************************************************************************)
(* The file tree of kernel/fs/vfs.c and the system calls on names: lookup  *)
(* through links and "..", creation, links, rename, removal, permissions   *)
(* and current directories.  A name is a sequence of strings, <<n>>, or    *)
(* <<"/", n>> for a name that holds a slash, which no lookup can reach.  A *)
(* path is [abs, parts].  A vnode nobody reaches any more is freed; the    *)
(* counting itself is module Files.  The mode keeps the write bits of      *)
(* owner and others, "u" and "o"; no call can set PERM_STICKY.             *)
(***************************************************************************)
EXTENDS Integers, Sequences, FiniteSets, SequencesExt

CONSTANTS
  Task,      \* processes
  SuperUser, \* the processes with euid 0
  Node,      \* vnodes, numbered from 1; 1 is root_node
  Paths,     \* the paths programs use
  Targets,   \* the targets of symbolic links, as paths
  Contents,  \* file contents; "" is empty
  Archive,   \* the initrd: a sequence of [path, type]
  MaxCalls   \* bound: system calls

VARIABLES
  tar,       \* entries of the initrd still to be imported
  nd,        \* the vnodes: [type, name, parent, data, target, owner, mode]
  kids,      \* the list child, sibling, ... of each vnode
  cwd,       \* task::cwd
  fd,        \* the vnode each process has open, or 0
  last,      \* the last call that succeeded, for the properties
  calls

vars == <<tar, nd, kids, cwd, fd, last, calls>>

NoPath == [abs |-> FALSE, parts |-> <<>>]
Free == [type |-> "free", name |-> <<>>, parent |-> 0, data |-> "", target |-> NoPath,
         owner |-> "", mode |-> {}]
NoCall == [op |-> "none", t |-> "", old |-> NoPath, new |-> NoPath, was |-> Free]

Init ==
  /\ tar = Archive
  /\ nd = [n \in Node |-> IF n = 1 THEN [Free EXCEPT !.type = "dir", !.mode = {"u"}] ELSE Free]
  /\ kids = [n \in Node |-> <<>>]
  /\ cwd = [t \in Task |-> 1] /\ fd = [t \in Task |-> 0]
  /\ last = NoCall /\ calls = 0

-----------------------------------------------------------------------------
(* find_child: the first entry with that name, or 0 *)
FindChild(d, name) ==
  IF nd[d].type # "dir" THEN 0
  ELSE LET hit == {i \in DOMAIN kids[d] : nd[kids[d][i]].name = name} IN
       IF hit = {} THEN 0 ELSE kids[d][CHOOSE i \in hit : \A j \in hit : i <= j]

(* vfs_lookup_at and resolve_link, which call each other: the walk of parts from
   vnode cur, 0 when a part is missing.  A link's target is walked from its own
   parent.  The count of resolve_link starts again in every nested lookup, so
   nothing bounds the nesting; fuel does here, and -1 is a walk deeper than it. *)
LinkNest == 8
RECURSIVE Walk(_, _, _, _)
Walk(cur, parts, follow, fuel) ==
  IF parts = <<>> THEN cur
  ELSE IF Head(parts) = ".."
  THEN Walk(IF nd[cur].parent = 0 THEN cur ELSE nd[cur].parent, Tail(parts), follow, fuel)
  ELSE LET c == FindChild(cur, <<Head(parts)>>)
           to == IF c = 0 THEN 0
                 ELSE IF nd[c].type # "link" \/ (~follow /\ Len(parts) = 1) THEN c
                 ELSE IF nd[c].target = NoPath THEN 0
                 ELSE IF fuel = 0 THEN -1
                 ELSE Walk(IF nd[c].target.abs THEN 1 ELSE nd[c].parent, nd[c].target.parts,
                           TRUE, fuel - 1)
       IN IF to \in {0, -1} THEN to ELSE Walk(to, Tail(parts), follow, fuel)

LookupAt(d, p) == Walk(IF p.abs THEN 1 ELSE d, p.parts, TRUE, LinkNest)
LookupNoFollow(d, p) == Walk(IF p.abs THEN 1 ELSE d, p.parts, FALSE, LinkNest)
Parent(p) == [abs |-> p.abs, parts |-> Front(p.parts)]

(* vfs_check_perm for writing, and perm_ok *)
CanWrite(t, n) ==
  n # 0 /\ (t \in SuperUser \/ (IF nd[n].owner = t THEN "u" ELSE "o") \in nd[n].mode)

(* A vnode is freed with its last reference: tree, descriptor or cwd. *)
Held(n, tree, f, c) ==
  n = 1 \/ (\E d \in Node : n \in ToSet(tree[d])) \/ (\E t \in Task : f[t] = n \/ c[t] = n)
Reap(nds, tree, f, c) == [n \in Node |-> IF Held(n, tree, f, c) THEN nds[n] ELSE Free]
Put(nds, tree, f, c) ==
  /\ nd' = Reap(nds, tree, f, c) /\ fd' = f /\ cwd' = c
  /\ kids' = [n \in Node |-> IF Held(n, tree, f, c) THEN tree[n] ELSE <<>>]

FreeNodes == {n \in Node : nd[n].type = "free"}
NewNode == CHOOSE n \in FreeNodes : \A m \in FreeNodes : n <= m

-----------------------------------------------------------------------------
(* Faulty variants of the definitions below: each breaks one of the properties *)

(* vfs_create does not look for an entry of that name. *)
CanCreateBlindly(d, name) == d > 0 /\ nd[d].type = "dir" /\ FreeNodes # {}

(* A rename does not copy the bytes. *)
CopiedEmpty(v, n) == [nd[n] EXCEPT !.owner = nd[v].owner, !.mode = nd[v].mode]

-----------------------------------------------------------------------------
(* mknode, attach and vfs_create or vfs_symlink *)
CanCreate(d, name) ==
  d > 0 /\ nd[d].type = "dir" /\ FindChild(d, name) = 0 /\ FreeNodes # {}
Fresh(d, name, type, t) ==
  [Free EXCEPT !.type = type, !.name = name, !.parent = d, !.owner = t, !.mode = {"u"}]

(* vfs_unlink: the entry leaves the list of its parent *)
CanUnlink(v) == v > 1 /\ nd[v].parent # 0 /\ (nd[v].type = "dir" => kids[v] = <<>>)
Detached(v, nds) == [nds EXCEPT ![v].parent = 0]
Without(v, tree) == [d \in Node |-> SelectSeq(tree[d], LAMBDA n : n # v)]

(* vfs_init: the initrd's entries, through insert_path; directories on the way
   are made by find_or_make_dir, which passes over anything but a directory *)
RECURSIVE Insert(_, _, _, _, _)
Insert(nds, tree, d, parts, type) ==
  LET hit == {n \in ToSet(tree[d]) : nds[n].name = <<Head(parts)>>}
      isLast == Len(parts) = 1
      wanted == IF isLast THEN type ELSE "dir"
      found == {n \in hit : wanted = "file" \/ nds[n].type = "dir"}
      free == {n \in Node : nds[n].type = "free"}
      new == CHOOSE n \in free : \A m \in free : n <= m
      n == IF found # {} THEN CHOOSE x \in found : TRUE ELSE new
      nds2 == IF found # {} THEN nds
              ELSE [nds EXCEPT ![n] = [Free EXCEPT !.type = wanted, !.name = <<Head(parts)>>,
                                                   !.parent = d, !.mode = {"u"}]]
      tree2 == IF found # {} THEN tree ELSE [tree EXCEPT ![d] = Append(@, n)]
  IN IF isLast THEN <<nds2, tree2>> ELSE Insert(nds2, tree2, n, Tail(parts), type)

Import ==
  /\ tar # <<>> /\ tar' = Tail(tar)
  /\ LET new == Insert(nd, kids, 1, Head(tar).path, Head(tar).type) IN
       nd' = new[1] /\ kids' = new[2]
  /\ UNCHANGED <<cwd, fd, last, calls>>

-----------------------------------------------------------------------------
(* A system call: after boot, and every path it walks ends. *)
Call(ps, t) ==
  /\ tar = <<>> /\ calls < MaxCalls /\ calls' = calls + 1 /\ tar' = tar
  /\ \A p \in ps : LookupAt(cwd[t], p) # -1 /\ LookupNoFollow(cwd[t], p) # -1
Did(op, t, old, new, was) == last' = [op |-> op, t |-> t, old |-> old, new |-> new, was |-> was]

(* sys_open with O_CREAT and O_TRUNC; a descriptor open before is closed *)
Open(t, p) ==
  LET v == LookupAt(cwd[t], p)  d == LookupAt(cwd[t], Parent(p)) IN
  /\ Call({p, Parent(p)}, t)
  /\ \/ /\ v > 0 /\ CanWrite(t, v)
        /\ Put(IF nd[v].type = "file" THEN [nd EXCEPT ![v].data = ""] ELSE nd,
               kids, [fd EXCEPT ![t] = v], cwd)
     \/ /\ v = 0 /\ CanCreate(d, <<Last(p.parts)>>) /\ CanWrite(t, d)
        /\ Put([nd EXCEPT ![NewNode] = Fresh(d, <<Last(p.parts)>>, "file", t)],
               [kids EXCEPT ![d] = Append(@, NewNode)], [fd EXCEPT ![t] = NewNode], cwd)
  /\ Did("open", t, p, p, Free)

(* sys_write *)
Write(t) ==
  /\ Call({}, t) /\ fd[t] # 0 /\ nd[fd[t]].type = "file" /\ CanWrite(t, fd[t])
  /\ \E x \in Contents : nd' = [nd EXCEPT ![fd[t]].data = x]
  /\ Did("write", t, NoPath, NoPath, Free) /\ UNCHANGED <<kids, cwd, fd>>

(* sys_close *)
Close(t) ==
  /\ Call({}, t) /\ fd[t] # 0
  /\ Put(nd, kids, [fd EXCEPT ![t] = 0], cwd)
  /\ Did("close", t, NoPath, NoPath, Free)

(* sys_mkdir *)
Mkdir(t, p) ==
  LET d == LookupAt(cwd[t], Parent(p)) IN
  /\ Call({Parent(p)}, t) /\ CanCreate(d, <<Last(p.parts)>>) /\ CanWrite(t, d)
  /\ Put([nd EXCEPT ![NewNode] = Fresh(d, <<Last(p.parts)>>, "dir", t)],
         [kids EXCEPT ![d] = Append(@, NewNode)], fd, cwd)
  /\ Did("mkdir", t, p, p, Free)

(* sys_symlink: a link path without a slash is made below the root, not below
   the current directory *)
Symlink(t, p, target) ==
  LET dir == IF ~p.abs /\ Len(p.parts) = 1 THEN [abs |-> TRUE, parts |-> <<>>] ELSE Parent(p)
      d == LookupAt(cwd[t], dir) IN
  /\ Call({dir}, t) /\ CanCreate(d, <<Last(p.parts)>>) /\ CanWrite(t, d)
  /\ Put([nd EXCEPT ![NewNode] = [Fresh(d, <<Last(p.parts)>>, "link", t)
                                  EXCEPT !.target = target, !.mode = {"u", "o"}]],
         [kids EXCEPT ![d] = Append(@, NewNode)], fd, cwd)
  /\ Did("symlink", t, p, p, Free)

(* sys_unlink *)
Unlink(t, p) ==
  LET v == LookupNoFollow(cwd[t], p) IN
  /\ Call({p}, t) /\ v > 0 /\ CanWrite(t, nd[v].parent) /\ CanUnlink(v)
  /\ Put(Detached(v, nd), Without(v, kids), fd, cwd)
  /\ Did("unlink", t, p, p, Free)

(* sys_rename: a new vnode gets the bytes of a file, not the target of a link,
   and the old one is unlinked; when that fails the new one stays.  A new path
   that is one name below the root is split as that name, with its slash, in
   the current directory. *)
Copied(v, n) ==
  [nd[n] EXCEPT !.owner = nd[v].owner, !.mode = nd[v].mode,
                !.data = IF nd[v].type = "file" THEN nd[v].data ELSE ""]
Rename(t, old, new) ==
  LET v == LookupNoFollow(cwd[t], old)
      slashed == new.abs /\ Len(new.parts) = 1
      dir == IF slashed THEN NoPath ELSE Parent(new)
      base == IF slashed THEN <<"/", Last(new.parts)>> ELSE <<Last(new.parts)>>
      np == LookupAt(cwd[t], dir)
      n == NewNode
      tree == [kids EXCEPT ![np] = Append(@, n)]
      made == [[nd EXCEPT ![n] = Copied(v, n)]
               EXCEPT ![n].type = nd[v].type, ![n].name = base, ![n].parent = np] IN
  /\ Call({old, new, dir}, t) /\ v > 0 /\ CanWrite(t, nd[v].parent)
  /\ np > 0 /\ CanWrite(t, np) /\ CanCreate(np, base)
  /\ (IF slashed THEN LookupAt(1, new) ELSE LookupAt(np, [abs |-> FALSE, parts |-> <<Last(new.parts)>>])) = 0
  /\ IF v > 1 /\ (nd[v].type = "dir" => tree[v] = <<>>)
     THEN Put(Detached(v, made), Without(v, tree), fd, cwd) /\ Did("rename", t, old, new, nd[v])
     ELSE Put(made, tree, fd, cwd) /\ Did("failed", t, old, new, nd[v])

(* sys_chdir: the old directory loses a reference; entries made in it after it was
   removed keep a parent that may be freed *)
Chdir(t, p) ==
  LET v == LookupAt(cwd[t], p) IN
  /\ Call({p}, t) /\ v > 0 /\ nd[v].type = "dir"
  /\ Put(nd, kids, fd, [cwd EXCEPT ![t] = v])
  /\ Did("chdir", t, p, p, Free)

(* sys_chmod *)
Chmod(t, p) ==
  LET v == LookupAt(cwd[t], p) IN
  /\ Call({p}, t) /\ v > 0 /\ (t \in SuperUser \/ nd[v].owner = t)
  /\ \E m \in {{"u"}, {"u", "o"}} : nd' = [nd EXCEPT ![v].mode = m]
  /\ Did("chmod", t, p, p, Free) /\ UNCHANGED <<kids, cwd, fd>>

Next ==
  \/ Import
  \/ \E t \in Task :
       \/ Write(t) \/ Close(t)
       \/ \E p \in Paths : \/ Open(t, p) \/ Mkdir(t, p) \/ Unlink(t, p) \/ Chdir(t, p) \/ Chmod(t, p)
                           \/ \E q \in Targets : Symlink(t, p, q)
                           \/ \E q \in Paths : Rename(t, p, q)

Spec == Init /\ [][Next]_vars

-----------------------------------------------------------------------------
(* The vnodes of D and all below them *)
RECURSIVE Below(_)
Below(D) == LET E == D \cup UNION {ToSet(kids[d]) : d \in D} IN IF E = D THEN D ELSE Below(E)

(* Whatever calls are made, the tree is a tree: a vnode is in one list, the one
   of its parent, once; the names of a directory are distinct; only directories
   have entries, and none of them is freed. *)
TreeSound ==
  \A d \in Below({1}) :
    /\ kids[d] # <<>> => nd[d].type = "dir"
    /\ \A i \in DOMAIN kids[d] :
         /\ nd[kids[d][i]].type # "free" /\ nd[kids[d][i]].parent = d
         /\ \A j \in DOMAIN kids[d] : nd[kids[d][i]].name = nd[kids[d][j]].name => i = j

Moved(r) ==
  LET v == LookupNoFollow(cwd[r.t], r.new) IN
  /\ v > 0 /\ nd[v].type = r.was.type /\ nd[v].data = r.was.data /\ nd[v].target = r.was.target
  /\ nd[v].owner = r.was.owner /\ nd[v].mode = r.was.mode
  /\ r.new # r.old => LookupNoFollow(cwd[r.t], r.old) # v

(* A rename of a file that succeeds is a move: the new path names the old bytes,
   owner and mode, and the old path does not. *)
FileMoved ==
  last.op = "rename" /\ last.was.type = "file" /\ (last.new.abs => Len(last.new.parts) > 1)
  => Moved(last)
=============================================================================
