------------------------------- MODULE Files --------------------------------
(***************************************************************************)
(* Descriptor tables and the reference counts behind them: vnodes (vfs.c)  *)
(* counted once for the tree, once for each open descriptor and once for   *)
(* each current directory; pipes (syscall.c) counted by descriptor and by  *)
(* end.  A descriptor entry is [k, o]: "none", "std" (0..2 of a new        *)
(* process), "file" at vnode o, "r" or "w" at an end of pipe o.            *)
(* Vnodes are directories or files below the root, which is never freed.   *)
(***************************************************************************)
EXTENDS Integers, FiniteSets, FiniteSetsExt

CONSTANTS
  Task, First,   \* processes, and the one that runs at boot
  Low, High,     \* descriptors below 3, and the others up to MAX_FD.  fork does not
                 \* count Low, and a program that forks with a pipe there breaks
                 \* the properties: the passing instance leaves Low out
  Dir, File,     \* vnodes
  Pipe,          \* pipes that can exist at once
  Root           \* the current directory of a new process

VARIABLES
  live,     \* processes
  born,     \* those that ever ran: a pid is not used twice
  fds,      \* task::fds
  cwd,      \* task::cwd
  linked,   \* vnodes the tree reaches
  vrefs,    \* vnode::refs; 0 is freed
  pipe      \* [refs, r, w] of yart_pipe_t; refs 0 is freed

vars == <<live, born, fds, cwd, linked, vrefs, pipe>>

Fd == Low \cup High
Vnode == Dir \cup File
Unused == [k |-> "none", o |-> Root]
Std == [k |-> "std", o |-> Root]
Gone == [refs |-> 0, r |-> 0, w |-> 0]

Init ==
  /\ live = {First} /\ born = {First}
  /\ fds = [t \in Task |-> [d \in Fd |-> IF d \in Low THEN Std ELSE Unused]]
  /\ cwd = [t \in Task |-> Root]
  /\ linked = {}
  /\ vrefs = [v \in Vnode |-> 0]
  /\ pipe = [p \in Pipe |-> Gone]

-----------------------------------------------------------------------------
IsOpen(t, d) == t \in live /\ fds[t][d].k # "none"
Closed(t, D) == {d \in D : fds[t][d].k = "none"}

(* vnode_ref and vnode_unref of each vnode as often as n says; Root and a
   freed vnode are passed over. *)
VRef(n) == [v \in Vnode |-> vrefs[v] + n[v]]
VUnref(r, v) == IF v \in Vnode /\ r[v] > 0 THEN [r EXCEPT ![v] = @ - 1] ELSE r

One(b) == IF b THEN 1 ELSE 0
Count(t, D, k, o) == Cardinality({d \in D : fds[t][d].k = k /\ fds[t][d].o = o})

(* One more reference for what entry e names: dup2, dup and fcntl. *)
RefEntry(ps, e) ==
  IF e.k \in {"r", "w"} THEN [ps EXCEPT ![e.o] = [refs |-> @.refs + 1, r |-> @.r + One(e.k = "r"),
                                                  w |-> @.w + One(e.k = "w")]]
  ELSE ps
(* sys_close of e: an end goes, then pipe_put. *)
PutEntry(ps, e) ==
  IF e.k \in {"r", "w"}
  THEN [ps EXCEPT ![e.o] = IF @.refs <= 1 THEN Gone
                           ELSE [refs |-> @.refs - 1, r |-> Max({0, @.r - One(e.k = "r")}),
                                 w |-> Max({0, @.w - One(e.k = "w")})]]
  ELSE ps
VPutEntry(r, e) == IF e.k = "file" THEN VUnref(r, e.o) ELSE r
VRefEntry(r, e) == IF e.k = "file" THEN [r EXCEPT ![e.o] = @ + 1] ELSE r

-----------------------------------------------------------------------------
(* Faulty variants of the definitions below: each breaks one of the properties *)

(* dup2 copies the entry and takes no reference on a vnode. *)
DupUncounted(t, old, new) ==
  LET e == fds[t][old]  x == fds[t][new] IN
  /\ IsOpen(t, old) /\ old # new
  /\ pipe' = RefEntry(PutEntry(pipe, x), e)
  /\ vrefs' = VPutEntry(vrefs, x)
  /\ fds' = [fds EXCEPT ![t][new] = e]
  /\ UNCHANGED <<live, born, cwd, linked>>

(* fork counts the pipe but not its ends. *)
ForkEndsUncounted(t, c) ==
  /\ t \in live /\ c \notin born
  /\ live' = live \cup {c} /\ born' = born \cup {c}
  /\ fds' = [fds EXCEPT ![c] = fds[t]]
  /\ cwd' = [cwd EXCEPT ![c] = cwd[t]]
  /\ vrefs' = VRef([v \in Vnode |-> Count(t, High, "file", v) + One(cwd[t] = v)])
  /\ pipe' = [p \in Pipe |-> [pipe[p] EXCEPT
                 !.refs = @ + Count(t, High, "r", p) + Count(t, High, "w", p)]]
  /\ UNCHANGED linked

-----------------------------------------------------------------------------
(* sys_open and linux_openat of something the tree reaches: the lowest free
   descriptor. *)
Open(t, v) ==
  /\ t \in live /\ v \in linked /\ Closed(t, Fd) # {}
  /\ fds' = [fds EXCEPT ![t][Min(Closed(t, Fd))] = [k |-> "file", o |-> v]]
  /\ vrefs' = [vrefs EXCEPT ![v] = @ + 1]
  /\ UNCHANGED <<live, born, cwd, linked, pipe>>

Unnamed(v) ==
  /\ v \notin linked /\ vrefs[v] = 0
  /\ \A t \in live : cwd[t] # v /\ Count(t, Fd, "file", v) = 0

(* vfs_create, by O_CREAT, mkdir or symlink. *)
Create(t, v) ==
  /\ t \in live /\ Unnamed(v)
  /\ linked' = linked \cup {v}
  /\ vrefs' = [vrefs EXCEPT ![v] = 1]
  /\ UNCHANGED <<live, born, fds, cwd, pipe>>

(* sys_unlink and vfs_unlink of a file or an empty directory. *)
Unlink(t, v) ==
  /\ t \in live /\ v \in linked
  /\ linked' = linked \ {v}
  /\ vrefs' = VUnref(vrefs, v)
  /\ UNCHANGED <<live, born, fds, cwd, pipe>>

(* sys_rename makes a new vnode w with the data of v, and unlinks v. *)
Rename(t, v, w) ==
  /\ t \in live /\ v \in linked /\ Unnamed(w) /\ (v \in Dir <=> w \in Dir)
  /\ linked' = (linked \ {v}) \cup {w}
  /\ vrefs' = [VUnref(vrefs, v) EXCEPT ![w] = 1]
  /\ UNCHANGED <<live, born, fds, cwd, pipe>>

Close(t, d) ==
  /\ IsOpen(t, d)
  /\ pipe' = PutEntry(pipe, fds[t][d])
  /\ vrefs' = VPutEntry(vrefs, fds[t][d])
  /\ fds' = [fds EXCEPT ![t][d] = Unused]
  /\ UNCHANGED <<live, born, cwd, linked>>

(* sys_dup2 closes its target first; linux_dup and F_DUPFD take a free one. *)
Dup(t, old, new) ==
  LET e == fds[t][old]  x == fds[t][new] IN
  /\ IsOpen(t, old) /\ old # new
  /\ pipe' = RefEntry(PutEntry(pipe, x), e)
  /\ vrefs' = VRefEntry(VPutEntry(vrefs, x), e)
  /\ fds' = [fds EXCEPT ![t][new] = e]
  /\ UNCHANGED <<live, born, cwd, linked>>

(* sys_pipe: two descriptors from 3 up, found one after the other. *)
MakePipe(t, p) ==
  LET r == Min(Closed(t, High))  w == Min(Closed(t, High) \ {r}) IN
  /\ t \in live /\ Cardinality(Closed(t, High)) >= 2
  /\ pipe[p] = Gone
  /\ \A u \in live : Count(u, Fd, "r", p) + Count(u, Fd, "w", p) = 0
  /\ pipe' = [pipe EXCEPT ![p] = [refs |-> 2, r |-> 1, w |-> 1]]
  /\ fds' = [fds EXCEPT ![t] = [@ EXCEPT ![r] = [k |-> "r", o |-> p],
                                         ![w] = [k |-> "w", o |-> p]]]
  /\ UNCHANGED <<live, born, cwd, linked, vrefs>>

(* sched_fork copies the whole table and counts its entries from 3 up. *)
Fork(t, c) ==
  /\ t \in live /\ c \notin born
  /\ live' = live \cup {c} /\ born' = born \cup {c}
  /\ fds' = [fds EXCEPT ![c] = fds[t]]
  /\ cwd' = [cwd EXCEPT ![c] = cwd[t]]
  /\ vrefs' = VRef([v \in Vnode |-> Count(t, High, "file", v) + One(cwd[t] = v)])
  /\ pipe' = [p \in Pipe |-> [refs |-> pipe[p].refs + Count(t, High, "r", p) + Count(t, High, "w", p),
                              r |-> pipe[p].r + Count(t, High, "r", p),
                              w |-> pipe[p].w + Count(t, High, "w", p)]]
  /\ UNCHANGED linked

(* sched_exit, sched_kill and reap close nothing. *)
Exit(t) ==
  /\ t \in live
  /\ live' = live \ {t}
  /\ fds' = [fds EXCEPT ![t] = [d \in Fd |-> IF d \in Low THEN Std ELSE Unused]]
  /\ cwd' = [cwd EXCEPT ![t] = Root]
  /\ UNCHANGED <<born, linked, vrefs, pipe>>

(* sys_chdir and task_set_cwd. *)
Chdir(t, v) ==
  /\ t \in live /\ v \in Dir \cap linked
  /\ vrefs' = VUnref([vrefs EXCEPT ![v] = @ + 1], cwd[t])
  /\ cwd' = [cwd EXCEPT ![t] = v]
  /\ UNCHANGED <<live, born, fds, linked, pipe>>

Next ==
  \E t \in Task :
    \/ \E v \in Vnode : Open(t, v) \/ Create(t, v) \/ Unlink(t, v) \/ Chdir(t, v)
    \/ \E v, w \in Vnode : Rename(t, v, w)
    \/ \E d \in Fd : Close(t, d)
    \/ \E d, e \in Fd : Dup(t, d, e)
    \/ \E p \in Pipe : MakePipe(t, p)
    \/ \E c \in Task : Fork(t, c)
    \/ Exit(t)

Spec == Init /\ [][Next]_vars

-----------------------------------------------------------------------------
(* Properties *)

Sum(f(_)) == MapThenSumSet(f, live)
Ends(k, p) == Sum(LAMBDA t : Count(t, Fd, k, p))

(* A vnode is never freed under the tree, an open descriptor or a current
   directory: unlink, rename, dup, fork and close in any order leave it at
   least as many references as it has users. *)
VnodesCounted ==
  \A v \in Vnode :
    vrefs[v] >= One(v \in linked) + Sum(LAMBDA t : Count(t, Fd, "file", v) + One(cwd[t] = v))

(* A pipe is never freed under a descriptor, nor does a reader see the end of
   file or a writer a missing reader while an end is open. *)
PipesCounted ==
  \A p \in Pipe :
    /\ pipe[p].r >= Ends("r", p) /\ pipe[p].w >= Ends("w", p)
    /\ pipe[p].refs >= Ends("r", p) + Ends("w", p)
=============================================================================
