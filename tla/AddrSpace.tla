------------------------------ MODULE AddrSpace ------------------------------
(***************************************************************************)
(* Who frees a page-table tree: the PML4s that fork and exec create, the   *)
(* table g_shared_pml4 / g_shared_refs that counts the threads of a shared *)
(* one (sched.c 151-189), and the four paths that give one up: exec, exit, *)
(* kill and reap.                                                          *)
(*                                                                         *)
(* A step is one section under g_pml4_lock or g_switch_lock.  Sched.tla    *)
(* models how the CPUs interleave inside a switch; here a task is simply   *)
(* on a CPU or not.                                                        *)
(***************************************************************************)
EXTENDS Integers, FiniteSets

CONSTANTS
  Task,          \* task structs
  Space,         \* page-table trees
  First,         \* the boot task
  FirstSpace,    \* and its page tables
  None,          \* the NULL pml4
  TableMax,      \* SHARED_PML4_MAX, the entries of g_shared_pml4
  KillThreads    \* 1 when kill hits a thread that is on no CPU, else 0

ASSUME AddrSpaceAssumption ==
  /\ First \in Task /\ IsFiniteSet(Task)
  /\ FirstSpace \in Space /\ None \notin Space
  /\ TableMax \in Nat /\ KillThreads \in {0, 1}

VARIABLES
  life,    \* "none", "off" and "on" a CPU, dead "zon" a CPU, dead "zoff"
  pml4,    \* task::pml4
  refs,    \* g_shared_refs of a tree in the table, 0 when it is not there
  live,    \* the trees that are allocated
  torn     \* the trees whose user pages vmm_user_teardown_all has freed

vars == <<life, pml4, refs, live, torn>>

TypeOK ==
  /\ life \in [Task -> {"none", "off", "on", "zon", "zoff"}]
  /\ pml4 \in [Task -> Space \cup {None}]
  /\ refs \in [Space -> Nat]
  /\ live \subseteq Space /\ torn \subseteq Space

Init ==
  /\ life = [t \in Task |-> IF t = First THEN "off" ELSE "none"]
  /\ pml4 = [t \in Task |-> IF t = First THEN FirstSpace ELSE None]
  /\ refs = [s \in Space |-> 0]
  /\ live = {FirstSpace}
  /\ torn = {}

Users(s) == {t \in Task : pml4[t] = s}
Table == {s \in Space : refs[s] > 0}

-----------------------------------------------------------------------------
(* Faulty variants of the definitions below: each breaks one of the properties *)

(* The first thread of a process is counted alone. *)
RefOne(s) ==
  IF s \in Table THEN [refs EXCEPT ![s] = @ + 1]
  ELSE IF Cardinality(Table) < TableMax THEN [refs EXCEPT ![s] = 1]
  ELSE refs

(* A tree that is not in the table is counted down all the same. *)
UnrefBlind(s) == [refs EXCEPT ![s] = @ - 1]

(* The last but one task is told to free. *)
LastButOne(s) == refs[s] <= 2

(* exit tears user memory down whether or not it is shared. *)
ExitAlwaysTears(t) ==
  /\ life[t] = "on"
  /\ life' = [life EXCEPT ![t] = "zon"]
  /\ torn' = torn \cup {pml4[t]}
  /\ UNCHANGED <<pml4, refs, live>>

-----------------------------------------------------------------------------
(* The count of a tree after sched_pml4_ref and sched_pml4_unref, and whether
   unref tells its caller to free. *)

sched_pml4_ref(s) ==
  IF s \in Table THEN [refs EXCEPT ![s] = @ + 1]
  ELSE IF Cardinality(Table) < TableMax THEN [refs EXCEPT ![s] = 2]
  ELSE refs

sched_pml4_unref(s) == IF s \in Table THEN [refs EXCEPT ![s] = @ - 1] ELSE refs

LastUnref(s) == refs[s] <= 1

sched_pml4_is_shared(s) == s \in Table

(* Give up tree s: unref it, and vmm_free_pml4 it when told to. *)
Drop(s) ==
  /\ refs' = sched_pml4_unref(s)
  /\ live' = IF LastUnref(s) THEN live \ {s} ELSE live
  /\ torn' = IF LastUnref(s) THEN torn \ {s} ELSE torn

(* exec forgets to free the old tree. *)
ExecKeepsOld(t, s) ==
  /\ life[t] = "on" /\ s \notin live
  /\ pml4' = [pml4 EXCEPT ![t] = s]
  /\ refs' = sched_pml4_unref(pml4[t])
  /\ live' = live \cup {s}
  /\ UNCHANGED <<life, torn>>

-----------------------------------------------------------------------------
(* Scheduling *)

SwitchIn(t) ==
  /\ life[t] = "off"
  /\ life' = [life EXCEPT ![t] = "on"]
  /\ UNCHANGED <<pml4, refs, live, torn>>

SwitchOut(t) ==
  /\ life[t] \in {"on", "zon"}
  /\ life' = [life EXCEPT ![t] = IF @ = "on" THEN "off" ELSE "zoff"]
  /\ UNCHANGED <<pml4, refs, live, torn>>

-----------------------------------------------------------------------------
(* Creating and replacing address spaces *)

(* sched_fork, and a clone without CLONE_VM. *)
Fork(p, t, s) ==
  /\ life[p] = "on" /\ life[t] = "none" /\ s \notin live
  /\ life' = [life EXCEPT ![t] = "off"]
  /\ pml4' = [pml4 EXCEPT ![t] = s]
  /\ live' = live \cup {s}
  /\ UNCHANGED <<refs, torn>>

(* sched_clone_thread with CLONE_VM. *)
CloneThread(p, t) ==
  /\ life[p] = "on" /\ life[t] = "none"
  /\ life' = [life EXCEPT ![t] = "off"]
  /\ pml4' = [pml4 EXCEPT ![t] = pml4[p]]
  /\ refs' = sched_pml4_ref(pml4[p])
  /\ UNCHANGED <<live, torn>>

(* user_exec: build the new tree, then drop the old one. *)
Exec(t, s) ==
  LET old == pml4[t] IN
  /\ life[t] = "on" /\ s \notin live
  /\ pml4' = [pml4 EXCEPT ![t] = s]
  /\ refs' = sched_pml4_unref(old)
  /\ live' = IF LastUnref(old) THEN (live \ {old}) \cup {s} ELSE live \cup {s}
  /\ torn' = IF LastUnref(old) THEN torn \ {old} ELSE torn
  /\ UNCHANGED life

-----------------------------------------------------------------------------
(* Dying *)

(* sched_exit: the user pages go at once unless the tree is in the table. *)
Exit(t) ==
  /\ life[t] = "on"
  /\ life' = [life EXCEPT ![t] = "zon"]
  /\ torn' = IF sched_pml4_is_shared(pml4[t]) THEN torn ELSE torn \cup {pml4[t]}
  /\ UNCHANGED <<pml4, refs, live>>

(* sched_exit_group and then sched_exit: every sibling dies with the caller. *)
ExitGroup(t) ==
  /\ life[t] = "on"
  /\ life' = [u \in Task |->
       IF pml4[u] # pml4[t] \/ life[u] \notin {"on", "off"} THEN life[u]
       ELSE IF life[u] = "on" THEN "zon" ELSE "zoff"]
  /\ torn' = IF sched_pml4_is_shared(pml4[t]) THEN torn ELSE torn \cup {pml4[t]}
  /\ UNCHANGED <<pml4, refs, live>>

(* sched_kill.  The tables of a victim that is on no CPU are dropped now; the
   pointer is cleared only when that freed them. *)
KillOnCpu(t) ==
  /\ life[t] = "on"
  /\ life' = [life EXCEPT ![t] = "zon"]
  /\ UNCHANGED <<pml4, refs, live, torn>>

KillOffCpu(t) ==
  /\ life[t] = "off"
  /\ KillThreads = 1 \/ ~sched_pml4_is_shared(pml4[t])
  /\ life' = [life EXCEPT ![t] = "zoff"]
  /\ pml4' = [pml4 EXCEPT ![t] = IF LastUnref(@) THEN None ELSE @]
  /\ Drop(pml4[t])

(* reap, by the parent's waitpid or the orphan reaper. *)
Reap(t) ==
  /\ life[t] = "zoff"
  /\ IF pml4[t] = None THEN UNCHANGED <<refs, live, torn>> ELSE Drop(pml4[t])
  /\ life' = [life EXCEPT ![t] = "none"]
  /\ pml4' = [pml4 EXCEPT ![t] = None]

Next ==
  \/ \E t \in Task : \/ SwitchIn(t) \/ SwitchOut(t)
                     \/ Exit(t) \/ ExitGroup(t) \/ KillOnCpu(t) \/ KillOffCpu(t)
                     \/ Reap(t)
  \/ \E p, t \in Task : CloneThread(p, t)
  \/ \E t \in Task, s \in Space : Exec(t, s) \/ \E p \in Task : Fork(p, t, s)

Spec == Init /\ [][Next]_vars

-----------------------------------------------------------------------------
(* Properties *)

(* sched.c 151-152: the page tables "must only be freed when the LAST task
   using it exits".  The tables of a task that can still run are allocated. *)
SpaceKept ==
  \A t \in Task : life[t] \in {"on", "off", "zon"} => pml4[t] \in live

(* sched.c 1353-1356: an exit does not unmap memory a live sibling uses. *)
PagesKept ==
  \A t \in Task : life[t] \in {"on", "off"} => pml4[t] \notin torn

(* sched.c 216 and vmm.c 522: nothing leaks.  An allocated tree has a task
   that is not yet reaped. *)
NoSpaceLeak ==
  \A s \in live : Users(s) # {}

(* The table counts the tasks of every shared tree exactly. *)
RefsExact ==
  \A s \in Table : refs[s] = Cardinality(Users(s))

(* The four together: page tables live exactly as long as some task needs them. *)
AddressSpacesSound == TypeOK /\ SpaceKept /\ PagesKept /\ NoSpaceLeak /\ RefsExact
=============================================================================
