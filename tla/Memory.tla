------------------------------- MODULE Memory -------------------------------
(***************************************************************************)
(* User memory: the reference-counted frames of pmm.c and, on top of them, *)
(* the regions, page-table entries, copy-on-write and swap of vmm.c.       *)
(*                                                                         *)
(* A task stands for a process with one thread, so its PTEs and regions    *)
(* change only in its own kernel path; what CPUs share is the frames and   *)
(* the swap slots.  A fault therefore is a chain of steps with the other   *)
(* tasks' steps in between: pmm_refcount is read without a lock, and       *)
(* pmm_alloc_page drops its lock to evict and to kill.  fork, munmap and   *)
(* exit touch only frames their task maps, and are one step each.          *)
(*                                                                         *)
(* A task stores its own name, so a page's content tells who wrote it.     *)
(* `want' is the history: what a task must find at each of its pages.      *)
(* The frames of the page tables themselves are not modelled.              *)
(***************************************************************************)
EXTENDS Integers, FiniteSets, FiniteSetsExt

CONSTANTS
  Task, First,    \* processes, and the one that runs at boot
  Page, Area,     \* user virtual pages, and the ranges of them that programs map
  Frame, Low,     \* the allocatable frames, and frame 0, which pmm_init reserves
  RamSlots,       \* slots of swap_pool
  DiskSlots,      \* slots of the disk tier, 0 when it is not armed
  Limit,          \* task::mem_limit_pages
  MaxRegions,     \* MAX_USER_REGIONS
  WhileSwapped    \* what of "fork" and "munmap" programs do with pages in swap

VARIABLES
  life,     \* "none", "on", or "zombie" until the reaper comes
  region,   \* task::regions, as sets of pages
  mem,      \* task::mem_pages
  pte,      \* [k, f]: "none"; "rw" and "rwx" (no NX) at frame f; "cow"; "swap" at slot f
  refs,     \* the reference count of pmm.c; 0 is a clear bit in the bitmap
  data,     \* the content of a frame
  sdata,    \* the content of a slot, or Free
  fault,    \* [k, p, f, try]: where a task is in vmm_resolve_user_fault
  want,     \* history: the last store of the task at each page
  halted    \* kpanic

vars == <<life, region, mem, pte, refs, data, sdata, fault, want, halted>>

Zero == "zero"
Free == "free"
Slot == 1..(RamSlots + DiskSlots)
IsDisk(s) == s > RamSlots
Absent == [k |-> "none", f |-> Low]
User == [k |-> "user", p |-> 0, f |-> Low, try |-> 0]

Reserved(t) == UNION region[t]
Mapped(t) == {p \in Page : pte[t][p].k \in {"rw", "rwx", "cow"}}
FreeFrames == {f \in Frame : refs[f] = 0}
(* Which free frame find_free_locked comes to makes no difference: the lowest. *)
NextFree == {f \in FreeFrames : \A g \in FreeFrames : f <= g}
FreeSlots == {s \in Slot : sdata[s] = Free}

Init ==
  /\ life = [t \in Task |-> IF t = First THEN "on" ELSE "none"]
  /\ region = [t \in Task |-> {}]
  /\ mem = [t \in Task |-> 0]
  /\ pte = [t \in Task |-> [p \in Page |-> Absent]]
  /\ refs = [f \in Frame \cup {Low} |-> IF f = Low THEN 1 ELSE 0]
  /\ data = [f \in Frame \cup {Low} |-> Zero]
  /\ sdata = [s \in Slot |-> Free]
  /\ fault = [t \in Task |-> User]
  /\ want = [t \in Task |-> [p \in Page |-> Zero]]
  /\ halted = FALSE

MaySwapped(t, what) == what \in WhileSwapped \/ \A p \in Page : pte[t][p].k # "swap"

Running(t) == life[t] = "on" /\ fault[t].k = "user"

-----------------------------------------------------------------------------
(* Frames.  RefPages and UnrefPages give the counts after one pmm_ref_page or
   pmm_unref_page for every page of P that t maps; a frame whose count falls
   to zero is zeroed (Wiped). *)

Uses(t, P, f) == Cardinality({p \in P \cap Mapped(t) : pte[t][p].f = f})
RefPages(t, P) == [f \in DOMAIN refs |-> refs[f] + Uses(t, P, f)]
UnrefPages(t, P) == [f \in DOMAIN refs |-> Max({0, refs[f] - Uses(t, P, f)})]
Wiped(r) == [f \in DOMAIN data |-> IF r[f] = 0 THEN Zero ELSE data[f]]

(* The whole address space of t goes: vmm_user_teardown_all and vmm_free_pml4.
   A PTE that holds a swap slot is not present, so its slot stays taken. *)
FreeSpace(t) ==
  LET r == UnrefPages(t, Page) IN
  /\ refs' = r /\ data' = Wiped(r)
  /\ pte' = [pte EXCEPT ![t] = [p \in Page |-> Absent]]
  /\ region' = [region EXCEPT ![t] = {}]
  /\ want' = [want EXCEPT ![t] = [p \in Page |-> Zero]]

-----------------------------------------------------------------------------
(* Faulty variants of the definitions below: each breaks one of the properties *)

(* Pages that are copy-on-write already are not counted for the child. *)
ForkSkipsCow(t, c) ==
  /\ Running(t) /\ life[c] = "none"
  /\ life' = [life EXCEPT ![c] = "on"]
  /\ region' = [region EXCEPT ![c] = region[t]]
  /\ mem' = [mem EXCEPT ![c] = mem[t]]
  /\ refs' = RefPages(t, {p \in Reserved(t) : pte[t][p].k # "cow"})
  /\ pte' = LET Cow == [p \in Page |-> IF p \in Reserved(t) \cap Mapped(t)
                                       THEN [pte[t][p] EXCEPT !.k = "cow"]
                                       ELSE pte[t][p]]
            IN  [pte EXCEPT ![t] = Cow, ![c] = Cow]
  /\ want' = [want EXCEPT ![c] = want[t]]
  /\ UNCHANGED <<data, sdata, fault, halted>>

(* A frame with one other user counts as unshared. *)
AloneOrPaired(f) == refs[f] <= 2

-----------------------------------------------------------------------------
(* System calls *)

(* sys_mmap and sys_brk: vmm_user_find_free and vmm_user_reserve, lazily. *)
Mmap(t, R) ==
  /\ Running(t)
  /\ R \cap Reserved(t) = {}
  /\ Cardinality(region[t]) < MaxRegions
  /\ mem[t] + Cardinality(R) <= Limit
  /\ mem' = [mem EXCEPT ![t] = @ + Cardinality(R)]
  /\ region' = [region EXCEPT ![t] = @ \cup {R}]
  /\ want' = [want EXCEPT ![t] = [p \in Page |-> IF p \in R THEN Zero ELSE @[p]]]
  /\ UNCHANGED <<life, pte, refs, data, sdata, fault, halted>>

(* sys_munmap: vmm_user_release.  vmm_unmap leaves a swapped-out PTE as it is. *)
Munmap(t, R) ==
  LET r == UnrefPages(t, R) IN
  /\ Running(t) /\ R \in region[t] /\ MaySwapped(t, "munmap")
  /\ refs' = r /\ data' = Wiped(r)
  /\ pte' = [pte EXCEPT ![t] = [p \in Page |-> IF p \in R \cap Mapped(t) THEN Absent ELSE @[p]]]
  /\ mem' = [mem EXCEPT ![t] = Max({0, @ - Cardinality(R)})]
  /\ region' = [region EXCEPT ![t] = @ \ {R}]
  /\ UNCHANGED <<life, sdata, fault, want, halted>>

(* sched_fork: vmm_clone_pml4 copies every PTE, vmm_cow_fork then counts the
   mapped pages of the regions and makes both sides read-only. *)
Fork(t, c) ==
  /\ Running(t) /\ life[c] = "none"
  /\ MaySwapped(t, "fork")
  /\ life' = [life EXCEPT ![c] = "on"]
  /\ region' = [region EXCEPT ![c] = region[t]]
  /\ mem' = [mem EXCEPT ![c] = mem[t]]
  /\ refs' = RefPages(t, Reserved(t))
  /\ pte' = LET Cow == [p \in Page |-> IF p \in Reserved(t) \cap Mapped(t)
                                       THEN [pte[t][p] EXCEPT !.k = "cow"]
                                       ELSE pte[t][p]]
            IN  [pte EXCEPT ![t] = Cow, ![c] = Cow]
  /\ want' = [want EXCEPT ![c] = want[t]]
  /\ UNCHANGED <<data, sdata, fault, halted>>

(* user_exec of a program with no region yet. *)
Exec(t) ==
  /\ Running(t)
  /\ FreeSpace(t)
  /\ mem' = [mem EXCEPT ![t] = 0]
  /\ UNCHANGED <<life, sdata, fault, halted>>

Exit(t) ==
  /\ Running(t)
  /\ life' = [life EXCEPT ![t] = "zombie"]
  /\ UNCHANGED <<region, mem, pte, refs, data, sdata, fault, want, halted>>

(* A fault is handled with interrupts off, so a task that is killed meanwhile
   ends its fault before it leaves its CPU and can be reaped. *)
Reap(t) ==
  /\ life[t] = "zombie" /\ fault[t].k = "user"
  /\ FreeSpace(t)
  /\ life' = [life EXCEPT ![t] = "none"]
  /\ mem' = [mem EXCEPT ![t] = 0]
  /\ UNCHANGED <<sdata, fault, halted>>

-----------------------------------------------------------------------------
(* A store the MMU lets through, and the faults. *)

Store(t, p) ==
  /\ Running(t)
  /\ pte[t][p].k \in {"rw", "rwx"}
  /\ data' = [data EXCEPT ![pte[t][p].f] = t]
  /\ want' = [want EXCEPT ![t][p] = t]
  /\ UNCHANGED <<life, region, mem, pte, refs, sdata, fault, halted>>

Go(t, k, p) == fault' = [fault EXCEPT ![t] = [k |-> k, p |-> p, f |-> Low, try |-> 0]]

(* The task's share of a fault has failed: the handler kills it. *)
Die(t) ==
  /\ life' = [life EXCEPT ![t] = "zombie"]
  /\ fault' = [fault EXCEPT ![t] = User]

(* pmm_refcount(phys) == 1, read without pmm_lock. *)
Alone(f) == refs[f] = 1

(* vmm_resolve_user_fault up to the allocation. *)
Fault(t, p) ==
  /\ Running(t)
  /\ \/ pte[t][p].k = "swap" /\ Go(t, "swapin", p) /\ UNCHANGED <<life, mem>>
     \/ /\ pte[t][p].k = "none" /\ p \in Reserved(t)
        /\ IF mem[t] + 1 > Limit
           THEN Die(t) /\ UNCHANGED mem
           ELSE /\ mem' = [mem EXCEPT ![t] = @ + 1]
                /\ Go(t, "demand", p) /\ UNCHANGED life
     \/ /\ pte[t][p].k = "cow"
        /\ Go(t, IF Alone(pte[t][p].f) THEN "solo" ELSE "copy", p)
        /\ UNCHANGED <<life, mem>>
  /\ UNCHANGED <<region, pte, refs, data, sdata, want, halted>>

(* The only user of a copy-on-write frame makes it writable in place. *)
CowSolo(t) ==
  LET p == fault[t].p IN
  /\ fault[t].k = "solo"
  /\ pte' = [pte EXCEPT ![t][p].k = "rwx"]
  /\ fault' = [fault EXCEPT ![t] = User]
  /\ UNCHANGED <<life, region, mem, refs, data, sdata, want, halted>>

-----------------------------------------------------------------------------
(* pmm_alloc_page: a free frame, or evict and look again, or kill and look
   again. *)

NeedsFrame(t) == fault[t].k \in {"swapin", "demand", "copy"} /\ fault[t].f = Low

AllocIdx(t) ==
  /\ NeedsFrame(t)
  /\ \E f \in NextFree :
       /\ refs' = [refs EXCEPT ![f] = 1]
       /\ data' = [data EXCEPT ![f] = Zero]
       /\ fault' = [fault EXCEPT ![t].f = f]
  /\ UNCHANGED <<life, region, mem, pte, sdata, want, halted>>

(* vmm_evict_some passes over shared and executable pages. *)
Evictable(t) == {p \in Reserved(t) : pte[t][p].k = "rw"}

(* vmm_swap_out of one page: RAM slots first, then the disk. *)
EvictPage(t) ==
  /\ NeedsFrame(t) /\ FreeFrames = {} /\ fault[t].try = 0
  /\ FreeSlots # {}
  /\ \E p \in Evictable(t) :
       LET s == Min(FreeSlots)  r == UnrefPages(t, {p}) IN
       /\ sdata' = [sdata EXCEPT ![s] = data[pte[t][p].f]]
       /\ refs' = r /\ data' = Wiped(r)
       /\ pte' = [pte EXCEPT ![t][p] = [k |-> "swap", f |-> s]]
  /\ UNCHANGED <<life, region, mem, fault, want, halted>>

(* Nothing left to evict, no slot, or the disk refuses the writes. *)
EvictDone(t) ==
  /\ NeedsFrame(t) /\ FreeFrames = {} /\ fault[t].try = 0
  /\ \/ Evictable(t) = {}
     \/ FreeSlots = {}
     \/ FreeSlots # {} /\ IsDisk(Min(FreeSlots))
  /\ fault' = [fault EXCEPT ![t].try = 1]
  /\ UNCHANGED <<life, region, mem, pte, refs, data, sdata, want, halted>>

(* sched_oom_kill_one: the task with most pages charged to it.  A victim that
   is on no CPU loses its memory at once. *)
Hungriest == {t \in Task : /\ life[t] = "on" /\ mem[t] > 0
                           /\ \A u \in Task : life[u] = "on" => mem[u] <= mem[t]}

OomKill(t) ==
  /\ NeedsFrame(t) /\ FreeFrames = {} /\ fault[t].try = 1
  /\ \E v \in Hungriest \ {t} :
       /\ life' = [life EXCEPT ![v] = "zombie"]
       /\ \/ fault[v].k = "user" /\ FreeSpace(v)
          \/ UNCHANGED <<region, pte, refs, data, want>>
  /\ UNCHANGED <<mem, sdata, fault, halted>>

(* pmm_alloc_page returns 0 when the victim is the caller.  The copy-on-write
   path does not look at the result: it copies to frame 0 and maps it. *)
OomSelf(t) ==
  LET p == fault[t].p  r == UnrefPages(t, {p}) IN
  /\ NeedsFrame(t) /\ FreeFrames = {} /\ fault[t].try = 1
  /\ t \in Hungriest
  /\ Die(t)
  /\ mem' = [mem EXCEPT ![t] = IF fault[t].k = "demand" THEN @ - 1 ELSE @]
  /\ IF fault[t].k = "copy"
     THEN /\ refs' = r
          /\ data' = [Wiped(r) EXCEPT ![Low] = data[pte[t][p].f]]
          /\ pte' = [pte EXCEPT ![t][p] = [k |-> "rwx", f |-> Low]]
     ELSE UNCHANGED <<refs, data, pte>>
  /\ UNCHANGED <<region, sdata, want, halted>>

OomPanic(t) ==
  /\ NeedsFrame(t) /\ FreeFrames = {} /\ fault[t].try = 1
  /\ Hungriest = {}
  /\ halted' = TRUE
  /\ UNCHANGED <<life, region, mem, pte, refs, data, sdata, fault, want>>

-----------------------------------------------------------------------------
(* The frame is there: finish the fault. *)

Finish(t, e) ==
  /\ pte' = [pte EXCEPT ![t][fault[t].p] = e]
  /\ fault' = [fault EXCEPT ![t] = User]

DemandMap(t) ==
  /\ fault[t].k = "demand" /\ fault[t].f # Low
  /\ Finish(t, [k |-> "rw", f |-> fault[t].f])
  /\ UNCHANGED <<life, region, mem, refs, data, sdata, want, halted>>

CowCopy(t) ==
  LET p == fault[t].p  r == UnrefPages(t, {p}) IN
  /\ fault[t].k = "copy" /\ fault[t].f # Low
  /\ refs' = r
  /\ data' = [Wiped(r) EXCEPT ![fault[t].f] = data[pte[t][p].f]]
  /\ Finish(t, [k |-> "rwx", f |-> fault[t].f])
  /\ UNCHANGED <<life, region, mem, sdata, want, halted>>

SwapIn(t) ==
  LET s == pte[t][fault[t].p].f IN
  /\ fault[t].k = "swapin" /\ fault[t].f # Low
  /\ data' = [data EXCEPT ![fault[t].f] = sdata[s]]
  /\ sdata' = [sdata EXCEPT ![s] = Free]
  /\ Finish(t, [k |-> "rw", f |-> fault[t].f])
  /\ UNCHANGED <<life, region, mem, refs, want, halted>>

(* The disk does not give the page back: the slot is freed all the same. *)
SwapInError(t) ==
  LET s == pte[t][fault[t].p].f IN
  /\ fault[t].k = "swapin" /\ fault[t].f # Low
  /\ IsDisk(s)
  /\ refs' = [refs EXCEPT ![fault[t].f] = 0]
  /\ sdata' = [sdata EXCEPT ![s] = Free]
  /\ Die(t)
  /\ UNCHANGED <<region, mem, pte, data, want, halted>>

-----------------------------------------------------------------------------
Step(t) ==
  \/ \E R \in Area : Mmap(t, R)
  \/ \E R \in region[t] : Munmap(t, R)
  \/ \E c \in Task : Fork(t, c)
  \/ Exec(t) \/ Exit(t) \/ Reap(t)
  \/ \E p \in Page : Store(t, p) \/ Fault(t, p)
  \/ CowSolo(t) \/ AllocIdx(t) \/ EvictPage(t) \/ EvictDone(t)
  \/ OomKill(t) \/ OomSelf(t) \/ OomPanic(t)
  \/ DemandMap(t) \/ CowCopy(t) \/ SwapIn(t) \/ SwapInError(t)

Next == ~halted /\ \E t \in Task : Step(t)

Spec == Init /\ [][Next]_vars

-----------------------------------------------------------------------------
(* Properties *)

Holds(t, f) == IF fault[t].f = f THEN 1 ELSE 0

(* The count of every frame is the number of PTEs that map it and of faults
   that have just allocated it: vmm_cow_fork, the copy-on-write split, swap
   and every teardown keep it so, whatever the interleaving.  A count too low
   frees a frame somebody maps; one too high leaks it. *)
FrameRefsExact ==
  \A f \in Frame :
    refs[f] = MapThenSumSet(LAMBDA t : Uses(t, Page, f) + Holds(t, f), Task)

Content(t, p) ==
  CASE p \in Mapped(t) -> data[pte[t][p].f]
    [] pte[t][p].k = "swap" -> sdata[pte[t][p].f]
    [] OTHER -> Zero

(* A task finds at every page of its regions what it stored there last, or
   what its parent had there at fork, or zeroes: sharing, splitting, eviction
   and swap-in are invisible to it, and no other task's store shows. *)
MemoryPrivate ==
  \A t \in Task : life[t] = "on" =>
    \A p \in Reserved(t) : Content(t, p) = want[t][p]
=============================================================================
