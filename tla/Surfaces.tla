------------------------------ MODULE Surfaces ------------------------------
(***************************************************************************)
(* The window surfaces of syscall.c: canvases whose frames are mapped both *)
(* into the application that draws and into the compositor, with the table *)
(* g_wm_surfs holding one more reference.  A surface that goes away keeps  *)
(* its frames and its compositor mapping until its slot is reused, so that *)
(* the compositor never paints from an unmapped page.                      *)
(*                                                                         *)
(* `pt' holds only the canvas PTEs of a task: <<side, id, i>> is page i of *)
(* the window of addresses that WM_SURF_APP_BASE or WM_SURF_WM_BASE gives  *)
(* to surface id.  None of them lies in a region, so a fork shares them    *)
(* (PTE_NOSHR) and only vmm_free_pml4 drops them.  No lock covers the      *)
(* table: sys_wm_create is two steps.                                      *)
(***************************************************************************)
EXTENDS Integers, Sequences, FiniteSets, TLC

CONSTANTS
  Task, Wm,       \* processes, and the compositor's binary among them
  Slots,          \* the slots of g_wm_surfs, 0 first
  Sizes,          \* the page counts applications ask for
  Frame, None,    \* physical frames, and no task
  Plain           \* a plain session: surfaces are made under a living compositor,
                  \* one by each process

VARIABLES
  life,     \* "none", "on", "exited" (zombie with its tables), "freed" (without)
  wm,       \* g_wm_task
  surf,     \* g_wm_surfs: [used, id, owner, pages]
  pt,       \* the canvas PTEs of each task
  refs,     \* pmm.c reference counts
  old       \* frames of the slot's previous surface that a creator must still drop

vars == <<life, wm, surf, pt, refs, old>>

Empty == [used |-> FALSE, id |-> 0, owner |-> None, pages |-> <<>>]

Init ==
  /\ life = [t \in Task |-> IF t = Wm THEN "on" ELSE "none"]
  /\ wm = None
  /\ surf = [s \in Slots |-> Empty]
  /\ pt = [t \in Task |-> << >>]
  /\ refs = [f \in Frame |-> 0]
  /\ old = [t \in Task |-> <<>>]

-----------------------------------------------------------------------------
HasWm == wm # None /\ life[Wm] = "on"     \* g_wm_task && g_wm_task->pml4
Used == {s \in Slots : surf[s].used}
Mapped(p, f) == Cardinality({va \in DOMAIN p : p[va] = f})
Listed(q, f) == Cardinality({i \in DOMAIN q : q[i] = f})

(* pmm_alloc_page for each of I.  Which free frames they are makes no difference:
   the lowest. *)
Allocated(I) ==
  LET free == {f \in Frame : refs[f] = 0} IN
  {q \in [I -> free] :
     /\ \A i, j \in I : i < j => q[i] < q[j]
     /\ \A i \in I, f \in free : f < q[i] => \E j \in I : q[j] = f}

(* Reference counts after n[f] pmm_ref_page or pmm_unref_page calls for each
   frame f.  An unref of a free frame is reported and ignored. *)
Ref(r, n) == [f \in Frame |-> r[f] + n[f]]
Unref(r, n) == [f \in Frame |-> IF n[f] >= r[f] THEN 0 ELSE r[f] - n[f]]

Side(side, id, q) == [va \in {<<side, id, i>> : i \in DOMAIN q} |-> q[va[3]]]
Without(p, side, id) == [va \in {v \in DOMAIN p : v[1] # side \/ v[2] # id} |-> p[va]]

-----------------------------------------------------------------------------
(* Faulty variants of the definitions below: each breaks one of the properties *)

(* The child's copies of the canvas PTEs are not counted. *)
ForkUncounted(t, c) ==
  /\ life[t] = "on" /\ life[c] = "none" /\ old[t] = <<>>
  /\ life' = [life EXCEPT ![c] = "on"]
  /\ pt' = [pt EXCEPT ![c] = pt[t]]
  /\ UNCHANGED <<wm, surf, refs, old>>

-----------------------------------------------------------------------------
(* sys_fb_info: the first caller becomes the compositor. *)
Claim ==
  /\ life[Wm] = "on" /\ wm = None
  /\ wm' = Wm
  /\ UNCHANGED <<life, surf, pt, refs, old>>

(* A new compositor process, after the old one died. *)
StartWm ==
  /\ life[Wm] = "none"
  /\ life' = [life EXCEPT ![Wm] = "on"]
  /\ UNCHANGED <<wm, surf, pt, refs, old>>

(* sys_wm_create.  The slot's number is stored in it and then cleared with the
   rest of the record, so every surface has id 0. *)
Create(t, n) ==
  /\ life[t] = "on" /\ old[t] = <<>> /\ t # Wm
  /\ Plain => HasWm /\ \A va \in DOMAIN pt[t] : va[1] # "app"
  /\ \E s \in Slots \ Used :
       /\ \A u \in Slots \ Used : s <= u
       /\ \E q \in Allocated(1..n) :
            LET Held == [f \in Frame |-> Listed(q, f) * (IF HasWm THEN 3 ELSE 2)]
                App == Side("app", 0, q) @@ pt[t]
                Both == [pt EXCEPT ![t] = App]
            IN
            /\ surf' = [surf EXCEPT ![s] = [used |-> TRUE, id |-> 0, owner |-> t,
                                            pages |-> q]]
            /\ refs' = Ref(refs, Held)
            /\ pt' = IF HasWm THEN [Both EXCEPT ![wm] = Side("wm", 0, q) @@ Both[wm]] ELSE Both
            /\ old' = [old EXCEPT ![t] = surf[s].pages]
  /\ UNCHANGED <<life, wm>>

(* The end of sys_wm_create: the previous surface's frames lose the table's
   reference and the compositor's. *)
Reclaim(t) ==
  /\ old[t] # <<>>
  /\ refs' = Unref(refs, [f \in Frame |-> 2 * Listed(old[t], f)])
  /\ old' = [old EXCEPT ![t] = <<>>]
  /\ UNCHANGED <<life, wm, surf, pt>>

(* wm_surface_teardown: the compositor's side and the frames stay. *)
Torn(r) == [Empty EXCEPT !.pages = r.pages]

(* sys_wm_destroy by the owner or the compositor.  Both name the surface by its
   id, which is 0. *)
Destroy(t) ==
  LET s == 0  o == surf[s].owner  va == Side("app", 0, surf[s].pages) IN
  /\ life[t] = "on" /\ surf[s].used /\ t \in {o, wm}
  /\ IF life[o] \in {"on", "exited"}
     THEN /\ refs' = Unref(refs, [f \in Frame |-> Mapped([v \in DOMAIN va \cap DOMAIN pt[o] |-> pt[o][v]], f)])
          /\ pt' = [pt EXCEPT ![o] = [v \in DOMAIN pt[o] \ DOMAIN va |-> pt[o][v]]]
     ELSE UNCHANGED <<refs, pt>>
  /\ surf' = [surf EXCEPT ![s] = Torn(surf[s])]
  /\ UNCHANGED <<life, wm, old>>

(* sys_wm_resize: more pages when the window grows, on the compositor's side
   only; fewer never. *)
Resize(t, n) ==
  LET r == surf[0] IN
  /\ life[t] = "on" /\ r.used /\ t \in {r.owner, wm}
  /\ \E q \in Allocated(Len(r.pages) + 1..n) :
       LET Grown == [i \in 1..Len(r.pages) |-> r.pages[i]] @@ q
           Held == [f \in Frame |-> Listed(q, f) * (IF HasWm THEN 2 ELSE 1)]
       IN
       /\ surf' = [surf EXCEPT ![0].pages = Grown]
       /\ refs' = Ref(refs, Held)
       /\ pt' = IF HasWm THEN [pt EXCEPT ![wm] = Side("wm", 0, q) @@ @] ELSE pt
  /\ UNCHANGED <<life, wm, old>>

-----------------------------------------------------------------------------
(* Processes.  Pass 2 of vmm_cow_fork counts the child's canvas PTEs. *)
Fork(t, c) ==
  /\ life[t] = "on" /\ life[c] = "none" /\ old[t] = <<>>
  /\ life' = [life EXCEPT ![c] = "on"]
  /\ pt' = [pt EXCEPT ![c] = pt[t]]
  /\ refs' = Ref(refs, [f \in Frame |-> Mapped(pt[t], f)])
  /\ UNCHANGED <<wm, surf, old>>

FreePml4(t) ==
  /\ refs' = Unref(refs, [f \in Frame |-> Mapped(pt[t], f)])
  /\ pt' = [pt EXCEPT ![t] = << >>]

Exec(t) ==
  /\ life[t] = "on" /\ t # Wm /\ old[t] = <<>> /\ pt[t] # << >>
  /\ FreePml4(t)
  /\ UNCHANGED <<life, wm, surf, old>>

(* wm_surface_owner_died *)
OwnerDied(t) ==
  /\ surf' = [s \in Slots |-> IF surf[s].used /\ surf[s].owner = t THEN Torn(surf[s]) ELSE surf[s]]
  /\ wm' = IF wm = t THEN None ELSE wm

MayEnd(t) ==
  /\ life[t] = "on" /\ old[t] = <<>>
  /\ Plain /\ t = Wm => \A s \in Slots : surf[s].pages = <<>>

(* sched_exit *)
Exit(t) ==
  /\ MayEnd(t)
  /\ life' = [life EXCEPT ![t] = "exited"]
  /\ OwnerDied(t)
  /\ UNCHANGED <<pt, refs, old>>

(* sched_kill of a task that is on no CPU: its tables go at once, its surfaces
   only when it is reaped. *)
Kill(t) ==
  /\ MayEnd(t)
  /\ life' = [life EXCEPT ![t] = "freed"]
  /\ FreePml4(t)
  /\ UNCHANGED <<wm, surf, old>>

Reap(t) ==
  /\ life[t] \in {"exited", "freed"}
  /\ life' = [life EXCEPT ![t] = "none"]
  /\ FreePml4(t)
  /\ OwnerDied(t)
  /\ UNCHANGED old

-----------------------------------------------------------------------------
Next ==
  \/ Claim \/ StartWm
  \/ \E t \in Task :
       \/ \E n \in Sizes : Create(t, n) \/ Resize(t, n)
       \/ Reclaim(t) \/ Destroy(t)
       \/ \E c \in Task \ {Wm} : Fork(t, c)
       \/ Exec(t) \/ Exit(t) \/ Kill(t) \/ Reap(t)

Spec == Init /\ [][Next]_vars

-----------------------------------------------------------------------------
(* Properties *)

(* No task, the compositor above all, ever maps a canvas frame that has been
   freed: fork, exec, death, the deferred free of a destroyed surface and the
   reuse of its slot keep every mapped frame allocated. *)
CanvasAlive ==
  \A t \in Task : \A va \in DOMAIN pt[t] : refs[pt[t][va]] > 0
=============================================================================
