---------------------------- MODULE TlbShootdown ----------------------------
(***************************************************************************)
(* TLB shootdown (smp.c 201-286): a CPU that edits the shared kernel page  *)
(* tables flushes its own TLB, then asks every other CPU that is up to     *)
(* flush theirs and waits for the acknowledgements.                        *)
(*                                                                         *)
(* The edits are those of kernel-stack guard pages: alloc_kstack unmaps    *)
(* one holding no lock, reap remaps one under g_switch_lock (sched.c 1397- *)
(* 1412), and a switch on another CPU takes g_switch_lock with interrupts  *)
(* off.  The 400M-spin timeout is taken where the awaited CPU can never    *)
(* answer: it spins, interrupts off, on a lock the waiting CPU holds.      *)
(***************************************************************************)
EXTENDS Integers, FiniteSets

CONSTANTS
  Bsp, Ap,     \* the boot CPU, the application processors
  Va,          \* direct-map pages
  Nobody,      \* a free lock
  All,         \* the request for a full flush
  Editor,      \* the CPUs that edit page tables
  Ops,         \* the operations the workload uses
  MaxSeq       \* bound on g_tlb_seq

AllOps == {"unmap", "remap", "full", "switch"}
Cpu == {Bsp} \cup Ap

ASSUME TlbAssumption ==
  /\ Bsp \notin Ap /\ IsFiniteSet(Ap) /\ Nobody \notin Cpu /\ All \notin Va
  /\ Editor \subseteq Cpu /\ Ops \subseteq AllOps /\ MaxSeq \in Nat

VARIABLES
  mapped,    \* pages the shared tables map
  tlb,       \* pages each CPU has cached
  pc,        \* where each CPU is
  job,       \* the page (or All) its shootdown is about
  todo,      \* CPUs it has still to post to, or to hear from
  seq,       \* g_tlb_seq
  tlbLock,   \* holder of g_tlb_lock
  swLock,    \* holder of g_switch_lock
  req, gen,  \* cpu_local tlb_req and tlb_gen
  what,      \* tlb_va, or All when tlb_full is set
  ipi,       \* CPUs with TLB_FLUSH_VEC pending
  isr,       \* the handler's step: "no", "flush", "ack"
  late       \* history: CPUs whose acknowledgement was given up on

vars == <<mapped, tlb, pc, job, todo, seq, tlbLock, swLock, req, gen, what, ipi, isr, late>>
handler == <<req, gen, what, ipi, isr>>

TypeOK ==
  /\ mapped \subseteq Va
  /\ tlb \in [Cpu -> SUBSET Va]
  /\ pc \in [Cpu -> {"run", "switch", "reap", "held", "lock", "post", "wait", "done"}]
  /\ job \in [Cpu -> Va \cup {All}]
  /\ todo \in [Cpu -> SUBSET Ap]
  /\ seq \in 0 .. MaxSeq
  /\ tlbLock \in Cpu \cup {Nobody} /\ swLock \in Cpu \cup {Nobody}
  /\ req \in [Cpu -> 0 .. MaxSeq] /\ gen \in [Cpu -> 0 .. MaxSeq]
  /\ what \in [Cpu -> Va \cup {All}]
  /\ ipi \subseteq Cpu
  /\ isr \in [Cpu -> {"no", "flush", "ack"}]
  /\ late \subseteq Ap

Init ==
  /\ mapped = Va /\ tlb = [c \in Cpu |-> {}]
  /\ pc = [c \in Cpu |-> "run"] /\ job = [c \in Cpu |-> All]
  /\ todo = [c \in Cpu |-> {}]
  /\ seq = 0 /\ tlbLock = Nobody /\ swLock = Nobody
  /\ req = [c \in Cpu |-> 0] /\ gen = [c \in Cpu |-> 0]
  /\ what = [c \in Cpu |-> All]
  /\ ipi = {} /\ isr = [c \in Cpu |-> "no"] /\ late = {}

(* User mode or the idle loop: the only place with interrupts on. *)
Runs(c) == pc[c] = "run" /\ isr[c] = "no"

(* The CPUs the loops of smp_tlb_flush_others visit: ap_up is set in
   limine_ap_entry only, so never for the boot CPU. *)
Targets(c) == {d \in Ap : d # c}

Flush(S, w) == IF w = All THEN {} ELSE S \ {w}

-----------------------------------------------------------------------------
(* Faulty variants of the steps below: each breaks one of the properties *)

(* The wait accepts the acknowledgement of the previous request. *)
WaitAckEarly(c, d) ==
  /\ pc[c] = "wait" /\ d \in todo[c] /\ gen[d] >= seq - 1
  /\ todo' = [todo EXCEPT ![c] = @ \ {d}]
  /\ UNCHANGED <<mapped, tlb, pc, job, seq, tlbLock, swLock, handler, late>>

(* The wait has no timeout. *)
NoTimeout(c, d) == FALSE /\ UNCHANGED vars

-----------------------------------------------------------------------------
(* The hardware fills a TLB from the page tables. *)
Fill(c, v) ==
  /\ Runs(c) /\ v \in mapped
  /\ tlb' = [tlb EXCEPT ![c] = @ \cup {v}]
  /\ UNCHANGED <<mapped, pc, job, todo, seq, tlbLock, swLock, handler, late>>

-----------------------------------------------------------------------------
(* The callers *)

CanEdit(c) == Runs(c) /\ c \in Editor /\ seq + Cardinality(Editor) <= MaxSeq

(* vmm_unmap_direct_page: clear the PTE, flush locally. *)
Unmap(c, v) ==
  /\ CanEdit(c) /\ "unmap" \in Ops /\ v \in mapped
  /\ mapped' = mapped \ {v}
  /\ tlb' = [tlb EXCEPT ![c] = Flush(@, v)]
  /\ pc' = [pc EXCEPT ![c] = "lock"] /\ job' = [job EXCEPT ![c] = v]
  /\ UNCHANGED <<todo, seq, tlbLock, swLock, handler, late>>

(* Faulty: the full flag is not passed on, only the address 0. *)
ShootdownAllAsPage(c) ==
  /\ CanEdit(c) /\ "full" \in Ops
  /\ tlb' = [tlb EXCEPT ![c] = Flush(@, All)]
  /\ pc' = [pc EXCEPT ![c] = "lock"] /\ job' = [job EXCEPT ![c] = 0]
  /\ UNCHANGED <<mapped, todo, seq, tlbLock, swLock, handler, late>>

(* vmm_nx_direct_map and the window-surface maps: flush everything. *)
ShootdownAll(c) ==
  /\ CanEdit(c) /\ "full" \in Ops
  /\ tlb' = [tlb EXCEPT ![c] = Flush(@, All)]
  /\ pc' = [pc EXCEPT ![c] = "lock"] /\ job' = [job EXCEPT ![c] = All]
  /\ UNCHANGED <<mapped, todo, seq, tlbLock, swLock, handler, late>>

(* reap and switch_to turn interrupts off and spin on g_switch_lock. *)
WantSwitchLock(c) ==
  /\ Runs(c)
  /\ \/ "switch" \in Ops /\ pc' = [pc EXCEPT ![c] = "switch"]
     \/ "remap" \in Ops /\ CanEdit(c) /\ pc' = [pc EXCEPT ![c] = "reap"]
  /\ UNCHANGED <<mapped, tlb, job, todo, seq, tlbLock, swLock, handler, late>>

(* switch_to has it: nothing here but release it later. *)
SwitchLock(c) ==
  /\ pc[c] = "switch" /\ swLock = Nobody
  /\ swLock' = c /\ pc' = [pc EXCEPT ![c] = "held"]
  /\ UNCHANGED <<mapped, tlb, job, todo, seq, tlbLock, handler, late>>

(* reap has it: free_kstack, vmm_remap_direct_page. *)
Remap(c, v) ==
  /\ pc[c] = "reap" /\ swLock = Nobody
  /\ swLock' = c
  /\ mapped' = mapped \cup {v}
  /\ tlb' = [tlb EXCEPT ![c] = Flush(@, v)]
  /\ pc' = [pc EXCEPT ![c] = "lock"] /\ job' = [job EXCEPT ![c] = v]
  /\ UNCHANGED <<todo, seq, tlbLock, handler, late>>

SwitchUnlock(c) ==
  /\ pc[c] = "held"
  /\ swLock' = Nobody /\ pc' = [pc EXCEPT ![c] = "run"]
  /\ UNCHANGED <<mapped, tlb, job, todo, seq, tlbLock, handler, late>>

-----------------------------------------------------------------------------
(* smp_tlb_flush_others, interrupts off throughout *)

TlbLock(c) ==
  /\ pc[c] = "lock" /\ tlbLock = Nobody
  /\ tlbLock' = c /\ seq' = seq + 1
  /\ todo' = [todo EXCEPT ![c] = Targets(c)]
  /\ pc' = [pc EXCEPT ![c] = "post"]
  /\ UNCHANGED <<mapped, tlb, job, swLock, handler, late>>

(* Write the request of one target and send it the IPI. *)
Post(c, d) ==
  /\ pc[c] = "post" /\ d \in todo[c]
  /\ what' = [what EXCEPT ![d] = job[c]]
  /\ req' = [req EXCEPT ![d] = seq]
  /\ ipi' = ipi \cup {d}
  /\ todo' = [todo EXCEPT ![c] = @ \ {d}]
  /\ UNCHANGED <<mapped, tlb, pc, job, seq, tlbLock, swLock, gen, isr, late>>

Posted(c) ==
  /\ pc[c] = "post" /\ todo[c] = {}
  /\ todo' = [todo EXCEPT ![c] = Targets(c)]
  /\ pc' = [pc EXCEPT ![c] = "wait"]
  /\ UNCHANGED <<mapped, tlb, job, seq, tlbLock, swLock, handler, late>>

WaitAck(c, d) ==
  /\ pc[c] = "wait" /\ d \in todo[c] /\ gen[d] >= seq
  /\ todo' = [todo EXCEPT ![c] = @ \ {d}]
  /\ UNCHANGED <<mapped, tlb, pc, job, seq, tlbLock, swLock, handler, late>>

(* d spins with interrupts off on a lock that c holds, *)
SpinsOn(d, c) ==
  \/ pc[d] = "lock" /\ tlbLock = c
  \/ pc[d] \in {"switch", "reap"} /\ swLock = c

(* or on one whose holder does. *)
NeverAnswers(c, d) ==
  SpinsOn(d, c) \/ \E e \in Cpu : SpinsOn(d, e) /\ SpinsOn(e, c)

Timeout(c, d) ==
  /\ pc[c] = "wait" /\ d \in todo[c] /\ gen[d] < seq /\ NeverAnswers(c, d)
  /\ todo' = [todo EXCEPT ![c] = @ \ {d}]
  /\ late' = late \cup {d}
  /\ UNCHANGED <<mapped, tlb, pc, job, seq, tlbLock, swLock, handler>>

TlbUnlock(c) ==
  /\ pc[c] = "wait" /\ todo[c] = {}
  /\ tlbLock' = Nobody
  /\ pc' = [pc EXCEPT ![c] = IF swLock = c THEN "held" ELSE "run"]
  /\ UNCHANGED <<mapped, tlb, job, todo, seq, swLock, handler, late>>

-----------------------------------------------------------------------------
(* smp_tlb_ipi_handler *)

TakeIpi(d) ==
  /\ Runs(d) /\ d \in ipi
  /\ ipi' = ipi \ {d}
  /\ isr' = [isr EXCEPT ![d] = IF req[d] # gen[d] THEN "flush" ELSE "no"]
  /\ UNCHANGED <<mapped, tlb, pc, job, todo, seq, tlbLock, swLock, req, gen, what, late>>

HandlerFlush(d) ==
  /\ isr[d] = "flush"
  /\ tlb' = [tlb EXCEPT ![d] = Flush(@, what[d])]
  /\ isr' = [isr EXCEPT ![d] = "ack"]
  /\ UNCHANGED <<mapped, pc, job, todo, seq, tlbLock, swLock, req, gen, what, ipi, late>>

HandlerAck(d) ==
  /\ isr[d] = "ack"
  /\ gen' = [gen EXCEPT ![d] = req[d]]
  /\ isr' = [isr EXCEPT ![d] = "no"]
  /\ UNCHANGED <<mapped, tlb, pc, job, todo, seq, tlbLock, swLock, req, what, ipi, late>>

-----------------------------------------------------------------------------
Sender(c) ==
  \/ TlbLock(c) \/ Posted(c) \/ TlbUnlock(c)
  \/ SwitchLock(c) \/ SwitchUnlock(c) \/ \E v \in Va : Remap(c, v)
  \/ \E d \in Ap : Post(c, d) \/ WaitAck(c, d) \/ Timeout(c, d)

Handler(c) == TakeIpi(c) \/ HandlerFlush(c) \/ HandlerAck(c)

Next ==
  \E c \in Cpu :
    \/ Sender(c) \/ Handler(c)
    \/ WantSwitchLock(c) \/ ShootdownAll(c)
    \/ \E v \in Va : Fill(c, v) \/ Unmap(c, v)

Spec == Init /\ [][Next]_vars

(* Every CPU keeps executing; a spinlock that is freed again and again is
   taken in the end; a pending interrupt is delivered. *)
FairSpec ==
  /\ Spec
  /\ \A c \in Cpu : SF_vars(Sender(c))
  /\ \A d \in Ap : SF_vars(Handler(d))

-----------------------------------------------------------------------------
(* Properties *)

InFlight(v) == \E c \in Cpu : pc[c] \in {"lock", "post", "wait"} /\ job[c] = v

Stale(c, v) == v \in tlb[c] /\ v \notin mapped /\ ~InFlight(v)

(* smp.c 204-213: when the shootdown of an unmapped page has returned, no AP
   can reach the page through its TLB any more, unless the sender logged its
   "stale TLB entries possible" for that AP (smp.c 261-267). *)
NoStaleOnAps == \A c \in Ap \ late, v \in Va : ~Stale(c, v)

(* vmm.c 915-917 and hal.h 20 ("all CPUs"): and no other CPU either. *)
NoStaleAnywhere == \A c \in Cpu, v \in Va : ~Stale(c, v)

(* smp.c 215-219: a caller never "hold[s] a spinlock that another CPU could be
   spinning on with IRQs disabled" while it waits for that CPU. *)
CallersObeyRule ==
  \A c \in Cpu, d \in Ap :
    pc[c] = "wait" /\ d \in todo[c] /\ gen[d] < seq => ~NeverAnswers(c, d)

(* A CPU that has begun a shootdown gets out of it, whatever the others do. *)
ShootdownReturns == \A c \in Editor : pc[c] = "lock" ~> pc[c] = "run"
=============================================================================
