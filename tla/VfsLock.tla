------------------------------ MODULE VfsLock ------------------------------
(***************************************************************************)
(* The recursive, interrupt-safe lock of the VFS (kernel/fs/vfs.c):        *)
(* vfs_lock() and vfs_unlock() over one spinlock, an owner CPU, a nesting  *)
(* depth and one saved interrupt flag per CPU.  Every CPU runs a task      *)
(* context, and a timer interrupt context that may break in whenever the   *)
(* CPU's interrupt flag is set; both call vfs_lock (the timer through      *)
(* watchdog_tick -> blkfs_sync).                                           *)
(***************************************************************************)
EXTENDS Naturals, TLAPS

CONSTANTS
    Cpu,        \* the processors
    NoOwner,    \* 0xFFFFFFFF
    MaxNest     \* bound on the nesting of vfs_lock in one context

ASSUME CpuAssumption == NoOwner \notin Cpu
ASSUME NestAssumption == MaxNest \in Nat \ {0}

VARIABLES
    locked,     \* g_vfs_lock.locked
    owner,      \* g_vfs_owner
    depth,      \* g_vfs_depth
    flags,      \* g_vfs_flags[cpu]
    irq,        \* the interrupt flag of each CPU: 0 or 1
    active,     \* the context that runs on each CPU: its task or its interrupt handler
    pc,         \* where each context of each CPU is
    nest,       \* calls of vfs_lock not yet matched by vfs_unlock
    entryIrq    \* the interrupt flag when the outermost vfs_lock was called

vars == <<locked, owner, depth, flags, irq, active, pc, nest, entryIrq>>

Ctx == {"task", "isr"}

PC == {"out", "check", "nested", "save", "spin", "own", "count", "in",
       "disown", "release", "restore"}

At(c, l) == pc[c][active[c]] = l

Goto(c, l) == pc' = [pc EXCEPT ![c][active[c]] = l]

TypeOK ==
    /\ locked \in {0, 1}
    /\ owner \in Cpu \cup {NoOwner}
    /\ depth \in 0 .. MaxNest
    /\ flags \in [Cpu -> {0, 1}]
    /\ irq \in [Cpu -> {0, 1}]
    /\ active \in [Cpu -> Ctx]
    /\ pc \in [Cpu -> [Ctx -> PC]]
    /\ nest \in [Cpu -> [Ctx -> 0 .. MaxNest]]
    /\ entryIrq \in [Cpu -> [Ctx -> {0, 1}]]

\* The state in which the other processors start: kmain has run vfs_init and
\* blkfs_init on the boot processor, so the last vfs_unlock cleared the owner
\* (before that g_vfs_owner is 0, the boot processor's own number).
Init ==
    /\ locked = 0
    /\ owner = NoOwner
    /\ depth = 0
    /\ flags = [c \in Cpu |-> 0]
    /\ irq = [c \in Cpu |-> 1]
    /\ active = [c \in Cpu |-> "task"]
    /\ pc = [c \in Cpu |-> [x \in Ctx |-> "out"]]
    /\ nest = [c \in Cpu |-> [x \in Ctx |-> 0]]
    /\ entryIrq = [c \in Cpu |-> [x \in Ctx |-> 1]]

----------------------------------------------------------------------------
(* Plausible mistakes in the steps below, used to test the properties.     *)

\* The recursion test forgets to compare the owner.
CheckOwnerSkipped(c) ==
    /\ At(c, "check")
    /\ Goto(c, "nested")
    /\ UNCHANGED <<locked, owner, depth, flags, irq, active, nest, entryIrq>>

\* The nested call is not counted.
CheckDepthUncounted(c) ==
    /\ At(c, "nested")
    /\ IF depth > 0
       THEN /\ nest' = [nest EXCEPT ![c][active[c]] = @ + 1]
            /\ Goto(c, "in")
       ELSE /\ Goto(c, "save")
            /\ UNCHANGED nest
    /\ UNCHANGED <<locked, owner, depth, flags, irq, active, entryIrq>>

\* The interrupt flag is saved before the recursion test, nested calls included.
CheckDepthSavesFlags(c) ==
    /\ At(c, "nested")
    /\ flags' = [flags EXCEPT ![c] = irq[c]]
    /\ IF depth > 0
       THEN /\ depth' = depth + 1
            /\ nest' = [nest EXCEPT ![c][active[c]] = @ + 1]
            /\ Goto(c, "in")
       ELSE /\ Goto(c, "save")
            /\ UNCHANGED <<depth, nest>>
    /\ UNCHANGED <<locked, owner, irq, active, entryIrq>>

\* The flag is read but interrupts stay on.
IrqSaveLeavesOn(c) ==
    /\ At(c, "save")
    /\ flags' = [flags EXCEPT ![c] = irq[c]]
    /\ Goto(c, "spin")
    /\ UNCHANGED <<locked, owner, depth, irq, active, nest, entryIrq>>

\* g_vfs_depth-- == 0 in place of --g_vfs_depth == 0.
UnlockCallPostDecrement(c) ==
    /\ At(c, "in")
    /\ depth' = depth - 1
    /\ nest' = [nest EXCEPT ![c][active[c]] = @ - 1]
    /\ Goto(c, IF depth = 0 THEN "disown" ELSE "in")
    /\ UNCHANGED <<locked, owner, flags, irq, active, entryIrq>>

----------------------------------------------------------------------------
(* The environment: a task enters or leaves a system call (which runs with *)
(* interrupts off), and the timer interrupt arrives and returns.           *)

ToggleSyscall(c) ==
    /\ active[c] = "task"
    /\ At(c, "out")
    /\ nest[c]["task"] = 0
    /\ irq' = [irq EXCEPT ![c] = 1 - irq[c]]
    /\ UNCHANGED <<locked, owner, depth, flags, active, pc, nest, entryIrq>>

Interrupt(c) ==
    /\ irq[c] = 1
    /\ active[c] = "task"
    /\ active' = [active EXCEPT ![c] = "isr"]
    /\ irq' = [irq EXCEPT ![c] = 0]
    /\ UNCHANGED <<locked, owner, depth, flags, pc, nest, entryIrq>>

InterruptReturn(c) ==
    /\ active[c] = "isr"
    /\ At(c, "out")
    /\ nest[c]["isr"] = 0
    /\ active' = [active EXCEPT ![c] = "task"]
    /\ irq' = [irq EXCEPT ![c] = 1]
    /\ UNCHANGED <<locked, owner, depth, flags, pc, nest, entryIrq>>

----------------------------------------------------------------------------
(* vfs_lock                                                                *)

LockCall(c) ==
    /\ At(c, "out") \/ At(c, "in")
    /\ nest[c][active[c]] < MaxNest
    /\ Goto(c, "check")
    /\ entryIrq' = IF nest[c][active[c]] = 0
                   THEN [entryIrq EXCEPT ![c][active[c]] = irq[c]]
                   ELSE entryIrq
    /\ UNCHANGED <<locked, owner, depth, flags, irq, active, nest>>

\* g_vfs_owner == me ...
CheckOwner(c) ==
    /\ At(c, "check")
    /\ Goto(c, IF owner = c THEN "nested" ELSE "save")
    /\ UNCHANGED <<locked, owner, depth, flags, irq, active, nest, entryIrq>>

\* ... && g_vfs_depth > 0: a nested call only counts.
CheckDepth(c) ==
    /\ At(c, "nested")
    /\ IF depth > 0
       THEN /\ depth' = depth + 1
            /\ nest' = [nest EXCEPT ![c][active[c]] = @ + 1]
            /\ Goto(c, "in")
       ELSE /\ Goto(c, "save")
            /\ UNCHANGED <<depth, nest>>
    /\ UNCHANGED <<locked, owner, flags, irq, active, entryIrq>>

IrqSave(c) ==
    /\ At(c, "save")
    /\ flags' = [flags EXCEPT ![c] = irq[c]]
    /\ irq' = [irq EXCEPT ![c] = 0]
    /\ Goto(c, "spin")
    /\ UNCHANGED <<locked, owner, depth, active, nest, entryIrq>>

SpinLock(c) ==
    /\ At(c, "spin")
    /\ locked = 0
    /\ locked' = 1
    /\ Goto(c, "own")
    /\ UNCHANGED <<owner, depth, flags, irq, active, nest, entryIrq>>

SetOwner(c) ==
    /\ At(c, "own")
    /\ owner' = c
    /\ Goto(c, "count")
    /\ UNCHANGED <<locked, depth, flags, irq, active, nest, entryIrq>>

SetDepth(c) ==
    /\ At(c, "count")
    /\ depth' = 1
    /\ nest' = [nest EXCEPT ![c][active[c]] = 1]
    /\ Goto(c, "in")
    /\ UNCHANGED <<locked, owner, flags, irq, active, entryIrq>>

----------------------------------------------------------------------------
(* vfs_unlock                                                              *)

UnlockCall(c) ==
    /\ At(c, "in")
    /\ depth' = depth - 1
    /\ nest' = [nest EXCEPT ![c][active[c]] = @ - 1]
    /\ Goto(c, IF depth = 1 THEN "disown" ELSE "in")
    /\ UNCHANGED <<locked, owner, flags, irq, active, entryIrq>>

ClearOwner(c) ==
    /\ At(c, "disown")
    /\ owner' = NoOwner
    /\ Goto(c, "release")
    /\ UNCHANGED <<locked, depth, flags, irq, active, nest, entryIrq>>

SpinUnlock(c) ==
    /\ At(c, "release")
    /\ locked' = 0
    /\ Goto(c, "restore")
    /\ UNCHANGED <<owner, depth, flags, irq, active, nest, entryIrq>>

IrqRestore(c) ==
    /\ At(c, "restore")
    /\ irq' = [irq EXCEPT ![c] = flags[c]]
    /\ Goto(c, "out")
    /\ UNCHANGED <<locked, owner, depth, flags, active, nest, entryIrq>>

Step(c) ==
    \/ ToggleSyscall(c) \/ Interrupt(c) \/ InterruptReturn(c)
    \/ LockCall(c) \/ CheckOwner(c) \/ CheckDepth(c)
    \/ IrqSave(c) \/ SpinLock(c) \/ SetOwner(c) \/ SetDepth(c)
    \/ UnlockCall(c) \/ ClearOwner(c) \/ SpinUnlock(c) \/ IrqRestore(c)

Next == \E c \in Cpu : Step(c)

Spec == Init /\ [][Next]_vars

----------------------------------------------------------------------------
(* Where a context holds the spinlock, and where it is inside the lock.    *)

Holding == {"own", "count", "in", "disown", "release"}

InLock(c, x) == pc[c][x] \in Holding \/ nest[c][x] > 0

\* At most one context of one CPU is between vfs_lock and vfs_unlock: the
\* recursion test of vfs_lock, made without the spinlock, never lets a second
\* CPU or an interrupt handler in.
MutualExclusion ==
    \A c, d \in Cpu : \A x, y \in Ctx :
        InLock(c, x) /\ InLock(d, y) => c = d /\ x = y

\* Whoever holds the lock runs with interrupts off, so the holder cannot be
\* preempted or re-entered by blkfs_sync from the timer interrupt.
HeldWithIrqOff ==
    \A c \in Cpu, x \in Ctx : InLock(c, x) => irq[c] = 0 /\ active[c] = x

\* The depth the unlock decrements is the number of calls to undo, so the
\* spinlock is released by the outermost vfs_unlock and by no other.
DepthCountsCalls ==
    \A c \in Cpu, x \in Ctx : pc[c][x] = "in" => depth = nest[c][x] /\ owner = c

\* The outermost vfs_unlock gives the CPU back the interrupt flag it had when
\* the outermost vfs_lock was called: g_vfs_flags, one slot per CPU shared by
\* the task and its interrupt handler, never holds the flag of another call.
IrqFlagRestored ==
    \A c \in Cpu : At(c, "restore") => flags[c] = entryIrq[c][active[c]]

\* The lock of the file system: one context inside, with interrupts off, counted
\* exactly, and the interrupt flag of the caller restored.
LockSound ==
    TypeOK /\ MutualExclusion /\ HeldWithIrqOff /\ DepthCountsCalls /\ IrqFlagRestored

-----------------------------------------------------------------------------
(* Proofs about the VFS lock, for any number of CPUs and any nesting.      *)

\* Where a context has interrupts off on its own account.
Masked(c, x) == pc[c][x] \in {"spin", "restore"} \/ InLock(c, x)

\* The interrupt handler's context is idle unless the handler runs.
HandlerIdle ==
    \A c \in Cpu : active[c] = "task" => pc[c]["isr"] = "out" /\ nest[c]["isr"] = 0

\* A masked context is the running one, with interrupts off and its own saved
\* flag in g_vfs_flags.
MaskedRuns ==
    \A c \in Cpu, x \in Ctx :
        Masked(c, x) => irq[c] = 0 /\ active[c] = x /\ flags[c] = entryIrq[c][x]

\* A context on its way in that has not saved the flag yet still has the flag
\* it entered with; when the handler has broken in, that flag was set.
EntryKept ==
    \A c \in Cpu, x \in Ctx :
        pc[c][x] \in {"check", "nested", "save"} /\ nest[c][x] = 0
            => entryIrq[c][x] = IF active[c] = x THEN irq[c] ELSE 1

\* The handler runs, and calls vfs_lock, with interrupts off.
HandlerIrq ==
    \A c \in Cpu : active[c] = "isr" =>
        irq[c] = 0 /\ (pc[c]["isr"] # "out" => entryIrq[c]["isr"] = 0)

\* Somebody inside means the spinlock is taken.
LockTaken == \A c \in Cpu, x \in Ctx : InLock(c, x) => locked = 1

\* The owner field names a CPU only while that CPU is inside.
OwnerInside ==
    \A c \in Cpu : owner = c =>
        \E x \in Ctx : pc[c][x] \in {"count", "disown"} \/ nest[c][x] > 0

\* What the counted calls say about owner, depth and place.
NestMeans ==
    \A c \in Cpu, x \in Ctx :
        /\ nest[c][x] > 0 => /\ depth = nest[c][x]
                             /\ owner = c
                             /\ pc[c][x] \in {"check", "nested", "in"}
        /\ pc[c][x] \in {"nested", "in"} => nest[c][x] > 0
        /\ pc[c][x] \in {"count", "disown"} => owner = c
        /\ pc[c][x] \in {"check", "nested"} => nest[c][x] < MaxNest

IInv ==
    /\ TypeOK
    /\ MutualExclusion
    /\ HandlerIdle
    /\ MaskedRuns
    /\ EntryKept
    /\ HandlerIrq
    /\ LockTaken
    /\ OwnerInside
    /\ NestMeans

LEMMA InitIInv == Init => IInv
BY NestAssumption, CpuAssumption
   DEF Init, IInv, TypeOK, MutualExclusion, HandlerIdle, MaskedRuns, Masked, EntryKept,
       HandlerIrq, LockTaken, OwnerInside, NestMeans, InLock, Holding, Ctx, PC

LEMMA StepIInv == IInv /\ [Next]_vars => IInv'
<1> SUFFICES ASSUME IInv, [Next]_vars PROVE IInv'
  OBVIOUS
<1> USE NestAssumption, CpuAssumption
    DEF IInv, TypeOK, MutualExclusion, HandlerIdle, MaskedRuns, Masked, EntryKept,
        HandlerIrq, LockTaken, OwnerInside, NestMeans, InLock, Holding, Ctx, PC,
        At, Goto
<1>stut. CASE UNCHANGED vars
  BY <1>stut DEF vars
<1>1. ASSUME NEW c \in Cpu, ToggleSyscall(c) PROVE IInv'
  BY <1>1 DEF ToggleSyscall
<1>2. ASSUME NEW c \in Cpu, Interrupt(c) PROVE IInv'
  BY <1>2, SMTT(30) DEF Interrupt
<1>3. ASSUME NEW c \in Cpu, InterruptReturn(c) PROVE IInv'
  BY <1>3, SMTT(30) DEF InterruptReturn
<1>4. ASSUME NEW c \in Cpu, LockCall(c) PROVE IInv'
  BY <1>4, SMTT(30) DEF LockCall
<1>5. ASSUME NEW c \in Cpu, CheckOwner(c) PROVE IInv'
  BY <1>5, SMTT(30) DEF CheckOwner
<1>6. ASSUME NEW c \in Cpu, CheckDepth(c) PROVE IInv'
  <2>a. nest[c][active[c]] > 0 /\ depth = nest[c][active[c]] /\ depth < MaxNest
    BY <1>6, SMTT(30) DEF CheckDepth
  <2>0. /\ depth' = depth + 1
        /\ nest' = [nest EXCEPT ![c][active[c]] = @ + 1]
        /\ pc' = [pc EXCEPT ![c][active[c]] = "in"]
        /\ UNCHANGED <<locked, owner, flags, irq, active, entryIrq>>
    BY <1>6, <2>a, SMTT(30) DEF CheckDepth
  <2>1. TypeOK'
    BY <2>a, <2>0, SMTT(30)
  <2>2. MutualExclusion'
    BY <2>a, <2>0, SMTT(30)
  <2>3. HandlerIdle'
    BY <2>a, <2>0, SMTT(30)
  <2>4. MaskedRuns'
    BY <2>a, <2>0, SMTT(30)
  <2>5. EntryKept'
    BY <2>a, <2>0, SMTT(30)
  <2>6. HandlerIrq'
    BY <2>a, <2>0, SMTT(30)
  <2>7. LockTaken'
    BY <2>a, <2>0
  <2>8. OwnerInside'
    BY <2>a, <2>0
  <2>9. NestMeans'
    BY <2>a, <2>0
  <2>q. QED
    BY <2>1, <2>2, <2>3, <2>4, <2>5, <2>6, <2>7, <2>8, <2>9, SMTT(30)
<1>7. ASSUME NEW c \in Cpu, IrqSave(c) PROVE IInv'
  BY <1>7, SMTT(30) DEF IrqSave
<1>8. ASSUME NEW c \in Cpu, SpinLock(c) PROVE IInv'
  BY <1>8, SMTT(30) DEF SpinLock
<1>9. ASSUME NEW c \in Cpu, SetOwner(c) PROVE IInv'
  BY <1>9, SMTT(30) DEF SetOwner
<1>10. ASSUME NEW c \in Cpu, SetDepth(c) PROVE IInv'
  <2>1. TypeOK'
    BY <1>10, SMTT(30) DEF SetDepth
  <2>2. MutualExclusion'
    BY <1>10, SMTT(30) DEF SetDepth
  <2>3. HandlerIdle'
    BY <1>10, SMTT(30) DEF SetDepth
  <2>4. MaskedRuns'
    BY <1>10, SMTT(30) DEF SetDepth
  <2>5. EntryKept'
    BY <1>10, SMTT(30) DEF SetDepth
  <2>6. HandlerIrq'
    BY <1>10, SMTT(30) DEF SetDepth
  <2>7. LockTaken'
    BY <1>10, SMTT(30) DEF SetDepth
  <2>8. OwnerInside'
    BY <1>10, SMTT(30) DEF SetDepth
  <2>9. NestMeans'
    BY <1>10, SMTT(30) DEF SetDepth
  <2>q. QED
    BY <2>1, <2>2, <2>3, <2>4, <2>5, <2>6, <2>7, <2>8, <2>9
<1>11. ASSUME NEW c \in Cpu, UnlockCall(c) PROVE IInv'
  BY <1>11, SMTT(30) DEF UnlockCall
<1>12. ASSUME NEW c \in Cpu, ClearOwner(c) PROVE IInv'
  BY <1>12, SMTT(30) DEF ClearOwner
<1>13. ASSUME NEW c \in Cpu, SpinUnlock(c) PROVE IInv'
  BY <1>13, SMTT(30) DEF SpinUnlock
<1>14. ASSUME NEW c \in Cpu, IrqRestore(c) PROVE IInv'
  <2>1. TypeOK'
    BY <1>14, SMTT(30) DEF IrqRestore
  <2>2. MutualExclusion'
    BY <1>14, SMTT(30) DEF IrqRestore
  <2>3. HandlerIdle'
    BY <1>14, SMTT(30) DEF IrqRestore
  <2>4. MaskedRuns'
    BY <1>14, SMTT(30) DEF IrqRestore
  <2>5. EntryKept'
    BY <1>14, SMTT(30) DEF IrqRestore
  <2>6. HandlerIrq'
    BY <1>14, SMTT(30) DEF IrqRestore
  <2>7. LockTaken'
    BY <1>14, SMTT(30) DEF IrqRestore
  <2>8. OwnerInside'
    BY <1>14, SMTT(30) DEF IrqRestore
  <2>9. NestMeans'
    BY <1>14 DEF IrqRestore
  <2>q. QED
    BY <2>1, <2>2, <2>3, <2>4, <2>5, <2>6, <2>7, <2>8, <2>9
<1>q. QED
  BY <1>stut, <1>1, <1>2, <1>3, <1>4, <1>5, <1>6, <1>7, <1>8, <1>9, <1>10, <1>11, <1>12, <1>13, <1>14, ZenonT(60) DEF Next, Step

\* vfs_lock/vfs_unlock exclude each other for any number of CPUs: two contexts,
\* of one CPU or of two, are never inside at the same time.
THEOREM MutualExclusionHolds == Spec => []MutualExclusion
<1>1. IInv => MutualExclusion
  BY DEF IInv
<1>q. QED
  BY InitIInv, StepIInv, <1>1, PTL DEF Spec

\* The state stays well typed; in particular g_vfs_depth never underflows.
THEOREM TypeCorrect == Spec => []TypeOK
<1>1. IInv => TypeOK
  BY DEF IInv
<1>q. QED
  BY InitIInv, StepIInv, <1>1, PTL DEF Spec

\* The holder of the lock is the running context of its CPU and has interrupts
\* off, so it is neither preempted nor re-entered while it holds the lock.
THEOREM HeldWithIrqOffHolds == Spec => []HeldWithIrqOff
<1>1. IInv => HeldWithIrqOff
  BY DEF IInv, MaskedRuns, Masked, HeldWithIrqOff
<1>q. QED
  BY InitIInv, StepIInv, <1>1, PTL DEF Spec

\* g_vfs_depth counts the unmatched calls of the context inside, so exactly the
\* outermost vfs_unlock releases the spinlock.
THEOREM DepthCountsCallsHolds == Spec => []DepthCountsCalls
<1>1. IInv => DepthCountsCalls
  BY DEF IInv, NestMeans, DepthCountsCalls
<1>q. QED
  BY InitIInv, StepIInv, <1>1, PTL DEF Spec

\* The outermost vfs_unlock gives the CPU back the interrupt flag with which
\* the outermost vfs_lock of the same context was called.
THEOREM IrqFlagRestoredHolds == Spec => []IrqFlagRestored
<1>1. IInv => IrqFlagRestored
  BY DEF IInv, TypeOK, MaskedRuns, Masked, IrqFlagRestored, At
<1>q. QED
  BY InitIInv, StepIInv, <1>1, PTL DEF Spec

\* The lock of the file system is sound: vfs_lock and vfs_unlock keep all five
\* of the above at once, for any number of CPUs and any depth of nesting.
THEOREM LockSoundHolds == Spec => []LockSound
  BY TypeCorrect, MutualExclusionHolds, HeldWithIrqOffHolds, DepthCountsCallsHolds,
     IrqFlagRestoredHolds, PTL DEF LockSound

============================================================================
