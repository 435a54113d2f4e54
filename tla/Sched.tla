------------------------------- MODULE Sched -------------------------------
(***************************************************************************)
(* The SMP scheduler of kernel/sched/sched.c: per-CPU FIFO run queues, the *)
(* parked slot ap_next, the context switch under g_switch_lock, blocking   *)
(* waitpid and sleep, fork, exit, kill, SIGSTOP/SIGCONT, reaping and the   *)
(* watchdog's re-kick of starved tasks.                                    *)
(*                                                                         *)
(* A CPU is either in user code or in its idle context (pc = "run"), where *)
(* interrupts are on, or inside a kernel entry, where they are off: the    *)
(* other values of pc name the next shared access that entry makes.  A     *)
(* section under one lock is one step unless a store that does not take    *)
(* the lock can fall inside it.                                            *)
(***************************************************************************)
EXTENDS Integers, Sequences, FiniteSets

CONSTANTS
  Bsp,        \* the boot processor: runs the desktop task (pid 0) when idle
  Ap,         \* the application processors: run smp_ap_idle_entry when idle
  Task,       \* the user tasks there is room for
  First,      \* the task sched_create_user makes at boot
  None,       \* no task: NULL, or the desktop on the BSP
  AnyPid,     \* waitpid(-1)
  Workloads,  \* pairs of APs that came up and kernel entries that happen
  SleepMax    \* SLEEP_MAX, the slots of g_sleepers

AllOps == {"fork", "yield", "exit", "wait", "kill", "sleep",
           "stop", "cont", "signal", "corrupt", "starve"}

ASSUME SchedAssumption ==
  /\ Bsp \notin Ap /\ None \notin {Bsp} \cup Ap
  /\ First \in Task /\ None \notin Task /\ AnyPid \notin Task /\ None # AnyPid
  /\ Workloads \subseteq [up : SUBSET Ap, ops : SUBSET AllOps]
  /\ SleepMax \in Nat

Cpu == {Bsp} \cup Ap

VARIABLES
  state,     \* task::state, "absent" before the task is created
  ppid,      \* task::ppid, None for pid 0
  listed,    \* the tasks on g_tasks
  rq,        \* ap_rq_head .. ap_rq_tail of every CPU
  cur,       \* ap_current
  park,      \* ap_next
  waitFor,   \* task::waiting and wait_pid: None when not waiting
  sleepers,  \* the tasks in g_sleepers
  pending,   \* the tasks with a deliverable bit in sig_pending
  starved,   \* the READY tasks not scheduled for HUNG_TASK_TIMEOUT_TICKS
  pc, arg,   \* the kernel entry a CPU is in, and the task it works on
  lock,      \* the holder of each spinlock
  cr3,       \* the task whose PML4 the CPU has loaded, None for the kernel's
  stk,       \* the task on whose kernel stack the CPU runs
  pml4,      \* each task's page tables: "null" once freed by kill, "twice" if again
  kstack,    \* each task's kernel stack: "none", "live", "freed"
  up, ops    \* the APs with ap_up set, and the kernel entries of this behaviour

queues  == <<rq, cur, park>>
memory  == <<cr3, stk, pml4, kstack>>
waits   == <<waitFor, sleepers, pending, starved>>
family  == <<ppid, listed>>
control == <<pc, arg, lock>>
vars    == <<state, queues, memory, waits, family, control>>

Locks == {"switch", "tasks", "sleep"}

Pcs == {"run", "timer", "tick", "preempt", "park", "parked", "away", "after",
        "lock", "commit", "refuse", "leave", "idle", "unrun", "drop", "cr3",
        "yield", "forked", "exit", "exitwoken", "unpark", "mark", "killwake",
        "killwoken", "killfree", "reap", "unlist", "waker", "stopmark",
        "contwoken"}

TypeOK ==
  /\ state \in [Task -> {"absent", "READY", "RUNNING", "BLOCKED", "STOPPED", "ZOMBIE"}]
  /\ ppid \in [Task -> Task \cup {None}]
  /\ listed \subseteq Task /\ sleepers \subseteq Task
  /\ pending \subseteq Task /\ starved \subseteq Task
  /\ rq \in [Cpu -> Seq(Task)]
  /\ cur \in [Cpu -> Task \cup {None}] /\ park \in [Cpu -> Task \cup {None}]
  /\ waitFor \in [Task -> Task \cup {None, AnyPid}]
  /\ pc \in [Cpu -> Pcs] /\ arg \in [Cpu -> Task \cup {None}]
  /\ lock \in [Locks -> Cpu \cup {None}]
  /\ cr3 \in [Cpu -> Task \cup {None}] /\ stk \in [Cpu -> Task \cup {None}]
  /\ pml4 \in [Task -> {"none", "live", "freed", "null", "twice"}]
  /\ kstack \in [Task -> {"none", "live", "freed"}] /\ [up |-> up, ops |-> ops] \in Workloads

(* kmain: sched_init, the APs in their idle loops, then the first user task. *)
Init ==
  /\ state = [t \in Task |-> IF t = First THEN "READY" ELSE "absent"]
  /\ ppid = [t \in Task |-> None]
  /\ listed = {First}
  /\ rq = [c \in Cpu |-> IF c = Bsp THEN <<First>> ELSE <<>>]
  /\ cur = [c \in Cpu |-> None] /\ park = [c \in Cpu |-> None]
  /\ waitFor = [t \in Task |-> None]
  /\ sleepers = {} /\ pending = {} /\ starved = {}
  /\ pc = [c \in Cpu |-> "run"] /\ arg = [c \in Cpu |-> None]
  /\ lock = [l \in Locks |-> None]
  /\ cr3 = [c \in Cpu |-> None] /\ stk = [c \in Cpu |-> None]
  /\ pml4 = [t \in Task |-> IF t = First THEN "live" ELSE "none"]
  /\ kstack = [t \in Task |-> IF t = First THEN "live" ELSE "none"]
  /\ \E w \in Workloads : up = w.up /\ ops = w.ops

-----------------------------------------------------------------------------
(* Helpers *)

At(c, l) == pc[c] = l
Goto(c, l) == pc' = [pc EXCEPT ![c] = l]
InUser(c) == At(c, "run") /\ cur[c] # None
Free(l) == lock[l] = None

SetState(t, s) == state' = [state EXCEPT ![t] = s]

(* The state of the task a CPU leaves: RUNNING falls back to READY. *)
Unrun(c) == [t \in Task |->
  IF t = cur[c] /\ state[t] = "RUNNING" THEN "READY" ELSE state[t]]

Holds(q, t) == \E i \in DOMAIN q : q[i] = t
Queued(t) == \E c \in Cpu : Holds(rq[c], t)
task_running_anywhere(t) == \E c \in Cpu : cur[c] = t

(* Taken from a queue or a parked slot, and not yet ap_current. *)
InFlight(c, t) == arg[c] = t /\ pc[c] \in {"lock", "commit", "refuse"}

(* vmm_free_pml4 of a pointer that kill clears and reap leaves in place. *)
FreePml4(t, left) == [pml4 EXCEPT ![t] =
  CASE @ = "live" -> left [] @ = "null" -> "null" [] OTHER -> "twice"]

rq_push(c, t) == rq' = [rq EXCEPT ![c] = Append(@, t)]
rq_pop(c) == rq' = [rq EXCEPT ![c] = Tail(@)]
rq_push_pop(c, t) == rq' = [rq EXCEPT ![c] = Tail(Append(@, t))]

(* A list without one of its tasks. *)
Without(q, t) ==
  LET k == CHOOSE i \in DOMAIN q : q[i] = t IN
  IF Holds(q, t) THEN [i \in 1..Len(q) - 1 |-> IF i < k THEN q[i] ELSE q[i + 1]] ELSE q
rq_remove(t) == rq' = [c \in Cpu |-> Without(rq[c], t)]

(* The counts are read without the queue locks: a tie goes either way. *)
Load(a) == Len(rq[a]) + (IF cur[a] = None THEN 0 ELSE 1)
smp_least_loaded(me) ==
  IF up = {} THEN {me} ELSE {a \in up : \A b \in up : Load(a) <= Load(b)}

(* The CPU's idle fallback: the desktop through switch_to, or the AP's loop. *)
ToIdle(c) ==
  /\ Goto(c, IF c = Bsp THEN "lock" ELSE "idle")
  /\ arg' = [arg EXCEPT ![c] = None]

-----------------------------------------------------------------------------
(* Faulty variants of the steps below: each breaks one of the properties *)

(* switch_to_idle makes whatever it leaves READY. *)
IdleReadAlways(c) ==
  /\ At(c, "idle")
  /\ Goto(c, IF cur[c] # None THEN "unrun" ELSE "drop")
  /\ UNCHANGED <<state, queues, memory, waits, family, arg, lock>>

(* The tick never preempts. *)
TickUserNoPreempt(c) ==
  /\ At(c, "tick") /\ cur[c] # None
  /\ Goto(c, "after")
  /\ UNCHANGED <<state, queues, memory, waits, family, arg, lock>>

(* A lone yielding task goes to the least-loaded CPU before it is saved. *)
SwitchAfterMigrates(c) ==
  LET q == Append(rq[c], cur[c]) IN
  /\ At(c, "away")
  /\ IF state[cur[c]] = "READY" /\ ~Queued(cur[c]) /\ Head(q) # cur[c]
       THEN /\ arg' = [arg EXCEPT ![c] = Head(q)]
            /\ rq_push_pop(c, cur[c])
            /\ Goto(c, "lock")
       ELSE /\ IF state[cur[c]] = "READY" /\ ~Queued(cur[c])
                 THEN \E a \in smp_least_loaded(c) : rq_push(a, cur[c])
                 ELSE UNCHANGED rq
            /\ ToIdle(c)
  /\ UNCHANGED <<state, cur, park, memory, waits, family, lock>>

(* A lone yielding task is popped by its own push and not parked. *)
SwitchAfterForgets(c) ==
  LET q == Append(rq[c], cur[c]) IN
  /\ At(c, "away")
  /\ IF state[cur[c]] = "READY" /\ ~Queued(cur[c]) /\ Head(q) # cur[c]
       THEN /\ arg' = [arg EXCEPT ![c] = Head(q)]
            /\ rq_push_pop(c, cur[c])
            /\ Goto(c, "lock")
       ELSE ToIdle(c) /\ UNCHANGED rq
  /\ UNCHANGED <<state, cur, park, memory, waits, family, lock>>

(* wake_waiting_parent matches an exact pid only. *)
WakeParentExact(c, woken, done) ==
  LET p == ppid[arg[c]] IN
  /\ Free("tasks")
  /\ IF p \in listed /\ state[p] = "BLOCKED" /\ waitFor[p] = arg[c]
       THEN /\ waitFor' = [waitFor EXCEPT ![p] = None]
            /\ \E a \in smp_least_loaded(c) : rq_push(a, p)
            /\ lock' = [lock EXCEPT !["tasks"] = c]
            /\ Goto(c, woken)
       ELSE Goto(c, done) /\ UNCHANGED <<waitFor, rq, lock>>
  /\ UNCHANGED <<state, cur, park, memory, sleepers, pending, starved, family, arg>>

(* kill frees the page tables of a task that is on a CPU. *)
KillFreeUnchecked(c) ==
  LET t == arg[c] IN
  /\ At(c, "killfree") /\ Free("switch")
  /\ SetState(t, "ZOMBIE")
  /\ pml4' = FreePml4(t, "null")
  /\ arg' = [arg EXCEPT ![c] = None]
  /\ Goto(c, "after")
  /\ UNCHANGED <<queues, cr3, stk, kstack, waits, family, lock>>

-----------------------------------------------------------------------------
(* switch_to(arg[c]) *)

SwitchLock(c) ==
  /\ At(c, "lock")
  /\ IF arg[c] = cur[c]
       THEN Goto(c, "run") /\ UNCHANGED lock
       ELSE /\ Free("switch")
            /\ lock' = [lock EXCEPT !["switch"] = c]
            /\ Goto(c, IF arg[c] # None /\ state[arg[c]] = "ZOMBIE"
                         THEN "refuse" ELSE "commit")
  /\ UNCHANGED <<state, queues, memory, waits, family, arg>>

(* A zombie that was in flight is dropped and the CPU goes idle. *)
SwitchRefuse(c) ==
  /\ At(c, "refuse")
  /\ state' = Unrun(c)
  /\ lock' = [lock EXCEPT !["switch"] = None]
  /\ IF c = Bsp /\ cur[c] = None
       THEN Goto(c, "run") /\ UNCHANGED arg
       ELSE ToIdle(c)
  /\ UNCHANGED <<queues, memory, waits, family>>

SwitchCommit(c) ==
  LET t == arg[c] IN
  /\ At(c, "commit")
  /\ cur' = [cur EXCEPT ![c] = t]
  /\ state' = [u \in Task |-> IF u = t THEN "RUNNING" ELSE Unrun(c)[u]]
  /\ starved' = starved \ {t}
  /\ cr3' = [cr3 EXCEPT ![c] = IF t # None /\ pml4[t] = "null" THEN None ELSE t]
  /\ lock' = [lock EXCEPT !["switch"] = None]
  /\ Goto(c, "leave")
  /\ arg' = [arg EXCEPT ![c] = None]
  /\ UNCHANGED <<rq, park, stk, pml4, kstack, waitFor, sleepers, pending, family>>

(* The interrupt stub loads the returned RSP: only now is the old stack left. *)
LeaveStack(c) ==
  /\ At(c, "leave")
  /\ stk' = [stk EXCEPT ![c] = cur[c]]
  /\ Goto(c, "run")
  /\ UNCHANGED <<state, queues, cr3, pml4, kstack, waits, family, arg, lock>>

-----------------------------------------------------------------------------
(* switch_to_idle: an AP goes back to its idle loop without g_switch_lock *)

IdleRead(c) ==
  /\ At(c, "idle")
  /\ Goto(c, IF cur[c] # None /\ state[cur[c]] = "RUNNING" THEN "unrun" ELSE "drop")
  /\ UNCHANGED <<state, queues, memory, waits, family, arg, lock>>

IdleUnrun(c) ==
  /\ At(c, "unrun")
  /\ SetState(cur[c], "READY")
  /\ Goto(c, "drop")
  /\ UNCHANGED <<queues, memory, waits, family, arg, lock>>

IdleDrop(c) ==
  /\ At(c, "drop")
  /\ cur' = [cur EXCEPT ![c] = None]
  /\ Goto(c, "cr3")
  /\ UNCHANGED <<state, rq, park, memory, waits, family, arg, lock>>

IdleCr3(c) ==
  /\ At(c, "cr3")
  /\ cr3' = [cr3 EXCEPT ![c] = None]
  /\ Goto(c, "leave")
  /\ UNCHANGED <<state, queues, stk, pml4, kstack, waits, family, arg, lock>>

-----------------------------------------------------------------------------
(* sched_tick: the timer, or a reschedule IPI *)

Timer(c) ==
  /\ At(c, "run") /\ c \in {Bsp} \cup up
  /\ Goto(c, IF c = Bsp THEN "timer" ELSE "tick")
  /\ UNCHANGED <<state, queues, memory, waits, family, arg, lock>>

(* The BSP first wakes the sleepers that are due: queue first, ... *)
WakeSleeper(t) ==
  /\ At(Bsp, "timer") /\ Free("sleep") /\ t \in sleepers
  /\ sleepers' = sleepers \ {t}
  /\ IF state[t] = "BLOCKED"
       THEN /\ \E a \in smp_least_loaded(Bsp) : rq_push(a, t)
            /\ lock' = [lock EXCEPT !["sleep"] = Bsp]
            /\ arg' = [arg EXCEPT ![Bsp] = t]
            /\ Goto(Bsp, "waker")
       ELSE UNCHANGED <<rq, lock, arg, pc>>
  /\ UNCHANGED <<state, cur, park, memory, waitFor, pending, starved, family>>

(* ... then the READY store. *)
WakeSleeperReady ==
  /\ At(Bsp, "waker")
  /\ SetState(arg[Bsp], "READY")
  /\ lock' = [lock EXCEPT !["sleep"] = None]
  /\ Goto(Bsp, "timer")
  /\ UNCHANGED <<queues, memory, waits, family, arg>>

(* check_hung_tasks and sched_kick_starved, once a second. *)
KickStarved(t) ==
  /\ At(Bsp, "timer") /\ Free("switch")
  /\ t \in listed \cap starved /\ state[t] = "READY"
  /\ starved' = starved \ {t}
  /\ IF task_running_anywhere(t) \/ Queued(t)
       THEN UNCHANGED rq
       ELSE \E a \in smp_least_loaded(Bsp) : rq_push(a, t)
  /\ UNCHANGED <<state, cur, park, memory, waitFor, sleepers, pending, family, control>>

(* HUNG_TASK_TIMEOUT_TICKS pass: a task waiting on a queue, or one that is
   READY and nowhere, has not been scheduled for so long.  A parked task is
   taken again at the CPU's next tick, so it never waits that long. *)
Starve(t) ==
  /\ "starve" \in ops
  /\ state[t] = "READY" /\ t \in listed /\ t \notin starved
  /\ \A c \in Cpu : park[c] # t /\ cur[c] # t /\ ~InFlight(c, t)
  /\ starved' = starved \cup {t}
  /\ UNCHANGED <<state, queues, memory, waitFor, sleepers, pending, family, control>>

TimerDone ==
  /\ At(Bsp, "timer")
  /\ Goto(Bsp, "tick")
  /\ UNCHANGED <<state, queues, memory, waits, family, arg, lock>>

(* idle_pop: the parked task, then the queue. *)
TickPop(c) ==
  /\ At(c, "tick") /\ cur[c] = None
  /\ \/ /\ park[c] # None
        /\ arg' = [arg EXCEPT ![c] = park[c]]
        /\ park' = [park EXCEPT ![c] = None]
        /\ UNCHANGED rq
     \/ /\ park[c] = None /\ rq[c] # <<>>
        /\ arg' = [arg EXCEPT ![c] = Head(rq[c])]
        /\ rq_pop(c)
        /\ UNCHANGED park
  /\ Goto(c, "lock")
  /\ UNCHANGED <<state, cur, memory, waits, family, lock>>

(* Nothing to run, or the desktop is not in sched_idle_sleep: g_idle_handoff
   is clear and the tick returns to it. *)
TickNothing(c) ==
  /\ At(c, "tick") /\ cur[c] = None
  /\ c = Bsp \/ (park[c] = None /\ rq[c] = <<>>)
  /\ Goto(c, "run")
  /\ UNCHANGED <<state, queues, memory, waits, family, arg, lock>>

TickUser(c) ==
  /\ At(c, "tick") /\ cur[c] # None
  /\ Goto(c, IF cur[c] \in pending THEN "after"
             ELSE IF state[cur[c]] = "RUNNING" THEN "preempt" ELSE "away")
  /\ UNCHANGED <<state, queues, memory, waits, family, arg, lock>>

(* sched_preempt: rotate with the head of the queue, or park. *)
Preempt(c) ==
  /\ At(c, "preempt")
  /\ IF rq[c] # <<>>
       THEN /\ arg' = [arg EXCEPT ![c] = Head(rq[c])]
            /\ rq_push_pop(c, cur[c])
            /\ Goto(c, "lock")
       ELSE Goto(c, "park") /\ UNCHANGED <<rq, arg>>
  /\ UNCHANGED <<state, cur, park, memory, waits, family, lock>>

Park(c) ==
  /\ At(c, "park")
  /\ IF park[c] = None
       THEN /\ park' = [park EXCEPT ![c] = cur[c]]
            /\ Goto(c, "parked") /\ UNCHANGED arg
       ELSE ToIdle(c) /\ UNCHANGED park
  /\ UNCHANGED <<state, rq, cur, memory, waits, family, lock>>

ParkReady(c) ==
  /\ At(c, "parked")
  /\ SetState(cur[c], "READY")
  /\ ToIdle(c)
  /\ UNCHANGED <<queues, memory, waits, family, lock>>

(* sched_after_isr: a pending signal is delivered - without a handler it
   ends the task - then the CPU stays unless the task is not RUNNING. *)
AfterIsr(c) ==
  /\ At(c, "after")
  /\ \/ /\ cur[c] \in pending
        /\ pending' = pending \ {cur[c]}
        /\ \/ /\ SetState(cur[c], "ZOMBIE")
              /\ arg' = [arg EXCEPT ![c] = cur[c]]
              /\ Goto(c, "exit")
           \/ UNCHANGED <<state, arg, pc>>
     \/ /\ cur[c] \notin pending
        /\ Goto(c, IF cur[c] = None \/ state[cur[c]] = "RUNNING" THEN "run" ELSE "away")
        /\ arg' = [arg EXCEPT ![c] = None]
        /\ UNCHANGED <<state, pending>>
  /\ UNCHANGED <<queues, memory, waitFor, sleepers, starved, family, lock>>

(* sched_switch_after: a task that yielded joins the queue, or is parked when
   it is alone; one that a waker has already queued is only left. *)
SwitchAfter(c) ==
  LET q == Append(rq[c], cur[c]) IN
  /\ At(c, "away")
  /\ \/ /\ state[cur[c]] = "READY" /\ ~Queued(cur[c]) /\ Head(q) # cur[c]
        /\ arg' = [arg EXCEPT ![c] = Head(q)]
        /\ rq_push_pop(c, cur[c])
        /\ Goto(c, "lock") /\ UNCHANGED park
     \/ /\ state[cur[c]] = "READY" /\ ~Queued(cur[c]) /\ Head(q) = cur[c]
        /\ park' = [park EXCEPT ![c] = IF @ = None THEN cur[c] ELSE @]
        /\ ToIdle(c) /\ UNCHANGED rq
     \/ /\ state[cur[c]] # "READY" \/ Queued(cur[c])
        /\ ToIdle(c) /\ UNCHANGED <<rq, park>>
  /\ UNCHANGED <<state, cur, memory, waits, family, lock>>

-----------------------------------------------------------------------------
(* Kernel entries of the task running on c *)

(* sched_fork: the child is READY and listed before it is queued. *)
Fork(c, t) ==
  /\ "fork" \in ops /\ InUser(c) /\ state[t] = "absent" /\ Free("tasks")
  /\ SetState(t, "READY")
  /\ ppid' = [ppid EXCEPT ![t] = cur[c]]
  /\ listed' = listed \cup {t}
  /\ pml4' = [pml4 EXCEPT ![t] = "live"]
  /\ kstack' = [kstack EXCEPT ![t] = "live"]
  /\ arg' = [arg EXCEPT ![c] = t]
  /\ Goto(c, "forked")
  /\ UNCHANGED <<queues, cr3, stk, waits, lock>>

ForkQueue(c) ==
  /\ At(c, "forked")
  /\ \E a \in smp_least_loaded(c) : rq_push(a, arg[c])
  /\ Goto(c, "after")
  /\ UNCHANGED <<state, cur, park, memory, waits, family, arg, lock>>

(* sched_yield: the RUNNING test and the READY store are not atomic. *)
Yield(c) ==
  /\ "yield" \in ops /\ InUser(c) /\ state[cur[c]] = "RUNNING"
  /\ Goto(c, "yield")
  /\ UNCHANGED <<state, queues, memory, waits, family, arg, lock>>

YieldReady(c) ==
  /\ At(c, "yield")
  /\ SetState(cur[c], "READY")
  /\ Goto(c, "after")
  /\ UNCHANGED <<queues, memory, waits, family, arg, lock>>

(* sched_sleep_ms: refused to a task killed meanwhile, a no-op when full. *)
Sleep(c) ==
  /\ "sleep" \in ops /\ InUser(c) /\ Free("sleep")
  /\ IF state[cur[c]] # "ZOMBIE" /\ Cardinality(sleepers) < SleepMax
       THEN SetState(cur[c], "BLOCKED") /\ sleepers' = sleepers \cup {cur[c]}
       ELSE UNCHANGED <<state, sleepers>>
  /\ Goto(c, "after")
  /\ UNCHANGED <<queues, memory, waitFor, pending, starved, family, arg, lock>>

(* wake_waiting_parent(arg[c]), g_tasks_lock held from the test to the READY
   store.  woken and done are where the calling entry goes on. *)
WakeParent(c, woken, done) ==
  LET p == ppid[arg[c]] IN
  /\ Free("tasks")
  /\ IF p \in listed /\ state[p] = "BLOCKED" /\ waitFor[p] \in {AnyPid, arg[c]}
       THEN /\ waitFor' = [waitFor EXCEPT ![p] = None]
            /\ \E a \in smp_least_loaded(c) : rq_push(a, p)
            /\ lock' = [lock EXCEPT !["tasks"] = c]
            /\ Goto(c, woken)
       ELSE Goto(c, done) /\ UNCHANGED <<waitFor, rq, lock>>
  /\ UNCHANGED <<state, cur, park, memory, sleepers, pending, starved, family, arg>>

WakeParentReady(c, done) ==
  /\ SetState(ppid[arg[c]], "READY")
  /\ lock' = [lock EXCEPT !["tasks"] = None]
  /\ Goto(c, done)
  /\ UNCHANGED <<queues, memory, waits, family, arg>>

(* sched_exit, also the end of a task that faulted (kill_user_task). *)
Exit(c) ==
  /\ "exit" \in ops /\ InUser(c)
  /\ SetState(cur[c], "ZOMBIE")
  /\ arg' = [arg EXCEPT ![c] = cur[c]]
  /\ Goto(c, "exit")
  /\ UNCHANGED <<queues, memory, waits, family, lock>>

ExitWake(c) == At(c, "exit") /\ WakeParent(c, "exitwoken", "after")
ExitWoken(c) == At(c, "exitwoken") /\ WakeParentReady(c, "after")

(* sched_fault_recover: a corrupt frame makes the task a zombie, and no one
   is woken. *)
FaultRecover(c) ==
  /\ "corrupt" \in ops /\ InUser(c)
  /\ SetState(cur[c], "ZOMBIE")
  /\ ToIdle(c)
  /\ UNCHANGED <<queues, memory, waits, family, lock>>

-----------------------------------------------------------------------------
(* sched_kill *)

Kill(c, t) ==
  /\ "kill" \in ops /\ InUser(c) /\ Free("tasks")
  /\ t \in listed /\ state[t] # "ZOMBIE"
  /\ rq_remove(t)
  /\ arg' = [arg EXCEPT ![c] = t]
  /\ Goto(c, "unpark")
  /\ UNCHANGED <<state, cur, park, memory, waits, family, lock>>

KillUnpark(c) ==
  /\ At(c, "unpark")
  /\ park' = [d \in Cpu |-> IF park[d] = arg[c] THEN None ELSE park[d]]
  /\ Goto(c, "mark")
  /\ UNCHANGED <<state, rq, cur, memory, waits, family, arg, lock>>

KillMark(c) ==
  /\ At(c, "mark")
  /\ SetState(arg[c], "ZOMBIE")
  /\ Goto(c, "killwake")
  /\ UNCHANGED <<queues, memory, waits, family, arg, lock>>

KillWake(c) == At(c, "killwake") /\ WakeParent(c, "killwoken", "killfree")
KillWoken(c) == At(c, "killwoken") /\ WakeParentReady(c, "killfree")

(* Under g_switch_lock: mark again, and free the page tables of a task that
   is on no CPU. *)
KillFree(c) ==
  LET t == arg[c] IN
  /\ At(c, "killfree") /\ Free("switch")
  /\ SetState(t, "ZOMBIE")
  /\ pml4' = IF task_running_anywhere(t) THEN pml4 ELSE FreePml4(t, "null")
  /\ arg' = [arg EXCEPT ![c] = None]
  /\ Goto(c, "after")
  /\ UNCHANGED <<queues, cr3, stk, kstack, waits, family, lock>>

-----------------------------------------------------------------------------
(* sched_signal: SIGSTOP, SIGCONT and the signals that become pending *)

Stop(c, t) ==
  /\ "stop" \in ops /\ InUser(c) /\ Free("tasks")
  /\ t \in listed /\ state[t] # "ZOMBIE"
  /\ rq_remove(t)
  /\ park' = [d \in Cpu |-> IF park[d] = t THEN None ELSE park[d]]
  /\ arg' = [arg EXCEPT ![c] = t]
  /\ Goto(c, "stopmark")
  /\ UNCHANGED <<state, cur, memory, waits, family, lock>>

StopMark(c) ==
  /\ At(c, "stopmark") /\ Free("switch")
  /\ IF state[arg[c]] \in {"RUNNING", "READY"}
       THEN SetState(arg[c], "STOPPED") ELSE UNCHANGED state
  /\ arg' = [arg EXCEPT ![c] = None]
  /\ Goto(c, "after")
  /\ UNCHANGED <<queues, memory, waits, family, lock>>

Cont(c, t) ==
  /\ "cont" \in ops /\ InUser(c) /\ Free("tasks")
  /\ t \in listed /\ state[t] = "STOPPED"
  /\ \E a \in smp_least_loaded(c) : rq_push(a, t)
  /\ arg' = [arg EXCEPT ![c] = t]
  /\ Goto(c, "contwoken")
  /\ UNCHANGED <<state, cur, park, memory, waits, family, lock>>

ContReady(c) ==
  /\ At(c, "contwoken")
  /\ SetState(arg[c], "READY")
  /\ arg' = [arg EXCEPT ![c] = None]
  /\ Goto(c, "after")
  /\ UNCHANGED <<queues, memory, waits, family, lock>>

Signal(c, t) ==
  /\ "signal" \in ops /\ InUser(c) /\ Free("tasks")
  /\ t \in listed /\ state[t] # "ZOMBIE" /\ t \notin pending
  /\ pending' = pending \cup {t}
  /\ Goto(c, "after")
  /\ UNCHANGED <<state, queues, memory, waitFor, sleepers, starved, family, arg, lock>>

-----------------------------------------------------------------------------
(* sched_waitpid and reap *)

(* The decision under g_tasks_lock, for waitpid(w).  A stopped child is
   reported and changes nothing; with no child the call fails. *)
Waitpid(c, w) ==
  LET me == cur[c]
      kids == {t \in listed : ppid[t] = me /\ w \in {AnyPid, t}} IN
  /\ "wait" \in ops /\ InUser(c) /\ Free("tasks") /\ kids # {}
  /\ \/ \E t \in kids :
           /\ state[t] = "ZOMBIE"
           /\ waitFor' = [waitFor EXCEPT ![me] = None]
           /\ arg' = [arg EXCEPT ![c] = t]
           /\ Goto(c, "reap") /\ UNCHANGED state
     \/ /\ \A t \in kids : state[t] \notin {"ZOMBIE", "STOPPED"}
        /\ waitFor' = [waitFor EXCEPT ![me] = w]
        /\ SetState(me, "BLOCKED")
        /\ Goto(c, "after") /\ UNCHANGED arg
  /\ UNCHANGED <<queues, memory, sleepers, pending, starved, family, lock>>

(* The desktop loop's sched_reap_orphans. *)
ReapOrphan(t) ==
  /\ At(Bsp, "run") /\ cur[Bsp] = None
  /\ t \in listed /\ state[t] = "ZOMBIE" /\ ~task_running_anywhere(t)
  /\ ppid[t] \notin listed
  /\ arg' = [arg EXCEPT ![Bsp] = t]
  /\ Goto(Bsp, "reap")
  /\ UNCHANGED <<state, queues, memory, waits, family, lock>>

(* reap, under g_switch_lock; given up while the task is on some CPU. *)
Reap(c) ==
  LET t == arg[c] IN
  /\ At(c, "reap") /\ Free("switch")
  /\ IF task_running_anywhere(t)
       THEN Goto(c, "after") /\ UNCHANGED <<pml4, kstack>>
       ELSE /\ pml4' = FreePml4(t, "freed")
            /\ kstack' = [kstack EXCEPT ![t] = "freed"]
            /\ Goto(c, "unlist")
  /\ UNCHANGED <<state, queues, cr3, stk, waits, family, arg, lock>>

ReapUnlist(c) ==
  /\ At(c, "unlist") /\ Free("tasks")
  /\ listed' = listed \ {arg[c]}
  /\ arg' = [arg EXCEPT ![c] = None]
  /\ Goto(c, "after")
  /\ UNCHANGED <<state, queues, memory, waits, ppid, lock>>

-----------------------------------------------------------------------------

Scheduling(c) ==
  \/ SwitchLock(c) \/ SwitchRefuse(c) \/ SwitchCommit(c) \/ LeaveStack(c)
  \/ IdleRead(c) \/ IdleUnrun(c) \/ IdleDrop(c) \/ IdleCr3(c)
  \/ TickPop(c) \/ TickNothing(c) \/ TickUser(c) \/ Preempt(c) \/ Park(c) \/ ParkReady(c)
  \/ AfterIsr(c) \/ SwitchAfter(c)
  \/ ForkQueue(c) \/ YieldReady(c) \/ ExitWake(c) \/ ExitWoken(c)
  \/ KillUnpark(c) \/ KillMark(c) \/ KillWake(c) \/ KillWoken(c) \/ KillFree(c)
  \/ StopMark(c) \/ ContReady(c) \/ Reap(c) \/ ReapUnlist(c)
  \/ c = Bsp /\ (WakeSleeperReady \/ TimerDone)

Entry(c) ==
  \/ Yield(c) \/ Sleep(c) \/ Exit(c) \/ FaultRecover(c)
  \/ \E t \in Task : Fork(c, t) \/ Kill(c, t) \/ Stop(c, t) \/ Cont(c, t) \/ Signal(c, t)
  \/ \E w \in Task \cup {AnyPid} : Waitpid(c, w)

Next ==
  /\ \/ \E c \in Cpu : Timer(c) \/ Scheduling(c) \/ Entry(c)
     \/ \E t \in Task : WakeSleeper(t) \/ KickStarved(t) \/ Starve(t) \/ ReapOrphan(t)
  /\ UNCHANGED <<up, ops>>

Spec == Init /\ [][Next]_<<vars, up, ops>>

-----------------------------------------------------------------------------
(* Properties *)

(* sched.c 472 and 985: "a task is running, parked, or on exactly one queue".
   The claims on a task are the places from which a CPU comes to run it: a
   queue, a parked slot, or a switch that has taken it from one of these. *)
QueueClaims(t) == UNION {{c} \X {i \in DOMAIN rq[c] : rq[c][i] = t} : c \in Cpu}
ParkClaims(t) == {<<c, 0>> : c \in {d \in Cpu : park[d] = t}}
FlightClaims(t) == {<<c, -1>> : c \in {d \in Cpu : InFlight(d, t)}}
Claims(t) == QueueClaims(t) \cup ParkClaims(t) \cup FlightClaims(t)

(* At most one claim, and while a CPU still runs the task the claim is that
   CPU's own, so no other CPU can resume the frame it has not yet saved. *)
OnePlace ==
  \A t \in Task :
    /\ \A x, y \in Claims(t) : x = y
    /\ \A c \in Cpu : cur[c] = t => \A x \in Claims(t) : x[1] = c

(* sched.c 986: "the same task can never run on two CPUs", neither as
   ap_current nor on its kernel stack while one of them is leaving it. *)
OneCpu ==
  \A c, d \in Cpu : c # d =>
    /\ cur[c] # None => cur[c] # cur[d]
    /\ stk[c] # None => stk[c] # stk[d]

(* No entry of S happens, or there is no other CPU for it to race with. *)
Unraced(S) == up = {} \/ ops \cap S = {}

(* The entries that queue a task without knowing that its CPU has left it. *)
Wakers == {"wait", "sleep", "cont", "starve"}

(* sched.c 981-986: without a waker on another CPU, a task is in one place and
   on one CPU. *)
OneRunner == Unraced(Wakers) => OnePlace /\ OneCpu

(* No runnable task vanishes from the scheduler (sched.c 525): a READY task
   has a claim, is still on a CPU or is being placed, stopped or killed by
   one, and a RUNNING task is on a CPU. *)
NoLostTask ==
  Unraced(Wakers \cup {"kill", "stop"}) =>
    \A t \in listed :
      /\ state[t] = "READY" =>
           Claims(t) # {} \/ \E c \in Cpu : cur[c] = t \/ arg[c] = t
      /\ state[t] = "RUNNING" => task_running_anywhere(t)

(* switch_to, sched.c 881-889: no CPU resumes a task whose kernel stack or
   page tables kill or reap have freed, and no page tables are freed twice. *)
ResumeLive ==
  Unraced(Wakers \cup {"kill"}) =>
    /\ \A c \in Cpu : cur[c] # None => kstack[cur[c]] = "live" /\ pml4[cur[c]] = "live"
    /\ \A t \in Task : pml4[t] # "twice"

(* sched.c 1379-1381 and 1506-1511: on one CPU, neither the stack the CPU
   executes on nor the page tables in its CR3 are freed. *)
StandsOnLive ==
  up = {} =>
    /\ \A c \in Cpu : stk[c] # None => kstack[stk[c]] = "live"
    /\ \A c \in Cpu : cr3[c] # None => pml4[cr3[c]] = "live"

(* No CPU runs on memory of a task that was given back: neither what it stands
   on nor what it is about to resume (sched.c 881-889, 1379-1381, 1506-1511). *)
MemoryLive == TypeOK /\ StandsOnLive /\ ResumeLive

(* sched.c 325-329: a task that is dead stays dead. *)
ZombieForever ==
  [][Unraced(Wakers \cup {"kill"}) =>
       \A t \in Task : state[t] = "ZOMBIE" => state'[t] = "ZOMBIE"]_vars

(* sched.c 1551-1553, "there is no lost-wakeup race": a parent blocked in
   waitpid while a child it waits for is dead has its wake-up on the way.  Of
   a child that sched_fault_recover ended nobody is told. *)
WakeOnTheWay ==
  Unraced((Wakers \ {"wait"}) \cup {"kill"}) /\ "corrupt" \notin ops =>
    \A p, t \in Task :
      /\ p \in listed /\ t \in listed /\ ppid[t] = p
      /\ state[p] = "BLOCKED" /\ waitFor[p] \in {AnyPid, t} /\ state[t] = "ZOMBIE"
      => \E c \in Cpu : arg[c] = t /\ pc[c] \in {"exit", "killwake"}

Fairness ==
  /\ \A c \in Cpu : SF_vars(Scheduling(c)) /\ SF_vars(Timer(c))
  /\ SF_vars(TickPop(Bsp))
  /\ \A t \in Task : SF_vars(WakeSleeper(t))

FairSpec == Spec /\ Fairness

(* Every READY task gets a CPU, or is stopped or killed first. *)
ReadyRuns ==
  \A t \in Task : state[t] = "READY" ~> (task_running_anywhere(t) \/ state[t] # "READY")

(* A parent blocked in waitpid gets a CPU once a child it waits for is dead. *)
WaiterRuns ==
  \A p \in Task : \A t \in Task \ {p} :
    (/\ state[p] = "BLOCKED" /\ waitFor[p] \in {AnyPid, t}
     /\ t \in listed /\ ppid[t] = p /\ state[t] = "ZOMBIE")
      ~> (task_running_anywhere(p) \/ state[p] = "ZOMBIE")

=============================================================================
