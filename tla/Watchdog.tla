----------------------------- MODULE Watchdog -------------------------------
(***************************************************************************)
(* The service watchdog of kernel/sched/watchdog.c, with those who kick it *)
(* (kmain's loop and the compositor's system calls, which share one index) *)
(* and what its tick does besides: re-queue a task that was lost, and      *)
(* write dirty files back.  Times are ages, in ticks of the watchdog, and  *)
(* stop growing where no comparison tells them apart.                      *)
(***************************************************************************)
EXTENDS Integers

CONSTANTS
  Slot,      \* WATCHDOG_MAX_SERVICES indices
  KickTimeout,   \* WATCHDOG_TIMEOUT_TICKS
  Hung,      \* HUNG_TASK_TIMEOUT_TICKS
  Writeback  \* ticks between two writebacks

VARIABLES
  reg,       \* slots that are registered
  idx,       \* g_desktop_wd: the slot of "wm", or -1
  age,       \* now - last_kick of each slot
  loop,      \* kmain's loop: "runs", or "stuck" in one of its calls
  wm,        \* the compositor: "runs", or "hung" without system calls
  task,      \* a user process: [state, queued, age]
  dirty,     \* some file is dirty
  wbAge,     \* now - g_last_wb
  reset      \* wm_reset ran in the last step

vars == <<reg, idx, age, loop, wm, task, dirty, wbAge, reset>>

Init ==
  /\ reg = {} /\ idx = -1 /\ age = [s \in Slot |-> 0]
  /\ loop = "runs" /\ wm = "runs"
  /\ task = [state |-> "ready", queued |-> TRUE, age |-> 0]
  /\ dirty = FALSE /\ wbAge = 0 /\ reset = FALSE

Older(a, limit) == IF a > limit THEN a ELSE a + 1

-----------------------------------------------------------------------------
(* Faulty variants of the definitions below: each breaks one of the properties *)

(* A service is stalled at the timeout, not past it. *)
StalledEarly(a) == a >= KickTimeout

(* A starved task is not put on a queue again. *)
KickStarvedOnly(t) == [t EXCEPT !.age = 0]

-----------------------------------------------------------------------------
(* watchdog_register_service: the first free slot *)
Register ==
  /\ idx = -1 /\ Slot \ reg # {}
  /\ idx' = (CHOOSE s \in Slot \ reg : \A r \in Slot \ reg : s <= r)
  /\ reg' = reg \cup {idx'} /\ age' = [age EXCEPT ![idx'] = 0] /\ reset' = FALSE
  /\ UNCHANGED <<loop, wm, task, dirty, wbAge>>

(* watchdog_unregister *)
Unregister ==
  /\ idx # -1 /\ reg' = reg \ {idx} /\ idx' = -1 /\ reset' = FALSE
  /\ UNCHANGED <<age, loop, wm, task, dirty, wbAge>>

(* watchdog_kick: one store, without the lock *)
Kick == IF idx = -1 THEN age ELSE [age EXCEPT ![idx] = 0]

(* One turn of kmain's loop: a kick, and a sync *)
MainLoop ==
  /\ loop = "runs" /\ age' = Kick /\ reset' = FALSE /\ dirty' \in {dirty, FALSE}
  /\ UNCHANGED <<reg, idx, loop, wm, task, wbAge>>

(* A system call of the compositor *)
WmCall ==
  /\ wm = "runs" /\ age' = Kick /\ reset' = FALSE
  /\ UNCHANGED <<reg, idx, loop, wm, task, dirty, wbAge>>

-----------------------------------------------------------------------------
(* check_services *)
Stalled(a) == a > KickTimeout
Late == {s \in reg : Stalled(age[s])}

(* check_hung_tasks and sched_kick_starved *)
KickStarved(t) == [t EXCEPT !.queued = TRUE, !.age = 0]
Starved == task.state = "ready" /\ task.age > Hung

(* watchdog_tick, once a second on the first CPU *)
Tick ==
  /\ age' = [s \in Slot |-> IF s \in Late THEN 0 ELSE Older(age[s], KickTimeout)]
  /\ reset' = (Late # {})
  /\ task' = IF Starved THEN KickStarved(task) ELSE [task EXCEPT !.age = Older(@, Hung)]
  /\ IF wbAge >= Writeback THEN wbAge' = 0 /\ dirty' = FALSE
     ELSE wbAge' = wbAge + 1 /\ UNCHANGED dirty
  /\ UNCHANGED <<reg, idx, loop, wm>>

-----------------------------------------------------------------------------
(* The scheduler: a queued task runs and is queued again *)
Schedule ==
  /\ task.state = "ready" /\ task.queued
  /\ task' = [task EXCEPT !.age = 0] /\ reset' = FALSE
  /\ UNCHANGED <<reg, idx, age, loop, wm, dirty, wbAge>>

(* What the watchdog is there for *)
Stick == loop = "runs" /\ loop' = "stuck" /\ UNCHANGED wm
Hang == wm = "runs" /\ wm' = "hung" /\ UNCHANGED loop
Fault ==
  /\ Stick \/ Hang
  /\ reset' = FALSE /\ UNCHANGED <<reg, idx, age, task, dirty, wbAge>>
Lose ==
  /\ task.queued /\ task' = [task EXCEPT !.queued = FALSE] /\ reset' = FALSE
  /\ UNCHANGED <<reg, idx, age, loop, wm, dirty, wbAge>>
Write ==
  /\ ~dirty /\ dirty' = TRUE /\ reset' = FALSE
  /\ UNCHANGED <<reg, idx, age, loop, wm, task, wbAge>>

Next ==
  \/ Register \/ Unregister \/ MainLoop \/ WmCall \/ Tick \/ Schedule \/ Fault \/ Lose \/ Write

Spec == Init /\ [][Next]_vars

(* The timer of the first CPU goes on, and kmain's loop runs while it is not stuck. *)
FairSpec == Spec /\ WF_vars(Tick) /\ WF_vars(MainLoop)

-----------------------------------------------------------------------------
(* Of every step: a tick resets the desktop only when the timeout has gone by with no kick, from
   the loop or from the compositor. *)
NoFalseReset == reset' => \E s \in reg : age[s] > KickTimeout

(* What the tick is there to end: a task that was lost, and files that are not on
   the disk, even when kmain's loop is stuck. *)
TaskLost == ~task.queued
Dirty == dirty

(* "invokes wm_reset()": a compositor that hangs is reset. *)
HungDesktopReset == (wm = "hung" /\ idx # -1) ~> (reset \/ idx = -1)
=============================================================================
