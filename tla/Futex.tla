-------------------------------- MODULE Futex --------------------------------
(***************************************************************************)
(* The futex wait table (sched.c 71-149), the system call in front of it   *)
(* (linux_futex, syscall.c 2888-2908) and the wake-up a dying thread sends *)
(* (clear_child_tid, sched.c 1334-1340), under threads that use them the   *)
(* way a C library does: sleep while a word has not changed; change it and *)
(* then wake.                                                              *)
(*                                                                         *)
(* A word is 0 until it changes, then 1.  "run" stands for RUNNING and     *)
(* READY: Sched.tla models what happens between the two.                   *)
(***************************************************************************)
EXTENDS Integers, FiniteSets

CONSTANTS
  Thread,
  Proc,        \* address spaces
  ProcOf,      \* the address space of every thread
  Addr,        \* user addresses of futex words
  Tid,         \* the one that clear_child_tid names
  None,        \* a NULL g_futex_waiter
  FutexMax,    \* FUTEX_MAX, slots of the table
  WakeMax,     \* the val of FUTEX_WAKE
  Smp          \* 1 when threads run on several CPUs, 0 on one

VARIABLES
  word,      \* the futex words of every address space
  waiter,    \* g_futex_waiter
  key,       \* g_futex_addr
  st,        \* "run", "blocked" or "dead"
  pc,        \* where a thread is in the protocol
  at         \* and the address it is there for

vars == <<word, waiter, key, st, pc, at>>

Slot == 1 .. FutexMax

TypeOK ==
  /\ word \in [Proc -> [Addr -> {0, 1}]]
  /\ waiter \in [Slot -> Thread \cup {None}]
  /\ key \in [Slot -> Addr]
  /\ st \in [Thread -> {"run", "blocked", "dead"}]
  /\ pc \in [Thread -> {"user", "wait", "wake", "exit"}]
  /\ at \in [Thread -> Addr]

Init ==
  /\ word = [p \in Proc |-> [a \in Addr |-> 0]]
  /\ waiter = [i \in Slot |-> None]
  /\ key = [i \in Slot |-> Tid]
  /\ st = [t \in Thread |-> "run"]
  /\ pc = [t \in Thread |-> "user"]
  /\ at = [t \in Thread |-> Tid]

(* System calls run with interrupts off: on one CPU nothing comes between the
   two halves of a FUTEX_WAIT. *)
MayStep(t) == Smp = 1 \/ \A u \in Thread \ {t} : pc[u] # "wait"

InUser(t) == st[t] = "run" /\ pc[t] = "user" /\ MayStep(t)

WordOf(t, a) == word[ProcOf[t]][a]

-----------------------------------------------------------------------------
(* Slots in table order *)

Free == {i \in Slot : waiter[i] = None}
Matching(a) == {i \in Slot : waiter[i] # None /\ key[i] = a}
Blocked(a) == {i \in Matching(a) : st[waiter[i]] = "blocked"}

(* Faulty: the loop runs one waiter short. *)
VisitedShort(a, max) ==
  {i \in Matching(a) : Cardinality({j \in Blocked(a) : j < i}) < max - 1}

(* The slots a wake of at most max waiters visits: it stops after max. *)
Visited(a, max) ==
  {i \in Matching(a) : Cardinality({j \in Blocked(a) : j < i}) < max}

(* Faulty: the slots are cleared, and the dead come back to life. *)
WakeSlotsDead(V) ==
  /\ waiter' = [i \in Slot |-> IF i \in V THEN None ELSE waiter[i]]
  /\ st' = [t \in Thread |-> IF \E i \in V : waiter[i] = t THEN "run" ELSE st[t]]

(* Threads of visited slots run again; the slots are cleared. *)
WakeSlots(V) ==
  /\ waiter' = [i \in Slot |-> IF i \in V THEN None ELSE waiter[i]]
  /\ st' = [t \in Thread |->
       IF st[t] = "blocked" /\ \E i \in V : waiter[i] = t THEN "run" ELSE st[t]]

-----------------------------------------------------------------------------
(* How many sleepers the next change of a word wakes, and who sleeps or is about
   to: clients let no more threads sleep on a word than that. *)
WakeCount(a) == IF a = Tid THEN 1 ELSE WakeMax

Sleepers(p, a) ==
  {t \in Thread : /\ ProcOf[t] = p
                  /\ \/ pc[t] = "wait" /\ at[t] = a
                     \/ st[t] = "blocked" /\ \E i \in Slot : waiter[i] = t /\ key[i] = a}

(* FUTEX_WAIT: linux_futex compares the word, then sched_futex_wait takes the
   table lock. *)

linux_futex_wait(t, a) ==
  /\ InUser(t) /\ WordOf(t, a) = 0
  /\ Cardinality(Sleepers(ProcOf[t], a)) < WakeCount(a)
  /\ pc' = [pc EXCEPT ![t] = "wait"] /\ at' = [at EXCEPT ![t] = a]
  /\ UNCHANGED <<word, waiter, key, st>>

(* Faulty: blocks although the table is full. *)
sched_futex_wait_full(t) ==
  /\ pc[t] = "wait"
  /\ pc' = [pc EXCEPT ![t] = "user"]
  /\ IF st[t] = "dead" THEN UNCHANGED <<waiter, key, st>>
     ELSE /\ st' = [st EXCEPT ![t] = "blocked"]
          /\ IF Free = {} THEN UNCHANGED <<waiter, key>>
             ELSE LET i == CHOOSE i \in Free : \A j \in Free : i <= j IN
                  /\ waiter' = [waiter EXCEPT ![i] = t]
                  /\ key' = [key EXCEPT ![i] = at[t]]
  /\ UNCHANGED <<word, at>>

(* Faulty: the scan runs one slot past the end of a full table. *)
sched_futex_wait_past(t) ==
  /\ pc[t] = "wait"
  /\ pc' = [pc EXCEPT ![t] = "user"]
  /\ IF st[t] = "dead" THEN UNCHANGED <<waiter, key, st>>
     ELSE LET i == CHOOSE i \in Free \cup {FutexMax + 1} : \A j \in Free : i <= j IN
          /\ waiter' = [j \in Slot \cup {i} |-> IF j = i THEN t ELSE waiter[j]]
          /\ key' = [j \in Slot \cup {i} |-> IF j = i THEN at[t] ELSE key[j]]
          /\ st' = [st EXCEPT ![t] = "blocked"]
  /\ UNCHANGED <<word, at>>

(* A killed caller, and one that finds the table full, return at once. *)
sched_futex_wait(t) ==
  /\ pc[t] = "wait"
  /\ pc' = [pc EXCEPT ![t] = "user"]
  /\ IF st[t] = "dead" \/ Free = {} THEN UNCHANGED <<waiter, key, st>>
     ELSE LET i == CHOOSE i \in Free : \A j \in Free : i <= j IN
          /\ waiter' = [waiter EXCEPT ![i] = t]
          /\ key' = [key EXCEPT ![i] = at[t]]
          /\ st' = [st EXCEPT ![t] = "blocked"]
  /\ UNCHANGED <<word, at>>

-----------------------------------------------------------------------------
(* Changing a word and waking *)

(* External: the C library changes a word, and will then call FUTEX_WAKE. *)
Store(t, a) ==
  /\ InUser(t) /\ a # Tid /\ WordOf(t, a) = 0
  /\ word' = [word EXCEPT ![ProcOf[t]][a] = 1]
  /\ pc' = [pc EXCEPT ![t] = "wake"] /\ at' = [at EXCEPT ![t] = a]
  /\ UNCHANGED <<waiter, key, st>>

sched_futex_wake(t) ==
  /\ pc[t] = "wake" /\ MayStep(t)
  /\ WakeSlots(Visited(at[t], WakeMax))
  /\ pc' = [pc EXCEPT ![t] = "user"]
  /\ UNCHANGED <<word, key, at>>

(* sched_exit: clear the tid word, wake one joiner, become a zombie. *)
ExitClearTid(t) ==
  /\ InUser(t)
  /\ word' = [word EXCEPT ![ProcOf[t]][Tid] = 1]
  /\ pc' = [pc EXCEPT ![t] = "exit"] /\ at' = [at EXCEPT ![t] = Tid]
  /\ UNCHANGED <<waiter, key, st>>

(* The zombie store follows the wake. *)
ExitWake(t) ==
  LET V == Visited(Tid, 1) IN
  /\ pc[t] = "exit"
  /\ waiter' = [i \in Slot |-> IF i \in V THEN None ELSE waiter[i]]
  /\ st' = [u \in Thread |->
       IF u = t THEN "dead"
       ELSE IF st[u] = "blocked" /\ \E i \in V : waiter[i] = u THEN "run"
       ELSE st[u]]
  /\ pc' = [pc EXCEPT ![t] = "user"]
  /\ UNCHANGED <<word, key, at>>

(* FUTEX_REQUEUE by a thread that holds the mutex at b: wake one waiter of a
   and move the others to b. *)
sched_futex_requeue(t, a, b) ==
  LET V == Visited(a, 1) IN
  /\ InUser(t) /\ a # b /\ Tid \notin {a, b} /\ WordOf(t, b) = 0
  /\ WakeSlots(V)
  /\ key' = [i \in Slot |-> IF i \in Matching(a) \ V THEN b ELSE key[i]]
  /\ UNCHANGED <<word, pc, at>>

(* sched_kill of a thread that owes nobody a wake; its slot stays behind. *)
sched_kill(t) ==
  /\ st[t] \in {"run", "blocked"} /\ pc[t] \in {"user", "wait"} /\ MayStep(t)
  /\ Smp = 1 \/ pc[t] = "user"
  /\ st' = [st EXCEPT ![t] = "dead"]
  /\ UNCHANGED <<word, waiter, key, pc, at>>

Next ==
  \E t \in Thread :
    \/ \E a \in Addr : linux_futex_wait(t, a) \/ Store(t, a)
    \/ \E a, b \in Addr : sched_futex_requeue(t, a, b)
    \/ sched_futex_wait(t) \/ sched_futex_wake(t)
    \/ ExitClearTid(t) \/ ExitWake(t) \/ sched_kill(t)

Spec == Init /\ [][Next]_vars

-----------------------------------------------------------------------------
(* Properties *)

(* No lost wake-up (sched.h 189-190, sched.c 72-73).  When a thread sleeps on
   a word that has changed, a thread of its process still owes it a wake-up. *)
WaiterWoken ==
  \A i \in Slot :
    LET t == waiter[i] IN
    t # None /\ st[t] = "blocked" /\ WordOf(t, key[i]) = 1
    => \E u \in Thread : /\ ProcOf[u] = ProcOf[t]
                        /\ pc[u] \in {"wake", "exit"} /\ at[u] = key[i]

(* A sleeper is in exactly one slot of the table, so a waker can find it
   (sched.c 81-95); and a slot holds a sleeper or a dead thread, never one that
   runs, so a wake on a stale slot takes no thread out of a later wait
   (sched.c 100-121). *)
SlotsExact ==
  /\ \A t \in Thread :
       st[t] = "blocked" => Cardinality({i \in Slot : waiter[i] = t}) = 1
  /\ \A i \in Slot : waiter[i] # None => st[waiter[i]] # "run"

(* Of every step: a wake-up never revives a killed thread: the wake path tests BLOCKED
   (sched.c 108). *)
DeadStaysDead ==
  \A t \in Thread : st[t] = "dead" => st'[t] = "dead"
=============================================================================
