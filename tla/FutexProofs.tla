----------------------------- MODULE FutexProofs -----------------------------
(***************************************************************************)
(* The futex table names every sleeper once and never a thread that runs,  *)
(* and no wake-up revives the dead, for any number of threads, processes,  *)
(* words and slots, on one CPU and on several.                             *)
(***************************************************************************)
EXTENDS Futex, FiniteSetTheorems, WellFoundedInduction, TLAPS

FutexType ==
  /\ waiter \in [Slot -> Thread \cup {None}]
  /\ st \in [Thread -> {"run", "blocked", "dead"}]
  /\ pc \in [Thread -> {"user", "wait", "wake", "exit"}]

OnlySlot(t, i) == waiter[i] = t /\ \A j \in Slot : waiter[j] = t => j = i

(* SlotsExact without cardinalities; and a thread inside a futex call is not
   asleep, so the slot it takes is its only one. *)
FutexInv ==
  /\ FutexType
  /\ \A t \in Thread : pc[t] # "user" => st[t] # "blocked"
  /\ \A t \in Thread : st[t] = "blocked" => \E i \in Slot : OnlySlot(t, i)
  /\ \A i \in Slot : waiter[i] # None => st[waiter[i]] # "run"

-----------------------------------------------------------------------------
(* The first of some slots is one of them. *)
LEMMA FirstOf ==
  ASSUME NEW T \in SUBSET Nat, T # {}
  PROVE  (CHOOSE i \in T : \A j \in T : i <= j) \in T
<1>1. PICK x \in T : \A y \in T : ~ (<<y, x>> \in OpToRel(<, Nat))
  BY WFMin, NatLessThanWellFounded
<1>2. \A y \in T : x <= y
  <2>1. ASSUME NEW y \in T
        PROVE  x <= y
    <3>1. x \in Nat /\ y \in Nat
      OBVIOUS
    <3>2. ~(y < x)
      BY <1>1, <3>1, Zenon DEF OpToRel
    <3>. QED BY <3>1, <3>2
  <2>. QED BY <2>1
<1>. QED BY <1>2, Zenon

(* What a wake of any set of slots keeps. *)
LEMMA WakeKeeps ==
  ASSUME None \notin Thread, FutexInv, NEW V \in SUBSET Slot, WakeSlots(V),
         pc' \in [Thread -> {"user", "wait", "wake", "exit"}],
         \A t \in Thread : pc'[t] # "user" => pc[t] # "user"
  PROVE  FutexInv' /\ \A t \in Thread : st[t] = "dead" => st'[t] = "dead"
<1>. USE DEF FutexInv, FutexType, WakeSlots, OnlySlot
<1>1. FutexType'
  OBVIOUS
<1>2. ASSUME NEW t \in Thread
      PROVE  st'[t] = "blocked" => st[t] = "blocked" /\ ~ \E i \in V : waiter[i] = t
  OBVIOUS
<1>3. ASSUME NEW t \in Thread, st'[t] = "blocked"
      PROVE  \E i \in Slot : OnlySlot(t, i)'
  <2>1. PICK i \in Slot : OnlySlot(t, i)
    BY <1>2, <1>3
  <2>2. OnlySlot(t, i)'
    BY <1>2, <1>3, <2>1
  <2>. QED BY <2>2
<1>4. ASSUME NEW i \in Slot, waiter'[i] # None
      PROVE  st'[waiter'[i]] # "run"
  <2>1. i \notin V /\ waiter'[i] = waiter[i] /\ waiter[i] \in Thread /\ st[waiter[i]] # "run"
    BY <1>4
  <2>2. CASE st[waiter[i]] = "blocked"
    <3>1. PICK k \in Slot : OnlySlot(waiter[i], k)
      BY <2>1, <2>2
    <3>2. ~ \E j \in V : waiter[j] = waiter[i]
      BY <2>1, <3>1
    <3>. QED BY <2>1, <2>2, <3>2
  <2>3. CASE st[waiter[i]] = "dead"
    BY <2>1, <2>3
  <2>. QED BY <2>1, <2>2, <2>3
<1>5. \A t \in Thread : st[t] = "dead" => st'[t] = "dead"
  OBVIOUS
<1>6. \A t \in Thread : pc'[t] # "user" => st'[t] # "blocked"
  BY <1>2
<1>. QED BY <1>1, <1>3, <1>4, <1>5, <1>6

LEMMA ExitKeeps ==
  ASSUME None \notin Thread, FutexInv, NEW t \in Thread, ExitWake(t)
  PROVE  FutexInv' /\ \A u \in Thread : st[u] = "dead" => st'[u] = "dead"
<1>. DEFINE V == Visited(Tid, 1)
<1>1. V \subseteq Slot
  BY DEF Visited, Matching
<1>2. /\ waiter' = [i \in Slot |-> IF i \in V THEN None ELSE waiter[i]]
      /\ st' = [u \in Thread |->
           IF u = t THEN "dead"
           ELSE IF st[u] = "blocked" /\ \E i \in V : waiter[i] = u THEN "run"
           ELSE st[u]]
      /\ pc' = [pc EXCEPT ![t] = "user"]
  BY DEF ExitWake
<1>. HIDE DEF V
<1>. USE DEF FutexInv, FutexType, OnlySlot
<1>3. FutexType'
  BY <1>2
<1>4. ASSUME NEW u \in Thread
      PROVE  st'[u] = "blocked" =>
               u # t /\ st[u] = "blocked" /\ ~ \E i \in V : waiter[i] = u
  BY <1>2
<1>5. ASSUME NEW u \in Thread, st'[u] = "blocked"
      PROVE  \E i \in Slot : OnlySlot(u, i)'
  <2>1. PICK i \in Slot : OnlySlot(u, i)
    BY <1>4, <1>5
  <2>2. OnlySlot(u, i)'
    BY <1>2, <1>4, <1>5, <2>1
  <2>. QED BY <2>2
<1>6. ASSUME NEW i \in Slot, waiter'[i] # None
      PROVE  st'[waiter'[i]] # "run"
  <2>1. i \notin V /\ waiter'[i] = waiter[i] /\ waiter[i] \in Thread /\ st[waiter[i]] # "run"
    BY <1>2, <1>6
  <2>2. CASE st[waiter[i]] = "blocked"
    <3>1. PICK k \in Slot : OnlySlot(waiter[i], k)
      BY <2>1, <2>2
    <3>2. ~ \E j \in V : waiter[j] = waiter[i]
      BY <1>1, <2>1, <3>1
    <3>. QED BY <1>2, <2>1, <2>2, <3>2
  <2>3. CASE st[waiter[i]] = "dead"
    BY <1>2, <2>1, <2>3
  <2>. QED BY <2>1, <2>2, <2>3
<1>7. \A u \in Thread : st[u] = "dead" => st'[u] = "dead"
  BY <1>2
<1>8. \A u \in Thread : pc'[u] # "user" => st'[u] # "blocked"
  BY <1>2, <1>4
<1>. QED BY <1>3, <1>5, <1>6, <1>7, <1>8

LEMMA WaitKeeps ==
  ASSUME None \notin Thread, FutexMax \in Nat, FutexInv,
         NEW t \in Thread, sched_futex_wait(t)
  PROVE  FutexInv' /\ \A u \in Thread : st[u] = "dead" => st'[u] = "dead"
<1>. USE DEF FutexInv, FutexType, OnlySlot
<1>1. CASE st[t] = "dead" \/ Free = {}
  BY <1>1 DEF sched_futex_wait
<1>2. CASE ~(st[t] = "dead" \/ Free = {})
  <2>1. st[t] = "run" /\ pc[t] = "wait" /\ \A j \in Slot : waiter[j] # t
    BY <1>2 DEF sched_futex_wait
  <2>2. PICK i \in Free : i = CHOOSE k \in Free : \A j \in Free : k <= j
    <3>1. Free \in SUBSET Nat /\ Free # {}
      BY <1>2 DEF Free, Slot
    <3>. QED BY <3>1, FirstOf, Zenon
  <2>3. i \in Slot /\ waiter[i] = None
    BY DEF Free
  <2>4. /\ waiter' = [waiter EXCEPT ![i] = t]
        /\ st' = [st EXCEPT ![t] = "blocked"]
        /\ pc' = [pc EXCEPT ![t] = "user"]
    BY <1>2, <2>2 DEF sched_futex_wait
  <2>5. FutexType'
    BY <2>3, <2>4
  <2>6. ASSUME NEW u \in Thread, st'[u] = "blocked"
        PROVE  \E k \in Slot : OnlySlot(u, k)'
    <3>1. CASE u = t
      <4>1. OnlySlot(t, i)'
        BY <2>1, <2>3, <2>4
      <4>. QED BY <2>3, <3>1, <4>1
    <3>2. CASE u # t
      <4>1. PICK k \in Slot : OnlySlot(u, k)
        BY <2>4, <2>6, <3>2
      <4>2. OnlySlot(u, k)'
        BY <2>3, <2>4, <3>2, <4>1
      <4>. QED BY <4>2
    <3>. QED BY <3>1, <3>2
  <2>7. \A k \in Slot : waiter'[k] # None => st'[waiter'[k]] # "run"
    BY <2>1, <2>3, <2>4
  <2>8. /\ \A u \in Thread : pc'[u] # "user" => st'[u] # "blocked"
        /\ \A u \in Thread : st[u] = "dead" => st'[u] = "dead"
    BY <2>1, <2>4
  <2>. QED BY <2>5, <2>6, <2>7, <2>8
<1>. QED BY <1>1, <1>2

LEMMA FutexInvNext ==
  ASSUME None \notin Thread, FutexMax \in Nat, FutexInv, [Next]_vars
  PROVE  FutexInv' /\ DeadStaysDead
<1>. USE DEF DeadStaysDead
<1>1. ASSUME NEW t \in Thread, NEW a \in Addr, linux_futex_wait(t, a)
      PROVE  FutexInv' /\ DeadStaysDead
  BY <1>1 DEF linux_futex_wait, InUser, FutexInv, FutexType, OnlySlot
<1>2. ASSUME NEW t \in Thread, NEW a \in Addr, Store(t, a)
      PROVE  FutexInv' /\ DeadStaysDead
  BY <1>2 DEF Store, InUser, FutexInv, FutexType, OnlySlot
<1>3. ASSUME NEW t \in Thread, NEW a \in Addr, NEW b \in Addr, sched_futex_requeue(t, a, b)
      PROVE  FutexInv' /\ DeadStaysDead
  <2>1. Visited(a, 1) \in SUBSET Slot
    BY DEF Visited, Matching
  <2>2. WakeSlots(Visited(a, 1)) /\ pc' = pc
    BY <1>3 DEF sched_futex_requeue
  <2>. QED BY <2>1, <2>2, WakeKeeps DEF FutexInv, FutexType
<1>4. ASSUME NEW t \in Thread, sched_futex_wait(t)
      PROVE  FutexInv' /\ DeadStaysDead
  BY <1>4, WaitKeeps
<1>5. ASSUME NEW t \in Thread, sched_futex_wake(t)
      PROVE  FutexInv' /\ DeadStaysDead
  <2>1. Visited(at[t], WakeMax) \in SUBSET Slot
    BY DEF Visited, Matching
  <2>2. WakeSlots(Visited(at[t], WakeMax)) /\ pc' = [pc EXCEPT ![t] = "user"]
    BY <1>5 DEF sched_futex_wake
  <2>3. /\ pc' \in [Thread -> {"user", "wait", "wake", "exit"}]
        /\ \A u \in Thread : pc'[u] # "user" => pc[u] # "user"
    BY <2>2 DEF FutexInv, FutexType
  <2>. QED BY <2>1, <2>2, <2>3, WakeKeeps
<1>6. ASSUME NEW t \in Thread, ExitClearTid(t)
      PROVE  FutexInv' /\ DeadStaysDead
  BY <1>6 DEF ExitClearTid, InUser, FutexInv, FutexType, OnlySlot
<1>7. ASSUME NEW t \in Thread, ExitWake(t)
      PROVE  FutexInv' /\ DeadStaysDead
  BY <1>7, ExitKeeps
<1>8. ASSUME NEW t \in Thread, sched_kill(t)
      PROVE  FutexInv' /\ DeadStaysDead
  BY <1>8 DEF sched_kill, FutexInv, FutexType, OnlySlot
<1>9. CASE UNCHANGED vars
  BY <1>9 DEF vars, FutexInv, FutexType, OnlySlot
<1>. QED BY <1>1, <1>2, <1>3, <1>4, <1>5, <1>6, <1>7, <1>8, <1>9 DEF Next

(* The inductive invariant gives SlotsExact. *)
LEMMA InvGivesSlots ==
  ASSUME FutexInv
  PROVE  SlotsExact
<1>1. ASSUME NEW t \in Thread, st[t] = "blocked"
      PROVE  Cardinality({i \in Slot : waiter[i] = t}) = 1
  <2>1. PICK i \in Slot : OnlySlot(t, i)
    BY <1>1 DEF FutexInv
  <2>2. {k \in Slot : waiter[k] = t} = {i}
    BY <2>1 DEF OnlySlot
  <2>. QED BY <2>2, FS_Singleton
<1>. QED BY <1>1 DEF FutexInv, SlotsExact

(* sched_futex_wait, sched_futex_wake, sched_futex_requeue and the exit of a
   thread keep the table exact: a sleeper is in one slot, and a slot never names
   a thread that runs, so no stale entry takes a thread out of a later wait. *)
THEOREM SlotsExactHolds ==
  ASSUME None \notin Thread, FutexMax \in Nat
  PROVE  Spec => []SlotsExact
<1>1. Init => FutexInv
  BY DEF Init, FutexInv, FutexType, OnlySlot
<1>2. FutexInv /\ [Next]_vars => FutexInv'
  BY FutexInvNext
<1>3. FutexInv => SlotsExact
  BY InvGivesSlots
<1>. QED BY <1>1, <1>2, <1>3, PTL DEF Spec

(* No wake-up revives a killed thread, whatever stale slots it left behind. *)
THEOREM DeadStaysDeadHolds ==
  ASSUME None \notin Thread, FutexMax \in Nat
  PROVE  Spec => [][DeadStaysDead]_vars
<1>1. Init => FutexInv
  BY DEF Init, FutexInv, FutexType, OnlySlot
<1>2. FutexInv /\ [Next]_vars => FutexInv' /\ DeadStaysDead
  BY FutexInvNext
<1>. QED BY <1>1, <1>2, PTL DEF Spec
=============================================================================
