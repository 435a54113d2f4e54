----------------------------- MODULE SchedProofs -----------------------------
(***************************************************************************)
(* No task is in two places or on two CPUs, for any number of CPUs and of  *)
(* tasks, as long as no entry wakes a task that another CPU may be leaving.*)
(***************************************************************************)
EXTENDS Sched, TLAPS

-----------------------------------------------------------------------------
(* Queues without repetitions *)

Elems(s) == {s[i] : i \in 1..Len(s)}
Dist(s) == \A i, j \in 1..Len(s) : s[i] = s[j] => i = j

LEMMA PushFacts ==
  ASSUME NEW S, NEW s \in Seq(S), Dist(s), NEW x \in S, x \notin Elems(s)
  PROVE  /\ Append(s, x) \in Seq(S) /\ Dist(Append(s, x))
         /\ Elems(Append(s, x)) = Elems(s) \cup {x}
<1>1. /\ Append(s, x) \in Seq(S) /\ Len(Append(s, x)) = Len(s) + 1 /\ Len(s) \in Nat
      /\ \A i \in 1..Len(s) : Append(s, x)[i] = s[i]
      /\ Append(s, x)[Len(s) + 1] = x
  OBVIOUS
<1>2. \A i \in 1..Len(s) + 1 : i \in 1..Len(s) \/ i = Len(s) + 1
  BY <1>1
<1>3. Dist(Append(s, x))
  <2>1. ASSUME NEW i \in 1..Len(s) + 1, NEW j \in 1..Len(s) + 1,
               Append(s, x)[i] = Append(s, x)[j]
        PROVE  i = j
    <3>1. CASE i \in 1..Len(s) /\ j \in 1..Len(s)
      BY <1>1, <2>1, <3>1 DEF Dist
    <3>2. CASE i = Len(s) + 1 /\ j \in 1..Len(s)
      BY <1>1, <2>1, <3>2 DEF Elems
    <3>3. CASE j = Len(s) + 1 /\ i \in 1..Len(s)
      BY <1>1, <2>1, <3>3 DEF Elems
    <3>. QED BY <1>2, <3>1, <3>2, <3>3
  <2>. QED BY <1>1, <2>1 DEF Dist
<1>4. Elems(Append(s, x)) = Elems(s) \cup {x}
  <2>1. Elems(Append(s, x)) \subseteq Elems(s) \cup {x}
    BY <1>1, <1>2 DEF Elems
  <2>2. Elems(s) \subseteq Elems(Append(s, x))
    BY <1>1 DEF Elems
  <2>3. x \in Elems(Append(s, x))
    BY <1>1 DEF Elems
  <2>. QED BY <2>1, <2>2, <2>3
<1>. QED BY <1>1, <1>3, <1>4

LEMMA PopFacts ==
  ASSUME NEW S, NEW s \in Seq(S), Dist(s), s # <<>>
  PROVE  /\ Head(s) \in Elems(s) /\ Head(s) \in S
         /\ Tail(s) \in Seq(S) /\ Dist(Tail(s))
         /\ Elems(Tail(s)) = Elems(s) \ {Head(s)}
<1>1. /\ Tail(s) \in Seq(S) /\ Len(Tail(s)) = Len(s) - 1 /\ Len(s) \in Nat \ {0}
      /\ \A i \in 1..Len(s) - 1 : Tail(s)[i] = s[i + 1]
      /\ Head(s) = s[1] /\ Head(s) \in S
  OBVIOUS
<1>2. Head(s) \in Elems(s)
  BY <1>1 DEF Elems
<1>3. Dist(Tail(s))
  <2>1. ASSUME NEW i \in 1..Len(s) - 1, NEW j \in 1..Len(s) - 1, Tail(s)[i] = Tail(s)[j]
        PROVE  i = j
    <3>1. i + 1 \in 1..Len(s) /\ j + 1 \in 1..Len(s) /\ s[i + 1] = s[j + 1]
      BY <1>1, <2>1
    <3>2. i + 1 = j + 1
      BY <3>1 DEF Dist
    <3>. QED BY <1>1, <3>2
  <2>. QED BY <1>1, <2>1 DEF Dist
<1>4. ASSUME NEW y
      PROVE  y \in Elems(Tail(s)) <=> y \in Elems(s) /\ y # Head(s)
  <2>1. ASSUME y \in Elems(Tail(s))
        PROVE  y \in Elems(s) /\ y # Head(s)
    <3>1. PICK i \in 1..Len(s) - 1 : y = s[i + 1]
      BY <1>1, <2>1 DEF Elems
    <3>2. i + 1 \in 1..Len(s) /\ i + 1 # 1 /\ 1 \in 1..Len(s)
      BY <1>1
    <3>3. s[i + 1] # s[1]
      BY <3>2 DEF Dist
    <3>. QED BY <1>1, <3>1, <3>2, <3>3 DEF Elems
  <2>2. ASSUME y \in Elems(s), y # Head(s)
        PROVE  y \in Elems(Tail(s))
    <3>1. PICK i \in 1..Len(s) : y = s[i]
      BY <2>2 DEF Elems
    <3>2. PICK j \in 1..Len(s) - 1 : i = j + 1
      BY <1>1, <2>2, <3>1
    <3>3. y = Tail(s)[j] /\ j \in 1..Len(Tail(s))
      BY <1>1, <3>1, <3>2
    <3>. QED BY <3>3 DEF Elems
  <2>. QED BY <2>1, <2>2
<1>. QED BY <1>1, <1>2, <1>3, <1>4

(* rq_remove takes a task out, and puts none in. *)
LEMMA RemoveFacts ==
  ASSUME NEW S, NEW s \in Seq(S), NEW x
  PROVE  /\ Without(s, x) \in Seq(S) /\ Elems(Without(s, x)) \subseteq Elems(s)
         /\ Dist(s) => Dist(Without(s, x)) /\ Elems(Without(s, x)) = Elems(s) \ {x}
<1>1. CASE ~Holds(s, x)
  BY <1>1 DEF Without, Holds, Elems
<1>2. CASE Holds(s, x)
  <2>1. PICK k \in 1..Len(s) : k = CHOOSE i \in DOMAIN s : s[i] = x
    BY <1>2 DEF Holds
  <2>2. s[k] = x
    BY <1>2, <2>1 DEF Holds
  <2>3. PICK r : r = Without(s, x)
    OBVIOUS
  <2>4. r = [i \in 1..Len(s) - 1 |-> IF i < k THEN s[i] ELSE s[i + 1]]
    BY <1>2, <2>1, <2>3, Zenon DEF Without
  <2>5. /\ r \in Seq(S) /\ Len(r) = Len(s) - 1 /\ Len(s) \in Nat
        /\ \A i \in 1..Len(s) - 1 : r[i] = IF i < k THEN s[i] ELSE s[i + 1]
    <3>1. /\ Len(s) \in Nat /\ Len(s) - 1 \in Nat
          /\ \A i \in 1..Len(s) - 1 : i \in 1..Len(s) /\ i + 1 \in 1..Len(s)
      BY <2>1
    <3>2. \A i \in 1..Len(s) - 1 : r[i] \in S
      BY <2>4, <3>1
    <3>. QED BY <2>4, <3>1, <3>2
  <2>6. ASSUME NEW i \in 1..Len(r)
        PROVE  \E j \in 1..Len(s) : r[i] = s[j] /\ j # k /\ j = IF i < k THEN i ELSE i + 1
    BY <2>5
  <2>7. Elems(r) \subseteq Elems(s)
    BY <2>6 DEF Elems
  <2>8. ASSUME Dist(s)
        PROVE  Dist(r) /\ Elems(r) = Elems(s) \ {x}
    <3>1. ASSUME NEW i \in 1..Len(r), NEW j \in 1..Len(r), r[i] = r[j]
          PROVE  i = j
      <4>1. PICK a \in 1..Len(s) : r[i] = s[a] /\ a = IF i < k THEN i ELSE i + 1
        BY <2>6
      <4>2. PICK b \in 1..Len(s) : r[j] = s[b] /\ b = IF j < k THEN j ELSE j + 1
        BY <2>6
      <4>3. s[a] = s[b]
        BY <3>1, <4>1, <4>2, Zenon
      <4>4. a = b
        BY <2>8, <4>3 DEF Dist
      <4>. QED BY <2>5, <4>1, <4>2, <4>4
    <3>2. x \notin Elems(r)
      BY <2>2, <2>6, <2>8 DEF Elems, Dist
    <3>3. ASSUME NEW j \in 1..Len(s), s[j] # x
          PROVE  s[j] \in Elems(r)
      <4>1. PICK i \in 1..Len(r) : j = IF i < k THEN i ELSE i + 1
        <5>1. CASE j < k
          BY <2>5, <5>1
        <5>2. CASE ~(j < k)
          <6>1. j - 1 \in 1..Len(r) /\ ~(j - 1 < k) /\ j = (j - 1) + 1
            BY <2>2, <2>5, <3>3, <5>2
          <6>. QED BY <6>1
        <5>. QED BY <5>1, <5>2
      <4>2. r[i] = s[j]
        BY <2>5, <4>1
      <4>. QED BY <4>2 DEF Elems
    <3>4. ASSUME NEW y \in Elems(s), y # x
          PROVE  y \in Elems(r)
      <4>1. PICK j \in 1..Len(s) : y = s[j]
        BY DEF Elems
      <4>. QED BY <3>3, <3>4, <4>1
    <3>5. Dist(r)
      BY <3>1 DEF Dist
    <3>. QED BY <2>7, <3>2, <3>4, <3>5
  <2>. QED BY <2>3, <2>5, <2>7, <2>8
<1>. QED BY <1>1, <1>2

-----------------------------------------------------------------------------
(* The inductive invariant *)

Claimed(c, t) == t \in Elems(rq[c]) \/ park[c] = t \/ InFlight(c, t)
On(c, t) == Claimed(c, t) \/ cur[c] = t \/ stk[c] = t

(* Where a CPU is giving up the task it runs: the only places where that task
   may already be claimed again, by the same CPU. *)
Leaving == {"lock", "commit", "refuse", "parked", "idle", "unrun", "drop"}

(* Entries that lead to a wake-up, or that only a wake-up leads to. *)
WakePcs == {"waker", "exitwoken", "killwoken", "contwoken"}
Places == Pcs \ WakePcs

LEMMA PlaceNames ==
  /\ "run" \in Places /\ "timer" \in Places /\ "tick" \in Places /\ "preempt" \in Places
  /\ "park" \in Places /\ "parked" \in Places /\ "away" \in Places /\ "after" \in Places
  /\ "lock" \in Places /\ "commit" \in Places /\ "refuse" \in Places /\ "leave" \in Places
  /\ "idle" \in Places /\ "unrun" \in Places /\ "drop" \in Places /\ "cr3" \in Places
  /\ "yield" \in Places /\ "forked" \in Places /\ "exit" \in Places /\ "unpark" \in Places
  /\ "mark" \in Places /\ "killwake" \in Places /\ "killfree" \in Places /\ "reap" \in Places
  /\ "unlist" \in Places /\ "stopmark" \in Places
BY DEF Places, Pcs, WakePcs

SchedType ==
  /\ state \in [Task -> {"absent", "READY", "RUNNING", "STOPPED", "ZOMBIE"}]
  /\ rq \in [Cpu -> Seq(Task)]
  /\ cur \in [Cpu -> Task \cup {None}] /\ park \in [Cpu -> Task \cup {None}]
  /\ stk \in [Cpu -> Task \cup {None}] /\ arg \in [Cpu -> Task \cup {None}]
  /\ pc \in [Cpu -> Places]
  /\ listed \subseteq Task /\ sleepers = {} /\ starved = {} /\ pending \subseteq Task

(* A task is at most once in a queue, parked or in flight on a CPU. *)
Once ==
  \A c \in Cpu :
    /\ Dist(rq[c])
    /\ \A t \in Task : /\ ~(t \in Elems(rq[c]) /\ park[c] = t)
                       /\ ~(t \in Elems(rq[c]) /\ InFlight(c, t))
                       /\ ~(park[c] = t /\ InFlight(c, t))

(* All that a CPU can come to do with a task happens on one CPU. *)
Owner == \A t \in Task : \A c, d \in Cpu : On(c, t) /\ On(d, t) => c = d

Runs ==
  \A c \in Cpu :
    /\ pc[c] \in {"preempt", "park", "parked", "away"} => cur[c] # None
    /\ pc[c] \notin Leaving /\ cur[c] # None => ~Claimed(c, cur[c])

(* A task is nowhere before sched_fork makes it and until it queues it. *)
Fresh ==
  /\ \A t \in Task : state[t] = "absent" =>
       t \notin listed /\ \A c \in Cpu : ~On(c, t) /\ arg[c] # t
  /\ \A c \in Cpu : pc[c] = "forked" =>
       /\ arg[c] \in Task
       /\ \A d \in Cpu : /\ ~On(d, arg[c])
                         /\ pc[d] = "forked" /\ arg[d] = arg[c] => d = c

Inv == SchedType /\ Once /\ Owner /\ Runs /\ Fresh

NoWaker == ops \cap Wakers = {}

(* The invariant is unfolded and put together here only: its name is in every
   lemma that follows. *)
LEMMA InvParts ==
  ASSUME Inv
  PROVE  SchedType /\ Once /\ Owner /\ Runs /\ Fresh
BY DEF Inv

LEMMA InvWhole ==
  ASSUME SchedType', Once', Owner', Runs', Fresh'
  PROVE  Inv'
BY DEF Inv

-----------------------------------------------------------------------------
(* Steps that bring no task to a new CPU *)

(* A step of c that moves tasks only between places of the same CPU. *)
LEMMA Keep ==
  ASSUME Inv, NEW c \in Cpu, SchedType', Once',
         \A d \in Cpu, t \in Task : On(d, t)' => On(d, t),
         \A d \in Cpu \ {c} :
           /\ pc'[d] = pc[d] /\ cur'[d] = cur[d] /\ arg'[d] = arg[d]
           /\ \A t \in Task : Claimed(d, t)' => Claimed(d, t),
         \A t \in Task : state'[t] = "absent" => state[t] = "absent",
         listed' \subseteq listed,
         arg'[c] = arg[c] \/ arg'[c] = None \/ state[arg'[c]] # "absent",
         pc'[c] # "forked",
         pc'[c] \in {"preempt", "park", "parked", "away"} => cur'[c] # None,
         pc'[c] \notin Leaving /\ cur'[c] # None => ~Claimed(c, cur[c])'
  PROVE  Inv'
<1>1. Owner'
  BY InvParts DEF Owner
<1>2. Runs'
  <2>1. ASSUME NEW d \in Cpu
        PROVE  /\ pc'[d] \in {"preempt", "park", "parked", "away"} => cur'[d] # None
               /\ pc'[d] \notin Leaving /\ cur'[d] # None => ~Claimed(d, cur[d])'
    <3>1. CASE d = c
      BY <3>1, SMTT(30)
    <3>2. CASE d # c
      <4>1. pc'[d] = pc[d] /\ cur'[d] = cur[d] /\ cur[d] \in Task \cup {None}
        BY <3>2, InvParts, ZenonT(60) DEF SchedType
      <4>2. cur[d] # None => (Claimed(d, cur[d])' => Claimed(d, cur[d]))
        BY <3>2, <4>1, SMTT(30) DEF Claimed, InFlight
      <4>. QED BY <4>1, <4>2, InvParts DEF Runs
    <3>. QED BY <3>1, <3>2
  <2>. QED BY <2>1, SMTT(30) DEF Runs
<1>3. ASSUME NEW t \in Task, state'[t] = "absent"
      PROVE  t \notin listed' /\ \A d \in Cpu : ~On(d, t)' /\ arg'[d] # t
  <2>1. state[t] = "absent" /\ t \notin listed /\ \A d \in Cpu : ~On(d, t) /\ arg[d] # t
    BY <1>3, InvParts, SMTT(30) DEF Fresh
  <2>2. None \notin Task
    BY SchedAssumption
  <2>3. arg'[c] # t
    BY <2>1, <2>2, ZenonT(60)
  <2>. QED BY <2>1, <2>3, SMTT(30)
<1>4. ASSUME NEW d \in Cpu, pc'[d] = "forked"
      PROVE  /\ arg'[d] \in Task
             /\ \A e \in Cpu : /\ ~On(e, arg[d])'
                               /\ pc'[e] = "forked" /\ arg'[e] = arg'[d] => e = d
  <2>1. d # c /\ pc[d] = "forked" /\ arg'[d] = arg[d]
    BY <1>4, SMTT(30)
  <2>2. /\ arg[d] \in Task
        /\ \A e \in Cpu : /\ ~On(e, arg[d])
                          /\ pc[e] = "forked" /\ arg[e] = arg[d] => e = d
    BY <2>1, InvParts, SMTT(30) DEF Fresh
  <2>3. PICK t \in Task : t = arg[d] /\ t = arg'[d]
    BY <2>1, <2>2, SMTT(30)
  <2>4. \A e \in Cpu : ~On(e, t)'
    BY <2>2, <2>3, SMTT(30)
  <2>5. \A e \in Cpu : ~On(e, arg[d])'
    BY <2>3, <2>4, SMTT(30) DEF On, Claimed, InFlight
  <2>6. \A e \in Cpu : pc'[e] = "forked" /\ arg'[e] = arg'[d] => e = d
    BY <2>1, <2>2
  <2>. QED BY <2>1, <2>2, <2>5, <2>6, SMTT(30)
<1>5. Fresh'
  BY <1>3, <1>4, ZenonT(60) DEF Fresh
<1>. QED BY <1>1, <1>2, <1>5, InvWhole, SMTT(30)

Held == {"lock", "commit", "refuse"}

(* A step of c that moves no task at all. *)
LEMMA Quiet ==
  ASSUME Inv, NEW c \in Cpu, NEW l \in Places, l # "forked", NEW a \in Task \cup {None},
         pc' = [pc EXCEPT ![c] = l], arg' = [arg EXCEPT ![c] = a],
         UNCHANGED <<rq, park, cur, stk>>,
         state' \in [Task -> {"absent", "READY", "RUNNING", "STOPPED", "ZOMBIE"}],
         \A t \in Task : state'[t] = "absent" => state[t] = "absent",
         listed' \subseteq listed, sleepers' = {}, starved' = {}, pending' \subseteq Task,
         a = arg[c] \/ a = None \/ state[a] # "absent",
         l \in Held => a = None \/ (a = arg[c] /\ pc[c] \in Held),
         l \in {"preempt", "park", "parked", "away"} => cur[c] # None,
         l \notin Leaving /\ cur[c] # None => pc[c] \notin Leaving
  PROVE  Inv'
<1>1. None \notin Task
  BY SchedAssumption, SMTT(30)
<1>2. /\ pc \in [Cpu -> Places] /\ arg \in [Cpu -> Task \cup {None}]
      /\ cur \in [Cpu -> Task \cup {None}]
  BY InvParts DEF SchedType
<1>3. /\ pc'[c] = l /\ arg'[c] = a
      /\ \A d \in Cpu \ {c} : pc'[d] = pc[d] /\ arg'[d] = arg[d]
  BY <1>2, SMTT(30)
<1>4. ASSUME NEW d \in Cpu, NEW t \in Task
      PROVE  InFlight(d, t)' => InFlight(d, t)
  <2>1. CASE d = c
    BY <1>1, <1>3, <2>1, SMTT(30) DEF InFlight, Held
  <2>2. CASE d # c
    BY <1>3, <2>2, SMTT(30) DEF InFlight
  <2>. QED BY <2>1, <2>2, SMTT(30)
<1>5. ASSUME NEW d \in Cpu, NEW t \in Task
      PROVE  (Claimed(d, t)' => Claimed(d, t)) /\ (On(d, t)' => On(d, t))
  BY <1>4 DEF On, Claimed
<1>6. SchedType'
  BY InvParts, ZenonT(60) DEF SchedType
<1>7. Once'
  BY <1>4, InvParts, SMTT(30) DEF Once
<1>8. l \notin Leaving /\ cur[c] # None => ~Claimed(c, cur[c])'
  <2>1. SUFFICES ASSUME l \notin Leaving, cur[c] # None
                 PROVE  ~Claimed(c, cur[c])'
    OBVIOUS
  <2>2. ~Claimed(c, cur[c]) /\ cur[c] \in Task /\ cur'[c] = cur[c]
    BY <1>2, <2>1, InvParts DEF Runs
  <2>3. PICK t \in Task : t = cur[c]
    BY <2>2, ZenonT(60)
  <2>4. ~Claimed(c, t)'
    BY <1>5, <2>2, <2>3, SMTT(30)
  <2>. QED BY <2>2, <2>3, <2>4, SMTT(30) DEF Claimed, InFlight
<1>. QED BY <1>3, <1>5, <1>6, <1>7, <1>8, Keep, SMTT(30)

-----------------------------------------------------------------------------
(* The steps, one by one *)

(* No task is forgotten, none is blocked. *)
StateKept ==
  /\ state' \in [Task -> {"absent", "READY", "RUNNING", "STOPPED", "ZOMBIE"}]
  /\ \A t \in Task : state'[t] = "absent" => state[t] = "absent"

(* The CPU c goes on, and no task is queued, parked, taken or left. *)
Calm(c) ==
  /\ pc' = [pc EXCEPT ![c] = pc'[c]] /\ pc'[c] \in Places \ {"forked"}
  /\ arg' = [arg EXCEPT ![c] = arg'[c]] /\ arg'[c] \in Task \cup {None}
  /\ UNCHANGED <<rq, park, cur, stk>>
  /\ StateKept /\ listed' \subseteq listed
  /\ sleepers' = {} /\ starved' = {} /\ pending' \subseteq Task
  /\ arg'[c] = arg[c] \/ arg'[c] = None \/ state[arg'[c]] # "absent"
  /\ pc'[c] \in Held => arg'[c] = None \/ (arg'[c] = arg[c] /\ pc[c] \in Held)
  /\ pc'[c] \in {"preempt", "park", "parked", "away"} => cur[c] # None
  /\ pc'[c] \notin Leaving /\ cur[c] # None => pc[c] \notin Leaving

LEMMA KnownTasks ==
  ASSUME Inv, NEW c \in Cpu
  PROVE  /\ cur[c] # None => cur[c] \in Task /\ state[cur[c]] # "absent"
         /\ \A t \in listed : t \in Task /\ state[t] # "absent"
         /\ \A t \in Task : state[t] # "BLOCKED"
         /\ arg[c] \in Task \cup {None} /\ None \notin Task
         /\ pc \in [Cpu -> Places] /\ arg \in [Cpu -> Task \cup {None}]
         /\ cur \in [Cpu -> Task \cup {None}]
         /\ sleepers = {} /\ starved = {} /\ pending \subseteq Task /\ listed \subseteq Task
<1>1. SchedType /\ Fresh /\ None \notin Task
  BY SchedAssumption, InvParts
<1>2. /\ pc \in [Cpu -> Places] /\ arg \in [Cpu -> Task \cup {None}]
      /\ cur \in [Cpu -> Task \cup {None}]
      /\ state \in [Task -> {"absent", "READY", "RUNNING", "STOPPED", "ZOMBIE"}]
      /\ sleepers = {} /\ starved = {} /\ pending \subseteq Task /\ listed \subseteq Task
  BY <1>1 DEF SchedType
<1>3. \A t \in Task : state[t] = "absent" => t \notin listed /\ cur[c] # t
  BY <1>1 DEF Fresh, On
<1>. QED BY <1>1, <1>2, <1>3

LEMMA StateSteps ==
  ASSUME Inv
  PROVE  /\ UNCHANGED state => StateKept
         /\ \A x, v : v \in {"READY", "RUNNING", "STOPPED", "ZOMBIE"} /\ SetState(x, v) => StateKept
         /\ \A c \in Cpu : state' = Unrun(c) => StateKept
BY InvParts, ZenonT(60) DEF SchedType, StateKept, SetState, Unrun

LEMMA CalmKeeps ==
  ASSUME Inv, NEW c \in Cpu, Calm(c)
  PROVE  Inv'
BY Quiet, SMTT(30) DEF Calm, StateKept

LEMMA CalmSteps ==
  ASSUME Inv, NEW c \in Cpu,
         \/ SwitchRefuse(c)
         \/ IdleRead(c)
         \/ IdleUnrun(c)
         \/ IdleCr3(c)
         \/ TickNothing(c)
         \/ TickUser(c)
         \/ ParkReady(c)
         \/ AfterIsr(c)
         \/ YieldReady(c)
         \/ ExitWake(c)
         \/ KillWake(c)
         \/ KillMark(c)
         \/ KillFree(c)
         \/ StopMark(c)
         \/ Reap(c)
         \/ ReapUnlist(c)
         \/ Timer(c)
         \/ c = Bsp /\ TimerDone
         \/ Yield(c)
         \/ Exit(c)
         \/ FaultRecover(c)
         \/ \E t \in Task : Signal(c, t)
         \/ c = Bsp /\ \E t \in Task : ReapOrphan(t)
  PROVE  Inv'
<1>0. /\ pc \in [Cpu -> Places] /\ arg \in [Cpu -> Task \cup {None}]
      /\ cur \in [Cpu -> Task \cup {None}] /\ None \notin Task
      /\ sleepers = {} /\ starved = {} /\ pending \subseteq Task /\ listed \subseteq Task
      /\ cur[c] # None => cur[c] \in Task /\ state[cur[c]] # "absent"
      /\ \A t \in listed : state[t] # "absent"
      /\ \A t \in Task : state[t] # "BLOCKED"
      /\ UNCHANGED state => StateKept
      /\ \A x, v : v \in {"READY", "RUNNING", "STOPPED", "ZOMBIE"} /\ SetState(x, v) => StateKept
      /\ state' = Unrun(c) => StateKept
  BY KnownTasks, StateSteps, SMTT(30)
<1>. USE <1>0, PlaceNames
<1>1. (\/ SwitchRefuse(c)
       \/ IdleRead(c)
       \/ IdleUnrun(c)
       \/ IdleCr3(c)) => Calm(c)
  <2>1. SwitchRefuse(c) => Calm(c)
    BY ZenonT(60) DEF Calm, At, Goto, queues, memory, waits, family, Held, Leaving,
       SwitchRefuse, ToIdle
  <2>2. IdleRead(c) => Calm(c)
    BY ZenonT(60) DEF Calm, At, Goto, queues, memory, waits, family, Held, Leaving,
       IdleRead
  <2>3. IdleUnrun(c) => Calm(c)
    BY DEF Calm, At, Goto, queues, memory, waits, family, Held, Leaving,
       IdleUnrun
  <2>4. IdleCr3(c) => Calm(c)
    BY DEF Calm, At, Goto, queues, memory, waits, family, Held, Leaving,
       IdleCr3
  <2>. QED BY <2>1, <2>2, <2>3, <2>4
<1>2. (\/ TickNothing(c)
       \/ TickUser(c)
       \/ ParkReady(c)
       \/ AfterIsr(c)) => Calm(c)
  <2>1. TickNothing(c) => Calm(c)
    BY Zenon DEF Calm, At, Goto, queues, memory, waits, family, Held, Leaving,
       TickNothing
  <2>2. TickUser(c) => Calm(c)
    BY ZenonT(60) DEF Calm, At, Goto, queues, memory, waits, family, Held, Leaving,
       TickUser
  <2>3. ParkReady(c) => Calm(c)
    BY ZenonT(60) DEF Calm, At, Goto, queues, memory, waits, family, Held, Leaving,
       ParkReady, ToIdle
  <2>4. AfterIsr(c) => Calm(c)
    BY DEF Calm, At, Goto, queues, memory, waits, family, Held, Leaving,
       AfterIsr
  <2>. QED BY <2>1, <2>2, <2>3, <2>4
<1>3. (\/ YieldReady(c)
       \/ ExitWake(c)
       \/ KillWake(c)
       \/ KillMark(c)) => Calm(c)
  <2>1. YieldReady(c) => Calm(c)
    BY DEF Calm, At, Goto, queues, memory, waits, family, Held, Leaving,
       YieldReady
  <2>2. ExitWake(c) => Calm(c)
    BY ZenonT(60) DEF Calm, At, Goto, queues, memory, waits, family, Held, Leaving,
       ExitWake, WakeParent
  <2>3. KillWake(c) => Calm(c)
    BY ZenonT(60) DEF Calm, At, Goto, queues, memory, waits, family, Held, Leaving,
       KillWake, WakeParent
  <2>4. KillMark(c) => Calm(c)
    BY DEF Calm, At, Goto, queues, memory, waits, family, Held, Leaving,
       KillMark
  <2>. QED BY <2>1, <2>2, <2>3, <2>4, ZenonT(60)
<1>4. (\/ KillFree(c)
       \/ StopMark(c)
       \/ Reap(c)
       \/ ReapUnlist(c)) => Calm(c)
  <2>1. KillFree(c) => Calm(c)
    BY Zenon DEF Calm, At, Goto, queues, memory, waits, family, Held, Leaving,
       KillFree
  <2>2. StopMark(c) => Calm(c)
    BY Zenon DEF Calm, At, Goto, queues, memory, waits, family, Held, Leaving,
       StopMark
  <2>3. Reap(c) => Calm(c)
    BY ZenonT(60) DEF Calm, At, Goto, queues, memory, waits, family, Held, Leaving,
       Reap
  <2>4. ReapUnlist(c) => Calm(c)
    BY DEF Calm, At, Goto, queues, memory, waits, family, Held, Leaving,
       ReapUnlist
  <2>. QED BY <2>1, <2>2, <2>3, <2>4, Zenon
<1>5. (\/ Timer(c)
       \/ (c = Bsp /\ TimerDone)
       \/ Yield(c)
       \/ Exit(c)) => Calm(c)
  <2>1. Timer(c) => Calm(c)
    BY ZenonT(60) DEF Calm, At, Goto, queues, memory, waits, family, Held, Leaving,
       Timer
  <2>2. (c = Bsp /\ TimerDone) => Calm(c)
    BY DEF Calm, At, Goto, queues, memory, waits, family, Held, Leaving,
       TimerDone
  <2>3. Yield(c) => Calm(c)
    BY ZenonT(60) DEF Calm, At, Goto, queues, memory, waits, family, Held, Leaving,
       Yield, InUser
  <2>4. Exit(c) => Calm(c)
    BY Zenon DEF Calm, At, Goto, queues, memory, waits, family, Held, Leaving,
       Exit, InUser
  <2>. QED BY <2>1, <2>2, <2>3, <2>4, Zenon
<1>6. (\/ FaultRecover(c)
       \/ (\E t \in Task : Signal(c, t))
       \/ (c = Bsp /\ \E t \in Task : ReapOrphan(t))) => Calm(c)
  <2>1. FaultRecover(c) => Calm(c)
    BY ZenonT(60) DEF Calm, At, Goto, queues, memory, waits, family, Held, Leaving,
       FaultRecover, ToIdle, InUser
  <2>2. (\E t \in Task : Signal(c, t)) => Calm(c)
    BY ZenonT(60) DEF Calm, At, Goto, queues, memory, waits, family, Held, Leaving,
       Signal, InUser
  <2>3. (c = Bsp /\ \E t \in Task : ReapOrphan(t)) => Calm(c)
    BY ZenonT(60) DEF Calm, At, Goto, queues, memory, waits, family, Held, Leaving,
       ReapOrphan
  <2>. QED BY <2>1, <2>2, <2>3
<1>. QED BY <1>1, <1>2, <1>3, <1>4, <1>5, <1>6, CalmKeeps, SMTT(30)

-----------------------------------------------------------------------------
(* Steps that move a task between places of one CPU *)

(* The CPU c alone changes its queue, its slot or what it runs. *)
LEMMA Local ==
  ASSUME Inv, NEW c \in Cpu, SchedType', StateKept,
         listed' \subseteq listed,
         \A d \in Cpu \ {c} :
           /\ rq'[d] = rq[d] /\ park'[d] = park[d] /\ cur'[d] = cur[d]
           /\ stk'[d] = stk[d] /\ pc'[d] = pc[d] /\ arg'[d] = arg[d],
         Dist(rq'[c]),
         \A t \in Task : /\ ~(t \in Elems(rq'[c]) /\ park'[c] = t)
                         /\ ~(t \in Elems(rq'[c]) /\ InFlight(c, t)')
                         /\ ~(park'[c] = t /\ InFlight(c, t)'),
         \A t \in Task : On(c, t)' => On(c, t),
         arg'[c] = None \/ arg'[c] = arg[c] \/ On(c, arg'[c]),
         pc'[c] \notin {"forked", "preempt", "park", "away"},
         pc'[c] = "parked" => cur'[c] # None,
         pc'[c] \notin Leaving /\ cur'[c] # None => ~Claimed(c, cur[c])'
  PROVE  Inv'
<1>1. ASSUME NEW d \in Cpu \ {c}, NEW t \in Task
      PROVE  /\ InFlight(d, t)' <=> InFlight(d, t)
             /\ Claimed(d, t)' <=> Claimed(d, t)
             /\ On(d, t)' <=> On(d, t)
  BY DEF InFlight, Claimed, On
<1>2. Once'
  BY <1>1, InvParts, ZenonT(60) DEF Once
<1>3. \A d \in Cpu, t \in Task : On(d, t)' => On(d, t)
  BY <1>1, Zenon
<1>4. arg'[c] = arg[c] \/ arg'[c] = None \/ state[arg'[c]] # "absent"
  <2>1. arg'[c] \in Task \cup {None}
    BY Zenon DEF SchedType
  <2>. QED BY <2>1, InvParts, Zenon DEF Fresh
<1>. QED BY <1>1, <1>2, <1>3, <1>4, Keep, Zenon DEF StateKept

LEMMA SwitchLockStep ==
  ASSUME Inv, NEW c \in Cpu, SwitchLock(c)
  PROVE  Inv'
<1>1. StateKept
  BY StateSteps DEF SwitchLock
<1>2. CASE arg[c] # cur[c]
  <2>1. Calm(c)
    BY <1>1, <1>2, KnownTasks, InvParts, PlaceNames, ZenonT(60) DEF Calm, SchedType, At, Goto, queues, memory,
       waits, family, Held, Leaving, SwitchLock
  <2>. QED BY <2>1, CalmKeeps, Zenon
<1>3. CASE arg[c] = cur[c]
  <2>1. /\ pc[c] = "lock" /\ pc' = [pc EXCEPT ![c] = "run"] /\ arg' = arg
        /\ UNCHANGED <<state, rq, park, cur, stk, listed, sleepers, starved, pending>>
    BY <1>3, Zenon DEF SwitchLock, At, Goto, queues, memory, waits, family
  <2>2. SchedType' /\ pc'[c] = "run" /\ \A d \in Cpu \ {c} : pc'[d] = pc[d]
    BY <2>1, InvParts, PlaceNames, SMTT(30) DEF SchedType
  <2>3. \A t \in Task : ~InFlight(c, t)' /\ (On(c, t)' => On(c, t))
    BY <2>1, <2>2, SMTT(30) DEF InFlight, On, Claimed
  <2>4. ASSUME cur'[c] # None
        PROVE  ~Claimed(c, cur[c])'
    <3>1. PICK t \in Task : t = cur[c] /\ t = cur'[c] /\ t = arg[c]
      BY <1>3, <2>1, <2>4, InvParts, Zenon DEF SchedType
    <3>2. InFlight(c, t)
      BY <2>1, <3>1, Zenon DEF InFlight
    <3>3. t \notin Elems(rq[c]) /\ park[c] # t
      BY <3>2, InvParts, Zenon DEF Once
    <3>4. ~Claimed(c, t)'
      BY <2>1, <2>3, <3>3, Zenon DEF Claimed
    <3>. QED BY <3>1, <3>4 DEF Claimed, InFlight
  <2>5. /\ Dist(rq'[c])
        /\ \A t \in Task : /\ ~(t \in Elems(rq'[c]) /\ park'[c] = t)
                           /\ ~(t \in Elems(rq'[c]) /\ InFlight(c, t)')
                           /\ ~(park'[c] = t /\ InFlight(c, t)')
    BY <2>1, <2>3, InvParts, Zenon DEF Once
  <2>. QED BY <1>1, <2>1, <2>2, <2>3, <2>4, <2>5, Local, Zenon
<1>. QED BY <1>2, <1>3, SMTT(30)

LEMMA SwitchCommitStep ==
  ASSUME Inv, NEW c \in Cpu, SwitchCommit(c)
  PROVE  Inv'
<1>1. /\ pc[c] = "commit" /\ pc' = [pc EXCEPT ![c] = "leave"] /\ arg' = [arg EXCEPT ![c] = None]
      /\ cur' = [cur EXCEPT ![c] = arg[c]]
      /\ UNCHANGED <<rq, park, stk, listed, sleepers, pending>> /\ starved' \subseteq starved
  BY Zenon DEF SwitchCommit, At, Goto, queues, memory, waits, family
<1>2. StateKept
  BY InvParts, Zenon DEF SwitchCommit, Unrun, StateKept, SchedType
<1>3. /\ SchedType' /\ pc'[c] = "leave" /\ cur'[c] = arg[c] /\ arg'[c] = None
      /\ \A d \in Cpu \ {c} : pc'[d] = pc[d] /\ cur'[d] = cur[d] /\ arg'[d] = arg[d]
  BY <1>1, <1>2, InvParts, PlaceNames, ZenonT(60) DEF SchedType, StateKept
<1>4. \A t \in Task : ~InFlight(c, t)' /\ (On(c, t)' => On(c, t))
  BY <1>1, <1>3, ZenonT(60) DEF InFlight, On, Claimed
<1>5. ASSUME cur'[c] # None
      PROVE  ~Claimed(c, cur[c])'
  <2>1. PICK t \in Task : t = cur'[c] /\ t = arg[c]
    BY <1>3, <1>5, Zenon DEF SchedType
  <2>2. InFlight(c, t)
    BY <1>1, <2>1, ZenonT(60) DEF InFlight
  <2>3. t \notin Elems(rq[c]) /\ park[c] # t
    BY <2>2, InvParts DEF Once
  <2>4. ~Claimed(c, t)'
    BY <1>1, <1>4, <2>3, ZenonT(60) DEF Claimed
  <2>. QED BY <2>1, <2>4 DEF Claimed, InFlight
<1>6. /\ Dist(rq'[c])
      /\ \A t \in Task : /\ ~(t \in Elems(rq'[c]) /\ park'[c] = t)
                         /\ ~(t \in Elems(rq'[c]) /\ InFlight(c, t)')
                         /\ ~(park'[c] = t /\ InFlight(c, t)')
  BY <1>1, <1>4, InvParts DEF Once
<1>. QED BY <1>1, <1>2, <1>3, <1>4, <1>5, <1>6, Local, ZenonT(60)

LEMMA LeaveStep ==
  ASSUME Inv, NEW c \in Cpu, LeaveStack(c) \/ IdleDrop(c)
  PROVE  Inv'
<1>1. /\ pc[c] \in {"leave", "drop"} /\ arg' = arg
      /\ pc' = [pc EXCEPT ![c] = IF pc[c] = "leave" THEN "run" ELSE "cr3"]
      /\ cur' = IF pc[c] = "leave" THEN cur ELSE [cur EXCEPT ![c] = None]
      /\ stk' = IF pc[c] = "leave" THEN [stk EXCEPT ![c] = cur[c]] ELSE stk
      /\ UNCHANGED <<state, rq, park, listed, sleepers, starved, pending>>
  BY DEF LeaveStack, IdleDrop, At, Goto, queues, memory, waits, family
<1>2. StateKept
  BY <1>1, StateSteps, ZenonT(60)
<1>3. /\ SchedType' /\ pc'[c] \in {"run", "cr3"} /\ (cur'[c] # None => cur'[c] = cur[c] /\ pc[c] = "leave")
      /\ \A d \in Cpu \ {c} : pc'[d] = pc[d] /\ cur'[d] = cur[d] /\ stk'[d] = stk[d]
      /\ stk'[c] \in {stk[c], cur[c]}
  BY <1>1, InvParts, PlaceNames DEF SchedType
<1>4. \A t \in Task : ~InFlight(c, t)' /\ (On(c, t)' => On(c, t))
  BY <1>1, <1>3, SchedAssumption, ZenonT(60) DEF InFlight, On, Claimed
<1>5. ASSUME cur'[c] # None
      PROVE  ~Claimed(c, cur[c])'
  <2>1. PICK t \in Task : t = cur'[c] /\ t = cur[c]
    BY <1>3, <1>5, Zenon DEF SchedType
  <2>2. ~Claimed(c, t)
    BY <1>3, <1>5, <2>1, SchedAssumption, InvParts, ZenonT(60) DEF Runs, Leaving
  <2>3. ~Claimed(c, t)'
    BY <1>1, <1>4, <2>2, Zenon DEF Claimed
  <2>. QED BY <2>1, <2>3 DEF Claimed, InFlight
<1>6. /\ Dist(rq'[c])
      /\ \A t \in Task : /\ ~(t \in Elems(rq'[c]) /\ park'[c] = t)
                         /\ ~(t \in Elems(rq'[c]) /\ InFlight(c, t)')
                         /\ ~(park'[c] = t /\ InFlight(c, t)')
  BY <1>1, <1>4, InvParts, Zenon DEF Once
<1>. QED BY <1>1, <1>2, <1>3, <1>4, <1>5, <1>6, Local, ZenonT(60)

(* A CPU that takes a task to run, of those it had queued, parked or on it. *)
LEMMA Taken ==
  ASSUME Inv, NEW c \in Cpu, NEW q, NEW p, NEW a \in Task, pc[c] \notin Leaving,
         rq' = [rq EXCEPT ![c] = q], park' = [park EXCEPT ![c] = p],
         arg' = [arg EXCEPT ![c] = a], pc' = [pc EXCEPT ![c] = "lock"],
         UNCHANGED <<state, cur, stk, listed, sleepers, starved, pending>>,
         q \in Seq(Task), Dist(q), p \in Task \cup {None},
         a \notin Elems(q), p # a, p \notin Elems(q), On(c, a),
         \A t \in Elems(q) : On(c, t),
         p # None => On(c, p)
  PROVE  Inv'
<1>1. /\ SchedType' /\ rq'[c] = q /\ park'[c] = p /\ arg'[c] = a /\ pc'[c] = "lock"
      /\ \A d \in Cpu \ {c} : /\ rq'[d] = rq[d] /\ park'[d] = park[d]
                              /\ arg'[d] = arg[d] /\ pc'[d] = pc[d]
  BY InvParts, PlaceNames, Zenon DEF SchedType
<1>2. StateKept
  BY StateSteps, Zenon
<1>3. \A t \in Task : InFlight(c, t)' <=> t = a
  BY <1>1, ZenonT(60) DEF InFlight
<1>4. \A t \in Task : On(c, t)' => On(c, t)
  BY <1>1, <1>3, SchedAssumption, SMTT(20) DEF On, Claimed
<1>. QED BY <1>1, <1>2, <1>3, <1>4, Local, ZenonT(60) DEF Leaving

LEMMA TickPopStep ==
  ASSUME Inv, NEW c \in Cpu, TickPop(c)
  PROVE  Inv'
<1>1. /\ pc[c] = "tick" /\ pc' = [pc EXCEPT ![c] = "lock"]
      /\ UNCHANGED <<state, cur, stk, listed, sleepers, starved, pending>>
  BY ZenonT(30) DEF TickPop, At, Goto, queues, memory, waits, family
<1>2. /\ rq[c] \in Seq(Task) /\ Dist(rq[c]) /\ park[c] \in Task \cup {None}
      /\ rq \in [Cpu -> Seq(Task)] /\ park \in [Cpu -> Task \cup {None}]
      /\ park[c] # None => park[c] \notin Elems(rq[c])
      /\ \A t \in Elems(rq[c]) : t \in Task /\ On(c, t)
      /\ park[c] # None => On(c, park[c])
  <2>1. rq \in [Cpu -> Seq(Task)] /\ park \in [Cpu -> Task \cup {None}]
    BY InvParts, Zenon DEF SchedType
  <2>2. rq[c] \in Seq(Task) /\ park[c] \in Task \cup {None}
    BY <2>1, SMTT(30)
  <2>3. \A t \in Elems(rq[c]) : t \in Task /\ On(c, t)
    BY <2>2, SMTT(30) DEF On, Claimed, Elems
  <2>4. Dist(rq[c]) /\ (park[c] # None => park[c] \notin Elems(rq[c]))
    BY <2>2, InvParts, SMTT(30) DEF Once
  <2>. QED BY <2>1, <2>2, <2>3, <2>4, ZenonT(60) DEF On, Claimed
<1>3. None \notin Elems(rq[c]) /\ None \notin Task
  BY <1>2, SchedAssumption
<1>4. CASE park[c] # None /\ arg' = [arg EXCEPT ![c] = park[c]]
           /\ park' = [park EXCEPT ![c] = None] /\ UNCHANGED rq
  <2>1. rq' = [rq EXCEPT ![c] = rq[c]]
    BY <1>2, <1>4
  <2>. QED BY <1>1, <1>2, <1>3, <1>4, <2>1, Taken, ZenonT(60) DEF Leaving
<1>5. CASE park[c] = None /\ rq[c] # <<>> /\ arg' = [arg EXCEPT ![c] = Head(rq[c])]
           /\ rq' = [rq EXCEPT ![c] = Tail(@)] /\ UNCHANGED park
  <2>1. park' = [park EXCEPT ![c] = None] /\ rq' = [rq EXCEPT ![c] = Tail(rq[c])]
    BY <1>2, <1>5, ZenonT(60)
  <2>2. /\ Head(rq[c]) \in Elems(rq[c]) /\ Head(rq[c]) \in Task
        /\ Tail(rq[c]) \in Seq(Task) /\ Dist(Tail(rq[c]))
        /\ Elems(Tail(rq[c])) = Elems(rq[c]) \ {Head(rq[c])}
    BY <1>2, <1>5, PopFacts
  <2>. QED BY <1>1, <1>2, <1>3, <1>5, <2>1, <2>2, Taken, ZenonT(60) DEF Leaving
<1>. QED BY <1>4, <1>5, Zenon DEF TickPop, rq_pop

(* A CPU that gives up its task queues it and takes the head of its queue. *)
LEMMA Rotates ==
  ASSUME Inv, NEW c \in Cpu, pc[c] \in {"preempt", "away"},
         NEW q, q = Append(rq[c], cur[c]), Head(q) # cur[c],
         rq' = [rq EXCEPT ![c] = Tail(q)], arg' = [arg EXCEPT ![c] = Head(q)],
         pc' = [pc EXCEPT ![c] = "lock"],
         UNCHANGED <<state, park, cur, stk, listed, sleepers, starved, pending>>
  PROVE  Inv'
<1>1. cur[c] \in Task /\ ~Claimed(c, cur[c]) /\ pc[c] \notin Leaving
  BY SchedAssumption, InvParts, ZenonT(60) DEF SchedType, Runs, Leaving
<1>2. /\ rq[c] \in Seq(Task) /\ Dist(rq[c]) /\ park[c] \in Task \cup {None}
      /\ park \in [Cpu -> Task \cup {None}]
      /\ park[c] # None => park[c] \notin Elems(rq[c])
      /\ \A t \in Elems(rq[c]) : t \in Task /\ On(c, t)
      /\ park[c] # None => On(c, park[c])
  BY InvParts, SMTT(20) DEF SchedType, Once, On, Claimed, Elems
<1>3. cur[c] \notin Elems(rq[c]) /\ park[c] # cur[c] /\ On(c, cur[c])
  BY <1>1, ZenonT(60) DEF Claimed, On
<1>4. q \in Seq(Task) /\ Dist(q) /\ Elems(q) = Elems(rq[c]) \cup {cur[c]}
  BY <1>1, <1>2, <1>3, PushFacts, SMTT(30)
<1>5. q # <<>>
  BY <1>1, <1>2
<1>6. /\ Head(q) \in Elems(q) /\ Head(q) \in Task /\ Tail(q) \in Seq(Task) /\ Dist(Tail(q))
      /\ Elems(Tail(q)) = Elems(q) \ {Head(q)}
  BY <1>4, <1>5, PopFacts, ZenonT(60)
<1>7. park' = [park EXCEPT ![c] = park[c]]
  BY <1>2
<1>8. None \notin Task
  BY SchedAssumption, ZenonT(60)
<1>9. /\ Head(q) \notin Elems(Tail(q)) /\ park[c] # Head(q) /\ park[c] \notin Elems(Tail(q))
      /\ On(c, Head(q)) /\ \A t \in Elems(Tail(q)) : On(c, t)
  BY <1>1, <1>2, <1>3, <1>4, <1>6, <1>8, SMTT(30)
<1>. QED BY <1>1, <1>2, <1>6, <1>7, <1>9, Taken, ZenonT(60)

(* A CPU that gives up its task and keeps it in its parked slot. *)
LEMMA Parks ==
  ASSUME Inv, NEW c \in Cpu, pc[c] \in {"park", "away"}, park[c] = None,
         NEW l \in {"parked", "lock", "idle"}, NEW a \in Task \cup {None},
         l = "lock" => a = None, a = None \/ a = arg[c],
         park' = [park EXCEPT ![c] = cur[c]], arg' = [arg EXCEPT ![c] = a],
         pc' = [pc EXCEPT ![c] = l],
         UNCHANGED <<state, rq, cur, stk, listed, sleepers, starved, pending>>
  PROVE  Inv'
<1>1. cur[c] \in Task /\ ~Claimed(c, cur[c]) /\ None \notin Task
  BY SchedAssumption, InvParts, ZenonT(60) DEF SchedType, Runs, Leaving
<1>2. /\ SchedType' /\ park'[c] = cur[c] /\ arg'[c] = a /\ pc'[c] = l
      /\ \A d \in Cpu \ {c} : park'[d] = park[d] /\ arg'[d] = arg[d] /\ pc'[d] = pc[d]
  BY <1>1, InvParts, PlaceNames DEF SchedType
<1>3. StateKept
  BY StateSteps, Zenon
<1>4. \A t \in Task : ~InFlight(c, t)'
  BY <1>1, <1>2, ZenonT(60) DEF InFlight
<1>5. \A t \in Task : On(c, t)' => On(c, t)
  BY <1>2, <1>4, Zenon DEF On, Claimed
<1>6. /\ Dist(rq'[c])
      /\ \A t \in Task : ~(t \in Elems(rq'[c]) /\ park'[c] = t)
  BY <1>1, <1>2, InvParts, ZenonT(60) DEF Once, Claimed
<1>. QED BY <1>1, <1>2, <1>3, <1>4, <1>5, <1>6, Local, ZenonT(60) DEF Leaving

LEMMA PreemptStep ==
  ASSUME Inv, NEW c \in Cpu, Preempt(c)
  PROVE  Inv'
<1>1. /\ pc[c] = "preempt" /\ cur[c] # None
      /\ UNCHANGED <<state, park, cur, stk, listed, sleepers, starved, pending>>
  BY InvParts, Zenon DEF Runs, Preempt, At, Goto, queues, memory, waits, family
<1>2. CASE rq[c] # <<>>
  <2>1. /\ cur[c] \in Task /\ rq[c] \in Seq(Task) /\ rq \in [Cpu -> Seq(Task)]
        /\ ~Claimed(c, cur[c])
    BY <1>1, SchedAssumption, InvParts, Zenon DEF SchedType, Runs, Leaving
  <2>2. PICK q : q = Append(rq[c], cur[c])
    BY Zenon
  <2>3. Head(q) = Head(rq[c]) /\ Head(rq[c]) \in Elems(rq[c])
    BY <1>2, <2>1, <2>2, SMTT(20) DEF Elems
  <2>4. Head(q) # cur[c]
    BY <2>1, <2>3, Zenon DEF Claimed
  <2>5. /\ rq' = [rq EXCEPT ![c] = Tail(q)] /\ arg' = [arg EXCEPT ![c] = Head(q)]
        /\ pc' = [pc EXCEPT ![c] = "lock"]
    BY <1>2, <2>1, <2>2, <2>3, ZenonT(60) DEF Preempt, rq_push_pop, Goto
  <2>. QED BY <1>1, <2>2, <2>4, <2>5, Rotates, ZenonT(60)
<1>3. CASE rq[c] = <<>>
  <2>1. Calm(c)
    BY <1>1, <1>3, KnownTasks, StateSteps, InvParts, PlaceNames, ZenonT(60)
       DEF Calm, SchedType, Goto, Held, Leaving, Preempt
  <2>. QED BY <2>1, CalmKeeps
<1>. QED BY <1>2, <1>3

LEMMA ParkStep ==
  ASSUME Inv, NEW c \in Cpu, Park(c)
  PROVE  Inv'
<1>1. /\ pc[c] = "park"
      /\ UNCHANGED <<state, rq, cur, stk, listed, sleepers, starved, pending>>
  BY Zenon DEF Park, At, queues, memory, waits, family
<1>2. CASE park[c] = None
  <2>1. /\ park' = [park EXCEPT ![c] = cur[c]] /\ arg' = [arg EXCEPT ![c] = arg[c]]
        /\ pc' = [pc EXCEPT ![c] = "parked"] /\ arg[c] \in Task \cup {None}
    BY <1>2, InvParts, ZenonT(60) DEF Park, Goto, SchedType
  <2>. QED BY <1>1, <1>2, <2>1, Parks, Zenon
<1>3. CASE park[c] # None
  <2>1. Calm(c)
    BY <1>1, <1>3, KnownTasks, StateSteps, InvParts, PlaceNames, SMTT(30)
       DEF Calm, SchedType, Goto, ToIdle, Held, Leaving, Park
  <2>. QED BY <2>1, CalmKeeps
<1>. QED BY <1>2, <1>3

LEMMA SwitchAfterStep ==
  ASSUME Inv, NEW c \in Cpu, SwitchAfter(c)
  PROVE  Inv'
<1>1. /\ pc[c] = "away"
      /\ UNCHANGED <<state, cur, stk, listed, sleepers, starved, pending>>
  BY Zenon DEF SwitchAfter, At, queues, memory, waits, family
<1>2. PICK q : q = Append(rq[c], cur[c])
  BY Zenon
<1>3. CASE Head(q) # cur[c] /\ arg' = [arg EXCEPT ![c] = Head(q)] /\ rq_push_pop(c, cur[c])
           /\ Goto(c, "lock") /\ UNCHANGED park
  <2>1. rq' = [rq EXCEPT ![c] = Tail(q)] /\ pc' = [pc EXCEPT ![c] = "lock"]
    BY <1>2, <1>3 DEF rq_push_pop, Goto
  <2>. QED BY <1>1, <1>2, <1>3, <2>1, Rotates, ZenonT(60)
<1>4. CASE park[c] = None /\ park' = [park EXCEPT ![c] = cur[c]] /\ ToIdle(c) /\ UNCHANGED rq
  <2>1. PICK l \in {"parked", "lock", "idle"} : pc' = [pc EXCEPT ![c] = l]
    BY <1>4, Zenon DEF ToIdle, Goto
  <2>2. arg' = [arg EXCEPT ![c] = None]
    BY <1>4, ZenonT(60) DEF ToIdle
  <2>. QED BY <1>1, <1>4, <2>1, <2>2, Parks, ZenonT(60)
<1>5. CASE ToIdle(c) /\ UNCHANGED <<rq, park>>
  <2>1. Calm(c)
    BY <1>1, <1>5, KnownTasks, StateSteps, InvParts, PlaceNames, ZenonT(60)
       DEF Calm, SchedType, Goto, ToIdle, Held, Leaving
  <2>. QED BY <2>1, CalmKeeps
<1>6. park \in [Cpu -> Task \cup {None}]
  BY InvParts DEF SchedType
<1>. QED BY <1>2, <1>3, <1>4, <1>5, <1>6, ZenonT(60) DEF SwitchAfter

-----------------------------------------------------------------------------
(* Kill and stop take a task out of every queue and slot *)

LEMMA Removes ==
  ASSUME Inv, NEW c \in Cpu, pc[c] \notin Leaving,
         NEW l \in {"unpark", "mark", "stopmark"}, NEW a \in Task \cup {None},
         a = arg[c] \/ a \in listed,
         pc' = [pc EXCEPT ![c] = l], arg' = [arg EXCEPT ![c] = a],
         rq' \in [Cpu -> Seq(Task)], park' \in [Cpu -> Task \cup {None}],
         \A d \in Cpu : /\ Dist(rq'[d]) /\ Elems(rq'[d]) \subseteq Elems(rq[d])
                        /\ park'[d] = park[d] \/ park'[d] = None,
         UNCHANGED <<state, cur, stk, listed, sleepers, starved, pending>>
  PROVE  Inv'
<1>1. /\ SchedType' /\ pc'[c] = l /\ arg'[c] = a
      /\ \A d \in Cpu \ {c} : pc'[d] = pc[d] /\ arg'[d] = arg[d]
  BY InvParts, PlaceNames DEF SchedType
<1>2. None \notin Task
  BY SchedAssumption, Zenon
<1>3. \A d \in Cpu, t \in Task : InFlight(d, t)' => InFlight(d, t)
  BY <1>1, Zenon DEF InFlight
<1>4. \A d \in Cpu, t \in Task : (Claimed(d, t)' => Claimed(d, t)) /\ (On(d, t)' => On(d, t))
  BY <1>2, <1>3, Zenon DEF Claimed, On
<1>5. Once'
  BY <1>2, <1>3, InvParts, ZenonT(60) DEF Once
<1>6. cur'[c] # None => ~Claimed(c, cur[c])'
  <2>1. SUFFICES ASSUME cur[c] # None PROVE ~Claimed(c, cur[c])'
    BY ZenonT(60)
  <2>2. PICK t \in Task : t = cur[c] /\ t = cur'[c]
    BY <2>1, InvParts, SMTT(30) DEF SchedType
  <2>3. ~Claimed(c, t)
    BY <2>1, <2>2, InvParts DEF Runs
  <2>4. ~Claimed(c, t)'
    BY <1>4, <2>3, ZenonT(60)
  <2>. QED BY <2>2, <2>4, ZenonT(60) DEF Claimed, InFlight
<1>7. arg'[c] = arg[c] \/ state[arg'[c]] # "absent"
  BY <1>1, KnownTasks
<1>8. StateKept
  BY StateSteps, Zenon
<1>. QED BY <1>1, <1>4, <1>5, <1>6, <1>7, <1>8, Keep, ZenonT(60) DEF StateKept

LEMMA RemoveSteps ==
  ASSUME Inv, NEW c \in Cpu,
         KillUnpark(c) \/ \E t \in Task : Kill(c, t) \/ Stop(c, t)
  PROVE  Inv'
<1>1. UNCHANGED <<state, cur, stk, listed, sleepers, starved, pending>>
  BY DEF KillUnpark, Kill, Stop, queues, memory, waits, family
<1>2. /\ rq \in [Cpu -> Seq(Task)] /\ park \in [Cpu -> Task \cup {None}]
      /\ arg \in [Cpu -> Task \cup {None}] /\ \A d \in Cpu : Dist(rq[d])
  BY InvParts, SMTT(30) DEF SchedType, Once
<1>3. ASSUME NEW t \in Task, rq_remove(t)
      PROVE  /\ rq' \in [Cpu -> Seq(Task)]
             /\ \A d \in Cpu : Dist(rq'[d]) /\ Elems(rq'[d]) \subseteq Elems(rq[d])
  BY <1>2, <1>3, RemoveFacts DEF rq_remove
<1>4. CASE KillUnpark(c)
  <2>1. /\ pc[c] = "unpark" /\ pc' = [pc EXCEPT ![c] = "mark"] /\ UNCHANGED <<rq, arg>>
        /\ park' = [d \in Cpu |-> IF park[d] = arg[c] THEN None ELSE park[d]]
    BY <1>4, SMTT(30) DEF KillUnpark, At, Goto
  <2>2. arg' = [arg EXCEPT ![c] = arg[c]] /\ arg[c] \in Task \cup {None}
    BY <1>2, <2>1
  <2>3. /\ park' \in [Cpu -> Task \cup {None}]
        /\ \A d \in Cpu : park'[d] = park[d] \/ park'[d] = None
    BY <1>2, <2>1, ZenonT(60)
  <2>4. pc[c] \notin Leaving
    BY <2>1 DEF Leaving
  <2>. QED BY <1>1, <1>2, <2>1, <2>2, <2>3, <2>4, Removes, ZenonT(60)
<1>5. ASSUME NEW t \in Task, Kill(c, t)
      PROVE  Inv'
  BY <1>1, <1>2, <1>3, <1>5, Removes, ZenonT(60) DEF Kill, InUser, At, Goto, Leaving
<1>6. ASSUME NEW t \in Task, Stop(c, t)
      PROVE  Inv'
  BY <1>1, <1>2, <1>3, <1>6, Removes, ZenonT(60) DEF Stop, InUser, At, Goto, Leaving
<1>. QED BY <1>4, <1>5, <1>6, ZenonT(60)

-----------------------------------------------------------------------------
(* sched_fork: a task that is nowhere yet is queued on one CPU *)

LEMMA ForkStep ==
  ASSUME Inv, NEW c \in Cpu, NEW t \in Task, Fork(c, t)
  PROVE  Inv'
<1>1. /\ pc[c] = "run" /\ pc' = [pc EXCEPT ![c] = "forked"] /\ arg' = [arg EXCEPT ![c] = t]
      /\ state[t] = "absent" /\ state' = [state EXCEPT ![t] = "READY"]
      /\ listed' = listed \cup {t}
      /\ UNCHANGED <<rq, park, cur, stk, sleepers, starved, pending>>
  BY Zenon DEF Fork, InUser, At, Goto, SetState, queues, memory, waits, family
<1>2. /\ SchedType' /\ pc'[c] = "forked" /\ arg'[c] = t
      /\ \A d \in Cpu \ {c} : pc'[d] = pc[d] /\ arg'[d] = arg[d]
      /\ \A u \in Task : state'[u] = IF u = t THEN "READY" ELSE state[u]
  BY <1>1, InvParts, PlaceNames, ZenonT(60) DEF SchedType
<1>3. ASSUME NEW d \in Cpu, NEW u
      PROVE  /\ InFlight(d, u)' <=> InFlight(d, u)
             /\ Claimed(d, u)' <=> Claimed(d, u)
             /\ On(d, u)' <=> On(d, u)
  <2>1. CASE d = c
    BY <1>1, <1>2, <2>1, ZenonT(60) DEF InFlight, Claimed, On
  <2>2. CASE d # c
    BY <1>1, <1>2, <2>2 DEF InFlight, Claimed, On
  <2>. QED BY <2>1, <2>2, Zenon
<1>4. Once' /\ Owner'
  BY <1>1, <1>3, InvParts, ZenonT(60) DEF Once, Owner
<1>5. ASSUME NEW d \in Cpu
      PROVE  /\ pc'[d] \in {"preempt", "park", "parked", "away"} => cur'[d] # None
             /\ pc'[d] \notin Leaving /\ cur'[d] # None => ~Claimed(d, cur[d])'
  <2>1. Claimed(d, cur[d])' <=> Claimed(d, cur[d])
    <3>1. PICK u : u = cur[d] /\ u = cur'[d]
      BY <1>1, Zenon
    <3>. QED BY <1>3, <3>1, Zenon DEF Claimed, InFlight
  <2>2. CASE d = c
    BY <1>1, <1>2, <2>1, <2>2, InvParts, ZenonT(60) DEF Runs, Leaving
  <2>3. CASE d # c
    BY <1>1, <1>2, <2>1, <2>3, InvParts, ZenonT(60) DEF Runs
  <2>. QED BY <2>2, <2>3
<1>6. Runs'
  BY <1>5, Zenon DEF Runs
<1>7. t \notin listed /\ \A d \in Cpu : ~On(d, t) /\ arg[d] # t
  BY <1>1, InvParts, Zenon DEF Fresh
<1>8. ASSUME NEW u \in Task, state'[u] = "absent"
      PROVE  u \notin listed' /\ \A d \in Cpu : ~On(d, u)' /\ arg'[d] # u
  <2>1. u # t /\ state[u] = "absent"
    BY <1>2, <1>8, Zenon
  <2>2. u \notin listed /\ \A d \in Cpu : ~On(d, u) /\ arg[d] # u
    BY <2>1, InvParts, Zenon DEF Fresh
  <2>. QED BY <1>1, <1>2, <1>3, <2>1, <2>2, ZenonT(60)
<1>9. ASSUME NEW d \in Cpu, pc'[d] = "forked"
      PROVE  /\ arg'[d] \in Task
             /\ \A e \in Cpu : /\ ~On(e, arg[d])'
                               /\ pc'[e] = "forked" /\ arg'[e] = arg'[d] => e = d
  <2>1. CASE d = c
    <3>1. \A e \in Cpu : ~On(e, t)'
      BY <1>3, <1>7, Zenon
    <3>2. \A e \in Cpu : ~On(e, arg[d])'
      BY <1>2, <2>1, <3>1, ZenonT(60) DEF On, Claimed, InFlight
    <3>. QED BY <1>2, <1>7, <2>1, <3>2, SMTT(30)
  <2>2. CASE d # c
    <3>1. pc[d] = "forked" /\ arg'[d] = arg[d]
      BY <1>2, <1>9, <2>2, Zenon
    <3>2. /\ arg[d] \in Task
          /\ \A e \in Cpu : /\ ~On(e, arg[d])
                            /\ pc[e] = "forked" /\ arg[e] = arg[d] => e = d
      BY <3>1, InvParts, Zenon DEF Fresh
    <3>3. PICK u \in Task : u = arg[d] /\ u = arg'[d]
      BY <3>1, <3>2, Zenon
    <3>4. \A e \in Cpu : ~On(e, u)'
      BY <1>3, <3>2, <3>3, ZenonT(60)
    <3>5. \A e \in Cpu : ~On(e, arg[d])'
      BY <3>3, <3>4, Zenon DEF On, Claimed, InFlight
    <3>6. \A e \in Cpu : pc'[e] = "forked" /\ arg'[e] = arg'[d] => e = d
      BY <1>2, <1>7, <3>1, <3>2, ZenonT(60)
    <3>. QED BY <3>1, <3>2, <3>5, <3>6, ZenonT(60)
  <2>. QED BY <2>1, <2>2, ZenonT(60)
<1>10. Fresh'
  BY <1>8, <1>9, SMTT(30) DEF Fresh
<1>. QED BY <1>2, <1>4, <1>6, <1>10, InvWhole, ZenonT(60)

LEMMA ForkQueueStep ==
  ASSUME Inv, NEW c \in Cpu, ForkQueue(c)
  PROVE  Inv'
<1>1. PICK a : rq' = [rq EXCEPT ![a] = Append(@, arg[c])]
  BY Zenon DEF ForkQueue, rq_push
<1>2. /\ pc[c] = "forked" /\ pc' = [pc EXCEPT ![c] = "after"]
      /\ UNCHANGED <<state, park, cur, stk, arg, listed, sleepers, starved, pending>>
  BY Zenon DEF ForkQueue, At, Goto, queues, memory, waits, family
<1>3. PICK t \in Task : t = arg[c]
  BY <1>2, InvParts, Zenon DEF Fresh
<1>4. /\ \A d \in Cpu : ~On(d, t)
      /\ \A d \in Cpu \ {c} : ~(pc[d] = "forked" /\ arg[d] = t)
      /\ state[t] # "absent"
  BY <1>2, <1>3, InvParts, Zenon DEF Fresh
<1>5. /\ rq \in [Cpu -> Seq(Task)] /\ pc \in [Cpu -> Places]
      /\ \A d \in Cpu : rq[d] \in Seq(Task) /\ Dist(rq[d]) /\ t \notin Elems(rq[d])
  BY <1>4, InvParts, ZenonT(60) DEF SchedType, Once, On, Claimed
<1>6. ASSUME NEW d \in Cpu
      PROVE  /\ rq'[d] \in Seq(Task) /\ Dist(rq'[d])
             /\ Elems(rq'[d]) = IF d = a THEN Elems(rq[d]) \cup {t} ELSE Elems(rq[d])
  <2>1. CASE d = a
    <3>1. rq'[d] = Append(rq[d], t)
      BY <1>1, <1>3, <1>5, <2>1, ZenonT(60)
    <3>. QED BY <1>5, <2>1, <3>1, PushFacts, SMTT(30)
  <2>2. CASE d # a
    <3>1. rq'[d] = rq[d]
      BY <1>1, <1>5, <2>2, ZenonT(60)
    <3>. QED BY <1>5, <2>2, <3>1
  <2>. QED BY <2>1, <2>2, ZenonT(60)
<1>7. pc'[c] = "after" /\ \A d \in Cpu \ {c} : pc'[d] = pc[d]
  BY <1>2, <1>5, SMTT(30)
<1>8. rq' \in [Cpu -> Seq(Task)]
  <2>1. DOMAIN rq' = Cpu /\ rq' = [d \in Cpu |-> rq'[d]]
    BY <1>1, <1>5, Zenon
  <2>. QED BY <1>6, <2>1
<1>9. SchedType'
  BY <1>2, <1>8, InvParts, PlaceNames, ZenonT(60) DEF SchedType
<1>10. \A d \in Cpu, u \in Task : InFlight(d, u)' <=> InFlight(d, u)
  BY <1>2, <1>7 DEF InFlight
<1>11. \A d \in Cpu, u \in Task :
         /\ Claimed(d, u)' <=> Claimed(d, u) \/ (u = t /\ d = a)
         /\ On(d, u)' <=> On(d, u) \/ (u = t /\ d = a)
  BY <1>2, <1>6, <1>10, ZenonT(60) DEF Claimed, On
<1>12. Once'
  <2>1. \A d \in Cpu : park[d] # t /\ ~InFlight(d, t)
    BY <1>4, ZenonT(60) DEF On, Claimed
  <2>. QED BY <1>2, <1>6, <1>10, <2>1, InvParts, ZenonT(60) DEF Once
<1>13. Owner'
  BY <1>4, <1>11, InvParts, SMTT(30) DEF Owner
<1>14. ASSUME NEW d \in Cpu
       PROVE  /\ pc'[d] \in {"preempt", "park", "parked", "away"} => cur'[d] # None
              /\ pc'[d] \notin Leaving /\ cur'[d] # None => ~Claimed(d, cur[d])'
  <2>1. cur[d] # None => (Claimed(d, cur[d])' <=> Claimed(d, cur[d]))
    <3>1. SUFFICES ASSUME cur[d] # None PROVE Claimed(d, cur[d])' <=> Claimed(d, cur[d])
      BY ZenonT(60)
    <3>2. PICK u \in Task : u = cur[d] /\ u = cur'[d]
      BY <1>2, <3>1, InvParts DEF SchedType
    <3>3. u # t
      BY <1>4, <3>2, Zenon DEF On
    <3>. QED BY <1>11, <3>2, <3>3, SMTT(30) DEF Claimed, InFlight
  <2>2. pc'[d] \notin Leaving => pc[d] \notin Leaving
    BY <1>2, <1>7, ZenonT(60) DEF Leaving
  <2>. QED BY <1>2, <1>7, <2>1, <2>2, InvParts, ZenonT(60) DEF Runs
<1>15. Runs'
  BY <1>14 DEF Runs
<1>16. ASSUME NEW u \in Task, state'[u] = "absent"
       PROVE  u \notin listed' /\ \A d \in Cpu : ~On(d, u)' /\ arg'[d] # u
  BY <1>2, <1>4, <1>11, <1>16, InvParts, ZenonT(60) DEF Fresh
<1>17. ASSUME NEW d \in Cpu, pc'[d] = "forked"
       PROVE  /\ arg'[d] \in Task
              /\ \A e \in Cpu : /\ ~On(e, arg[d])'
                                /\ pc'[e] = "forked" /\ arg'[e] = arg'[d] => e = d
  <2>1. d # c /\ pc[d] = "forked"
    BY <1>7, <1>17
  <2>2. /\ arg[d] \in Task
        /\ \A e \in Cpu : /\ ~On(e, arg[d])
                          /\ pc[e] = "forked" /\ arg[e] = arg[d] => e = d
    BY <2>1, InvParts, Zenon DEF Fresh
  <2>3. PICK u \in Task : u = arg[d] /\ u = arg'[d] /\ u # t
    BY <1>2, <1>4, <2>1, <2>2, ZenonT(60)
  <2>4. \A e \in Cpu : ~On(e, u)'
    BY <1>11, <2>2, <2>3, Zenon
  <2>5. \A e \in Cpu : ~On(e, arg[d])'
    BY <2>3, <2>4, ZenonT(60) DEF On, Claimed, InFlight
  <2>6. \A e \in Cpu : pc'[e] = "forked" /\ arg'[e] = arg'[d] => e = d
    BY <1>2, <1>7, <2>2, ZenonT(60)
  <2>. QED BY <2>2, <2>3, <2>5, <2>6, ZenonT(60)
<1>18. Fresh'
  BY <1>16, <1>17 DEF Fresh
<1>. QED BY <1>9, <1>12, <1>13, <1>15, <1>18, InvWhole, SMTT(30)

-----------------------------------------------------------------------------
(* The invariant holds, and it is enough *)

LEMMA InvInit ==
  ASSUME Init
  PROVE  Inv
<1>1. /\ First \in Task /\ None \notin Task /\ Bsp \in Cpu
  BY SchedAssumption DEF Cpu
<1>2. /\ <<First>> \in Seq(Task) /\ Dist(<<First>>) /\ Elems(<<First>>) = {First}
      /\ <<>> \in Seq(Task) /\ Dist(<<>>) /\ Elems(<<>>) = {}
  BY <1>1 DEF Dist, Elems
<1>3. \A c \in Cpu : /\ rq[c] \in Seq(Task) /\ Dist(rq[c])
                     /\ Elems(rq[c]) = IF c = Bsp THEN {First} ELSE {}
  BY <1>2, Zenon DEF Init
<1>4. SchedType
  <2>1. rq \in [Cpu -> Seq(Task)]
    BY <1>2, Zenon DEF Init
  <2>2. state \in [Task -> {"absent", "READY", "RUNNING", "STOPPED", "ZOMBIE"}]
    BY Zenon DEF Init
  <2>3. /\ cur \in [Cpu -> Task \cup {None}] /\ park \in [Cpu -> Task \cup {None}]
        /\ stk \in [Cpu -> Task \cup {None}] /\ arg \in [Cpu -> Task \cup {None}]
        /\ pc \in [Cpu -> Places]
    BY PlaceNames, Zenon DEF Init
  <2>. QED BY <1>1, <2>1, <2>2, <2>3, ZenonT(60) DEF SchedType, Init
<1>5. \A c \in Cpu : park[c] = None /\ cur[c] = None /\ stk[c] = None /\ arg[c] = None
                     /\ pc[c] = "run"
  BY ZenonT(60) DEF Init
<1>6. \A c \in Cpu, t \in Task : /\ ~InFlight(c, t)
                                 /\ Claimed(c, t) <=> c = Bsp /\ t = First
                                 /\ On(c, t) <=> c = Bsp /\ t = First
  BY <1>1, <1>3, <1>5 DEF InFlight, Claimed, On
<1>7. Once /\ Owner /\ Runs
  BY <1>1, <1>3, <1>5, <1>6, Zenon DEF Once, Owner, Runs
<1>8. \A t \in Task : state[t] = "absent" => t # First /\ t \notin listed
  BY Zenon DEF Init
<1>9. Fresh
  BY <1>1, <1>5, <1>6, <1>8, Zenon DEF Fresh
<1>. QED BY <1>4, <1>7, <1>9, SMTT(30) DEF Inv

LEMMA InvNext ==
  ASSUME Inv, NoWaker, Next
  PROVE  Inv'
<1>1. ASSUME NEW c \in Cpu, Scheduling(c)
      PROVE  Inv'
  <2>1. ~(ExitWoken(c) \/ KillWoken(c) \/ ContReady(c) \/ (c = Bsp /\ WakeSleeperReady))
    <3>1. pc[c] \notin WakePcs
      BY InvParts, ZenonT(60) DEF SchedType, Places
    <3>. QED BY <3>1, Zenon DEF ExitWoken, KillWoken, ContReady, WakeSleeperReady, At, WakePcs
  <2>. QED BY <1>1, <2>1, CalmSteps, SwitchLockStep, SwitchCommitStep, LeaveStep, TickPopStep,
              PreemptStep, ParkStep, SwitchAfterStep, ForkQueueStep, RemoveSteps, ZenonT(60)
           DEF Scheduling
<1>2. ASSUME NEW c \in Cpu, Entry(c)
      PROVE  Inv'
  <2>1. ~Sleep(c) /\ ~(\E t \in Task : Cont(c, t)) /\ ~(\E w \in Task \cup {AnyPid} : Waitpid(c, w))
    BY Zenon DEF Sleep, Cont, Waitpid, NoWaker, Wakers
  <2>. QED BY <1>2, <2>1, CalmSteps, ForkStep, RemoveSteps, SMTT(30) DEF Entry
<1>3. ASSUME NEW t \in Task, WakeSleeper(t) \/ KickStarved(t) \/ Starve(t) \/ ReapOrphan(t)
      PROVE  Inv'
  <2>1. ~WakeSleeper(t) /\ ~KickStarved(t) /\ ~Starve(t)
    BY InvParts DEF WakeSleeper, KickStarved, Starve, NoWaker, Wakers, SchedType
  <2>2. Bsp \in Cpu
    BY Zenon DEF Cpu
  <2>. QED BY <1>3, <2>1, <2>2, CalmSteps, ZenonT(60)
<1>4. ASSUME NEW c \in Cpu, Timer(c)
      PROVE  Inv'
  BY <1>4, CalmSteps, Zenon
<1>. QED BY <1>1, <1>2, <1>3, <1>4, ZenonT(60) DEF Next

LEMMA ClaimsAreClaimed ==
  ASSUME Inv, NEW t \in Task, NEW x \in Claims(t)
  PROVE  /\ x = <<x[1], x[2]>> /\ x[1] \in Cpu /\ Claimed(x[1], t)
         /\ \/ x[2] \in 1..Len(rq[x[1]]) /\ rq[x[1]][x[2]] = t
            \/ x[2] = 0 /\ park[x[1]] = t
            \/ x[2] = -1 /\ InFlight(x[1], t)
<1>1. CASE x \in QueueClaims(t)
  <2>1. PICK c \in Cpu : x \in {c} \X {i \in DOMAIN rq[c] : rq[c][i] = t}
    BY <1>1, ZenonT(60) DEF QueueClaims
  <2>2. x = <<c, x[2]>> /\ x[1] = c /\ x[2] \in DOMAIN rq[c] /\ rq[c][x[2]] = t
    BY <2>1, SMTT(30)
  <2>3. DOMAIN rq[c] = 1..Len(rq[c])
    BY InvParts, SMTT(30) DEF SchedType
  <2>. QED BY <2>2, <2>3, Zenon DEF Claimed, Elems
<1>2. CASE x \in ParkClaims(t)
  BY <1>2, SMTT(30) DEF ParkClaims, Claimed
<1>3. CASE x \in FlightClaims(t)
  BY <1>3, SMTT(20) DEF FlightClaims, Claimed
<1>. QED BY <1>1, <1>2, <1>3, ZenonT(60) DEF Claims

LEMMA InvOnePlace ==
  ASSUME Inv
  PROVE  OnePlace /\ OneCpu
<1>1. ASSUME NEW t \in Task, NEW x \in Claims(t), NEW y \in Claims(t)
      PROVE  x = y
  <2>1. x[1] = y[1] /\ x[1] \in Cpu
    BY ClaimsAreClaimed, InvParts DEF Owner, On
  <2>2. PICK c \in Cpu : c = x[1] /\ c = y[1]
    BY <2>1, Zenon
  <2>3. /\ Dist(rq[c]) /\ ~(t \in Elems(rq[c]) /\ park[c] = t)
        /\ ~(t \in Elems(rq[c]) /\ InFlight(c, t)) /\ ~(park[c] = t /\ InFlight(c, t))
    BY InvParts, Zenon DEF Once
  <2>4. /\ x = <<c, x[2]>>
        /\ \/ x[2] \in 1..Len(rq[c]) /\ rq[c][x[2]] = t
           \/ x[2] = 0 /\ park[c] = t
           \/ x[2] = -1 /\ InFlight(c, t)
    BY <2>2, ClaimsAreClaimed, Zenon
  <2>5. /\ y = <<c, y[2]>>
        /\ \/ y[2] \in 1..Len(rq[c]) /\ rq[c][y[2]] = t
           \/ y[2] = 0 /\ park[c] = t
           \/ y[2] = -1 /\ InFlight(c, t)
    BY <2>2, ClaimsAreClaimed, ZenonT(60)
  <2>6. x[2] = y[2]
    BY <2>3, <2>4, <2>5, SMTT(30) DEF Dist, Elems
  <2>. QED BY <2>4, <2>5, <2>6, ZenonT(60)
<1>3. ASSUME NEW t \in Task, NEW c \in Cpu, cur[c] = t, NEW x \in Claims(t)
      PROVE  x[1] = c
  BY <1>3, ClaimsAreClaimed, InvParts, SMTT(20) DEF Owner, On
<1>4. OneCpu
  <2>1. ASSUME NEW c \in Cpu, NEW d \in Cpu, c # d
        PROVE  /\ cur[c] # None => cur[c] # cur[d]
               /\ stk[c] # None => stk[c] # stk[d]
    <3>1. cur[c] \in Task \cup {None} /\ stk[c] \in Task \cup {None}
      BY InvParts DEF SchedType
    <3>. QED BY <2>1, <3>1, InvParts, ZenonT(60) DEF Owner, On
  <2>. QED BY <2>1, Zenon DEF OneCpu
<1>. QED BY <1>1, <1>3, <1>4, Zenon DEF OnePlace

(* sched.c 981-986, for any number of CPUs and of tasks: as long as no task
   sleeps, waits, is continued or is kicked as starved, a task is on one queue,
   parked or in flight at most once, on the CPU that still runs it if one does,
   and never current or standing on its stack on two CPUs.  Fork, yield, exit,
   preemption, kill, stop, signals and reaping all happen. *)
THEOREM OneRunnerHolds == Spec => [](NoWaker => OneRunner)
<1>1. Init => (NoWaker => Inv)
  BY InvInit
<1>2. (NoWaker => Inv) /\ [Next]_<<vars, up, ops>> => (NoWaker => Inv)'
  <2>1. ASSUME NoWaker => Inv, Next, NoWaker'
        PROVE  Inv'
    <3>1. ops' = ops
      BY <2>1 DEF Next
    <3>2. NoWaker
      BY <2>1, <3>1 DEF NoWaker
    <3>. QED BY <2>1, <3>2, InvNext, ZenonT(60)
  <2>2. ASSUME NoWaker => Inv, UNCHANGED <<vars, up, ops>>, NoWaker'
        PROVE  Inv'
    <3>1. /\ UNCHANGED <<state, rq, cur, park, stk, arg, pc, listed, sleepers, starved, pending>>
          /\ ops' = ops
      BY <2>2 DEF vars, queues, memory, waits, family, control
    <3>2. Inv
      BY <2>2, <3>1, Zenon DEF NoWaker
    <3>3. SchedType'
      BY <3>1, <3>2, InvParts, ZenonT(60) DEF SchedType
    <3>4. \A c \in Cpu, t \in Task : /\ InFlight(c, t)' <=> InFlight(c, t)
                                     /\ Claimed(c, t)' <=> Claimed(c, t)
                                     /\ On(c, t)' <=> On(c, t)
      BY <3>1 DEF InFlight, Claimed, On
    <3>5. Once' /\ Owner'
      BY <3>1, <3>2, <3>4, InvParts, ZenonT(60) DEF Once, Owner
    <3>6. Runs'
      BY <3>1, <3>2, InvParts, Zenon DEF Runs, Claimed, InFlight
    <3>7. Fresh'
      BY <3>1, <3>2, InvParts, ZenonT(60) DEF Fresh, On, Claimed, InFlight
    <3>. QED BY <3>3, <3>5, <3>6, <3>7, InvWhole, ZenonT(60)
  <2>. QED BY <2>1, <2>2
<1>3. (NoWaker => Inv) => (NoWaker => OneRunner)
  BY InvOnePlace DEF OneRunner
<1>. QED BY <1>1, <1>2, <1>3, PTL DEF Spec

=============================================================================
