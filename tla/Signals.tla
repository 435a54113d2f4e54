-------------------------------- MODULE Signals --------------------------------
(***************************************************************************)
(* Signals: sched_signal, deliver_pending_signal and its callers, the      *)
(* sigreturn trampoline and sys_sigreturn, sigaction, the blocked mask,    *)
(* and what fork and exec do to them.  A handler runs on the user stack of *)
(* the task: below the interrupted stack pointer come the address of the   *)
(* trampoline, the slot with the address of the saved frame, HSCRATCH      *)
(* cells and the frame.  The stack is modelled cell by cell; 8 bytes are   *)
(* one cell.  SIGKILL, SIGSTOP and SIGCONT are in Sched.                   *)
(***************************************************************************)
EXTENDS Integers, FiniteSets, FiniteSetsExt, WellFoundedInduction, TLAPS

CONSTANTS Task, First,    \* tasks; the one that exists first
          Sig,            \* signal numbers
          Frame, Scratch, \* cells of cpu_regs_t and of HSCRATCH
          Top, Bottom,    \* USER_STACK_TOP and the lowest legal address
          Pushes,         \* bound: cells a handler pushes
          MaxRaise,       \* bound: signals sent
          MaxExec         \* bound: programs a task runs

VARIABLES st,       \* task -> "none", "run" (in user code) or "dead"
          prog,     \* task -> which program of the task runs (exec counts)
          handler,  \* t->sig_handlers: 0 or the program it was installed by
          pending,  \* t->sig_pending
          blocked,  \* t->sig_blocked
          ctx,      \* the interrupted-to context: [at, sp], at = 0 the main
                    \*   program, k the handler entered by the k-th delivery
          base,     \* task -> sp at entry of the handler that runs
          mem,      \* task -> its stack cells
          saved,    \* task -> delivery -> the context it interrupted
          sent,     \* history: {<<task, sig, prog>>} raised and not blocked
          got,      \* history: the last delivery [task, sig, prog, from]
          resumed,  \* history: the last sigreturn [task, want, got]
          raised

vars == <<st, prog, handler, pending, blocked, ctx, base, mem, saved, sent, got,
          resumed, raised>>

Cells == Bottom .. Top - 1
Main == [at |-> 0, sp |-> Top]
NoDelivery == [task |-> First, sig |-> 0, prog |-> 0, from |-> 0]
NoReturn == [task |-> First, want |-> Main, got |-> Main]

Init ==
  /\ st = [t \in Task |-> IF t = First THEN "run" ELSE "none"]
  /\ prog = [t \in Task |-> 1]
  /\ handler = [t \in Task |-> [s \in Sig |-> 0]]
  /\ pending = [t \in Task |-> {}]
  /\ blocked = [t \in Task |-> {}]
  /\ ctx = [t \in Task |-> Main]
  /\ base = [t \in Task |-> Top]
  /\ mem = [t \in Task |-> [c \in Cells |-> <<"zero">>]]
  /\ saved = [t \in Task |-> << >>]
  /\ sent = {} /\ got = NoDelivery /\ resumed = NoReturn /\ raised = 0

-----------------------------------------------------------------------------
(* Faulty variants of the definitions below.                               *)

(* The child is given what was pending for its parent. *)
ForkPendingKept(t) == pending[t]

(* exec keeps the handlers of the program it replaces. *)
ExecHandlersKept(t) == handler[t]

-----------------------------------------------------------------------------
(* System calls.                                                           *)

Sigaction(t, s, on) ==
  /\ st[t] = "run"
  /\ handler' = [handler EXCEPT ![t][s] = IF on THEN prog[t] ELSE 0]
  /\ UNCHANGED <<st, prog, pending, blocked, ctx, base, mem, saved, sent, got, resumed,
                 raised>>

(* rt_sigprocmask with SIG_SETMASK *)
Mask(t, set) ==
  /\ st[t] = "run" /\ blocked[t] # set
  /\ blocked' = [blocked EXCEPT ![t] = set]
  /\ UNCHANGED <<st, prog, handler, pending, ctx, base, mem, saved, sent, got, resumed,
                 raised>>

(* sched_signal: a blocked signal is dropped, not kept *)
Raise(t, s) ==
  /\ raised < MaxRaise
  /\ st[t] = "run"
  /\ raised' = raised + 1
  /\ IF s \in blocked[t] THEN UNCHANGED <<pending, sent>>
     ELSE /\ pending' = [pending EXCEPT ![t] = @ \union {s}]
          /\ sent' = sent \union {<<t, s, prog[t]>>}
  /\ UNCHANGED <<st, prog, handler, blocked, ctx, base, mem, saved, got, resumed>>

ForkPending(t) == {}

(* fork and clone: the handlers and the mask are copied *)
Fork(t, c) ==
  /\ st[t] = "run" /\ st[c] = "none"
  /\ st' = [st EXCEPT ![c] = "run"]
  /\ prog' = [prog EXCEPT ![c] = prog[t]]
  /\ handler' = [handler EXCEPT ![c] = handler[t]]
  /\ pending' = [pending EXCEPT ![c] = ForkPending(t)]
  /\ blocked' = [blocked EXCEPT ![c] = blocked[t]]
  /\ ctx' = [ctx EXCEPT ![c] = ctx[t]]
  /\ base' = [base EXCEPT ![c] = base[t]]
  /\ mem' = [mem EXCEPT ![c] = mem[t]]
  /\ saved' = [saved EXCEPT ![c] = saved[t]]
  /\ UNCHANGED <<sent, got, resumed, raised>>

ExecHandlers(t) == [s \in Sig |-> 0]

(* the end of user_exec: a fresh stack, no handler, nothing pending or     *)
(* blocked                                                                 *)
Exec(t) ==
  /\ st[t] = "run" /\ prog[t] < MaxExec
  /\ prog' = [prog EXCEPT ![t] = @ + 1]
  /\ handler' = [handler EXCEPT ![t] = ExecHandlers(t)]
  /\ pending' = [pending EXCEPT ![t] = {}]
  /\ blocked' = [blocked EXCEPT ![t] = {}]
  /\ ctx' = [ctx EXCEPT ![t] = Main]
  /\ base' = [base EXCEPT ![t] = Top]
  /\ mem' = [mem EXCEPT ![t] = [c \in Cells |-> <<"zero">>]]
  /\ saved' = [saved EXCEPT ![t] = << >>]
  /\ UNCHANGED <<st, sent, got, resumed, raised>>

-----------------------------------------------------------------------------
(* Delivery, from sched_tick or sched_after_isr on a user frame: the       *)
(* lowest pending signal that is not blocked.                              *)

Due(t) == pending[t] \ blocked[t]

RetVa(sp) == sp - 1
FpSlot(sp) == RetVa(sp) - 1
FrameVa(sp) == FpSlot(sp) - Frame - Scratch

WriteFrame(m, sp, k) ==
  [c \in Cells |->
     CASE c = RetVa(sp) -> <<"trampoline">>
       [] c = FpSlot(sp) -> <<"fp", FrameVa(sp)>>
       [] c \in FrameVa(sp) .. FrameVa(sp) + Frame - 1 -> <<"frame", k, c - FrameVa(sp)>>
       [] OTHER -> m[c]]

Die(t) ==
  /\ st' = [st EXCEPT ![t] = "dead"]
  /\ UNCHANGED <<ctx, base, mem, saved>>

Deliver(t) ==
  /\ st[t] = "run" /\ Due(t) # {}
  /\ LET s == Min(Due(t))
         sp == ctx[t].sp
         k == Cardinality(DOMAIN saved[t]) + 1
     IN  /\ pending' = [pending EXCEPT ![t] = @ \ {s}]
         /\ got' = [task |-> t, sig |-> s, prog |-> prog[t], from |-> handler[t][s]]
         /\ IF handler[t][s] = 0 \/ FrameVa(sp) < Bottom THEN Die(t)
            ELSE /\ mem' = [mem EXCEPT ![t] = WriteFrame(@, sp, k)]
                 /\ saved' = [saved EXCEPT ![t] =
                                [j \in 1 .. k |-> IF j = k THEN ctx[t] ELSE saved[t][j]]]
                 /\ ctx' = [ctx EXCEPT ![t] = [at |-> k, sp |-> RetVa(sp)]]
                 /\ base' = [base EXCEPT ![t] = RetVa(sp)]
                 /\ UNCHANGED st
  /\ UNCHANGED <<prog, handler, blocked, sent, resumed, raised>>

(* The handler calls and saves registers as any function does.             *)
Push(t) ==
  /\ st[t] = "run" /\ ctx[t].at > 0
  /\ base[t] - ctx[t].sp < Pushes /\ ctx[t].sp > Bottom
  /\ ctx' = [ctx EXCEPT ![t].sp = @ - 1]
  /\ mem' = [mem EXCEPT ![t][ctx[t].sp - 1] = <<"local">>]
  /\ UNCHANGED <<st, prog, handler, pending, blocked, base, saved, sent, got, resumed,
                 raised>>

-----------------------------------------------------------------------------
(* The handler pops what it pushed and returns into the trampoline, which  *)
(* loads the slot and calls sys_sigreturn: the frame must lie in the user  *)
(* range and its cs, ss and rip must be those of a user context.  A frame  *)
(* of mixed cells is some other context.                                   *)

FrameAt(t, va) ==
  {k \in DOMAIN saved[t] : \A i \in 0 .. Frame - 1 : mem[t][va + i] = <<"frame", k, i>>}

Slot(t) == mem[t][base[t] - 1]

Sigreturn(t) ==
  /\ st[t] = "run" /\ ctx[t].at > 0
  /\ UNCHANGED <<prog, handler, pending, blocked, mem, sent, got, raised>>
  /\ LET k == ctx[t].at
         back == IF Slot(t)[1] = "fp" THEN FrameAt(t, Slot(t)[2]) ELSE {}
     IN  IF back = {}
         THEN /\ st' = [st EXCEPT ![t] = "dead"]
              /\ resumed' = [task |-> t, want |-> saved[t][k], got |-> [at |-> -1, sp |-> 0]]
              /\ UNCHANGED <<ctx, base, saved>>
         ELSE LET c == saved[t][CHOOSE j \in back : TRUE]
              IN  /\ ctx' = [ctx EXCEPT ![t] = c]
                  /\ resumed' = [task |-> t, want |-> saved[t][k], got |-> c]
                  /\ base' = [base EXCEPT ![t] =
                                IF c.at = 0 THEN Top ELSE RetVa(saved[t][c.at].sp)]
                  /\ saved' = [saved EXCEPT ![t] = [j \in 1 .. c.at |-> saved[t][j]]]
                  /\ UNCHANGED st

Next ==
  \/ \E t \in Task, s \in Sig, on \in BOOLEAN : Sigaction(t, s, on)
  \/ \E t \in Task, set \in {{}, Sig} : Mask(t, set)
  \/ \E t \in Task, s \in Sig : Raise(t, s)
  \/ \E t, c \in Task : Fork(t, c)
  \/ \E t \in Task : Exec(t) \/ Deliver(t) \/ Push(t) \/ Sigreturn(t)

Spec == Init /\ [][Next]_vars

-----------------------------------------------------------------------------
(* Properties.                                                             *)

(* A signal reaches a task only if it was sent to that task while its      *)
(* present program ran, and it enters a handler only if that program       *)
(* installed it: what was pending or installed before an exec dies with    *)
(* the old image ("exec resets signal state"), and a forked child inherits *)
(* nothing pending.                                                        *)
SignalsBelong ==
  got.sig # 0 =>
    /\ <<got.task, got.sig, got.prog>> \in sent
    /\ got.from \in {0, got.prog}

(* A handler that returns brings its task back to the context the signal   *)
(* interrupted: its pushes and the signals that arrive meanwhile leave the *)
(* saved frame alone (deliver_pending_signal: "the saved frame below it is *)
(* NEVER touched").                                                        *)
HandlerReturns == resumed.got = resumed.want

-----------------------------------------------------------------------------
(* Signals reach only the program they were sent to, and only the handlers *)
(* it installed, for any number of tasks, signals, forks and execs.        *)

SigType ==
  /\ prog \in [Task -> Nat]
  /\ handler \in [Task -> [Sig -> Nat]]
  /\ pending \in [Task -> SUBSET Sig]

(* What is installed belongs to the present program, and what is pending was
   sent to it: the part of SignalsBelong that the next delivery needs. *)
SigInv ==
  /\ SigType
  /\ \A t \in Task, s \in Sig : handler[t][s] \in {0, prog[t]}
  /\ \A t \in Task : \A s \in pending[t] : <<t, s, prog[t]>> \in sent
  /\ SignalsBelong

-----------------------------------------------------------------------------
(* The lowest of some signals is one of them. *)
LEMMA MinOf ==
  ASSUME NEW T \in SUBSET Nat, T # {}
  PROVE  Min(T) \in T
<1>1. PICK x \in T : \A y \in T : ~ (<<y, x>> \in OpToRel(<, Nat))
  BY WFMin, NatLessThanWellFounded
<1>2. \A y \in T : x <= y
  <2>1. ASSUME NEW y \in T
        PROVE  x <= y
    <3>1. x \in Nat /\ y \in Nat
      OBVIOUS
    <3>2. ~(y < x)
      BY <1>1, <3>1, Zenon DEF OpToRel
    <3>. QED BY <3>1, <3>2
  <2>. QED BY <2>1
<1>. QED BY <1>2, Zenon DEF Min

LEMMA SigInvInit ==
  ASSUME Sig \subseteq Nat, Init
  PROVE  SigInv
BY DEF Init, SigInv, SigType, SignalsBelong, NoDelivery

LEMMA SigInvNext ==
  ASSUME Sig \subseteq Nat, SigInv, [Next]_vars
  PROVE  SigInv'
<1>. USE DEF SigInv, SigType
<1>1. ASSUME NEW t \in Task, NEW s \in Sig, NEW on \in BOOLEAN, Sigaction(t, s, on)
      PROVE  SigInv'
  BY <1>1, Zenon DEF Sigaction, SignalsBelong
<1>2. ASSUME NEW t \in Task, NEW set, Mask(t, set)
      PROVE  SigInv'
  BY <1>2 DEF Mask, SignalsBelong
<1>3. ASSUME NEW t \in Task, NEW s \in Sig, Raise(t, s)
      PROVE  SigInv'
  <2>1. CASE s \in blocked[t]
    BY <1>3, <2>1, Zenon DEF Raise, SignalsBelong
  <2>2. CASE s \notin blocked[t]
    <3>1. /\ pending' = [pending EXCEPT ![t] = @ \union {s}]
          /\ sent' = sent \union {<<t, s, prog[t]>>}
          /\ UNCHANGED <<prog, handler, got>>
      BY <1>3, <2>2 DEF Raise
    <3>2. SigType'
      BY <3>1
    <3>3. \A u \in Task : \A r \in pending'[u] : <<u, r, prog'[u]>> \in sent'
      BY <3>1
    <3>4. SignalsBelong'
      BY <3>1 DEF SignalsBelong
    <3>. QED BY <3>1, <3>2, <3>3, <3>4
  <2>. QED BY <2>1, <2>2
<1>4. ASSUME NEW t \in Task, NEW c \in Task, Fork(t, c)
      PROVE  SigInv'
  BY <1>4 DEF Fork, ForkPending, SignalsBelong
<1>5. ASSUME NEW t \in Task, Exec(t)
      PROVE  SigInv'
  BY <1>5 DEF Exec, ExecHandlers, SignalsBelong
<1>6. ASSUME NEW t \in Task, Deliver(t)
      PROVE  SigInv'
  <2>1. PICK s \in Due(t) : s = Min(Due(t))
    <3>1. Due(t) \in SUBSET Nat /\ Due(t) # {}
      BY <1>6, Zenon DEF Deliver, Due
    <3>. QED BY <3>1, MinOf, SMTT(30)
  <2>2. s \in pending[t] /\ s \in Sig
    BY DEF Due
  <2>3. /\ pending' = [pending EXCEPT ![t] = @ \ {s}]
        /\ got' = [task |-> t, sig |-> s, prog |-> prog[t], from |-> handler[t][s]]
        /\ UNCHANGED <<prog, handler, sent>>
    BY <1>6, <2>1 DEF Deliver
  <2>4. SignalsBelong'
    BY <2>2, <2>3 DEF SignalsBelong
  <2>. QED BY <2>2, <2>3, <2>4
<1>7. ASSUME NEW t \in Task, Push(t)
      PROVE  SigInv'
  BY <1>7 DEF Push, SignalsBelong
<1>8. ASSUME NEW t \in Task, Sigreturn(t)
      PROVE  SigInv'
  BY <1>8 DEF Sigreturn, SignalsBelong
<1>9. CASE UNCHANGED vars
  BY <1>9 DEF vars, SignalsBelong
<1>. QED BY <1>1, <1>2, <1>3, <1>4, <1>5, <1>6, <1>7, <1>8, <1>9 DEF Next

(* deliver_pending_signal hands a task only signals that were sent to it while
   its present program ran, and enters only handlers that program installed;
   fork and exec, in any order, do not change that. *)
THEOREM SignalsBelongHolds ==
  ASSUME Sig \subseteq Nat
  PROVE  Spec => []SignalsBelong
<1>1. Init => SigInv
  BY SigInvInit
<1>2. SigInv /\ [Next]_vars => SigInv'
  BY SigInvNext
<1>3. SigInv => SignalsBelong
  BY DEF SigInv
<1>. QED BY <1>1, <1>2, <1>3, PTL DEF Spec
=============================================================================
