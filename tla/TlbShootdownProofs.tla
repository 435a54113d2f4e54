------------------------ MODULE TlbShootdownProofs ------------------------
(***************************************************************************)
(* NoStaleOnAps for any number of CPUs, pages and editors, whatever locks   *)
(* they hold: an AP whose acknowledgement was never given up on keeps no    *)
(* entry of a page whose shootdown has returned.                            *)
(*                                                                          *)
(* The invariant has two halves.  The request words of such an AP tell the  *)
(* truth: it has answered all it was asked, except the request the holder   *)
(* of g_tlb_lock is waiting for.  And every entry it has of an unmapped     *)
(* page has a reason: a CPU that is shooting the page down and has not yet  *)
(* had this AP's answer.                                                    *)
(***************************************************************************)
EXTENDS TlbShootdown, TLAPS

\* TypeOK without the bound on g_tlb_seq.
Typed ==
  /\ mapped \subseteq Va
  /\ tlb \in [Cpu -> SUBSET Va]
  /\ pc \in [Cpu -> {"run", "switch", "reap", "held", "lock", "post", "wait", "done"}]
  /\ job \in [Cpu -> Va \cup {All}]
  /\ todo \in [Cpu -> SUBSET Ap]
  /\ seq \in Nat
  /\ req \in [Cpu -> Nat] /\ gen \in [Cpu -> Nat]
  /\ what \in [Cpu -> Va \cup {All}]
  /\ isr \in [Cpu -> {"no", "flush", "ack"}]

\* One CPU at a time is between spin_lock and spin_unlock of g_tlb_lock.
Locked == \A c \in Cpu : pc[c] \in {"post", "wait"} => tlbLock = c

TodoTargets ==
  \A c \in Cpu : pc[c] \in {"post", "wait"} => todo[c] \subseteq Targets(c)

\* c has posted its request to d and has not yet seen the answer.
Awaits(c, d) ==
  \/ pc[c] = "post" /\ d \in Targets(c) /\ d \notin todo[c]
  \/ pc[c] = "wait" /\ d \in todo[c]

Quiet(d) ==
  (\A c \in Cpu : ~Awaits(c, d)) => gen[d] = req[d] /\ isr[d] = "no"

Asked(d) == \A c \in Cpu : Awaits(c, d) => req[d] = seq /\ what[d] = job[c]

Numbers(d) ==
  /\ gen[d] <= req[d] /\ req[d] <= seq
  /\ \A c \in Cpu : pc[c] = "post" /\ d \in todo[c] => req[d] < seq

Answering(d) == isr[d] # "no" => gen[d] < req[d]

\* Why d may still cache v when v is not mapped: c has yet to reach d.
Reason(c, d, v) ==
  /\ c # d /\ pc[c] \in {"lock", "post", "wait"} /\ job[c] = v
  /\ pc[c] = "wait" => d \in todo[c]
  /\ Awaits(c, d) => gen[d] < seq /\ isr[d] # "ack"

Why(d) ==
  \A v \in Va : v \in tlb[d] /\ v \notin mapped => \E c \in Cpu : Reason(c, d, v)

Truthful(d) == Quiet(d) /\ Asked(d) /\ Numbers(d) /\ Answering(d)

Inv == Typed /\ Locked /\ TodoTargets

IInv == Inv /\ \A d \in Ap \ late : Truthful(d) /\ Why(d)

\* Nothing is cached and nothing asked at the start.
LEMMA InitIInv == Init => IInv
<1> SUFFICES ASSUME Init PROVE IInv
  OBVIOUS
<1>1. Inv
  BY DEF Init, Inv, Typed, Locked, TodoTargets
<1>2. ASSUME NEW d \in Ap PROVE Truthful(d) /\ Why(d)
  <2>1. d \in Cpu /\ \A c \in Cpu : ~Awaits(c, d)
    BY DEF Init, Awaits, Cpu
  <2>2. Quiet(d) /\ Asked(d) /\ Numbers(d) /\ Answering(d)
    BY <2>1 DEF Init, Quiet, Asked, Numbers, Answering
  <2>3. Why(d)
    BY <2>1 DEF Init, Why
  <2> QED
    BY <2>2, <2>3 DEF Truthful
<1> QED
  BY <1>1, <1>2 DEF IInv

\* Two CPUs are never both inside smp_tlb_flush_others with the lock.
LEMMA OneSender ==
  ASSUME Inv, NEW c \in Cpu, NEW x \in Cpu,
         pc[c] \in {"post", "wait"}, pc[x] \in {"post", "wait"}
  PROVE  x = c
BY DEF Inv, Locked

-----------------------------------------------------------------------------
\* The part of the invariant that speaks of no AP in particular.

LEMMA SenderInv ==
  ASSUME Inv, NEW c \in Cpu,
         \/ TlbLock(c) \/ Posted(c) \/ TlbUnlock(c)
         \/ SwitchLock(c) \/ SwitchUnlock(c)
         \/ \E d \in Ap : Post(c, d) \/ WaitAck(c, d) \/ Timeout(c, d)
  PROVE  Inv'
<1> USE DEF Inv
<1>1. CASE TlbLock(c)
  <2>1. Typed'
    BY <1>1 DEF Typed, TlbLock, handler, Targets
  <2>2. Locked' /\ TodoTargets'
    BY <1>1, TlbAssumption DEF Typed, TlbLock, Locked, TodoTargets, Targets, Cpu
  <2> QED
    BY <2>1, <2>2
<1>2. CASE Posted(c)
  <2>1. Typed'
    BY <1>2 DEF Typed, Posted, handler, Targets
  <2>2. Locked' /\ TodoTargets'
    BY <1>2 DEF Typed, Posted, Locked, TodoTargets, Targets
  <2> QED
    BY <2>1, <2>2
<1>3. CASE TlbUnlock(c)
  <2>1. Typed'
    BY <1>3 DEF Typed, TlbUnlock, handler
  <2>2. ASSUME NEW x \in Cpu, pc'[x] \in {"post", "wait"}
        PROVE  tlbLock' = x /\ todo'[x] \subseteq Targets(x)
    BY <1>3, <2>2, OneSender DEF Typed, TlbUnlock
  <2>3. Locked' /\ TodoTargets'
    BY <2>2 DEF Locked, TodoTargets, Targets
  <2> QED
    BY <2>1, <2>3
<1>4. CASE SwitchLock(c) \/ SwitchUnlock(c)
  <2>1. Typed'
    BY <1>4 DEF Typed, SwitchLock, SwitchUnlock, handler
  <2>2. Locked' /\ TodoTargets'
    BY <1>4 DEF Typed, SwitchLock, SwitchUnlock, Locked, TodoTargets, Targets
  <2> QED
    BY <2>1, <2>2
<1>5. ASSUME NEW d \in Ap, Post(c, d) \/ WaitAck(c, d) \/ Timeout(c, d)
      PROVE  Inv'
  <2>1. Typed'
    BY <1>5 DEF Typed, Post, WaitAck, Timeout, handler, Cpu
  <2>2. Locked' /\ TodoTargets'
    BY <1>5 DEF Typed, Post, WaitAck, Timeout, Locked, TodoTargets, Targets
  <2> QED
    BY <2>1, <2>2
<1> QED
  BY <1>1, <1>2, <1>3, <1>4, <1>5

LEMMA EditInv ==
  ASSUME Inv, NEW c \in Cpu,
         \/ ShootdownAll(c) \/ WantSwitchLock(c)
         \/ \E v \in Va : Unmap(c, v) \/ Remap(c, v)
  PROVE  Inv'
<1> USE DEF Inv
<1>1. Typed'
  <2>1. CASE ShootdownAll(c) \/ WantSwitchLock(c)
    BY <2>1 DEF Typed, ShootdownAll, WantSwitchLock, Flush, handler
  <2>2. CASE \E v \in Va : Unmap(c, v) \/ Remap(c, v)
    BY <2>2 DEF Typed, Unmap, Remap, Flush, handler
  <2> QED
    BY <2>1, <2>2
<1>2. Locked' /\ TodoTargets'
  BY DEF Typed, ShootdownAll, WantSwitchLock, Unmap, Remap, Locked, TodoTargets,
         Targets
<1> QED
  BY <1>1, <1>2

LEMMA HandlerInv ==
  ASSUME Inv, NEW c \in Cpu,
         Handler(c) \/ \E v \in Va : Fill(c, v)
  PROVE  Inv'
<1> USE DEF Inv
<1>1. Typed'
  <2>1. CASE Handler(c)
    BY <2>1 DEF Typed, Handler, TakeIpi, HandlerFlush, HandlerAck, Flush
  <2>2. CASE \E v \in Va : Fill(c, v)
    BY <2>2 DEF Typed, Fill, handler
  <2> QED
    BY <2>1, <2>2
<1>2. UNCHANGED <<pc, todo, tlbLock>>
  BY DEF Handler, TakeIpi, HandlerFlush, HandlerAck, Fill
<1>3. Locked' /\ TodoTargets'
  BY <1>2 DEF Locked, TodoTargets, Targets
<1> QED
  BY <1>1, <1>3

-----------------------------------------------------------------------------
\* One AP d that was never given up on.

\* Editing the tables and taking g_switch_lock move no request; an unmapped
\* page that d caches gets the editor as its reason.
LEMMA EditServes ==
  ASSUME Inv, NEW c \in Cpu, NEW d \in Ap, Truthful(d), Why(d),
         \/ ShootdownAll(c) \/ WantSwitchLock(c) \/ SwitchLock(c) \/ SwitchUnlock(c)
         \/ \E v \in Va : Unmap(c, v) \/ Remap(c, v)
  PROVE  Truthful(d)' /\ Why(d)'
<1> USE DEF Inv
<1>0. d \in Cpu /\ UNCHANGED <<todo, seq, handler>>
      /\ pc[c] \in {"run", "switch", "reap", "held"}
      /\ pc'[c] \in {"run", "switch", "reap", "held", "lock"}
      /\ \A x \in Cpu \ {c} : pc'[x] = pc[x] /\ job'[x] = job[x]
  BY DEF Typed, Unmap, ShootdownAll, WantSwitchLock, Remap, SwitchLock,
         SwitchUnlock, CanEdit, Runs, Cpu
<1>1. \A x \in Cpu : Awaits(x, d)' <=> Awaits(x, d)
  BY <1>0, SMTT(30) DEF Awaits, Targets
<1>2. \A x \in Cpu : Awaits(x, d) => x # c
  BY <1>0, SMTT(30) DEF Awaits
<1>3. Truthful(d)'
  BY <1>0, <1>1, <1>2 DEF Truthful, Quiet, Asked, Numbers, Answering, handler
<1>4. \A x \in Cpu, v \in Va : Reason(x, d, v) => Reason(x, d, v)'
  BY <1>0, <1>1 DEF Reason, handler
<1>5. ASSUME NEW v \in Va, v \in tlb'[d], v \notin mapped'
      PROVE  \E x \in Cpu : Reason(x, d, v)'
  <2>1. v \in tlb[d]
    BY <1>5, <1>0 DEF Typed, Unmap, ShootdownAll, WantSwitchLock, Remap,
                      SwitchLock, SwitchUnlock, Flush
  <2>2. CASE v \notin mapped
    BY <2>1, <2>2, <1>4 DEF Why
  <2>3. CASE v \in mapped
    <3>1. Unmap(c, v)
      BY <1>5, <2>3 DEF Unmap, ShootdownAll, WantSwitchLock, Remap, SwitchLock,
                        SwitchUnlock
    <3>2. d # c
      BY <3>1, <1>5 DEF Typed, Unmap, Flush
    <3>3. pc'[c] = "lock" /\ job'[c] = v
      BY <3>1, SMTT(30) DEF Typed, Unmap
    <3>4. Reason(c, d, v)'
      BY <3>2, <3>3, SMTT(30) DEF Reason, Awaits
    <3> QED
      BY <3>4
  <2> QED
    BY <2>2, <2>3
<1> QED
  BY <1>3, <1>5 DEF Why

\* Taking g_tlb_lock: nobody awaits an answer, before or after.
LEMMA LockServes ==
  ASSUME Inv, NEW c \in Cpu, NEW d \in Ap, Truthful(d), Why(d), TlbLock(c)
  PROVE  Truthful(d)' /\ Why(d)'
<1> USE DEF Inv
<1>0. d \in Cpu /\ UNCHANGED <<mapped, tlb, job, handler>> /\ seq' = seq + 1
      /\ pc[c] = "lock" /\ pc'[c] = "post" /\ todo'[c] = Targets(c)
      /\ \A x \in Cpu \ {c} : pc'[x] = pc[x] /\ todo'[x] = todo[x]
  BY DEF Typed, TlbLock, Cpu
<1>1. \A x \in Cpu : pc[x] \notin {"post", "wait"}
  BY TlbAssumption DEF TlbLock, Locked
<1>2. \A x \in Cpu : ~Awaits(x, d) /\ ~Awaits(x, d)'
  BY <1>0, <1>1, SMTT(30) DEF Awaits, Targets
<1>3. Truthful(d)'
  BY <1>0, <1>1, <1>2, SMTT(30) DEF Typed, Truthful, Quiet, Asked, Numbers, Answering, handler
<1>4. \A x \in Cpu, v \in Va : Reason(x, d, v) => Reason(x, d, v)'
  BY <1>0, <1>1, <1>2 DEF Reason
<1> QED
  BY <1>0, <1>3, <1>4 DEF Why

\* Posting to d0: d is asked now, or nothing of d's changes.
LEMMA PostServes ==
  ASSUME Inv, NEW c \in Cpu, NEW d0 \in Ap, NEW d \in Ap, Truthful(d), Why(d),
         Post(c, d0)
  PROVE  Truthful(d)' /\ Why(d)'
<1> USE DEF Inv
<1>0. d \in Cpu /\ UNCHANGED <<mapped, tlb, pc, job, seq, gen, isr>>
      /\ pc[c] = "post" /\ d0 \in todo[c] /\ todo'[c] = todo[c] \ {d0}
      /\ \A x \in Cpu \ {c} : todo'[x] = todo[x] /\ ~Awaits(x, d)
                              /\ pc[x] \notin {"post", "wait"}
  BY OneSender, SMTT(30) DEF Typed, Post, Cpu, Awaits
<1>1. CASE d = d0
  <2>1. d \in Targets(c) /\ ~Awaits(c, d) /\ req[d] < seq
    BY <1>0, <1>1 DEF TodoTargets, Awaits, Truthful, Numbers
  <2>2. gen[d] = req[d] /\ isr[d] = "no"
    BY <1>0, <2>1 DEF Truthful, Quiet
  <2>3. Awaits(c, d)' /\ \A x \in Cpu \ {c} : ~Awaits(x, d)'
    BY <1>0, <1>1, <2>1 DEF Awaits, Targets
  <2>4. req'[d] = seq /\ what'[d] = job[c]
    BY <1>0, <1>1, SMTT(30) DEF Typed, Post
  <2>5. Truthful(d)'
    BY <1>0, <1>1, <2>1, <2>2, <2>3, <2>4, SMTT(30)
       DEF Typed, Truthful, Quiet, Asked, Numbers, Answering
  <2>6. \A x \in Cpu, v \in Va : Reason(x, d, v) => Reason(x, d, v)'
    BY <1>0, <2>1, <2>2, <2>3 DEF Reason
  <2> QED
    BY <1>0, <2>5, <2>6, SMTT(30) DEF Why
<1>2. CASE d # d0
  <2>1. req'[d] = req[d] /\ what'[d] = what[d]
    BY <1>0, <1>2, SMTT(30) DEF Typed, Post
  <2>2. \A x \in Cpu : Awaits(x, d)' <=> Awaits(x, d)
    BY <1>0, <1>2, SMTT(30) DEF Awaits, Targets
  <2>3. Truthful(d)'
    BY <1>0, <1>2, <2>1, <2>2 DEF Truthful, Quiet, Asked, Numbers, Answering
  <2>4. \A x \in Cpu, v \in Va : Reason(x, d, v) => Reason(x, d, v)'
    BY <1>0, <1>2, <2>2, SMTT(30) DEF Reason
  <2> QED
    BY <1>0, <2>3, <2>4 DEF Why
<1> QED
  BY <1>1, <1>2

\* From posting to waiting: the same answers are awaited.
LEMMA PostedServes ==
  ASSUME Inv, NEW c \in Cpu, NEW d \in Ap, Truthful(d), Why(d), Posted(c)
  PROVE  Truthful(d)' /\ Why(d)'
<1> USE DEF Inv
<1>0. d \in Cpu /\ UNCHANGED <<mapped, tlb, job, seq, handler>>
      /\ pc[c] = "post" /\ todo[c] = {} /\ pc'[c] = "wait" /\ todo'[c] = Targets(c)
      /\ \A x \in Cpu \ {c} : pc'[x] = pc[x] /\ todo'[x] = todo[x]
  BY DEF Typed, Posted, Cpu
<1>1. \A x \in Cpu : Awaits(x, d)' <=> Awaits(x, d)
  BY <1>0, SMTT(30) DEF Awaits, Targets
<1>2. Truthful(d)'
  BY <1>0, <1>1, SMTT(30) DEF Truthful, Quiet, Asked, Numbers, Answering, handler
<1>3. \A x \in Cpu, v \in Va : Reason(x, d, v) => Reason(x, d, v)'
  BY <1>0, <1>1 DEF Reason, handler, Targets
<1> QED
  BY <1>0, <1>2, <1>3 DEF Why

\* The answer of d0 arrives, or is given up: then d is another AP.
LEMMA WaitServes ==
  ASSUME Inv, NEW c \in Cpu, NEW d0 \in Ap, NEW d \in Ap, Truthful(d), Why(d),
         WaitAck(c, d0) \/ (Timeout(c, d0) /\ d # d0)
  PROVE  Truthful(d)' /\ Why(d)'
<1> USE DEF Inv
<1>0. d \in Cpu /\ UNCHANGED <<mapped, tlb, pc, job, seq, handler>>
      /\ pc[c] = "wait" /\ d0 \in todo[c] /\ todo'[c] = todo[c] \ {d0}
      /\ \A x \in Cpu \ {c} : todo'[x] = todo[x] /\ ~Awaits(x, d) /\ ~Awaits(x, d)'
                              /\ pc[x] \notin {"post", "wait"}
  BY OneSender, SMTT(30) DEF Typed, WaitAck, Timeout, Cpu, Awaits
<1>1. CASE d = d0
  <2>1. Awaits(c, d) /\ ~Awaits(c, d)' /\ gen[d] >= seq
    BY <1>0, <1>1, SMTT(30) DEF Awaits, WaitAck
  <2>2. gen[d] = req[d] /\ isr[d] = "no"
    BY <1>0, <2>1, SMTT(30) DEF Typed, Truthful, Asked, Numbers, Answering
  <2>3. Truthful(d)'
    BY <1>0, <2>1, <2>2, SMTT(30) DEF Truthful, Quiet, Asked, Numbers, Answering, handler
  <2>4. \A v \in Va : ~Reason(c, d, v)
    BY <1>0, <2>1, SMTT(30) DEF Typed, Reason
  <2>5. \A x \in Cpu \ {c}, v \in Va : Reason(x, d, v) => Reason(x, d, v)'
    BY <1>0, SMTT(30) DEF Reason
  <2> QED
    BY <1>0, <2>3, <2>4, <2>5, SMTT(30) DEF Why
<1>2. CASE d # d0
  <2>1. \A x \in Cpu : Awaits(x, d)' <=> Awaits(x, d)
    BY <1>0, <1>2, SMTT(30) DEF Awaits
  <2>2. Truthful(d)'
    BY <1>0, <2>1, SMTT(30) DEF Truthful, Quiet, Asked, Numbers, Answering, handler
  <2>3. \A x \in Cpu, v \in Va : Reason(x, d, v) => Reason(x, d, v)'
    BY <1>0, <1>2, <2>1, SMTT(30) DEF Reason, handler
  <2> QED
    BY <1>0, <2>2, <2>3, SMTT(30) DEF Why
<1> QED
  BY <1>1, <1>2, SMTT(30)

\* Leaving: there is no answer left to wait for, so c is nobody's reason.
LEMMA UnlockServes ==
  ASSUME Inv, NEW c \in Cpu, NEW d \in Ap, Truthful(d), Why(d), TlbUnlock(c)
  PROVE  Truthful(d)' /\ Why(d)'
<1> USE DEF Inv
<1>0. d \in Cpu /\ UNCHANGED <<mapped, tlb, job, todo, seq, handler>>
      /\ pc[c] = "wait" /\ todo[c] = {} /\ pc'[c] \in {"run", "held"}
      /\ \A x \in Cpu \ {c} : pc'[x] = pc[x]
  BY SMTT(30) DEF Typed, TlbUnlock, Cpu
<1>1. \A x \in Cpu : Awaits(x, d)' <=> Awaits(x, d)
  BY <1>0, SMTT(30) DEF Awaits, Targets
<1>2. Truthful(d)'
  BY <1>0, <1>1 DEF Truthful, Quiet, Asked, Numbers, Answering, handler
<1>3. \A x \in Cpu, v \in Va : Reason(x, d, v) => Reason(x, d, v)'
  BY <1>0, <1>1 DEF Reason, handler
<1> QED
  BY <1>0, <1>2, <1>3 DEF Why

\* The handler flushes what it was asked to before it acknowledges, and the
\* hardware caches mapped pages only.
LEMMA HandlerServes ==
  ASSUME Inv, NEW c \in Cpu, NEW d \in Ap, Truthful(d), Why(d),
         Handler(c) \/ \E v \in Va : Fill(c, v)
  PROVE  Truthful(d)' /\ Why(d)'
<1> USE DEF Inv
<1>0. d \in Cpu /\ UNCHANGED <<mapped, pc, job, todo, seq, req, what>>
  BY DEF Handler, TakeIpi, HandlerFlush, HandlerAck, Fill, handler, Cpu
<1>1. \A x \in Cpu : Awaits(x, d)' <=> Awaits(x, d)
  BY <1>0, SMTT(30) DEF Awaits, Targets
<1>2. CASE c # d \/ \E v \in Va : Fill(c, v)
  <2>1. gen'[d] = gen[d] /\ isr'[d] = isr[d]
    BY <1>2, <1>0, SMTT(30) DEF Typed, Handler, TakeIpi, HandlerFlush, HandlerAck, Fill, handler
  <2>2. \A v \in Va : v \in tlb'[d] /\ v \notin mapped => v \in tlb[d]
    BY <1>2, <1>0, SMTT(30) DEF Typed, Handler, TakeIpi, HandlerFlush, HandlerAck, Fill
  <2>3. Truthful(d)'
    BY <1>0, <1>1, <2>1, SMTT(30) DEF Truthful, Quiet, Asked, Numbers, Answering
  <2>4. \A x \in Cpu, v \in Va : Reason(x, d, v) => Reason(x, d, v)'
    BY <1>0, <1>1, <2>1, SMTT(30) DEF Reason
  <2> QED
    BY <1>0, <2>2, <2>3, <2>4, SMTT(30) DEF Why
<1>3. CASE TakeIpi(d)
  <2>1. gen' = gen /\ tlb' = tlb /\ isr[d] = "no"
        /\ isr'[d] = IF req[d] # gen[d] THEN "flush" ELSE "no"
    BY <1>0, <1>3, SMTT(30) DEF Typed, TakeIpi, Runs
  <2>2. Truthful(d)'
    BY <1>0, <1>1, <2>1, SMTT(30) DEF Typed, Truthful, Quiet, Asked, Numbers, Answering
  <2>3. \A x \in Cpu, v \in Va : Reason(x, d, v) => Reason(x, d, v)'
    BY <1>0, <1>1, <2>1, SMTT(30) DEF Reason
  <2> QED
    BY <1>0, <2>1, <2>2, <2>3, SMTT(30) DEF Why
<1>4. CASE HandlerFlush(d)
  <2>1. gen' = gen /\ isr[d] = "flush" /\ isr'[d] = "ack"
        /\ tlb'[d] = Flush(tlb[d], what[d])
    BY <1>0, <1>4, SMTT(30) DEF Typed, HandlerFlush
  <2>2. Truthful(d)'
    BY <1>0, <1>1, <2>1, SMTT(30) DEF Truthful, Quiet, Asked, Numbers, Answering
  <2>3. ASSUME NEW v \in Va, v \in tlb'[d], v \notin mapped'
        PROVE  \E x \in Cpu : Reason(x, d, v)'
    <3>1. v \in tlb[d] /\ v # what[d]
      BY <2>1, <2>3, SMTT(30) DEF Flush
    <3>2. PICK x \in Cpu : Reason(x, d, v)
      BY <1>0, <2>3, <3>1, SMTT(30) DEF Why
    <3>3. ~Awaits(x, d)
      BY <3>1, <3>2, SMTT(30) DEF Reason, Truthful, Asked
    <3> QED
      BY <1>0, <1>1, <3>2, <3>3, SMTT(30) DEF Reason
  <2> QED
    BY <2>2, <2>3 DEF Why
<1>5. CASE HandlerAck(d)
  <2>1. tlb' = tlb /\ isr[d] = "ack" /\ isr'[d] = "no" /\ gen'[d] = req[d]
    BY <1>0, <1>5, SMTT(30) DEF Typed, HandlerAck
  <2>2. Truthful(d)'
    BY <1>0, <1>1, <2>1, SMTT(30) DEF Typed, Truthful, Quiet, Asked, Numbers, Answering
  <2>3. \A x \in Cpu, v \in Va : Reason(x, d, v) => Reason(x, d, v)'
    BY <1>0, <1>1, <2>1 DEF Reason
  <2> QED
    BY <1>0, <2>1, <2>2, <2>3 DEF Why
<1> QED
  BY <1>2, <1>3, <1>4, <1>5, SMTT(30) DEF Handler

-----------------------------------------------------------------------------
\* Every step keeps the invariant: one case per kind of step.
LEMMA NextIInv == IInv /\ [Next]_vars => IInv'
<1> SUFFICES ASSUME IInv, [Next]_vars PROVE IInv'
  BY SMTT(30)
<1>0. Inv /\ late \subseteq late' /\ \A d \in Ap \ late' : Truthful(d) /\ Why(d)
  BY ZenonT(60) DEF IInv, Next, vars, Sender, Handler, TlbLock, Posted, TlbUnlock, SwitchLock,
         SwitchUnlock, Remap, Post, WaitAck, Timeout, TakeIpi, HandlerFlush,
         HandlerAck, WantSwitchLock, ShootdownAll, Fill, Unmap
<1>1. CASE UNCHANGED vars
  BY <1>1 DEF IInv, Inv, Typed, Locked, TodoTargets, Truthful, Quiet, Asked,
              Numbers, Answering, Why, Reason, Awaits, Targets, vars
<1>2. ASSUME NEW c \in Cpu,
             \/ ShootdownAll(c) \/ WantSwitchLock(c) \/ SwitchLock(c) \/ SwitchUnlock(c)
             \/ \E v \in Va : Unmap(c, v) \/ Remap(c, v)
      PROVE  IInv'
  <2>1. Inv'
    BY <1>0, <1>2, EditInv, SenderInv
  <2>2. \A d \in Ap \ late' : Truthful(d)' /\ Why(d)'
    BY <1>0, <1>2, EditServes
  <2> QED
    BY <2>1, <2>2 DEF IInv
<1>3. ASSUME NEW c \in Cpu, TlbLock(c) \/ Posted(c) \/ TlbUnlock(c)
      PROVE  IInv'
  <2>1. Inv'
    BY <1>0, <1>3, SenderInv
  <2>2. \A d \in Ap \ late' : Truthful(d)' /\ Why(d)'
    BY <1>0, <1>3, LockServes, PostedServes, UnlockServes
  <2> QED
    BY <2>1, <2>2 DEF IInv
<1>4. ASSUME NEW c \in Cpu, NEW e \in Ap,
             Post(c, e) \/ WaitAck(c, e) \/ Timeout(c, e)
      PROVE  IInv'
  <2>1. Inv'
    BY <1>0, <1>4, SenderInv
  <2>2. Timeout(c, e) => e \in late'
    BY DEF Timeout
  <2>3. \A d \in Ap \ late' : Truthful(d)' /\ Why(d)'
    BY <1>0, <1>4, <2>2, PostServes, WaitServes
  <2> QED
    BY <2>1, <2>3 DEF IInv
<1>5. ASSUME NEW c \in Cpu, Handler(c) \/ \E v \in Va : Fill(c, v)
      PROVE  IInv'
  <2>1. Inv'
    BY <1>0, <1>5, HandlerInv
  <2>2. \A d \in Ap \ late' : Truthful(d)' /\ Why(d)'
    BY <1>0, <1>5, HandlerServes
  <2> QED
    BY <2>1, <2>2 DEF IInv
<1> QED
  BY <1>1, <1>2, <1>3, <1>4, <1>5 DEF Next, Sender

\* smp.c 204-213: for any CPUs, pages and editors, and under any timeouts, an
\* AP whose acknowledgement smp_tlb_flush_others never gave up on caches no
\* page whose shootdown has returned.
THEOREM NoStaleOnApsHolds == Spec => []NoStaleOnAps
<1>1. Init => IInv
  BY InitIInv
<1>2. IInv /\ [Next]_vars => IInv'
  BY NextIInv, SMTT(30)
<1>3. IInv => NoStaleOnAps
  <2> SUFFICES ASSUME IInv, NEW d \in Ap \ late, NEW v \in Va,
                      v \in tlb[d], v \notin mapped
               PROVE  InFlight(v)
    BY SMTT(30) DEF NoStaleOnAps, Stale
  <2>1. PICK c \in Cpu : Reason(c, d, v)
    BY DEF IInv, Why
  <2> QED
    BY <2>1 DEF Reason, InFlight
<1> QED
  BY <1>1, <1>2, <1>3, PTL DEF Spec

=============================================================================
