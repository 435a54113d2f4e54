------------------------------ MODULE VirtioBlk ------------------------------
(***************************************************************************)
(* The virtio-blk request path (virtio_blk.c 210-337): one header, one     *)
(* bounce buffer and one descriptor chain, polled for completion under     *)
(* g_blk_lock with interrupts off, against a device that works on its own  *)
(* time and interrupts the boot CPU.                                       *)
(*                                                                         *)
(* The device (external) fetches the header of a chain, later moves the    *)
(* data and completes; writes go to its cache, a flush makes them stable.  *)
(* The 16-bit ring indices count modulo Wrap.                              *)
(***************************************************************************)
EXTENDS Integers, FiniteSets

CONSTANTS
  Cpu, Bsp,     \* CPUs; the one MSI-X interrupts go to
  Sector, Val,  \* sectors and what they hold
  Zero,         \* what a sector holds at first
  None,         \* no lock holder
  Wrap          \* the ring indices count modulo 2^16

VARIABLES
  lock,     \* holder of g_blk_lock
  pc,       \* where each CPU is in vq_request / blk_flush
  op,       \* the caller's request: type, sector and data
  hdr,      \* g_req: type and sector
  buf,      \* g_data
  status,   \* the status byte: "reset" (0xFF), "ok", "err"
  avail,    \* g_avail->idx
  used,     \* g_used->idx
  last,     \* g_last_used
  ioDone,   \* g_io_done, 0 or 1
  irq,      \* 1 while the device's interrupt is pending
  dev,      \* chains the device has yet to fetch, and the header it works on
  disk,     \* the device's contents, cache included
  stable,   \* what survives power loss
  left      \* history: requests returned from before the device finished, 0 or 1

vars == <<lock, pc, op, hdr, buf, status, avail, used, last, ioDone, irq, dev, disk, stable, left>>
device == <<used, irq, dev, disk, stable>>

Type == {"in", "out", "flush"}
Op == [type : Type, sector : Sector, data : Val]

(* The requests callers make; what a read's buffer holds before does not matter. *)
Request == {o \in Op : o.type # "out" => o.data = Zero}

TypeOK ==
  /\ lock \in Cpu \cup {None}
  /\ pc \in [Cpu -> {"idle", "publish", "notify", "poll", "ok", "fail"}]
  /\ op \in [Cpu -> Op]
  /\ hdr \in [type : Type, sector : Sector]
  /\ buf \in Val
  /\ status \in {"reset", "ok", "err"}
  /\ avail \in 0 .. Wrap - 1 /\ used \in 0 .. Wrap - 1 /\ last \in 0 .. Wrap - 1
  /\ ioDone \in {0, 1} /\ irq \in {0, 1}
  /\ dev \in [queued : 0 .. Wrap, busy : {0, 1}, hdr : [type : Type, sector : Sector]]
  /\ disk \in [Sector -> Val] /\ stable \in [Sector -> Val]
  /\ left \in {0, 1}

Init ==
  /\ lock = None
  /\ pc = [c \in Cpu |-> "idle"]
  /\ \E s \in Sector : /\ op = [c \in Cpu |-> [type |-> "in", sector |-> s, data |-> Zero]]
                       /\ hdr = [type |-> "in", sector |-> s]
                       /\ dev = [queued |-> 0, busy |-> 0, hdr |-> [type |-> "in", sector |-> s]]
  /\ buf = Zero /\ status = "reset"
  /\ avail = 0 /\ used = 0 /\ last = 0 /\ ioDone = 0 /\ irq = 0
  /\ disk = [s \in Sector |-> Zero] /\ stable = [s \in Sector |-> Zero]
  /\ left = 0

-----------------------------------------------------------------------------
(* Faulty variants of the steps below: each breaks one of the properties *)

(* The used index is remembered one short: the next request sees the old
   completion. *)
CompleteBehind(c) ==
  /\ pc[c] = "poll" /\ (used # last \/ ioDone = 1)
  /\ last' = (used + Wrap - 1) % Wrap
  /\ pc' = [pc EXCEPT ![c] = IF used # last /\ status = "ok" THEN "ok" ELSE "fail"]
  /\ op' = [op EXCEPT ![c].data = IF pc'[c] = "ok" /\ op[c].type = "in" THEN buf ELSE @]
  /\ left' = IF used = last THEN 1 ELSE left
  /\ UNCHANGED <<lock, hdr, buf, status, avail, ioDone, device>>

(* The indices are not wrapped. *)
PublishUnwrapped(c) ==
  /\ pc[c] = "publish"
  /\ avail' = avail + 1
  /\ dev' = [dev EXCEPT !.queued = @ + 1]
  /\ pc' = [pc EXCEPT ![c] = "notify"]
  /\ UNCHANGED <<lock, op, hdr, buf, status, used, last, ioDone, irq, disk, stable, left>>

(* Data is bounced out after the chain is published. *)
PrepareLate(c, o) ==
  /\ pc[c] = "idle" /\ lock = None
  /\ lock' = c
  /\ op' = [op EXCEPT ![c] = o]
  /\ hdr' = [type |-> o.type, sector |-> o.sector]
  /\ status' = "reset"
  /\ pc' = [pc EXCEPT ![c] = "publish"]
  /\ UNCHANGED <<buf, avail, last, ioDone, device, left>>

(* The poll never gives up. *)
PollForever(c) == FALSE /\ UNCHANGED vars

-----------------------------------------------------------------------------
(* vq_request and blk_flush.  The chains left behind by timeouts are bounded by
   the index range. *)

Prepare(c, o) ==
  /\ pc[c] = "idle" /\ lock = None /\ dev.queued + dev.busy < Wrap - 1
  /\ lock' = c
  /\ op' = [op EXCEPT ![c] = o]
  /\ buf' = IF o.type = "out" THEN o.data ELSE buf
  /\ hdr' = [type |-> o.type, sector |-> o.sector]
  /\ status' = "reset"
  /\ pc' = [pc EXCEPT ![c] = "publish"]
  /\ UNCHANGED <<avail, last, ioDone, device, left>>

(* g_avail->idx++: from here the device may see the chain. *)
Publish(c) ==
  /\ pc[c] = "publish"
  /\ avail' = (avail + 1) % Wrap
  /\ dev' = [dev EXCEPT !.queued = @ + 1]
  /\ pc' = [pc EXCEPT ![c] = "notify"]
  /\ UNCHANGED <<lock, op, hdr, buf, status, used, last, ioDone, irq, disk, stable, left>>

Notify(c) ==
  /\ pc[c] = "notify"
  /\ ioDone' = 0
  /\ pc' = [pc EXCEPT ![c] = "poll"]
  /\ UNCHANGED <<lock, op, hdr, buf, status, avail, last, device, left>>

(* The poll ends: the status byte counts only if the used index moved. *)
Complete(c) ==
  /\ pc[c] = "poll" /\ (used # last \/ ioDone = 1)
  /\ last' = used
  /\ pc' = [pc EXCEPT ![c] = IF used # last /\ status = "ok" THEN "ok" ELSE "fail"]
  /\ op' = [op EXCEPT ![c].data = IF pc'[c] = "ok" /\ op[c].type = "in" THEN buf ELSE @]
  /\ left' = IF used = last THEN 1 ELSE left
  /\ UNCHANGED <<lock, hdr, buf, status, avail, ioDone, device>>

(* The 300M polls run out before the device answers. *)
PollTimeout(c) ==
  /\ pc[c] = "poll" /\ used = last /\ ioDone = 0
  /\ pc' = [pc EXCEPT ![c] = "fail"]
  /\ left' = 1
  /\ UNCHANGED <<lock, op, hdr, buf, status, avail, last, ioDone, device>>

Return(c) ==
  /\ pc[c] \in {"ok", "fail"}
  /\ lock' = None
  /\ pc' = [pc EXCEPT ![c] = "idle"]
  /\ UNCHANGED <<op, hdr, buf, status, avail, last, ioDone, device, left>>

(* The interrupt waits while the boot CPU has interrupts off. *)
blk_irq_handler ==
  /\ irq = 1 /\ pc[Bsp] = "idle"
  /\ irq' = 0 /\ ioDone' = 1
  /\ UNCHANGED <<lock, pc, op, hdr, buf, status, avail, used, last, dev, disk, stable, left>>

-----------------------------------------------------------------------------
(* The device *)

DeviceFetch ==
  /\ dev.busy = 0 /\ dev.queued > 0
  /\ dev' = [queued |-> dev.queued - 1, busy |-> 1, hdr |-> hdr]
  /\ UNCHANGED <<lock, pc, op, hdr, buf, status, avail, used, last, ioDone, irq, disk, stable, left>>

DeviceDone(st) ==
  LET h == dev.hdr IN
  /\ dev.busy = 1
  /\ status' = st
  /\ disk' = IF st = "ok" /\ h.type = "out" THEN [disk EXCEPT ![h.sector] = buf] ELSE disk
  /\ buf' = IF st = "ok" /\ h.type = "in" THEN disk[h.sector] ELSE buf
  /\ stable' = IF st = "ok" /\ h.type = "flush" THEN disk ELSE stable
  /\ used' = (used + 1) % Wrap /\ irq' = 1
  /\ dev' = [dev EXCEPT !.busy = 0]
  /\ UNCHANGED <<lock, pc, op, hdr, avail, last, ioDone, left>>

(* A cached write may become stable at any time. *)
DeviceWriteback(s) ==
  /\ stable[s] # disk[s]
  /\ stable' = [stable EXCEPT ![s] = disk[s]]
  /\ UNCHANGED <<lock, pc, op, hdr, buf, status, avail, used, last, ioDone, irq, dev, disk, left>>

-----------------------------------------------------------------------------
Driver(c) == Publish(c) \/ Notify(c) \/ Complete(c) \/ PollTimeout(c) \/ Return(c)
Device == DeviceFetch \/ DeviceDone("ok") \/ DeviceDone("err")

Next ==
  \/ \E c \in Cpu : Driver(c) \/ \E o \in Request : Prepare(c, o)
  \/ Device \/ blk_irq_handler
  \/ \E s \in Sector : DeviceWriteback(s)

Spec == Init /\ [][Next]_vars

(* The driver executes; nothing is assumed of the device. *)
FairSpec == Spec /\ \A c \in Cpu : WF_vars(Driver(c))

-----------------------------------------------------------------------------
(* Properties *)

(* virtio_blk.c 134-136: "exactly one request may be in flight at a time".  A
   chain the device has not finished belongs to the CPU that holds the lock
   and is still waiting for it, and there is no second one; this and the next two hold up
   to the first request that is given up while the device works on it. *)
OneInFlight ==
  left = 0 /\ dev.queued + dev.busy > 0 =>
    /\ dev.queued + dev.busy = 1
    /\ \E c \in Cpu : lock = c /\ pc[c] \in {"notify", "poll"}

(* virtio_blk.c 137-140: a write that succeeds is on the device, a read that
   succeeds returns what the device holds, a flush that succeeds leaves
   nothing in the cache; and a request fails only when the device said so,
   never on the status byte of an earlier one (262-268). *)
ResultIsReal ==
  \A c \in Cpu : left = 0 =>
    /\ pc[c] = "ok" =>
         CASE op[c].type = "out"   -> disk[op[c].sector] = op[c].data
           [] op[c].type = "in"    -> op[c].data = disk[op[c].sector]
           [] op[c].type = "flush" -> stable = disk
    /\ pc[c] = "fail" => status = "err"

(* The CPU is inside a request, which must end even if the device never
   answers. *)
Waiting(c) == pc[c] # "idle"
=============================================================================
