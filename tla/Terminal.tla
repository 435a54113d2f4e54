------------------------------ MODULE Terminal ------------------------------
(***************************************************************************)
(* Pseudo-terminals, eventfds and the waiting calls of                     *)
(* kernel/arch/x86_64/syscall.c.  A terminal emulator holds the master of  *)
(* one pseudo-terminal; a program reads the slave, the read end of a pipe  *)
(* and an eventfd, and waits for them with poll, select or epoll, which    *)
(* look at the descriptors every five milliseconds until one is ready or   *)
(* the time is up.                                                         *)
(***************************************************************************)
EXTENDS Integers, Sequences, SequencesExt

CONSTANTS
  Typed,     \* what the keyboard sends: "a", "nl", "intr", "susp", "eof"
  Buf,       \* PTY_BUF_SZ
  Items,     \* EPOLL_MAX_ITEMS
  Timeouts,  \* the timeouts of the waiting calls, in looks; -1 is for ever
  MaxKeys,   \* bound: bytes typed
  MaxOps     \* bound: calls of the program

VARIABLES
  inb, outb, \* in_buf and out_buf of the terminal, as sequences
  echo, canon, \* ECHO and ICANON of c_lflag
  typed,     \* bytes the master wrote and the line took
  got,       \* bytes the program read
  sigs,      \* signals sent to the foreground group
  pipe,      \* [count, writers] of the pipe
  ev,        \* eventfd_val
  fds,       \* descriptors of the program that are open
  items,     \* the epoll instance's interest list
  call,      \* the waiting call: [kind, left] or "none"
  ret,       \* the descriptors the last waiting call reported
  keys, ops

vars == <<inb, outb, echo, canon, typed, got, sigs, pipe, ev, fds, items, call, ret, keys, ops>>

Fd == {"tty", "pipe", "event"}
Running == [kind |-> "none", left |-> 0]

Init ==
  /\ inb = <<>> /\ outb = <<>> /\ echo = TRUE /\ canon = TRUE
  /\ typed = <<>> /\ got = <<>> /\ sigs = <<>>
  /\ pipe = [count |-> 0, writers |-> 1] /\ ev = 0
  /\ fds = Fd /\ items = <<>> /\ call = Running /\ ret = {} /\ keys = 0 /\ ops = 0

Control == {"intr", "susp", "eof"}
Plain(q) == SelectSeq(q, LAMBDA b : b \notin Control)

-----------------------------------------------------------------------------
(* Faulty variants of the definitions below: each breaks one of the properties *)

(* The character that ends a read is taken from the line and not returned. *)
ReadLineShort ==
  LET ends == {i \in DOMAIN inb : inb[i] = "eof" \/ (canon /\ inb[i] = "nl")}
      n == IF ends = {} THEN Len(inb) ELSE CHOOSE i \in ends : \A j \in ends : i <= j IN
  [n |-> n, out |-> Plain(SubSeq(inb, 1, IF ends = {} THEN n ELSE n - 1))]

(* The time is up only once more ticks have passed than were asked for. *)
ExpiredNever(c) == c.left < -1

-----------------------------------------------------------------------------
(* pty_write_master: a full line takes no more; ECHO copies to the output while
   there is room. *)
WriteMaster ==
  /\ keys < MaxKeys /\ keys' = keys + 1
  /\ \E b \in Typed :
       IF Len(inb) < Buf
       THEN /\ inb' = Append(inb, b) /\ typed' = Append(typed, b)
            /\ outb' = IF echo /\ Len(outb) < Buf THEN Append(outb, b) ELSE outb
       ELSE UNCHANGED <<inb, outb, typed>>
  /\ UNCHANGED <<echo, canon, got, sigs, pipe, ev, fds, items, call, ret, ops>>

(* pty_read_master *)
ReadMaster ==
  /\ outb # <<>> /\ outb' = <<>>
  /\ UNCHANGED <<inb, echo, canon, typed, got, sigs, pipe, ev, fds, items, call, ret, keys, ops>>

(* The other end of the pipe *)
PipeWriter ==
  /\ pipe.writers = 1
  /\ \/ pipe.count = 0 /\ pipe' = [pipe EXCEPT !.count = 1]
     \/ pipe' = [pipe EXCEPT !.writers = 0]
  /\ UNCHANGED <<inb, outb, echo, canon, typed, got, sigs, ev, fds, items, call, ret, keys, ops>>

-----------------------------------------------------------------------------
(* pty_read_slave: bytes up to the end of the line; an interrupt or suspend
   character sends its signal and is dropped, an end-of-file character ends the
   read.  n is the number of bytes taken from the line. *)
Stops(i) == inb[i] = "eof" \/ (canon /\ inb[i] = "nl")
ReadLine ==
  LET ends == {i \in DOMAIN inb : Stops(i)}
      n == IF ends = {} THEN Len(inb) ELSE CHOOSE i \in ends : \A j \in ends : i <= j IN
  [n |-> n, out |-> Plain(SubSeq(inb, 1, n))]

Op == call = Running /\ ops < MaxOps /\ ops' = ops + 1

ReadSlave ==
  /\ Op /\ "tty" \in fds /\ inb # <<>>
  /\ inb' = SubSeq(inb, ReadLine.n + 1, Len(inb)) /\ got' = got \o ReadLine.out
  /\ sigs' = sigs \o SelectSeq(SubSeq(inb, 1, ReadLine.n), LAMBDA b : b \in {"intr", "susp"})
  /\ UNCHANGED <<outb, echo, canon, typed, pipe, ev, fds, items, call, ret, keys>>

(* pty_write_slave, one byte *)
WriteSlave ==
  /\ Op /\ "tty" \in fds
  /\ outb' = IF Len(outb) < Buf THEN Append(outb, "out") ELSE outb
  /\ UNCHANGED <<inb, echo, canon, typed, got, sigs, pipe, ev, fds, items, call, ret, keys>>

(* linux_ioctl, TCSETS *)
SetAttr ==
  /\ Op /\ "tty" \in fds /\ echo' \in BOOLEAN /\ canon' \in BOOLEAN
  /\ UNCHANGED <<inb, outb, typed, got, sigs, pipe, ev, fds, items, call, ret, keys>>

(* sys_read and sys_write of the pipe and of the eventfd *)
Consume ==
  /\ Op
  /\ \/ "pipe" \in fds /\ pipe.count > 0 /\ pipe' = [pipe EXCEPT !.count = 0] /\ UNCHANGED ev
     \/ "event" \in fds /\ ev' = (IF ev = 0 THEN 1 ELSE 0) /\ UNCHANGED pipe
  /\ UNCHANGED <<inb, outb, echo, canon, typed, got, sigs, fds, items, call, ret, keys>>

(* sys_close leaves the interest list of an epoll instance alone. *)
Close(f) ==
  /\ Op /\ f \in fds /\ fds' = fds \ {f}
  /\ UNCHANGED <<inb, outb, echo, canon, typed, got, sigs, pipe, ev, items, call, ret, keys>>

(* linux_epoll_ctl: an addition is not compared with the list; a removal moves
   the last entry to the place of the first match. *)
EpollAdd(f) ==
  /\ Op /\ Len(items) < Items /\ items' = Append(items, f)
  /\ UNCHANGED <<inb, outb, echo, canon, typed, got, sigs, pipe, ev, fds, call, ret, keys>>
EpollDel(f) ==
  /\ Op /\ \E i \in DOMAIN items :
       /\ items[i] = f /\ \A j \in 1..(i - 1) : items[j] # f
       /\ items' = SubSeq([items EXCEPT ![i] = Last(items)], 1, Len(items) - 1)
  /\ UNCHANGED <<inb, outb, echo, canon, typed, got, sigs, pipe, ev, fds, call, ret, keys>>

-----------------------------------------------------------------------------
(* linux_check_fd_events for reading; a closed descriptor is "nval" *)
Events(f) ==
  IF f \notin fds THEN "nval"
  ELSE IF \/ f = "tty" /\ inb # <<>>
          \/ f = "pipe" /\ (pipe.count > 0 \/ pipe.writers = 0)
          \/ f = "event" /\ ev > 0
  THEN "in" ELSE "none"

(* What one look finds: select does not count a closed descriptor. *)
Look(kind) ==
  CASE kind = "poll" -> {f \in Fd : Events(f) # "none"}
    [] kind = "select" -> {f \in Fd : Events(f) = "in"}
    [] kind = "epoll" -> {f \in ToSet(items) : Events(f) # "none"}
    [] OTHER -> {}

Wait(kind, timeout) ==
  /\ Op /\ call' = [kind |-> kind, left |-> timeout] /\ ret' = {}
  /\ UNCHANGED <<inb, outb, echo, canon, typed, got, sigs, pipe, ev, fds, items, keys>>

Expired(c) == c.left = 0

(* One turn of the loop of linux_poll, linux_select and linux_epoll_wait: a look,
   then five milliseconds of sleep. *)
Turn ==
  /\ call # Running
  /\ IF Look(call.kind) # {} \/ Expired(call)
     THEN ret' = Look(call.kind) /\ call' = Running
     ELSE ret' = ret /\ call' = [call EXCEPT !.left = IF @ > 0 THEN @ - 1 ELSE @]
  /\ UNCHANGED <<inb, outb, echo, canon, typed, got, sigs, pipe, ev, fds, items, keys, ops>>

Next ==
  \/ WriteMaster \/ ReadMaster \/ PipeWriter \/ ReadSlave \/ WriteSlave \/ SetAttr \/ Consume
  \/ Turn
  \/ \E f \in Fd : Close(f) \/ EpollAdd(f) \/ EpollDel(f)
  \/ \E kind \in {"poll", "select", "epoll"}, t \in Timeouts : Wait(kind, t)

Spec == Init /\ [][Next]_vars

(* The timer wakes the sleeping caller, and the scheduler runs it. *)
FairSpec == Spec /\ WF_vars(Turn)

-----------------------------------------------------------------------------
(* The bytes the program has read, followed by those still in the line, are the
   bytes typed, without the control characters: reads that stop at a line or at
   an end of file, switches of the line discipline and echo in a full output
   lose and double nothing. *)
TerminalOrder == got \o Plain(inb) = Plain(typed)

(* A waiting call that has to return: one with a timeout, and one that waits for
   ever once a descriptor it watches is ready. *)
MustReturn == call # Running /\ (call.left >= 0 \/ Look(call.kind) # {})
Returned == call = Running
=============================================================================
