------------------------------- MODULE Input --------------------------------
(***************************************************************************)
(* Keyboard and mouse from the interrupt to the application:               *)
(* kernel/drivers/keyboard.c and mouse.c, the fan-out of                   *)
(* kernel/arch/x86_64/syscall.c (sys_input_kbd, sys_input_mouse, the polls)*)
(* and the compositor's cursor (userland/wm.c).  The compositor gets every *)
(* event, the focused application a copy.  The kernel and the compositor   *)
(* each keep a cursor position of their own: an application asks the       *)
(* kernel's where a click is, the user sees the compositor's.              *)
(***************************************************************************)
EXTENDS Integers, Sequences, SequencesExt

CONSTANTS
  App,        \* applications
  KbdQ, MouseQ, \* TASK_KBDQ - 1 and TASK_MOUSEQ - 1: what a task's ring holds
  Width,      \* of the screen, in pixels
  Deltas,     \* the motions the mouse reports
  Keys,       \* scancodes of character keys
  MaxEvents,  \* bound: bytes from the keyboard and packets from the mouse
  MaxLost     \* bound: bytes of the mouse lost on the wire

VARIABLES
  held,      \* the keys down
  shift, caps, e0,  \* the driver's modifier state and the 0xE0 prefix
  wire,      \* bytes of the mouse not read yet
  pkt,       \* the bytes of the packet being put together
  pos,       \* g_mouse_x
  focus,     \* g_focus_pid, or "none"
  kq, mq,    \* the rings of each task, "wm" included
  cur,       \* the compositor's G_cx
  dropped,   \* a mouse event of the compositor was dropped
  events, lost

vars == <<held, shift, caps, e0, wire, pkt, pos, focus, kq, mq, cur, dropped, events, lost>>

Task == App \cup {"wm"}

Init ==
  /\ held = {} /\ shift = FALSE /\ caps = FALSE /\ e0 = FALSE
  /\ wire = <<>> /\ pkt = <<>> /\ pos = Width \div 2 /\ cur = Width \div 2
  /\ focus = "none" /\ kq = [t \in Task |-> <<>>] /\ mq = [t \in Task |-> <<>>]
  /\ dropped = FALSE /\ events = 0 /\ lost = 0

-----------------------------------------------------------------------------
Clamp(x) == IF x < 0 THEN 0 ELSE IF x >= Width THEN Width - 1 ELSE x

(* Faulty variants of the definitions below: each breaks one of the properties *)

(* The position follows the motion before it is limited to 100 pixels. *)
MovedRaw(x, d) == Clamp(x + d * 2)

(* The release of a shift key is taken for its press. *)
ShiftAfterPress(k, up) == IF k \in {"lshift", "rshift"} THEN TRUE ELSE shift

-----------------------------------------------------------------------------
(* mouse_irq: acceleration in 1/256 by the square of the speed, then the limit *)
Factor(d) == LET s == d * d IN
  CASE s < 25 -> 256 [] s < 100 -> 307 [] s < 400 -> 410 [] s < 1600 -> 512 [] OTHER -> 614
Limited(d) == IF d > 100 THEN 100 ELSE IF d < -100 THEN -100 ELSE d
Motion(d) == Limited((d * Factor(d)) \div 256)
Moved(x, d) == Clamp(x + d)

Push(q, n, e) == IF Len(q) < n THEN Append(q, e) ELSE q    \* a full ring drops the event

(* sys_input_kbd, sys_input_mouse *)
Fanout(q, n, e) == [t \in Task |-> IF t = "wm" \/ t = focus THEN Push(q[t], n, e) ELSE q[t]]

-----------------------------------------------------------------------------
(* kbd_irq: one byte.  Modifiers update the driver's flags and carry no
   character; a character is the upper one when shift and caps lock differ. *)
ShiftAfter(k, up) == IF k \in {"lshift", "rshift"} THEN ~up ELSE shift

KbdIrq(k, up) ==
  /\ held' = IF up THEN held \ {k} ELSE held \cup {k}
  /\ shift' = ShiftAfter(k, up)
  /\ caps' = IF k = "caps" /\ ~up THEN ~caps ELSE caps
  /\ e0' = FALSE
  /\ kq' = Fanout(kq, KbdQ, [key |-> k, up |-> up, ext |-> e0, shift |-> shift',
                             upper |-> k \in Keys /\ ~e0 /\ shift' # caps'])
  /\ UNCHANGED <<wire, pkt, pos, focus, mq, cur, dropped, lost>>

Key ==
  /\ events < MaxEvents /\ events' = events + 1
  /\ \E k \in Keys \cup {"lshift", "rshift", "caps"} : KbdIrq(k, k \in held)

(* The prefix of the cursor keys *)
Prefix ==
  /\ events < MaxEvents /\ events' = events + 1 /\ ~e0 /\ e0' = TRUE
  /\ UNCHANGED <<held, shift, caps, wire, pkt, pos, focus, kq, mq, cur, dropped, lost>>

-----------------------------------------------------------------------------
(* The mouse sends a packet: the head, whose alignment bit is set, and three
   bytes, of which the first is the motion. *)
Move ==
  /\ events < MaxEvents /\ events' = events + 1 /\ wire = <<>>
  /\ \E d \in Deltas, aligned \in BOOLEAN :
       wire' = << [head |-> TRUE, d |-> 0], [head |-> aligned, d |-> d],
                  [head |-> FALSE, d |-> 0], [head |-> FALSE, d |-> 0] >>
  /\ UNCHANGED <<held, shift, caps, e0, pkt, pos, focus, kq, mq, cur, dropped, lost>>

Lose ==
  /\ wire # <<>> /\ lost < MaxLost /\ lost' = lost + 1 /\ wire' = Tail(wire)
  /\ UNCHANGED <<held, shift, caps, e0, pkt, pos, focus, kq, mq, cur, dropped, events>>

(* mouse_irq: a first byte without the alignment bit is skipped; the fourth byte
   completes the packet. *)
MouseIrq ==
  /\ wire # <<>> /\ wire' = Tail(wire)
  /\ \/ /\ pkt = <<>> /\ ~Head(wire).head
        /\ UNCHANGED <<pkt, pos, mq, dropped>>
     \/ /\ pkt # <<>> \/ Head(wire).head
        /\ Len(pkt) < 3 /\ pkt' = Append(pkt, Head(wire))
        /\ UNCHANGED <<pos, mq, dropped>>
     \/ /\ Len(pkt) = 3 /\ pkt' = <<>>
        /\ LET d == Motion(pkt[2].d) IN
           pos' = Moved(pos, d) /\ mq' = Fanout(mq, MouseQ, d)
        /\ dropped' = (dropped \/ Len(mq["wm"]) >= MouseQ)
  /\ UNCHANGED <<held, shift, caps, e0, focus, kq, cur, events, lost>>

-----------------------------------------------------------------------------
(* sys_poll_key and sys_poll_mouse give nothing to a task that is neither the
   compositor nor focused. *)
PollKey(t) ==
  /\ t \in {"wm", focus} /\ kq[t] # <<>> /\ kq' = [kq EXCEPT ![t] = Tail(@)]
  /\ UNCHANGED <<held, shift, caps, e0, wire, pkt, pos, focus, mq, cur, dropped, events, lost>>

PollMouse(t) ==
  /\ t \in {"wm", focus} /\ mq[t] # <<>> /\ mq' = [mq EXCEPT ![t] = Tail(@)]
  /\ cur' = IF t = "wm" THEN Clamp(cur + Head(mq[t])) ELSE cur
  /\ UNCHANGED <<held, shift, caps, e0, wire, pkt, pos, focus, kq, dropped, events, lost>>

(* sys_wm_focus, by the compositor *)
Focus ==
  /\ focus' \in App \cup {"none"}
  /\ UNCHANGED <<held, shift, caps, e0, wire, pkt, pos, kq, mq, cur, dropped, events, lost>>

Next ==
  \/ Key \/ Prefix \/ Move \/ Lose \/ MouseIrq \/ Focus
  \/ \E t \in Task : PollKey(t) \/ PollMouse(t)

Spec == Init /\ [][Next]_vars

-----------------------------------------------------------------------------
(* What the compositor has drawn and what is still in its ring add up to the
   kernel's position, as long as no event of it was dropped; so a click lands
   where the user sees the cursor once the ring is drained, whatever bytes the
   mouse loses.  And the shift flag is never left set with both keys up. *)
InputAgrees ==
  /\ dropped \/ FoldLeft(LAMBDA x, d : Clamp(x + d), cur, mq["wm"]) = pos
  /\ shift => held \cap {"lshift", "rshift"} # {}
=============================================================================
