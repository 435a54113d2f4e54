---------------------------------- MODULE Usb -----------------------------------
(*****************************************************************************)
(* The xHCI driver (drivers/usb_xhci.c): usb_init runs commands to enable a  *)
(* slot, to address the device on one root-hub port after the other and to   *)
(* configure its interrupt endpoint, then asks the keyboard for its          *)
(* configuration; usb_hid_poll, called from the main loop, arms one transfer *)
(* at a time and hands every report to hid_report.                           *)
(*                                                                           *)
(* The controller is external and follows the xHCI rings: it executes the    *)
(* entry at its dequeue pointer when that entry carries its cycle bit, runs  *)
(* past the end of a ring that has no link entry (what lies there is zero),  *)
(* and posts events until the slot before the one ERDP names.  The driver    *)
(* writes every command and transfer entry with cycle bit 1 and never moves  *)
(* ERDP, so an index stands for an entry.                                    *)
(*****************************************************************************)
EXTENDS Integers, Sequences, FiniteSets

CONSTANTS CmdRing,     \* CMD_RING_SZ
          EpRing,      \* entries of an endpoint's transfer ring
          EventRing,   \* EVENT_RING_SZ
          MaxPorts,    \* g_maxports
          Keys,        \* HID key codes
          MayBeLate,   \* whether the controller may answer after a wait gave up
          MaxReports,  \* bound: reports of the keyboard
          MaxChanges   \* bound: port status changes

VARIABLES pc,      \* where usb_init waits, or "main": the main loop
          port,    \* the port number the loop over the ports is at, g_port after it
          plugged, \* the root-hub port the keyboard sits on, counted from one; 0: none
          cmdIdx,  \* g_cmd_ring_idx
          cmds,    \* the command ring: what each entry asks for
          cmdDeq,  \* the controller's command dequeue index
          ctl,     \* the SET_CONFIGURATION transfer: "none", "queued" or "done"
          epIdx,   \* g_ep1_idx
          written, \* the entries of the EP1 ring that carry cycle bit 1
          epDeq,   \* the controller's dequeue index of EP1
          events,  \* the event ring: a record with the cycle bit per entry
          evtEnq,  \* the controller's enqueue index and cycle state
          evtPcs,
          evtIdx,  \* g_evt_ring_idx, g_evt_rcs
          evtRcs,
          armed,
          present, \* g_kbd_present
          buffer,  \* g_hid_report with the number of the report in it
          sent,    \* reports the device has written to the buffer
          handled, \* numbers of the reports hid_report was given
          prev,    \* prev[] of hid_report
          down,    \* keys whose last event was a press
          late,    \* a wait gave up on an answer that could still come
          changes

init == <<pc, port, cmdIdx, cmds, ctl, present>>
controller == <<cmdDeq, epDeq, evtEnq, evtPcs, buffer, sent>>
poll == <<epIdx, written, armed, handled, prev, down>>
vars == <<init, controller, poll, plugged, events, evtIdx, evtRcs, late, changes>>

Blank == [i \in 1..2 |-> 0]
Reports == [1..2 -> Keys \cup {0}]
NoEvent == [type |-> "none", port |-> 0, ok |-> FALSE, cycle |-> 0]
NoCmd == [type |-> "none", port |-> 0]

-------------------------------------------------------------------------------
(* Faulty variants of the definitions below. *)

\* usb_hid_poll that arms the next transfer before it has looked at the report
RearmedEarly(p) == TRUE

-------------------------------------------------------------------------------
(* The event ring.                                                           *)

(* ERDP is written once, when the rings are set up. *)
Erdp == 0

(* The controller posts an event, or drops it when the ring is full. *)
Post(e) ==
  IF (evtEnq + 1) % EventRing = Erdp
  THEN UNCHANGED <<events, evtEnq, evtPcs>>
  ELSE /\ events' = [events EXCEPT ![evtEnq] = [e EXCEPT !.cycle = evtPcs]]
       /\ evtEnq' = (evtEnq + 1) % EventRing
       /\ evtPcs' = IF evtEnq' = 0 THEN 1 - evtPcs ELSE evtPcs

Event(t, p, ok) == [type |-> t, port |-> p, ok |-> ok, cycle |-> 0]

(* An entry with the driver's cycle state is new. *)
IsNew == events[evtIdx].cycle = evtRcs

(* consume_transfer_event, and the same lines of run_cmd_and_wait *)
Consume ==
  /\ IsNew
  /\ events' = [events EXCEPT ![evtIdx].cycle = 0]
  /\ evtIdx' = (evtIdx + 1) % EventRing
  /\ evtRcs' = IF evtIdx' = 0 THEN 1 - evtRcs ELSE evtRcs

-------------------------------------------------------------------------------
(* Commands.                                                                 *)

(* setup_input_ctx: the loop counts ports from one, the context field is one *)
(* more.                                                                     *)
PortField(p) == p + 1

(* cmd_trb: the entry at the index, which then moves on. *)
CmdTrb(type, p) ==
  /\ cmds' = [cmds EXCEPT ![cmdIdx] = [type |-> type, port |-> p]]
  /\ cmdIdx' = (cmdIdx + 1) % CmdRing

Address(p) == CmdTrb("address", PortField(p)) /\ port' = p /\ pc' = "address"

(* usb_configure_endpoint up to its wait *)
Configure == CmdTrb("configure", PortField(port)) /\ pc' = "configure"

(* The end of usb_init: nothing more happens without a keyboard. *)
GiveUp == pc' = "main" /\ UNCHANGED <<port, cmdIdx, cmds, ctl, present>>

(* What usb_init does with the answer of run_cmd_and_wait. *)
Answered(ok) ==
  \/ /\ pc = "enable"
     /\ IF ok /\ plugged # 0
        THEN Address(1) /\ UNCHANGED <<ctl, present>> ELSE GiveUp
  \/ /\ pc = "address" /\ ~ok
     /\ IF port < MaxPorts
        THEN Address(port + 1) /\ UNCHANGED <<ctl, present>> ELSE GiveUp
  \/ /\ pc = "address" /\ ok
     /\ Configure /\ UNCHANGED <<port, ctl, present>>
  \/ /\ pc = "configure" /\ ok
     /\ present' = TRUE /\ ctl' = "queued" /\ pc' = "setconf"
     /\ UNCHANGED <<port, cmdIdx, cmds>>
  \/ pc = "configure" /\ ~ok /\ GiveUp

Commanding == pc \in {"enable", "address", "configure"}

(* usb_init once the controller runs and the rings are set up *)
Enable == /\ pc = "start"
          /\ CmdTrb("enable", 0)
          /\ pc' = "enable"
          /\ UNCHANGED <<port, ctl, present, controller, poll, plugged, events,
                         evtIdx, evtRcs, late, changes>>

(* run_cmd_and_wait: any event is taken, and any command completion ends the *)
(* wait.                                                                     *)
RunCmdAndWait ==
  /\ Commanding /\ Consume
  /\ IF events[evtIdx].type = "cmd" THEN Answered(events[evtIdx].ok) ELSE UNCHANGED init
  /\ UNCHANGED <<controller, poll, plugged, late, changes>>

(* The controller can still answer: the command is where it looks for one.   *)
CmdVisible == cmdDeq < CmdRing /\ cmds[cmdDeq] # NoCmd
Answering == CmdVisible \/ \E i \in DOMAIN events : events[i].type = "cmd" /\ events[i].cycle = 1

CmdTimeout ==
  /\ Commanding
  /\ ~IsNew
  /\ MayBeLate \/ ~Answering
  /\ Answered(FALSE)
  /\ late' = (late \/ Answering)
  /\ UNCHANGED <<controller, poll, plugged, events, evtIdx, evtRcs, changes>>

-------------------------------------------------------------------------------
(* SET_CONFIGURATION: ep0_control, then a wait for a transfer event that     *)
(* leaves other events alone.                                                *)

TransferAtHead == IsNew /\ events[evtIdx].type = "transfer"

SetConfWait ==
  /\ pc = "setconf" /\ TransferAtHead /\ Consume
  /\ pc' = "main"
  /\ UNCHANGED <<port, cmdIdx, cmds, ctl, present, controller, poll, plugged, late, changes>>

SetConfTimeout ==
  /\ pc = "setconf" /\ ~TransferAtHead
  /\ MayBeLate \/ ctl = "done"
  /\ pc' = "main"
  /\ late' = (late \/ ctl = "queued" \/ \E i \in DOMAIN events :
                  events[i].type = "transfer" /\ events[i].cycle = 1)
  /\ UNCHANGED <<port, cmdIdx, cmds, ctl, present, controller, poll, plugged, events,
                 evtIdx, evtRcs, changes>>

-------------------------------------------------------------------------------
(* The main loop.                                                            *)

(* hid_report: place by place, a key that differs from the one there before  *)
(* is pressed, and an empty place releases the key there before.             *)
DownAfter(r) ==
  LET after[i \in 0..2] ==
        IF i = 0 THEN down
        ELSE IF r[i] \notin {0, prev[i]} THEN after[i - 1] \cup {r[i]}
        ELSE IF r[i] = 0 THEN after[i - 1] \ {prev[i]}
        ELSE after[i - 1]
  IN  after[2]

HidReport ==
  /\ handled' = Append(handled, buffer.n)
  /\ down' = DownAfter(buffer.keys)
  /\ prev' = buffer.keys

(* One transfer is under way at a time. *)
Rearmed(p) == ~p

Arm ==
  IF Rearmed(armed)
  THEN /\ written' = written \cup {epIdx}
       /\ epIdx' = (epIdx + 1) % EpRing
  ELSE UNCHANGED <<written, epIdx>>

UsbHidPoll ==
  /\ pc = "main" /\ present
  /\ Arm
  /\ IF TransferAtHead
     THEN HidReport /\ Consume /\ armed' = FALSE
     ELSE armed' = TRUE /\ UNCHANGED <<handled, prev, down, events, evtIdx, evtRcs>>
  /\ UNCHANGED <<init, controller, plugged, late, changes>>

-------------------------------------------------------------------------------
(* The controller and the device.                                            *)

Driver == <<init, poll, plugged, evtIdx, evtRcs, late>>

(* Address Device and Configure Endpoint succeed for the port with a device. *)
Execute ==
  /\ CmdVisible
  /\ cmdDeq' = cmdDeq + 1
  /\ LET c == cmds[cmdDeq] IN
     Post(Event("cmd", c.port, c.type = "enable" \/ c.port = plugged))
  /\ UNCHANGED <<Driver, epDeq, buffer, sent, changes>>

Configured ==
  /\ ctl = "queued" /\ ctl' = "done"
  /\ Post(Event("transfer", 0, TRUE))
  /\ UNCHANGED <<pc, port, cmdIdx, cmds, present, poll, plugged, evtIdx, evtRcs, late,
                 cmdDeq, epDeq, buffer, sent, changes>>

(* The entry at the dequeue index is one the driver has written; past the    *)
(* end of the ring nothing is.                                               *)
TransferVisible == epDeq < EpRing /\ epDeq \in written

Report(r) ==
  /\ ctl = "done" /\ TransferVisible
  /\ sent < MaxReports
  /\ r # buffer.keys
  /\ buffer' = [n |-> sent + 1, keys |-> r]
  /\ sent' = sent + 1
  /\ epDeq' = epDeq + 1
  /\ Post(Event("transfer", 0, TRUE))
  /\ UNCHANGED <<Driver, cmdDeq, changes>>

(* A port status change event: something else is plugged or unplugged. *)
PortChange ==
  /\ pc # "start" /\ changes < MaxChanges
  /\ changes' = changes + 1
  /\ Post(Event("port", 0, FALSE))
  /\ UNCHANGED <<Driver, cmdDeq, epDeq, buffer, sent>>

-------------------------------------------------------------------------------
Init ==
  /\ pc = "start" /\ port = 0 /\ plugged \in 0 .. MaxPorts
  /\ cmdIdx = 0 /\ cmds = [i \in 0 .. CmdRing - 1 |-> NoCmd] /\ cmdDeq = 0
  /\ ctl = "none" /\ epIdx = 0 /\ written = {} /\ epDeq = 0
  /\ events = [i \in 0 .. EventRing - 1 |-> NoEvent]
  /\ evtEnq = 0 /\ evtPcs = 1 /\ evtIdx = 0 /\ evtRcs = 1
  /\ armed = FALSE /\ present = FALSE
  /\ buffer = [n |-> 0, keys |-> Blank] /\ sent = 0
  /\ handled = <<>> /\ prev = Blank /\ down = {}
  /\ late = FALSE /\ changes = 0

Next ==
  \/ Enable \/ RunCmdAndWait \/ CmdTimeout \/ SetConfWait \/ SetConfTimeout
  \/ UsbHidPoll
  \/ Execute \/ Configured \/ (\E r \in Reports : Report(r)) \/ PortChange

Spec == Init /\ [][Next]_vars

-------------------------------------------------------------------------------
(* usb_init and usb_hid_poll against the controller.  hid_report is never    *)
(* given an older report than before; and as long as no answer came after    *)
(* its wait had given up, it is given every report exactly once, in order,   *)
(* and the endpoint that was configured is the one of the port the keyboard  *)
(* sits on.                                                                  *)
ReportsReal ==
  /\ \A i, j \in DOMAIN handled : i <= j => handled[i] <= handled[j]
  /\ ~late => /\ \A i \in DOMAIN handled : handled[i] = i
              /\ present => PortField(port) = plugged
===============================================================================
