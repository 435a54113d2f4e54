------------------------------ MODULE NetLink -------------------------------
(***************************************************************************)
(* The packet paths below the protocols: the descriptor rings and the      *)
(* receive FIFO of e1000.c, and net_pump with the loopback ring of net.c.  *)
(* CPUs call net_pump concurrently; the one that takes g_net_pump_lock     *)
(* drains the hardware ring, then the FIFO, then the loopback ring.        *)
(* Handling a packet may send others, on the wire or to loopback.  Frames  *)
(* are numbered in the order in which they are made.  The device is        *)
(* external: it fills descriptors from RDH up to RDT and sends those from  *)
(* TDH up to TDT.                                                          *)
(***************************************************************************)
EXTENDS Integers, Sequences, SequencesExt

CONSTANTS
  Cpu,           \* CPUs that call net_pump
  Sender,        \* of them, those that may be in nic_send at once
  NumRx, NumTx,  \* NUM_RX, NUM_TX
  Fifo,          \* RXFIFO
  LoQueue,       \* LOOPBACK_QUEUE
  MaxFrames      \* bound: frames received, and packets sent on each path

VARIABLES
  rx,        \* rx descriptors: the frame with RX_DD set, or 0
  rdh, rdt,  \* the device's head and the tail register
  rxSw,      \* g_rx_sw
  fifo, fh, ft,       \* g_rxfifo with its head and tail
  got,       \* history: frames the device took off the wire
  dropped,   \* history: frames dropped at a full FIFO
  seen,      \* history: frames handed to process_eth
  tx, tdh, tdt, txSw, \* tx descriptors [f, dd], the device's registers, g_tx_sw
  asked,     \* history: frames nic_send took
  wire,      \* history: frames the device sent
  send,      \* per CPU: 0, or the descriptor nic_send found free
  lo, lh, lt, lc,     \* g_lo_q with its head, tail and count
  loIn, loOut,        \* history: packets queued to and taken from loopback
  pump       \* [cpu, pc]: the holder of g_net_pump_lock and where it is

rxVars == <<rx, rdh, rdt, rxSw, fifo, fh, ft, got, dropped, seen>>
txVars == <<tx, tdh, tdt, txSw, asked, wire, send>>
loVars == <<lo, lh, lt, lc, loIn, loOut>>
vars == <<rxVars, txVars, loVars, pump>>

None == "none"

Init ==
  /\ rx = [i \in 0..(NumRx - 1) |-> 0] /\ rdh = 0 /\ rdt = NumRx - 1 /\ rxSw = 0
  /\ fifo = [i \in 0..(Fifo - 1) |-> 0] /\ fh = 0 /\ ft = 0
  /\ got = 0 /\ dropped = {} /\ seen = <<>>
  /\ tx = [i \in 0..(NumTx - 1) |-> [f |-> 0, dd |-> TRUE]] /\ tdh = 0 /\ tdt = 0 /\ txSw = 0
  /\ asked = 0 /\ wire = <<>> /\ send = [c \in Cpu |-> -1]
  /\ lo = [i \in 0..(LoQueue - 1) |-> 0] /\ lh = 0 /\ lt = 0 /\ lc = 0
  /\ loIn = 0 /\ loOut = <<>>
  /\ pump = [cpu |-> None, pc |-> "out"]

-----------------------------------------------------------------------------
(* The device (external) *)

DeviceReceives ==
  /\ got < MaxFrames /\ rdh # rdt
  /\ got' = got + 1
  /\ rx' = [rx EXCEPT ![rdh] = got + 1]
  /\ rdh' = (rdh + 1) % NumRx
  /\ UNCHANGED <<rdt, rxSw, fifo, fh, ft, dropped, seen, txVars, loVars, pump>>

DeviceSends ==
  /\ tdh # tdt
  /\ wire' = Append(wire, tx[tdh].f)
  /\ tx' = [tx EXCEPT ![tdh].dd = TRUE]
  /\ tdh' = (tdh + 1) % NumTx
  /\ UNCHANGED <<rxVars, tdt, txSw, asked, send, loVars, pump>>

-----------------------------------------------------------------------------
(* Faulty variants of the definitions below: each breaks one of the properties *)

(* The FIFO takes a frame when it is full. *)
FifoFullOff == FALSE

(* nic_send does not wait for the descriptor. *)
TxFreeOff(i) == TRUE

(* The loopback packet is looked at after the packets its handler queued. *)
LoTakeInPlace(n) ==
  LET q == [i \in 0..(LoQueue - 1) |->
              IF \E k \in 1..n : i = (lt + k - 1) % LoQueue
              THEN loIn + (CHOOSE k \in 1..n : i = (lt + k - 1) % LoQueue) ELSE lo[i]]
  IN  q[lh]

-----------------------------------------------------------------------------
FifoFull == (fh + 1) % Fifo = ft
NewTail(sw) == (sw + NumRx - 1) % NumRx
TxFree(i) == tx[i].dd
LoTake(n) == lo[lh]

(* net_pump: spin_trylock, then nic_poll and rx_drain. *)
PumpEnter(c) ==
  /\ pump.cpu = None
  /\ pump' = [cpu |-> c, pc |-> "drain"]
  /\ UNCHANGED <<rxVars, txVars, loVars>>

(* One turn of rx_drain: rx_fifo_push, and the descriptor goes back. *)
Drain(c) ==
  /\ pump = [cpu |-> c, pc |-> "drain"] /\ rx[rxSw] # 0
  /\ IF FifoFull THEN dropped' = dropped \cup {rx[rxSw]} /\ UNCHANGED <<fifo, fh>>
     ELSE fifo' = [fifo EXCEPT ![fh] = rx[rxSw]] /\ fh' = (fh + 1) % Fifo /\ UNCHANGED dropped
  /\ rx' = [rx EXCEPT ![rxSw] = 0]
  /\ rxSw' = (rxSw + 1) % NumRx
  /\ UNCHANGED <<rdh, rdt, ft, got, seen, txVars, loVars, pump>>

(* Its end: the tail register moves up to just before the next descriptor. *)
DrainEnd(c) ==
  /\ pump = [cpu |-> c, pc |-> "drain"] /\ rx[rxSw] = 0
  /\ rdt' = NewTail(rxSw)
  /\ pump' = [cpu |-> c, pc |-> "frames"]
  /\ UNCHANGED <<rx, rdh, rxSw, fifo, fh, ft, got, dropped, seen, txVars, loVars>>

(* net_ip_send to 127/8: queue n packets, as far as the ring has room. *)
LoQueued(n, room) ==
  LET k == IF n <= room THEN n ELSE room IN
  /\ lo' = [i \in DOMAIN lo |->
              IF \E j \in 1..k : i = (lt + j - 1) % LoQueue
              THEN loIn + (CHOOSE j \in 1..k : i = (lt + j - 1) % LoQueue) ELSE lo[i]]
  /\ lt' = (lt + k) % LoQueue
  /\ loIn' = loIn + k

(* rx_fifo_pop, process_eth. *)
Frame(c) ==
  /\ pump = [cpu |-> c, pc |-> "frames"] /\ fh # ft
  /\ seen' = Append(seen, fifo[ft]) /\ ft' = (ft + 1) % Fifo
  /\ UNCHANGED <<rx, rdh, rdt, rxSw, fifo, fh, got, dropped, txVars, loVars, pump>>

FramesEnd(c) ==
  /\ pump = [cpu |-> c, pc |-> "frames"] /\ fh = ft
  /\ pump' = [cpu |-> c, pc |-> "loop"]
  /\ UNCHANGED <<rxVars, txVars, loVars>>

(* The copy-out drain: the slot is free before the handler runs, and the
   handler queues n packets more. *)
Loop(c, n) ==
  /\ pump = [cpu |-> c, pc |-> "loop"] /\ lc > 0 /\ loIn + n <= MaxFrames
  /\ loOut' = Append(loOut, LoTake(n))
  /\ lh' = (lh + 1) % LoQueue
  /\ LoQueued(n, LoQueue - (lc - 1))
  /\ lc' = lc - 1 + (loIn' - loIn)
  /\ UNCHANGED <<rxVars, txVars, pump>>

PumpLeave(c) ==
  /\ pump = [cpu |-> c, pc |-> "loop"] /\ lc = 0
  /\ pump' = [cpu |-> None, pc |-> "out"]
  /\ UNCHANGED <<rxVars, txVars, loVars>>

(* A program sends to loopback. *)
LoSend ==
  /\ loIn < MaxFrames /\ lc < LoQueue
  /\ LoQueued(1, LoQueue - lc) /\ lc' = lc + 1
  /\ UNCHANGED <<lh, loOut, rxVars, txVars, pump>>

(* nic_send waits for its descriptor, or gives up; nothing keeps another CPU
   from the same one before g_tx_sw moves. *)
SendWait(c) ==
  /\ c \in Sender /\ send[c] = -1 /\ asked < MaxFrames /\ TxFree(txSw)
  /\ send' = [send EXCEPT ![c] = txSw]
  /\ UNCHANGED <<rxVars, tx, tdh, tdt, txSw, asked, wire, loVars, pump>>

SendFill(c) ==
  /\ send[c] # -1
  /\ tx' = [tx EXCEPT ![send[c]] = [f |-> asked + 1, dd |-> FALSE]]
  /\ asked' = asked + 1
  /\ txSw' = (txSw + 1) % NumTx /\ tdt' = (txSw + 1) % NumTx
  /\ send' = [send EXCEPT ![c] = -1]
  /\ UNCHANGED <<rxVars, tdh, wire, loVars, pump>>

Next ==
  \/ DeviceReceives \/ DeviceSends \/ LoSend
  \/ \E c \in Cpu :
       \/ PumpEnter(c) \/ Drain(c) \/ DrainEnd(c) \/ Frame(c) \/ FramesEnd(c) \/ PumpLeave(c)
       \/ SendWait(c) \/ SendFill(c)
       \/ \E n \in 0..2 : Loop(c, n)

Spec == Init /\ [][Next]_vars

-----------------------------------------------------------------------------
(* Properties *)

Increasing(s) == \A i, j \in DOMAIN s : i < j => s[i] < s[j]

(* A frame the device received is in its descriptor, in the FIFO, dropped at a
   full FIFO, or handed up, once and in order: the ring, its tail register and
   the FIFO never lose or repeat one as their indices wrap. *)
FramesAccounted ==
  LET Ring == {rx[i] : i \in DOMAIN rx} \ {0}
      Queued == {fifo[i] : i \in {j \in DOMAIN fifo : (j - ft) % Fifo < (fh - ft) % Fifo}}
  IN  /\ Increasing(seen)
      /\ 1..got = Ring \cup Queued \cup dropped \cup {seen[i] : i \in DOMAIN seen}

(* The device sends what nic_send was given, in order: a descriptor is not
   filled again before it was sent. *)
SentInOrder == wire = [i \in DOMAIN wire |-> i]

(* Loopback delivers what was queued, in order, though handlers queue packets
   while the ring is drained. *)
LoopbackInOrder == loOut = [i \in DOMAIN loOut |-> i]
=============================================================================
