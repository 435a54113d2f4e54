------------------------------- MODULE MCLive -------------------------------
(***************************************************************************)
(* What must eventually happen in seven parts of the system: the TLB       *)
(* shootdown, the disk driver, the address configuration, the settings     *)
(* file, the terminal, the watchdog and the shell's jobs. A behaviour runs *)
(* one of them, chosen at the start. The shootdown has its own variables;  *)
(* the others share v1 to v16, each under its own names.                   *)
(***************************************************************************)
EXTENDS TlbShootdown

VARIABLES
  part,     \* the part that runs
  v1, v2, v3, v4, v5, v6, v7, v8, v9, v10, v11, v12, v13, v14, v15, v16

BlkCpu == {"bsp", "ap"}

Blk == INSTANCE VirtioBlk WITH
    Cpu <- BlkCpu, Bsp <- "bsp", Sector <- {"s"}, Val <- {"zero"}, Zero <- "zero",
    None <- "none", Wrap <- 2, lock <- v1, pc <- v2, op <- v3,
    hdr <- v4, buf <- v5, status <- v6, avail <- v7, used <- v8, last <- v9,
    ioDone <- v10, irq <- v11, dev <- v12, disk <- v13, stable <- v14, left <- v15
Net == INSTANCE NetConfig WITH
    Server <- {"s1", "s2"}, Router <- {"r1", "r2"}, Fallback <- "slirp",
    None <- "none", MaxRetries <- 3, MaxRs <- 3, MaxRoutes <- 4, st <- v1, ip <- v2,
    offer <- v3, retries <- v4, route <- v5, net <- v6, ip6 <- v7, rs <- v8,
    gaveup6 <- v9
Set == INSTANCE Settings WITH
    Pages <- {"home", "personalization", "system"}, MaxHistory <- 2, MaxMoves <- 2,
    MaxChanges <- 3, MaxOpens <- 2, open <- v1, hist <- v2, idx <- v3, pref <- v4,
    file <- v5, wr <- v6, applied <- v7, moves <- v8, changes <- v9, opens <- v10
Tty == INSTANCE Terminal WITH
    Typed <- {"a", "nl", "intr", "eof"}, Buf <- 2, Items <- 2, Timeouts <- {0, 1},
    MaxKeys <- 2, MaxOps <- 2, inb <- v1, outb <- v2, echo <- v3, canon <- v4,
    typed <- v5, got <- v6, sigs <- v7, pipe <- v8, ev <- v9, fds <- v10,
    items <- v11, call <- v12, ret <- v13, keys <- v14, ops <- v15
Dog == INSTANCE Watchdog WITH
    Slot <- {0, 1}, KickTimeout <- 2, Hung <- 2, Writeback <- 1, reg <- v1,
    idx <- v2, age <- v3, loop <- v4, wm <- v5, task <- v6, dirty <- v7,
    wbAge <- v8, reset <- v9
Sh == INSTANCE Nyra WITH
    Keys <- {"p", "b", "f", "g"}, LineLen <- 1, History <- 1, Jobs <- 1,
    Scripts <- {}, MaxPids <- 2, MaxKeys <- 6, cmd <- v1, len <- v2, edit <- v3,
    hist <- v4, hpos <- v5, line <- v6, ran <- v7, jobs <- v8, fg <- v9,
    child <- v10, lost <- v11, pipebuf <- v12, files <- v13, shown <- v14,
    script <- v15, keys <- v16

(* The parts that stop at a bound of the model *)
Ends == {"tlb", "net", "settings", "terminal", "nyra"}

(* A part of n variables leaves the rest alone. *)
Blank(n) ==
  /\ (1 > n => v1 = 0) /\ (2 > n => v2 = 0) /\ (3 > n => v3 = 0)
  /\ (4 > n => v4 = 0) /\ (5 > n => v5 = 0) /\ (6 > n => v6 = 0)
  /\ (7 > n => v7 = 0) /\ (8 > n => v8 = 0) /\ (9 > n => v9 = 0)
  /\ (10 > n => v10 = 0) /\ (11 > n => v11 = 0) /\ (12 > n => v12 = 0)
  /\ (13 > n => v13 = 0) /\ (14 > n => v14 = 0) /\ (15 > n => v15 = 0)
  /\ (16 > n => v16 = 0)

Still(n) ==
  /\ (1 > n => v1' = v1) /\ (2 > n => v2' = v2) /\ (3 > n => v3' = v3)
  /\ (4 > n => v4' = v4) /\ (5 > n => v5' = v5) /\ (6 > n => v6' = v6)
  /\ (7 > n => v7' = v7) /\ (8 > n => v8' = v8) /\ (9 > n => v9' = v9)
  /\ (10 > n => v10' = v10) /\ (11 > n => v11' = v11) /\ (12 > n => v12' = v12)
  /\ (13 > n => v13' = v13) /\ (14 > n => v14' = v14) /\ (15 > n => v15' = v15)
  /\ (16 > n => v16' = v16)

shared == <<v1, v2, v3, v4, v5, v6, v7, v8, v9, v10, v11, v12, v13, v14, v15, v16>>

LiveInit ==
  /\ Init
  /\ \/ part = "tlb" /\ Blank(0)
     \/ part = "blk" /\ Blk!Init /\ Blank(15)
     \/ part = "net" /\ Net!Init /\ Blank(9)
     \/ part = "settings" /\ Set!Init /\ Blank(10)
     \/ part = "terminal" /\ Tty!Init /\ Blank(15)
     \/ part = "watchdog" /\ Dog!Init /\ Blank(9)
     \/ part = "nyra" /\ Sh!Init /\ Blank(16)

LiveNext ==
  /\ part' = part
  /\ \/ part = "tlb" /\ Next /\ UNCHANGED shared
     \/ /\ UNCHANGED vars
        /\ \/ part = "blk" /\ Blk!Next /\ Still(15)
           \/ part = "net" /\ Net!Next /\ Still(9)
           \/ part = "settings" /\ Set!Next /\ Still(10)
           \/ part = "terminal" /\ Tty!Next /\ Still(15)
           \/ part = "watchdog" /\ Dog!Next /\ Still(9)
           \/ part = "nyra" /\ Sh!Next /\ Still(16)
     \/ part \in Ends /\ UNCHANGED <<vars, shared>>

(* The fairness of each part, while it is the one that runs *)
LiveFairness ==
  /\ \A c \in Cpu : SF_vars(part = "tlb" /\ Sender(c))
  /\ \A d \in Ap : SF_vars(part = "tlb" /\ Handler(d))
  /\ \A c \in BlkCpu : WF_shared(part = "blk" /\ Blk!Driver(c) /\ Still(15))
  /\ WF_shared(part = "net" /\ Net!Timers4 /\ Still(9))
  /\ WF_shared(part = "net" /\ Net!Timers6 /\ Still(9))
  /\ WF_shared(part = "settings" /\ Set!ConfWrite /\ Still(10))
  /\ WF_shared(part = "settings" /\ Set!Poll /\ Still(10))
  /\ WF_shared(part = "terminal" /\ Tty!Turn /\ Still(15))
  /\ WF_shared(part = "watchdog" /\ Dog!Tick /\ Still(9))
  /\ WF_shared(part = "watchdog" /\ Dog!MainLoop /\ Still(9))
  /\ WF_shared(part = "nyra" /\ Sh!PollForeground /\ Still(16))
  /\ WF_shared(part = "nyra" /\ Sh!Reap /\ Still(16))

LiveSpec == LiveInit /\ [][LiveNext]_<<part, vars, shared>> /\ LiveFairness

-----------------------------------------------------------------------------
(* Properties *)

(* Every disk request returns, even from a device that never answers. *)
RequestReturns ==
  \A c \in BlkCpu :
    (part = "blk" /\ Blk!Waiting(c)) ~> (part = "blk" /\ ~Blk!Waiting(c))

(* The machine gets an address and stops asking for more: neither the DHCP
   client nor the search for a router runs for ever. *)
ConfigSettles == <>[](part = "net" => Net!Settled)

(* Once the user stops changing them, the desktop shows the settings the file
   holds, though it may have read half a file on the way. *)
SettingsApplied == <>[](part = "settings" => Set!Shown)

(* A poll, select or epoll_wait that has a timeout, or finds a descriptor
   ready, returns. *)
WaitReturns == (part = "terminal" /\ Tty!MustReturn) ~> (part = "terminal" /\ Tty!Returned)

(* What the watchdog's tick is there for happens: a task that was lost is queued
   again, and dirty files reach the disk even when kmain's loop is stuck. *)
WatchdogRecovers ==
  /\ (part = "watchdog" /\ Dog!TaskLost) ~> (part = "watchdog" /\ ~Dog!TaskLost)
  /\ (part = "watchdog" /\ Dog!Dirty) ~> (part = "watchdog" /\ ~Dog!Dirty)

(* Every program the shell started and kept in its table is reaped when it
   exits: no zombie is left behind. *)
JobsReaped ==
  \A p \in Sh!Pid : (part = "nyra" /\ Sh!Zombie(p)) ~> (part = "nyra" /\ Sh!Reaped(p))

(* On the way, no preference is lost between the settings and their file, and what
   is typed on the terminal is read in order, once (Settings, Terminal). *)
StateKept ==
  CASE part = "settings" -> Set!PrefsKept
    [] part = "terminal" -> Tty!TerminalOrder
    [] OTHER -> TRUE

(* On the way, an address that is set stays, and no desktop that is kicked is
   reset (NetConfig, Watchdog). *)
StepsSound ==
  [][CASE part = "net" -> Net!AddressStable
       [] part = "watchdog" -> Dog!NoFalseReset
       [] OTHER -> TRUE]_shared
=============================================================================
