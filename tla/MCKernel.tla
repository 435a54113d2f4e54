------------------------------ MODULE MCKernel ------------------------------
(***************************************************************************)
(* Memory, tasks and processors of the kernel: the page tables tasks share *)
(* (AddrSpace), the kernel heap, futexes, demand paging with copy-on-write *)
(* and swap, the canvases shared with the compositor, program loading,     *)
(* signals, the TLB shootdown and the disk driver. A behaviour runs one of *)
(* them, chosen at the start. AddrSpace has its own variables; the others  *)
(* share v1 to v15, each under its own names.                              *)
(***************************************************************************)
EXTENDS AddrSpace, TLC

CONSTANTS procA, procB     \* the two processes of the memory part

VARIABLES
  part,     \* the part that runs
  v1, v2, v3, v4, v5, v6, v7, v8, v9, v10, v11, v12, v13, v14, v15

Threads == {"t1", "t2", "t3"}

(* The programs on the disk: two segments, the second one writable, some with
   relocations or an interpreter, one too large and one cut short. *)
Seg(va, mem, file, x, w) ==
  [va |-> va, mem |-> mem, file |-> file, inside |-> TRUE, x |-> x, w |-> w]
Elf(id, kind, segs, rela, interp) ==
  [ok |-> TRUE, id |-> id, kind |-> kind, segs |-> segs, rela |-> rela,
   interp |-> interp, marked |-> FALSE, entry |-> segs[1].va]
Programs ==
  [f \in {"hello", "static", "dynamic", "libc", "huge", "cut"} |->
     CASE f = "hello" -> Elf(f, "dyn", <<Seg(0, 3, 3, TRUE, FALSE), Seg(3, 10, 3, FALSE, TRUE)>>,
                             {[at |-> 4, add |-> 1]}, "")
       [] f = "static" -> Elf(f, "exec", <<Seg(5, 4, 4, TRUE, FALSE), Seg(9, 2, 1, FALSE, TRUE)>>,
                              {}, "")
       [] f = "dynamic" -> Elf(f, "dyn", <<Seg(0, 2, 2, TRUE, FALSE), Seg(2, 3, 1, FALSE, TRUE)>>,
                               {}, "ld")
       [] f = "libc" -> Elf(f, "dyn", <<Seg(0, 4, 3, TRUE, FALSE), Seg(4, 2, 2, FALSE, TRUE)>>,
                            {[at |-> 5, add |-> 2]}, "")
       [] f = "huge" -> Elf(f, "dyn", <<Seg(0, 4, 4, TRUE, FALSE), Seg(4, 60, 4, FALSE, TRUE)>>,
                            {}, "")
       [] f = "cut" -> Elf(f, "dyn", << [Seg(0, 4, 4, TRUE, FALSE) EXCEPT !.inside = FALSE] >>,
                           {}, "")]

Hp == INSTANCE Heap WITH
    Class <- <<1, 2, 4>>, Page <- 8, MinPages <- 2, InitPages <- 2, MemPages <- 4,
    Req <- {1, 3, 6}, Contig <- 1, Misuse <- 0, hdr <- v1, head <- v2,
    buckets <- v3, regions <- v4, live <- v5, freed <- v6
Fx == INSTANCE Futex WITH
    Thread <- Threads, Proc <- {"p1"}, ProcOf <- [t \in Threads |-> "p1"],
    Addr <- {"a", "b", "tid"}, Tid <- "tid", None <- "none", FutexMax <- 2,
    WakeMax <- 2, Smp <- 0, word <- v1, waiter <- v2, key <- v3, st <- v4, pc <- v5,
    at <- v6
Mem == INSTANCE Memory WITH
    Task <- {procA, procB}, First <- procA, Page <- {1, 2}, Area <- {{1, 2}},
    Frame <- {1, 2}, Low <- 0, RamSlots <- 0, DiskSlots <- 1, Limit <- 4,
    MaxRegions <- 2, WhileSwapped <- {}, life <- v1, region <- v2, mem <- v3,
    pte <- v4, refs <- v5, data <- v6, sdata <- v7, fault <- v8, want <- v9,
    halted <- v10
Surf == INSTANCE Surfaces WITH
    Task <- {"wm", "a", "b"}, Wm <- "wm", Slots <- {0, 1}, Sizes <- {1},
    Frame <- 1..4, None <- "none", Plain <- TRUE, life <- v1, wm <- v2, surf <- v3,
    pt <- v4, refs <- v5, old <- v6
Ld == INSTANCE Exec WITH
    U <- 4, VFloor <- 1, VBase <- 4, StackTop <- 32, Tramp <- 16, StackPages <- 7,
    Biases <- {4, 6}, Tops <- {31, 32}, Disk <- Programs,
    Fallbacks <- <<"ldmusl", "libc">>,
    ArgLists <- {<< <<2, 1>>, <<1, 2>> >>}, MaxRegions <- 5,
    image <- v1, abi <- v2, handlers <- v3, arena <- v4, how <- v5
Sgn == INSTANCE Signals WITH
    Task <- {"p", "c"}, First <- "p", Sig <- {1}, Frame <- 1, Scratch <- 1,
    Top <- 8, Bottom <- 0, Pushes <- 1, MaxRaise <- 2, MaxExec <- 2, st <- v1,
    prog <- v2, handler <- v3, pending <- v4, blocked <- v5, ctx <- v6, base <- v7,
    mem <- v8, saved <- v9, sent <- v10, got <- v11, resumed <- v12, raised <- v13
Tlb == INSTANCE TlbShootdown WITH
    Bsp <- "bsp", Ap <- {"a1", "a2"}, Va <- {"v"}, Nobody <- "nobody", All <- "all",
    Editor <- {"bsp", "a1"}, Ops <- {"unmap", "remap", "full", "switch"},
    MaxSeq <- 3, mapped <- v1, tlb <- v2, pc <- v3, job <- v4, todo <- v5,
    seq <- v6, tlbLock <- v7, swLock <- v8, req <- v9, gen <- v10, what <- v11,
    ipi <- v12, isr <- v13, late <- v14
Blk == INSTANCE VirtioBlk WITH
    Cpu <- {"bsp", "ap"}, Bsp <- "bsp", Sector <- {"s"}, Val <- {"zero", "one"},
    Zero <- "zero", None <- "none", Wrap <- 3, lock <- v1, pc <- v2,
    op <- v3, hdr <- v4, buf <- v5, status <- v6, avail <- v7, used <- v8,
    last <- v9, ioDone <- v10, irq <- v11, dev <- v12, disk <- v13, stable <- v14,
    left <- v15

(* A part of n variables leaves the rest alone. *)
Blank(n) ==
  /\ (1 > n => v1 = 0) /\ (2 > n => v2 = 0) /\ (3 > n => v3 = 0)
  /\ (4 > n => v4 = 0) /\ (5 > n => v5 = 0) /\ (6 > n => v6 = 0)
  /\ (7 > n => v7 = 0) /\ (8 > n => v8 = 0) /\ (9 > n => v9 = 0)
  /\ (10 > n => v10 = 0) /\ (11 > n => v11 = 0) /\ (12 > n => v12 = 0)
  /\ (13 > n => v13 = 0) /\ (14 > n => v14 = 0) /\ (15 > n => v15 = 0)

Still(n) ==
  /\ (1 > n => v1' = v1) /\ (2 > n => v2' = v2) /\ (3 > n => v3' = v3)
  /\ (4 > n => v4' = v4) /\ (5 > n => v5' = v5) /\ (6 > n => v6' = v6)
  /\ (7 > n => v7' = v7) /\ (8 > n => v8' = v8) /\ (9 > n => v9' = v9)
  /\ (10 > n => v10' = v10) /\ (11 > n => v11' = v11) /\ (12 > n => v12' = v12)
  /\ (13 > n => v13' = v13) /\ (14 > n => v14' = v14) /\ (15 > n => v15' = v15)

shared == <<v1, v2, v3, v4, v5, v6, v7, v8, v9, v10, v11, v12, v13, v14, v15>>

(* The parts that stop when the model's tasks, keys or sequence numbers run out *)
Ends == {"spaces", "futex", "memory", "surfaces", "exec", "signals", "tlb"}

KernelInit ==
  /\ Init
  /\ \/ part = "spaces" /\ Blank(0)
     \/ part = "heap" /\ Hp!Init /\ Blank(6)
     \/ part = "futex" /\ Fx!Init /\ Blank(6)
     \/ part = "memory" /\ Mem!Init /\ Blank(10)
     \/ part = "surfaces" /\ Surf!Init /\ Blank(6)
     \/ part = "exec" /\ Ld!Init /\ Blank(5)
     \/ part = "signals" /\ Sgn!Init /\ Blank(13)
     \/ part = "tlb" /\ Tlb!Init /\ Blank(14)
     \/ part = "blk" /\ Blk!Init /\ Blank(15)

KernelNext ==
  /\ part' = part
  /\ \/ part = "spaces" /\ Next /\ UNCHANGED shared
     \/ /\ UNCHANGED vars
        /\ \/ part = "heap" /\ Hp!Next /\ Still(6)
           \/ part = "futex" /\ Fx!Next /\ Still(6)
           \/ part = "memory" /\ Mem!Next /\ Still(10)
           \/ part = "surfaces" /\ Surf!Next /\ Still(6)
           \/ part = "exec" /\ Ld!Next /\ Still(5)
           \/ part = "signals" /\ Sgn!Next /\ Still(13)
           \/ part = "tlb" /\ Tlb!Next /\ Still(14)
           \/ part = "blk" /\ Blk!Next /\ Still(15)
     \/ part \in Ends /\ UNCHANGED <<vars, shared>>

KernelSpec == KernelInit /\ [][KernelNext]_<<part, vars, shared>>

(* Any of the two processes may be the first, and nothing else tells them apart. *)
Twins == Permutations({procA, procB})

-----------------------------------------------------------------------------
(* Properties *)

(* The kernel heap: what callers hold overlaps nothing, the block list tiles the
   heap's pages, every free block is on the one list of its size and none has
   a free neighbour. *)
HeapSound ==
  part = "heap" => /\ Hp!TypeOK /\ Hp!NoOverlap /\ Hp!ListTilesMemory
                   /\ Hp!BucketsExact /\ Hp!FullyCoalesced

(* Futexes lose no wake-up, and a sleeper is in exactly one slot of the table. *)
FutexSound == part = "futex" => Fx!TypeOK /\ Fx!WaiterWoken /\ Fx!SlotsExact

(* A wake-up never revives a killed thread. *)
DeadStaysDead == [][part = "futex" => Fx!DeadStaysDead]_shared

(* Every frame's count is the number of its users, through fork, copy-on-write,
   swap and teardown. *)
FrameRefsExact == part = "memory" => Mem!FrameRefsExact

(* A task finds at every page what it stored there last, or what its parent had
   there at fork, or zeroes. *)
MemoryPrivate == part = "memory" => Mem!MemoryPrivate

(* No task, the compositor above all, maps a canvas frame that was freed. *)
CanvasAlive == part = "surfaces" => Surf!CanvasAlive

(* The image a task runs is the file, at its place, with its permissions, its
   arguments and its environment, also after an exec that failed. *)
ImageExact == part = "exec" => Ld!ImageExact

(* A signal reaches only the program it was sent to, and enters only a handler
   that program installed. *)
SignalsBelong == part = "signals" => Sgn!SignalsBelong

(* Two processors and their devices: no AP reaches an unmapped page through its
   TLB; one disk request is in flight, and its result is the device's. *)
SmpSound ==
  CASE part = "tlb" -> Tlb!TypeOK /\ Tlb!NoStaleOnAps
    [] part = "blk" -> Blk!TypeOK /\ Blk!OneInFlight /\ Blk!ResultIsReal
    [] OTHER -> TRUE
=============================================================================
