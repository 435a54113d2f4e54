------------------------------ MODULE MCSystem ------------------------------
(***************************************************************************)
(* The system around the kernel's core: the lock of the file system and    *)
(* the pipe, which have their own variables, and the parts that share v1   *)
(* to v24, each under its own names: file descriptors, the file tree, TCP, *)
(* the queries that wait for an answer, the link layer, Wi-Fi, TLS, RSA,   *)
(* the USB and PS/2 input, the compositor, its launcher, the shell,        *)
(* accounts and notifications, the package manager, and the file and       *)
(* picture programs. A behaviour runs one part, chosen at the start.       *)
(***************************************************************************)
EXTENDS VfsLock, Integers, Sequences

VARIABLES
  part,     \* the part that runs
  pBuf, pHead, pTail, pCount, pWriteEnds, pWpc, pN, pWreg, pSent, pRpc, pRreg,
  pWant, pGot, pEof,
  v1, v2, v3, v4, v5, v6, v7, v8, v9, v10, v11, v12, v13, v14, v15, v16, v17,
  v18, v19, v20, v21, v22, v23, v24

(* The inputs of the parts *)
Path(abs, parts) == [abs |-> abs, parts |-> parts]
SomePaths == {Path(FALSE, <<"a">>), Path(TRUE, <<"b">>), Path(TRUE, <<"d", "a">>),
              Path(FALSE, <<"..", "b">>)}
Initrd == <<[path |-> <<"d">>, type |-> "dir"], [path |-> <<"d", "a">>, type |-> "file"]>>

ToBits(v, k) == [i \in 1..k |-> (v \div 2 ^ (k - i)) % 2]
PublicKeys == {[in |-> ToBits(x, 4), exp |-> ToBits(e, 3), n |-> ToBits(n, 4)] :
                 x \in 0..15, e \in {0, 1, 3, 5, 6, 7}, n \in {3, 5, 9, 11, 13, 15}}
PrivateKeys == {[in |-> x, p |-> 5, q |-> 3, d |-> d] : x \in 0..14, d \in {1, 3, 5, 7}}

BaseNames ==
  [p \in {"/bin/calc", "/bin/files", "/bin/x", "/opt/q"} |->
     CASE p = "/bin/calc" -> "calc" [] p = "/bin/files" -> "files"
       [] p = "/bin/x" -> "x" [] p = "/opt/q" -> "q"]

Pipelines == {[stages |-> << <<"echo", "x">>, <<"echo", "y">>, <<"cat">> >>, out |-> "f"],
              [stages |-> << <<"echo", "z">>, <<"cat">> >>, out |-> ""],
              [stages |-> << <<"read">>, <<"cat">> >>, out |-> ""],
              [stages |-> << <<"read">> >>, out |-> ""]}

Flat == [i \in 0..63 |-> 0]
SomeBlocks == {Flat, [Flat EXCEPT ![0] = -1024, ![63] = 1], [Flat EXCEPT ![0] = 1016, ![1] = -1023],
               [Flat EXCEPT ![16] = 1, ![33] = -3], [Flat EXCEPT ![0] = 5, ![2] = 7, ![62] = -1],
               [Flat EXCEPT ![17] = 15, ![50] = 512]}

(* The parts *)
Pp == INSTANCE Pipe WITH
    Size <- 3, Last <- 6, Smp <- FALSE, buf <- pBuf, head <- pHead, tail <- pTail,
    count <- pCount, writeEnds <- pWriteEnds, wpc <- pWpc, n <- pN, wreg <- pWreg,
    sent <- pSent, rpc <- pRpc, rreg <- pRreg, want <- pWant, got <- pGot,
    eof <- pEof
Fd == INSTANCE Files WITH
    Task <- {"a", "b"}, First <- "a", Low <- {}, High <- {3, 4}, Dir <- {"d", "e"},
    File <- {}, Pipe <- {"p"}, Root <- "root", live <- v1, born <- v2, fds <- v3,
    cwd <- v4, linked <- v5, vrefs <- v6, pipe <- v7
Tree == INSTANCE VfsTree WITH
    Task <- {"r", "u"}, SuperUser <- {"r"}, Node <- 1..5, Paths <- SomePaths,
    Targets <- {Path(FALSE, <<"a">>)}, Contents <- {"x"}, Archive <- Initrd,
    MaxCalls <- 4, tar <- v1, nd <- v2, kids <- v3, cwd <- v4, fd <- v5, last <- v6,
    calls <- v7
Tcp == INSTANCE Tcp WITH
    Roles <- {"connect", "listen"}, Bytes <- 2, PeerBytes <- 1, SndBuf <- 2,
    RxBuf <- 2, MaxRetries <- 2, Wrap <- 16, Wire <- 3, MaxLoss <- 1,
    Reorder <- FALSE, role <- v1, c <- v2, call <- v3, opened <- v4, sent <- v5,
    read <- v6, eof <- v7, peer <- v8, out <- v9, in <- v10, lost <- v11
Qry == INSTANCE NetWait WITH
    Caller <- {"cpu0"}, Host <- {"x", "y"}, Hop <- {"gw"}, Slots <- 2,
    MaxCalls <- 2, call <- v1, ids <- v2, dnsId <- v3, dnsRx <- v4, ping <- v5,
    pingId <- v6, arp <- v7, heard <- v8, net <- v9, result <- v10
Lnk == INSTANCE NetLink WITH
    Cpu <- {"c0", "c1"}, Sender <- {"c0"}, NumRx <- 3, NumTx <- 2, Fifo <- 2,
    LoQueue <- 2, MaxFrames <- 4, rx <- v1, rdh <- v2, rdt <- v3, rxSw <- v4,
    fifo <- v5, fh <- v6, ft <- v7, got <- v8, dropped <- v9, seen <- v10,
    tx <- v11, tdh <- v12, tdt <- v13, txSw <- v14, asked <- v15, wire <- v16,
    send <- v17, lo <- v18, lh <- v19, lt <- v20, lc <- v21, loIn <- v22,
    loOut <- v23, pump <- v24
Wf == INSTANCE Wifi WITH
    Passphrases <- {"good", "bad"}, ApPass <- "good", Joins <- 2, Ring <- 3,
    Payloads <- {7}, sta <- v1, wait <- v2, gstate <- v3, iface <- v4, known <- v5,
    ap <- v6, tx <- v7, rx <- v8, joins <- v9
Tls == INSTANCE Tls WITH
    MaxRecord <- 2, AppBuf <- 2, Units <- 3, e <- v1, wire <- v2, sent <- v3,
    got <- v4
Rsa == INSTANCE Bignum WITH
    ByteBits <- 1, LimbBytes <- 2, Limbs <- 2, Newton <- 1,
    PublicJobs <- PublicKeys, PrivateJobs <- PrivateKeys, job <- v1, pc <- v2,
    w <- v3, half <- v4, out <- v5
Usb == INSTANCE Usb WITH
    CmdRing <- 3, EpRing <- 3, EventRing <- 9, MaxPorts <- 3, Keys <- {1, 2},
    MayBeLate <- TRUE, MaxReports <- 4, MaxChanges <- 1, pc <- v1, port <- v2,
    plugged <- v3, cmdIdx <- v4, cmds <- v5, cmdDeq <- v6, ctl <- v7, epIdx <- v8,
    written <- v9, epDeq <- v10, events <- v11, evtEnq <- v12, evtPcs <- v13,
    evtIdx <- v14, evtRcs <- v15, armed <- v16, present <- v17, buffer <- v18,
    sent <- v19, handled <- v20, prev <- v21, down <- v22, late <- v23,
    changes <- v24
Inp == INSTANCE Input WITH
    App <- {"a"}, KbdQ <- 2, MouseQ <- 2, Width <- 64, Deltas <- {1, 20},
    Keys <- {"k"}, MaxEvents <- 3, MaxLost <- 1, held <- v1, shift <- v2,
    caps <- v3, e0 <- v4, wire <- v5, pkt <- v6, pos <- v7, focus <- v8, kq <- v9,
    mq <- v10, cur <- v11, dropped <- v12, events <- v13, lost <- v14
Desk == INSTANCE Wm WITH
    Slots <- 2, Cell <- {1, 2}, Spaces <- 2, Overlays <- {"overview"},
    Titles <- {"calc"}, MaxOpen <- 1, MaxApps <- 2, MaxInputs <- 3, d <- v1,
    screen <- v2, launched <- v3, inputs <- v4, shown <- v5
Lau == INSTANCE Launcher WITH
    BuiltIn <- <<"/bin/calc", "/bin/files">>, DockApps <- <<"/bin/calc">>,
    Places <- <<"home", "trash">>, Exec <- [x |-> "/bin/x", z |-> "/opt/q"],
    Base <- BaseNames, MaxApps <- 4, MaxDock <- 5, MaxDesktop <- 4, Rows <- 2,
    Cols <- 2, MaxSteps <- 4, apps <- v1, dock <- v2, desk <- v3, entries <- v4,
    conf <- v5, pins <- v6, hidden <- v7, fresh <- v8, placed <- v9, steps <- v10
Sh == INSTANCE Nyra WITH
    Keys <- {"p", "b", "f", "g", "s"}, LineLen <- 3, History <- 2, Jobs <- 1,
    Scripts <- Pipelines, MaxPids <- 2, MaxKeys <- 6, cmd <- v1, len <- v2,
    edit <- v3, hist <- v4, hpos <- v5, line <- v6, ran <- v7, jobs <- v8, fg <- v9,
    child <- v10, lost <- v11, pipebuf <- v12, files <- v13, shown <- v14,
    script <- v15, keys <- v16
Acc == INSTANCE Session WITH
    Task <- {"a", "b"}, Admin <- {"a"}, Passwords <- {"yart", "new"},
    Factory <- "yart", MaxFails <- 2, Lockout <- 2, Callers <- 1, MaxTime <- 2,
    MaxBoots <- 1, Ring <- 3, MaxNotes <- 0, user <- v1, now <- v2, euid <- v3,
    pc <- v4, job <- v5, file <- v6, disk <- v7, valid <- v8, misses <- v9,
    boots <- v10, ring <- v11, head <- v12, tail <- v13, posted <- v14, seen <- v15
Note == INSTANCE Session WITH
    Task <- {"a", "b"}, Admin <- {"a"}, Passwords <- {"yart"}, Factory <- "yart",
    MaxFails <- 2, Lockout <- 2, Callers <- 1, MaxTime <- 0, MaxBoots <- 0,
    Ring <- 3, MaxNotes <- 5, user <- v1, now <- v2, euid <- v3, pc <- v4,
    job <- v5, file <- v6, disk <- v7, valid <- v8, misses <- v9, boots <- v10,
    ring <- v11, head <- v12, tail <- v13, posted <- v14, seen <- v15
Pkg == INSTANCE Apk WITH
    Proc <- {"a"}, Kinds <- {"bad", "cut", "plain", "app"}, file <- v1, local <- v2,
    disk <- v3, pc <- v4, pkg <- v5, mine <- v6
Fa == INSTANCE FilesApp WITH
    Data <- {"x", "y"}, Blank <- "blank", Bases <- {"a"}, MaxN <- 1, MaxFiles <- 6,
    MaxDepth <- 1, MaxKeys <- 6, HistMax <- 2, dirs <- v1, path <- v2, hist <- v3,
    idx <- v4, ent <- v5, sel <- v6, ren <- v7, keys <- v8, clip <- v9
Jpg == INSTANCE Jpeg WITH
    Wide <- 2, High <- 1, Blocks <- SomeBlocks, Qualities <- {30},
    Caps <- {14, 1000}, image <- v1, quality <- v2, cap <- v3, phase <- v4,
    at <- v5, pending <- v6, out <- v7, prevdc <- v8, bits <- v9, bit <- v10,
    plane <- v11

(* A part of n variables leaves the rest alone. *)
Blank(n) ==
  /\ (1 > n => v1 = 0) /\ (2 > n => v2 = 0) /\ (3 > n => v3 = 0)
  /\ (4 > n => v4 = 0) /\ (5 > n => v5 = 0) /\ (6 > n => v6 = 0)
  /\ (7 > n => v7 = 0) /\ (8 > n => v8 = 0) /\ (9 > n => v9 = 0)
  /\ (10 > n => v10 = 0) /\ (11 > n => v11 = 0) /\ (12 > n => v12 = 0)
  /\ (13 > n => v13 = 0) /\ (14 > n => v14 = 0) /\ (15 > n => v15 = 0)
  /\ (16 > n => v16 = 0) /\ (17 > n => v17 = 0) /\ (18 > n => v18 = 0)
  /\ (19 > n => v19 = 0) /\ (20 > n => v20 = 0) /\ (21 > n => v21 = 0)
  /\ (22 > n => v22 = 0) /\ (23 > n => v23 = 0) /\ (24 > n => v24 = 0)

Still(n) ==
  /\ (1 > n => v1' = v1) /\ (2 > n => v2' = v2) /\ (3 > n => v3' = v3)
  /\ (4 > n => v4' = v4) /\ (5 > n => v5' = v5) /\ (6 > n => v6' = v6)
  /\ (7 > n => v7' = v7) /\ (8 > n => v8' = v8) /\ (9 > n => v9' = v9)
  /\ (10 > n => v10' = v10) /\ (11 > n => v11' = v11) /\ (12 > n => v12' = v12)
  /\ (13 > n => v13' = v13) /\ (14 > n => v14' = v14) /\ (15 > n => v15' = v15)
  /\ (16 > n => v16' = v16) /\ (17 > n => v17' = v17) /\ (18 > n => v18' = v18)
  /\ (19 > n => v19' = v19) /\ (20 > n => v20' = v20) /\ (21 > n => v21' = v21)
  /\ (22 > n => v22' = v22) /\ (23 > n => v23' = v23) /\ (24 > n => v24' = v24)

pipe == <<pBuf, pHead, pTail, pCount, pWriteEnds, pWpc, pN, pWreg, pSent, pRpc,
        pRreg, pWant, pGot, pEof>>
shared == <<v1, v2, v3, v4, v5, v6, v7, v8, v9, v10, v11, v12, v13, v14, v15,
          v16, v17, v18, v19, v20, v21, v22, v23, v24>>

SystemInit ==
  /\ Init /\ Pp!Init
  /\ \/ part \in {"lock", "pipe"} /\ Blank(0)
     \/ part = "files" /\ Fd!Init /\ Blank(7)
     \/ part = "tree" /\ Tree!Init /\ Blank(7)
     \/ part = "tcp" /\ Tcp!Init /\ Blank(11)
     \/ part = "query" /\ Qry!Init /\ Blank(10)
     \/ part = "link" /\ Lnk!Init /\ Blank(24)
     \/ part = "wifi" /\ Wf!Init /\ Blank(9)
     \/ part = "tls" /\ Tls!Init /\ Blank(4)
     \/ part = "rsa" /\ Rsa!Init /\ Blank(5)
     \/ part = "usb" /\ Usb!Init /\ Blank(24)
     \/ part = "input" /\ Inp!Init /\ Blank(14)
     \/ part = "wm" /\ Desk!Init /\ Blank(5)
     \/ part = "launcher" /\ Lau!Init /\ Blank(10)
     \/ part = "nyra" /\ Sh!Init /\ Blank(16)
     \/ part = "account" /\ Acc!Init /\ Blank(15)
     \/ part = "notes" /\ Note!Init /\ Blank(15)
     \/ part = "apk" /\ Pkg!Init /\ Blank(6)
     \/ part = "folders" /\ Fa!Init /\ Blank(9)
     \/ part = "jpeg" /\ Jpg!Init /\ Blank(11)


(* All parts but the lock stop at a bound. *)
SystemNext ==
  /\ part' = part
  /\ \/ part = "lock" /\ Next /\ UNCHANGED <<pipe, shared>>
     \/ part = "pipe" /\ Pp!Next /\ UNCHANGED <<vars, shared>>
     \/ /\ UNCHANGED <<vars, pipe>>
        /\ \/ part = "files" /\ Fd!Next /\ Still(7)
           \/ part = "tree" /\ Tree!Next /\ Still(7)
           \/ part = "tcp" /\ Tcp!Next /\ Still(11)
           \/ part = "query" /\ Qry!Next /\ Still(10)
           \/ part = "link" /\ Lnk!Next /\ Still(24)
           \/ part = "wifi" /\ Wf!Next /\ Still(9)
           \/ part = "tls" /\ Tls!Next /\ Still(4)
           \/ part = "rsa" /\ Rsa!Next /\ Still(5)
           \/ part = "usb" /\ Usb!Next /\ Still(24)
           \/ part = "input" /\ Inp!Next /\ Still(14)
           \/ part = "wm" /\ Desk!Next /\ Still(5)
           \/ part = "launcher" /\ Lau!Next /\ Still(10)
           \/ part = "nyra" /\ Sh!Next /\ Still(16)
           \/ part = "account" /\ Acc!AccountNext /\ Still(15)
           \/ part = "notes" /\ Note!NotesNext /\ Still(15)
           \/ part = "apk" /\ Pkg!Next /\ Still(6)
           \/ part = "folders" /\ Fa!Next /\ Still(9)
           \/ part = "jpeg" /\ Jpg!Next /\ Still(11)
     \/ part # "lock" /\ UNCHANGED <<vars, pipe, shared>>

SystemSpec == SystemInit /\ [][SystemNext]_<<part, vars, pipe, shared>>

-----------------------------------------------------------------------------
(* Properties *)

(* The ring of a pipe implements a bounded first-in first-out channel. *)
PipeIsChannel == Pp!PipeIsChannel

(* Files: the references of vnodes and pipe ends cover the descriptors and
   directories that use them; the tree stays a tree; a rename of a file moves it. *)
FilesSound ==
  CASE part = "files" -> Fd!VnodesCounted /\ Fd!PipesCounted
    [] part = "tree" -> Tree!TreeSound /\ Tree!FileMoved
    [] OTHER -> TRUE

(* The network: each end of a TCP connection reads a prefix of what the other
   wrote, nothing unacknowledged is forgotten and the end of file is not early;
   and a name, echo or address query returns an answer to itself. *)
NetworkSound ==
  CASE part = "tcp" -> Tcp!StreamIntact /\ Tcp!SentKept /\ Tcp!EofLossless
    [] part = "query" -> Qry!AnswerMatches
    [] OTHER -> TRUE

(* The rings between drivers and devices: frames are neither lost, repeated nor
   reordered as indices wrap, keyboard reports are handled once, and the cursor
   drawn agrees with the kernel's. *)
DriversSound ==
  CASE part = "link" -> Lnk!FramesAccounted /\ Lnk!SentInOrder /\ Lnk!LoopbackInOrder
    [] part = "usb" -> Usb!ReportsReal
    [] part = "input" -> Inp!InputAgrees
    [] OTHER -> TRUE

(* The protected channels: both ends of a WPA2 handshake hold one key, both ends
   of a TLS connection the same record state, and RSA computes the power it is
   asked for. *)
ChannelsAgree ==
  CASE part = "wifi" -> Wf!KeysAgree /\ Wf!DataIsReal
    [] part = "tls" -> Tls!RecordsOpen /\ Tls!AppInOrder
    [] part = "rsa" -> Rsa!RsaCorrect
    [] OTHER -> TRUE

(* The desktop: the screen shows the windows as they are, and the launcher lists what
   is installed and keeps the icons in place. *)
DesktopSound ==
  CASE part = "wm" -> Desk!ScreenCurrent
    [] part = "launcher" -> Lau!LauncherSound
    [] OTHER -> TRUE

(* The session: the shell runs the line on the screen and keeps its children in
   the table; one password opens the account, misses are bounded and
   notifications come in order. *)
SessionSound ==
  CASE part = "nyra" -> Sh!ShellSound
    [] part = "account" -> Acc!SessionSound
    [] part = "notes" -> Note!SessionSound
    [] OTHER -> TRUE

(* The programs: a package that is recorded is whole, and a picture that was
   written can be read. *)
ProgramsSound ==
  CASE part = "apk" -> Pkg!InstalledIsWhole
    [] part = "jpeg" -> Jpg!PictureSurvives
    [] OTHER -> TRUE

(* Outside the Trash no key of the file manager loses the bytes of a file. *)
FilesKept == [][part = "folders" => Fa!FilesKept]_shared
=============================================================================
