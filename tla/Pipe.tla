-------------------------------- MODULE Pipe --------------------------------
(***************************************************************************)
(* The data path of a kernel pipe (sys_read and sys_write on yart_pipe_t): *)
(* a ring with head, tail and count, touched without any lock.  A system   *)
(* call runs with interrupts off, so on one CPU it is atomic; on several   *)
(* CPUs (Smp) a reader and a writer interleave between the accesses to     *)
(* count.  The writer sends 1, 2, ... Last and closes; the reader reads    *)
(* until the end of file, sleeping when the call says "would block".       *)
(***************************************************************************)
EXTENDS Integers, Sequences

CONSTANTS
  Size,    \* PIPE_BUF_SIZE
  Last,    \* number of bytes the writer sends
  Smp      \* whether reader and writer run on different CPUs

VARIABLES
  buf, head, tail, count, writeEnds,   \* yart_pipe_t
  wpc, n, wreg,     \* writer: place, bytes of this call still to store or added, count as read
  sent,             \* bytes written so far
  rpc, rreg,        \* reader: place, count as read
  want,             \* bytes the read asked for and has not got
  got, eof          \* last byte returned, end of file returned

vars == <<buf, head, tail, count, writeEnds, wpc, n, wreg, sent, rpc, rreg, want, got, eof>>
ringVars == <<buf, head, tail, count>>

Init ==
  /\ buf = [i \in 0..Size - 1 |-> 1] /\ head = 0 /\ tail = 0 /\ count = 0
  /\ writeEnds = 1
  /\ wpc = "user" /\ n = 0 /\ wreg = 0 /\ sent = 0
  /\ rpc = "user" /\ rreg = 0 /\ want = 0 /\ got = <<>> /\ eof = FALSE

WriterRuns == Smp \/ rpc = "user"
ReaderRuns == Smp \/ wpc = "user"
writerVars == <<wpc, n, wreg, sent>>
readerVars == <<rpc, rreg, want, got, eof>>

-----------------------------------------------------------------------------
(* Faulty variants of the definitions below: each breaks one of the properties *)

(* The room is that of a ring one byte larger. *)
WriteRoomOff(k) ==
  /\ wpc = "user" /\ WriterRuns /\ sent + k <= Last /\ writeEnds > 0
  /\ Size + 1 - count >= k
  /\ wpc' = "bytes" /\ n' = k
  /\ UNCHANGED <<ringVars, writeEnds, wreg, sent, readerVars>>

-----------------------------------------------------------------------------
(* sys_write: k bytes, as many as there is room for. *)
WriteCheck(k) ==
  /\ wpc = "user" /\ WriterRuns /\ sent + k <= Last /\ writeEnds > 0
  /\ Size - count >= k
  /\ wpc' = "bytes" /\ n' = k
  /\ UNCHANGED <<ringVars, writeEnds, wreg, sent, readerVars>>

(* pipe_write: the bytes, then count += n. *)
WriteBytes ==
  /\ wpc = "bytes" /\ WriterRuns
  /\ buf' = [i \in 0..Size - 1 |->
               IF \E j \in 1..n : i = (head + j - 1) % Size
               THEN sent + (CHOOSE j \in 1..n : i = (head + j - 1) % Size)
               ELSE buf[i]]
  /\ head' = (head + n) % Size
  /\ wpc' = "load"
  /\ UNCHANGED <<tail, count, writeEnds, n, wreg, sent, readerVars>>

WriteLoad ==
  /\ wpc = "load" /\ WriterRuns
  /\ wreg' = count /\ wpc' = "store"
  /\ UNCHANGED <<ringVars, writeEnds, n, sent, readerVars>>

WriteStore ==
  /\ wpc = "store" /\ WriterRuns
  /\ count' = wreg + n
  /\ sent' = sent + n /\ n' = 0 /\ wpc' = "user"
  /\ UNCHANGED <<buf, head, tail, writeEnds, wreg, readerVars>>

CloseWrite ==
  /\ wpc = "user" /\ WriterRuns /\ sent = Last /\ writeEnds = 1
  /\ writeEnds' = 0
  /\ UNCHANGED <<ringVars, writerVars, readerVars>>

-----------------------------------------------------------------------------
(* sys_read of k bytes: count is looked at before write_ends. *)
ReadCheck(k) ==
  /\ rpc = "user" /\ ReaderRuns /\ ~eof
  /\ count > 0
  /\ rpc' = "byte" /\ want' = k
  /\ UNCHANGED <<ringVars, writeEnds, writerVars, rreg, got, eof>>

ReadEmpty ==
  /\ rpc = "user" /\ ReaderRuns /\ ~eof
  /\ count = 0
  /\ rpc' = "empty"
  /\ UNCHANGED <<ringVars, writeEnds, writerVars, rreg, want, got, eof>>

ReadEof ==
  /\ rpc = "empty" /\ ReaderRuns
  /\ eof' = (writeEnds = 0)
  /\ rpc' = "user"
  /\ UNCHANGED <<ringVars, writeEnds, writerVars, rreg, want, got>>

(* pipe_read: while (got < n && p->count > 0). *)
ReadByte ==
  /\ rpc = "byte" /\ ReaderRuns
  /\ want > 0 /\ count > 0
  /\ got' = <<buf[tail]>>
  /\ tail' = (tail + 1) % Size
  /\ rreg' = count /\ rpc' = "store"
  /\ UNCHANGED <<buf, head, count, writeEnds, writerVars, want, eof>>

ReadStore ==
  /\ rpc = "store" /\ ReaderRuns
  /\ count' = rreg - 1
  /\ want' = want - 1 /\ rpc' = "byte"
  /\ UNCHANGED <<buf, head, tail, writeEnds, writerVars, rreg, got, eof>>

ReadDone ==
  /\ rpc = "byte" /\ ReaderRuns
  /\ want = 0 \/ count = 0
  /\ rpc' = "user" /\ want' = 0
  /\ UNCHANGED <<ringVars, writeEnds, writerVars, rreg, got, eof>>

Next ==
  \/ \E k \in 1..Size : WriteCheck(k) \/ ReadCheck(k)
  \/ WriteBytes \/ WriteLoad \/ WriteStore \/ CloseWrite
  \/ ReadEmpty \/ ReadEof \/ ReadByte \/ ReadStore \/ ReadDone

Spec == Init /\ [][Next]_vars

-----------------------------------------------------------------------------
(* Properties *)

(* The byte the reader is taking is out of the channel as soon as tail moves. *)
Unread ==
  LET c == IF rpc = "store" THEN count - 1 ELSE count
  IN  [i \in 1..c |-> buf[(tail + i - 1) % Size]]

C == INSTANCE Channel WITH
       Capacity <- Size, chan <- Unread, put <- sent, closed <- (writeEnds = 0),
       taken <- got, eof <- eof

(* The ring implements a bounded FIFO channel: no byte is lost, repeated or
   reordered across the wrap of head and tail, whatever the sizes of the reads
   and writes, and the end of file is never early. *)
PipeIsChannel == C!Spec

(* sched.h says of the ring indices: "count = (head - tail) mod SZ".  It holds
   whenever no call is in progress. *)
CountMatchesRing ==
  (wpc = "user" /\ rpc = "user") => count % Size = (head - tail) % Size
=============================================================================
