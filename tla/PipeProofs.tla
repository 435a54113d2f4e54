----------------------------- MODULE PipeProofs -----------------------------
(***************************************************************************)
(* The ring of a pipe implements a bounded first-in first-out channel, for *)
(* every size of the ring and every length of the stream, when the calls   *)
(* on the pipe do not overlap (one CPU, interrupts off in a system call).  *)
(***************************************************************************)
EXTENDS Pipe, SequenceTheorems, TLAPS

(* The bytes the next read can take, and those written but not yet counted. *)
Avail == IF rpc = "store" THEN count - 1 ELSE count
Written == IF wpc \in {"load", "store"} THEN n ELSE 0

PipeType ==
  /\ buf \in [0..Size - 1 -> Int] /\ head \in 0..Size - 1 /\ tail \in 0..Size - 1
  /\ count \in 0..Size /\ writeEnds \in {0, 1}
  /\ n \in 0..Size /\ wreg \in Int /\ sent \in Nat
  /\ rreg \in Int /\ want \in Nat /\ eof \in BOOLEAN
  /\ wpc \in {"user", "bytes", "load", "store"}
  /\ rpc \in {"user", "empty", "byte", "store"}

(* Calls do not overlap, a write in progress has the room it counted, and
   head is Avail + Written bytes after tail. *)
PipeInv ==
  /\ PipeType
  /\ wpc # "user" => rpc = "user" /\ writeEnds = 1 /\ n > 0 /\ count + n <= Size
  /\ wpc = "store" => wreg = count
  /\ rpc # "user" => ~eof
  /\ rpc = "store" => rreg = count /\ count > 0 /\ want > 0
  /\ rpc = "empty" => count = 0
  /\ head = (tail + Avail + Written) % Size
  /\ \A j \in 1..Written : buf[(tail + count + j - 1) % Size] = sent + j

-----------------------------------------------------------------------------
(* The remainder of a number below twice the divisor. *)
LEMMA ModId ==
  ASSUME NEW S \in Nat \ {0}, NEW a \in 0..S - 1
  PROVE  a % S = a
OBVIOUS

LEMMA ModOver ==
  ASSUME NEW S \in Nat \ {0}, NEW a \in S..2 * S - 1
  PROVE  a % S = a - S
OBVIOUS

LEMMA ModSmall ==
  ASSUME NEW S \in Nat \ {0}, NEW a \in 0..2 * S - 1
  PROVE  a % S = IF a < S THEN a ELSE a - S
<1>1. CASE a < S
  BY <1>1
<1>2. CASE ~(a < S)
  BY <1>2
<1>. QED BY <1>1, <1>2

(* Two places of the ring less than S apart are different cells. *)
LEMMA CellsDiffer ==
  ASSUME NEW S \in Nat \ {0}, NEW t \in 0..S - 1, NEW i \in 1..S, NEW j \in 1..S, i # j
  PROVE  (t + i - 1) % S # (t + j - 1) % S
<1>1. PICK x \in 0..2 * S - 1 : x = t + i - 1
  OBVIOUS
<1>2. PICK y \in 0..2 * S - 1 : y = t + j - 1
  OBVIOUS
<1>3. /\ x % S = IF x < S THEN x ELSE x - S
      /\ y % S = IF y < S THEN y ELSE y - S
  BY ModSmall, Zenon
<1>4. x % S # y % S
  BY <1>1, <1>2, <1>3
<1>. QED BY <1>1, <1>2, <1>4

(* Moving on from a reduced place is moving on from the place. *)
LEMMA ModAdd ==
  ASSUME NEW S \in Nat \ {0}, NEW a \in 0..2 * S - 1, NEW b \in 0..S, a + b <= 2 * S - 1
  PROVE  ((a % S) + b) % S = (a + b) % S
<1>1. a % S = IF a < S THEN a ELSE a - S
  BY ModSmall, Zenon
<1>2. CASE a < S
  BY <1>1, <1>2
<1>3. CASE ~(a < S)
  <2>1. PICK c \in 0..S - 1 : c = a - S + b
    BY <1>3
  <2>2. PICK d \in 0..2 * S - 1 : d = a + b
    OBVIOUS
  <2>3. c % S = c
    BY ModId
  <2>4. d % S = c
    <3>1. d \in S..2 * S - 1 /\ d - S = c
      BY <1>3, <2>1, <2>2
    <3>. QED BY <3>1, ModOver
  <2>5. (a % S) + b = c
    BY <1>1, <1>3, <2>1
  <2>. QED BY <2>2, <2>3, <2>4, <2>5
<1>. QED BY <1>2, <1>3

(* A byte taken: the places after the new tail are those after the old one. *)
LEMMA TakeOne ==
  ASSUME NEW S \in Nat \ {0}, NEW t \in 0..S - 1, NEW i \in 1..S
  PROVE  /\ (t + 1) % S \in 0..S - 1
         /\ (((t + 1) % S) + (i - 1)) % S = (t + i) % S
<1>1. PICK a \in 0..2 * S - 1 : a = t + 1
  OBVIOUS
<1>2. PICK b \in 0..S : b = i - 1
  OBVIOUS
<1>3. a + b <= 2 * S - 1 /\ a + b = t + i
  BY <1>1, <1>2
<1>4. ((a % S) + b) % S = (a + b) % S
  BY <1>3, ModAdd
<1>5. a % S \in 0..S - 1
  OBVIOUS
<1>. QED BY <1>1, <1>2, <1>3, <1>4, <1>5

-----------------------------------------------------------------------------
(* The mapped channel holds Avail bytes, in the order of the ring. *)
LEMMA UnreadIs ==
  ASSUME Size \in Nat \ {0}, PipeInv
  PROVE  /\ Avail \in 0..Size
         /\ Unread = [i \in 1..Avail |-> buf[(tail + i - 1) % Size]]
         /\ Unread \in Seq(Int) /\ Len(Unread) = Avail
         /\ \A i \in 1..Avail : Unread[i] = buf[(tail + i - 1) % Size]
<1>1. Avail \in 0..Size
  BY DEF PipeInv, PipeType, Avail
<1>2. Unread = [i \in 1..Avail |-> buf[(tail + i - 1) % Size]]
  BY DEF Unread, Avail
<1>3. \A i \in 1..Avail : buf[(tail + i - 1) % Size] \in Int
  <2>1. ASSUME NEW i \in 1..Avail
        PROVE  (tail + i - 1) % Size \in 0..Size - 1
    <3>1. PICK x \in Nat : x = tail + i - 1
      BY <1>1 DEF PipeInv, PipeType
    <3>2. x % Size \in 0..Size - 1
      OBVIOUS
    <3>. QED BY <3>1, <3>2
  <2>. QED BY <2>1 DEF PipeInv, PipeType
<1>. QED BY <1>1, <1>2, <1>3

(* What the bytes of a write do to the ring: the unread bytes stay, the new
   ones follow them. *)
LEMMA BytesLand ==
  ASSUME Size \in Nat \ {0}, PipeInv, WriteBytes
  PROVE  /\ buf' \in [0..Size - 1 -> Int]
         /\ head' \in 0..Size - 1 /\ head' = (tail + count + n) % Size
         /\ \A i \in 1..count : buf'[(tail + i - 1) % Size] = buf[(tail + i - 1) % Size]
         /\ \A j \in 1..n : buf'[(tail + count + j - 1) % Size] = sent + j
<1>1. /\ wpc = "bytes" /\ rpc = "user" /\ n \in 1..Size /\ count \in 0..Size
      /\ tail \in 0..Size - 1 /\ count + n <= Size /\ sent \in Nat
      /\ head = (tail + count) % Size
  BY DEF PipeInv, PipeType, WriteBytes, Avail, Written
<1>2. \A j \in 0..n : (head + j) % Size = (tail + count + j) % Size
  <2>1. ASSUME NEW j \in 0..n
        PROVE  (head + j) % Size = (tail + count + j) % Size
    <3>1. PICK a \in 0..2 * Size - 1 : a = tail + count
      BY <1>1
    <3>2. j \in 0..Size /\ a + j <= 2 * Size - 1
      BY <1>1, <3>1
    <3>3. ((a % Size) + j) % Size = (a + j) % Size
      BY <3>2, ModAdd
    <3>. QED BY <1>1, <3>1, <3>3
  <2>. QED BY <2>1
<1>3. \A j \in 1..n : (head + j - 1) % Size = (tail + count + j - 1) % Size
  <2>1. ASSUME NEW j \in 1..n
        PROVE  (head + j - 1) % Size = (tail + count + j - 1) % Size
    <3>1. PICK k \in 0..n : k = j - 1
      BY <1>1
    <3>2. (head + k) % Size = (tail + count + k) % Size
      BY <1>2
    <3>3. head \in Int
      BY DEF PipeInv, PipeType
    <3>4. head + k = head + j - 1 /\ tail + count + k = tail + count + j - 1
      BY <1>1, <3>1, <3>3
    <3>. QED BY <3>2, <3>4
  <2>. QED BY <2>1
<1>4. ASSUME NEW i \in 1..count + n, NEW j \in 1..n, i # count + j
      PROVE  (tail + i - 1) % Size # (head + j - 1) % Size
  <2>1. PICK k \in 1..Size : k = count + j
    BY <1>1
  <2>2. i \in 1..Size /\ i # k
    BY <1>1, <1>4, <2>1
  <2>3. (tail + i - 1) % Size # (tail + k - 1) % Size
    BY <1>1, <2>2, CellsDiffer
  <2>4. tail + k - 1 = tail + count + j - 1
    BY <1>1, <2>1
  <2>. QED BY <1>3, <2>3, <2>4
<1>5. \A i \in 1..count + n : (tail + i - 1) % Size \in 0..Size - 1
  <2>1. ASSUME NEW i \in 1..count + n
        PROVE  (tail + i - 1) % Size \in 0..Size - 1
    <3>1. PICK x \in Nat : x = tail + i - 1
      BY <1>1
    <3>. QED BY <3>1
  <2>. QED BY <2>1
<1>6. buf' = [i \in 0..Size - 1 |->
                IF \E j \in 1..n : i = (head + j - 1) % Size
                THEN sent + (CHOOSE j \in 1..n : i = (head + j - 1) % Size)
                ELSE buf[i]]
  BY DEF WriteBytes
<1>7. buf' \in [0..Size - 1 -> Int]
  <2>1. ASSUME NEW i \in 0..Size - 1, \E j \in 1..n : i = (head + j - 1) % Size
        PROVE  (CHOOSE j \in 1..n : i = (head + j - 1) % Size) \in 1..n
    BY <2>1
  <2>2. ASSUME NEW i \in 0..Size - 1
        PROVE  (IF \E j \in 1..n : i = (head + j - 1) % Size
                THEN sent + (CHOOSE j \in 1..n : i = (head + j - 1) % Size)
                ELSE buf[i]) \in Int
    <3>1. CASE \E j \in 1..n : i = (head + j - 1) % Size
      <4>1. PICK k \in 1..n : k = CHOOSE j \in 1..n : i = (head + j - 1) % Size
        BY <2>1, <3>1
      <4>2. sent + k \in Int
        BY <1>1
      <4>. QED BY <3>1, <4>1, <4>2
    <3>2. CASE ~ \E j \in 1..n : i = (head + j - 1) % Size
      BY <3>2 DEF PipeInv, PipeType
    <3>. QED BY <3>1, <3>2
  <2>. QED BY <1>6, <2>2, Zenon
<1>8. ASSUME NEW i \in 1..count
      PROVE  buf'[(tail + i - 1) % Size] = buf[(tail + i - 1) % Size]
  <2>1. i \in 1..count + n /\ \A j \in 1..n : i # count + j
    BY <1>1
  <2>2. ~ \E j \in 1..n : (tail + i - 1) % Size = (head + j - 1) % Size
    BY <1>4, <2>1
  <2>3. (tail + i - 1) % Size \in 0..Size - 1
    BY <1>5, <2>1
  <2>. QED BY <1>6, <2>2, <2>3
<1>9. ASSUME NEW j \in 1..n
      PROVE  buf'[(tail + count + j - 1) % Size] = sent + j
  <2>1. PICK i \in 1..count + n : i = count + j
    BY <1>1
  <2>2. tail + i - 1 = tail + count + j - 1
    BY <1>1, <2>1
  <2>3. (tail + i - 1) % Size = (head + j - 1) % Size
    BY <1>3, <2>2
  <2>4. ASSUME NEW k \in 1..n, (tail + i - 1) % Size = (head + k - 1) % Size
        PROVE  k = j
    BY <1>1, <1>4, <2>1, <2>4
  <2>5. (CHOOSE k \in 1..n : (tail + i - 1) % Size = (head + k - 1) % Size) = j
    BY <2>3, <2>4
  <2>6. (tail + i - 1) % Size \in 0..Size - 1
    BY <1>5
  <2>. QED BY <1>6, <2>2, <2>3, <2>5, <2>6, Zenon
<1>10. head' = (tail + count + n) % Size
  <2>1. n \in 0..n
    BY <1>1
  <2>. QED BY <1>2, <2>1 DEF WriteBytes
<1>11. head' \in 0..Size - 1
  <2>1. PICK x \in Nat : x = tail + count + n
    BY <1>1
  <2>. QED BY <1>10, <2>1
<1>. QED BY <1>7, <1>8, <1>9, <1>10, <1>11

-----------------------------------------------------------------------------
(* The inductive invariant of the ring when calls do not overlap. *)
LEMMA InvInit ==
  ASSUME Size \in Nat \ {0}, Init
  PROVE  PipeInv
<1>1. 0 % Size = 0
  BY ModSmall
<1>. QED BY <1>1, SMTT(30) DEF Init, PipeInv, PipeType, Avail, Written

LEMMA InvReadByte ==
  ASSUME Size \in Nat \ {0}, ~Smp, PipeInv, ReadByte
  PROVE  PipeInv'
<1>1. /\ rpc = "byte" /\ wpc = "user" /\ count \in 1..Size /\ tail \in 0..Size - 1
      /\ tail' = (tail + 1) % Size
  BY DEF PipeInv, PipeType, ReadByte, ReaderRuns
<1>2. rpc' = "store" /\ wpc' = "user" /\ count' = count /\ head' = head
  BY <1>1 DEF ReadByte, writerVars
<1>3. Avail = count /\ Written = 0 /\ Avail' = count - 1 /\ Written' = 0
  BY <1>1, <1>2 DEF Avail, Written
<1>4. tail' \in 0..Size - 1 /\ (tail' + (count - 1)) % Size = (tail + count) % Size
  BY <1>1, TakeOne, Zenon
<1>5. head = (tail + count) % Size
  <2>1. tail + Avail + Written = tail + count
    BY <1>1, <1>3
  <2>. QED BY <2>1 DEF PipeInv
<1>6. head' = (tail' + Avail' + Written') % Size
  <2>1. tail' + Avail' + Written' = tail' + (count - 1)
    BY <1>1, <1>3, <1>4
  <2>. QED BY <1>2, <1>4, <1>5, <2>1
<1>7. PipeType'
  BY <1>2, <1>4 DEF PipeInv, PipeType, ReadByte, writerVars
<1>8. \A j \in 1..Written' : buf'[(tail' + count' + j - 1) % Size] = sent' + j
  BY <1>3
<1>. QED BY <1>1, <1>2, <1>6, <1>7, <1>8 DEF PipeInv, ReadByte, writerVars

LEMMA InvReadStore ==
  ASSUME Size \in Nat \ {0}, ~Smp, PipeInv, ReadStore
  PROVE  PipeInv'
<1>1. rpc = "store" /\ wpc = "user" /\ count \in 1..Size /\ rreg = count /\ want > 0
  BY DEF PipeInv, PipeType, ReadStore, ReaderRuns
<1>2. rpc' = "byte" /\ wpc' = "user" /\ count' = count - 1 /\ head' = head /\ tail' = tail
  BY <1>1 DEF ReadStore, writerVars
<1>3. Avail = count - 1 /\ Written = 0 /\ Avail' = count - 1 /\ Written' = 0
  BY <1>1, <1>2 DEF Avail, Written
<1>4. PipeType'
  BY <1>1, <1>2 DEF PipeInv, PipeType, ReadStore, writerVars
<1>5. \A j \in 1..Written' : buf'[(tail' + count' + j - 1) % Size] = sent' + j
  BY <1>3
<1>. QED BY <1>1, <1>2, <1>3, <1>4, <1>5 DEF PipeInv, ReadStore, writerVars

LEMMA InvNext ==
  ASSUME Size \in Nat \ {0}, ~Smp, PipeInv, [Next]_vars
  PROVE  PipeInv'
<1>. USE DEF PipeInv, PipeType, Avail, Written, WriterRuns, ReaderRuns, ringVars, writerVars, readerVars
<1>1. ASSUME NEW k \in 1..Size, WriteCheck(k)
      PROVE  PipeInv'
  BY <1>1 DEF WriteCheck
<1>2. ASSUME NEW k \in 1..Size, ReadCheck(k)
      PROVE  PipeInv'
  BY <1>2 DEF ReadCheck
<1>3. CASE WriteBytes
  <2>1. /\ buf' \in [0..Size - 1 -> Int]
        /\ head' \in 0..Size - 1 /\ head' = (tail + count + n) % Size
        /\ \A j \in 1..n : buf'[(tail + count + j - 1) % Size] = sent + j
    BY <1>3, BytesLand, Zenon DEF PipeInv
  <2>. QED BY <1>3, <2>1, Zenon DEF WriteBytes
<1>4. CASE WriteLoad
  BY <1>4 DEF WriteLoad
<1>5. CASE WriteStore
  <2>1. head = (tail + (count + n) + 0) % Size
    <3>1. tail + count + n = tail + (count + n) + 0
      OBVIOUS
    <3>. QED BY <1>5, <3>1 DEF WriteStore
  <2>. QED BY <1>5, <2>1 DEF WriteStore
<1>6. CASE CloseWrite
  BY <1>6 DEF CloseWrite
<1>7. CASE ReadEmpty
  BY <1>7 DEF ReadEmpty
<1>8. CASE ReadEof
  BY <1>8, SMTT(30) DEF ReadEof
<1>9. CASE ReadByte
  BY <1>9, InvReadByte, Zenon DEF PipeInv
<1>10. CASE ReadStore
  BY <1>10, InvReadStore DEF PipeInv
<1>11. CASE ReadDone
  BY <1>11 DEF ReadDone
<1>12. CASE UNCHANGED vars
  BY <1>12 DEF vars
<1>. QED BY <1>1, <1>2, <1>3, <1>4, <1>5, <1>6, <1>7, <1>8, <1>9, <1>10, <1>11, <1>12, Zenon DEF Next

-----------------------------------------------------------------------------
(* The mapped channel after a step. *)
LEMMA UnreadNext ==
  Unread' = [i \in 1..Avail' |-> buf'[(tail' + i - 1) % Size]]
BY DEF Unread, Avail

(* The store of count by the writer puts its bytes into the channel. *)
LEMMA StoreIsPut ==
  ASSUME Size \in Nat \ {0}, PipeInv, WriteStore
  PROVE  C!Put
<1>1. /\ wpc = "store" /\ rpc = "user" /\ writeEnds = 1 /\ n \in 1..Size /\ count \in 0..Size
      /\ count + n <= Size /\ wreg = count /\ tail \in 0..Size - 1 /\ sent \in Nat
      /\ Avail = count /\ Written = n
  BY DEF PipeInv, PipeType, WriteStore, Avail, Written
<1>2. /\ Avail' = count + n /\ sent' = sent + n /\ tail' = tail /\ buf' = buf
      /\ UNCHANGED <<writeEnds, got, eof>>
  BY <1>1 DEF WriteStore, readerVars, Avail
<1>3. Len(Unread) = count /\ \A i \in 1..count : Unread[i] = buf[(tail + i - 1) % Size]
  BY <1>1, UnreadIs
<1>4. Unread' = [i \in 1..Len(Unread) + n |->
                   IF i <= Len(Unread) THEN Unread[i] ELSE sent + i - Len(Unread)]
  <2>1. Unread' = [i \in 1..count + n |-> buf[(tail + i - 1) % Size]]
    BY <1>2, UnreadNext
  <2>2. ASSUME NEW i \in 1..count + n
        PROVE  buf[(tail + i - 1) % Size] = IF i <= count THEN Unread[i] ELSE sent + i - count
    <3>1. CASE i <= count
      BY <1>1, <1>3, <3>1
    <3>2. CASE ~(i <= count)
      <4>1. PICK j \in 1..n : i = count + j
        BY <1>1, <3>2
      <4>2. buf[(tail + count + j - 1) % Size] = sent + j
        BY <1>1 DEF PipeInv
      <4>3. tail + i - 1 = tail + count + j - 1 /\ sent + i - count = sent + j
        BY <1>1, <4>1
      <4>. QED BY <3>2, <4>2, <4>3
    <3>. QED BY <3>1, <3>2
  <2>3. Unread' = [i \in 1..count + n |-> IF i <= count THEN Unread[i] ELSE sent + i - count]
    BY <2>1, <2>2
  <2>. QED BY <1>3, <2>3
<1>5. n \in 1..Size - Len(Unread)
  BY <1>1, <1>3
<1>. QED BY <1>1, <1>2, <1>4, <1>5 DEF C!Put

LEMMA SeqIsFunction ==
  \A s \in Seq(Int) : s = [i \in 1..Len(s) |-> s[i]]
OBVIOUS

(* The move of tail by the reader takes the oldest byte. *)
LEMMA ByteIsGet ==
  ASSUME Size \in Nat \ {0}, PipeInv, ReadByte
  PROVE  C!Get
<1>1. /\ rpc = "byte" /\ ~eof /\ count \in 1..Size /\ tail \in 0..Size - 1
      /\ tail' = (tail + 1) % Size /\ got' = <<buf[tail]>> /\ Avail = count
  BY DEF PipeInv, PipeType, ReadByte, Avail
<1>2. Avail' = count - 1 /\ buf' = buf /\ UNCHANGED <<writeEnds, sent, eof>>
  BY <1>1 DEF ReadByte, writerVars, Avail
<1>3. /\ Unread \in Seq(Int) /\ Len(Unread) = count
      /\ \A i \in 1..count : Unread[i] = buf[(tail + i - 1) % Size]
  BY <1>1, UnreadIs
<1>4. Head(Unread) = buf[tail]
  <2>1. tail + 1 - 1 = tail /\ 1 \in 1..count
    BY <1>1
  <2>2. tail % Size = tail
    BY <1>1, ModId
  <2>3. Unread[1] = buf[(tail + 1 - 1) % Size]
    BY <1>3, <2>1
  <2>4. Head(Unread) = Unread[1]
    BY <1>1, <1>3
  <2>. QED BY <2>1, <2>2, <2>3, <2>4
<1>5. Unread' = Tail(Unread)
  <2>1. Unread' = [i \in 1..count - 1 |-> buf[(tail' + i - 1) % Size]]
    BY <1>2, UnreadNext
  <2>2. ASSUME NEW i \in 1..count - 1
        PROVE  buf[(tail' + i - 1) % Size] = Unread[i + 1]
    <3>1. i \in 1..Size /\ i + 1 \in 1..count
      BY <1>1
    <3>2. tail' \in 0..Size - 1 /\ (tail' + (i - 1)) % Size = (tail + i) % Size
      BY <1>1, <3>1, TakeOne, Zenon
    <3>3. tail' + i - 1 = tail' + (i - 1) /\ tail + (i + 1) - 1 = tail + i
      BY <1>1, <3>2
    <3>4. Unread[i + 1] = buf[(tail + (i + 1) - 1) % Size]
      BY <1>3, <3>1, ZenonT(60)
    <3>. QED BY <3>2, <3>3, <3>4
  <2>3. /\ Tail(Unread) \in Seq(Int) /\ Len(Tail(Unread)) = count - 1
        /\ \A i \in 1..count - 1 : Tail(Unread)[i] = Unread[i + 1]
    BY <1>1, <1>3, HeadTailProperties
  <2>4. Tail(Unread) = [i \in 1..count - 1 |-> Tail(Unread)[i]]
    BY <2>3, SeqIsFunction, Zenon
  <2>. QED BY <2>1, <2>2, <2>3, <2>4, Zenon
<1>6. Unread # <<>>
  BY <1>1, <1>3
<1>. QED BY <1>1, <1>2, <1>4, <1>5, <1>6, SMTT(30) DEF C!Get

-----------------------------------------------------------------------------
(* Every step of the ring is a step of the channel or leaves it alone. *)
LEMMA StepMaps ==
  ASSUME Size \in Nat \ {0}, ~Smp, PipeInv, [Next]_vars
  PROVE  [C!Next]_(C!vars)
<1>. DEFINE Same == Unread' = Unread /\ UNCHANGED <<sent, writeEnds, got, eof>>
<1>1. Same => [C!Next]_(C!vars)
  BY DEF C!vars
<1>2. ASSUME Avail' = Avail, tail' = tail, buf' = buf
      PROVE  Unread' = Unread
  BY <1>2, UnreadIs, UnreadNext
<1>3. ASSUME NEW k \in 1..Size, WriteCheck(k)
      PROVE  Same
  BY <1>2, <1>3 DEF WriteCheck, Avail, ringVars, readerVars
<1>4. ASSUME NEW k \in 1..Size, ReadCheck(k)
      PROVE  Same
  BY <1>2, <1>4 DEF ReadCheck, Avail, ringVars, writerVars
<1>5. CASE WriteBytes
  <2>1. Avail = count /\ Avail' = count /\ UNCHANGED <<tail, sent, writeEnds, got, eof>>
    BY <1>5 DEF WriteBytes, PipeInv, Avail, readerVars
  <2>2. \A i \in 1..count : buf'[(tail + i - 1) % Size] = buf[(tail + i - 1) % Size]
    BY <1>5, BytesLand
  <2>3. Unread' = Unread
    BY <2>1, <2>2, UnreadIs, UnreadNext, Zenon
  <2>. QED BY <1>1, <2>1, <2>3
<1>6. CASE WriteLoad
  BY <1>1, <1>2, <1>6 DEF WriteLoad, Avail, ringVars, readerVars
<1>7. CASE WriteStore
  BY <1>7, StoreIsPut DEF C!Next
<1>8. CASE CloseWrite
  <2>1. Unread' = Unread
    BY <1>2, <1>8 DEF CloseWrite, Avail, ringVars, readerVars
  <2>2. C!Close
    BY <1>8, <2>1 DEF CloseWrite, C!Close, writerVars, readerVars
  <2>. QED BY <2>2 DEF C!Next
<1>9. CASE ReadEmpty
  BY <1>1, <1>2, <1>9 DEF ReadEmpty, Avail, ringVars, writerVars
<1>10. CASE ReadEof
  <2>1. Unread' = Unread
    BY <1>2, <1>10 DEF ReadEof, Avail, ringVars, writerVars
  <2>2. ~eof /\ Avail = 0
    BY <1>10 DEF ReadEof, PipeInv, Avail
  <2>3. CASE writeEnds = 0
    <3>1. Unread = <<>>
      BY <2>2, UnreadIs
    <3>2. C!End
      BY <1>10, <2>1, <2>3, <3>1, Zenon DEF ReadEof, C!End, writerVars
    <3>. QED BY <3>2 DEF C!Next
  <2>4. CASE writeEnds # 0
    <3>1. eof' = eof
      BY <1>10, <2>2, <2>4 DEF ReadEof, PipeInv, PipeType
    <3>. QED BY <1>1, <1>10, <2>1, <3>1 DEF ReadEof, writerVars
  <2>. QED BY <2>3, <2>4
<1>11. CASE ReadByte
  BY <1>11, ByteIsGet DEF C!Next
<1>12. CASE ReadStore
  <2>1. Avail' = Avail
    BY <1>12 DEF ReadStore, PipeInv, PipeType, Avail
  <2>. QED BY <1>1, <1>2, <1>12, <2>1 DEF ReadStore, writerVars
<1>13. CASE ReadDone
  BY <1>1, <1>2, <1>13 DEF ReadDone, Avail, ringVars, writerVars
<1>14. CASE UNCHANGED vars
  BY <1>1, <1>2, <1>14 DEF vars, Avail
<1>. HIDE DEF Same
<1>. QED BY <1>1, <1>3, <1>4, <1>5, <1>6, <1>7, <1>8, <1>9, <1>10, <1>11, <1>12, <1>13, <1>14
     DEF Next

(* For every size of the ring and every length of the stream, the ring of
   pipe_read and pipe_write implements the bounded first-in first-out channel:
   the bytes come out once each, in the order in which they were written, and
   the end of file comes after the last one.  It rests on calls that do not
   overlap, which the model's Smp = FALSE states. *)
THEOREM PipeImplementsChannel ==
  ASSUME Size \in Nat \ {0}, ~Smp
  PROVE  Spec => PipeIsChannel
<1>1. Init => PipeInv /\ C!Init
  <2>1. Init => PipeInv
    BY InvInit
  <2>2. Init => Unread = <<>>
    BY DEF Init, Unread
  <2>. QED BY <2>1, <2>2 DEF Init, C!Init
<1>2. PipeInv /\ [Next]_vars => PipeInv'
  BY InvNext
<1>3. PipeInv /\ [Next]_vars => [C!Next]_(C!vars)
  BY StepMaps
<1>. QED BY <1>1, <1>2, <1>3, PTL DEF Spec, PipeIsChannel, C!Spec
=============================================================================
