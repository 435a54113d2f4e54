---------------------------------- MODULE Jpeg ----------------------------------
(***************************************************************************)
(* The pictures the camera and the screenshots keep: the entropy coder of  *)
(* userland/jpeg_enc.c and the decoder of userland/jpeg.c that has to read  *)
(* what it wrote.  The model starts from quantised coefficients, one block  *)
(* of 64 in zigzag order, and ends with the dequantised ones: the cosine    *)
(* transform and the colour conversion, both in floating point, are left    *)
(* out.  A picture is Wide x High units of 16 x 16 pixels, each of four     *)
(* luma blocks and one block of either chroma.  The tables are JpegTables'.*)
(***************************************************************************)
EXTENDS JpegTables, FiniteSetsExt, TLC

CONSTANTS Wide, High,   \* the picture, in units
          Blocks,       \* the blocks pictures are made of
          Qualities,    \* quality settings
          Caps          \* sizes of the output buffer, for the scan

VARIABLES image,    \* c -> block number -> coefficients, the encoder's input
          quality,
          cap,
          phase,    \* "encode", "scan", "end", "done", "refused" or "bad"
          at,       \* blocks coded or decoded
          pending,  \* bw.bitbuf, the bits not yet written
          out,      \* bytes of the scan
          prevdc,   \* the encoder's and then the decoder's predictors
          bits,     \* the bits of the scan as the decoder's reader sees them
          bit,      \* how many of them it has read
          plane     \* c -> <<row, column>> of a block -> dequantised values

vars == <<image, quality, cap, phase, at, pending, out, prevdc, bits, bit, plane>>

Comp == 0 .. 2
Units == Wide * High
Sampling(c) == IF c = 0 THEN 2 ELSE 1
BlockNos(c) == 0 .. Units * Sampling(c) * Sampling(c) - 1

-----------------------------------------------------------------------------
(* Faulty variants of the definitions below.                               *)

(* A run of sixteen zeros is coded as a run of sixteen. *)
LongRunsLate(run) == IF run = 0 THEN 0 ELSE (run - 1) \div 16

(* A byte of ones is written as it is. *)
StuffedNot(byte) == <<byte>>

(* The decoder dequantises with the table in the order it was read. *)
DequantisedInOrder(coeff, qt) == [i \in 0 .. 63 |-> coeff[i] * qt[i]]

-----------------------------------------------------------------------------
(* Quantiser tables: scaled by the quality, written in zigzag order.       *)

Scaled(q, qual) ==
  LET scale == Max({1, IF qual >= 50 THEN 200 - qual * 2
                       ELSE 5000 \div (IF qual = 0 THEN 1 ELSE qual)})
  IN  [i \in 0 .. 63 |-> Min({255, Max({1, (q[i + 1] * scale + 50) \div 100})})]

Quant(c) == Scaled(IF c = 0 THEN std_lum_q ELSE std_chr_q, quality)

DqtSegment(c) == [i \in 0 .. 63 |-> Quant(c)[zz[i]]]

-----------------------------------------------------------------------------
(* The bit writer.                                                         *)

BitsOf(v, n) == [i \in 1 .. n |-> (v \div 2 ^ (n - i)) % 2]

(* the n bits behind the p-th, as a number *)
Value(bs, p, n) ==
  LET v[i \in 0 .. n] == IF i = 0 THEN 0 ELSE 2 * v[i - 1] + bs[p + i]
  IN  v[n]

Stuffed(byte) == IF byte = 255 THEN <<255, 0>> ELSE <<byte>>

Whole(bs) == Len(bs) \div 8

Written(bs) ==
  FoldLeft(LAMBDA bytes, k : bytes \o Stuffed(Value(bs, 8 * k - 8, 8)),
           << >>, [k \in 1 .. Whole(bs) |-> k])

Left(bs) == SubSeq(bs, 8 * Whole(bs) + 1, Len(bs))

-----------------------------------------------------------------------------
(* enc_block.                                                              *)

Category(v) == Min({n \in 0 .. 12 : Max({v, -v}) < 2 ^ n})

(* code and magnitude of a value; a symbol with no code has length 0 *)
Coded(ti, sym, v) ==
  LET cat == Category(v)
      code == IF sym \in DOMAIN Codes[ti] THEN Codes[ti][sym] ELSE <<0, 0>>
  IN  BitsOf(code[2], code[1]) \o BitsOf(IF v < 0 THEN v + 2 ^ cat - 1 ELSE v, cat)

(* how many times sixteen zeros are coded on their own *)
LongRuns(run) == run \div 16

(* where the coefficients other than zero are, the DC one first *)
Stops(q) == <<0>> \o SelectSeq([i \in 1 .. 63 |-> i], LAMBDA i : q[i] # 0)

AcBits(ti, q) ==
  LET stop == Stops(q)
  IN  FlattenSeq([j \in 1 .. Len(stop) - 1 |->
        LET i == stop[j + 1]
            zeros == i - stop[j] - 1
            longs == LongRuns(zeros)
        IN  FlattenSeq([k \in 1 .. longs |-> Coded(ti, ZRL, 0)])
              \o Coded(ti, 16 * (zeros - 16 * longs) + Category(q[i]), q[i])])

enc_block(c, q) ==
  LET ti == IF c = 0 THEN 0 ELSE 1
      diff == q[0] - prevdc[c]
  IN  Coded(ti, Category(diff), diff) \o AcBits(2 + ti, q)
        \o (IF Last(Stops(q)) < 63 THEN Coded(2 + ti, EOB, 0) ELSE << >>)

(* the k-th block of the scan, by the encoder's loops: [c, no] *)
EncBlock(k) ==
  LET m == k \div 6 j == k % 6 mx == m % Wide my == m \div Wide
  IN  IF j < 4 THEN [c |-> 0, no |-> (2 * my + j \div 2) * (2 * Wide) + 2 * mx + (j % 2)]
      ELSE [c |-> j - 3, no |-> my * Wide + mx]

Init ==
  /\ \E base, odd \in Blocks, c \in Comp : \E no \in BlockNos(c) :
       image = [d \in Comp |-> [n \in BlockNos(d) |->
                  IF d = c /\ n = no THEN odd ELSE base]]
  /\ quality \in Qualities /\ cap \in Caps
  /\ phase = "encode" /\ at = 0 /\ pending = << >> /\ out = << >>
  /\ prevdc = [c \in Comp |-> 0] /\ bits = << >> /\ bit = 0
  /\ plane = [c \in Comp |-> << >>]

(* writes past the buffer make the encoder return -1 *)
Emit(bytes, rest, next) ==
  /\ out' = out \o bytes /\ pending' = rest
  /\ phase' = IF Len(out') > cap THEN "refused" ELSE next

Encode ==
  /\ phase = "encode" /\ at < 6 * Units
  /\ LET b == EncBlock(at)
         q == image[b.c][b.no]
         bs == pending \o enc_block(b.c, q)
     IN  /\ Emit(Written(bs), Left(bs), "encode")
         /\ prevdc' = [prevdc EXCEPT ![b.c] = q[0]]
  /\ at' = at + 1
  /\ UNCHANGED <<image, quality, cap, bits, bit, plane>>

-----------------------------------------------------------------------------
(* The bit reader: a stuffed zero is skipped, a marker ends the bits.      *)

FirstMarker(bytes) ==
  Min({i \in DOMAIN bytes : bytes[i] = 255 /\ (i = Len(bytes) \/ bytes[i + 1] # 0)}
        \union {Len(bytes) + 1})

Readable(bytes) ==
  LET data == SelectSeq([i \in 1 .. FirstMarker(bytes) - 1 |-> i],
                        LAMBDA i : i = 1 \/ bytes[i - 1] # 255)
  IN  [j \in 1 .. 8 * Len(data) |->
         BitsOf(bytes[data[(j - 1) \div 8 + 1]], 8)[((j - 1) % 8) + 1]]

(* bw_flush pads with ones, then the end marker; the decoder starts        *)
Flush ==
  /\ phase = "encode" /\ at = 6 * Units
  /\ LET pad == (8 - Len(pending)) % 8
         bs == pending \o [i \in 1 .. pad |-> 1]
              bytes == Written(bs) \o <<255, 217>>
     IN  Emit(bytes, << >>, "scan") /\ bits' = Readable(out \o bytes)
  /\ at' = 0 /\ prevdc' = [c \in Comp |-> 0]
  /\ UNCHANGED <<image, quality, cap, bit, plane>>

Failed == [ok |-> FALSE, sym |-> 0, pos |-> 0]

(* the shortest code of the table that the next bits spell *)
huff_decode(bs, p, ti) ==
  LET hit == {n \in 1 .. Min({16, Len(bs) - p}) :
                <<n, Value(bs, p, n)>> \in DOMAIN Huff[ti]}
  IN  IF hit = {} THEN Failed
      ELSE LET n == Min(hit)
           IN  [ok |-> TRUE, pos |-> p + n,
                sym |-> Huff[ti][<<n, Value(bs, p, n)>>]]

Signed(v, n) == IF n > 0 /\ v < 2 ^ (n - 1) THEN v - (2 ^ n - 1) ELSE v

(* a code and the magnitude behind it, as many bits as the symbol's low    *)
(* half says                                                               *)
Magnitude(bs, h) ==
  LET n == h.sym % 16
  IN  IF ~h.ok \/ h.pos + n > Len(bs) THEN [ok |-> FALSE, v |-> 0, pos |-> 0]
      ELSE [ok |-> TRUE, v |-> Signed(Value(bs, h.pos, n), n),
            pos |-> h.pos + n]

RECURSIVE AcFrom(_, _, _, _, _)
AcFrom(bs, p, ti, k, coeff) ==
  IF k >= 64 THEN [ok |-> TRUE, pos |-> p, coeff |-> coeff]
  ELSE LET h == huff_decode(bs, p, ti)
           r == h.sym \div 16
           m == Magnitude(bs, h)
           bad == [ok |-> FALSE, pos |-> p, coeff |-> coeff]
       IN  IF ~h.ok THEN bad
           ELSE IF h.sym % 16 # 0
           THEN IF k + r > 63 \/ ~m.ok THEN bad
                ELSE AcFrom(bs, m.pos, ti, k + r + 1, [coeff EXCEPT ![zz[k + r]] = m.v])
           ELSE IF r = 15 THEN AcFrom(bs, h.pos, ti, k + 16, coeff)
           ELSE [ok |-> TRUE, pos |-> h.pos, coeff |-> coeff]

Dequantised(coeff, qt) == [i \in 0 .. 63 |-> coeff[i] * qt[izz[i]]]

(* the k-th block of the scan, by the decoder's loops: [c, at]             *)
DecBlock(k) ==
  LET m == k \div 6 j == k % 6 mx == m % Wide my == m \div Wide
      c == IF j < 4 THEN 0 ELSE j - 3
      vy == IF j < 4 THEN j \div 2 ELSE 0
      hx == IF j < 4 THEN j % 2 ELSE 0
  IN  [c |-> c, at |-> <<my * Sampling(c) + vy, mx * Sampling(c) + hx>>]

Decode ==
  /\ phase = "scan" /\ at < 6 * Units
  /\ \E b \in {DecBlock(at)} :
     \E dc \in {Magnitude(bits, huff_decode(bits, bit, IF b.c = 0 THEN 0 ELSE 1))} :
     \E ac \in {AcFrom(bits, dc.pos, IF b.c = 0 THEN 2 ELSE 3, 1,
                      [[i \in 0 .. 63 |-> 0] EXCEPT ![0] = prevdc[b.c] + dc.v])} :
         IF ~dc.ok \/ ~ac.ok
         THEN phase' = "bad" /\ UNCHANGED <<prevdc, bit, plane>>
         ELSE /\ prevdc' = [prevdc EXCEPT ![b.c] = @ + dc.v]
              /\ bit' = ac.pos
              /\ plane' = [plane EXCEPT ![b.c] =
                             @ @@ (b.at :> Dequantised(ac.coeff, DqtSegment(b.c)))]
              /\ UNCHANGED phase
  /\ at' = at + 1
  /\ UNCHANGED <<image, quality, cap, pending, out, bits>>

(* skip_marker goes on from the start of the scan to the end marker        *)
SkipToEnd ==
  /\ phase = "scan" /\ at = 6 * Units
  /\ phase' = IF FirstMarker(out) < Len(out) /\ out[FirstMarker(out) + 1] = 217 THEN "done" ELSE "bad"
  /\ UNCHANGED <<image, quality, cap, at, pending, out, prevdc, bits, bit, plane>>

Next == Encode \/ Flush \/ Decode \/ SkipToEnd

Spec == Init /\ [][Next]_vars

-----------------------------------------------------------------------------
(* Properties.                                                             *)

(* What the encoder wrote, the decoder reads: every block it has decoded   *)
(* is, at the place of the picture it came from, the block the encoder was *)
(* given times the quantiser it was divided by, and it never gives up on a *)
(* file the encoder finished.                                              *)
PictureSurvives ==
  /\ phase # "bad"
  /\ phase \in {"scan", "done"} => \A c \in Comp : \A rc \in DOMAIN plane[c] :
       LET no == rc[1] * Wide * Sampling(c) + rc[2]
       IN  \A i \in 0 .. 63 :
             plane[c][rc][zz[i]] = image[c][no][i] * Quant(c)[zz[i]]
=============================================================================
