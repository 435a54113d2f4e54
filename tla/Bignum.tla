------------------------------- MODULE Bignum --------------------------------
(***************************************************************************)
(* kernel/lib/bignum.c: the RSA operations of TLS, by Montgomery           *)
(* multiplication on limbs, as operators.  A number is a sequence of limbs,*)
(* least significant first; widths are parameters, and every operation     *)
(* wraps at them as the code's u32 and u64 do.                             *)
(***************************************************************************)
EXTENDS Integers, Sequences, SequencesExt

CONSTANTS
  ByteBits,  \* bits of a byte (8)
  LimbBytes, \* bytes of a limb (4)
  Limbs,     \* BN_LIMBS (64)
  Newton,    \* Newton steps of bn_n0inv (5): 2^Newton >= bits of a limb
  PublicJobs,\* inputs of bn_rsa_public: [in, exp, n] byte sequences
  PrivateJobs\* inputs of bn_rsa_private_crt: [in, p, q, d], numbers

VARIABLES
  job,       \* the call
  pc,        \* where it is
  w,         \* the power or product in progress
  half,      \* m1 and m2 of the private operation, as far as they are known
  out        \* the result, <<>> before

vars == <<job, pc, w, half, out>>

Byte == 2 ^ ByteBits
LimbBits == LimbBytes * ByteBits
B == 2 ^ LimbBits                       \* 2^32

Zeros(k) == [i \in 1..k |-> 0]
Value(d) == FoldRight(LAMBDA x, v : (v * B) + x, d, 0)
Digits(v, k) == [i \in 1..k |-> (v \div B ^ (i - 1)) % B]
One == Digits(1, Limbs)

-----------------------------------------------------------------------------
(* bn_cmp, as a >= b: the most significant limb that differs decides *)
Geq(a, b) ==
  LET D == {i \in DOMAIN a : a[i] # b[i]} IN
  D = {} \/ LET i == CHOOSE j \in D : \A k \in D : k <= j IN a[i] > b[i]

(* bn_sub: limb by limb with a borrow; the last borrow is returned with the limbs *)
SubBorrow(a, b) ==
  FoldLeft(LAMBDA s, i : LET x == a[i] - b[i] - s.borrow IN
                         [d |-> Append(s.d, x % B), borrow |-> IF x < 0 THEN 1 ELSE 0],
           [d |-> <<>>, borrow |-> 0], [i \in DOMAIN a |-> i])
Sub(a, b) == SubBorrow(a, b).d

(* t + x * b, added limb by limb with a carry; the carry is returned *)
MulAdd(t, x, b) ==
  FoldLeft(LAMBDA s, j : LET v == t[j] + (x * b[j]) + s.carry IN
                         [d |-> Append(s.d, v % B), carry |-> v \div B],
           [d |-> <<>>, carry |-> 0], [j \in 1..Len(b) |-> j])

(* bn_dbl_mod *)
DblMod(a, n) ==
  LET s == MulAdd(Zeros(Limbs), 2, a) IN
  IF s.carry # 0 \/ Geq(s.d, n) THEN Sub(s.d, n) ELSE s.d
DblModTimes(a, n, k) == FoldLeft(LAMBDA r, i : DblMod(r, n), a, [i \in 1..k |-> i])

-----------------------------------------------------------------------------
(* Faulty variants of the definitions below: each breaks one of the properties *)

(* The carry limb of the product is dropped. *)
ReduceDropped(t, n) ==
  LET low == SubSeq(t, 1, Limbs) IN IF Geq(low, n) THEN Sub(low, n) ELSE low

(* The difference of the two halves is taken as if the first were the larger. *)
DiffUnsigned(m1, m2, p) == Sub(m1, m2)

-----------------------------------------------------------------------------
(* bn_n0inv: Newton's iteration for -1/n modulo one limb *)
N0Inv(n) == (B - FoldLeft(LAMBDA x, i : (x * (2 - (n[1] * x))) % B, 1, [i \in 1..Newton |-> i])) % B

(* The end of bn_mont_mul: the carry limb t[Limbs + 1] is worked off by
   subtractions, then the modulus is subtracted once more if it still fits. *)
Reduce(t, n) ==
  LET once(s) == LET r == SubBorrow(s.d, n) IN
                 IF s.high = 0 THEN s ELSE [d |-> r.d, high |-> s.high - r.borrow]
      s2 == FoldLeft(LAMBDA s, i : once(s), [d |-> SubSeq(t, 1, Limbs), high |-> t[Limbs + 1]],
                     [i \in 1..(2 * B) |-> i]) IN
  IF Geq(s2.d, n) THEN Sub(s2.d, n) ELSE s2.d

(* One turn of the loop of bn_mont_mul: add a[i] * b, make the low limb zero with
   a multiple of n, shift by one limb.  t has Limbs + 2 limbs. *)
MontStep(t, ai, b, n, n0inv) ==
  LET s == MulAdd(t, ai, b)
      x == t[Limbs + 1] + s.carry
      y == MulAdd(s.d, (s.d[1] * n0inv) % B, n)
      z == (x % B) + y.carry
      high == ((x \div B) + (z \div B)) % B IN
  SubSeq(y.d, 2, Limbs) \o <<z % B, high, high>>

(* bn_mont_mul: a * b / R mod n *)
MontMul(a, b, n) ==
  Reduce(FoldLeft(LAMBDA t, i : MontStep(t, a[i], b, n, N0Inv(n)), Zeros(Limbs + 2),
                  [i \in 1..Limbs |-> i]), n)

(* The bits of the exponent, most significant first *)
Bits(e) == [k \in 1..(Limbs * LimbBits) |-> (Value(e) \div 2 ^ (Limbs * LimbBits - k)) % 2]

-----------------------------------------------------------------------------
(* bn_bitlen, bn_shl1 and bn_mod: binary long division *)
BitLen(a) == LET S == {k \in 1..(Limbs * LimbBits) : Value(a) >= 2 ^ (k - 1)} IN
             IF S = {} THEN 0 ELSE CHOOSE k \in S : \A j \in S : j <= k
Shl1(a) == MulAdd(Zeros(Limbs), 2, a).d
Shr1(a) == Digits(Value(a) \div 2, Limbs)
ModBig(a, m) ==
  IF ~Geq(a, m) THEN a
  ELSE LET shift == BitLen(a) - BitLen(m)
           top == FoldLeft(LAMBDA t, i : Shl1(t), m, [i \in 1..shift |-> i])
           turn(s) == [rem |-> IF Geq(s.rem, s.t) THEN Sub(s.rem, s.t) ELSE s.rem, t |-> Shr1(s.t)] IN
       FoldLeft(LAMBDA s, i : turn(s), [rem |-> a, t |-> top], [i \in 1..(shift + 1) |-> i]).rem

(* bn_mul_wide, then the addition of m2: schoolbook, on 2 * Limbs limbs *)
MulWide(a, b) ==
  FoldLeft(LAMBDA x, i :
             LET s == MulAdd(SubSeq(x, i, i + Limbs - 1), a[i], b)
                 c == x[i + Limbs] + s.carry IN
             SubSeq(x, 1, i - 1) \o s.d \o <<c % B>>
               \o (IF i = Limbs THEN <<>>
                   ELSE <<(x[i + Limbs + 1] + (c \div B)) % B>> \o SubSeq(x, i + Limbs + 2, 2 * Limbs)),
           Zeros(2 * Limbs), [i \in 1..Limbs |-> i])
AddWide(x, m) == MulAdd(x, 1, m \o Zeros(Limbs)).d

(* bn_wide_cmp_n and bn_wide_sub_n *)
WideSubOnce(x, n) == IF Geq(x, n \o Zeros(Limbs)) THEN Sub(x, n \o Zeros(Limbs)) ELSE x

-----------------------------------------------------------------------------
(* The byte arrays, most significant first *)
Load(b) ==
  [k \in 1..Limbs |->
     FoldLeft(LAMBDA v, i : IF (Len(b) - i) \div LimbBytes = k - 1
                            THEN v + (b[i] * Byte ^ ((Len(b) - i) % LimbBytes)) ELSE v,
              0, [i \in DOMAIN b |-> i])]
(* bn_rsa_public stores with a shift that counts from the front *)
Store(d, len) ==
  [i \in 1..len |-> (d[((len - i) \div LimbBytes) + 1]
                       \div Byte ^ (LimbBytes - 1 - ((i - 1) % LimbBytes))) % Byte]

(* The difference of the two halves of the private operation, modulo p *)
Diff(m1, m2, p) == IF Geq(m1, m2) THEN Sub(m1, m2) ELSE Sub(p, Sub(m2, m1))

-----------------------------------------------------------------------------
Num(v) == Digits(v, Limbs)
InverseMod(x, m) == CHOOSE y \in 1..(m - 1) : (x * y) % m = 1

(* A power that starts: base^e mod n *)
Start(base, e, n) ==
  [n |-> n, base |-> base, e |-> Bits(e), RM |-> One, R2 |-> One, baseM |-> One, acc |-> One,
   started |-> FALSE]

Init ==
  /\ out = <<>> /\ pc = "consts" /\ half = <<>>
  /\ \/ \E j \in PublicJobs : /\ job = [kind |-> "public", j |-> j]
                               /\ w = Start(Load(j.in), Load(j.exp), Load(j.n))
     \/ \E j \in PrivateJobs : /\ job = [kind |-> "private", j |-> j]
                                /\ w = Start(ModBig(Num(j.in), Num(j.p)), Num(j.d % (j.p - 1)), Num(j.p))

(* bn_mont_consts: R mod n and R^2 mod n, by doubling *)
Consts ==
  /\ pc = "consts" /\ pc' = "square"
  /\ w' = [w EXCEPT !.RM = DblModTimes(One, w.n, Limbs * LimbBits)]
  /\ UNCHANGED <<job, half, out>>
Square ==
  /\ pc = "square" /\ pc' = "base"
  /\ w' = [w EXCEPT !.R2 = DblModTimes(w.RM, w.n, Limbs * LimbBits)]
  /\ UNCHANGED <<job, half, out>>

(* bn_modpow: to Montgomery form, square and multiply from the first set bit on,
   and back *)
Base ==
  /\ pc = "base" /\ pc' = IF Len(half) = 2 THEN "mul" ELSE "bits"
  /\ w' = [w EXCEPT !.baseM = MontMul(w.base, w.R2, w.n), !.acc = MontMul(w.RM, w.RM, w.n)]
  /\ UNCHANGED <<job, half, out>>
OneBit ==
  /\ pc = "bits" /\ w.e # <<>>
  /\ w' = [w EXCEPT !.e = Tail(@), !.started = @ \/ Head(w.e) = 1,
                    !.acc = IF w.started THEN MontMul(@, @, w.n)
                            ELSE IF Head(w.e) = 1 THEN w.baseM ELSE @]
  /\ pc' = IF w.started /\ Head(w.e) = 1 THEN "times" ELSE "bits"
  /\ UNCHANGED <<job, half, out>>
Times ==
  /\ pc = "times" /\ pc' = "bits" /\ w' = [w EXCEPT !.acc = MontMul(@, w.baseM, w.n)]
  /\ UNCHANGED <<job, half, out>>
BackAgain ==
  /\ pc = "bits" /\ w.e = <<>> /\ pc' = "done"
  /\ w' = [w EXCEPT !.acc = MontMul(@, One, w.n)]
  /\ UNCHANGED <<job, half, out>>

(* bn_mod_mul: both factors to Montgomery form, the product, and back *)
MulForm ==
  /\ pc = "mul" /\ pc' = "mul2"
  /\ w' = [w EXCEPT !.acc = MontMul(Num(InverseMod(job.j.q, job.j.p)), w.R2, w.n)]
  /\ UNCHANGED <<job, half, out>>
MulTimes ==
  /\ pc = "mul2" /\ pc' = "mul3" /\ w' = [w EXCEPT !.acc = MontMul(w.baseM, @, w.n)]
  /\ UNCHANGED <<job, half, out>>
MulBack ==
  /\ pc = "mul3" /\ pc' = "combine" /\ w' = [w EXCEPT !.acc = MontMul(@, One, w.n)]
  /\ UNCHANGED <<job, half, out>>

(* The end of bn_rsa_public *)
PublicDone ==
  /\ pc = "done" /\ job.kind = "public"
  /\ pc' = "end" /\ out' = Store(w.acc, Len(job.j.n)) /\ UNCHANGED <<job, w, half>>

(* bn_rsa_private_crt: the power modulo p, the power modulo q, then their
   difference times 1/q modulo p, times q, plus the second half *)
SecondHalf ==
  /\ pc = "done" /\ job.kind = "private" /\ half = <<>>
  /\ pc' = "consts" /\ half' = <<w.acc>>
  /\ w' = LET j == job.j IN Start(ModBig(Num(j.in), Num(j.q)), Num(j.d % (j.q - 1)), Num(j.q))
  /\ UNCHANGED <<job, out>>
Recombine ==
  /\ pc = "done" /\ job.kind = "private" /\ Len(half) = 1
  /\ pc' = "consts" /\ half' = Append(half, w.acc)
  /\ w' = Start(Diff(half[1], w.acc, Num(job.j.p)), One, Num(job.j.p))
  /\ UNCHANGED <<job, out>>
Combine ==
  /\ pc = "combine" /\ pc' = "end"
  /\ out' = WideSubOnce(AddWide(MulWide(w.acc, Num(job.j.q)), half[2]), Num(job.j.p * job.j.q))
  /\ UNCHANGED <<job, w, half>>

Next ==
  \/ Consts \/ Square \/ Base \/ OneBit \/ Times \/ BackAgain \/ MulForm \/ MulTimes \/ MulBack
  \/ PublicDone \/ SecondHalf \/ Recombine \/ Combine
Spec == Init /\ [][Next]_vars

-----------------------------------------------------------------------------
(* The reference: powers modulo m in the integers *)
PowMod(b, e, m) == FoldLeft(LAMBDA r, i : (r * b) % m, 1 % m, [i \in 1..e |-> i])
ByteValue(b) == FoldLeft(LAMBDA v, x : (v * Byte) + x, 0, b)

(* Encryption with a modulus of whole limbs is in^e mod n, and decryption with
   the Chinese remainder theorem is in^d mod p*q: the limbs, carries, borrows and
   the carry limb that was once dropped compute the power of the integers. *)
RsaCorrect ==
  out # <<>> =>
    IF job.kind = "public"
    THEN Len(job.j.n) % LimbBytes = 0 =>
           ByteValue(out) = PowMod(ByteValue(job.j.in), ByteValue(job.j.exp), ByteValue(job.j.n))
    ELSE Value(out) = PowMod(job.j.in, job.j.d, job.j.p * job.j.q)
=============================================================================
