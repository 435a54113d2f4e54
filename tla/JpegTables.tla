------------------------------- MODULE JpegTables -------------------------------
(***************************************************************************)
(* The constants of userland/jpeg_enc.c and userland/jpeg.c: the zigzag    *)
(* orders, the quantisers, the Huffman counts and symbols, and the codes   *)
(* that the encoder and the decoder each make of them.                     *)
(***************************************************************************)
EXTENDS Integers, Sequences, SequencesExt

-----------------------------------------------------------------------------
(* Tables.                                                                 *)

zigzag == <<
  0, 1, 8, 16, 9, 2, 3, 10, 17, 24, 32, 25, 18, 11, 4, 5, 12, 19, 26, 33, 40,
  48, 41, 34, 27, 20, 13, 6, 7, 14, 21, 28, 35, 42, 49, 56, 57, 50, 43, 36,
  29, 22, 15, 23, 30, 37, 44, 51, 58, 59, 52, 45, 38, 31, 39, 46, 53, 60, 61,
  54, 47, 55, 62, 63 >>

zz == [i \in 0 .. 63 |-> zigzag[i + 1]]

unzigzag == <<
  0, 1, 5, 6, 14, 15, 27, 28, 2, 4, 7, 13, 16, 26, 29, 42, 3, 8, 12, 17, 25,
  30, 41, 43, 9, 11, 18, 24, 31, 40, 44, 53, 10, 19, 23, 32, 39, 45, 52, 54,
  20, 22, 33, 38, 46, 51, 55, 60, 21, 34, 37, 47, 50, 56, 59, 61, 35, 36, 48,
  49, 57, 58, 62, 63 >>

izz == [i \in 0 .. 63 |-> unzigzag[i + 1]]

std_lum_q == <<
  16, 11, 10, 16, 24, 40, 51, 61, 12, 12, 14, 19, 26, 58, 60, 55, 14, 13, 16,
  24, 40, 57, 69, 56, 14, 17, 22, 29, 51, 87, 80, 62, 18, 22, 37, 56, 68,
  109, 103, 77, 24, 35, 55, 64, 81, 104, 113, 92, 49, 64, 78, 87, 103, 121,
  120, 101, 72, 92, 95, 98, 112, 100, 103, 99 >>

std_chr_q == <<
  17, 18, 24, 47, 99, 99, 99, 99, 18, 21, 26, 66, 99, 99, 99, 99, 24, 26, 56,
  99, 99, 99, 99, 99, 47, 66, 99, 99, 99, 99, 99, 99, 99, 99, 99, 99, 99, 99,
  99, 99, 99, 99, 99, 99, 99, 99, 99, 99, 99, 99, 99, 99, 99, 99, 99, 99, 99,
  99, 99, 99, 99, 99, 99, 99 >>

std_counts == [ti \in 0 .. 3 |->
  CASE ti = 0 -> <<0, 1, 5, 1, 1, 1, 1, 1, 1, 0, 0, 0, 0, 0, 0, 0>>
    [] ti = 1 -> <<0, 3, 1, 1, 1, 1, 1, 1, 1, 1, 1, 0, 0, 0, 0, 0>>
    [] ti = 2 -> <<0, 2, 1, 3, 3, 2, 4, 3, 5, 5, 4, 4, 0, 0, 1, 125>>
    [] ti = 3 -> <<0, 2, 1, 2, 4, 4, 3, 4, 7, 5, 4, 4, 0, 1, 2, 119>>]

std_ac_lum_sym == <<
  1, 2, 3, 0, 4, 17, 5, 18, 33, 49, 65, 6, 19, 81, 97, 7, 34, 113, 20, 50,
  129, 145, 161, 8, 35, 66, 177, 193, 21, 82, 209, 240, 36, 51, 98, 114, 130,
  9, 10, 22, 23, 24, 25, 26, 37, 38, 39, 40, 41, 42, 52, 53, 54, 55, 56, 57,
  58, 67, 68, 69, 70, 71, 72, 73, 74, 83, 84, 85, 86, 87, 88, 89, 90, 99,
  100, 101, 102, 103, 104, 105, 106, 115, 116, 117, 118, 119, 120, 121, 122,
  131, 132, 133, 134, 135, 136, 137, 138, 146, 147, 148, 149, 150, 151, 152,
  153, 154, 162, 163, 164, 165, 166, 167, 168, 169, 170, 178, 179, 180, 181,
  182, 183, 184, 185, 186, 194, 195, 196, 197, 198, 199, 200, 201, 202, 210,
  211, 212, 213, 214, 215, 216, 217, 218, 225, 226, 227, 228, 229, 230, 231,
  232, 233, 234, 241, 242, 243, 244, 245, 246, 247, 248, 249, 250 >>

std_ac_chr_sym == <<
  0, 1, 2, 3, 17, 4, 5, 33, 49, 6, 18, 65, 81, 7, 97, 113, 19, 34, 50, 129,
  8, 20, 66, 145, 161, 177, 193, 9, 35, 51, 82, 240, 21, 98, 114, 209, 10,
  22, 36, 52, 225, 37, 241, 23, 24, 25, 26, 38, 39, 40, 41, 42, 53, 54, 55,
  56, 57, 58, 67, 68, 69, 70, 71, 72, 73, 74, 83, 84, 85, 86, 87, 88, 89, 90,
  99, 100, 101, 102, 103, 104, 105, 106, 115, 116, 117, 118, 119, 120, 121,
  122, 130, 131, 132, 133, 134, 135, 136, 137, 138, 146, 147, 148, 149, 150,
  151, 152, 153, 154, 162, 163, 164, 165, 166, 167, 168, 169, 170, 178, 179,
  180, 181, 182, 183, 184, 185, 186, 194, 195, 196, 197, 198, 199, 200, 201,
  202, 210, 211, 212, 213, 214, 215, 216, 217, 218, 226, 227, 228, 229, 230,
  231, 232, 233, 234, 242, 243, 244, 245, 246, 247, 248, 249, 250 >>

std_sym(ti) == CASE ti \in {0, 1} -> [i \in 1 .. 12 |-> i - 1]
                 [] ti = 2 -> std_ac_lum_sym
                 [] ti = 3 -> std_ac_chr_sym

ZRL == 240
EOB == 0

-----------------------------------------------------------------------------
(* Canonical codes: symbols in order, one more within a length, doubled    *)
(* from one length to the next.                                            *)

Lengths(counts) ==
  FoldLeft(LAMBDA ls, len : ls \o [i \in 1 .. counts[len] |-> len], << >>,
           [len \in 1 .. 16 |-> len])

CodesInOrder(counts) ==
  LET ls == Lengths(counts)
      first[n \in 1 .. 16] == IF n = 1 THEN 0 ELSE 2 * (first[n - 1] + counts[n - 1])
      before[n \in 1 .. 16] == IF n = 1 THEN 0 ELSE before[n - 1] + counts[n - 1]
  IN  [i \in DOMAIN ls |-> <<ls[i], first[ls[i]] + i - 1 - before[ls[i]]>>]

(* what the encoder writes for a symbol *)
std_make_codes(ti) ==
  LET codes == CodesInOrder(std_counts[ti]) sym == std_sym(ti)
  IN  [s \in Range(sym) |-> codes[CHOOSE i \in DOMAIN sym : sym[i] = s]]

Codes == [ti \in 0 .. 3 |-> std_make_codes(ti)]

(* what the decoder makes of the counts and symbols in the file *)
build_huff(ti) ==
  LET codes == CodesInOrder(std_counts[ti])
  IN  [c \in Range(codes) |-> std_sym(ti)[CHOOSE i \in DOMAIN codes : codes[i] = c]]

Huff == [ti \in 0 .. 3 |-> build_huff(ti)]
=============================================================================
