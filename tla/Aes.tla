-------------------------------- MODULE Aes --------------------------------
(***************************************************************************)
(* The encryption of what goes to the cloud and comes from it              *)
(* (src/ejcloud/aes/ej_aes.c): AES block by block, padded to whole blocks. *)
(* A word is the sequence of its four bytes, the low one first.            *)
(***************************************************************************)
EXTENDS Integers, Sequences, SequencesExt, Bitwise

FSbTable == <<
    99, 124, 119, 123, 242, 107, 111, 197, 48, 1, 103, 43, 254, 215, 171, 118, 202, 130, 201, 125,
    250, 89, 71, 240, 173, 212, 162, 175, 156, 164, 114, 192, 183, 253, 147, 38, 54, 63, 247, 204,
    52, 165, 229, 241, 113, 216, 49, 21, 4, 199, 35, 195, 24, 150, 5, 154, 7, 18, 128, 226,
    235, 39, 178, 117, 9, 131, 44, 26, 27, 110, 90, 160, 82, 59, 214, 179, 41, 227, 47, 132,
    83, 209, 0, 237, 32, 252, 177, 91, 106, 203, 190, 57, 74, 76, 88, 207, 208, 239, 170, 251,
    67, 77, 51, 133, 69, 249, 2, 127, 80, 60, 159, 168, 81, 163, 64, 143, 146, 157, 56, 245,
    188, 182, 218, 33, 16, 255, 243, 210, 205, 12, 19, 236, 95, 151, 68, 23, 196, 167, 126, 61,
    100, 93, 25, 115, 96, 129, 79, 220, 34, 42, 144, 136, 70, 238, 184, 20, 222, 94, 11, 219,
    224, 50, 58, 10, 73, 6, 36, 92, 194, 211, 172, 98, 145, 149, 228, 121, 231, 200, 55, 109,
    141, 213, 78, 169, 108, 86, 244, 234, 101, 122, 174, 8, 186, 120, 37, 46, 28, 166, 180, 198,
    232, 221, 116, 31, 75, 189, 139, 138, 112, 62, 181, 102, 72, 3, 246, 14, 97, 53, 87, 185,
    134, 193, 29, 158, 225, 248, 152, 17, 105, 217, 142, 148, 155, 30, 135, 233, 206, 85, 40, 223,
    140, 161, 137, 13, 191, 230, 66, 104, 65, 153, 45, 15, 176, 84, 187, 22>>
FSb == [x \in 0..255 |-> FSbTable[x + 1]]
RSb == [y \in 0..255 |-> CHOOSE x \in 0..255 : FSb[x] = y]

(* Op(x), for which TLC evaluates x first: a round within a round within a *)
(* round would be too deep for it.                                         *)
Strictly(Op(_), x) == CHOOSE y \in {Op(z) : z \in {x}} : TRUE
Four(Op(_)) == <<Op(1), Op(2), Op(3), Op(4)>>
Sum2(v, w) == Four(LAMBDA r : v[r] ^^ w[r])
Xtime(b) == IF b < 128 THEN 2 * b ELSE (2 * b - 256) ^^ 27
Double(b, k) == FoldLeft(LAMBDA x, i : Xtime(x), b, [i \in 1..k |-> i])
Times(k, b) ==
  FoldLeft(LAMBDA x, i : IF (k \div 2 ^ i) % 2 = 1 THEN x ^^ Double(b, i) ELSE x, 0, <<0, 1, 2, 3, 4, 5, 6, 7>>)

(* The tables of a round: what a byte contributes to its column.  FT1, FT2 *)
(* and FT3 hold the words of FT0 turned by one, two and three bytes.       *)
Turn(w, k) == Four(LAMBDA r : w[((r - 1 - k) % 4) + 1])
FT0 == [x \in 0..255 |-> Four(LAMBDA r : Times(<<2, 1, 1, 3>>[r], FSb[x]))]
RT0 == [y \in 0..255 |-> Four(LAMBDA r : Times(<<14, 9, 13, 11>>[r], RSb[y]))]
RCON == <<1, 2, 4, 8, 16, 32, 64, 128, 27, 54>>

-----------------------------------------------------------------------------
(* aes_setkey_enc with a key of 128 bits, the only size this module asks   *)
(* for: the keys of eleven rounds, each of the one before.                 *)
Rounds == 10
Words(bytes) == Four(LAMBDA i : SubSeq(bytes, 4 * i - 3, 4 * i))
Substituted(w) == Four(LAMBDA r : FSb[w[r]])
NextKey(keys) ==
  LET k == Last(keys)
      a == Sum2(k[1], Sum2(Substituted(Turn(k[4], 3)), <<RCON[Len(keys)], 0, 0, 0>>))
      b == Sum2(k[2], a)
      c == Sum2(k[3], b)
  IN Append(keys, <<a, b, c, Sum2(k[4], c)>>)
SetkeyEnc(key) == FoldLeft(LAMBDA keys, i : NextKey(keys), <<Words(key)>>, [i \in 1..Rounds |-> i])

(* aes_setkey_dec: the keys of the rounds in reverse, those between the    *)
(* first and the last mixed like a column.                                 *)
Unmixed(w) == FoldLeft(LAMBDA v, k : Sum2(v, Turn(RT0[FSb[w[k + 1]]], k)), <<0, 0, 0, 0>>, <<0, 1, 2, 3>>)
SetkeyDec(key) ==
  LET keys == Reverse(SetkeyEnc(key)) IN
  [r \in DOMAIN keys |-> IF r \in {1, Rounds + 1} THEN keys[r] ELSE Four(LAMBDA i : Unmixed(keys[r][i]))]

(* AES_FROUND and AES_RROUND: byte k of a column comes from k columns on,  *)
(* or from k columns back.                                                 *)
Column(X, j, k, back) == X[((j - 1 + (IF back THEN -k ELSE k)) % 4) + 1]
Round(X, key, table, back) ==
  Four(LAMBDA j : FoldLeft(LAMBDA v, k : Sum2(v, Turn(table[Column(X, j, k, back)[k + 1]], k)),
                           key[j], <<0, 1, 2, 3>>))
LastRound(X, key, box, back) ==
  Four(LAMBDA j : Four(LAMBDA r : key[j][r] ^^ box[Column(X, j, r - 1, back)[r]]))
EcbUpdate(keys, decrypt, input) ==
  LET X0 == Four(LAMBDA j : Sum2(Words(input)[j], keys[1][j]))
      Next1(x, r) == Round(x, keys[r + 1], IF decrypt THEN RT0 ELSE FT0, decrypt)
      X == FoldLeft(LAMBDA x, r : Strictly(LAMBDA y : Next1(y, r), x), X0, [r \in 1..(Rounds - 1) |-> r])
  IN FlattenSeq(LastRound(X, keys[Rounds + 1], IF decrypt THEN RSb ELSE FSb, decrypt))

(* aes_crypt_ecb: what does not fill a block is filled with the number of  *)
(* bytes that are missing, which a whole block is given when none is.      *)
Blocks(s) == [i \in 1..(Len(s) \div 16) |-> SubSeq(s, 16 * i - 15, 16 * i)]
Ecb(keys, decrypt, s) ==
  LET b == Blocks(s) IN FlattenSeq([i \in DOMAIN b |-> EcbUpdate(keys, decrypt, b[i])])
Padded(s) == LET n == 16 - (Len(s) % 16) IN s \o [i \in 1..n |-> n]
Unpadded(s) == SubSeq(s, 1, Len(s) - s[Len(s)])

(* EJ_Aes_Encrypt and EJ_Aes_Decrypt give the size of the key in bytes,    *)
(* 16, which is no size of a key and is taken for 128 bits.  Fewer than 20 *)
(* bytes of text are reported as a failure.                                *)
KEK == <<151, 196, 74, 239, 170, 52, 2, 90, 78, 65, 17, 232, 68, 74, 159, 187>>
KekEnc == SetkeyEnc(KEK)
KekDec == SetkeyDec(KEK)
AesEncrypt(text) == Ecb(KekEnc, FALSE, Padded(text))
AesDecrypt(s) ==
  LET text == Unpadded(Ecb(KekDec, TRUE, s)) IN
  [text |-> text, length |-> IF Len(text) < 20 THEN 0 ELSE Len(text)]
=============================================================================
