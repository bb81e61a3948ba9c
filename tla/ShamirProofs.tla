---------------------------- MODULE ShamirProofs ----------------------------
(***************************************************************************)
(* That the arithmetic of shamir.cpp is that of the field with 256         *)
(* elements, and so that any two shares give a key back, one tells nothing *)
(* and shares of two splits do not fit: for keys of any length and any     *)
(* draws.                                                                  *)
(*                                                                         *)
(* The powers of the generator 3 are written out.  That they are all the   *)
(* bytes but 0 makes the two tables inverses; that multiplying by a power  *)
(* is multiplying by 3 as many times makes the multiplication linear,      *)
(* commutative and associative.  The rest is reckoned in the field.        *)
(***************************************************************************)
EXTENDS Shamir, SequenceTheorems, WellFoundedInduction, TLAPS

-----------------------------------------------------------------------------
(* Exclusive or *)

\* A doubled byte has nine bits.
Word == 0..511

BitWeights == {1, 2, 4, 8, 16, 32, 64, 128, 256}

\* The bit of weight w of n.
Bit(n, w) == (n \div w) % 2

\* The number whose bits are t0, t1, ...
LEMMA BitsOfSum ==
    ASSUME NEW t0 \in 0..1, NEW t1 \in 0..1, NEW t2 \in 0..1, NEW t3 \in 0..1, NEW t4 \in 0..1,
           NEW t5 \in 0..1, NEW t6 \in 0..1, NEW t7 \in 0..1, NEW t8 \in 0..1,
           NEW n, n = 1 * t0 + 2 * t1 + 4 * t2 + 8 * t3 + 16 * t4 + 32 * t5 + 64 * t6 + 128 * t7 + 256 * t8
    PROVE  /\ n \in Word
           /\ Bit(n, 1) = t0 /\ Bit(n, 2) = t1 /\ Bit(n, 4) = t2 /\ Bit(n, 8) = t3 /\ Bit(n, 16) = t4
           /\ Bit(n, 32) = t5 /\ Bit(n, 64) = t6 /\ Bit(n, 128) = t7 /\ Bit(n, 256) = t8
<1>1. n \in Word
  BY DEF Word
<1>2. Bit(n, 1) = t0
  BY DEF Bit
<1>3. Bit(n, 2) = t1
  BY DEF Bit
<1>4. Bit(n, 4) = t2
  BY DEF Bit
<1>5. Bit(n, 8) = t3
  BY DEF Bit
<1>6. Bit(n, 16) = t4
  BY DEF Bit
<1>7. Bit(n, 32) = t5
  BY DEF Bit
<1>8. Bit(n, 64) = t6
  BY DEF Bit
<1>9. Bit(n, 128) = t7
  BY DEF Bit
<1>10. Bit(n, 256) = t8
  BY DEF Bit
<1> QED BY <1>1, <1>2, <1>3, <1>4, <1>5, <1>6, <1>7, <1>8, <1>9, <1>10

\* A bit is 0 or 1.
LEMMA BitType == \A n \in Nat, w \in BitWeights : Bit(n, w) \in 0..1
  BY DEF Bit, BitWeights

\* A number is the sum of its bits, each with its weight.
LEMMA SumOfBits ==
    ASSUME NEW n \in Word
    PROVE  n = 1 * Bit(n, 1) + 2 * Bit(n, 2) + 4 * Bit(n, 4) + 8 * Bit(n, 8) + 16 * Bit(n, 16)
               + 32 * Bit(n, 32) + 64 * Bit(n, 64) + 128 * Bit(n, 128) + 256 * Bit(n, 256)
  BY SMTT(40) DEF Bit, Word

\* Each bit of an exclusive or is the last bit of the sum of the two.
LEMMA XorBits ==
    ASSUME NEW a \in Word, NEW b \in Word
    PROVE  /\ a ^^ b \in Word
           /\ \A w \in BitWeights : Bit(a ^^ b, w) = (Bit(a, w) + Bit(b, w)) % 2
<1> DEFINE t(w) == ((a \div w) + (b \div w)) % 2
<1>1. \A w \in BitWeights : t(w) \in 0..1
  BY DEF BitWeights, Word
<1>2. \A w \in BitWeights : t(w) = (Bit(a, w) + Bit(b, w)) % 2
  BY DEF BitWeights, Word, Bit
<1>3. a ^^ b = 1 * t(1) + 2 * t(2) + 4 * t(4) + 8 * t(8) + 16 * t(16) + 32 * t(32)
               + 64 * t(64) + 128 * t(128) + 256 * t(256)
  <2>1. \A w \in BitWeights : XorBit(a, b, w) = w * t(w)
    BY DEF XorBit
  <2> HIDE DEF t
  <2>2. a ^^ b = XorBit(a, b, 1) + XorBit(a, b, 2) + XorBit(a, b, 4) + XorBit(a, b, 8) + XorBit(a, b, 16)
                 + XorBit(a, b, 32) + XorBit(a, b, 64) + XorBit(a, b, 128) + XorBit(a, b, 256)
    BY Zenon DEF ^^
  <2> QED BY <2>1, <2>2 DEF BitWeights
<1> HIDE DEF t
<1>4. \A w \in BitWeights : Bit(a ^^ b, w) = t(w)
  BY <1>1, <1>3, BitsOfSum DEF BitWeights
<1>5. a ^^ b \in Word
  BY <1>1, <1>3, BitsOfSum DEF BitWeights
<1> QED BY <1>2, <1>4, <1>5

\* A number is its bits.
LEMMA SameBits ==
    ASSUME NEW a \in Word, NEW b \in Word, \A w \in BitWeights : Bit(a, w) = Bit(b, w)
    PROVE  a = b
<1>1. \A w \in {1, 2, 4, 8, 16, 32, 64, 128, 256} : Bit(a, w) = Bit(b, w)
  BY DEF BitWeights
<1> QED BY <1>1, SumOfBits

\* Exclusive or commutes, as the sum of two bits does.
LEMMA XorCommutes == ASSUME NEW a \in Word, NEW b \in Word PROVE a ^^ b = b ^^ a
<1>1. \A w \in BitWeights : Bit(a ^^ b, w) = Bit(b ^^ a, w)
  <2>1. \A w \in BitWeights : Bit(a, w) \in 0..1 /\ Bit(b, w) \in 0..1
    BY BitType DEF Word
  <2> QED BY <2>1, XorBits
<1> QED BY <1>1, XorBits, SameBits

\* It associates: the last bit of a sum of three is the same with any brackets.
LEMMA XorAssociates ==
    ASSUME NEW a \in Word, NEW b \in Word, NEW c \in Word
    PROVE  (a ^^ b) ^^ c = a ^^ (b ^^ c)
<1>1. a ^^ b \in Word /\ b ^^ c \in Word /\ (a ^^ b) ^^ c \in Word /\ a ^^ (b ^^ c) \in Word
  BY XorBits
<1>2. ASSUME NEW w \in BitWeights PROVE Bit((a ^^ b) ^^ c, w) = Bit(a ^^ (b ^^ c), w)
  <2>1. Bit(a, w) \in 0..1 /\ Bit(b, w) \in 0..1 /\ Bit(c, w) \in 0..1
    BY BitType, SMTT(20) DEF Word
  <2>2. Bit((a ^^ b) ^^ c, w) = (((Bit(a, w) + Bit(b, w)) % 2) + Bit(c, w)) % 2
    BY <1>1, XorBits
  <2>3. Bit(a ^^ (b ^^ c), w) = (Bit(a, w) + ((Bit(b, w) + Bit(c, w)) % 2)) % 2
    <3>1. Bit(a ^^ (b ^^ c), w) = (Bit(a, w) + Bit(b ^^ c, w)) % 2
      BY <1>1, XorBits
    <3>2. Bit(b ^^ c, w) = (Bit(b, w) + Bit(c, w)) % 2
      BY XorBits
    <3> QED BY <3>1, <3>2
  <2> QED BY <2>1, <2>2, <2>3
<1> QED BY <1>1, <1>2, SameBits

\* A number takes itself off.
LEMMA XorSelf == ASSUME NEW a \in Word PROVE a ^^ a = 0
<1>1. \A w \in BitWeights : Bit(a, w) \in 0..1 /\ Bit(0, w) = 0
  BY BitType DEF Word, BitWeights, Bit
<1>2. \A w \in BitWeights : Bit(a ^^ a, w) = Bit(0, w)
  BY <1>1, XorBits
<1>3. a ^^ a \in Word /\ 0 \in Word
  <2>1. a ^^ a \in Word
    BY XorBits
  <2> QED BY <2>1 DEF Word
<1> QED BY <1>2, <1>3, SameBits

\* 0 changes nothing.
LEMMA XorZero == ASSUME NEW a \in Word PROVE a ^^ 0 = a /\ 0 ^^ a = a
<1>1. \A w \in BitWeights : Bit(a, w) \in 0..1 /\ Bit(0, w) = 0
  BY BitType DEF Word, BitWeights, Bit
<1>2. 0 \in Word
  BY DEF Word
<1>3. \A w \in BitWeights : Bit(a ^^ 0, w) = Bit(a, w)
  BY <1>1, <1>2, XorBits
<1>4. a ^^ 0 = a
  BY <1>2, <1>3, XorBits, SameBits
<1> QED BY <1>2, <1>4, XorCommutes

\* Of two bytes it is a byte.
LEMMA XorByte ==
    ASSUME NEW a \in Byte, NEW b \in Byte
    PROVE  a ^^ b \in Byte
<1>1. a \in Word /\ b \in Word /\ Bit(a, 256) = 0 /\ Bit(b, 256) = 0 /\ 256 \in BitWeights
  BY DEF Byte, Word, Bit, BitWeights
<1>2. a ^^ b \in Word /\ Bit(a ^^ b, 256) = 0
  BY <1>1, XorBits
<1> QED BY <1>2 DEF Byte, Word, Bit

\* The exclusive ors of bytes, with the laws they are reckoned by.
LEMMA XorLaws ==
    ASSUME NEW a \in Byte, NEW b \in Byte, NEW c \in Byte
    PROVE  /\ a ^^ b = b ^^ a
           /\ (a ^^ b) ^^ c = a ^^ (b ^^ c)
           /\ a ^^ a = 0 /\ a ^^ 0 = a /\ 0 ^^ a = a
<1>1. a \in Word /\ b \in Word /\ c \in Word
  BY DEF Byte, Word
<1> QED BY <1>1, XorCommutes, XorAssociates, XorSelf, XorZero

\* What is equal to b after an exclusive or with a is b with a.
LEMMA XorCancel ==
    ASSUME NEW a \in Byte, NEW b \in Byte, NEW c \in Byte
    PROVE  /\ (a ^^ b) ^^ b = a
           /\ a ^^ (a ^^ b) = b
           /\ a ^^ b = a ^^ c => b = c
           /\ a ^^ b = 0 => a = b
<1>1. (a ^^ b) ^^ b = a
  BY XorLaws
<1>2. \A x, y \in Byte : x ^^ (x ^^ y) = y
  BY XorLaws
<1>3. a ^^ b = a ^^ c => b = c
  BY <1>2
<1>4. a ^^ b = 0 => a = b
  BY <1>2, XorLaws
<1> QED BY <1>1, <1>2, <1>3, <1>4

\* The inner two of four may change places.
LEMMA XorExchanges ==
    ASSUME NEW a \in Byte, NEW b \in Byte, NEW c \in Byte, NEW d \in Byte
    PROVE  (a ^^ b) ^^ (c ^^ d) = (a ^^ c) ^^ (b ^^ d)
<1>1. a ^^ b \in Byte /\ a ^^ c \in Byte /\ c ^^ d \in Byte /\ b ^^ d \in Byte
  BY XorByte
<1>2. (a ^^ b) ^^ (c ^^ d) = ((a ^^ b) ^^ c) ^^ d
  BY <1>1, XorLaws
<1>3. (a ^^ b) ^^ c = a ^^ (b ^^ c) /\ b ^^ c = c ^^ b /\ a ^^ (c ^^ b) = (a ^^ c) ^^ b
  BY XorLaws
<1>4. ((a ^^ c) ^^ b) ^^ d = (a ^^ c) ^^ (b ^^ d)
  BY <1>1, XorLaws
<1> QED BY <1>2, <1>3, <1>4

-----------------------------------------------------------------------------
(* Doubling, and the generator *)

\* Doubling is linear, because 283 is taken off exactly when the highest bit is set.
LEMMA DoubledLinear ==
    ASSUME NEW a \in Byte, NEW b \in Byte
    PROVE  Doubled(a ^^ b) = Doubled(a) ^^ Doubled(b)
<1>1. a \in Word /\ b \in Word /\ a ^^ b \in Byte /\ a ^^ b \in Word
  <2>1. a ^^ b \in Byte
    BY XorByte
  <2> QED BY <2>1 DEF Byte, Word
<1>2. 2 * a \in Word /\ 2 * b \in Word /\ 2 * (a ^^ b) \in Word /\ 283 \in Word
  BY <1>1 DEF Byte, Word
<1>3. 2 * (a ^^ b) = (2 * a) ^^ (2 * b)
  <2>1. ASSUME NEW n \in Byte
        PROVE  /\ Bit(2 * n, 1) = 0 /\ Bit(2 * n, 2) = Bit(n, 1) /\ Bit(2 * n, 4) = Bit(n, 2)
               /\ Bit(2 * n, 8) = Bit(n, 4) /\ Bit(2 * n, 16) = Bit(n, 8) /\ Bit(2 * n, 32) = Bit(n, 16)
               /\ Bit(2 * n, 64) = Bit(n, 32) /\ Bit(2 * n, 128) = Bit(n, 64)
               /\ Bit(2 * n, 256) = Bit(n, 128)
    BY DEF Bit, Byte
  <2>2. \A w \in BitWeights : Bit(2 * (a ^^ b), w) = (Bit(2 * a, w) + Bit(2 * b, w)) % 2
    <3>1. \A w \in BitWeights : Bit(a ^^ b, w) = (Bit(a, w) + Bit(b, w)) % 2
      BY <1>1, XorBits
    <3> QED BY <1>1, <2>1, <3>1 DEF BitWeights
  <2>3. \A w \in BitWeights : Bit(2 * (a ^^ b), w) = Bit((2 * a) ^^ (2 * b), w)
    BY <1>2, <2>2, XorBits
  <2> QED BY <1>2, <2>3, XorBits, SameBits
<1>4. /\ \A n \in Byte : Bit(n, 128) = IF 2 * n > 255 THEN 1 ELSE 0
      /\ Bit(a ^^ b, 128) = (Bit(a, 128) + Bit(b, 128)) % 2
  <2>1. \A n \in Byte : Bit(n, 128) = IF 2 * n > 255 THEN 1 ELSE 0
    BY DEF Byte, Bit
  <2>2. 128 \in BitWeights
    BY DEF BitWeights
  <2> QED BY <1>1, <2>1, <2>2, XorBits
<1> DEFINE x == 2 * a
           y == 2 * b
           z == 2 * (a ^^ b)
<1>5. x \in Word /\ y \in Word /\ z \in Word /\ z = x ^^ y /\ ((z > 255) <=> ((x > 255) # (y > 255)))
  BY <1>1, <1>2, <1>3, <1>4
<1>6. /\ Doubled(a) = IF x > 255 THEN x ^^ 283 ELSE x
      /\ Doubled(b) = IF y > 255 THEN y ^^ 283 ELSE y
      /\ Doubled(a ^^ b) = IF z > 255 THEN z ^^ 283 ELSE z
  BY DEF Doubled
<1> HIDE DEF x, y, z
<1>7. x ^^ 283 \in Word /\ y ^^ 283 \in Word /\ x ^^ y \in Word
  BY <1>2, <1>5, XorBits
<1>8. (x ^^ y) ^^ 283 = x ^^ (y ^^ 283)
  BY <1>2, <1>5, XorAssociates
<1>9. (x ^^ y) ^^ 283 = (x ^^ 283) ^^ y
  <2>1. (y ^^ 283) = (283 ^^ y)
    BY <1>2, <1>5, XorCommutes
  <2>2. x ^^ (283 ^^ y) = (x ^^ 283) ^^ y
    BY <1>2, <1>5, XorAssociates
  <2> QED BY <1>8, <2>1, <2>2
<1>10. (x ^^ 283) ^^ (y ^^ 283) = x ^^ y
  <2>1. (x ^^ 283) ^^ (y ^^ 283) = ((x ^^ 283) ^^ y) ^^ 283
    BY <1>2, <1>5, <1>7, XorAssociates
  <2>2. ((x ^^ y) ^^ 283) ^^ 283 = (x ^^ y) ^^ (283 ^^ 283)
    BY <1>2, <1>7, XorAssociates
  <2> QED BY <1>2, <1>7, <1>9, <2>1, <2>2, XorSelf, XorZero
<1> QED BY <1>5, <1>6, <1>8, <1>9, <1>10

\* Both stay within a byte: 283 takes the ninth bit off.
LEMMA GeneratorType ==
    ASSUME NEW x \in Byte
    PROVE  Doubled(x) \in Byte /\ TimesGenerator(x) \in Byte
<1> DEFINE d == 2 * x
<1>1. d \in Word /\ 283 \in Word /\ x \in Word /\ (d > 255 => Bit(d, 256) = 1) /\ Bit(283, 256) = 1
  BY DEF Byte, Word, Bit
<1>2. Doubled(x) = IF d > 255 THEN d ^^ 283 ELSE d
  BY DEF Doubled
<1> HIDE DEF d
<1>3. Doubled(x) \in Byte
  <2>1. CASE d > 255
    <3>1. d ^^ 283 \in Word
      BY <1>1, XorBits
    <3>2. 256 \in BitWeights
      BY DEF BitWeights
    <3>3. Bit(d ^^ 283, 256) = (Bit(d, 256) + Bit(283, 256)) % 2
      BY <1>1, <3>2, XorBits
    <3>4. Bit(d ^^ 283, 256) = 0
      BY <1>1, <2>1, <3>3
    <3> QED BY <1>2, <2>1, <3>1, <3>4 DEF Word, Byte, Bit
  <2>2. CASE ~(d > 255)
    BY <1>1, <1>2, <2>2 DEF Word, Byte
  <2> QED BY <2>1, <2>2
<1> QED BY <1>3, XorByte DEF TimesGenerator

\* Multiplying by the generator is linear, and takes only 0 to 0.
LEMMA GeneratorLinear ==
    ASSUME NEW a \in Byte, NEW b \in Byte
    PROVE  TimesGenerator(a ^^ b) = TimesGenerator(a) ^^ TimesGenerator(b)
<1> DEFINE c == Doubled(a)
           d == Doubled(b)
<1>1. c \in Byte /\ d \in Byte /\ a ^^ b \in Byte /\ c ^^ d \in Byte /\ c ^^ a \in Byte /\ d ^^ b \in Byte
  BY GeneratorType, XorByte
<1>2. /\ TimesGenerator(a ^^ b) = (c ^^ d) ^^ (a ^^ b)
      /\ TimesGenerator(a) = c ^^ a /\ TimesGenerator(b) = d ^^ b
  BY DoubledLinear DEF TimesGenerator
<1> HIDE DEF c, d
<1>3. (c ^^ d) ^^ (a ^^ b) = (c ^^ a) ^^ (d ^^ b)
  BY <1>1, XorExchanges
<1> QED BY <1>2, <1>3

\* 0 stays 0.
LEMMA GeneratorOfZero == TimesGenerator(0) = 0
  BY DEF TimesGenerator, Doubled, ^^, XorBit

-----------------------------------------------------------------------------
(* The tables *)

\* The generator's powers, written out: the first 255 entries of exp_table, in rows
\* of 17.
PowersOf3 ==
    << <<1, 3, 5, 15, 17, 51, 85, 255, 26, 46, 114, 150, 161, 248, 19, 53, 95>>,
       <<225, 56, 72, 216, 115, 149, 164, 247, 2, 6, 10, 30, 34, 102, 170, 229, 52>>,
       <<92, 228, 55, 89, 235, 38, 106, 190, 217, 112, 144, 171, 230, 49, 83, 245, 4>>,
       <<12, 20, 60, 68, 204, 79, 209, 104, 184, 211, 110, 178, 205, 76, 212, 103, 169>>,
       <<224, 59, 77, 215, 98, 166, 241, 8, 24, 40, 120, 136, 131, 158, 185, 208, 107>>,
       <<189, 220, 127, 129, 152, 179, 206, 73, 219, 118, 154, 181, 196, 87, 249, 16, 48>>,
       <<80, 240, 11, 29, 39, 105, 187, 214, 97, 163, 254, 25, 43, 125, 135, 146, 173>>,
       <<236, 47, 113, 147, 174, 233, 32, 96, 160, 251, 22, 58, 78, 210, 109, 183, 194>>,
       <<93, 231, 50, 86, 250, 21, 63, 65, 195, 94, 226, 61, 71, 201, 64, 192, 91>>,
       <<237, 44, 116, 156, 191, 218, 117, 159, 186, 213, 100, 172, 239, 42, 126, 130, 157>>,
       <<188, 223, 122, 142, 137, 128, 155, 182, 193, 88, 232, 35, 101, 175, 234, 37, 111>>,
       <<177, 200, 67, 197, 84, 252, 31, 33, 99, 165, 244, 7, 9, 27, 45, 119, 153>>,
       <<176, 203, 70, 202, 69, 207, 74, 222, 121, 139, 134, 145, 168, 227, 62, 66, 198>>,
       <<81, 243, 14, 18, 54, 90, 238, 41, 123, 141, 140, 143, 138, 133, 148, 167, 242>>,
       <<13, 23, 57, 75, 221, 124, 132, 151, 162, 253, 28, 36, 108, 180, 199, 82, 246>> >>

\* Each entry of a row is the one before it, times the generator.
Follows(row) == \A j \in 1..16 : TimesGenerator(row[j]) = row[j + 1]

\* Within the rows, each entry follows the one before.
LEMMA RowsFollow == \A r \in 1..15 : Follows(PowersOf3[r])
<1>1. ASSUME NEW row, row = PowersOf3[1] PROVE Follows(row)
  BY <1>1, SMTT(90) DEF TimesGenerator, Doubled, ^^, XorBit, PowersOf3, Follows
<1>2. ASSUME NEW row, row = PowersOf3[2] PROVE Follows(row)
  BY <1>2, SMTT(90) DEF TimesGenerator, Doubled, ^^, XorBit, PowersOf3, Follows
<1>3. ASSUME NEW row, row = PowersOf3[3] PROVE Follows(row)
  BY <1>3, SMTT(90) DEF TimesGenerator, Doubled, ^^, XorBit, PowersOf3, Follows
<1>4. ASSUME NEW row, row = PowersOf3[4] PROVE Follows(row)
  BY <1>4, SMTT(90) DEF TimesGenerator, Doubled, ^^, XorBit, PowersOf3, Follows
<1>5. ASSUME NEW row, row = PowersOf3[5] PROVE Follows(row)
  BY <1>5, SMTT(90) DEF TimesGenerator, Doubled, ^^, XorBit, PowersOf3, Follows
<1>6. ASSUME NEW row, row = PowersOf3[6] PROVE Follows(row)
  BY <1>6, SMTT(90) DEF TimesGenerator, Doubled, ^^, XorBit, PowersOf3, Follows
<1>7. ASSUME NEW row, row = PowersOf3[7] PROVE Follows(row)
  BY <1>7, SMTT(90) DEF TimesGenerator, Doubled, ^^, XorBit, PowersOf3, Follows
<1>8. ASSUME NEW row, row = PowersOf3[8] PROVE Follows(row)
  BY <1>8, SMTT(90) DEF TimesGenerator, Doubled, ^^, XorBit, PowersOf3, Follows
<1>9. ASSUME NEW row, row = PowersOf3[9] PROVE Follows(row)
  BY <1>9, SMTT(90) DEF TimesGenerator, Doubled, ^^, XorBit, PowersOf3, Follows
<1>10. ASSUME NEW row, row = PowersOf3[10] PROVE Follows(row)
  BY <1>10, SMTT(90) DEF TimesGenerator, Doubled, ^^, XorBit, PowersOf3, Follows
<1>11. ASSUME NEW row, row = PowersOf3[11] PROVE Follows(row)
  BY <1>11, SMTT(90) DEF TimesGenerator, Doubled, ^^, XorBit, PowersOf3, Follows
<1>12. ASSUME NEW row, row = PowersOf3[12] PROVE Follows(row)
  BY <1>12, SMTT(90) DEF TimesGenerator, Doubled, ^^, XorBit, PowersOf3, Follows
<1>13. ASSUME NEW row, row = PowersOf3[13] PROVE Follows(row)
  BY <1>13, SMTT(90) DEF TimesGenerator, Doubled, ^^, XorBit, PowersOf3, Follows
<1>14. ASSUME NEW row, row = PowersOf3[14] PROVE Follows(row)
  BY <1>14, SMTT(90) DEF TimesGenerator, Doubled, ^^, XorBit, PowersOf3, Follows
<1>15. ASSUME NEW row, row = PowersOf3[15] PROVE Follows(row)
  BY <1>15, SMTT(90) DEF TimesGenerator, Doubled, ^^, XorBit, PowersOf3, Follows
<1> QED BY <1>1, <1>2, <1>3, <1>4, <1>5, <1>6, <1>7, <1>8, <1>9, <1>10, <1>11, <1>12, <1>13, <1>14, <1>15

\* The first of a row follows the last of the row before; 1 follows the last of all.
LEMMA RowsJoin ==
    /\ \A r \in 1..14 : TimesGenerator(PowersOf3[r][17]) = PowersOf3[r + 1][1]
    /\ TimesGenerator(PowersOf3[15][17]) = 1
    /\ PowersOf3[1][1] = 1
<1>1. TimesGenerator(95) = 225 /\ TimesGenerator(52) = 92 /\ TimesGenerator(4) = 12
  BY DEF TimesGenerator, Doubled, ^^, XorBit
<1>2. TimesGenerator(169) = 224 /\ TimesGenerator(107) = 189 /\ TimesGenerator(48) = 80
  BY DEF TimesGenerator, Doubled, ^^, XorBit
<1>3. TimesGenerator(173) = 236 /\ TimesGenerator(194) = 93 /\ TimesGenerator(91) = 237
  BY DEF TimesGenerator, Doubled, ^^, XorBit
<1>4. TimesGenerator(157) = 188 /\ TimesGenerator(111) = 177 /\ TimesGenerator(153) = 176
  BY DEF TimesGenerator, Doubled, ^^, XorBit
<1>5. TimesGenerator(198) = 81 /\ TimesGenerator(242) = 13 /\ TimesGenerator(246) = 1
  BY DEF TimesGenerator, Doubled, ^^, XorBit
<1> QED BY <1>1, <1>2, <1>3, <1>4, <1>5 DEF PowersOf3

\* They are all the bytes but 0: 3 generates the field.
LEMMA PowersAreAll ==
    /\ \A r \in 1..15, j \in 1..17 : PowersOf3[r][j] \in 1..255
    /\ \A b \in 1..255 : \E r \in 1..15, j \in 1..17 : PowersOf3[r][j] = b
<1>1. \A r \in 1..15, j \in 1..17 : PowersOf3[r][j] \in 1..255
  BY SMTT(90) DEF PowersOf3
<1>2. \A b \in 1..255 : \E r \in 1..15, j \in 1..17 : PowersOf3[r][j] = b
  BY SMTT(90) DEF PowersOf3
<1> QED BY <1>1, <1>2

\* The i-th power.
Entry(i) == PowersOf3[(i \div 17) + 1][(i % 17) + 1]

\* No power is 0.
LEMMA EntryType == ASSUME NEW i \in 0..254 PROVE Entry(i) \in 1..255 /\ Entry(i) \in Byte
<1>1. (i \div 17) + 1 \in 1..15 /\ (i % 17) + 1 \in 1..17
  OBVIOUS
<1>2. Entry(i) \in 1..255
  BY <1>1, PowersAreAll DEF Entry
<1> QED BY <1>2 DEF Byte

\* The first power is 1, and so is the one that would be the 256th.
LEMMA EntryEnds == Entry(0) = 1 /\ TimesGenerator(Entry(254)) = 1
<1>1. 0 \div 17 = 0 /\ 0 % 17 = 0 /\ 254 \div 17 = 14 /\ 254 % 17 = 16
  OBVIOUS
<1>2. Entry(0) = PowersOf3[1][1] /\ Entry(254) = PowersOf3[15][17]
  BY <1>1 DEF Entry
<1> QED BY <1>2, RowsJoin

\* The entries follow each other, from row to row too.
LEMMA EntryFollows == ASSUME NEW i \in 0..253 PROVE TimesGenerator(Entry(i)) = Entry(i + 1)
<1> DEFINE r == (i \div 17) + 1
           j == (i % 17) + 1
<1>1. r \in 1..15 /\ j \in 1..17 /\ i = 17 * (r - 1) + (j - 1)
  OBVIOUS
<1>2. CASE j # 17
  <2>1. ((i + 1) \div 17) + 1 = r /\ ((i + 1) % 17) + 1 = j + 1
    BY <1>1, <1>2
  <2>2. Entry(i) = PowersOf3[r][j] /\ Entry(i + 1) = PowersOf3[r][j + 1]
    BY <2>1 DEF Entry
  <2>3. j \in 1..16
    BY <1>1, <1>2
  <2> HIDE DEF r, j
  <2> QED BY <1>1, <2>2, <2>3, RowsFollow DEF Follows
<1>3. CASE j = 17
  <2>1. ((i + 1) \div 17) + 1 = r + 1 /\ ((i + 1) % 17) + 1 = 1 /\ r \in 1..14
    BY <1>1, <1>3
  <2>2. Entry(i) = PowersOf3[r][17] /\ Entry(i + 1) = PowersOf3[r + 1][1]
    BY <1>3, <2>1 DEF Entry
  <2> HIDE DEF r, j
  <2> QED BY <2>1, <2>2, RowsJoin
<1> QED BY <1>2, <1>3

\* Each byte but 0 is a power.
LEMMA EntryExists == ASSUME NEW b \in 1..255 PROVE \E i \in 0..254 : Entry(i) = b
<1>1. PICK r \in 1..15, j \in 1..17 : PowersOf3[r][j] = b
  BY PowersAreAll
<1>2. PICK i : i = 17 * (r - 1) + (j - 1)
  OBVIOUS
<1>3. i \in 0..254 /\ (i \div 17) + 1 = r /\ (i % 17) + 1 = j
  BY <1>2
<1>4. Entry(i) = b
  BY <1>1, <1>3 DEF Entry
<1> QED BY <1>3, <1>4

-----------------------------------------------------------------------------
(* Induction over a number, with a set for the predicate *)

\* A set of naturals has a least element.
LEMMA LeastNumber ==
    ASSUME NEW S, S \subseteq Nat, S # {}
    PROVE  \E m \in S : \A k \in S : m <= k
<1> DEFINE R == {ss \in Nat \X Nat : ss[1] < ss[2]}
<1>1. IsWellFoundedOn(R, Nat)
  BY NatLessThanWellFounded DEF OpToRel
<1>2. \A x, y \in Nat : x < y => <<x, y>> \in R
  OBVIOUS
<1> HIDE DEF R
<1>3. PICK x \in S : \A y \in S : ~ (<<y, x>> \in R)
  BY <1>1, WFMin
<1>4. \A y \in S : ~(y < x)
  BY <1>2, <1>3
<1>5. \A y \in S : x <= y
  BY <1>4
<1> QED BY <1>5

\* What holds at 0, and at k + 1 where it holds at k, holds up to n.
LEMMA UpTo ==
    ASSUME NEW S, NEW n \in Nat, 0 \in S, \A k \in 0..(n - 1) : k \in S => k + 1 \in S
    PROVE  \A k \in 0..n : k \in S
<1> DEFINE T == {k \in 0..n : k \notin S}
<1> SUFFICES ASSUME T # {} PROVE FALSE
  OBVIOUS
<1>1. PICK m \in T : \A k \in T : m <= k
  <2>1. T \subseteq Nat
    OBVIOUS
  <2> HIDE DEF T
  <2> QED BY <2>1, LeastNumber
<1>2. m # 0 /\ m \in 0..n /\ m \notin S
  OBVIOUS
<1>3. m - 1 \in 0..(n - 1) /\ m - 1 \notin T
  BY <1>1, <1>2
<1>4. (m - 1) + 1 \in S
  BY <1>3
<1> QED BY <1>2, <1>4

-----------------------------------------------------------------------------
(* The tables, and the powers written out *)

\* Power, which is defined by itself, is Entry.
LEMMA PowerIsEntry == \A i \in 0..254 : Power[i] = Entry(i)
<1> DEFINE F(g) == g = [i \in 0..254 |-> IF i = 0 THEN 1 ELSE Times3[g[i - 1]]]
           h == [i \in 0..254 |-> Entry(i)]
<1>1. F(h)
  <2>1. ASSUME NEW i \in 0..254 PROVE Entry(i) = IF i = 0 THEN 1 ELSE Times3[h[i - 1]]
    <3>1. CASE i = 0
      BY <3>1, EntryEnds
    <3>2. CASE i # 0
      <4>1. i - 1 \in 0..253 /\ i - 1 \in 0..254 /\ (i - 1) + 1 = i
        BY <3>2
      <4>2. h[i - 1] = Entry(i - 1) /\ Entry(i - 1) \in Byte
        BY <4>1, EntryType
      <4>3. Times3[h[i - 1]] = TimesGenerator(Entry(i - 1))
        BY <4>2 DEF Times3
      <4> HIDE DEF h
      <4> QED BY <3>2, <4>1, <4>3, EntryFollows
    <3> QED BY <3>1, <3>2
  <2> QED BY <2>1
<1>2. F(CHOOSE g : F(g))
  <2> HIDE DEF F, h
  <2> QED BY <1>1
<1>3. Power = CHOOSE g : F(g)
  BY DEF Power
<1> HIDE DEF F
<1>4. F(Power)
  BY <1>2, <1>3
<1>5. Power = [i \in 0..254 |-> IF i = 0 THEN 1 ELSE Times3[Power[i - 1]]]
  BY <1>4 DEF F
<1> DEFINE S == {i \in 0..254 : Power[i] = Entry(i)}
<1>6. 0 \in S
  BY <1>5, EntryEnds
<1>7. ASSUME NEW k \in 0..(254 - 1), k \in S PROVE k + 1 \in S
  <2>1. k + 1 \in 0..254 /\ k + 1 # 0 /\ (k + 1) - 1 = k /\ k \in 0..253 /\ k \in 0..254
    OBVIOUS
  <2>2. Power[k + 1] = Times3[Power[k]]
    BY <1>5, <2>1
  <2>3. Power[k] = Entry(k) /\ Entry(k) \in Byte
    BY <1>7, <2>1, EntryType
  <2>4. Times3[Entry(k)] = TimesGenerator(Entry(k))
    BY <2>3 DEF Times3
  <2> QED BY <2>1, <2>2, <2>3, <2>4, EntryFollows
<1>8. \A k \in 0..254 : k \in S
  <2> HIDE DEF S
  <2> QED BY <1>6, <1>7, UpTo
<1> QED BY <1>8

\* exp_table: from 1 on, each entry is the one before it times the generator, past
\* the 255th too.
LEMMA ExpFollows ==
    /\ exp_table[0] = 1 /\ exp_table[255] = 1
    /\ \A i \in 0..509 : exp_table[i] \in 1..255
    /\ \A i \in 0..508 : exp_table[i + 1] = TimesGenerator(exp_table[i])
<1>1. \A i \in 0..509 : i % 255 \in 0..254 /\ exp_table[i] = Entry(i % 255)
  BY PowerIsEntry DEF exp_table
<1>2. exp_table[0] = 1 /\ exp_table[255] = 1
  <2>1. 0 % 255 = 0 /\ 255 % 255 = 0
    OBVIOUS
  <2> QED BY <1>1, <2>1, EntryEnds
<1>3. ASSUME NEW i \in 0..509 PROVE exp_table[i] \in 1..255
  <2>1. PICK e \in 0..254 : exp_table[i] = Entry(e)
    BY <1>1, ZenonT(40)
  <2>2. Entry(e) \in 1..255
    BY EntryType
  <2> QED BY <2>1, <2>2
<1>4. ASSUME NEW i \in 0..508 PROVE exp_table[i + 1] = TimesGenerator(exp_table[i])
  <2>1. exp_table[i] = Entry(i % 255) /\ exp_table[i + 1] = Entry((i + 1) % 255)
    <3>1. i \in 0..509 /\ i + 1 \in 0..509
      OBVIOUS
    <3> QED BY <1>1, <3>1, ZenonT(40)
  <2>2. CASE i % 255 = 254
    <3>1. (i + 1) % 255 = 0
      BY <2>2
    <3> QED BY <2>1, <2>2, <3>1, EntryEnds
  <2>3. CASE i % 255 # 254
    <3>1. (i + 1) % 255 = (i % 255) + 1 /\ i % 255 \in 0..253
      BY <2>3
    <3> QED BY <2>1, <3>1, EntryFollows
  <2> QED BY <2>2, <2>3
<1> QED BY <1>2, <1>3, <1>4

\* A set of naturals that stays below n + 1 has a greatest element, and Max takes it.
LEMMA MaxIsGreatest ==
    ASSUME NEW n \in Nat, NEW S, S \subseteq 0..n, S # {}
    PROVE  Max(S) \in S /\ \A k \in S : k <= Max(S)
<1> DEFINE T == {k \in 0..n : n - k \in S}
<1>1. T \subseteq Nat /\ T # {}
  <2>1. PICK s : s \in S
    OBVIOUS
  <2>2. n - s \in 0..n /\ n - (n - s) = s
    BY <2>1
  <2>3. n - s \in T
    BY <2>1, <2>2
  <2> QED BY <2>3
<1>2. PICK m \in T : \A k \in T : m <= k
  <2> HIDE DEF T
  <2> QED BY <1>1, LeastNumber
<1>3. n - m \in S /\ m \in 0..n
  BY <1>2
<1>4. ASSUME NEW k \in S PROVE n - m >= k
  <2>1. n - k \in 0..n /\ n - (n - k) = k
    OBVIOUS
  <2>2. n - k \in T
    BY <2>1
  <2>3. m <= n - k
    BY <1>2, <2>2
  <2> QED BY <1>3, <2>1, <2>3
<1>5. \E x \in S : \A y \in S : x >= y
  BY <1>3, <1>4
<1>6. Max(S) \in S /\ \A y \in S : Max(S) >= y
  BY <1>5 DEF Max
<1> QED BY <1>6

\* log_table undoes exp_table.
LEMMA LogInverts ==
    ASSUME NEW a \in 1..255
    PROVE  log_table[a] \in 0..254 /\ exp_table[log_table[a]] = a
<1> DEFINE S == {i \in 0..254 : exp_table[i] = a}
<1>1. a \in Byte
  BY DEF Byte
<1>2. log_table[a] = Max({0} \cup S)
  BY <1>1 DEF log_table
<1>3. \A i \in 0..254 : exp_table[i] = Entry(i)
  <2>1. \A i \in 0..254 : i % 255 = i /\ i \in 0..509
    OBVIOUS
  <2> QED BY <2>1, PowerIsEntry DEF exp_table
<1>4. PICK j \in 0..254 : Entry(j) = a
  BY EntryExists
<1>5. j \in S
  BY <1>3, <1>4
<1>7. S \subseteq 0..254 /\ \A i \in S : exp_table[i] = a
  OBVIOUS
<1> DEFINE U == {0} \cup S
           m == Max(U)
<1>6. U \subseteq 0..254 /\ U # {}
  OBVIOUS
<1>8. m \in U /\ \A k \in U : k <= m
  <2> HIDE DEF U
  <2>1. \A V : V \subseteq 0..254 /\ V # {} => Max(V) \in V /\ \A k \in V : Max(V) >= k
    <3>1. 254 \in Nat
      OBVIOUS
    <3> QED BY <3>1, MaxIsGreatest, Zenon
  <2>2. m \in U /\ \A k \in U : m >= k
    BY <1>6, <2>1, Zenon
  <2> HIDE DEF m
  <2>3. m \in 0..254 /\ \A k \in U : k \in 0..254
    BY <1>6, <2>2
  <2> QED BY <2>2, <2>3
<1> HIDE DEF S
<1>9. m \in S
  <2>1. j <= m /\ j \in 0..254
    BY <1>5, <1>8
  <2> HIDE DEF m
  <2> QED BY <1>5, <1>8, <2>1
<1> QED BY <1>2, <1>7, <1>9

-----------------------------------------------------------------------------
(* Multiplication *)

\* a times the j-th power of the generator, by the tables.
TimesPower(a, j) == IF a = 0 THEN 0 ELSE exp_table[log_table[a] + j]

\* Multiplying by the next power is multiplying once more by the generator.
LEMMA TimesPowerSteps ==
    ASSUME NEW a \in Byte
    PROVE  /\ TimesPower(a, 0) = a
           /\ \A j \in 0..255 : TimesPower(a, j) \in Byte /\ (a # 0 => TimesPower(a, j) # 0)
           /\ \A j \in 0..254 : TimesPower(a, j + 1) = TimesGenerator(TimesPower(a, j))
<1>1. CASE a = 0
  BY <1>1, GeneratorOfZero DEF TimesPower, Byte
<1>2. CASE a # 0
  <2>1. PICK l \in 0..254 : l = log_table[a] /\ exp_table[l] = a
    <3>1. a \in 1..255
      BY <1>2 DEF Byte
    <3> QED BY <3>1, LogInverts
  <2>2. \A j \in 0..255 : TimesPower(a, j) = exp_table[l + j]
    BY <1>2, <2>1 DEF TimesPower
  <2>3. TimesPower(a, 0) = a
    <3>1. l + 0 = l
      OBVIOUS
    <3> QED BY <2>1, <2>2, <3>1
  <2>4. ASSUME NEW j \in 0..255 PROVE TimesPower(a, j) \in Byte /\ TimesPower(a, j) # 0
    <3>1. PICK i \in 0..509 : i = l + j
      OBVIOUS
    <3>2. exp_table[i] \in 1..255
      BY ExpFollows
    <3>3. TimesPower(a, j) = exp_table[i]
      BY <2>2, <3>1
    <3> QED BY <3>2, <3>3 DEF Byte
  <2>5. ASSUME NEW j \in 0..254 PROVE TimesPower(a, j + 1) = TimesGenerator(TimesPower(a, j))
    <3>1. PICK i \in 0..508 : i = l + j
      OBVIOUS
    <3>2. exp_table[i + 1] = TimesGenerator(exp_table[i])
      BY ExpFollows
    <3>3. j + 1 \in 0..255 /\ j \in 0..255 /\ l + (j + 1) = i + 1
      BY <3>1
    <3>4. TimesPower(a, j) = exp_table[i] /\ TimesPower(a, j + 1) = exp_table[i + 1]
      BY <2>2, <3>1, <3>3
    <3> QED BY <3>2, <3>4
  <2> QED BY <2>3, <2>4, <2>5
<1> QED BY <1>1, <1>2

\* It is linear, as the generator is.
LEMMA TimesPowerLinear ==
    ASSUME NEW a \in Byte, NEW b \in Byte
    PROVE  \A j \in 0..255 : TimesPower(a ^^ b, j) = TimesPower(a, j) ^^ TimesPower(b, j)
<1> DEFINE S == {j \in 0..255 : TimesPower(a ^^ b, j) = TimesPower(a, j) ^^ TimesPower(b, j)}
<1>1. a ^^ b \in Byte
  BY XorByte
<1>2. 0 \in S
  BY <1>1, TimesPowerSteps
<1>3. ASSUME NEW k \in 0..(255 - 1), k \in S PROVE k + 1 \in S
  <2>1. k \in 0..254 /\ k \in 0..255 /\ k + 1 \in 0..255
    OBVIOUS
  <2>2. /\ TimesPower(a, k + 1) = TimesGenerator(TimesPower(a, k))
        /\ TimesPower(b, k + 1) = TimesGenerator(TimesPower(b, k))
        /\ TimesPower(a ^^ b, k + 1) = TimesGenerator(TimesPower(a ^^ b, k))
    BY <1>1, <2>1, TimesPowerSteps, ZenonT(40)
  <2>3. TimesPower(a, k) \in Byte /\ TimesPower(b, k) \in Byte
    BY <2>1, TimesPowerSteps
  <2>4. TimesPower(a ^^ b, k) = TimesPower(a, k) ^^ TimesPower(b, k)
    BY <1>3
  <2>5. TimesPower(a ^^ b, k + 1) = TimesPower(a, k + 1) ^^ TimesPower(b, k + 1)
    BY <2>2, <2>3, <2>4, GeneratorLinear
  <2> QED BY <2>1, <2>5
<1>4. \A k \in 0..255 : k \in S
  <2> HIDE DEF S
  <2> QED BY <1>2, <1>3, UpTo
<1> QED BY <1>4

\* The generator may be multiplied by first or last.
LEMMA GeneratorCommutes ==
    ASSUME NEW a \in Byte
    PROVE  \A j \in 0..255 : TimesPower(TimesGenerator(a), j) = TimesGenerator(TimesPower(a, j))
<1> DEFINE S == {j \in 0..255 : TimesPower(TimesGenerator(a), j) = TimesGenerator(TimesPower(a, j))}
<1>1. TimesGenerator(a) \in Byte
  BY GeneratorType
<1>2. 0 \in S
  BY <1>1, TimesPowerSteps
<1>3. ASSUME NEW k \in 0..(255 - 1), k \in S PROVE k + 1 \in S
  <2>1. k \in 0..254 /\ k + 1 \in 0..255
    OBVIOUS
  <2>2. /\ TimesPower(TimesGenerator(a), k + 1) = TimesGenerator(TimesPower(TimesGenerator(a), k))
        /\ TimesPower(a, k + 1) = TimesGenerator(TimesPower(a, k))
    BY <1>1, <2>1, TimesPowerSteps
  <2> QED BY <1>3, <2>1, <2>2
<1>4. \A k \in 0..255 : k \in S
  <2> HIDE DEF S
  <2> QED BY <1>2, <1>3, UpTo
<1> QED BY <1>4

\* So may any two of its powers.
LEMMA PowersCommute ==
    ASSUME NEW a \in Byte, NEW j \in 0..255
    PROVE  \A k \in 0..255 : TimesPower(TimesPower(a, j), k) = TimesPower(TimesPower(a, k), j)
<1> DEFINE S == {k \in 0..255 : TimesPower(TimesPower(a, j), k) = TimesPower(TimesPower(a, k), j)}
<1>1. TimesPower(a, j) \in Byte /\ TimesPower(a, 0) = a
  BY TimesPowerSteps
<1>2. 0 \in S
  BY <1>1, TimesPowerSteps
<1>3. ASSUME NEW k \in 0..(255 - 1), k \in S PROVE k + 1 \in S
  <2>1. k \in 0..254 /\ k \in 0..255 /\ k + 1 \in 0..255
    OBVIOUS
  <2>2. TimesPower(a, k) \in Byte
    BY <2>1, TimesPowerSteps
  <2>3. TimesPower(TimesPower(a, j), k + 1) = TimesGenerator(TimesPower(TimesPower(a, j), k))
    BY <1>1, <2>1, TimesPowerSteps
  <2>4. TimesPower(TimesPower(a, k + 1), j) = TimesPower(TimesGenerator(TimesPower(a, k)), j)
    BY <2>1, TimesPowerSteps
  <2>5. TimesPower(TimesGenerator(TimesPower(a, k)), j) = TimesGenerator(TimesPower(TimesPower(a, k), j))
    BY <2>2, GeneratorCommutes
  <2> QED BY <1>3, <2>1, <2>3, <2>4, <2>5
<1>4. \A k \in 0..255 : k \in S
  <2> HIDE DEF S
  <2> QED BY <1>2, <1>3, UpTo
<1> QED BY <1>4

\* Exponents add up.
LEMMA ExponentsAdd ==
    ASSUME NEW i \in 0..255
    PROVE  \A j \in 0..254 : TimesPower(exp_table[i], j) = exp_table[i + j]
<1> DEFINE S == {j \in 0..254 : TimesPower(exp_table[i], j) = exp_table[i + j]}
<1>1. exp_table[i] \in Byte
  <2>1. i \in 0..509
    OBVIOUS
  <2>2. exp_table[i] \in 1..255
    BY <2>1, ExpFollows
  <2> QED BY <2>2 DEF Byte
<1>2. 0 \in S
  <2>1. i + 0 = i
    OBVIOUS
  <2> QED BY <1>1, <2>1, TimesPowerSteps
<1>3. ASSUME NEW k \in 0..(254 - 1), k \in S PROVE k + 1 \in S
  <2>1. PICK n \in 0..508 : n = i + k
    OBVIOUS
  <2>2. k \in 0..254 /\ k + 1 \in 0..254 /\ i + (k + 1) = n + 1
    BY <2>1
  <2>3. TimesPower(exp_table[i], k + 1) = TimesGenerator(TimesPower(exp_table[i], k))
    BY <1>1, <2>2, TimesPowerSteps, ZenonT(40)
  <2>4. exp_table[n + 1] = TimesGenerator(exp_table[n])
    BY ExpFollows
  <2>5. TimesPower(exp_table[i], k) = exp_table[n]
    BY <1>3, <2>1
  <2>6. TimesPower(exp_table[i], k + 1) = exp_table[i + (k + 1)]
    BY <2>2, <2>3, <2>4, <2>5
  <2> QED BY <2>2, <2>6
<1>4. \A k \in 0..254 : k \in S
  <2> HIDE DEF S
  <2> QED BY <1>2, <1>3, UpTo
<1> QED BY <1>4

-----------------------------------------------------------------------------
(* The field *)

\* gf_mul multiplies by the power that its second operand is.
LEMMA MulIsTimesPower ==
    ASSUME NEW b \in Byte, b # 0
    PROVE  \E j \in 0..254 :
              /\ j = log_table[b] /\ exp_table[j] = b
              /\ \A c \in Byte : gf_mul(c, b) = TimesPower(c, j)
<1>1. b \in 1..255
  BY DEF Byte
<1>2. PICK j \in 0..254 : j = log_table[b] /\ exp_table[j] = b
  BY <1>1, LogInverts
<1>3. \A c \in Byte : gf_mul(c, b) = TimesPower(c, j)
  BY <1>2 DEF gf_mul, TimesPower
<1> QED BY <1>2, <1>3

\* A product of bytes is a byte, and 0 only if one of them is.
LEMMA MulType ==
    ASSUME NEW a \in Byte, NEW b \in Byte
    PROVE  /\ gf_mul(a, b) \in Byte
           /\ gf_mul(a, 0) = 0 /\ gf_mul(0, b) = 0
           /\ a # 0 /\ b # 0 => gf_mul(a, b) # 0
<1>1. gf_mul(a, 0) = 0 /\ gf_mul(0, b) = 0 /\ 0 \in Byte
  BY DEF gf_mul, Byte
<1>2. CASE b = 0
  BY <1>1, <1>2
<1>3. CASE b # 0
  <2>1. PICK j \in 0..254 : \A c \in Byte : gf_mul(c, b) = TimesPower(c, j)
    BY <1>3, MulIsTimesPower, ZenonT(40)
  <2>2. j \in 0..255
    OBVIOUS
  <2>3. TimesPower(a, j) \in Byte /\ (a # 0 => TimesPower(a, j) # 0)
    BY <2>2, TimesPowerSteps
  <2> QED BY <1>1, <2>1, <2>3
<1> QED BY <1>2, <1>3

\* The operands may change places: their logarithms are added.
LEMMA MulCommutes ==
    ASSUME NEW a \in Byte, NEW b \in Byte
    PROVE  gf_mul(a, b) = gf_mul(b, a)
<1>1. CASE a = 0 \/ b = 0
  BY <1>1 DEF gf_mul
<1>2. CASE a # 0 /\ b # 0
  <2>1. PICK i \in 0..254 : i = log_table[a]
    BY <1>2, MulIsTimesPower
  <2>2. PICK j \in 0..254 : j = log_table[b]
    BY <1>2, MulIsTimesPower
  <2>3. i + j = j + i
    OBVIOUS
  <2> QED BY <1>2, <2>1, <2>2, <2>3 DEF gf_mul
<1> QED BY <1>1, <1>2

\* A product with a sum is the sum of the products.
LEMMA MulDistributes ==
    ASSUME NEW a \in Byte, NEW b \in Byte, NEW c \in Byte
    PROVE  /\ gf_mul(a ^^ b, c) = gf_mul(a, c) ^^ gf_mul(b, c)
           /\ gf_mul(c, a ^^ b) = gf_mul(c, a) ^^ gf_mul(c, b)
<1>1. a ^^ b \in Byte
  BY XorByte
<1>2. gf_mul(a ^^ b, c) = gf_mul(a, c) ^^ gf_mul(b, c)
  <2>1. CASE c = 0
    <3>1. 0 \in Byte
      BY DEF Byte
    <3>2. 0 ^^ 0 = 0
      BY <3>1, XorLaws
    <3> QED BY <1>1, <2>1, <3>2, MulType
  <2>2. CASE c # 0
    <3>1. PICK j \in 0..254 : \A d \in Byte : gf_mul(d, c) = TimesPower(d, j)
      BY <2>2, MulIsTimesPower, ZenonT(40)
    <3>2. j \in 0..255
      OBVIOUS
    <3>3. TimesPower(a ^^ b, j) = TimesPower(a, j) ^^ TimesPower(b, j)
      BY <3>2, TimesPowerLinear
    <3> QED BY <1>1, <3>1, <3>3
  <2> QED BY <2>1, <2>2
<1>3. gf_mul(c, a ^^ b) = gf_mul(c, a) ^^ gf_mul(c, b)
  <2>1. gf_mul(c, a ^^ b) = gf_mul(a ^^ b, c) /\ gf_mul(c, a) = gf_mul(a, c) /\ gf_mul(c, b) = gf_mul(b, c)
    BY <1>1, MulCommutes
  <2> QED BY <1>2, <2>1
<1> QED BY <1>2, <1>3

\* In a product of three the factors may be taken in any order.
LEMMA MulExchanges ==
    ASSUME NEW a \in Byte, NEW b \in Byte, NEW c \in Byte
    PROVE  gf_mul(gf_mul(a, b), c) = gf_mul(gf_mul(a, c), b)
<1>1. gf_mul(a, b) \in Byte /\ gf_mul(a, c) \in Byte
  BY MulType
<1>2. CASE b = 0 \/ c = 0
  BY <1>1, <1>2, MulType
<1>3. CASE b # 0 /\ c # 0
  <2>1. PICK j \in 0..254 : \A d \in Byte : gf_mul(d, b) = TimesPower(d, j)
    BY <1>3, MulIsTimesPower, ZenonT(40)
  <2>2. PICK k \in 0..254 : \A d \in Byte : gf_mul(d, c) = TimesPower(d, k)
    BY <1>3, MulIsTimesPower, ZenonT(40)
  <2>3. j \in 0..255 /\ k \in 0..255
    OBVIOUS
  <2>4. TimesPower(TimesPower(a, j), k) = TimesPower(TimesPower(a, k), j)
    BY <2>3, PowersCommute, ZenonT(40)
  <2> QED BY <1>1, <2>1, <2>2, <2>4
<1> QED BY <1>2, <1>3

\* Products of three do not depend on the brackets.
LEMMA MulAssociates ==
    ASSUME NEW a \in Byte, NEW b \in Byte, NEW c \in Byte
    PROVE  gf_mul(gf_mul(a, b), c) = gf_mul(a, gf_mul(b, c))
<1>1. gf_mul(b, c) \in Byte /\ gf_mul(b, a) \in Byte
  BY MulType
<1>2. gf_mul(a, gf_mul(b, c)) = gf_mul(gf_mul(b, c), a)
  BY <1>1, MulCommutes
<1>3. gf_mul(gf_mul(b, c), a) = gf_mul(gf_mul(b, a), c)
  BY MulExchanges
<1>4. gf_mul(b, a) = gf_mul(a, b)
  BY MulCommutes
<1> QED BY <1>2, <1>3, <1>4

\* 1 changes nothing.
LEMMA MulOne == ASSUME NEW a \in Byte PROVE gf_mul(a, 1) = a /\ gf_mul(1, a) = a
<1>1. 1 \in Byte
  BY DEF Byte
<1>2. gf_mul(1, a) = a
  <2>1. CASE a = 0
    BY <1>1, <2>1, MulType
  <2>2. CASE a # 0
    <3>1. PICK j \in 0..254 : exp_table[j] = a /\ \A c \in Byte : gf_mul(c, a) = TimesPower(c, j)
      BY <2>2, MulIsTimesPower, ZenonT(40)
    <3>2. 0 \in 0..255 /\ 0 + j = j
      OBVIOUS
    <3>3. TimesPower(exp_table[0], j) = exp_table[0 + j]
      BY <3>2, ExponentsAdd
    <3> QED BY <1>1, <3>1, <3>2, <3>3, ExpFollows
  <2> QED BY <2>1, <2>2
<1> QED BY <1>1, <1>2, MulCommutes

\* gf_inv gives the inverse of every byte but 0.
LEMMA InvIsInverse ==
    ASSUME NEW a \in Byte, a # 0
    PROVE  gf_inv(a) \in Byte /\ gf_inv(a) # 0 /\ gf_mul(gf_inv(a), a) = 1
<1>1. PICK j \in 0..254 :
         /\ j = log_table[a]
         /\ \A c \in Byte : gf_mul(c, a) = TimesPower(c, j)
  BY MulIsTimesPower, ZenonT(40)
<1>2. PICK i \in 0..255 : i = 255 - j
  OBVIOUS
<1>3. gf_inv(a) = exp_table[i]
  BY <1>1, <1>2 DEF gf_inv
<1>4. exp_table[i] \in Byte /\ exp_table[i] # 0
  <2>1. i \in 0..509
    OBVIOUS
  <2>2. exp_table[i] \in 1..255
    BY <2>1, ExpFollows
  <2> QED BY <2>2 DEF Byte
<1>5. TimesPower(exp_table[i], j) = 1
  <2>1. i + j = 255
    BY <1>2
  <2>2. TimesPower(exp_table[i], j) = exp_table[i + j]
    BY ExponentsAdd
  <2> QED BY <2>1, <2>2, ExpFollows
<1> QED BY <1>1, <1>3, <1>4, <1>5

\* Multiplying and dividing by the same byte undo each other.
LEMMA DivUndoes ==
    ASSUME NEW a \in Byte, NEW b \in Byte, b # 0
    PROVE  /\ gf_div(a, b) \in Byte /\ (a # 0 => gf_div(a, b) # 0)
           /\ gf_div(a, b) = gf_mul(a, gf_inv(b))
           /\ gf_div(gf_mul(a, b), b) = a
           /\ gf_mul(gf_div(a, b), b) = a
<1>1. gf_inv(b) \in Byte /\ gf_inv(b) # 0 /\ gf_mul(gf_inv(b), b) = 1
  BY InvIsInverse
<1>2. \A c \in Byte : gf_div(c, b) = gf_mul(c, gf_inv(b))
  BY <1>1, MulType DEF gf_div
<1>3. gf_div(a, b) \in Byte /\ (a # 0 => gf_div(a, b) # 0)
  BY <1>1, <1>2, MulType
<1>4. gf_mul(gf_mul(a, gf_inv(b)), b) = a
  <2>1. gf_mul(gf_mul(a, gf_inv(b)), b) = gf_mul(a, gf_mul(gf_inv(b), b))
    BY <1>1, MulAssociates
  <2> QED BY <1>1, <2>1, MulOne
<1>5. gf_mul(gf_mul(a, b), gf_inv(b)) = a
  BY <1>1, <1>4, MulExchanges
<1>6. gf_mul(a, b) \in Byte
  BY MulType
<1> QED BY <1>2, <1>3, <1>4, <1>5, <1>6

-----------------------------------------------------------------------------
(* Long multiplication *)

\* A doubled factor doubles the product.
LEMMA MulDoubled ==
    ASSUME NEW a \in Byte, NEW c \in Byte
    PROVE  gf_mul(a, Doubled(c)) = Doubled(gf_mul(a, c))
<1>1. ASSUME NEW x \in Byte PROVE Doubled(x) \in Byte /\ TimesGenerator(x) \in Byte /\ Doubled(x) = TimesGenerator(x) ^^ x
  <2>1. Doubled(x) \in Byte /\ TimesGenerator(x) \in Byte
    BY GeneratorType
  <2>2. (Doubled(x) ^^ x) ^^ x = Doubled(x)
    BY <2>1, XorCancel
  <2> QED BY <2>1, <2>2 DEF TimesGenerator
<1>2. gf_mul(a, c) \in Byte
  BY MulType
<1>3. gf_mul(a, TimesGenerator(c)) = TimesGenerator(gf_mul(a, c))
  <2>1. CASE a = 0
    <3>1. TimesGenerator(c) \in Byte
      BY <1>1
    <3> QED BY <2>1, <3>1, MulType, GeneratorOfZero
  <2>2. CASE a # 0
    <3>1. PICK j \in 0..254 : \A d \in Byte : gf_mul(d, a) = TimesPower(d, j)
      BY <2>2, MulIsTimesPower, ZenonT(40)
    <3>2. j \in 0..255
      OBVIOUS
    <3>3. TimesPower(TimesGenerator(c), j) = TimesGenerator(TimesPower(c, j))
      BY <3>2, GeneratorCommutes
    <3>4. gf_mul(TimesGenerator(c), a) = TimesGenerator(gf_mul(c, a))
      BY <1>1, <3>1, <3>3
    <3> QED BY <1>1, <3>4, MulCommutes
  <2> QED BY <2>1, <2>2
<1>4. gf_mul(a, TimesGenerator(c) ^^ c) = gf_mul(a, TimesGenerator(c)) ^^ gf_mul(a, c)
  BY <1>1, MulDistributes
<1> QED BY <1>1, <1>2, <1>3, <1>4

\* To an even number a bit is added by an exclusive or.
LEMMA EvenXorBit ==
    ASSUME NEW m \in 0..127, NEW t \in 0..1
    PROVE  (2 * m) ^^ t = 2 * m + t
<1> DEFINE n == 2 * m
           s == 2 * m + t
<1>1. n \in Word /\ t \in Word /\ s \in Word
  BY DEF Word
<1>2. Bit(n, 1) = 0 /\ Bit(t, 1) = t /\ \A w \in BitWeights : w # 1 => Bit(t, w) = 0
  BY DEF Bit, BitWeights
<1>3. \A w \in BitWeights : Bit(n, w) \in 0..1
  BY <1>1, BitType DEF Word
<1>8. n + t = s
  OBVIOUS
<1> HIDE DEF n, s
<1>9. s = 1 * t + 2 * Bit(n, 2) + 4 * Bit(n, 4) + 8 * Bit(n, 8) + 16 * Bit(n, 16)
              + 32 * Bit(n, 32) + 64 * Bit(n, 64) + 128 * Bit(n, 128) + 256 * Bit(n, 256)
  <2>1. n = 1 * 0 + 2 * Bit(n, 2) + 4 * Bit(n, 4) + 8 * Bit(n, 8) + 16 * Bit(n, 16)
              + 32 * Bit(n, 32) + 64 * Bit(n, 64) + 128 * Bit(n, 128) + 256 * Bit(n, 256)
    BY <1>1, <1>2, SumOfBits
  <2> QED BY <1>3, <1>8, <2>1 DEF BitWeights
<1>10. Bit(s, 1) = t /\ \A w \in BitWeights : w # 1 => Bit(s, w) = Bit(n, w)
  BY <1>3, <1>9, BitsOfSum DEF BitWeights
<1>4. \A w \in BitWeights : Bit(n ^^ t, w) = (Bit(n, w) + Bit(t, w)) % 2
  BY <1>1, XorBits
<1>5. \A w \in BitWeights : Bit(n ^^ t, w) = Bit(s, w)
  BY <1>2, <1>3, <1>4, <1>10
<1>6. n ^^ t \in Word
  BY <1>1, XorBits
<1>7. n ^^ t = s
  BY <1>1, <1>5, <1>6, SameBits
<1> QED BY <1>7 DEF n, s

\* The number that b's k highest bits are.
Highest(b, k) == IF k = 0 THEN 0 ELSE b \div Weights[k]

\* Each bit doubles what the ones before it are, and is added.
LEMMA HighestSteps ==
    ASSUME NEW b \in Byte
    PROVE  /\ Highest(b, 0) = 0 /\ Highest(b, 8) = b
           /\ \A k \in 0..8 : Highest(b, k) \in Byte
           /\ \A k \in 1..8 : /\ (b \div Weights[k]) % 2 \in 0..1
                              /\ Highest(b, k) = Doubled(Highest(b, k - 1)) ^^ ((b \div Weights[k]) % 2)
<1>1. Highest(b, 0) = 0 /\ Highest(b, 8) = b
  BY DEF Highest, Weights, Byte
<1>2. \A k \in 1..8 : Weights[k] \in {1, 2, 4, 8, 16, 32, 64, 128}
  BY DEF Weights
<1>3. ASSUME NEW k \in 0..8 PROVE Highest(b, k) \in Byte
  <2>1. \A w \in {1, 2, 4, 8, 16, 32, 64, 128} : b \div w \in Byte
    BY DEF Byte
  <2>2. CASE k = 0
    BY <2>2 DEF Highest, Byte
  <2>3. CASE k # 0
    <3>1. Weights[k] \in {1, 2, 4, 8, 16, 32, 64, 128}
      BY <1>2, <2>3
    <3>2. Highest(b, k) = b \div Weights[k]
      BY <2>3 DEF Highest
    <3> QED BY <2>1, <3>1, <3>2
  <2> QED BY <2>2, <2>3
<1>4. ASSUME NEW k \in 1..8
      PROVE  /\ Highest(b, k - 1) \in 0..127 /\ (b \div Weights[k]) % 2 \in 0..1
             /\ Highest(b, k) = 2 * Highest(b, k - 1) + ((b \div Weights[k]) % 2)
  <2>1. /\ Highest(b, 1) = b \div 128 /\ Highest(b, 2) = b \div 64 /\ Highest(b, 3) = b \div 32
        /\ Highest(b, 4) = b \div 16 /\ Highest(b, 5) = b \div 8 /\ Highest(b, 6) = b \div 4
        /\ Highest(b, 7) = b \div 2 /\ Highest(b, 8) = b \div 1 /\ Highest(b, 0) = 0
    BY DEF Highest, Weights
  <2>2. /\ Weights[1] = 128 /\ Weights[2] = 64 /\ Weights[3] = 32 /\ Weights[4] = 16
        /\ Weights[5] = 8 /\ Weights[6] = 4 /\ Weights[7] = 2 /\ Weights[8] = 1
    BY DEF Weights
  <2>3. CASE k = 1
    <3>1. b \div 128 \in 0..1 /\ (b \div 128) % 2 = b \div 128
      BY DEF Byte
    <3> QED BY <2>1, <2>2, <2>3, <3>1
  <2>6. CASE k = 2
    <3>1. b \div 128 \in 0..127 /\ (b \div 64) % 2 \in 0..1 /\ b \div 64 = 2 * (b \div 128) + ((b \div 64) % 2)
      BY DEF Byte
    <3> QED BY <2>1, <2>2, <2>6, <3>1
  <2>7. CASE k = 3
    <3>1. b \div 64 \in 0..127 /\ (b \div 32) % 2 \in 0..1 /\ b \div 32 = 2 * (b \div 64) + ((b \div 32) % 2)
      BY DEF Byte
    <3> QED BY <2>1, <2>2, <2>7, <3>1
  <2>4. CASE k = 4 \/ k = 5 \/ k = 6
    BY <2>1, <2>2, <2>4 DEF Byte
  <2>5. CASE k = 7 \/ k = 8
    BY <2>1, <2>2, <2>5, SMTT(40) DEF Byte
  <2> QED BY <2>3, <2>4, <2>5, <2>6, <2>7
<1>5. ASSUME NEW k \in 1..8
      PROVE  Highest(b, k) = Doubled(Highest(b, k - 1)) ^^ ((b \div Weights[k]) % 2)
  <2>1. PICK m \in 0..127 : m = Highest(b, k - 1)
    BY <1>4
  <2>2. PICK t \in 0..1 : t = (b \div Weights[k]) % 2
    BY <1>4
  <2>3. Doubled(m) = 2 * m
    BY DEF Doubled
  <2>4. Highest(b, k) = 2 * m + t
    BY <1>4, <2>1, <2>2
  <2> QED BY <2>1, <2>2, <2>3, <2>4, EvenXorBit
<1> QED BY <1>1, <1>3, <1>4, <1>5

\* gf_mul is long multiplication.
LEMMA MulIsTimes ==
    ASSUME NEW a \in Byte, NEW b \in Byte
    PROVE  Times(a, b) = gf_mul(a, b)
<1> DEFINE F(g) == g = [k \in 0..8 |-> IF k = 0 THEN 0
                                       ELSE Reduced(2 * g[k - 1]) ^^ (((b \div Weights[k]) % 2) * a)]
           h == [k \in 0..8 |-> gf_mul(a, Highest(b, k))]
<1>1. gf_mul(a, Highest(b, 0)) = 0
  BY HighestSteps, MulType
<1>2. ASSUME NEW k \in 1..8
      PROVE  gf_mul(a, Highest(b, k))
                = Reduced(2 * gf_mul(a, Highest(b, k - 1))) ^^ (((b \div Weights[k]) % 2) * a)
  <2>1. PICK t \in Byte : t = (b \div Weights[k]) % 2 /\ (t = 0 \/ t = 1)
    <3>1. \A n \in 0..1 : n \in Byte /\ (n = 0 \/ n = 1)
      BY DEF Byte
    <3> QED BY <3>1, HighestSteps
  <2>2. PICK c \in Byte : c = Highest(b, k - 1)
    <3>1. k - 1 \in 0..8
      OBVIOUS
    <3> QED BY <3>1, HighestSteps
  <2>3. Highest(b, k) = Doubled(c) ^^ t
    BY <2>1, <2>2, HighestSteps
  <2>4. Doubled(c) \in Byte
    BY GeneratorType
  <2>5. gf_mul(a, Doubled(c) ^^ t) = gf_mul(a, Doubled(c)) ^^ gf_mul(a, t)
    BY <2>4, MulDistributes
  <2>6. gf_mul(a, t) = t * a
    <3>1. gf_mul(a, 0) = 0 /\ gf_mul(a, 1) = a
      BY MulType, MulOne
    <3>2. 0 * a = 0 /\ 1 * a = a
      BY DEF Byte
    <3> QED BY <2>1, <3>1, <3>2
  <2>7. gf_mul(a, Doubled(c)) = Reduced(2 * gf_mul(a, c))
    BY MulDoubled DEF Doubled, Reduced
  <2> QED BY <2>1, <2>2, <2>3, <2>5, <2>6, <2>7
<1>3. F(h)
  <2>1. ASSUME NEW k \in 0..8
        PROVE  gf_mul(a, Highest(b, k)) = IF k = 0 THEN 0
                  ELSE Reduced(2 * h[k - 1]) ^^ (((b \div Weights[k]) % 2) * a)
    <3>1. CASE k = 0
      BY <1>1, <3>1
    <3>2. CASE k # 0
      <4>1. k \in 1..8 /\ k - 1 \in 0..8
        BY <3>2
      <4>2. h[k - 1] = gf_mul(a, Highest(b, k - 1))
        BY <4>1
      <4> HIDE DEF h
      <4> QED BY <1>2, <3>2, <4>1, <4>2
    <3> QED BY <3>1, <3>2
  <2> QED BY <2>1
<1>4. Times(a, b) = (CHOOSE g : F(g))[8]
  BY DEF Times
<1>5. F(CHOOSE g : F(g))
  <2> HIDE DEF F, h
  <2> QED BY <1>3
<1> HIDE DEF F
<1>6. PICK g : F(g) /\ Times(a, b) = g[8]
  BY <1>4, <1>5
<1>7. g = [k \in 0..8 |-> IF k = 0 THEN 0
                           ELSE Reduced(2 * g[k - 1]) ^^ (((b \div Weights[k]) % 2) * a)]
  BY <1>6 DEF F
<1> DEFINE S == {k \in 0..8 : g[k] = gf_mul(a, Highest(b, k))}
<1>8. 0 \in S
  BY <1>1, <1>7
<1>9. ASSUME NEW k \in 0..(8 - 1), k \in S PROVE k + 1 \in S
  <2>1. PICK n \in 1..8 : n = k + 1
    OBVIOUS
  <2>2. n \in 0..8 /\ n # 0 /\ n - 1 = k
    BY <2>1
  <2>3. g[n] = Reduced(2 * g[n - 1]) ^^ (((b \div Weights[n]) % 2) * a)
    BY <1>7, <2>2
  <2>4. g[n - 1] = gf_mul(a, Highest(b, n - 1))
    BY <1>9, <2>2
  <2>5. g[n] = gf_mul(a, Highest(b, n))
    BY <1>2, <2>3, <2>4
  <2> QED BY <2>1, <2>2, <2>5
<1>10. \A k \in 0..8 : k \in S
  <2> HIDE DEF S
  <2> QED BY <1>8, <1>9, UpTo
<1>11. g[8] = gf_mul(a, Highest(b, 8))
  <2>1. 8 \in S
    BY <1>10
  <2> QED BY <2>1
<1> QED BY <1>6, <1>11, HighestSteps

-----------------------------------------------------------------------------
(* Points of a line *)

\* A share's byte is a byte, and so is its x-coordinate, which is not 0.
LEMMA YType ==
    ASSUME NEW s \in Byte, NEW c \in Byte, NEW x \in 1..NUM_SHARES
    PROVE  Y(s, c, x) \in Byte /\ x \in Byte /\ x # 0
<1>1. x \in Byte /\ x # 0
  BY DEF NUM_SHARES, Byte
<1>2. gf_mul(c, x) \in Byte
  BY <1>1, MulType
<1> QED BY <1>1, <1>2, XorByte DEF Y

\* The line's value at 0 from a point of one line and a point of another, through
\* the same value s at 0: off s by a multiple of the difference of the slopes.
LEMMA AtZeroOfTwoLines ==
    ASSUME NEW x \in 1..NUM_SHARES, NEW z \in 1..NUM_SHARES, x # z
    PROVE  \E m \in Byte : /\ m # 0
                           /\ \A s, c, d \in Byte :
                                 AtZero(x, Y(s, c, x), z, Y(s, d, z)) = s ^^ gf_mul(c ^^ d, m)
<1>1. x \in Byte /\ z \in Byte /\ x # 0 /\ z # 0
  <2>1. 1 \in Byte
    BY DEF Byte
  <2> QED BY <2>1, YType
<1>2. PICK e \in Byte : e = x ^^ z /\ e # 0 /\ e = z ^^ x
  <2>1. x ^^ z \in Byte
    BY <1>1, XorByte
  <2>2. x ^^ z # 0
    BY <1>1, XorCancel
  <2>3. x ^^ z = z ^^ x
    BY <1>1, XorLaws
  <2> QED BY <2>1, <2>2, <2>3
<1>3. PICK i \in Byte : i = gf_inv(e) /\ i # 0 /\ gf_mul(i, e) = 1 /\ gf_mul(e, i) = 1
  <2>1. gf_inv(e) \in Byte /\ gf_inv(e) # 0 /\ gf_mul(gf_inv(e), e) = 1
    BY <1>2, InvIsInverse
  <2>2. gf_mul(e, gf_inv(e)) = gf_mul(gf_inv(e), e)
    BY <2>1, MulCommutes
  <2> QED BY <2>1, <2>2
<1>4. PICK u \in Byte : u = gf_div(z, e) /\ u = gf_mul(z, i) /\ u # 0
  <2>1. gf_div(z, e) \in Byte /\ gf_div(z, e) # 0 /\ gf_div(z, e) = gf_mul(z, gf_inv(e))
    BY <1>1, <1>2, DivUndoes
  <2> QED BY <1>3, <2>1
<1>5. PICK v \in Byte : v = gf_div(x, e) /\ v = gf_mul(x, i) /\ v # 0
  <2>1. gf_div(x, e) \in Byte /\ gf_div(x, e) # 0 /\ gf_div(x, e) = gf_mul(x, gf_inv(e))
    BY <1>1, <1>2, DivUndoes
  <2> QED BY <1>3, <2>1
<1>6. u ^^ v = 1
  <2>1. gf_mul(z ^^ x, i) = gf_mul(z, i) ^^ gf_mul(x, i)
    BY <1>1, MulDistributes
  <2> QED BY <1>2, <1>3, <1>4, <1>5, <2>1
<1>7. PICK m \in Byte : m = gf_mul(x, u) /\ m = gf_mul(z, v) /\ m # 0
  <2>1. gf_mul(x, u) = gf_mul(gf_mul(x, z), i)
    BY <1>1, <1>4, MulAssociates
  <2>2. gf_mul(z, v) = gf_mul(gf_mul(z, x), i)
    BY <1>1, <1>5, MulAssociates
  <2>3. gf_mul(x, z) = gf_mul(z, x)
    BY <1>1, MulCommutes
  <2>4. gf_mul(x, u) \in Byte /\ gf_mul(x, u) # 0
    BY <1>1, <1>4, MulType
  <2> QED BY <2>1, <2>2, <2>3, <2>4
<1>8. ASSUME NEW s \in Byte, NEW c \in Byte, NEW d \in Byte
      PROVE  AtZero(x, Y(s, c, x), z, Y(s, d, z)) = s ^^ gf_mul(c ^^ d, m)
  <2>1. AtZero(x, Y(s, c, x), z, Y(s, d, z))
           = gf_mul(s ^^ gf_mul(c, x), u) ^^ gf_mul(s ^^ gf_mul(d, z), v)
    BY <1>2, <1>4, <1>5 DEF AtZero, Y
  <2>2. PICK su \in Byte : su = gf_mul(s, u)
    BY MulType
  <2>3. PICK sv \in Byte : sv = gf_mul(s, v)
    BY MulType
  <2>4. PICK cm \in Byte : cm = gf_mul(c, m)
    BY MulType
  <2>5. PICK dm \in Byte : dm = gf_mul(d, m)
    BY MulType
  <2>6. gf_mul(s ^^ gf_mul(c, x), u) = su ^^ cm
    <3>1. gf_mul(c, x) \in Byte
      BY <1>1, MulType
    <3>2. gf_mul(s ^^ gf_mul(c, x), u) = gf_mul(s, u) ^^ gf_mul(gf_mul(c, x), u)
      BY <3>1, MulDistributes
    <3>3. gf_mul(gf_mul(c, x), u) = gf_mul(c, gf_mul(x, u))
      BY <1>1, MulAssociates
    <3> QED BY <1>7, <2>2, <2>4, <3>2, <3>3
  <2>7. gf_mul(s ^^ gf_mul(d, z), v) = sv ^^ dm
    <3>1. gf_mul(d, z) \in Byte
      BY <1>1, MulType
    <3>2. gf_mul(s ^^ gf_mul(d, z), v) = gf_mul(s, v) ^^ gf_mul(gf_mul(d, z), v)
      BY <3>1, MulDistributes
    <3>3. gf_mul(gf_mul(d, z), v) = gf_mul(d, gf_mul(z, v))
      BY <1>1, MulAssociates
    <3> QED BY <1>7, <2>3, <2>5, <3>2, <3>3
  <2>8. su ^^ sv = s
    <3>1. gf_mul(s, u ^^ v) = gf_mul(s, u) ^^ gf_mul(s, v)
      BY MulDistributes
    <3> QED BY <1>6, <2>2, <2>3, <3>1, MulOne
  <2>9. cm ^^ dm = gf_mul(c ^^ d, m)
    BY <2>4, <2>5, MulDistributes
  <2>10. (su ^^ cm) ^^ (sv ^^ dm) = (su ^^ sv) ^^ (cm ^^ dm)
    BY XorExchanges
  <2> QED BY <2>1, <2>6, <2>7, <2>8, <2>9, <2>10
<1> QED BY <1>7, <1>8

\* From two points of lines through s: s, if the lines are the same, and only then.
LEMMA TwoPoints ==
    ASSUME NEW x \in 1..NUM_SHARES, NEW z \in 1..NUM_SHARES, x # z,
           NEW s \in Byte, NEW c \in Byte, NEW d \in Byte
    PROVE  AtZero(x, Y(s, c, x), z, Y(s, d, z)) = s <=> c = d
<1>1. PICK m \in Byte : m # 0 /\ AtZero(x, Y(s, c, x), z, Y(s, d, z)) = s ^^ gf_mul(c ^^ d, m)
  BY AtZeroOfTwoLines
<1>2. c ^^ d \in Byte /\ gf_mul(c ^^ d, m) \in Byte
  BY XorByte, MulType
<1>3. CASE c = d
  <2>1. c ^^ d = 0 /\ s ^^ 0 = s
    BY <1>3, XorLaws
  <2>2. gf_mul(0, m) = 0
    BY MulType
  <2> QED BY <1>1, <1>3, <2>1, <2>2
<1>4. CASE c # d
  <2>1. c ^^ d # 0
    BY <1>4, XorCancel
  <2>2. gf_mul(c ^^ d, m) # 0
    BY <1>1, <1>2, <2>1, MulType
  <2>3. s ^^ gf_mul(c ^^ d, m) # s
    <3>1. s ^^ (s ^^ gf_mul(c ^^ d, m)) = gf_mul(c ^^ d, m)
      BY <1>2, XorCancel
    <3>2. s ^^ s = 0
      BY XorLaws
    <3> QED BY <2>2, <3>1, <3>2
  <2> QED BY <1>1, <1>4, <2>3
<1> QED BY <1>3, <1>4

\* Through a point other than the one at 0 and any point at 0 goes a line.
LEMMA OnePoint ==
    ASSUME NEW s \in Byte, NEW x \in 1..NUM_SHARES
    PROVE  {Y(s, c, x) : c \in Byte} = Byte
<1>1. \A c \in Byte : Y(s, c, x) \in Byte
  BY YType
<1>2. ASSUME NEW y \in Byte PROVE \E c \in Byte : Y(s, c, x) = y
  <2>1. x \in Byte /\ x # 0
    BY YType
  <2>2. PICK w \in Byte : w = s ^^ y
    BY XorByte
  <2>3. gf_div(w, x) \in Byte /\ gf_mul(gf_div(w, x), x) = w
    BY <2>1, DivUndoes
  <2>4. s ^^ w = y
    BY <2>2, XorCancel
  <2> QED BY <2>3, <2>4 DEF Y
<1> QED BY <1>1, <1>2

-----------------------------------------------------------------------------
(* Keys and shares *)

\* The bodies b are points of lines: one line for each byte of key that they have
\* come to, through that byte at 0.
Lines(b, key) ==
    /\ b \in [1..NUM_SHARES -> Seq(Byte)]
    /\ \A x \in 1..NUM_SHARES : Len(b[x]) = Len(b[1]) /\ Len(b[x]) <= Len(key)
    /\ \A i \in 1..Len(b[1]) : \E c \in Byte : \A x \in 1..NUM_SHARES : b[x][i] = Y(key[i], c, x)

\* The bodies with their x-coordinates.
SharesOf(b) == [x \in 1..NUM_SHARES |-> <<x>> \o b[x]]

\* A share is its x-coordinate and its body.
LEMMA ShareParts ==
    ASSUME NEW b \in [1..NUM_SHARES -> Seq(Byte)], NEW x \in 1..NUM_SHARES
    PROVE  /\ SharesOf(b)[x][1] = x /\ Len(b[x]) \in Nat
           /\ Len(SharesOf(b)[x]) = Len(b[x]) + 1
           /\ \A i \in 1..Len(b[x]) : SharesOf(b)[x][i + 1] = b[x][i]
<1>1. PICK s \in Seq(Byte) : s = b[x]
  OBVIOUS
<1>2. SharesOf(b)[x] = <<x>> \o s
  BY <1>1 DEF SharesOf
<1>3. x \in Byte
  BY DEF NUM_SHARES, Byte
<1>4. <<x>> \in Seq(Byte) /\ Len(<<x>>) = 1 /\ <<x>>[1] = x
  BY <1>3
<1>5. /\ Len(<<x>> \o s) = Len(s) + 1 /\ (<<x>> \o s)[1] = x
      /\ \A i \in 1..Len(s) : (<<x>> \o s)[i + 1] = s[i]
  BY <1>4
<1>6. Len(s) \in Nat
  OBVIOUS
<1> QED BY <1>1, <1>2, <1>5, <1>6

\* A share of one split and a share of another give the key exactly if the splits
\* are the same.
LEMMA TwoShares ==
    ASSUME NEW key \in Seq(Byte) \ {<<>>}, NEW b, NEW d, Lines(b, key), Lines(d, key),
           Len(b[1]) = Len(key), Len(d[1]) = Len(key),
           NEW x \in 1..NUM_SHARES, NEW z \in 1..NUM_SHARES, x # z
    PROVE  reconstruct_private_key(SharesOf(b)[x], SharesOf(d)[z]) = key <=> b = d
<1> DEFINE n == Len(key)
           r == reconstruct_private_key(SharesOf(b)[x], SharesOf(d)[z])
<1>1. /\ b \in [1..NUM_SHARES -> Seq(Byte)] /\ d \in [1..NUM_SHARES -> Seq(Byte)]
      /\ \A w \in 1..NUM_SHARES : Len(b[w]) = n /\ Len(d[w]) = n
      /\ \A i \in 1..n : \E c \in Byte : \A w \in 1..NUM_SHARES : b[w][i] = Y(key[i], c, w)
      /\ \A i \in 1..n : \E c \in Byte : \A w \in 1..NUM_SHARES : d[w][i] = Y(key[i], c, w)
  BY DEF Lines
<1>2. n \in Nat \ {0} /\ key = [i \in 1..n |-> key[i]] /\ \A i \in 1..n : key[i] \in Byte
  OBVIOUS
<1>3. /\ SharesOf(b)[x][1] = x /\ Len(SharesOf(b)[x]) = n + 1
      /\ \A i \in 1..n : SharesOf(b)[x][i + 1] = b[x][i]
  <2>1. /\ SharesOf(b)[x][1] = x /\ Len(SharesOf(b)[x]) = Len(b[x]) + 1
        /\ \A i \in 1..Len(b[x]) : SharesOf(b)[x][i + 1] = b[x][i]
    BY <1>1, ShareParts, ZenonT(40)
  <2>2. Len(b[x]) = n
    BY <1>1
  <2> HIDE DEF n
  <2> QED BY <2>1, <2>2
<1>4. /\ SharesOf(d)[z][1] = z /\ Len(SharesOf(d)[z]) = n + 1
      /\ \A i \in 1..n : SharesOf(d)[z][i + 1] = d[z][i]
  <2>1. /\ SharesOf(d)[z][1] = z /\ Len(SharesOf(d)[z]) = Len(d[z]) + 1
        /\ \A i \in 1..Len(d[z]) : SharesOf(d)[z][i + 1] = d[z][i]
    BY <1>1, ShareParts, ZenonT(40)
  <2>2. Len(d[z]) = n
    BY <1>1
  <2> HIDE DEF n
  <2> QED BY <2>1, <2>2
<1> HIDE DEF n
<1>5. r = [i \in 1..n |-> AtZero(x, b[x][i], z, d[z][i])]
  <2>1. PICK sb : sb = SharesOf(b)[x]
    OBVIOUS
  <2>2. PICK sd : sd = SharesOf(d)[z]
    OBVIOUS
  <2>3. n + 1 >= 2 /\ (n + 1) - 1 = n
    BY <1>2
  <2>4. Usable(sb, sd)
    BY <1>3, <1>4, <2>1, <2>2, <2>3 DEF Usable
  <2>5. r = [i \in 1..(Len(sb) - 1) |-> AtZero(sb[1], sb[i + 1], sd[1], sd[i + 1])]
    BY <2>1, <2>2, <2>4 DEF reconstruct_private_key
  <2>6. r = [i \in 1..n |-> AtZero(x, sb[i + 1], z, sd[i + 1])]
    BY <1>3, <1>4, <2>1, <2>2, <2>3, <2>5
  <2> HIDE DEF r
  <2> QED BY <1>3, <1>4, <2>1, <2>2, <2>6
<1> HIDE DEF r
<1>6. r = key <=> \A i \in 1..n : AtZero(x, b[x][i], z, d[z][i]) = key[i]
  BY <1>2, <1>5
<1>7. ASSUME NEW i \in 1..n
      PROVE  AtZero(x, b[x][i], z, d[z][i]) = key[i] <=> \A w \in 1..NUM_SHARES : b[w][i] = d[w][i]
  <2>1. PICK s \in Byte : s = key[i]
    BY <1>2
  <2>2. PICK c \in Byte : \A w \in 1..NUM_SHARES : b[w][i] = Y(s, c, w)
    BY <1>1, <2>1
  <2>3. PICK e \in Byte : \A w \in 1..NUM_SHARES : d[w][i] = Y(s, e, w)
    BY <1>1, <2>1
  <2>4. AtZero(x, Y(s, c, x), z, Y(s, e, z)) = s <=> c = e
    BY TwoPoints
  <2>5. (\A w \in 1..NUM_SHARES : Y(s, c, w) = Y(s, e, w)) => c = e
    <3>1. AtZero(x, Y(s, c, x), z, Y(s, c, z)) = s
      BY TwoPoints
    <3> QED BY <2>4, <3>1
  <2> QED BY <2>1, <2>2, <2>3, <2>4, <2>5
<1>8. b = d <=> \A i \in 1..n, w \in 1..NUM_SHARES : b[w][i] = d[w][i]
  <2>1. ASSUME \A i \in 1..n, w \in 1..NUM_SHARES : b[w][i] = d[w][i]
        PROVE  b = d
    <3>1. ASSUME NEW w \in 1..NUM_SHARES PROVE b[w] = d[w]
      <4>1. PICK s \in Seq(Byte) : s = b[w] /\ Len(s) = n
        BY <1>1
      <4>2. PICK t \in Seq(Byte) : t = d[w] /\ Len(t) = n
        BY <1>1
      <4>3. \A i \in 1..n : s[i] = t[i]
        BY <2>1, <4>1, <4>2
      <4>4. Len(s) = Len(t) /\ \A i \in 1..Len(s) : s[i] = t[i]
        BY <4>1, <4>2, <4>3
      <4>5. s = t
        BY <4>4, SeqEqual, Zenon
      <4> QED BY <4>1, <4>2, <4>5
    <3>2. b = [w \in 1..NUM_SHARES |-> b[w]] /\ d = [w \in 1..NUM_SHARES |-> d[w]]
      BY <1>1
    <3> QED BY <3>1, <3>2
  <2> QED BY <2>1, Zenon
<1> QED BY <1>6, <1>7, <1>8 DEF r

-----------------------------------------------------------------------------
(* The invariant *)

\* The key is one that there is; the bodies, as far as they have come, and the
\* shares of the split before are points of lines through its bytes.
SplitInv ==
    /\ pem \in Pems
    /\ Lines(bodies, pem)
    /\ old # <<>> => \E b : Lines(b, pem) /\ Len(b[1]) = Len(pem) /\ old = SharesOf(b)

\* A key is a text of at least one byte.
LEMMA KeyType == pem \in Pems => pem \in Seq(Byte) \ {<<>>}
  BY PemsAssumption

\* No byte yet.
LEMMA NoLines == ASSUME NEW key \in Seq(Byte) PROVE Lines(NoBodies, key)
<1>1. \A x \in 1..NUM_SHARES : NoBodies[x] = <<>>
  BY DEF NoBodies
<1>2. NoBodies \in [1..NUM_SHARES -> Seq(Byte)]
  BY DEF NoBodies
<1>3. 1 \in 1..NUM_SHARES
  BY DEF NUM_SHARES
<1>4. Len(<<>>) = 0 /\ Len(key) \in Nat
  OBVIOUS
<1> QED BY <1>1, <1>2, <1>3, <1>4 DEF Lines

\* One more byte, and a line through it.
LEMMA OneMoreLine ==
    ASSUME NEW key \in Seq(Byte), NEW b, Lines(b, key), Len(b[1]) # Len(key), NEW c \in Byte
    PROVE  Lines([x \in 1..NUM_SHARES |-> Append(b[x], Y(key[Len(b[x]) + 1], c, x))], key)
<1> DEFINE n == Len(b[1])
           d == [x \in 1..NUM_SHARES |-> Append(b[x], Y(key[Len(b[x]) + 1], c, x))]
<1>1. 1 \in 1..NUM_SHARES
  BY DEF NUM_SHARES
<1>2. /\ b \in [1..NUM_SHARES -> Seq(Byte)]
      /\ \A x \in 1..NUM_SHARES : Len(b[x]) = n /\ Len(b[x]) <= Len(key)
      /\ \A i \in 1..n : \E e \in Byte : \A x \in 1..NUM_SHARES : b[x][i] = Y(key[i], e, x)
  BY DEF Lines
<1>3. n \in Nat /\ Len(key) \in Nat /\ n + 1 \in 1..Len(key)
  <2>1. b[1] \in Seq(Byte)
    BY <1>1, <1>2
  <2>2. n \in Nat /\ Len(key) \in Nat
    BY <2>1
  <2>3. n <= Len(key) /\ n # Len(key)
    BY <1>1, <1>2
  <2> HIDE DEF n
  <2> QED BY <2>2, <2>3
<1>4. PICK s \in Byte : s = key[n + 1]
  <2> HIDE DEF n
  <2> QED BY <1>3
<1> HIDE DEF n
<1>5. ASSUME NEW x \in 1..NUM_SHARES
      PROVE  /\ d[x] \in Seq(Byte) /\ Len(d[x]) = n + 1 /\ d[x][n + 1] = Y(s, c, x)
             /\ \A i \in 1..n : d[x][i] = b[x][i]
  <2>1. PICK t \in Seq(Byte) : t = b[x] /\ Len(t) = n
    BY <1>2
  <2>2. PICK y \in Byte : y = Y(s, c, x)
    BY YType
  <2>3. d[x] = Append(t, y)
    BY <1>4, <2>1, <2>2
  <2>4. /\ Append(t, y) \in Seq(Byte) /\ Len(Append(t, y)) = n + 1 /\ Append(t, y)[n + 1] = y
        /\ \A i \in 1..n : Append(t, y)[i] = t[i]
    BY <2>1
  <2> HIDE DEF d
  <2> QED BY <2>1, <2>2, <2>3, <2>4
<1>6. d \in [1..NUM_SHARES -> Seq(Byte)]
  <2>1. d = [x \in 1..NUM_SHARES |-> d[x]]
    OBVIOUS
  <2> HIDE DEF d
  <2> QED BY <1>5, <2>1
<1> HIDE DEF d
<1>7. \A x \in 1..NUM_SHARES : Len(d[x]) = Len(d[1]) /\ Len(d[x]) <= Len(key)
  BY <1>1, <1>3, <1>5
<1>8. ASSUME NEW i \in 1..Len(d[1])
      PROVE  \E e \in Byte : \A x \in 1..NUM_SHARES : d[x][i] = Y(key[i], e, x)
  <2>1. Len(d[1]) = n + 1
    BY <1>1, <1>5
  <2>2. CASE i = n + 1
    BY <1>4, <1>5, <2>2
  <2>3. CASE i # n + 1
    <3>1. i \in 1..n
      BY <1>3, <2>1, <2>3
    <3> QED BY <1>2, <1>5, <3>1
  <2> QED BY <2>2, <2>3
<1>9. Lines(d, key)
  BY <1>6, <1>7, <1>8 DEF Lines
<1> QED BY <1>9 DEF d

\* When the splitting is done, the bodies are those of whole shares.
LEMMA WholeShares ==
    ASSUME SplitInv, Done
    PROVE  /\ pem \in Seq(Byte) \ {<<>>} /\ Lines(bodies, pem) /\ Len(bodies[1]) = Len(pem)
           /\ Shares = SharesOf(bodies)
  BY KeyType DEF SplitInv, Done, Shares, SharesOf

\* At the start no byte has been split.
LEMMA InitSplit == Init => SplitInv
<1> SUFFICES ASSUME Init PROVE SplitInv
  OBVIOUS
<1>1. pem \in Pems /\ bodies = NoBodies /\ old = <<>>
  BY DEF Init
<1>2. Lines(bodies, pem)
  BY <1>1, KeyType, NoLines
<1> QED BY <1>1, <1>2 DEF SplitInv

\* A byte is split.
LEMMA SplitByteStep ==
    ASSUME SplitInv, NEW c, c \in (IF old = <<>> THEN Draws[Len(pem)] ELSE Redraws), SplitByte(c)
    PROVE  SplitInv'
<1>1. pem \in Pems /\ pem \in Seq(Byte)
  BY KeyType DEF SplitInv
<1>2. c \in Byte
  BY <1>1, DrawsAssumption
<1>3. /\ pem' = pem /\ old' = old /\ Len(bodies[1]) # Len(pem)
      /\ bodies' = [x \in 1..NUM_SHARES |-> Append(bodies[x], Y(pem[Len(bodies[x]) + 1], c, x))]
  BY DEF SplitByte, Done
<1>4. PICK key \in Seq(Byte) : key = pem
  BY <1>1
<1>5. PICK b : b = bodies
  OBVIOUS
<1>6. Lines(b, key) /\ Len(b[1]) # Len(key)
  BY <1>3, <1>4, <1>5 DEF SplitInv
<1>7. Lines([x \in 1..NUM_SHARES |-> Append(b[x], Y(key[Len(b[x]) + 1], c, x))], key)
  BY <1>2, <1>6, OneMoreLine
<1>8. bodies' = [x \in 1..NUM_SHARES |-> Append(b[x], Y(key[Len(b[x]) + 1], c, x))] /\ pem' = key
  BY <1>3, <1>4, <1>5
<1>9. Lines(bodies', pem')
  BY <1>7, <1>8
<1> QED BY <1>1, <1>3, <1>9 DEF SplitInv

\* No random byte: from the start.
LEMMA RandomByteFailsStep ==
    ASSUME SplitInv, RandomByteFails
    PROVE  SplitInv'
<1>1. pem' = pem /\ old' = old /\ bodies' = NoBodies /\ pem \in Pems
  BY DEF RandomByteFails, SplitInv
<1>2. PICK key \in Seq(Byte) : key = pem
  BY <1>1, KeyType
<1>3. Lines(NoBodies, key)
  BY NoLines
<1>4. Lines(bodies', pem')
  BY <1>1, <1>2, <1>3 DEF NoBodies
<1> QED BY <1>1, <1>4 DEF SplitInv

\* Share 1 and Share 2 of one split give the key back.
LEMMA RecoveredKey ==
    ASSUME SplitInv, recover_account_flow
    PROVE  pem' = pem
<1>1. Done /\ pem' = reconstruct_private_key(Shares[1], Shares[2])
  BY DEF recover_account_flow
<1>2. PICK key \in Seq(Byte) \ {<<>>} : key = pem
  BY <1>1, WholeShares
<1>3. PICK b : b = bodies
  OBVIOUS
<1>4. Lines(b, key) /\ Len(b[1]) = Len(key) /\ Shares = SharesOf(b)
  BY <1>1, <1>2, <1>3, WholeShares
<1>5. 1 \in 1..NUM_SHARES /\ 2 \in 1..NUM_SHARES /\ 1 # 2
  BY DEF NUM_SHARES
<1>6. reconstruct_private_key(SharesOf(b)[1], SharesOf(b)[2]) = key
  BY <1>4, <1>5, TwoShares
<1> QED BY <1>1, <1>2, <1>4, <1>6

\* A recovery: the key is put together from its shares, and is what it was.
LEMMA RecoverStep ==
    ASSUME SplitInv, recover_account_flow
    PROVE  SplitInv'
<1>1. /\ Done /\ pem' = reconstruct_private_key(Shares[1], Shares[2])
      /\ old' = Shares /\ bodies' = NoBodies
  BY DEF recover_account_flow
<1>2. PICK key \in Seq(Byte) \ {<<>>} : key = pem
  BY <1>1, WholeShares
<1>3. PICK b : b = bodies
  OBVIOUS
<1>4. Lines(b, key) /\ Len(b[1]) = Len(key) /\ Shares = SharesOf(b)
  BY <1>1, <1>2, <1>3, WholeShares
<1>6. pem' = key /\ old' = SharesOf(b)
  BY <1>1, <1>2, <1>4, RecoveredKey
<1>7. Lines(NoBodies, key)
  BY NoLines
<1>8. Lines(bodies', pem')
  BY <1>1, <1>6, <1>7 DEF NoBodies
<1>9. pem' \in Pems
  BY <1>2, <1>6 DEF SplitInv
<1>10. \E d : Lines(d, pem') /\ Len(d[1]) = Len(pem') /\ old' = SharesOf(d)
  BY <1>4, <1>6
<1> QED BY <1>8, <1>9, <1>10 DEF SplitInv

\* The invariant holds, for any keys and any draws.
THEOREM SplitInvHolds == Spec => []SplitInv
<1>1. SplitInv /\ [Next]_vars => SplitInv'
  <2> SUFFICES ASSUME SplitInv, [Next]_vars PROVE SplitInv'
    OBVIOUS
  <2>1. CASE \E coeff1 \in (IF old = <<>> THEN Draws[Len(pem)] ELSE Redraws) : SplitByte(coeff1)
    BY <2>1, SplitByteStep
  <2>2. CASE RandomByteFails
    BY <2>2, RandomByteFailsStep
  <2>3. CASE recover_account_flow
    BY <2>3, RecoverStep
  <2>4. CASE UNCHANGED vars
    <3>1. pem' = pem /\ bodies' = bodies /\ old' = old
      BY <2>4 DEF vars
    <3> QED BY <3>1 DEF SplitInv
  <2> QED BY <2>1, <2>2, <2>3, <2>4 DEF Next
<1> QED BY InitSplit, <1>1, PTL DEF Spec

-----------------------------------------------------------------------------
(* The theorems *)

\* The key byte and the share's byte that the properties are about.
LEMMA SplitBytes ==
    ASSUME SplitInv, NEW i \in 1..Len(bodies[1])
    PROVE  pem[i] \in Byte /\ bodies[1][i] \in Byte
<1>1. 1 \in 1..NUM_SHARES
  BY DEF NUM_SHARES
<1>2. bodies[1] \in Seq(Byte) /\ Len(bodies[1]) <= Len(pem) /\ pem \in Seq(Byte)
  BY <1>1, KeyType DEF SplitInv, Lines
<1>3. PICK s \in Seq(Byte) : s = bodies[1]
  BY <1>2
<1>4. PICK key \in Seq(Byte) : key = pem
  BY <1>2
<1>5. i \in 1..Len(s) /\ i \in 1..Len(key)
  BY <1>2, <1>3, <1>4
<1>6. s[i] \in Byte /\ key[i] \in Byte
  BY <1>5
<1> QED BY <1>3, <1>4, <1>6

\* What the keys and the shares look like at every step: a key is never lost by
\* splitting it and putting it together, and no share is longer than another.
THEOREM TypeCorrect == Spec => []TypeOK
<1>1. SplitInv => TypeOK
  <2> SUFFICES ASSUME SplitInv PROVE TypeOK
    OBVIOUS
  <2>1. /\ pem \in Seq(Byte) \ {<<>>} /\ bodies \in [1..NUM_SHARES -> Seq(Byte)]
        /\ \A x \in 1..NUM_SHARES : Len(bodies[x]) = Len(bodies[1]) /\ Len(bodies[x]) <= Len(pem)
    BY KeyType DEF SplitInv, Lines
  <2>2. ASSUME old # <<>>, NEW x \in 1..NUM_SHARES
        PROVE  old[x][1] = x /\ Len(old[x]) = Len(pem) + 1
    <3>1. PICK b : Lines(b, pem) /\ Len(b[1]) = Len(pem) /\ old = SharesOf(b)
      BY <2>2 DEF SplitInv
    <3>2. b \in [1..NUM_SHARES -> Seq(Byte)] /\ Len(b[x]) = Len(pem)
      BY <3>1 DEF Lines
    <3>3. SharesOf(b)[x][1] = x /\ Len(SharesOf(b)[x]) = Len(b[x]) + 1
      BY <3>2, ShareParts
    <3> QED BY <3>1, <3>2, <3>3
  <2> QED BY <2>1, <2>2 DEF TypeOK
<1> QED BY <1>1, SplitInvHolds, PTL

\* The multiplication by tables is the field's.
THEOREM GfMulIsMultiplicationHolds == Spec => []GfMulIsMultiplication
<1>1. SplitInv => GfMulIsMultiplication
  BY SplitBytes, MulIsTimes DEF GfMulIsMultiplication
<1> QED BY <1>1, SplitInvHolds, PTL

\* The division by tables undoes it.
THEOREM DivisionUndoesMultiplicationHolds == Spec => []DivisionUndoesMultiplication
<1>1. ASSUME NEW a \in Byte, NEW b \in Byte, b # 0
      PROVE  gf_div(Times(a, b), b) = a /\ Times(gf_div(a, b), b) = a
  <2>1. gf_div(a, b) \in Byte
    BY <1>1, DivUndoes
  <2>2. Times(a, b) = gf_mul(a, b) /\ Times(gf_div(a, b), b) = gf_mul(gf_div(a, b), b)
    BY <2>1, MulIsTimes
  <2> QED BY <1>1, <2>2, DivUndoes
<1>2. SplitInv => DivisionUndoesMultiplication
  <2> SUFFICES ASSUME SplitInv, NEW i \in 1..Len(bodies[1]), bodies[1][i] # 0
               PROVE  /\ gf_div(Times(pem[i], bodies[1][i]), bodies[1][i]) = pem[i]
                      /\ Times(gf_div(pem[i], bodies[1][i]), bodies[1][i]) = pem[i]
    BY DEF DivisionUndoesMultiplication
  <2> QED BY <1>1, SplitBytes
<1> QED BY <1>2, SplitInvHolds, PTL

\* Any two shares of one split give the key back.
THEOREM AnyTwoSharesReconstructHolds == Spec => []AnyTwoSharesReconstruct
<1>1. SplitInv => AnyTwoSharesReconstruct
  <2> SUFFICES ASSUME SplitInv, Done,
                      NEW x \in 1..NUM_SHARES, NEW z \in 1..NUM_SHARES, x # z
               PROVE  reconstruct_private_key(Shares[x], Shares[z]) = pem
    BY DEF AnyTwoSharesReconstruct
  <2> QED BY WholeShares, TwoShares
<1> QED BY <1>1, SplitInvHolds, PTL

\* Every step leaves the key as it is, recovery included.
THEOREM RecoveryKeepsKeyHolds == Spec => RecoveryKeepsKey
<1>1. SplitInv /\ [Next]_vars => [pem' = pem]_vars
  <2> SUFFICES ASSUME SplitInv, Next PROVE pem' = pem
    OBVIOUS
  <2>1. CASE \E coeff1 \in (IF old = <<>> THEN Draws[Len(pem)] ELSE Redraws) : SplitByte(coeff1)
    BY <2>1 DEF SplitByte
  <2>2. CASE RandomByteFails
    BY <2>2 DEF RandomByteFails
  <2>3. CASE recover_account_flow
    BY <2>3, RecoveredKey
  <2> QED BY <2>1, <2>2, <2>3 DEF Next
<1> QED BY <1>1, SplitInvHolds, PTL DEF Spec, RecoveryKeepsKey

\* A share's byte can be any byte, whatever the key's is.
THEOREM OneShareSaysNothingHolds == Spec => []OneShareSaysNothing
<1>1. SplitInv => OneShareSaysNothing
  <2> SUFFICES ASSUME SplitInv, NEW i \in 1..Len(pem), NEW x \in 1..NUM_SHARES
               PROVE  {Y(pem[i], coeff1, x) : coeff1 \in Byte} = Byte
    BY DEF OneShareSaysNothing
  <2>1. pem \in Seq(Byte)
    BY KeyType DEF SplitInv
  <2>2. PICK s \in Byte : s = pem[i]
    BY <2>1
  <2> QED BY <2>2, OnePoint
<1> QED BY <1>1, SplitInvHolds, PTL

\* Shares of two splits give the key only if the splits are the same.
THEOREM OldSharesDoNotFitHolds == Spec => []OldSharesDoNotFit
<1>1. SplitInv => OldSharesDoNotFit
  <2> SUFFICES ASSUME SplitInv, Done, old # <<>>,
                      NEW x \in 1..NUM_SHARES, NEW z \in 1..NUM_SHARES, x # z
               PROVE  reconstruct_private_key(old[x], Shares[z]) = pem <=> old = Shares
    BY DEF OldSharesDoNotFit
  <2>1. PICK b : Lines(b, pem) /\ Len(b[1]) = Len(pem) /\ old = SharesOf(b)
    BY DEF SplitInv
  <2>2. reconstruct_private_key(SharesOf(b)[x], SharesOf(bodies)[z]) = pem <=> b = bodies
    BY <2>1, WholeShares, TwoShares
  <2>3. reconstruct_private_key(SharesOf(bodies)[x], SharesOf(bodies)[z]) = pem
    BY WholeShares, TwoShares
  <2>4. Shares = SharesOf(bodies)
    BY WholeShares
  <2>5. CASE b = bodies
    BY <2>1, <2>2, <2>4, <2>5
  <2>6. CASE b # bodies
    <3>1. SharesOf(b) # SharesOf(bodies)
      BY <2>2, <2>3, <2>6
    <3> QED BY <2>1, <2>2, <2>4, <2>6, <3>1
  <2> QED BY <2>5, <2>6
<1> QED BY <1>1, SplitInvHolds, PTL
=============================================================================
