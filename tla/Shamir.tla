------------------------------- MODULE Shamir -------------------------------
(***************************************************************************)
(* shamir.cpp: a private key (its PEM text) is split byte by byte into     *)
(* three shares, of which any two give it back, by lines over GF(2^8); and *)
(* recover_account_flow's use of it, which puts the key together from two shares *)
(* and splits it anew.                                                     *)
(*                                                                         *)
(* The arithmetic is the code's, on bytes, with the code's tables.  The    *)
(* random coefficients are nondeterministic.  A string is a sequence of    *)
(* bytes, "" and {} are <<>>.                                              *)
(***************************************************************************)
EXTENDS Integers, Sequences, FiniteSets, FiniteSetsExt

CONSTANTS
    Pems,     \* private keys
    Draws,    \* the coefficients drawn when a key of each length is first split
    Redraws   \* bound: and when it is split again

Byte == 0..255

ASSUME PemsAssumption == Pems \subseteq Seq(Byte) \ {<<>>}
ASSUME DrawsAssumption ==
    /\ \A p \in Pems : Draws[Len(p)] \subseteq Byte
    /\ Redraws \subseteq Byte

VARIABLES
    pem,      \* the private key
    bodies,   \* the bodies of the three shares, as far as the loop has come
    old       \* the shares of the split before this one, or <<>>

vars == <<pem, bodies, old>>

-----------------------------------------------------------------------------
(* Exclusive or *)

\* The bit of weight w, 0 or w, of the exclusive or of a and b.
XorBit(a, b, w) == w * (((a \div w) + (b \div w)) % 2)

\* Of two numbers below 2^9: a doubled byte has nine bits.  (Bitwise's is recursive,
\* and nothing can be proved of it.)
a ^^ b ==
    XorBit(a, b, 1) + XorBit(a, b, 2) + XorBit(a, b, 4) + XorBit(a, b, 8) + XorBit(a, b, 16)
    + XorBit(a, b, 32) + XorBit(a, b, 64) + XorBit(a, b, 128) + XorBit(a, b, 256)

-----------------------------------------------------------------------------
(* The tables *)

\* x, doubled modulo the polynomial 0x11B.
Doubled(x) == IF 2 * x > 255 THEN (2 * x) ^^ 283 ELSE 2 * x

\* Mutant of TimesGenerator: 2 for the generator, as in many a field, but here
\* its powers are not all of the field.
TimesGenerator_two(x) == Doubled(x)

\* x times the generator 3.
TimesGenerator(x) == Doubled(x) ^^ x

Times3 == [x \in Byte |-> TimesGenerator(x)]

\* The generator's powers, as the loop comes to them.
Power[i \in 0..254] == IF i = 0 THEN 1 ELSE Times3[Power[i - 1]]

\* 510 entries: the sum of two logarithms needs no modulo.
exp_table == [i \in 0..509 |-> Power[i % 255]]

\* Later entries overwrite earlier ones; entry 0 stays as it was initialized.
log_table ==
    LET powers == exp_table
    IN  [a \in Byte |-> Max({0} \cup {i \in 0..254 : powers[i] = a})]

-----------------------------------------------------------------------------
(* Arithmetic *)

gf_mul(a, b) ==
    IF a = 0 \/ b = 0 THEN 0 ELSE exp_table[log_table[a] + log_table[b]]

\* Mutant of gf_inv: one off.
gf_inv_254(a) == exp_table[254 - log_table[a]]

\* Of a nonzero byte.
gf_inv(a) == exp_table[255 - log_table[a]]

gf_div(a, b) == IF a = 0 THEN 0 ELSE gf_mul(a, gf_inv(b))

-----------------------------------------------------------------------------
(* split_private_key, reconstruct_private_key *)

NUM_SHARES == 3

\* Mutant of Y: the points are 0, 1 and 2.
Y_fromZero(secret, coeff1, x) == secret ^^ gf_mul(coeff1, x - 1)

\* Mutant of Y: a zero coefficient is not drawn for, but taken to be one.
Y_nonzero(secret, coeff1, x) == secret ^^ gf_mul(Max({coeff1, 1}), x)

\* The point of the line at x.
Y(secret, coeff1, x) == secret ^^ gf_mul(coeff1, x)

\* The line's value at 0, from two of its points.
AtZero(x_a, y_a, x_b, y_b) ==
    LET denom == x_a ^^ x_b
    IN  gf_mul(y_a, gf_div(x_b, denom)) ^^ gf_mul(y_b, gf_div(x_a, denom))

Usable(a, b) ==
    /\ Len(a) >= 2 /\ Len(b) >= 2 /\ Len(a) = Len(b)
    /\ a[1] \in 1..NUM_SHARES /\ b[1] \in 1..NUM_SHARES /\ a[1] # b[1]

\* Mutant of reconstruct_private_key: the first share is taken to be Share 1.
reconstruct_private_key_firstIsShare1(a, b) ==
    IF Usable(a, b)
    THEN [i \in 1..(Len(a) - 1) |-> AtZero(1, a[i + 1], b[1], b[i + 1])]
    ELSE <<>>

reconstruct_private_key(a, b) ==
    IF Usable(a, b)
    THEN [i \in 1..(Len(a) - 1) |-> AtZero(a[1], a[i + 1], b[1], b[i + 1])]
    ELSE <<>>

Done == Len(bodies[1]) = Len(pem)

\* What split_private_key returns: each body behind its x-coordinate.
Shares == [x \in 1..NUM_SHARES |-> <<x>> \o bodies[x]]

NoBodies == [x \in 1..NUM_SHARES |-> <<>>]

Init == pem \in Pems /\ bodies = NoBodies /\ old = <<>>

\* One turn of the loop: a byte of the key, and a random coefficient.
SplitByte(coeff1) ==
    /\ ~Done
    /\ bodies' = [x \in 1..NUM_SHARES |->
                     Append(bodies[x], Y(pem[Len(bodies[x]) + 1], coeff1, x))]
    /\ UNCHANGED <<pem, old>>

\* random_byte fails, and split_private_key returns {}: the caller starts over.
RandomByteFails ==
    /\ ~Done
    /\ bodies' = NoBodies
    /\ UNCHANGED <<pem, old>>

\* Mutant of recover_account_flow: Share 1 is taken for Share 2 too.
recover_account_flow_share1Twice ==
    /\ Done
    /\ pem' = reconstruct_private_key(Shares[1], Shares[1])
    /\ old' = Shares
    /\ bodies' = NoBodies

\* recover_account_flow: the key from Share 1 and Share 2, to be split anew.
recover_account_flow ==
    /\ Done
    /\ pem' = reconstruct_private_key(Shares[1], Shares[2])
    /\ old' = Shares
    /\ bodies' = NoBodies

Next ==
    \/ \E coeff1 \in IF old = <<>> THEN Draws[Len(pem)] ELSE Redraws : SplitByte(coeff1)
    \/ RandomByteFails
    \/ recover_account_flow

Spec == Init /\ [][Next]_vars

-----------------------------------------------------------------------------
(* Properties *)

\* A key is never empty, the bodies are equally long, and the shares of the split
\* before are as long as those of this one will be.
TypeOK ==
    /\ pem \in Seq(Byte) \ {<<>>}
    /\ bodies \in [1..NUM_SHARES -> Seq(Byte)]
    /\ \A x \in 1..NUM_SHARES : Len(bodies[x]) = Len(bodies[1]) /\ Len(bodies[x]) <= Len(pem)
    /\ old # <<>> => \A x \in 1..NUM_SHARES : old[x][1] = x /\ Len(old[x]) = Len(pem) + 1

\* A polynomial of degree 8 modulo 0x11B.
Reduced(n) == IF n > 255 THEN n ^^ 283 ELSE n

\* The weights of a byte's bits, from the highest down.
Weights == <<128, 64, 32, 16, 8, 4, 2, 1>>

\* Long multiplication of polynomials over GF(2), modulo 0x11B: for each bit of b,
\* from the highest down, double the result and add a.
Times(a, b) ==
    LET after[k \in 0..8] == IF k = 0 THEN 0
                             ELSE Reduced(2 * after[k - 1]) ^^ (((b \div Weights[k]) % 2) * a)
    IN  after[8]

\* gf_mul, by tables of logarithms, is the multiplication of the field: for every
\* key byte and every y the loop computed for it, zero included.
GfMulIsMultiplication ==
    \A i \in 1..Len(bodies[1]) : gf_mul(pem[i], bodies[1][i]) = Times(pem[i], bodies[1][i])

\* Dividing undoes multiplying, at both ends of the tables.
DivisionUndoesMultiplication ==
    \A i \in 1..Len(bodies[1]) : LET a == pem[i] b == bodies[1][i] IN
        b # 0 => gf_div(Times(a, b), b) = a /\ Times(gf_div(a, b), b) = a

\* Any two shares give the key back, in either order, and so does the key that
\* was put together and split again.
AnyTwoSharesReconstruct ==
    Done => \A x, z \in 1..NUM_SHARES :
                x # z => reconstruct_private_key(Shares[x], Shares[z]) = pem

\* Recovery gives back the very key that was split first, however often it is put
\* together and split anew.
RecoveryKeepsKey == [][pem' = pem]_vars

\* One share says nothing about a byte of the key: before the coefficient is
\* drawn, each of the shares may still become any byte.
OneShareSaysNothing ==
    bodies = NoBodies /\ old = <<>> =>
        \A i \in 1..Len(pem), x \in 1..NUM_SHARES :
            {Y(pem[i], coeff1, x) : coeff1 \in Byte} = Byte

\* Shares of two splits of one key do not fit together, unless both drew the same
\* coefficients: that is why a rotation has to replace the shares together.
OldSharesDoNotFit ==
    Done /\ old # <<>> => \A x, z \in 1..NUM_SHARES :
        x # z => (reconstruct_private_key(old[x], Shares[z]) = pem <=> old = Shares)

=============================================================================
