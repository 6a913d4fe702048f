---------------------------------- MODULE Word32 ----------------------------------
(***************************************************************************)
(* Unsigned 32-bit integers, of which the code makes hashes and random     *)
(* numbers.  A word is its four bytes, the least significant first, so     *)
(* that what wraps around in the code wraps around here.                   *)
(***************************************************************************)
EXTENDS Integers, Sequences, SequencesExt, Bitwise

Byte == 0 .. 255
Word == [1 .. 4 -> Byte]

\* The word with the bytes of f, computed once.
Bytes4(f) == <<f[1], f[2], f[3], f[4]>>

XorWords(a, b) == Bytes4([i \in 1 .. 4 |-> a[i] ^^ b[i]])

\* a | n for a number of one byte.
OrByte(a, n) == [a EXCEPT ![1] = @ | n]

\* Columns of weights 256^(i-1) become a word: the carry runs up and off the end.
\* Mutant: the carry is lost.
CarriedNot(column) == Bytes4([i \in 1 .. 4 |-> column[i] % 256])

Carried(column) ==
  LET total[i \in 1 .. 4] == column[i] + (IF i = 1 THEN 0 ELSE total[i - 1] \div 256)
  IN Bytes4([i \in 1 .. 4 |-> total[i] % 256])

\* (a + b) >>> 0
Plus(a, b) == Carried([i \in 1 .. 4 |-> a[i] + b[i]])

\* Math.imul(a, b)
Multiply(a, b) ==
  Carried([i \in 1 .. 4 |->
             FoldLeft(LAMBDA sum, j : sum + a[j] * b[i + 1 - j], 0, [j \in 1 .. i |-> j])])

\* a >>> (8 * bytes + bits), filling with zeros.
ShiftRight(a, bytes, bits) ==
  LET at(i) == IF i <= 4 THEN a[i] ELSE 0
      unit  == 2 ^ bits
  IN Bytes4([i \in 1 .. 4 |->
       (at(i + bytes) \div unit) + ((at(i + bytes + 1) % unit) * (256 \div unit))])

\* a % n
Modulo(a, n) == FoldRight(LAMBDA byte, rest : (rest * 256 + byte) % n, a, 0)

\* The integer part of (a / 2^32) * n.
Scaled(a, n) == FoldLeft(LAMBDA carry, byte : (byte * n + carry) \div 256, 0, a)
=============================================================================
