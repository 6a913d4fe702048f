------------------------------- MODULE KernelRandom -------------------------------
(***************************************************************************)
(* The random numbers of src/src/shell/kernel/rng.ts: mulberry32 as a pure *)
(* step, so that a generator is a part of the engine's state.  Its state   *)
(* is one word.                                                            *)
(***************************************************************************)
EXTENDS Word32

\* Seeds are small.
CreateRng(seed) == <<seed % 256, seed \div 256, 0, 0>>

Increment == <<245, 121, 43, 109>>    \* 0x6d2b79f5

\* The state after a draw.
NextState(rng) == Plus(rng, Increment)

\* The 32 bits of a draw, which nextFloat divides by 2^32.
Bits(t) ==
  LET first  == Multiply(XorWords(t, ShiftRight(t, 1, 7)), OrByte(t, 1))
      second == Plus(first, Multiply(XorWords(first, ShiftRight(first, 0, 7)), OrByte(first, 61)))
      r      == XorWords(first, second)
  IN XorWords(r, ShiftRight(r, 1, 6))

\* nextInt: a number below maxExclusive, and the generator's next state.
NextInt(rng, maxExclusive) ==
  [value |-> Scaled(Bits(NextState(rng)), maxExclusive), rng |-> NextState(rng)]
=============================================================================
