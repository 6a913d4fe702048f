-------------------------------- MODULE LeftFold --------------------------------
(***************************************************************************)
(* What FoldLeft of SequencesExt computes, for a step that is given when   *)
(* the module is instantiated, and an invariant of its turns.  The step    *)
(* has two parameters for whatever it uses besides the result so far and   *)
(* the element; the invariant has one of its own.                          *)
(***************************************************************************)
EXTENDS SequencesExt, Integers, WellFoundedInduction, TLAPS

CONSTANTS
  Op(_, _, _, _),   \* Op(par, aux, acc, element)
  Inv(_, _, _)      \* Inv(ctx, turn, acc)

\* A set of natural numbers has a least element.
LEMMA LeastNumber ==
  ASSUME NEW T \in SUBSET Nat, T # {}
  PROVE  \E m \in T : \A k \in T : m <= k
<1>1. PICK m \in T : \A k \in T : <<k, m>> \notin OpToRel(<, Nat)
  BY NatLessThanWellFounded, WFMin
<1>2. \A k \in T : ~ (k < m)
  BY <1>1 DEF OpToRel
<1> QED
  BY <1>2

\* A set with 0, and with n + 1 whenever it has n, has every number.
LEMMA EveryNumber ==
  ASSUME NEW T, 0 \in T, \A n \in Nat : n \in T => n + 1 \in T
  PROVE  Nat \subseteq T
<1>1. SUFFICES ASSUME Nat \ T # {} PROVE FALSE
  OBVIOUS
<1>2. PICK m \in Nat \ T : \A k \in Nat \ T : m <= k
  BY <1>1, LeastNumber
<1>3. m # 0 /\ m - 1 \in Nat /\ m - 1 \in T
  BY <1>2
<1> QED
  BY <1>2, <1>3

Folded(par, aux, base, seq) ==
  FoldLeft(LAMBDA acc, element : Op(par, aux, acc, element), base, seq)

\* The iteration behind FoldLeft, on the sets of the first k indices.
Iterates(F, k, par, aux, base, seq) ==
  F = [T \in SUBSET (1 .. k) |->
         IF T = {} THEN base ELSE Op(par, aux, F[T \ {Max(T)}], seq[Max(T)])]

Iterable(k) == \A par, aux, base, seq : \E F : Iterates(F, k, par, aux, base, seq)

\* h gives what has been made of the first i elements.
Steps(h, n, par, aux, base, seq) ==
  /\ h[0] = base
  /\ \A i \in 1 .. n : h[i] = Op(par, aux, h[i - 1], seq[i])
  /\ Folded(par, aux, base, seq) = h[n]

\* A set of numbers up to k has a greatest element, and Max is it.
LEMMA MaxOfNumbers ==
  ASSUME NEW k \in Nat, NEW T \in SUBSET (1 .. k), T # {}
  PROVE  /\ Max(T) \in T
         /\ \A i \in T : i <= Max(T)
<1> DEFINE Under == {n \in Nat : \A i \in T : i <= n}
<1>1. k \in Under
  OBVIOUS
<1>2. PICK m \in Under : \A n \in Under : m <= n
  BY <1>1, LeastNumber
<1>3. m \in T
  <2> SUFFICES ASSUME m \notin T PROVE FALSE
    OBVIOUS
  <2>1. \A i \in T : i <= m - 1
    OBVIOUS
  <2>2. m - 1 \in Nat
    <3>1. PICK i \in T : TRUE
      OBVIOUS
    <3> QED
      BY <2>1, <3>1
  <2> QED
    BY <1>2, <2>1, <2>2
<1>4. \A i \in T : m >= i
  OBVIOUS
<1> QED
  BY <1>3, <1>4 DEF Max

\* In a set of numbers up to k that has k, Max is k.
LEMMA LastIsMax ==
  ASSUME NEW k \in Nat, NEW T \in SUBSET (1 .. k), k \in T
  PROVE  Max(T) = k
<1>1. Max(T) \in T /\ k <= Max(T)
  BY MaxOfNumbers
<1>2. Max(T) \in 1 .. k
  BY <1>1
<1> QED
  BY <1>1, <1>2

\* An iteration over k elements extends to one over k + 1.
LEMMA IterationGrows ==
  ASSUME NEW k \in Nat, NEW par, NEW aux, NEW base, NEW seq, NEW F, Iterates(F, k, par, aux, base, seq)
  PROVE  \E G : Iterates(G, k + 1, par, aux, base, seq)
<1> DEFINE G == [T \in SUBSET (1 .. k + 1) |->
                   IF k + 1 \notin T THEN F[T] ELSE Op(par, aux, F[T \ {k + 1}], seq[k + 1])]
           Next(H, T) == IF T = {} THEN base ELSE Op(par, aux, H[T \ {Max(T)}], seq[Max(T)])
<1>1. ASSUME NEW T \in SUBSET (1 .. k + 1)
      PROVE  G[T] = Next(G, T)
  <2>1. CASE k + 1 \in T
    <3>1. Max(T) = k + 1
      <4>1. k + 1 \in Nat
        OBVIOUS
      <4> QED
        BY <2>1, <4>1, LastIsMax
    <3>2. T \ {k + 1} \in SUBSET (1 .. k + 1) /\ k + 1 \notin T \ {k + 1} /\ T # {}
      BY <2>1
    <3>3. G[T \ {k + 1}] = F[T \ {k + 1}]
      BY <3>2
    <3>4. G[T] = Op(par, aux, F[T \ {k + 1}], seq[k + 1])
      BY <2>1
    <3> QED
      BY <3>1, <3>2, <3>3, <3>4
  <2>2. CASE k + 1 \notin T
    <3>1. T \in SUBSET (1 .. k) /\ T \ {Max(T)} \in SUBSET (1 .. k)
      <4>1. \A i \in T : i \in 1 .. k
        BY <2>2
      <4> QED
        BY <4>1
    <3>2. G[T] = F[T] /\ G[T \ {Max(T)}] = F[T \ {Max(T)}]
      BY <2>2, <3>1
    <3>3. F[T] = Next(F, T)
      BY <3>1 DEF Iterates
    <3> QED
      BY <3>2, <3>3
  <2> QED
    BY <2>1, <2>2
<1>2. G = [T \in SUBSET (1 .. k + 1) |-> Next(G, T)]
  <2>1. DOMAIN G = SUBSET (1 .. k + 1) /\ G = [T \in DOMAIN G |-> G[T]]
    OBVIOUS
  <2> HIDE DEF G, Next
  <2> QED
    BY <1>1, <2>1
<1>3. Iterates(G, k + 1, par, aux, base, seq)
  BY <1>2 DEF Iterates
<1> QED
  BY <1>3

\* The iteration behind a fold exists, however long the sequence.
LEMMA IterationExists == \A k \in Nat : Iterable(k)
<1>1. Iterable(0)
  <2> SUFFICES ASSUME NEW par, NEW aux, NEW base, NEW seq
               PROVE  \E F : Iterates(F, 0, par, aux, base, seq)
    BY DEF Iterable
  <2> DEFINE F == [T \in SUBSET (1 .. 0) |-> base]
  <2>1. \A T \in SUBSET (1 .. 0) : T = {}
    OBVIOUS
  <2>2. F = [T \in SUBSET (1 .. 0) |->
               IF T = {} THEN base ELSE Op(par, aux, F[T \ {Max(T)}], seq[Max(T)])]
    BY <2>1
  <2> QED
    BY <2>2 DEF Iterates
<1>2. \A k \in Nat : Iterable(k) => Iterable(k + 1)
  BY IterationGrows DEF Iterable
<1> QED
  <2> DEFINE Holds == {n \in Nat : Iterable(n)}
  <2>1. 0 \in Holds /\ \A n \in Nat : n \in Holds => n + 1 \in Holds
    BY <1>1, <1>2
  <2> HIDE DEF Holds
  <2>2. Nat \subseteq Holds
    BY <2>1, EveryNumber
  <2> QED
    BY <2>2 DEF Holds

\* A fold goes through the sequence from its first element to its last.
THEOREM FoldSteps ==
  ASSUME NEW par, NEW aux, NEW base, NEW seq, NEW n \in Nat, DOMAIN seq = 1 .. n
  PROVE  \E h : Steps(h, n, par, aux, base, seq)
<1> DEFINE F == CHOOSE F : Iterates(F, n, par, aux, base, seq)
           h == [i \in 0 .. n |-> F[1 .. i]]
<1>1. Iterates(F, n, par, aux, base, seq)
  BY IterationExists DEF Iterable
<1>2. Folded(par, aux, base, seq) = F[1 .. n]
  BY DEF Folded, FoldLeft, MapThenFoldSet, Iterates
<1> HIDE DEF F
<1>3. h[0] = base
  <2>1. 1 .. 0 = {} /\ 1 .. 0 \in SUBSET (1 .. n)
    OBVIOUS
  <2>2. F[1 .. 0] = base
    BY <1>1, <2>1 DEF Iterates
  <2> QED
    BY <2>2
<1>4. ASSUME NEW i \in 1 .. n
      PROVE  h[i] = Op(par, aux, h[i - 1], seq[i])
  <2>1. 1 .. i \in SUBSET (1 .. i) /\ 1 .. i # {} /\ 1 .. i \in SUBSET (1 .. n)
    OBVIOUS
  <2>2. Max(1 .. i) = i
    <3>1. i \in Nat /\ i \in 1 .. i
      OBVIOUS
    <3> QED
      BY <2>1, <3>1, LastIsMax
  <2>3. (1 .. i) \ {i} = 1 .. i - 1
    OBVIOUS
  <2>4. F[1 .. i] = Op(par, aux, F[1 .. i - 1], seq[i])
    BY <1>1, <2>1, <2>2, <2>3 DEF Iterates
  <2> QED
    BY <2>4
<1>5. n \in 0 .. n
  OBVIOUS
<1>6. Steps(h, n, par, aux, base, seq)
  BY <1>2, <1>3, <1>4, <1>5 DEF Steps
<1> QED
  BY <1>6

\* What holds of the base, and goes on to hold turn by turn, holds of the fold.
THEOREM FoldKeeps ==
  ASSUME NEW par, NEW aux, NEW ctx, NEW base, NEW seq, NEW n \in Nat, DOMAIN seq = 1 .. n,
         Inv(ctx, 0, base),
         \A i \in 1 .. n : \A acc : Inv(ctx, i - 1, acc) => Inv(ctx, i, Op(par, aux, acc, seq[i]))
  PROVE  Inv(ctx, n, Folded(par, aux, base, seq))
<1>1. PICK h : Steps(h, n, par, aux, base, seq)
  BY FoldSteps
<1> DEFINE Broken == {i \in 0 .. n : ~Inv(ctx, i, h[i])}
<1>2. ASSUME Broken # {} PROVE FALSE
  <2>1. Broken \in SUBSET Nat
    OBVIOUS
  <2>2. PICK i \in Broken : \A j \in Broken : i <= j
    BY <1>2, <2>1, LeastNumber
  <2>3. i \in 1 .. n /\ i - 1 \in 0 .. n /\ i - 1 \notin Broken
    BY <1>1, <2>2 DEF Steps
  <2>4. Inv(ctx, i - 1, h[i - 1])
    BY <2>3
  <2>5. Inv(ctx, i, h[i])
    BY <1>1, <2>3, <2>4 DEF Steps
  <2> QED
    BY <2>2, <2>5
<1>3. n \in 0 .. n
  OBVIOUS
<1> QED
  BY <1>1, <1>2, <1>3 DEF Steps
=============================================================================
