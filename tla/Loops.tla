--------------------------------- MODULE Loops ---------------------------------
(***************************************************************************)
(* What Loop of KernelClock computes, for a test and a turn that are given *)
(* when the module is instantiated, and an invariant of the turns.  The    *)
(* test and the turn have a parameter for whatever they use besides the    *)
(* state of the loop; the invariant has one of its own.                    *)
(***************************************************************************)
EXTENDS Integers, WellFoundedInduction, TLAPS

CONSTANTS
  Ends(_, _),     \* Ends(par, state)
  Turn(_, _),     \* Turn(par, state)
  Inv(_, _, _)    \* Inv(ctx, turn, state)

\* A set of natural numbers has a least element.
LEMMA LeastNumber ==
  ASSUME NEW T \in SUBSET Nat, T # {}
  PROVE  \E m \in T : \A k \in T : m <= k
<1>1. PICK m \in T : \A k \in T : <<k, m>> \notin OpToRel(<, Nat)
  BY NatLessThanWellFounded, WFMin
<1>2. \A k \in T : ~ (k < m)
  BY <1>1 DEF OpToRel
<1> QED
  BY <1>2

\* A set with 0, and with n + 1 whenever it has n, has every number.
LEMMA EveryNumber ==
  ASSUME NEW T, 0 \in T, \A n \in Nat : n \in T => n + 1 \in T
  PROVE  Nat \subseteq T
<1>1. SUFFICES ASSUME Nat \ T # {} PROVE FALSE
  OBVIOUS
<1>2. PICK m \in Nat \ T : \A k \in Nat \ T : m <= k
  BY <1>1, LeastNumber
<1>3. m # 0 /\ m - 1 \in Nat /\ m - 1 \in T
  BY <1>2
<1> QED
  BY <1>2, <1>3

\* What comes of a state, for each number of turns up to k that are left.
Iterates(F, k, par, States) ==
  F = [n \in 0 .. k |->
         [s \in States |-> IF n = 0 \/ Ends(par, s) THEN s ELSE F[n - 1][Turn(par, s)]]]

Looped(par, turns, States, start) ==
  LET after[n \in 0 .. turns] ==
        [s \in States |-> IF n = 0 \/ Ends(par, s) THEN s ELSE after[n - 1][Turn(par, s)]]
  IN after[turns][start]

Iterable(k) == \A par, States : \E F : Iterates(F, k, par, States)

\* An iteration of up to k turns extends to one of up to k + 1.
LEMMA IterationGrows ==
  ASSUME NEW k \in Nat, NEW par, NEW States, NEW F, Iterates(F, k, par, States)
  PROVE  \E G : Iterates(G, k + 1, par, States)
<1> DEFINE Row(H, n) ==
             [s \in States |-> IF n = 0 \/ Ends(par, s) THEN s ELSE H[n - 1][Turn(par, s)]]
           G == [n \in 0 .. k + 1 |-> IF n = k + 1 THEN Row(F, k + 1) ELSE F[n]]
<1>1. ASSUME NEW n \in 0 .. k + 1
      PROVE  G[n] = Row(G, n)
  <2>1. \A m \in 0 .. k : G[m] = F[m]
    OBVIOUS
  <2>2. n # 0 => n - 1 \in 0 .. k
    OBVIOUS
  <2>3. n # 0 => G[n - 1] = F[n - 1]
    BY <2>1, <2>2
  <2>4. Row(F, n) = Row(G, n)
    <3> HIDE DEF G
    <3> QED
      BY <2>3
  <2>5. CASE n = k + 1
    BY <2>4, <2>5
  <2>6. CASE n \in 0 .. k
    <3>1. F[n] = Row(F, n)
      BY <2>6 DEF Iterates
    <3> HIDE DEF G, Row
    <3> QED
      BY <2>1, <2>4, <2>6, <3>1
  <2> QED
    BY <2>5, <2>6
<1>2. G = [n \in 0 .. k + 1 |-> Row(G, n)]
  <2>1. DOMAIN G = 0 .. k + 1 /\ G = [n \in DOMAIN G |-> G[n]]
    OBVIOUS
  <2> HIDE DEF G, Row
  <2> QED
    BY <1>1, <2>1
<1>3. Iterates(G, k + 1, par, States)
  BY <1>2 DEF Iterates
<1> QED
  BY <1>3

\* There is an iteration for every number of turns.
LEMMA IterationExists == \A k \in Nat : Iterable(k)
<1>1. Iterable(0)
  <2> SUFFICES ASSUME NEW par, NEW States
               PROVE  \E F : Iterates(F, 0, par, States)
    BY DEF Iterable
  <2> DEFINE F == [n \in 0 .. 0 |-> [s \in States |-> s]]
  <2>1. \A n \in 0 .. 0 : n = 0
    OBVIOUS
  <2>2. F = [n \in 0 .. 0 |->
               [s \in States |-> IF n = 0 \/ Ends(par, s) THEN s ELSE F[n - 1][Turn(par, s)]]]
    BY <2>1
  <2> QED
    BY <2>2 DEF Iterates
<1>2. \A k \in Nat : Iterable(k) => Iterable(k + 1)
  BY IterationGrows DEF Iterable
<1> QED
  <2> DEFINE Holds == {n \in Nat : Iterable(n)}
  <2>1. 0 \in Holds /\ \A n \in Nat : n \in Holds => n + 1 \in Holds
    BY <1>1, <1>2
  <2> HIDE DEF Holds
  <2>2. Nat \subseteq Holds
    BY <2>1, EveryNumber
  <2> QED
    BY <2>2 DEF Holds

\* F says what comes of each state, turn by turn.
Rows(F, turns, par, States) ==
  \A s \in States :
    /\ F[0][s] = s
    /\ \A n \in 0 .. turns : Ends(par, s) => F[n][s] = s
    /\ \A n \in 1 .. turns : ~Ends(par, s) => F[n][s] = F[n - 1][Turn(par, s)]

\* A loop unfolds: with turns left it makes one and goes on with one less.
LEMMA LoopUnfolds ==
  ASSUME NEW par, NEW turns \in Nat, NEW States
  PROVE  \E F : /\ Rows(F, turns, par, States)
                /\ \A start : Looped(par, turns, States, start) = F[turns][start]
<1> DEFINE F == CHOOSE F : Iterates(F, turns, par, States)
<1>1. Iterates(F, turns, par, States)
  BY IterationExists DEF Iterable
<1>2. \A start : Looped(par, turns, States, start) = F[turns][start]
  BY DEF Looped, Iterates
<1> HIDE DEF F
<1>3. ASSUME NEW s \in States, NEW n \in 0 .. turns
      PROVE  F[n][s] = IF n = 0 \/ Ends(par, s) THEN s ELSE F[n - 1][Turn(par, s)]
  <2> DEFINE Row(m) == [t \in States |-> IF m = 0 \/ Ends(par, t) THEN t ELSE F[m - 1][Turn(par, t)]]
  <2>1. F[n] = Row(n)
    BY <1>1, Zenon DEF Iterates
  <2>2. Row(n)[s] = IF n = 0 \/ Ends(par, s) THEN s ELSE F[n - 1][Turn(par, s)]
    OBVIOUS
  <2> QED
    BY <2>1, <2>2
<1>4. Rows(F, turns, par, States)
  BY <1>3 DEF Rows
<1> QED
  BY <1>2, <1>4

\* A loop whose start ends it makes no turn.
THEOREM LoopStops ==
  ASSUME NEW par, NEW turns \in Nat, NEW States, NEW start \in States, Ends(par, start)
  PROVE  Looped(par, turns, States, start) = start
<1>1. PICK F : /\ Rows(F, turns, par, States)
               /\ \A s : Looped(par, turns, States, s) = F[turns][s]
  BY LoopUnfolds
<1>2. turns \in 0 .. turns
  OBVIOUS
<1> QED
  BY <1>1, <1>2 DEF Rows

\* The next state of a loop, which stays where it is when the loop has ended.
Next(par, s) == IF Ends(par, s) THEN s ELSE Turn(par, s)

\* What holds of the start, and goes on to hold turn by turn, holds of what the
\* loop gives.
THEOREM LoopKeeps ==
  ASSUME NEW par, NEW turns \in Nat, NEW States, NEW start \in States, NEW ctx,
         Inv(ctx, 0, start),
         \A i \in 1 .. turns : \A s \in States :
           Inv(ctx, i - 1, s) => Next(par, s) \in States /\ Inv(ctx, i, Next(par, s))
  PROVE  /\ Looped(par, turns, States, start) \in States
         /\ Inv(ctx, turns, Looped(par, turns, States, start))
<1>1. PICK F : /\ Rows(F, turns, par, States)
               /\ \A s : Looped(par, turns, States, s) = F[turns][s]
  BY LoopUnfolds
<1> DEFINE Left(i, s) == Inv(ctx, i, s) /\ F[turns - i][s] = F[turns][start]
           Broken == {i \in 0 .. turns : \A s \in States : ~Left(i, s)}
<1>2. ASSUME Broken # {} PROVE FALSE
  <2>1. Broken \in SUBSET Nat
    OBVIOUS
  <2>2. PICK i \in Broken : \A j \in Broken : i <= j
    BY <1>2, <2>1, LeastNumber
  <2>3. Left(0, start)
    OBVIOUS
  <2>4. i \in 1 .. turns
    BY <2>2, <2>3
  <2>5. i - 1 \in 0 .. turns /\ i - 1 \notin Broken
    BY <2>2, <2>4
  <2>6. PICK s \in States : Left(i - 1, s)
    BY <2>5
  <2>7. Next(par, s) \in States /\ Inv(ctx, i, Next(par, s))
    BY <2>4, <2>6
  <2>8. F[turns - i][Next(par, s)] = F[turns][start]
    <3>1. turns - i \in 0 .. turns /\ turns - (i - 1) \in 1 .. turns
      BY <2>4
    <3>2. turns - (i - 1) \in 0 .. turns /\ turns - i = (turns - (i - 1)) - 1
      BY <2>4
    <3>3. CASE Ends(par, s)
      BY <1>1, <2>6, <3>1, <3>2, <3>3 DEF Rows, Next
    <3>4. CASE ~Ends(par, s)
      BY <1>1, <2>6, <3>1, <3>2, <3>4 DEF Rows, Next
    <3> QED
      BY <3>3, <3>4
  <2> QED
    BY <2>2, <2>7, <2>8
<1>3. turns \in 0 .. turns /\ turns - turns = 0
  OBVIOUS
<1>4. PICK s \in States : Left(turns, s)
  BY <1>2, <1>3
<1>5. F[turns][start] = s
  BY <1>1, <1>3, <1>4 DEF Rows
<1> QED
  BY <1>1, <1>4, <1>5

\* A loop that has ended within its turns gives the same one turn later.
THEOREM LoopGoesOn ==
  ASSUME NEW par, NEW turns \in Nat \ {0}, NEW States, NEW start \in States,
         \A s \in States : Next(par, s) \in States,
         Ends(par, Looped(par, turns, States, start))
  PROVE  Looped(par, turns, States, Next(par, start)) = Looped(par, turns, States, start)
<1>1. PICK F : /\ Rows(F, turns, par, States)
               /\ \A s : Looped(par, turns, States, s) = F[turns][s]
  BY LoopUnfolds
<1> DEFINE Same(n) == \A s \in States : Ends(par, F[n][s]) => F[n + 1][s] = F[n][s]
           Broken == {n \in 0 .. turns - 1 : ~Same(n)}
<1>2. Broken = {}
  <2> SUFFICES ASSUME Broken # {} PROVE FALSE
    OBVIOUS
  <2>1. Broken \in SUBSET Nat
    OBVIOUS
  <2>2. PICK n \in Broken : \A j \in Broken : n <= j
    BY <2>1, LeastNumber
  <2>3. PICK s \in States : Ends(par, F[n][s]) /\ F[n + 1][s] # F[n][s]
    BY <2>2
  <2>4. n \in 0 .. turns /\ n + 1 \in 1 .. turns /\ n + 1 \in 0 .. turns /\ (n + 1) - 1 = n
    BY <2>2
  <2>5. ~Ends(par, s)
    <3> SUFFICES ASSUME Ends(par, s) PROVE FALSE
      OBVIOUS
    <3>1. F[n][s] = s /\ F[n + 1][s] = s
      BY <1>1, <2>4 DEF Rows
    <3> QED
      BY <2>3, <3>1
  <2>6. F[n + 1][s] = F[n][Turn(par, s)]
    BY <1>1, <2>4, <2>5 DEF Rows
  <2>7. n # 0
    <3> SUFFICES ASSUME n = 0 PROVE FALSE
      OBVIOUS
    <3>1. F[0][s] = s
      BY <1>1 DEF Rows
    <3> QED
      BY <2>3, <2>5, <3>1
  <2>8. n - 1 \in 0 .. turns - 1 /\ n - 1 \notin Broken /\ n \in 1 .. turns /\ (n - 1) + 1 = n
    BY <2>2, <2>7
  <2>9. F[n][s] = F[n - 1][Turn(par, s)] /\ Turn(par, s) \in States
    BY <1>1, <2>5, <2>8 DEF Rows, Next
  <2>10. F[n][Turn(par, s)] = F[n - 1][Turn(par, s)]
    BY <2>3, <2>8, <2>9
  <2> QED
    BY <2>3, <2>6, <2>9, <2>10
<1>3. turns \in 1 .. turns /\ turns \in 0 .. turns /\ turns - 1 \in 0 .. turns - 1 /\ (turns - 1) + 1 = turns
  OBVIOUS
<1>4. CASE Ends(par, start)
  BY <1>4 DEF Next
<1>5. CASE ~Ends(par, start)
  <2>1. F[turns][start] = F[turns - 1][Turn(par, start)] /\ Turn(par, start) \in States
    BY <1>1, <1>3, <1>5 DEF Rows, Next
  <2>2. F[turns][Turn(par, start)] = F[turns - 1][Turn(par, start)]
    BY <1>1, <1>2, <1>3, <2>1
  <2> QED
    BY <1>1, <1>5, <2>1, <2>2 DEF Next
<1> QED
  BY <1>4, <1>5
=============================================================================
