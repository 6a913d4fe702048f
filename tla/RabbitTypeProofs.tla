------------------------------ MODULE RabbitTypeProofs ------------------------------
(***************************************************************************)
(* What the operators of RabbitQueue and RabbitBroker give, and the types  *)
(* of RabbitBroker, for every topology, script and number of messages; and *)
(* which destinations RabbitRouting resolves to.                           *)
(*                                                                         *)
(* The first three parts are about data: sums of functions over finite     *)
(* sets, numbers of elements of a sequence and of events in a bag.         *)
(***************************************************************************)
EXTENDS RabbitBroker, RabbitRouting, FiniteSetTheorems, FunctionTheorems, SequenceTheorems,
        WellFoundedInduction, TLAPS

-----------------------------------------------------------------------------
(* Numbers.                                                                  *)

\* A set of natural numbers has a least element.
LEMMA LeastNumber ==
  ASSUME NEW T \in SUBSET Nat, T # {}
  PROVE  \E m \in T : \A k \in T : m <= k
<1>1. PICK m \in T : \A k \in T : <<k, m>> \notin OpToRel(<, Nat)
  BY NatLessThanWellFounded, WFMin
<1>2. \A k \in T : ~ (k < m)
  BY <1>1 DEF OpToRel
<1> QED
  BY <1>2

\* A set with 0, and with n + 1 whenever it has n, has every number.
LEMMA EveryNumber ==
  ASSUME NEW T, 0 \in T, \A n \in Nat : n \in T => n + 1 \in T
  PROVE  Nat \subseteq T
<1>1. SUFFICES ASSUME Nat \ T # {} PROVE FALSE
  OBVIOUS
<1>2. PICK m \in Nat \ T : \A k \in Nat \ T : m <= k
  BY <1>1, LeastNumber
<1>3. m # 0 /\ m - 1 \in Nat /\ m - 1 \in T
  BY <1>2
<1> QED
  BY <1>2, <1>3

-----------------------------------------------------------------------------
(* Sums: what SumFunctionOnSet computes over a finite set.                   *)

Sum(f, S) == SumFunctionOnSet(f, S)

Chosen(S) == CHOOSE x \in S : TRUE

UpTo(S, n) == {T \in SUBSET S : IsFiniteSet(T) /\ Cardinality(T) <= n}

\* The iteration behind a sum, on the subsets with at most n elements.
SumsUpTo(F, f, S, n) ==
  F = [T \in UpTo(S, n) |-> IF T = {} THEN 0 ELSE f[Chosen(T)] + F[T \ {Chosen(T)}]]

Sums(F, f, S) ==
  F = [T \in SUBSET S |-> IF T = {} THEN 0 ELSE f[Chosen(T)] + F[T \ {Chosen(T)}]]

Summable(n) == \A f, S : \E F : SumsUpTo(F, f, S, n)

\* A set without one of its elements has one element less.
LEMMA OneLess ==
  ASSUME NEW T, IsFiniteSet(T), NEW x \in T
  PROVE  /\ IsFiniteSet(T \ {x})
         /\ Cardinality(T) \in Nat \ {0}
         /\ Cardinality(T \ {x}) = Cardinality(T) - 1
  BY FS_RemoveElement, FS_CardinalityType, FS_EmptySet

LEMMA ChosenIsElement ==
  ASSUME NEW T, T # {}
  PROVE  Chosen(T) \in T
  BY DEF Chosen

\* The iteration goes on from n elements to n + 1.
LEMMA SumsGrow ==
  ASSUME NEW n \in Nat, NEW f, NEW S, NEW F, SumsUpTo(F, f, S, n)
  PROVE  \E G : SumsUpTo(G, f, S, n + 1)
<1> DEFINE Turn(H, T) == IF T = {} THEN 0 ELSE f[Chosen(T)] + H[T \ {Chosen(T)}]
           G == [T \in UpTo(S, n + 1) |-> IF T \in UpTo(S, n) THEN F[T] ELSE Turn(F, T)]
<1>1. ASSUME NEW T \in UpTo(S, n + 1)
      PROVE  G[T] = Turn(G, T)
  <2>1. CASE T = {}
    <3>1. T \in UpTo(S, n)
      BY <2>1, FS_EmptySet DEF UpTo
    <3>2. G[T] = F[T]
      BY <3>1
    <3>3. F[T] = 0
      BY <2>1, <3>1 DEF SumsUpTo
    <3> QED
      BY <2>1, <3>2, <3>3
  <2>2. CASE T # {}
    <3> DEFINE rest == T \ {Chosen(T)}
    <3>1. /\ IsFiniteSet(rest) /\ rest \in SUBSET S
          /\ Cardinality(T) \in Nat /\ Cardinality(rest) = Cardinality(T) - 1
      BY <2>2, ChosenIsElement, OneLess DEF UpTo
    <3>2. rest \in UpTo(S, n) /\ rest \in UpTo(S, n + 1)
      BY <3>1 DEF UpTo
    <3>3. G[rest] = F[rest]
      BY <3>2
    <3>4. T \in UpTo(S, n) => F[T] = f[Chosen(T)] + F[rest]
      BY <2>2 DEF SumsUpTo
    <3> HIDE DEF rest
    <3>5. G[T] = f[Chosen(T)] + F[rest]
      BY <2>2, <3>4 DEF rest
    <3>6. Turn(G, T) = f[Chosen(T)] + G[rest]
      BY <2>2 DEF rest
    <3> QED
      BY <3>3, <3>5, <3>6
  <2> QED
    BY <2>1, <2>2
<1>2. G = [T \in UpTo(S, n + 1) |-> Turn(G, T)]
  <2>1. DOMAIN G = UpTo(S, n + 1) /\ G = [T \in DOMAIN G |-> G[T]]
    OBVIOUS
  <2> HIDE DEF G, Turn
  <2> QED
    BY <1>1, <2>1
<1>3. SumsUpTo(G, f, S, n + 1)
  BY <1>2 DEF SumsUpTo
<1> QED
  BY <1>3

LEMMA SumsExist ==
  ASSUME NEW f, NEW S, IsFiniteSet(S)
  PROVE  \E F : Sums(F, f, S)
<1>1. Summable(0)
  <2> SUFFICES ASSUME NEW g, NEW R PROVE \E F : SumsUpTo(F, g, R, 0)
    BY DEF Summable
  <2> DEFINE F == [T \in UpTo(R, 0) |-> 0]
  <2>1. \A T \in UpTo(R, 0) : T = {}
    <3> SUFFICES ASSUME NEW T \in UpTo(R, 0), T # {} PROVE FALSE
      OBVIOUS
    <3>1. PICK x \in T : TRUE
      OBVIOUS
    <3>2. Cardinality(T) \in Nat \ {0} /\ Cardinality(T) <= 0
      BY <3>1, OneLess DEF UpTo
    <3> QED
      BY <3>2
  <2>2. F = [T \in UpTo(R, 0) |-> IF T = {} THEN 0 ELSE g[Chosen(T)] + F[T \ {Chosen(T)}]]
    BY <2>1
  <2> QED
    BY <2>2 DEF SumsUpTo
<1>2. \A n \in Nat : Summable(n) => Summable(n + 1)
  BY SumsGrow DEF Summable
<1>3. \A n \in Nat : Summable(n)
  <2> DEFINE Holds == {n \in Nat : Summable(n)}
  <2>1. 0 \in Holds /\ \A n \in Nat : n \in Holds => n + 1 \in Holds
    BY <1>1, <1>2
  <2> HIDE DEF Holds
  <2>2. Nat \subseteq Holds
    BY <2>1, EveryNumber
  <2> QED
    BY <2>2 DEF Holds
<1>4. Cardinality(S) \in Nat
  BY FS_CardinalityType
<1>5. UpTo(S, Cardinality(S)) = SUBSET S
  BY FS_Subset DEF UpTo
<1>6. PICK F : SumsUpTo(F, f, S, Cardinality(S))
  BY <1>3, <1>4 DEF Summable
<1> QED
  BY <1>5, <1>6 DEF SumsUpTo, Sums

Same(n) ==
  \A f, S, R, T, F, G :
    /\ Sums(F, f, S) /\ Sums(G, f, R) /\ T \subseteq S \cap R
    /\ IsFiniteSet(T) /\ Cardinality(T) = n
    => F[T] = G[T]

\* Iterations over different sets agree where both are defined.
LEMMA SumsAgree == \A n \in Nat : Same(n)
<1>1. Same(0)
  BY FS_EmptySet DEF Same, Sums
<1>2. ASSUME NEW n \in Nat, Same(n) PROVE Same(n + 1)
  <2> SUFFICES ASSUME NEW f, NEW S, NEW R, NEW T, NEW F, NEW G, Sums(F, f, S), Sums(G, f, R),
                      T \subseteq S \cap R, IsFiniteSet(T), Cardinality(T) = n + 1
               PROVE  F[T] = G[T]
    BY DEF Same
  <2>1. T # {}
    BY FS_EmptySet
  <2> DEFINE rest == T \ {Chosen(T)}
  <2>2. IsFiniteSet(rest) /\ Cardinality(rest) = n /\ rest \subseteq S \cap R
    BY <2>1, ChosenIsElement, OneLess
  <2>3. F[rest] = G[rest]
    BY <1>2, <2>2 DEF Same
  <2>4. F[T] = f[Chosen(T)] + F[rest] /\ G[T] = f[Chosen(T)] + G[rest]
    BY <2>1 DEF Sums
  <2> QED
    BY <2>3, <2>4
<1> QED
  <2> DEFINE Holds == {n \in Nat : Same(n)}
  <2>1. 0 \in Holds /\ \A n \in Nat : n \in Holds => n + 1 \in Holds
    BY <1>1, <1>2
  <2> HIDE DEF Holds
  <2>2. Nat \subseteq Holds
    BY <2>1, EveryNumber
  <2> QED
    BY <2>2 DEF Holds

\* A sum adds the values up one by one.
LEMMA SumTurns ==
  ASSUME NEW f, NEW S, IsFiniteSet(S)
  PROVE  /\ Sum(f, {}) = 0
         /\ S # {} => Sum(f, S) = f[Chosen(S)] + Sum(f, S \ {Chosen(S)})
<1>1. ASSUME NEW T, IsFiniteSet(T)
      PROVE  \E F : Sums(F, f, T) /\ Sum(f, T) = F[T]
  <2> DEFINE F == CHOOSE F : Sums(F, f, T)
  <2>1. Sums(F, f, T)
    BY <1>1, SumsExist
  <2>2. Sum(f, T) = F[T]
    BY DEF Sum, SumFunctionOnSet, FoldFunctionOnSet, MapThenFoldSet, Sums, Chosen
  <2> QED
    BY <2>1, <2>2
<1>2. Sum(f, {}) = 0
  BY <1>1, FS_EmptySet DEF Sums
<1>3. ASSUME S # {} PROVE Sum(f, S) = f[Chosen(S)] + Sum(f, S \ {Chosen(S)})
  <2> DEFINE rest == S \ {Chosen(S)}
  <2>1. IsFiniteSet(rest) /\ Cardinality(rest) \in Nat
    BY FS_RemoveElement, FS_CardinalityType
  <2>2. PICK F : Sums(F, f, S) /\ Sum(f, S) = F[S]
    BY <1>1
  <2>3. PICK G : Sums(G, f, rest) /\ Sum(f, rest) = G[rest]
    BY <1>1, <2>1
  <2>4. F[rest] = G[rest]
    BY <2>1, <2>2, <2>3, SumsAgree DEF Same
  <2>5. F[S] = f[Chosen(S)] + F[rest]
    BY <1>3, <2>2 DEF Sums
  <2> QED
    BY <2>2, <2>3, <2>4, <2>5
<1> QED
  BY <1>2, <1>3

Natural(n) ==
  \A S, f : /\ IsFiniteSet(S) /\ Cardinality(S) = n
            /\ \A x \in S : f[x] \in Nat
            => Sum(f, S) \in Nat

\* A sum of natural numbers is one.
LEMMA SumIsNumber ==
  ASSUME NEW S, IsFiniteSet(S), NEW f, \A x \in S : f[x] \in Nat
  PROVE  Sum(f, S) \in Nat
<1>1. Natural(0)
  <2> SUFFICES ASSUME NEW T, IsFiniteSet(T), Cardinality(T) = 0, NEW g
               PROVE  Sum(g, T) \in Nat
    BY DEF Natural
  <2>1. T = {}
    BY FS_EmptySet
  <2>2. Sum(g, {}) = 0
    BY SumTurns, FS_EmptySet
  <2> QED
    BY <2>1, <2>2
<1>2. ASSUME NEW n \in Nat, Natural(n) PROVE Natural(n + 1)
  <2> SUFFICES ASSUME NEW T, IsFiniteSet(T), Cardinality(T) = n + 1, NEW g, \A x \in T : g[x] \in Nat
               PROVE  Sum(g, T) \in Nat
    BY DEF Natural
  <2>1. T # {}
    BY FS_EmptySet
  <2>2. PICK c \in T : c = Chosen(T)
    BY <2>1, ChosenIsElement
  <2>3. IsFiniteSet(T \ {c}) /\ Cardinality(T \ {c}) = n
    BY OneLess
  <2>4. Sum(g, T \ {c}) \in Nat
    BY <1>2, <2>3 DEF Natural
  <2>5. Sum(g, T) = g[c] + Sum(g, T \ {c})
    BY <2>1, <2>2, SumTurns
  <2> QED
    BY <2>4, <2>5
<1>3. \A n \in Nat : Natural(n)
  <2> DEFINE Holds == {n \in Nat : Natural(n)}
  <2>1. 0 \in Holds /\ \A n \in Nat : n \in Holds => n + 1 \in Holds
    BY <1>1, <1>2
  <2> HIDE DEF Holds
  <2>2. Nat \subseteq Holds
    BY <2>1, EveryNumber
  <2> QED
    BY <2>2 DEF Holds
<1>4. Cardinality(S) \in Nat
  BY FS_CardinalityType
<1> QED
  BY <1>3, <1>4 DEF Natural

Adding(n) ==
  \A S, f : /\ IsFiniteSet(S) /\ Cardinality(S) = n
            /\ \A x \in S : f[x] \in Nat
            => \A x \in S : Sum(f, S) = f[x] + Sum(f, S \ {x})

\* Whichever element is added last.
LEMMA SumOfRest ==
  ASSUME NEW S, IsFiniteSet(S), NEW f, \A x \in S : f[x] \in Nat, NEW x \in S
  PROVE  Sum(f, S) = f[x] + Sum(f, S \ {x})
<1>1. Adding(0)
  BY FS_EmptySet DEF Adding
<1>2. ASSUME NEW n \in Nat, Adding(n) PROVE Adding(n + 1)
  <2> SUFFICES ASSUME NEW T, IsFiniteSet(T), Cardinality(T) = n + 1, NEW g, \A y \in T : g[y] \in Nat,
                      NEW y \in T
               PROVE  Sum(g, T) = g[y] + Sum(g, T \ {y})
    BY DEF Adding
  <2>1. PICK c \in T : c = Chosen(T)
    BY ChosenIsElement
  <2>2. \A z \in T : IsFiniteSet(T \ {z}) /\ Cardinality(T \ {z}) = n
    BY OneLess
  <2>3. Sum(g, T) = g[c] + Sum(g, T \ {c})
    BY <2>1, SumTurns
  <2>4. CASE y # c
    <3> DEFINE rest == (T \ {c}) \ {y}
    <3>1. rest = (T \ {y}) \ {c} /\ IsFiniteSet(rest)
      BY <2>2, FS_RemoveElement
    <3>2. Sum(g, T \ {c}) = g[y] + Sum(g, rest)
      BY <1>2, <2>2, <2>4 DEF Adding
    <3>3. Sum(g, T \ {y}) = g[c] + Sum(g, rest)
      BY <1>2, <2>2, <2>4, <3>1 DEF Adding
    <3>4. Sum(g, rest) \in Nat
      BY <3>1, SumIsNumber
    <3> HIDE DEF rest
    <3> QED
      BY <2>3, <3>2, <3>3, <3>4
  <2> QED
    BY <2>3, <2>4
<1>3. \A n \in Nat : Adding(n)
  <2> DEFINE Holds == {n \in Nat : Adding(n)}
  <2>1. 0 \in Holds /\ \A n \in Nat : n \in Holds => n + 1 \in Holds
    BY <1>1, <1>2
  <2> HIDE DEF Holds
  <2>2. Nat \subseteq Holds
    BY <2>1, EveryNumber
  <2> QED
    BY <2>2 DEF Holds
<1>4. Cardinality(S) \in Nat
  BY FS_CardinalityType
<1> QED
  BY <1>3, <1>4 DEF Adding

Pairing(n) ==
  \A S, f, g, h : /\ IsFiniteSet(S) /\ Cardinality(S) = n
                  /\ \A x \in S : f[x] \in Nat /\ g[x] \in Nat /\ h[x] = f[x] + g[x]
                  => Sum(h, S) = Sum(f, S) + Sum(g, S)

\* The sum of two functions has the sum of their sums.
LEMMA SumOfBoth ==
  ASSUME NEW S, IsFiniteSet(S), NEW f, NEW g, NEW h,
         \A x \in S : f[x] \in Nat /\ g[x] \in Nat /\ h[x] = f[x] + g[x]
  PROVE  Sum(h, S) = Sum(f, S) + Sum(g, S)
<1>1. Pairing(0)
  <2> SUFFICES ASSUME NEW T, IsFiniteSet(T), Cardinality(T) = 0, NEW u, NEW v, NEW w
               PROVE  Sum(w, T) = Sum(u, T) + Sum(v, T)
    BY DEF Pairing
  <2>1. T = {}
    BY FS_EmptySet
  <2>2. Sum(u, {}) = 0 /\ Sum(v, {}) = 0 /\ Sum(w, {}) = 0
    BY SumTurns, FS_EmptySet
  <2> QED
    BY <2>1, <2>2
<1>2. ASSUME NEW n \in Nat, Pairing(n) PROVE Pairing(n + 1)
  <2> SUFFICES ASSUME NEW T, IsFiniteSet(T), Cardinality(T) = n + 1, NEW u, NEW v, NEW w,
                      \A x \in T : u[x] \in Nat /\ v[x] \in Nat /\ w[x] = u[x] + v[x]
               PROVE  Sum(w, T) = Sum(u, T) + Sum(v, T)
    BY DEF Pairing
  <2>1. T # {}
    BY FS_EmptySet
  <2>2. PICK c \in T : TRUE
    BY <2>1
  <2> DEFINE rest == T \ {c}
  <2>3. IsFiniteSet(rest) /\ Cardinality(rest) = n
    BY OneLess
  <2>4. Sum(w, rest) = Sum(u, rest) + Sum(v, rest)
    BY <1>2, <2>3 DEF Pairing
  <2>5. w[c] \in Nat /\ \A x \in T : w[x] \in Nat
    OBVIOUS
  <2>6. /\ Sum(u, T) = u[c] + Sum(u, rest)
        /\ Sum(v, T) = v[c] + Sum(v, rest)
        /\ Sum(w, T) = w[c] + Sum(w, rest)
    BY <2>5, SumOfRest
  <2>7. Sum(u, rest) \in Nat /\ Sum(v, rest) \in Nat
    BY <2>3, SumIsNumber
  <2> HIDE DEF rest
  <2> QED
    BY <2>4, <2>6, <2>7
<1>3. \A n \in Nat : Pairing(n)
  <2> DEFINE Holds == {n \in Nat : Pairing(n)}
  <2>1. 0 \in Holds /\ \A n \in Nat : n \in Holds => n + 1 \in Holds
    BY <1>1, <1>2
  <2> HIDE DEF Holds
  <2>2. Nat \subseteq Holds
    BY <2>1, EveryNumber
  <2> QED
    BY <2>2 DEF Holds
<1>4. Cardinality(S) \in Nat
  BY FS_CardinalityType
<1> QED
  BY <1>3, <1>4 DEF Pairing

\* A sum only depends on the values over its set, and adds up to nothing where
\* all of them are zero.
LEMMA SumOfSame ==
  ASSUME NEW S, IsFiniteSet(S), NEW f, NEW g, \A x \in S : f[x] \in Nat /\ f[x] = g[x]
  PROVE  /\ Sum(f, S) = Sum(g, S)
         /\ (\A x \in S : f[x] = 0) => Sum(f, S) = 0
<1> DEFINE zero == [x \in S |-> 0]
<1>1. Sum(zero, S) = Sum(zero, S) + Sum(zero, S)
  BY SumOfBoth
<1>2. Sum(zero, S) \in Nat
  BY SumIsNumber
<1>3. Sum(g, S) \in Nat /\ Sum(f, S) \in Nat
  BY SumIsNumber
<1>4. Sum(f, S) = Sum(g, S) + Sum(zero, S)
  BY SumOfBoth
<1>5. (\A x \in S : f[x] = 0) => Sum(zero, S) = Sum(f, S) + Sum(zero, S)
  BY SumOfBoth
<1> HIDE DEF zero
<1>6. Sum(zero, S) = 0
  <2>1. \A n \in Nat : n = n + n => n = 0
    OBVIOUS
  <2> QED
    BY <1>1, <1>2, <2>1
<1>7. Sum(f, S) = Sum(g, S)
  BY <1>3, <1>4, <1>6
<1>8. ASSUME \A x \in S : f[x] = 0 PROVE Sum(f, S) = 0
  BY <1>3, <1>5, <1>6, <1>8
<1> QED
  BY <1>7, <1>8

\* Greater values have a greater sum.
LEMMA SumOfGreater ==
  ASSUME NEW S, IsFiniteSet(S), NEW f, NEW g, \A x \in S : f[x] \in Nat /\ g[x] \in Nat /\ f[x] <= g[x]
  PROVE  Sum(f, S) <= Sum(g, S)
<1> DEFINE d == [x \in S |-> g[x] - f[x]]
<1>1. \A x \in S : d[x] \in Nat /\ g[x] = f[x] + d[x]
  OBVIOUS
<1> HIDE DEF d
<1>2. Sum(g, S) = Sum(f, S) + Sum(d, S)
  BY <1>1, SumOfBoth
<1>3. Sum(f, S) \in Nat /\ Sum(d, S) \in Nat
  BY <1>1, SumIsNumber
<1> QED
  BY <1>2, <1>3

\* Two functions that differ at one element only.
LEMMA SumShifts ==
  ASSUME NEW S, IsFiniteSet(S), NEW f, NEW g, \A x \in S : f[x] \in Nat /\ g[x] \in Nat,
         NEW c \in S, \A x \in S \ {c} : f[x] = g[x]
  PROVE  Sum(g, S) = Sum(f, S) - f[c] + g[c]
<1> DEFINE rest == S \ {c}
<1>1. IsFiniteSet(rest)
  BY FS_RemoveElement
<1>2. Sum(f, rest) = Sum(g, rest) /\ Sum(f, rest) \in Nat
  BY <1>1, SumOfSame, SumIsNumber
<1>3. Sum(f, S) = f[c] + Sum(f, rest) /\ Sum(g, S) = g[c] + Sum(g, rest)
  BY SumOfRest
<1> HIDE DEF rest
<1> QED
  BY <1>2, <1>3

Ones(n) ==
  \A S, f : /\ IsFiniteSet(S) /\ Cardinality(S) = n
            /\ \A x \in S : f[x] = 1
            => Sum(f, S) = n

\* A sum of ones counts them.
LEMMA SumOfOnes ==
  ASSUME NEW S, IsFiniteSet(S), NEW f, \A x \in S : f[x] = 1
  PROVE  Sum(f, S) = Cardinality(S)
<1>1. Ones(0)
  BY FS_EmptySet, SumTurns DEF Ones
<1>2. ASSUME NEW n \in Nat, Ones(n) PROVE Ones(n + 1)
  <2> SUFFICES ASSUME NEW T, IsFiniteSet(T), Cardinality(T) = n + 1, NEW g, \A x \in T : g[x] = 1
               PROVE  Sum(g, T) = n + 1
    BY DEF Ones
  <2>1. T # {}
    BY FS_EmptySet
  <2>2. PICK c \in T : TRUE
    BY <2>1
  <2>3. IsFiniteSet(T \ {c}) /\ Cardinality(T \ {c}) = n
    BY OneLess
  <2>4. Sum(g, T \ {c}) = n
    BY <1>2, <2>3 DEF Ones
  <2>5. Sum(g, T) = g[c] + Sum(g, T \ {c})
    BY SumOfRest
  <2> QED
    BY <2>4, <2>5
<1>3. \A n \in Nat : Ones(n)
  <2> DEFINE Holds == {n \in Nat : Ones(n)}
  <2>1. 0 \in Holds /\ \A n \in Nat : n \in Holds => n + 1 \in Holds
    BY <1>1, <1>2
  <2> HIDE DEF Holds
  <2>2. Nat \subseteq Holds
    BY <2>1, EveryNumber
  <2> QED
    BY <2>2 DEF Holds
<1>4. Cardinality(S) \in Nat
  BY FS_CardinalityType
<1> QED
  BY <1>3, <1>4 DEF Ones

Skipping(n) ==
  \A S, R, f : /\ IsFiniteSet(S) /\ R \subseteq S /\ Cardinality(S) = n
               /\ \A x \in S : f[x] \in Nat
               /\ \A x \in S \ R : f[x] = 0
               => Sum(f, S) = Sum(f, R)

\* Zeros may be left out of a sum.
LEMMA SumSkips ==
  ASSUME NEW S, IsFiniteSet(S), NEW R \in SUBSET S, NEW f, \A x \in S : f[x] \in Nat,
         \A x \in S \ R : f[x] = 0
  PROVE  Sum(f, S) = Sum(f, R)
<1>1. Skipping(0)
  <2> SUFFICES ASSUME NEW T, NEW Q, NEW g, IsFiniteSet(T), Cardinality(T) = 0, Q \subseteq T
               PROVE  Sum(g, T) = Sum(g, Q)
    BY DEF Skipping
  <2>1. T = {} /\ Q = {}
    BY FS_EmptySet
  <2> QED
    BY <2>1
<1>2. ASSUME NEW n \in Nat, Skipping(n) PROVE Skipping(n + 1)
  <2> SUFFICES ASSUME NEW T, NEW Q, NEW g, IsFiniteSet(T), Q \subseteq T, Cardinality(T) = n + 1,
                      \A x \in T : g[x] \in Nat, \A x \in T \ Q : g[x] = 0
               PROVE  Sum(g, T) = Sum(g, Q)
    BY DEF Skipping
  <2>1. CASE Q = T
    BY <2>1
  <2>2. CASE Q # T
    <3>1. PICK c \in T \ Q : TRUE
      BY <2>2
    <3>2. IsFiniteSet(T \ {c}) /\ Cardinality(T \ {c}) = n /\ Q \subseteq T \ {c}
      BY <3>1, OneLess
    <3>3. Sum(g, T \ {c}) = Sum(g, Q)
      BY <1>2, <3>2 DEF Skipping
    <3>4. Sum(g, T) = g[c] + Sum(g, T \ {c}) /\ g[c] = 0
      BY <3>1, SumOfRest
    <3>5. Sum(g, T \ {c}) \in Nat
      BY <3>2, SumIsNumber
    <3> QED
      BY <3>3, <3>4, <3>5
  <2> QED
    BY <2>1, <2>2
<1>3. \A n \in Nat : Skipping(n)
  <2> DEFINE Holds == {n \in Nat : Skipping(n)}
  <2>1. 0 \in Holds /\ \A n \in Nat : n \in Holds => n + 1 \in Holds
    BY <1>1, <1>2
  <2> HIDE DEF Holds
  <2>2. Nat \subseteq Holds
    BY <2>1, EveryNumber
  <2> QED
    BY <2>2 DEF Holds
<1>4. Cardinality(S) \in Nat
  BY FS_CardinalityType
<1> QED
  BY <1>3, <1>4 DEF Skipping

-----------------------------------------------------------------------------
(* How many elements of a sequence are in a set.                             *)

Number(s, S) == Cardinality({i \in DOMAIN s : s[i] \in S})

Bit(x, S) == IF x \in S THEN 1 ELSE 0

\* A one-to-one correspondence carries the size over.
LEMMA SameSize ==
  ASSUME NEW S, IsFiniteSet(S), NEW T, NEW f \in [S -> T],
         \A x, y \in S : f[x] = f[y] => x = y,
         \A y \in T : \E x \in S : f[x] = y
  PROVE  IsFiniteSet(T) /\ Cardinality(T) = Cardinality(S)
<1>1. f \in Bijection(S, T)
  BY DEF Bijection, Injection, Surjection, IsInjective
<1> QED
  BY <1>1, FS_Bijection DEF ExistsBijection

LEMMA NumberType ==
  ASSUME NEW A, NEW s \in Seq(A), NEW S
  PROVE  /\ Number(s, S) \in Nat
         /\ IsFiniteSet({i \in DOMAIN s : s[i] \in S})
         /\ Number(s, S) > 0 <=> \E i \in DOMAIN s : s[i] \in S
<1> DEFINE I == {i \in DOMAIN s : s[i] \in S}
<1>1. IsFiniteSet(DOMAIN s)
  BY FS_Interval
<1>2. IsFiniteSet(I)
  BY <1>1, FS_Subset
<1>3. Cardinality(I) \in Nat /\ (Cardinality(I) = 0 <=> I = {})
  BY <1>2, FS_CardinalityType, FS_EmptySet
<1> QED
  BY <1>2, <1>3 DEF Number

LEMMA NumberOfBoth ==
  ASSUME NEW A, NEW s \in Seq(A), NEW t \in Seq(A), NEW S
  PROVE  Number(s \o t, S) = Number(s, S) + Number(t, S)
<1> DEFINE I == {i \in DOMAIN s : s[i] \in S}
           J == {i \in DOMAIN t : t[i] \in S}
           K == {i \in DOMAIN (s \o t) : (s \o t)[i] \in S}
           L == {i \in K : i > Len(s)}
           f == [j \in J |-> j + Len(s)]
<1>1. IsFiniteSet(I) /\ IsFiniteSet(J)
  BY NumberType
<1>2. /\ s \o t \in Seq(A) /\ Len(s \o t) = Len(s) + Len(t)
      /\ \A i \in 1 .. Len(s) : (s \o t)[i] = s[i]
      /\ \A j \in 1 .. Len(t) : (s \o t)[j + Len(s)] = t[j]
  OBVIOUS
<1>3. f \in [J -> L]
  BY <1>2
<1>4. \A i \in L : i - Len(s) \in J /\ f[i - Len(s)] = i
  <2> SUFFICES ASSUME NEW i \in L PROVE i - Len(s) \in J /\ f[i - Len(s)] = i
    OBVIOUS
  <2>1. i - Len(s) \in 1 .. Len(t) /\ (i - Len(s)) + Len(s) = i
    BY <1>2
  <2>2. t[i - Len(s)] = (s \o t)[i]
    BY <1>2, <2>1
  <2> QED
    BY <2>1, <2>2
<1>5. IsFiniteSet(L) /\ Cardinality(L) = Cardinality(J)
  <2>1. \A x, y \in J : f[x] = f[y] => x = y
    OBVIOUS
  <2>2. \A y \in L : \E x \in J : f[x] = y
    BY <1>4
  <2> HIDE DEF f, J, L
  <2> QED
    BY <1>1, <1>3, <2>1, <2>2, SameSize
<1>6. K = I \cup L /\ I \cap L = {}
  BY <1>2
<1>7. Cardinality(I \cup L) = Cardinality(I) + Cardinality(L)
  <2>1. Cardinality(I \cap L) = 0
    BY <1>6, FS_EmptySet
  <2>2. Cardinality(I) \in Nat /\ Cardinality(L) \in Nat
    BY <1>1, <1>5, FS_CardinalityType
  <2>3. Cardinality(I \cup L) = Cardinality(I) + Cardinality(L) - Cardinality(I \cap L)
    BY <1>1, <1>5, FS_Union
  <2> HIDE DEF I, L
  <2> QED
    BY <2>1, <2>2, <2>3
<1> QED
  BY <1>5, <1>6, <1>7 DEF Number

LEMMA NumberOfOne ==
  ASSUME NEW x, NEW S
  PROVE  Number(<<x>>, S) = Bit(x, S) /\ Number(<<>>, S) = 0 /\ Bit(x, S) \in {0, 1}
<1>1. {i \in DOMAIN <<x>> : <<x>>[i] \in S} = IF x \in S THEN {1} ELSE {}
  OBVIOUS
<1>2. {i \in DOMAIN <<>> : <<>>[i] \in S} = {}
  OBVIOUS
<1>3. Cardinality({1}) = 1 /\ Cardinality({}) = 0
  BY FS_Singleton, FS_EmptySet
<1> QED
  BY <1>1, <1>2, <1>3 DEF Number, Bit

LEMMA NumberAppended ==
  ASSUME NEW A, NEW s \in Seq(A), NEW x \in A, NEW S
  PROVE  Number(Append(s, x), S) = Number(s, S) + Bit(x, S)
<1>1. Append(s, x) = s \o <<x>> /\ <<x>> \in Seq(A)
  OBVIOUS
<1>2. Number(s \o <<x>>, S) = Number(s, S) + Number(<<x>>, S)
  BY <1>1, NumberOfBoth
<1> QED
  BY <1>1, <1>2, NumberOfOne

LEMMA NumberOfTail ==
  ASSUME NEW A, NEW s \in Seq(A), s # <<>>, NEW S
  PROVE  /\ Tail(s) \in Seq(A) /\ Head(s) \in A
         /\ Number(s, S) = Bit(Head(s), S) + Number(Tail(s), S)
<1>1. s = <<Head(s)>> \o Tail(s) /\ Tail(s) \in Seq(A) /\ Head(s) \in A /\ <<Head(s)>> \in Seq(A)
  OBVIOUS
<1>2. Number(<<Head(s)>> \o Tail(s), S) = Number(<<Head(s)>>, S) + Number(Tail(s), S)
  BY <1>1, NumberOfBoth
<1> QED
  BY <1>1, <1>2, NumberOfOne

\* A sequence falls into what is before a position and what is from it on.
LEMMA CutAt ==
  ASSUME NEW A, NEW s \in Seq(A), NEW i \in 1 .. Len(s) + 1
  PROVE  /\ SubSeq(s, 1, i - 1) \in Seq(A)
         /\ SubSeq(s, i, Len(s)) \in Seq(A)
         /\ SubSeq(s, 1, i - 1) \o SubSeq(s, i, Len(s)) = s
<1> DEFINE u == SubSeq(s, 1, i - 1)
           v == SubSeq(s, i, Len(s))
<1>1. u \in Seq(A) /\ Len(u) = i - 1 /\ \A k \in 1 .. i - 1 : u[k] = s[k]
  OBVIOUS
<1>2. v \in Seq(A) /\ Len(v) = Len(s) - i + 1 /\ \A k \in 1 .. Len(s) - i + 1 : v[k] = s[i + k - 1]
  BY SubSeqProperties
<1>3. u \o v \in Seq(A) /\ Len(u \o v) = Len(s)
  <2> HIDE DEF u, v
  <2> QED
    BY <1>1, <1>2
<1>4. ASSUME NEW k \in 1 .. Len(s) PROVE (u \o v)[k] = s[k]
  <2>1. CASE k <= i - 1
    <3> HIDE DEF u, v
    <3> QED
      BY <1>1, <1>2, <2>1
  <2>2. CASE k > i - 1
    <3>1. k - (i - 1) \in 1 .. Len(s) - i + 1
      BY <2>2
    <3>2. v[k - (i - 1)] = s[i + (k - (i - 1)) - 1]
      BY <1>2, <3>1
    <3>3. i + (k - (i - 1)) - 1 = k
      OBVIOUS
    <3>4. (u \o v)[k] = v[k - (i - 1)]
      <4> HIDE DEF u, v
      <4> QED
        BY <1>1, <1>2, <2>2
    <3> QED
      BY <3>2, <3>3, <3>4
  <2>3. k <= i - 1 \/ k > i - 1
    OBVIOUS
  <2> HIDE DEF u, v
  <2> QED
    BY <2>1, <2>2, <2>3
<1>5. u \o v = s
  <2> HIDE DEF u, v
  <2> QED
    BY <1>3, <1>4, SeqEqual
<1> QED
  BY <1>1, <1>2, <1>5

LEMMA NumberInserted ==
  ASSUME NEW A, NEW s \in Seq(A), NEW i \in 1 .. Len(s) + 1, NEW x \in A, NEW S
  PROVE  /\ InsertedAt(s, i, x) \in Seq(A)
         /\ Number(InsertedAt(s, i, x), S) = Number(s, S) + Bit(x, S)
         /\ InsertedAt(s, i, x) # <<>>
<1> DEFINE u == SubSeq(s, 1, i - 1)
           v == SubSeq(s, i, Len(s))
<1>1. u \in Seq(A) /\ v \in Seq(A) /\ u \o v = s
  BY CutAt
<1>2. <<x>> \in Seq(A)
  OBVIOUS
<1>3. InsertedAt(s, i, x) = (u \o <<x>>) \o v
  BY DEF InsertedAt
<1> HIDE DEF u, v
<1>4. u \o <<x>> \in Seq(A) /\ (u \o <<x>>) \o v \in Seq(A) /\ Len((u \o <<x>>) \o v) > 0
  BY <1>1, <1>2
<1>5. /\ Number(s, S) = Number(u, S) + Number(v, S)
      /\ Number(u \o <<x>>, S) = Number(u, S) + Number(<<x>>, S)
      /\ Number((u \o <<x>>) \o v, S) = Number(u \o <<x>>, S) + Number(v, S)
  BY <1>1, <1>4, <1>2, NumberOfBoth
<1>6. /\ Number(u, S) \in Nat /\ Number(v, S) \in Nat
      /\ Number(<<x>>, S) = Bit(x, S) /\ Bit(x, S) \in {0, 1}
  BY <1>1, NumberType, NumberOfOne
<1> QED
  BY <1>3, <1>4, <1>5, <1>6

LEMMA NumberRemoved ==
  ASSUME NEW A, NEW s \in Seq(A), NEW i \in 1 .. Len(s), NEW S
  PROVE  /\ RemoveAt(s, i) \in Seq(A) /\ s[i] \in A
         /\ Number(s, S) = Number(RemoveAt(s, i), S) + Bit(s[i], S)
<1> DEFINE u == SubSeq(s, 1, i - 1)
           v == SubSeq(s, i + 1, Len(s))
<1>1. i + 1 \in 1 .. Len(s) + 1 /\ i \in 1 .. Len(s) + 1 /\ s[i] \in A
  OBVIOUS
<1>2. u \in Seq(A) /\ v \in Seq(A)
  BY <1>1, CutAt
<1>3. SubSeq(s, 1, (i + 1) - 1) = u \o <<s[i]>>
  <2>1. SubSeq(s, 1, i) = Append(SubSeq(s, 1, i - 1), s[i])
    OBVIOUS
  <2> HIDE DEF u
  <2>2. Append(u, s[i]) = u \o <<s[i]>>
    BY <1>1, <1>2
  <2>3. (i + 1) - 1 = i
    OBVIOUS
  <2> QED
    BY <2>1, <2>2, <2>3 DEF u
<1>4. s = (u \o <<s[i]>>) \o v
  BY <1>1, <1>3, CutAt
<1>5. RemoveAt(s, i) = u \o v
  BY DEF RemoveAt
<1>6. PICK x \in A : x = s[i]
  BY <1>1
<1> HIDE DEF u, v
<1>7. u \o <<x>> \in Seq(A) /\ u \o v \in Seq(A) /\ <<x>> \in Seq(A)
  BY <1>2
<1>8. /\ Number(u \o v, S) = Number(u, S) + Number(v, S)
      /\ Number(u \o <<x>>, S) = Number(u, S) + Number(<<x>>, S)
      /\ Number((u \o <<x>>) \o v, S) = Number(u \o <<x>>, S) + Number(v, S)
  BY <1>2, <1>7, NumberOfBoth
<1>9. /\ Number(u, S) \in Nat /\ Number(v, S) \in Nat
      /\ Number(<<x>>, S) = Bit(x, S) /\ Bit(x, S) \in {0, 1}
  BY <1>2, NumberType, NumberOfOne
<1>10. Number(s, S) = (Number(u, S) + Bit(x, S)) + Number(v, S)
  BY <1>4, <1>6, <1>8, <1>9
<1>11. Number(s, S) = Number(u \o v, S) + Bit(x, S)
  BY <1>8, <1>9, <1>10
<1> QED
  BY <1>1, <1>5, <1>6, <1>7, <1>11

LEMMA NumberReversed ==
  ASSUME NEW A, NEW s \in Seq(A), NEW S
  PROVE  Reverse(s) \in Seq(A) /\ Len(Reverse(s)) = Len(s) /\ Number(Reverse(s), S) = Number(s, S)
<1> DEFINE I == {i \in DOMAIN s : s[i] \in S}
           J == {i \in DOMAIN Reverse(s) : Reverse(s)[i] \in S}
           f == [i \in I |-> Len(s) - i + 1]
<1>1. /\ Reverse(s) = [i \in 1 .. Len(s) |-> s[(Len(s) - i) + 1]]
      /\ \A i \in 1 .. Len(s) : (Len(s) - i) + 1 \in 1 .. Len(s)
  BY DEF Reverse
<1>2. Reverse(s) \in Seq(A) /\ Len(Reverse(s)) = Len(s)
  <2>1. Reverse(s) \in [1 .. Len(s) -> A]
    BY <1>1
  <2> QED
    BY <2>1
<1>3. IsFiniteSet(I)
  BY NumberType
<1>4. \A i \in 1 .. Len(s) : Reverse(s)[i] = s[(Len(s) - i) + 1]
  BY <1>1
<1>5. f \in [I -> J]
  <2> SUFFICES ASSUME NEW i \in I PROVE (Len(s) - i) + 1 \in J
    OBVIOUS
  <2>1. (Len(s) - i) + 1 \in 1 .. Len(s) /\ (Len(s) - ((Len(s) - i) + 1)) + 1 = i
    OBVIOUS
  <2>2. Reverse(s)[(Len(s) - i) + 1] = s[i]
    BY <1>4, <2>1
  <2> QED
    BY <1>2, <2>1, <2>2
<1>6. \A x, y \in I : f[x] = f[y] => x = y
  OBVIOUS
<1>7. \A y \in J : \E x \in I : f[x] = y
  <2> SUFFICES ASSUME NEW y \in J PROVE (Len(s) - y) + 1 \in I /\ f[(Len(s) - y) + 1] = y
    OBVIOUS
  <2>1. y \in 1 .. Len(s)
    BY <1>2
  <2>2. (Len(s) - y) + 1 \in 1 .. Len(s) /\ (Len(s) - ((Len(s) - y) + 1)) + 1 = y
    BY <2>1
  <2>3. s[(Len(s) - y) + 1] \in S
    BY <1>4, <2>1
  <2> QED
    BY <2>2, <2>3
<1>8. Cardinality(J) = Cardinality(I)
  <2> HIDE DEF f, I, J
  <2> QED
    BY <1>3, <1>5, <1>6, <1>7, SameSize
<1> QED
  BY <1>2, <1>8 DEF Number

-----------------------------------------------------------------------------
(* The operators on queues.                                                  *)

Message == [id : Nat, key : Keys, priority : Nat, redelivered : BOOLEAN,
            replyTo : Exchanges \cup {NoExchange}, correlationId : Keys]

Entry == [msg : Message, stay : Nat]

\* The entries of a message.
EntriesOf(id) == {f \in Entry : f.msg.id = id}

MessagesOf(id) == {m \in Message : m.id = id}

\* Min is the least of a set of numbers.
LEMMA MinOfNumbers ==
  ASSUME NEW T \in SUBSET Nat, T # {}
  PROVE  Min(T) \in T /\ \A y \in T : Min(T) <= y
<1>1. \E m \in T : \A y \in T : m <= y
  BY LeastNumber
<1> QED
  BY <1>1 DEF Min

LEMMA FirstPosition ==
  ASSUME NEW A, NEW s \in Seq(A), NEW P \in SUBSET DOMAIN s
  PROVE  /\ FirstOf(P, s) \in 1 .. Len(s) + 1
         /\ FirstOf(P, s) <= Len(s) => FirstOf(P, s) \in P
         /\ FirstOf(P, s) > Len(s) => P = {}
<1> DEFINE T == P \cup {Len(s) + 1}
<1>1. T \in SUBSET Nat /\ T # {} /\ T \subseteq 1 .. Len(s) + 1 /\ FirstOf(P, s) = Min(T)
  BY DEF FirstOf
<1>2. Min(T) \in T /\ \A y \in T : Min(T) <= y
  BY <1>1, MinOfNumbers
<1>3. \A y \in P : y <= Len(s) /\ y \in T
  OBVIOUS
<1>4. PICK m \in 1 .. Len(s) + 1 : m = Min(T)
  BY <1>1, <1>2
<1>5. m \in P \cup {Len(s) + 1} /\ \A y \in P : m <= y /\ y <= Len(s)
  BY <1>2, <1>3, <1>4
<1>6. FirstOf(P, s) = m
  BY <1>1, <1>4
<1>7. m > Len(s) => P = {}
  <2> SUFFICES ASSUME m > Len(s), NEW y \in P PROVE FALSE
    OBVIOUS
  <2>1. m <= y /\ y <= Len(s) /\ y \in Nat
    BY <1>5
  <2> QED
    BY <2>1
<1>8. m <= Len(s) => m \in P
  BY <1>5
<1> HIDE DEF T
<1> QED
  BY <1>6, <1>7, <1>8

\* A new entry adds itself to the queue, wherever its priority puts it.
LEMMA QueueGrows ==
  ASSUME NEW A, NEW s \in Seq(A), NEW e \in A, NEW prioritised \in BOOLEAN, NEW S,
         NEW t \in {InsertByPriority(s, e, prioritised), RequeueByPriority(s, e, prioritised)}
  PROVE  /\ t \in Seq(A) /\ t # <<>>
         /\ Number(t, S) = Number(s, S) + Bit(e, S)
<1>1. \A i \in 1 .. Len(s) + 1 : /\ InsertedAt(s, i, e) \in Seq(A)
                                 /\ Number(InsertedAt(s, i, e), S) = Number(s, S) + Bit(e, S)
                                 /\ InsertedAt(s, i, e) # <<>>
  BY NumberInserted
<1>2. CASE t = InsertByPriority(s, e, prioritised)
  <2>1. CASE prioritised
    <3> DEFINE P == {i \in DOMAIN s : s[i].msg.priority < e.msg.priority}
    <3>1. FirstOf(P, s) \in 1 .. Len(s) + 1
      BY FirstPosition
    <3>2. t = InsertedAt(s, FirstOf(P, s), e)
      BY <1>2, <2>1 DEF InsertByPriority
    <3> QED
      BY <1>1, <3>1, <3>2
  <2>2. CASE ~prioritised
    <3>1. t = Append(s, e)
      BY <1>2, <2>2 DEF InsertByPriority
    <3>2. Append(s, e) \in Seq(A) /\ Append(s, e) # <<>>
      OBVIOUS
    <3> QED
      BY <3>1, <3>2, NumberAppended
  <2> QED
    BY <2>1, <2>2
<1>3. CASE t = RequeueByPriority(s, e, prioritised)
  <2>1. CASE prioritised
    <3> DEFINE P == {i \in DOMAIN s : s[i].msg.priority <= e.msg.priority}
    <3>1. FirstOf(P, s) \in 1 .. Len(s) + 1
      BY FirstPosition
    <3>2. t = InsertedAt(s, FirstOf(P, s), e)
      BY <1>3, <2>1 DEF RequeueByPriority
    <3> QED
      BY <1>1, <3>1, <3>2
  <2>2. CASE ~prioritised
    <3>1. t = <<e>> \o s
      BY <1>3, <2>2 DEF RequeueByPriority
    <3>2. <<e>> \in Seq(A)
      OBVIOUS
    <3>3. <<e>> \o s \in Seq(A) /\ <<e>> \o s # <<>>
      BY <3>2
    <3>4. Number(<<e>> \o s, S) = Number(<<e>>, S) + Number(s, S)
      BY <3>2, NumberOfBoth
    <3>5. Number(<<e>>, S) = Bit(e, S) /\ Bit(e, S) \in {0, 1} /\ Number(s, S) \in Nat
      BY NumberOfOne, NumberType
    <3> QED
      BY <3>1, <3>3, <3>4, <3>5
  <2> QED
    BY <2>1, <2>2
<1> QED
  BY <1>2, <1>3

KeepStep(S, unused, kept, x) == IF x \in S THEN Append(kept, x) ELSE kept

\* After some turns: the elements so far that are in the set.
KeptSoFar(ctx, turn, kept) ==
  /\ kept \in Seq(ctx.all \cap ctx.set)
  /\ \A T : Number(kept, T) = Number(SubSeq(ctx.seq, 1, turn), ctx.set \cap T)

KeepFold == INSTANCE LeftFold WITH Op <- KeepStep, Inv <- KeptSoFar

\* Keeping keeps the elements of the set, and no other.
LEMMA KeepingKeeps ==
  ASSUME NEW A, NEW s \in Seq(A), NEW S
  PROVE  /\ Keeping(s, S) \in Seq(A \cap S)
         /\ \A T : Number(Keeping(s, S), T) = Number(s, S \cap T)
<1> DEFINE ctx == [all |-> A, set |-> S, seq |-> s]
<1>1. KeptSoFar(ctx, 0, <<>>)
  <2>1. SubSeq(s, 1, 0) = <<>>
    OBVIOUS
  <2>2. \A T : Number(<<>>, T) = 0 /\ Number(SubSeq(s, 1, 0), S \cap T) = 0
    BY <2>1, NumberOfOne
  <2> QED
    BY <2>2 DEF KeptSoFar
<1>2. ASSUME NEW i \in 1 .. Len(s), NEW kept, KeptSoFar(ctx, i - 1, kept)
      PROVE  KeptSoFar(ctx, i, KeepStep(S, 0, kept, s[i]))
  <2>1. PICK x \in A : x = s[i]
    OBVIOUS
  <2>2. PICK before \in Seq(A) : before = SubSeq(s, 1, i - 1)
    <3>1. i \in 1 .. Len(s) + 1
      OBVIOUS
    <3> QED
      BY <3>1, CutAt
  <2>3. SubSeq(s, 1, i) = Append(before, x)
    BY <2>1, <2>2
  <2>4. kept \in Seq(A \cap S) /\ \A T : Number(kept, T) = Number(before, S \cap T)
    BY <1>2, <2>2 DEF KeptSoFar
  <2>5. \A T : Number(Append(before, x), S \cap T) = Number(before, S \cap T) + Bit(x, S \cap T)
    BY NumberAppended
  <2> DEFINE goal(k) == /\ k \in Seq(A \cap S)
                        /\ \A T : Number(k, T) = Number(Append(before, x), S \cap T)
  <2>6. ASSUME x \in S PROVE goal(Append(kept, x))
    <3>1. \A T : Number(Append(kept, x), T) = Number(kept, T) + Bit(x, T)
      <4>1. x \in A \cap S
        BY <2>6
      <4> QED
        BY <2>4, <4>1, NumberAppended
    <3>2. Append(kept, x) \in Seq(A \cap S)
      BY <2>4, <2>6
    <3>3. \A T : Bit(x, S \cap T) = Bit(x, T)
      BY <2>6 DEF Bit
    <3> QED
      BY <2>4, <2>5, <3>1, <3>2, <3>3
  <2>7. ASSUME x \notin S PROVE goal(kept)
    <3>1. \A T : Bit(x, S \cap T) = 0 /\ Number(before, S \cap T) \in Nat
      BY <2>7, NumberType DEF Bit
    <3> QED
      <4>1. \A T : Number(Append(before, x), S \cap T) = Number(before, S \cap T)
        <5> TAKE T
        <5>1. PICK n \in Nat : n = Number(before, S \cap T)
          BY <3>1
        <5>2. Bit(x, S \cap T) = 0
          BY <3>1
        <5>3. Number(Append(before, x), S \cap T) = Number(before, S \cap T) + Bit(x, S \cap T)
          BY <2>5
        <5> QED
          BY <5>1, <5>2, <5>3
      <4> QED
        BY <2>4, <4>1
  <2>8. goal(KeepStep(S, 0, kept, x))
    BY <2>6, <2>7 DEF KeepStep
  <2>9. KeptSoFar(ctx, i, KeepStep(S, 0, kept, x)) <=> goal(KeepStep(S, 0, kept, x))
    BY <2>3 DEF KeptSoFar
  <2> HIDE DEF goal
  <2> QED
    BY <2>1, <2>8, <2>9
<1>3. Len(s) \in Nat /\ DOMAIN s = 1 .. Len(s)
  OBVIOUS
<1> HIDE DEF ctx
<1>4. KeptSoFar(ctx, Len(s), KeepFold!Folded(S, 0, <<>>, s))
  BY <1>1, <1>2, <1>3, KeepFold!FoldKeeps
<1>5. Keeping(s, S) = KeepFold!Folded(S, 0, <<>>, s)
  BY DEF Keeping, KeepFold!Folded, KeepStep, FoldLeft, KeepFold!FoldLeft, MapThenFoldSet,
         KeepFold!MapThenFoldSet, Max, KeepFold!Max
<1>6. SubSeq(s, 1, Len(s)) = s
  OBVIOUS
<1> QED
  BY <1>4, <1>5, <1>6 DEF KeptSoFar, ctx

-----------------------------------------------------------------------------
(* How many copies of the elements of a set a bag has.                       *)

\* A finite bag of elements of S.
BagOver(B, S) ==
  /\ B \in [DOMAIN B -> Nat \ {0}]
  /\ IsFiniteSet(DOMAIN B)
  /\ DOMAIN B \subseteq S

CopiesOf(e, B) == IF e \in DOMAIN B THEN B[e] ELSE 0

Counted(B, S) == Sum(B, DOMAIN B \cap S)

LEMMA CountedType ==
  ASSUME NEW A, NEW B, BagOver(B, A), NEW S
  PROVE  /\ Counted(B, S) \in Nat
         /\ IsFiniteSet(DOMAIN B \cap S)
         /\ \A e \in DOMAIN B : B[e] \in Nat \ {0}
<1>1. IsFiniteSet(DOMAIN B \cap S)
  BY FS_Subset DEF BagOver
<1>2. \A e \in DOMAIN B : B[e] \in Nat \ {0}
  BY DEF BagOver
<1> QED
  BY <1>1, <1>2, SumIsNumber DEF Counted

\* Putting two bags together.
Joined(B, D) == B (+) D

LEMMA JoinedCopies ==
  ASSUME NEW A, NEW B, NEW D, BagOver(B, A), BagOver(D, A), NEW e
  PROVE  /\ CopiesOf(e, Joined(B, D)) = CopiesOf(e, B) + CopiesOf(e, D)
         /\ CopiesOf(e, B) \in Nat /\ CopiesOf(e, D) \in Nat
         /\ CopiesOf(e, B) > 0 <=> e \in DOMAIN B
         /\ CopiesOf(e, D) > 0 <=> e \in DOMAIN D
<1> DEFINE U == DOMAIN B \cup DOMAIN D
           all == Joined(B, D)
<1>1. DOMAIN all = U /\ \A f \in U : all[f] = CopiesOf(f, B) + CopiesOf(f, D)
  BY DEF Joined, (+), CopiesOf
<1>2. /\ CopiesOf(e, B) \in Nat /\ CopiesOf(e, D) \in Nat
      /\ CopiesOf(e, B) > 0 <=> e \in DOMAIN B
      /\ CopiesOf(e, D) > 0 <=> e \in DOMAIN D
  <2>1. \A f \in DOMAIN B : B[f] \in Nat \ {0}
    BY CountedType
  <2>2. \A f \in DOMAIN D : D[f] \in Nat \ {0}
    BY CountedType
  <2> QED
    BY <2>1, <2>2 DEF CopiesOf
<1>3. CASE e \in U
  BY <1>1, <1>2, <1>3 DEF CopiesOf
<1>4. CASE e \notin U
  BY <1>1, <1>2, <1>4 DEF CopiesOf
<1> QED
  BY <1>2, <1>3, <1>4

LEMMA JoinedDomain ==
  ASSUME NEW B, NEW D
  PROVE  DOMAIN Joined(B, D) = DOMAIN B \cup DOMAIN D
BY DEF Joined, (+)

LEMMA JoinedCounts ==
  ASSUME NEW A, NEW B, NEW D, BagOver(B, A), BagOver(D, A), NEW S
  PROVE  Counted(Joined(B, D), S) = Counted(B, S) + Counted(D, S)
<1> DEFINE U == DOMAIN B \cup DOMAIN D
           all == Joined(B, D)
<1>1. /\ DOMAIN all = U
      /\ \A e \in U : all[e] = CopiesOf(e, B) + CopiesOf(e, D)
  BY DEF Joined, (+), CopiesOf
<1>2. \A e : CopiesOf(e, B) \in Nat /\ CopiesOf(e, D) \in Nat
  BY JoinedCopies
<1>3. IsFiniteSet(U) /\ U \subseteq A
  BY FS_Union DEF BagOver
<1> DEFINE b == [e \in U |-> CopiesOf(e, B)]
           d == [e \in U |-> CopiesOf(e, D)]
           V == U \cap S
<1>4. IsFiniteSet(V)
  BY <1>3, FS_Subset
<1>5. \A e \in V : b[e] \in Nat /\ d[e] \in Nat /\ all[e] = b[e] + d[e]
  BY <1>1, <1>2
<1>6. Sum(all, V) = Sum(b, V) + Sum(d, V)
  <2> HIDE DEF all, b, d, V
  <2> QED
    BY <1>4, <1>5, SumOfBoth
<1>7. Sum(b, V) = Counted(B, S)
  <2> DEFINE W == DOMAIN B \cap S
  <2>1. W \in SUBSET V /\ \A e \in V \ W : b[e] = 0
    BY DEF CopiesOf
  <2>2. Sum(b, V) = Sum(b, W)
    <3> HIDE DEF all, b, d, V, W
    <3> QED
      BY <1>4, <1>5, <2>1, SumSkips
  <2>3. \A e \in W : b[e] \in Nat /\ b[e] = B[e]
    BY <1>5 DEF CopiesOf
  <2>4. Sum(b, W) = Sum(B, W)
    <3>1. IsFiniteSet(W)
      BY CountedType
    <3> HIDE DEF b, W
    <3> QED
      BY <2>3, <3>1, SumOfSame
  <2> QED
    BY <2>2, <2>4 DEF Counted
<1>8. Sum(d, V) = Counted(D, S)
  <2> DEFINE W == DOMAIN D \cap S
  <2>1. W \in SUBSET V /\ \A e \in V \ W : d[e] = 0
    BY DEF CopiesOf
  <2>2. Sum(d, V) = Sum(d, W)
    <3> HIDE DEF all, b, d, V, W
    <3> QED
      BY <1>4, <1>5, <2>1, SumSkips
  <2>3. \A e \in W : d[e] \in Nat /\ d[e] = D[e]
    BY <1>5 DEF CopiesOf
  <2>4. Sum(d, W) = Sum(D, W)
    <3>1. IsFiniteSet(W)
      BY CountedType
    <3> HIDE DEF d, W
    <3> QED
      BY <2>3, <3>1, SumOfSame
  <2> QED
    BY <2>2, <2>4 DEF Counted
<1>9. Counted(all, S) = Sum(all, V)
  BY <1>1 DEF Counted
<1> HIDE DEF b, d, V, all
<1> QED
  BY <1>6, <1>7, <1>8, <1>9 DEF all

LEMMA JoinedBag ==
  ASSUME NEW A, NEW B, NEW D, BagOver(B, A), BagOver(D, A)
  PROVE  BagOver(Joined(B, D), A)
<1> DEFINE U == DOMAIN B \cup DOMAIN D
           all == Joined(B, D)
<1>1. all = [e \in U |-> all[e]] /\ DOMAIN all = U
  BY DEF Joined, (+)
<1>2. \A e : CopiesOf(e, all) = CopiesOf(e, B) + CopiesOf(e, D)
  BY JoinedCopies
<1>3. \A e : /\ CopiesOf(e, B) \in Nat /\ CopiesOf(e, D) \in Nat
             /\ e \in DOMAIN B => CopiesOf(e, B) > 0
             /\ e \in DOMAIN D => CopiesOf(e, D) > 0
  BY JoinedCopies
<1>4. \A e \in U : all[e] \in Nat \ {0}
  <2> HIDE DEF all
  <2> QED
    BY <1>1, <1>2, <1>3 DEF CopiesOf
<1>5. IsFiniteSet(U) /\ U \subseteq A
  BY FS_Union DEF BagOver
<1> HIDE DEF all, U
<1> QED
  BY <1>1, <1>4, <1>5 DEF BagOver, all

\* One copy of each element of a finite set.
LEMMA CountedOfSet ==
  ASSUME NEW A, NEW T \in SUBSET A, IsFiniteSet(T)
  PROVE  /\ BagOver(SetToBag(T), A)
         /\ DOMAIN SetToBag(T) = T
         /\ \A e : CopiesOf(e, SetToBag(T)) = Bit(e, T)
         /\ \A S : Counted(SetToBag(T), S) = Cardinality(T \cap S)
<1> DEFINE B == SetToBag(T)
<1>1. DOMAIN B = T /\ B = [e \in T |-> 1] /\ \A e \in T : B[e] = 1
  BY DEF SetToBag
<1>2. BagOver(B, A)
  BY <1>1 DEF BagOver
<1>3. \A e : CopiesOf(e, B) = Bit(e, T)
  BY <1>1 DEF CopiesOf, Bit
<1>4. ASSUME NEW S PROVE Counted(B, S) = Cardinality(T \cap S)
  <2>1. IsFiniteSet(T \cap S)
    BY FS_Subset
  <2>2. \A x \in T \cap S : B[x] = 1
    BY <1>1
  <2> HIDE DEF B
  <2>3. Sum(B, T \cap S) = Cardinality(T \cap S)
    BY <2>1, <2>2, SumOfOnes
  <2> QED
    BY <1>1, <2>3 DEF Counted
<1> QED
  BY <1>1, <1>2, <1>3, <1>4

LEMMA CountedOfOne ==
  ASSUME NEW A, NEW x \in A
  PROVE  /\ BagOver(One(x), A) /\ BagOver(EmptyBag, A)
         /\ DOMAIN One(x) = {x} /\ DOMAIN EmptyBag = {}
         /\ \A e : CopiesOf(e, One(x)) = Bit(e, {x}) /\ CopiesOf(e, EmptyBag) = 0
         /\ \A S : Counted(One(x), S) = Bit(x, S) /\ Counted(EmptyBag, S) = 0
<1>1. IsFiniteSet({x}) /\ Cardinality({x}) = 1 /\ IsFiniteSet({}) /\ Cardinality({}) = 0
  BY FS_Singleton, FS_EmptySet
<1>2. /\ BagOver(SetToBag({x}), A) /\ DOMAIN SetToBag({x}) = {x}
      /\ \A e : CopiesOf(e, SetToBag({x})) = Bit(e, {x})
      /\ \A S : Counted(SetToBag({x}), S) = Cardinality({x} \cap S)
  BY <1>1, CountedOfSet
<1>3. /\ BagOver(SetToBag({}), A) /\ DOMAIN SetToBag({}) = {}
      /\ \A e : CopiesOf(e, SetToBag({})) = Bit(e, {})
      /\ \A S : Counted(SetToBag({}), S) = Cardinality({} \cap S)
  BY <1>1, CountedOfSet
<1>4. \A S : Cardinality({x} \cap S) = Bit(x, S) /\ {} \cap S = {}
  <2> TAKE S
  <2>1. {x} \cap S = IF x \in S THEN {x} ELSE {}
    OBVIOUS
  <2> QED
    BY <1>1, <2>1 DEF Bit
<1>5. \A e : Bit(e, {}) = 0
  BY DEF Bit
<1>6. One(x) = SetToBag({x}) /\ EmptyBag = SetToBag({})
  BY DEF One, EmptyBag
<1>7. \A S : Counted(SetToBag({}), S) = 0 /\ Counted(SetToBag({x}), S) = Bit(x, S)
  BY <1>1, <1>2, <1>3, <1>4
<1> QED
  BY <1>2, <1>3, <1>5, <1>6, <1>7

\* Taking one copy of an element out.
LEMMA CountedOfRest ==
  ASSUME NEW A, NEW B, BagOver(B, A), NEW x \in DOMAIN B
  PROVE  /\ BagOver(B (-) SetToBag({x}), A)
         /\ DOMAIN B \ {x} \subseteq DOMAIN (B (-) SetToBag({x}))
         /\ DOMAIN (B (-) SetToBag({x})) \subseteq DOMAIN B
         /\ \A e : CopiesOf(e, B (-) SetToBag({x})) = CopiesOf(e, B) - Bit(e, {x})
         /\ \A S : Counted(B (-) SetToBag({x}), S) = Counted(B, S) - Bit(x, S)
<1> DEFINE rest == B (-) SetToBag({x})
<1>1. \A e \in DOMAIN B : B[e] \in Nat \ {0}
  BY CountedType
<1>2. x \in A /\ DOMAIN SetToBag({x}) = {x} /\ SetToBag({x})[x] = 1
  BY DEF BagOver, SetToBag
<1>3. /\ rest = [e \in DOMAIN rest |-> rest[e]]
      /\ \A e \in DOMAIN rest : e \in DOMAIN B /\ rest[e] = B[e] - Bit(e, {x}) /\ rest[e] > 0
      /\ \A e \in DOMAIN B : e \notin DOMAIN rest => e = x /\ B[e] = 1
  <2> DEFINE less == [e \in DOMAIN B |-> IF e \in {x} THEN B[e] - 1 ELSE B[e]]
             left == {e \in DOMAIN B : less[e] > 0}
  <2>1. rest = [e \in left |-> less[e]]
    BY <1>2 DEF (-), SetToBag
  <2>2. \A e \in DOMAIN B : less[e] = B[e] - Bit(e, {x})
    BY <1>1 DEF Bit
  <2>3. \A e \in DOMAIN B : e \notin left => e = x /\ B[e] = 1
    BY <1>1
  <2>4. DOMAIN rest = left /\ \A e \in left : rest[e] = less[e] /\ e \in DOMAIN B /\ less[e] > 0
    BY <2>1
  <2> HIDE DEF less, left, rest
  <2> QED
    BY <2>1, <2>2, <2>3, <2>4
<1>4. BagOver(rest, A)
  <2>1. DOMAIN rest \subseteq DOMAIN B
    BY <1>3
  <2>2. IsFiniteSet(DOMAIN rest) /\ DOMAIN rest \subseteq A
    BY <2>1, FS_Subset DEF BagOver
  <2>3. \A e \in DOMAIN rest : rest[e] \in Nat \ {0}
    BY <1>1, <1>3 DEF Bit
  <2> HIDE DEF rest
  <2>4. rest \in [DOMAIN rest -> Nat \ {0}]
    BY <1>3, <2>3
  <2> QED
    BY <2>2, <2>4 DEF BagOver
<1> HIDE DEF rest
<1>5. /\ BagOver(One(x), A) /\ DOMAIN One(x) = {x}
      /\ \A e : CopiesOf(e, One(x)) = Bit(e, {x})
      /\ \A S : Counted(One(x), S) = Bit(x, S)
  BY <1>2, CountedOfOne
<1>6. /\ BagOver(Joined(rest, One(x)), A)
      /\ DOMAIN Joined(rest, One(x)) = DOMAIN rest \cup DOMAIN One(x)
      /\ \A e : CopiesOf(e, Joined(rest, One(x))) = CopiesOf(e, rest) + CopiesOf(e, One(x))
      /\ \A S : Counted(Joined(rest, One(x)), S) = Counted(rest, S) + Counted(One(x), S)
  <2>1. BagOver(One(x), A)
    BY <1>5
  <2>2. BagOver(Joined(rest, One(x)), A)
    BY <1>4, <2>1, JoinedBag
  <2>3. DOMAIN Joined(rest, One(x)) = DOMAIN rest \cup DOMAIN One(x)
    BY JoinedDomain
  <2>4. \A e : CopiesOf(e, Joined(rest, One(x))) = CopiesOf(e, rest) + CopiesOf(e, One(x))
    BY <1>4, <2>1, JoinedCopies
  <2>5. \A S : Counted(Joined(rest, One(x)), S) = Counted(rest, S) + Counted(One(x), S)
    BY <1>4, <2>1, JoinedCounts
  <2> QED
    BY <2>2, <2>3, <2>4, <2>5
<1>7. \A e : CopiesOf(e, B) = CopiesOf(e, rest) + Bit(e, {x})
  BY <1>1, <1>3 DEF CopiesOf, Bit
<1>8. Joined(rest, One(x)) = B
  <2> DEFINE sum == Joined(rest, One(x))
  <2>1. DOMAIN sum = DOMAIN B
    BY <1>3, <1>5, <1>6
  <2>2. \A e \in DOMAIN B : CopiesOf(e, sum) = CopiesOf(e, B)
    BY <1>5, <1>6, <1>7
  <2>3. sum \in [DOMAIN sum -> Nat \ {0}] /\ B \in [DOMAIN B -> Nat \ {0}]
    BY <1>6 DEF BagOver
  <2> HIDE DEF sum
  <2>4. \A e \in DOMAIN B : sum[e] = B[e]
    BY <2>1, <2>2 DEF CopiesOf
  <2> QED
    BY <2>1, <2>3, <2>4 DEF sum
<1>9. \A e : CopiesOf(e, rest) \in Nat /\ Bit(e, {x}) \in {0, 1}
  BY <1>4, CountedType DEF CopiesOf, Bit
<1>10. \A S : Counted(rest, S) = Counted(B, S) - Bit(x, S)
  <2> TAKE S
  <2>1. Counted(B, S) = Counted(rest, S) + Bit(x, S)
    BY <1>5, <1>6, <1>8
  <2>2. Counted(rest, S) \in Nat /\ Bit(x, S) \in {0, 1}
    BY <1>4, CountedType DEF Bit
  <2> QED
    BY <2>1, <2>2
<1>11. \A e : CopiesOf(e, rest) = CopiesOf(e, B) - Bit(e, {x})
  BY <1>7, <1>9
<1>12. DOMAIN B \ {x} \subseteq DOMAIN rest /\ DOMAIN rest \subseteq DOMAIN B
  BY <1>3
<1> QED
  BY <1>4, <1>10, <1>11, <1>12 DEF rest

\* Taking one copy of x out and putting the bag D in: an event fires.
Taken(B, x) == B (-) SetToBag({x})

Fired(B, x, D) == Joined(Taken(B, x), D)

LEMMA TakenBag ==
  ASSUME NEW A, NEW B, BagOver(B, A), NEW x \in DOMAIN B
  PROVE  BagOver(Taken(B, x), A)
BY CountedOfRest DEF Taken

LEMMA TakenDomain ==
  ASSUME NEW A, NEW B, BagOver(B, A), NEW x \in DOMAIN B
  PROVE  DOMAIN B \ {x} \subseteq DOMAIN Taken(B, x) /\ DOMAIN Taken(B, x) \subseteq DOMAIN B
BY CountedOfRest DEF Taken

LEMMA TakenCopies ==
  ASSUME NEW A, NEW B, BagOver(B, A), NEW x \in DOMAIN B, NEW e
  PROVE  CopiesOf(e, Taken(B, x)) = CopiesOf(e, B) - Bit(e, {x})
BY CountedOfRest DEF Taken

LEMMA TakenCounts ==
  ASSUME NEW A, NEW B, BagOver(B, A), NEW x \in DOMAIN B, NEW S
  PROVE  Counted(Taken(B, x), S) = Counted(B, S) - Bit(x, S)
BY CountedOfRest DEF Taken

LEMMA FiredBag ==
  ASSUME NEW A, NEW B, BagOver(B, A), NEW x \in DOMAIN B, NEW D, BagOver(D, A)
  PROVE  BagOver(Fired(B, x, D), A)
<1>1. BagOver(Taken(B, x), A)
  BY TakenBag
<1> QED
  BY <1>1, JoinedBag DEF Fired

LEMMA FiredDomain ==
  ASSUME NEW A, NEW B, BagOver(B, A), NEW x \in DOMAIN B, NEW D, BagOver(D, A)
  PROVE  /\ (DOMAIN B \ {x}) \cup DOMAIN D \subseteq DOMAIN Fired(B, x, D)
         /\ DOMAIN Fired(B, x, D) \subseteq DOMAIN B \cup DOMAIN D
<1>1. DOMAIN B \ {x} \subseteq DOMAIN Taken(B, x) /\ DOMAIN Taken(B, x) \subseteq DOMAIN B
  BY TakenDomain
<1>2. DOMAIN Fired(B, x, D) = DOMAIN Taken(B, x) \cup DOMAIN D
  BY JoinedDomain DEF Fired
<1> QED
  BY <1>1, <1>2

LEMMA FiredCopies ==
  ASSUME NEW A, NEW B, BagOver(B, A), NEW x \in DOMAIN B, NEW D, BagOver(D, A), NEW e
  PROVE  CopiesOf(e, Fired(B, x, D)) = (CopiesOf(e, B) - Bit(e, {x})) + CopiesOf(e, D)
<1>1. BagOver(Taken(B, x), A)
  BY TakenBag
<1>2. CopiesOf(e, Taken(B, x)) = CopiesOf(e, B) - Bit(e, {x})
  BY TakenCopies
<1>3. CopiesOf(e, Fired(B, x, D)) = CopiesOf(e, Taken(B, x)) + CopiesOf(e, D)
  BY <1>1, JoinedCopies DEF Fired
<1> QED
  BY <1>2, <1>3

LEMMA FiredCounts ==
  ASSUME NEW A, NEW B, BagOver(B, A), NEW x \in DOMAIN B, NEW D, BagOver(D, A), NEW S
  PROVE  Counted(Fired(B, x, D), S) = (Counted(B, S) - Bit(x, S)) + Counted(D, S)
<1>1. BagOver(Taken(B, x), A)
  BY TakenBag
<1>2. Counted(Taken(B, x), S) = Counted(B, S) - Bit(x, S)
  BY TakenCounts
<1>3. Counted(Fired(B, x, D), S) = Counted(Taken(B, x), S) + Counted(D, S)
  BY <1>1, JoinedCounts DEF Fired
<1> QED
  BY <1>2, <1>3

LEMMA OneBag ==
  ASSUME NEW A, NEW x \in A
  PROVE  BagOver(One(x), A)
BY CountedOfOne

LEMMA OneCounts ==
  ASSUME NEW x
  PROVE  /\ DOMAIN One(x) = {x}
         /\ \A S : Counted(One(x), S) = Bit(x, S)
         /\ \A e : CopiesOf(e, One(x)) = Bit(e, {x})
<1>1. x \in {x}
  OBVIOUS
<1> QED
  BY <1>1, CountedOfOne

LEMMA NoneBag ==
  ASSUME NEW A
  PROVE  BagOver(EmptyBag, A)
BY CountedOfSet, FS_EmptySet DEF EmptyBag

LEMMA NoneCounts ==
  /\ DOMAIN EmptyBag = {}
  /\ \A S : Counted(EmptyBag, S) = 0
  /\ \A e : CopiesOf(e, EmptyBag) = 0
<1>1. 0 \in {0}
  OBVIOUS
<1> QED
  BY <1>1, CountedOfOne

-----------------------------------------------------------------------------
(* Events, and what the variables hold.                                      *)

RouteEvents == [type : {"route"}, msg : Message, exchange : Exchanges, client : BOOLEAN]
EnqueueEvents == [type : {"enqueue"}, msg : Message, queue : Queues]
TtlEvents == [type : {"ttlExpire"}, id : Nat, queue : Queues, stay : Nat]
WorkEvents == [type : {"deliver", "consumeDone"}, msg : Message, queue : Queues,
               consumer : Consumers, epoch : Nat]
LaterEvents == RouteEvents \cup EnqueueEvents \cup TtlEvents \cup WorkEvents

Reply == [exchange : Exchanges, key : Keys, priority : Nat,
          replyTo : Exchanges \cup {NoExchange}, correlationId : Keys]

DispatchEvents == [type : {"dispatch"}, queue : Queues]
PublishEvents == [type : {"publish"}, reply : Reply]
SettleEvents == [type : {"ack", "nack"}, msg : Message, queue : Queues, consumer : Consumers]
UrgentEvents == DispatchEvents \cup PublishEvents \cup SettleEvents

Mark == [id : Nat, queue : Queues, stay : Nat]

TypeOK ==
  /\ input \in Inputs
  /\ queues \in [Queues -> Seq(Entry)]
  /\ unacked \in [Consumers -> Seq(Message)]
  /\ roundRobin \in [Queues -> Nat]
  /\ crashed \subseteq Consumers
  /\ crashEpoch \in [Consumers -> Nat]
  /\ counter \in Nat
  /\ BagOver(later, LaterEvents)
  /\ urgent \in Seq(UrgentEvents)
  /\ fresh \subseteq Mark
  /\ made \in [Ids -> Nat] /\ acks \in [Ids -> Nat]
  /\ drops \in [Ids -> Nat] /\ confirms \in [Ids -> Nat]

\* Work is done for the queue a consumer reads, and never stems from a later
\* life of the consumer than its present one.
WorkOK ==
  /\ \A e \in DOMAIN later :
       e \in WorkEvents => e.queue = QueueOf[e.consumer] /\ e.epoch <= crashEpoch[e.consumer]
  /\ \A i \in DOMAIN urgent :
       urgent[i] \in SettleEvents => urgent[i].queue = QueueOf[urgent[i].consumer]

\* What every topology provides.
LEMMA InputFacts ==
  ASSUME input \in Inputs
  PROVE  /\ Hits \in [Exchanges -> [Keys -> Seq(Exchanges \cup Queues)]]
         /\ QueueOf \in [Consumers -> Queues]
         /\ ConsumerOrder \in Seq(Consumers)
         /\ Prefetch \in [Consumers -> Nat]
         /\ AutoAck \subseteq Consumers /\ MayNack \subseteq Consumers
         /\ RequeueOnNack \subseteq Consumers
         /\ Prioritised \subseteq Queues /\ HasTtl \subseteq Queues
         /\ MaxLength \in [Queues -> Nat \cup {Boundless}]
         /\ DeadLetterExchange \in [Queues -> Exchanges \cup {NoExchange}]
         /\ DeadLetterKey \in [Queues -> Keys \cup {NoKey}]
         /\ Script \subseteq Reply
         /\ Cycle \in Nat \ {0} /\ MaxMessages \in Nat
         /\ MaxCrashes \in [Consumers -> Nat] /\ CrashRacesAck \in BOOLEAN
<1>1. input \in Input
  BY InputsAssumption
<1>2. Script \subseteq Reply
  BY <1>1 DEF Input, Script, Reply
<1>3. /\ Hits \in [Exchanges -> [Keys -> Seq(Exchanges \cup Queues)]]
      /\ QueueOf \in [Consumers -> Queues]
      /\ ConsumerOrder \in Seq(Consumers)
      /\ Prefetch \in [Consumers -> Nat]
  BY <1>1 DEF Input, Hits, QueueOf, ConsumerOrder, Prefetch
<1>4. /\ AutoAck \subseteq Consumers /\ MayNack \subseteq Consumers
      /\ RequeueOnNack \subseteq Consumers
      /\ Prioritised \subseteq Queues /\ HasTtl \subseteq Queues
  BY <1>1 DEF Input, AutoAck, MayNack, RequeueOnNack, Prioritised, HasTtl
<1>5. /\ MaxLength \in [Queues -> Nat \cup {Boundless}]
      /\ DeadLetterExchange \in [Queues -> Exchanges \cup {NoExchange}]
      /\ DeadLetterKey \in [Queues -> Keys \cup {NoKey}]
  BY <1>1 DEF Input, MaxLength, DeadLetterExchange, DeadLetterKey
<1>6. /\ Cycle \in Nat \ {0} /\ MaxMessages \in Nat
      /\ MaxCrashes \in [Consumers -> Nat] /\ CrashRacesAck \in BOOLEAN
  BY <1>1 DEF Input, Cycle, MaxMessages, MaxCrashes, CrashRacesAck
<1> QED
  BY <1>2, <1>3, <1>4, <1>5, <1>6

\* The events a step may schedule.
LEMMA RouteEventType ==
  ASSUME NEW msg \in Message, NEW x \in Exchanges, NEW client \in BOOLEAN
  PROVE  RouteEvent(msg, x, client) \in RouteEvents /\ RouteEvent(msg, x, client) \in LaterEvents
BY DEF RouteEvent, RouteEvents, LaterEvents

LEMMA BuriedType ==
  ASSUME input \in Inputs, NEW msg \in Message, NEW q \in Queues
  PROVE  /\ BagOver(Buried(msg, q), LaterEvents)
         /\ DOMAIN Buried(msg, q) \subseteq RouteEvents
         /\ DeadLetterExchange[q] = NoExchange => Buried(msg, q) = EmptyBag
         /\ DeadLetterExchange[q] # NoExchange =>
              \E e \in RouteEvents : e.msg.id = msg.id /\ Buried(msg, q) = One(e)
<1>1. CASE DeadLetterExchange[q] = NoExchange
  BY <1>1, NoneBag, NoneCounts DEF Buried
<1>2. CASE DeadLetterExchange[q] # NoExchange
  <2> DEFINE sent == [msg EXCEPT !.key = IF DeadLetterKey[q] = NoKey THEN @ ELSE DeadLetterKey[q],
                                 !.redelivered = FALSE]
             e    == RouteEvent(sent, DeadLetterExchange[q], FALSE)
  <2>1. DeadLetterExchange[q] \in Exchanges /\ DeadLetterKey[q] \in Keys \cup {NoKey}
    BY <1>2, InputFacts
  <2>2. sent \in Message /\ sent.id = msg.id
    BY <2>1 DEF Message
  <2>3. e \in RouteEvents /\ e \in LaterEvents
    BY <2>1, <2>2, RouteEventType
  <2>4. e.msg.id = msg.id
    BY <2>2 DEF RouteEvent
  <2>5. Buried(msg, q) = One(e)
    BY <1>2 DEF Buried
  <2> HIDE DEF e
  <2>6. BagOver(One(e), LaterEvents) /\ DOMAIN One(e) = {e}
    BY <2>3, OneBag, OneCounts
  <2> QED
    BY <1>2, <2>3, <2>4, <2>5, <2>6
<1> QED
  BY <1>1, <1>2

\* The stay of a new entry is a number: an interval is larger than the set of
\* stays in use.
LEMMA StayType ==
  ASSUME TypeOK, NEW id \in Nat, NEW q \in Queues, NEW marks \in SUBSET Mark
  PROVE  StayNow(id, q, marks) \in Nat
<1>1. CASE q \notin HasTtl
  BY <1>1 DEF StayNow
<1>2. CASE q \in HasTtl /\ \E f \in marks : f.id = id /\ f.queue = q
  <2> DEFINE f == CHOOSE f \in marks : f.id = id /\ f.queue = q
  <2>1. f \in marks
    BY <1>2
  <2>2. f.stay \in Nat
    BY <2>1 DEF Mark
  <2> QED
    BY <1>2, <2>2 DEF StayNow
<1>3. CASE q \in HasTtl /\ ~ \E f \in marks : f.id = id /\ f.queue = q
  <2> DEFINE I     == {j \in DOMAIN queues[q] : queues[q][j].msg.id = id}
             E     == {f \in BagToSet(later) : f.type = "ttlExpire" /\ f.id = id /\ f.queue = q}
             stays == {queues[q][i].stay : i \in I}
             timed == {e.stay : e \in E}
             taken == StaysInUse(id, q)
             free  == (0 .. Cardinality(taken)) \ taken
  <2>1. queues[q] \in Seq(Entry) /\ IsFiniteSet(DOMAIN queues[q])
    BY FS_Interval DEF TypeOK
  <2>2. IsFiniteSet(I)
    BY <2>1, FS_Subset
  <2>3. IsFiniteSet(E)
    <3>1. IsFiniteSet(DOMAIN later) /\ BagToSet(later) = DOMAIN later
      BY DEF TypeOK, BagOver, BagToSet
    <3> QED
      BY <3>1, FS_Subset
  <2>4. IsFiniteSet(stays)
    <3> DEFINE f == [i \in I |-> queues[q][i].stay]
    <3>1. f \in Surjection(I, stays)
      BY DEF Surjection
    <3> HIDE DEF I, stays, f
    <3> QED
      BY <2>2, <3>1, FS_Surjection DEF ExistsSurjection
  <2>5. IsFiniteSet(timed)
    <3> DEFINE f == [e \in E |-> e.stay]
    <3>1. f \in Surjection(E, timed)
      BY DEF Surjection
    <3> HIDE DEF E, timed, f
    <3> QED
      BY <2>3, <3>1, FS_Surjection DEF ExistsSurjection
  <2>6. taken = stays \cup timed
    BY DEF StaysInUse
  <2>7. IsFiniteSet(taken) /\ Cardinality(taken) \in Nat
    <3> HIDE DEF stays, timed, taken
    <3>1. IsFiniteSet(stays \cup timed)
      BY <2>4, <2>5, FS_Union
    <3> QED
      BY <2>6, <3>1, FS_CardinalityType
  <2> HIDE DEF taken
  <2>8. free # {}
    <3>1. PICK n \in Nat : n = Cardinality(taken)
      BY <2>7
    <3>2. IsFiniteSet(0 .. n) /\ Cardinality(0 .. n) = n + 1
      BY FS_Interval
    <3>3. SUFFICES ASSUME 0 .. n \subseteq taken PROVE FALSE
      BY <3>1
    <3>4. Cardinality(0 .. n) <= Cardinality(taken)
      BY <2>7, <3>2, <3>3, FS_Subset
    <3> QED
      BY <3>1, <3>2, <3>4
  <2>9. free \in SUBSET Nat
    BY <2>7
  <2>10. Min(free) \in free
    <3> HIDE DEF free
    <3> QED
      BY <2>8, <2>9, MinOfNumbers
  <2>11. StayNow(id, q, marks) = Min(free)
    BY <1>3 DEF StayNow, taken
  <2> HIDE DEF free
  <2> QED
    BY <2>9, <2>10, <2>11
<1> QED
  BY <1>1, <1>2, <1>3

LEMMA EntryType ==
  ASSUME TypeOK, NEW msg \in Message, NEW q \in Queues, NEW marks \in SUBSET Mark
  PROVE  /\ EntryNow(msg, q, marks) \in Entry /\ EntryNow(msg, q, marks).msg = msg
         /\ Redelivered(msg) \in Message /\ Redelivered(msg).id = msg.id
<1>1. msg.id \in Nat
  BY DEF Message
<1>2. StayNow(msg.id, q, marks) \in Nat
  BY <1>1, StayType
<1>3. Redelivered(msg) \in Message /\ Redelivered(msg).id = msg.id
  BY DEF Redelivered, Message
<1> QED
  BY <1>2, <1>3 DEF EntryNow, Entry

LEMMA MarksType ==
  ASSUME TypeOK, NEW id \in Nat, NEW q \in Queues, NEW marks \in SUBSET Mark
  PROVE  Marks(id, q, StayNow(id, q, marks)) \subseteq Mark
<1>1. StayNow(id, q, marks) \in Nat
  BY StayType
<1> QED
  BY <1>1 DEF Marks, Mark

LEMMA FreshNowType ==
  ASSUME TypeOK
  PROVE  FreshNow \in SUBSET Mark
BY DEF TypeOK, FreshNow

-----------------------------------------------------------------------------
(* What an operation leaves in a queue or with a consumer.                   *)

\* A queue to which a crash gives back one message.
RestoreStep(q, unused, s, m) ==
  RequeueByPriority(s, EntryNow(Redelivered(m), q, FreshNow), q \in Prioritised)

RestoredSoFar(ctx, turn, s) ==
  /\ s \in Seq(Entry)
  /\ turn > 0 => s # <<>>
  /\ turn = 0 => s = ctx.queue
  /\ \A id : Number(s, EntriesOf(id)) =
               Number(ctx.queue, EntriesOf(id)) + Number(SubSeq(ctx.seq, 1, turn), MessagesOf(id))

RestoreFold == INSTANCE LeftFold WITH Op <- RestoreStep, Inv <- RestoredSoFar

LEMMA BitOfEntry ==
  ASSUME NEW f \in Entry, NEW id
  PROVE  Bit(f, EntriesOf(id)) = Bit(f.msg, MessagesOf(id))
BY DEF Bit, EntriesOf, MessagesOf, Entry

\* A crash gives every message back to the queue.
LEMMA RestoredKeeps ==
  ASSUME TypeOK, NEW q \in Queues, NEW queue \in Seq(Entry), NEW held \in Seq(Message)
  PROVE  /\ Restored(queue, held, q) \in Seq(Entry)
         /\ held # <<>> => Restored(queue, held, q) # <<>>
         /\ held = <<>> => Restored(queue, held, q) = queue
         /\ \A id : Number(Restored(queue, held, q), EntriesOf(id)) =
                      Number(queue, EntriesOf(id)) + Number(held, MessagesOf(id))
<1> DEFINE seq == Reverse(held)
           ctx == [queue |-> queue, seq |-> seq]
<1>1. /\ seq \in Seq(Message) /\ Len(seq) = Len(held)
      /\ \A S : Number(seq, S) = Number(held, S)
  BY NumberReversed
<1> HIDE DEF seq
<1>2. RestoredSoFar(ctx, 0, queue)
  <2>1. SubSeq(seq, 1, 0) = <<>>
    BY <1>1
  <2>2. \A id : Number(SubSeq(seq, 1, 0), MessagesOf(id)) = 0
    BY <2>1, NumberOfOne
  <2>3. \A id : Number(queue, EntriesOf(id)) \in Nat
    BY NumberType
  <2> QED
    BY <2>2, <2>3 DEF RestoredSoFar
<1>3. ASSUME NEW i \in 1 .. Len(seq), NEW s, RestoredSoFar(ctx, i - 1, s)
      PROVE  RestoredSoFar(ctx, i, RestoreStep(q, 0, s, seq[i]))
  <2>1. PICK m \in Message : m = seq[i]
    BY <1>1
  <2>2. PICK entry \in Entry : entry = EntryNow(Redelivered(m), q, FreshNow)
    BY EntryType, FreshNowType
  <2>3. entry.msg.id = m.id
    BY <2>2, EntryType, FreshNowType
  <2>4. PICK before \in Seq(Message) : before = SubSeq(seq, 1, i - 1)
    <3>1. i \in 1 .. Len(seq) + 1
      BY <1>1
    <3> QED
      BY <1>1, <3>1, CutAt
  <2>5. SubSeq(seq, 1, i) = Append(before, m)
    BY <1>1, <2>1, <2>4
  <2>6. /\ s \in Seq(Entry)
        /\ \A id : Number(s, EntriesOf(id)) = Number(queue, EntriesOf(id)) + Number(before, MessagesOf(id))
    BY <1>3, <2>4 DEF RestoredSoFar
  <2>7. PICK p \in BOOLEAN : p <=> q \in Prioritised
    OBVIOUS
  <2>8. PICK t : t = RequeueByPriority(s, entry, p)
    OBVIOUS
  <2>9. t \in Seq(Entry) /\ t # <<>>
    BY <2>6, <2>8, QueueGrows
  <2>10. ASSUME NEW id PROVE Number(t, EntriesOf(id)) = Number(queue, EntriesOf(id)) + Number(Append(before, m), MessagesOf(id))
    <3>1. Number(t, EntriesOf(id)) = Number(s, EntriesOf(id)) + Bit(entry, EntriesOf(id))
      BY <2>6, <2>8, QueueGrows
    <3>2. Number(Append(before, m), MessagesOf(id)) = Number(before, MessagesOf(id)) + Bit(m, MessagesOf(id))
      BY NumberAppended
    <3>3. Bit(entry, EntriesOf(id)) = Bit(m, MessagesOf(id))
      BY <2>3 DEF Bit, EntriesOf, MessagesOf
    <3>4. Number(s, EntriesOf(id)) = Number(queue, EntriesOf(id)) + Number(before, MessagesOf(id))
      BY <2>6
    <3>5. /\ Number(queue, EntriesOf(id)) \in Nat /\ Number(before, MessagesOf(id)) \in Nat
          /\ Bit(m, MessagesOf(id)) \in {0, 1}
      BY NumberType DEF Bit
    <3> QED
      BY <3>1, <3>2, <3>3, <3>4, <3>5
  <2>11. RestoreStep(q, 0, s, seq[i]) = t
    BY <2>1, <2>2, <2>7, <2>8 DEF RestoreStep, RequeueByPriority
  <2>12. /\ ctx.queue = queue /\ ctx.seq = seq
         /\ i > 0 /\ i # 0
    BY <1>1
  <2>13. \A id : Number(t, EntriesOf(id)) =
                   Number(queue, EntriesOf(id)) + Number(SubSeq(seq, 1, i), MessagesOf(id))
    BY <2>5, <2>10
  <2> HIDE DEF ctx
  <2>14. RestoredSoFar(ctx, i, t)
    BY <2>9, <2>12, <2>13 DEF RestoredSoFar
  <2> QED
    BY <2>11, <2>14
<1> HIDE DEF ctx
<1>4. RestoredSoFar(ctx, Len(seq), RestoreFold!Folded(q, 0, queue, seq))
  BY <1>1, <1>2, <1>3, RestoreFold!FoldKeeps
<1>5. Restored(queue, held, q) = RestoreFold!Folded(q, 0, queue, seq)
  BY DEF Restored, RestoreFold!Folded, RestoreStep, FoldLeft, RestoreFold!FoldLeft, MapThenFoldSet,
         RestoreFold!MapThenFoldSet, Max, RestoreFold!Max, seq
<1>6. SubSeq(seq, 1, Len(seq)) = seq
  BY <1>1
<1>7. held # <<>> <=> Len(seq) > 0
  BY <1>1
<1> HIDE DEF ctx
<1>8. PICK t : t = Restored(queue, held, q)
  OBVIOUS
<1>9. RestoredSoFar(ctx, Len(seq), t)
  BY <1>4, <1>5, <1>8
<1>10. /\ t \in Seq(Entry) /\ (Len(seq) > 0 => t # <<>>) /\ (Len(seq) = 0 => t = queue)
       /\ \A id : Number(t, EntriesOf(id)) = Number(queue, EntriesOf(id)) + Number(seq, MessagesOf(id))
  BY <1>6, <1>9 DEF RestoredSoFar, ctx
<1>11. Len(seq) \in Nat
  BY <1>1
<1>12. /\ held # <<>> => t # <<>>
       /\ held = <<>> => t = queue
  BY <1>7, <1>10, <1>11
<1>13. \A id : Number(t, EntriesOf(id)) = Number(queue, EntriesOf(id)) + Number(held, MessagesOf(id))
  BY <1>1, <1>10
<1> QED
  BY <1>8, <1>10, <1>12, <1>13

LEMMA NumberOfAll ==
  ASSUME NEW A, NEW s \in Seq(A)
  PROVE  /\ Number(s, A) = Len(s)
         /\ \A S : Number(s, S) <= Len(s)
<1>1. IsFiniteSet(1 .. Len(s)) /\ Cardinality(1 .. Len(s)) = Len(s) /\ Len(s) \in Nat
  <2>1. Len(s) \in Nat
    OBVIOUS
  <2> QED
    BY <2>1, FS_Interval
<1>2. {i \in DOMAIN s : s[i] \in A} = 1 .. Len(s)
  OBVIOUS
<1>3. ASSUME NEW S PROVE Number(s, S) <= Len(s)
  <2> DEFINE I == {i \in DOMAIN s : s[i] \in S}
  <2>1. I \subseteq 1 .. Len(s)
    OBVIOUS
  <2> HIDE DEF I
  <2>2. Cardinality(I) <= Len(s)
    BY <1>1, <2>1, FS_Subset
  <2> QED
    BY <2>2 DEF Number, I
<1> QED
  BY <1>1, <1>2, <1>3 DEF Number

LEMMA KeepingNone ==
  ASSUME NEW A, NEW s \in Seq(A), NEW S
  PROVE  Keeping(s, S) = <<>> <=> \A i \in DOMAIN s : s[i] \notin S
<1>1. PICK kept \in Seq(A \cap S) : kept = Keeping(s, S)
  BY KeepingKeeps
<1>2. Number(kept, S) = Number(s, S)
  <2>1. Number(kept, S) = Number(s, S \cap S)
    BY <1>1, KeepingKeeps
  <2>2. S \cap S = S
    OBVIOUS
  <2> QED
    BY <2>1, <2>2
<1>3. Number(s, S) > 0 <=> \E i \in DOMAIN s : s[i] \in S
  BY NumberType
<1>4. Number(kept, S) > 0 <=> \E i \in DOMAIN kept : kept[i] \in S
  BY NumberType
<1>5. \A i \in DOMAIN kept : kept[i] \in S
  OBVIOUS
<1>6. kept = <<>> <=> ~ \E i \in DOMAIN kept : TRUE
  <2>1. kept # <<>> => 1 \in DOMAIN kept
    OBVIOUS
  <2> QED
    BY <2>1
<1> QED
  BY <1>1, <1>2, <1>3, <1>4, <1>5, <1>6

\* Releasing a message takes all copies of it from the consumer, and no other.
Rest(c, id) == Keeping(unacked[c], {m \in Range(unacked[c]) : m.id # id})

LEMMA ReleasedKeeps ==
  ASSUME TypeOK, NEW c \in Consumers, NEW id
  PROVE  /\ Released(c, id) \in [Consumers -> Seq(Message)]
         /\ Released(c, id)[c] = Rest(c, id) /\ Len(Rest(c, id)) <= Len(unacked[c])
         /\ \A d \in Consumers \ {c} : Released(c, id)[d] = unacked[d]
         /\ Number(Rest(c, id), MessagesOf(id)) = 0
         /\ \A j : j # id => Number(Rest(c, id), MessagesOf(j)) = Number(unacked[c], MessagesOf(j))
<1> DEFINE s == unacked[c]
           S == {m \in Range(s) : m.id # id}
<1>1. s \in Seq(Message)
  BY DEF TypeOK
<1>2. /\ Rest(c, id) = Keeping(s, S) /\ Keeping(s, S) \in Seq(Message \cap S)
      /\ \A T : Number(Keeping(s, S), T) = Number(s, S \cap T)
  BY <1>1, KeepingKeeps DEF Rest
<1>3. PICK kept \in Seq(Message) : kept = Keeping(s, S)
  <2>1. Keeping(s, S) \in Seq(Message)
    BY <1>2
  <2> QED
    BY <2>1
<1>4. Number(kept, MessagesOf(id)) = 0
  <2>1. S \cap MessagesOf(id) = {}
    BY DEF MessagesOf
  <2>2. Number(s, {}) = 0
    <3>1. {i \in DOMAIN s : s[i] \in {}} = {}
      OBVIOUS
    <3> QED
      BY <3>1, FS_EmptySet DEF Number
  <2> QED
    BY <1>2, <1>3, <2>1, <2>2
<1>5. ASSUME NEW j, j # id PROVE Number(kept, MessagesOf(j)) = Number(s, MessagesOf(j))
  <2>1. \A i \in DOMAIN s : s[i] \in S \cap MessagesOf(j) <=> s[i] \in MessagesOf(j)
    BY <1>5 DEF MessagesOf, Range
  <2>2. Number(s, S \cap MessagesOf(j)) = Number(s, MessagesOf(j))
    <3> HIDE DEF S, s
    <3>1. {i \in DOMAIN s : s[i] \in S \cap MessagesOf(j)} = {i \in DOMAIN s : s[i] \in MessagesOf(j)}
      BY <2>1
    <3> QED
      BY <3>1 DEF Number
  <2> QED
    BY <1>2, <1>3, <2>2
<1>6. Len(kept) <= Len(s)
  <2>1. Number(kept, Message) = Len(kept)
    BY NumberOfAll
  <2>2. Number(kept, Message) = Number(s, S \cap Message)
    BY <1>2, <1>3
  <2>3. Number(s, S \cap Message) <= Len(s)
    BY <1>1, NumberOfAll
  <2> QED
    BY <2>1, <2>2, <2>3
<1>7. Released(c, id) = [unacked EXCEPT ![c] = kept]
  BY <1>3 DEF Released
<1>8. /\ Released(c, id) \in [Consumers -> Seq(Message)]
      /\ Released(c, id)[c] = kept
      /\ \A d \in Consumers \ {c} : Released(c, id)[d] = unacked[d]
  BY <1>7 DEF TypeOK
<1> HIDE DEF S
<1> QED
  BY <1>2, <1>3, <1>4, <1>5, <1>6, <1>8

\* A dispatch picks a consumer of the queue that may take a message.
LEMMA CandidatesAreEligible ==
  ASSUME TypeOK, NEW q \in Queues
  PROVE  /\ EligibleConsumers(q) # <<>> =>
              LET c == EligibleConsumers(q)[(roundRobin[q] % Len(EligibleConsumers(q))) + 1]
              IN c \in Consumers /\ QueueOf[c] = q /\ Eligible(c)
         /\ EligibleConsumers(q) = <<>> <=>
              \A i \in DOMAIN ConsumerOrder : ~ (/\ QueueOf[ConsumerOrder[i]] = q
                                                 /\ Eligible(ConsumerOrder[i]))
<1> DEFINE S == {c \in Consumers : QueueOf[c] = q /\ Eligible(c)}
<1>1. ConsumerOrder \in Seq(Consumers)
  BY InputFacts DEF TypeOK
<1>2. EligibleConsumers(q) = Keeping(ConsumerOrder, S)
  BY DEF EligibleConsumers
<1>3. PICK kept \in Seq(Consumers \cap S) : kept = EligibleConsumers(q)
  BY <1>1, <1>2, KeepingKeeps
<1>4. kept # <<>> => kept[(roundRobin[q] % Len(kept)) + 1] \in S
  <2> SUFFICES ASSUME kept # <<>> PROVE kept[(roundRobin[q] % Len(kept)) + 1] \in S
    OBVIOUS
  <2>1. PICK n \in Nat \ {0} : n = Len(kept)
    BY <1>3
  <2>2. PICK r \in Nat : r = roundRobin[q]
    BY DEF TypeOK
  <2>3. (r % n) + 1 \in 1 .. n
    BY <2>1, <2>2
  <2>4. DOMAIN kept = 1 .. n
    BY <2>1
  <2> QED
    BY <2>2, <2>1, <2>3, <2>4
<1>5. Keeping(ConsumerOrder, S) = <<>> <=> \A i \in DOMAIN ConsumerOrder : ConsumerOrder[i] \notin S
  <2> HIDE DEF S
  <2> QED
    BY <1>1, KeepingNone
<1>6. \A i \in DOMAIN ConsumerOrder : ConsumerOrder[i] \in Consumers
  BY <1>1
<1> QED
  BY <1>2, <1>3, <1>4, <1>5, <1>6

-----------------------------------------------------------------------------
(* The events a step takes and schedules.                                    *)

\* The type of an event says which record it is.
LEMMA LaterEventTypes ==
  ASSUME NEW e \in LaterEvents
  PROVE  /\ e.type = "route" <=> e \in RouteEvents
         /\ e.type = "enqueue" <=> e \in EnqueueEvents
         /\ e.type = "ttlExpire" <=> e \in TtlEvents
         /\ e.type \in {"deliver", "consumeDone"} <=> e \in WorkEvents
         /\ e.type \in {"route", "enqueue", "ttlExpire", "deliver", "consumeDone"}
<1>1. e \in RouteEvents => e.type = "route"
  BY DEF RouteEvents
<1>2. e \in EnqueueEvents => e.type = "enqueue"
  BY DEF EnqueueEvents
<1>3. e \in TtlEvents => e.type = "ttlExpire"
  BY DEF TtlEvents
<1>4. e \in WorkEvents => e.type = "deliver" \/ e.type = "consumeDone"
  BY DEF WorkEvents
<1> QED
  BY <1>1, <1>2, <1>3, <1>4 DEF LaterEvents

LEMMA UrgentEventTypes ==
  ASSUME NEW e \in UrgentEvents
  PROVE  /\ e.type = "dispatch" <=> e \in DispatchEvents
         /\ e.type = "publish" <=> e \in PublishEvents
         /\ e.type \in {"ack", "nack"} <=> e \in SettleEvents
         /\ e.type \in {"dispatch", "publish", "ack", "nack"}
<1>1. e \in DispatchEvents => e.type = "dispatch"
  BY DEF DispatchEvents
<1>2. e \in PublishEvents => e.type = "publish"
  BY DEF PublishEvents
<1>3. e \in SettleEvents => e.type = "ack" \/ e.type = "nack"
  BY DEF SettleEvents
<1> QED
  BY <1>1, <1>2, <1>3 DEF UrgentEvents

\* The copies of a message between nodes, the work on it, and what settles it.
OnTheWay(id) == {e \in RouteEvents \cup EnqueueEvents : e.msg.id = id}

Jobs(c, id, n) == {e \in WorkEvents : e.consumer = c /\ e.msg.id = id /\ e.epoch = n}

Settles(c, id) == {e \in SettleEvents : e.consumer = c /\ e.msg.id = id}

LEMMA TimerType ==
  ASSUME TypeOK, NEW id \in Nat, NEW q \in Queues, NEW stay \in Nat, NEW kept \in Seq(Entry)
  PROVE  /\ BagOver(Timer(id, q, stay, kept), LaterEvents)
         /\ DOMAIN Timer(id, q, stay, kept) \subseteq TtlEvents
         /\ Timer(id, q, stay, kept) \in {EmptyBag, One(TtlEvent(id, q, stay))}
         /\ q \in HasTtl /\ (\E i \in DOMAIN kept : kept[i].msg.id = id) =>
              Timer(id, q, stay, kept) = One(TtlEvent(id, q, stay))
<1> DEFINE t == TtlEvent(id, q, stay)
<1>1. t \in TtlEvents /\ t \in LaterEvents
  BY DEF TtlEvent, TtlEvents, LaterEvents
<1>2. Timer(id, q, stay, kept) = EmptyBag \/ Timer(id, q, stay, kept) = One(t)
  BY DEF Timer
<1>3. q \in HasTtl /\ (\E i \in DOMAIN kept : kept[i].msg.id = id) => Timer(id, q, stay, kept) = One(t)
  BY DEF Timer
<1> HIDE DEF t
<1>4. BagOver(One(t), LaterEvents) /\ DOMAIN One(t) = {t}
  BY <1>1, OneBag, OneCounts
<1>5. BagOver(EmptyBag, LaterEvents) /\ DOMAIN EmptyBag = {}
  BY NoneBag, NoneCounts
<1> QED
  BY <1>1, <1>2, <1>3, <1>4, <1>5 DEF t

\* Every destination of an exchange is sent a copy.
LEMMA ForwardedType ==
  ASSUME NEW msg \in Message, NEW T \in SUBSET (Exchanges \cup Queues), IsFiniteSet(T)
  PROVE  /\ BagOver(SetToBag(Forwarded(msg, T)), LaterEvents)
         /\ DOMAIN SetToBag(Forwarded(msg, T)) \subseteq RouteEvents \cup EnqueueEvents
         /\ \A id : Counted(SetToBag(Forwarded(msg, T)), OnTheWay(id)) =
                      IF msg.id = id THEN Cardinality(T) ELSE 0
<1> DEFINE way(d) == IF d \in Exchanges THEN RouteEvent(msg, d, FALSE)
                     ELSE [type |-> "enqueue", msg |-> msg, queue |-> d]
           F == Forwarded(msg, T)
           f == [d \in T |-> way(d)]
<1>1. F = {way(d) : d \in T}
  BY DEF Forwarded
<1>2. \A d \in T : way(d) \in RouteEvents \cup EnqueueEvents /\ way(d).msg.id = msg.id
  BY DEF RouteEvent, RouteEvents, EnqueueEvents
<1>3. \A d, x \in T : way(d) = way(x) => d = x
  <2> TAKE d \in T, x \in T
  <2> HAVE way(d) = way(x)
  <2>1. PICK u : u = way(d) /\ u = way(x)
    OBVIOUS
  <2>2. ASSUME NEW y \in T, u = way(y)
        PROVE  /\ y \in Exchanges => u.type = "route" /\ u.exchange = y
               /\ y \notin Exchanges => u.type = "enqueue" /\ u.queue = y
    BY <2>2 DEF RouteEvent
  <2> HIDE DEF way
  <2> QED
    BY <2>1, <2>2
<1>4. IsFiniteSet(F) /\ Cardinality(F) = Cardinality(T)
  <2>1. f \in [T -> F] /\ (\A d, x \in T : f[d] = f[x] => d = x) /\ \A y \in F : \E d \in T : f[d] = y
    BY <1>1, <1>3
  <2> HIDE DEF f, F
  <2> QED
    BY <2>1, SameSize
<1>5. F \subseteq RouteEvents \cup EnqueueEvents /\ \A e \in F : e.msg.id = msg.id
  BY <1>1, <1>2
<1> HIDE DEF F, way, f
<1>6. F \in SUBSET LaterEvents
  BY <1>5 DEF LaterEvents
<1>7. /\ BagOver(SetToBag(F), LaterEvents)
      /\ DOMAIN SetToBag(F) = F
      /\ \A S : Counted(SetToBag(F), S) = Cardinality(F \cap S)
  BY <1>4, <1>6, CountedOfSet
<1>8. ASSUME NEW id PROVE Counted(SetToBag(F), OnTheWay(id)) = IF msg.id = id THEN Cardinality(T) ELSE 0
  <2>1. F \cap OnTheWay(id) = IF msg.id = id THEN F ELSE {}
    BY <1>5 DEF OnTheWay
  <2>2. Cardinality({}) = 0
    BY FS_EmptySet
  <2>3. Counted(SetToBag(F), OnTheWay(id)) = Cardinality(F \cap OnTheWay(id))
    BY <1>7
  <2> QED
    BY <1>4, <2>1, <2>2, <2>3
<1> QED
  BY <1>5, <1>7, <1>8 DEF F

\* How the kernel's steps change what is scheduled.
LEMMA FireDoes ==
  ASSUME TypeOK, NEW e \in DOMAIN later, NEW soon \in Seq(UrgentEvents),
         NEW D, BagOver(D, LaterEvents), Fire(e, soon, D)
  PROVE  /\ input' = input /\ Ids' = Ids
         /\ later' = Fired(later, e, D) /\ BagOver(later', LaterEvents)
         /\ DOMAIN later' \subseteq DOMAIN later \cup DOMAIN D
         /\ (DOMAIN later \ {e}) \cup DOMAIN D \subseteq DOMAIN later'
         /\ urgent' = urgent \o soon /\ urgent' \in Seq(UrgentEvents)
<1>1. BagOver(later, LaterEvents) /\ urgent \in Seq(UrgentEvents)
  BY DEF TypeOK
<1>2. /\ later' = Fired(later, e, D)
      /\ urgent' = urgent \o soon
      /\ input' = input
  BY DEF Fire, Schedule, Fired, Joined, Taken
<1>3. BagOver(Fired(later, e, D), LaterEvents)
  BY <1>1, FiredBag
<1>4. /\ DOMAIN Fired(later, e, D) \subseteq DOMAIN later \cup DOMAIN D
      /\ (DOMAIN later \ {e}) \cup DOMAIN D \subseteq DOMAIN Fired(later, e, D)
  BY <1>1, FiredDomain
<1>5. Ids' = Ids
  BY <1>2 DEF Ids, MaxMessages
<1> QED
  BY <1>1, <1>2, <1>3, <1>4, <1>5

LEMMA ScheduleDoes ==
  ASSUME TypeOK, NEW soon \in Seq(UrgentEvents),
         NEW D, BagOver(D, LaterEvents), Schedule(later, soon, D)
  PROVE  /\ input' = input /\ Ids' = Ids
         /\ later' = Joined(later, D) /\ BagOver(later', LaterEvents)
         /\ DOMAIN later' = DOMAIN later \cup DOMAIN D
         /\ urgent' = urgent \o soon /\ urgent' \in Seq(UrgentEvents)
<1>1. BagOver(later, LaterEvents) /\ urgent \in Seq(UrgentEvents)
  BY DEF TypeOK
<1>2. /\ later' = Joined(later, D)
      /\ urgent' = urgent \o soon
      /\ input' = input
  BY DEF Schedule, Joined
<1>3. BagOver(Joined(later, D), LaterEvents)
  BY <1>1, JoinedBag
<1>4. DOMAIN Joined(later, D) = DOMAIN later \cup DOMAIN D
  BY JoinedDomain
<1>5. Ids' = Ids
  BY <1>2 DEF Ids, MaxMessages
<1> QED
  BY <1>1, <1>2, <1>3, <1>4, <1>5

LEMMA ChainDoes ==
  ASSUME TypeOK, urgent # <<>>, NEW soon \in Seq(UrgentEvents),
         NEW D, BagOver(D, LaterEvents), Chain(soon, D)
  PROVE  /\ input' = input /\ Ids' = Ids
         /\ later' = Joined(later, D) /\ BagOver(later', LaterEvents)
         /\ DOMAIN later' = DOMAIN later \cup DOMAIN D
         /\ urgent' = Tail(urgent) \o soon /\ urgent' \in Seq(UrgentEvents)
         /\ Head(urgent) \in UrgentEvents /\ Tail(urgent) \in Seq(UrgentEvents)
<1>1. /\ BagOver(later, LaterEvents) /\ urgent \in Seq(UrgentEvents)
      /\ Head(urgent) \in UrgentEvents /\ Tail(urgent) \in Seq(UrgentEvents)
  BY DEF TypeOK
<1>2. /\ later' = Joined(later, D)
      /\ urgent' = Tail(urgent) \o soon
      /\ input' = input
  BY DEF Chain, Joined
<1>3. BagOver(Joined(later, D), LaterEvents)
  BY <1>1, JoinedBag
<1>4. DOMAIN Joined(later, D) = DOMAIN later \cup DOMAIN D
  BY JoinedDomain
<1>5. Ids' = Ids
  BY <1>2 DEF Ids, MaxMessages
<1> QED
  BY <1>1, <1>2, <1>3, <1>4, <1>5

\* Counting on, wherever the counter is.
LEMMA AddCounts ==
  ASSUME NEW I, NEW f \in [I -> Nat], NEW m, NEW n \in Nat
  PROVE  /\ Add(f, m, n) \in [I -> Nat]
         /\ \A i \in I : Add(f, m, n)[i] = f[i] + (IF i = m THEN n ELSE 0)
<1> DEFINE g == Add(f, m, n)
<1>1. \A i \in I : f[i] \in Nat /\ f[i] + n \in Nat /\ f[i] + 0 = f[i]
  OBVIOUS
<1>2. g = [i \in I |-> IF i = m THEN f[m] + n ELSE f[i]]
  BY DEF Add
<1>3. \A i \in I : g[i] = f[i] + (IF i = m THEN n ELSE 0) /\ g[i] \in Nat
  BY <1>1, <1>2
<1> QED
  BY <1>2, <1>3

LEMMA DropsType ==
  ASSUME TypeOK, NEW msg, NEW q \in Queues
  PROVE  /\ DropsOf(msg, q) \in [Ids -> Nat]
         /\ \A id \in Ids : DropsOf(msg, q)[id] =
              drops[id] + (IF DeadLetterExchange[q] = NoExchange /\ id = msg.id THEN 1 ELSE 0)
<1>1. drops \in [Ids -> Nat]
  BY DEF TypeOK
<1>2. /\ Add(drops, msg.id, 1) \in [Ids -> Nat]
      /\ \A id \in Ids : Add(drops, msg.id, 1)[id] = drops[id] + (IF id = msg.id THEN 1 ELSE 0)
  BY <1>1, AddCounts
<1>3. CASE DeadLetterExchange[q] = NoExchange
  BY <1>2, <1>3 DEF DropsOf
<1>4. CASE DeadLetterExchange[q] # NoExchange
  BY <1>1, <1>4 DEF DropsOf
<1> QED
  BY <1>3, <1>4

-----------------------------------------------------------------------------
(* What each action does, in the types of its state.                         *)

LEMMA PublishDoes ==
  ASSUME TypeOK, NEW p \in Reply, NEW minted, minted = Minted(p)
  PROVE  /\ minted \in Message /\ minted.id = counter + 1
         /\ RouteEvent(minted, p.exchange, TRUE) \in RouteEvents
         /\ RouteEvent(minted, p.exchange, TRUE).msg.id = counter + 1
         /\ BagOver(One(RouteEvent(minted, p.exchange, TRUE)), LaterEvents)
<1>1. minted \in Message /\ minted.id = counter + 1 /\ p.exchange \in Exchanges
  BY DEF TypeOK, Minted, Message, Reply
<1>2. /\ RouteEvent(minted, p.exchange, TRUE) \in RouteEvents
      /\ RouteEvent(minted, p.exchange, TRUE) \in LaterEvents
  BY <1>1, RouteEventType
<1>3. RouteEvent(minted, p.exchange, TRUE).msg = minted
  BY DEF RouteEvent
<1> QED
  BY <1>1, <1>2, <1>3, OneBag

\* A message is minted, by a script action or for a reply.
Mints ==
  \E e \in RouteEvents :
    /\ e.msg.id = counter + 1 /\ counter < MaxMessages
    /\ later' = Joined(later, One(e)) /\ BagOver(One(e), LaterEvents)
    /\ counter' = counter + 1 /\ made' = Add(made, counter + 1, 1)
    /\ UNCHANGED <<queues, unacked, roundRobin, crashed, crashEpoch, acks, drops, confirms>>

\* Where a message that leaves a queue for good goes.
Leaves(msg, q, D) == D = Buried(msg, q) /\ drops' = DropsOf(msg, q)

Keeps == UNCHANGED <<unacked, roundRobin, crashed, crashEpoch, counter, made, acks, confirms>>

Twins(id, stay) == {f \in Entry : f.msg.id = id /\ f.stay = stay}

LEMMA PublishEffect ==
  ASSUME TypeOK, NEW p \in Script, Publish(p)
  PROVE  /\ input' = input /\ Ids' = Ids /\ BagOver(later', LaterEvents)
         /\ Mints
         /\ urgent' = urgent /\ fresh' = FreshNow
<1>1. p \in Reply
  BY InputFacts DEF TypeOK
<1>2. PICK minted : minted = Minted(p)
  OBVIOUS
<1> DEFINE e == RouteEvent(minted, p.exchange, TRUE)
<1>3. e \in RouteEvents /\ e.msg.id = counter + 1 /\ BagOver(One(e), LaterEvents)
  BY <1>1, <1>2, PublishDoes
<1>4. Schedule(later, <<>>, One(e))
  BY <1>2 DEF Publish
<1>5. <<>> \in Seq(UrgentEvents)
  OBVIOUS
<1> HIDE DEF e
<1>6. /\ input' = input /\ Ids' = Ids /\ later' = Joined(later, One(e))
      /\ BagOver(later', LaterEvents) /\ urgent' = urgent \o <<>>
  BY <1>3, <1>4, <1>5, ScheduleDoes
<1>7. Mints
  BY <1>3, <1>6 DEF Publish, Mint, Mints
<1>8. urgent' = urgent
  BY <1>6 DEF TypeOK
<1> QED
  BY <1>6, <1>7, <1>8 DEF Publish

LEMMA PublishReplyEffect ==
  ASSUME TypeOK, PublishReply
  PROVE  /\ input' = input /\ Ids' = Ids /\ BagOver(later', LaterEvents)
         /\ Mints \/ (UNCHANGED <<state, history>> /\ later' = Joined(later, EmptyBag))
         /\ urgent # <<>> /\ Head(urgent) \in PublishEvents
         /\ urgent' = Tail(urgent) /\ fresh' = fresh
<1>1. urgent # <<>> /\ Head(urgent).type = "publish" /\ urgent \in Seq(UrgentEvents)
  BY DEF PublishReply, NextEvent, TypeOK
<1>2. Head(urgent) \in UrgentEvents /\ Tail(urgent) \in Seq(UrgentEvents)
  BY <1>1
<1>3. Head(urgent) \in PublishEvents
  BY <1>1, <1>2, UrgentEventTypes
<1>4. PICK p \in Reply : p = Head(urgent).reply
  BY <1>3 DEF PublishEvents
<1>5. <<>> \in Seq(UrgentEvents) /\ Tail(urgent) \o <<>> = Tail(urgent)
  BY <1>2
<1>6. CASE counter < MaxMessages
  <2>1. PICK minted : minted = Minted(p)
    OBVIOUS
  <2> DEFINE e == RouteEvent(minted, p.exchange, TRUE)
  <2>2. e \in RouteEvents /\ e.msg.id = counter + 1 /\ BagOver(One(e), LaterEvents)
    BY <2>1, PublishDoes
  <2>3. Chain(<<>>, One(e)) /\ Mint(p)
    BY <1>4, <1>6, <2>1 DEF PublishReply
  <2> HIDE DEF e
  <2>4. /\ input' = input /\ Ids' = Ids /\ later' = Joined(later, One(e))
        /\ BagOver(later', LaterEvents) /\ urgent' = Tail(urgent) \o <<>>
    BY <1>1, <1>5, <2>2, <2>3, ChainDoes
  <2>5. Mints
    BY <1>6, <2>2, <2>3, <2>4 DEF Mint, Mints
  <2> QED
    BY <1>1, <1>3, <1>5, <2>4, <2>5 DEF PublishReply
<1>7. CASE ~(counter < MaxMessages)
  <2>1. Chain(<<>>, EmptyBag) /\ UNCHANGED <<state, history>>
    BY <1>7 DEF PublishReply
  <2>2. /\ input' = input /\ Ids' = Ids /\ later' = Joined(later, EmptyBag)
        /\ BagOver(later', LaterEvents) /\ urgent' = Tail(urgent) \o <<>>
    BY <1>1, <1>5, <2>1, NoneBag, ChainDoes
  <2> QED
    BY <1>1, <1>3, <1>5, <2>1, <2>2 DEF PublishReply
<1> QED
  BY <1>6, <1>7

LEMMA RouteEffect ==
  ASSUME TypeOK, NEW e \in DOMAIN later, Route(e)
  PROVE  /\ input' = input /\ Ids' = Ids /\ BagOver(later', LaterEvents)
         /\ e \in RouteEvents
         /\ \E T \in SUBSET (Exchanges \cup Queues) :
              /\ IsFiniteSet(T) /\ T = Range(Hits[e.exchange][e.msg.key])
              /\ BagOver(SetToBag(Forwarded(e.msg, T)), LaterEvents)
              /\ later' = Fired(later, e, SetToBag(Forwarded(e.msg, T)))
              /\ made' = Add(made, e.msg.id, Cardinality(T) - (IF T = {} THEN 0 ELSE 1))
              /\ drops' = Add(drops, e.msg.id, IF T = {} THEN 1 ELSE 0)
         /\ confirms' = Add(confirms, e.msg.id, ConfirmsOf(e))
         /\ urgent' = urgent /\ fresh' = FreshNow /\ UNCHANGED <<state, acks>>
<1>1. e \in LaterEvents /\ e.type = "route"
  BY DEF Route, TypeOK, BagOver
<1>2. e \in RouteEvents
  BY <1>1, LaterEventTypes
<1>3. e.msg \in Message /\ e.exchange \in Exchanges /\ e.msg.key \in Keys
  BY <1>2 DEF RouteEvents, Message
<1>4. Hits[e.exchange][e.msg.key] \in Seq(Exchanges \cup Queues)
  BY <1>3, InputFacts DEF TypeOK
<1> DEFINE T == Range(Hits[e.exchange][e.msg.key])
<1>5. T \in SUBSET (Exchanges \cup Queues) /\ IsFiniteSet(T)
  <2>1. PICK s \in Seq(Exchanges \cup Queues) : s = Hits[e.exchange][e.msg.key]
    BY <1>4
  <2>2. Range(s) = {s[i] : i \in 1 .. Len(s)}
    BY DEF Range
  <2>3. s \in Surjection(1 .. Len(s), Range(s)) /\ IsFiniteSet(1 .. Len(s))
    BY <2>2, FS_Interval DEF Surjection
  <2>4. Range(s) \in SUBSET (Exchanges \cup Queues) /\ IsFiniteSet(Range(s))
    BY <2>2, <2>3, FS_Surjection
  <2> QED
    BY <2>1, <2>4
<1>6. Fire(e, <<>>, SetToBag(Forwarded(e.msg, T)))
  BY DEF Route
<1>7. /\ made' = Add(made, e.msg.id, Cardinality(T) - (IF T = {} THEN 0 ELSE 1))
      /\ drops' = Add(drops, e.msg.id, IF T = {} THEN 1 ELSE 0)
      /\ confirms' = Add(confirms, e.msg.id, ConfirmsOf(e))
      /\ fresh' = FreshNow /\ UNCHANGED <<state, acks>>
  BY DEF Route
<1>8. PICK U \in SUBSET (Exchanges \cup Queues) : U = T
  BY <1>5
<1> HIDE DEF T
<1>9. BagOver(SetToBag(Forwarded(e.msg, U)), LaterEvents)
  BY <1>3, <1>5, <1>8, ForwardedType
<1>10. <<>> \in Seq(UrgentEvents)
  OBVIOUS
<1>11. /\ input' = input /\ Ids' = Ids /\ BagOver(later', LaterEvents)
       /\ later' = Fired(later, e, SetToBag(Forwarded(e.msg, U))) /\ urgent' = urgent \o <<>>
  BY <1>6, <1>8, <1>9, <1>10, FireDoes
<1>12. urgent' = urgent
  BY <1>11 DEF TypeOK
<1> QED
  BY <1>2, <1>5, <1>7, <1>8, <1>9, <1>11, <1>12 DEF T

LEMMA DispatchEventType ==
  ASSUME NEW q \in Queues
  PROVE  /\ DispatchEvent(q) \in DispatchEvents /\ DispatchEvent(q).queue = q
         /\ <<DispatchEvent(q)>> \in Seq(UrgentEvents)
BY DEF DispatchEvent, DispatchEvents, UrgentEvents

\* The entry of an enqueued message joins the queue; drop-head overflow takes the
\* head of the queue it has grown to, and a timer is set for what is kept.
Enqueued(e, entry, grown, kept, timer, burial) ==
  /\ timer = Timer(e.msg.id, e.queue, entry.stay, kept)
  /\ entry.msg = e.msg
  /\ \A S : Number(grown, S) = Number(queues[e.queue], S) + Bit(entry, S)
  /\ grown # <<>>
  /\ queues' = [queues EXCEPT ![e.queue] = kept]
  /\ \/ kept = grown /\ drops' = drops /\ burial = EmptyBag
     \/ kept = Tail(grown) /\ Leaves(Head(grown).msg, e.queue, burial)
  /\ BagOver(burial, LaterEvents) /\ DOMAIN burial \subseteq RouteEvents
  /\ later' = Fired(later, e, Joined(timer, burial))
  /\ BagOver(Joined(timer, burial), LaterEvents)
  /\ BagOver(timer, LaterEvents)

LEMMA EnqueueEffect ==
  ASSUME TypeOK, NEW e \in DOMAIN later, Enqueue(e)
  PROVE  /\ input' = input /\ Ids' = Ids /\ BagOver(later', LaterEvents)
         /\ e \in EnqueueEvents
         /\ \E entry \in Entry, grown \in Seq(Entry), kept \in Seq(Entry) : \E timer, burial :
              Enqueued(e, entry, grown, kept, timer, burial)
         /\ urgent' = urgent \o <<DispatchEvent(e.queue)>> /\ urgent' \in Seq(UrgentEvents)
         /\ fresh' \subseteq Mark /\ Keeps
<1>1. e \in LaterEvents /\ e.type = "enqueue"
  BY DEF Enqueue, TypeOK, BagOver
<1>2. e \in EnqueueEvents
  BY <1>1, LaterEventTypes
<1>3. e.msg \in Message /\ e.queue \in Queues /\ e.msg.id \in Nat
  BY <1>2 DEF EnqueueEvents, Message
<1>4. PICK q \in Queues : q = e.queue
  BY <1>3
<1>5. PICK entry \in Entry : entry = EntryNow(e.msg, q, FreshNow) /\ entry.msg = e.msg
  BY <1>3, EntryType, FreshNowType
<1>6. entry.stay \in Nat /\ queues[q] \in Seq(Entry)
  BY DEF Entry, TypeOK
<1>7. PICK p \in BOOLEAN : p <=> q \in Prioritised
  OBVIOUS
<1>8. PICK grown : grown = InsertByPriority(queues[q], entry, p)
  OBVIOUS
<1>9. grown = InsertByPriority(queues[q], entry, q \in Prioritised)
  BY <1>7, <1>8 DEF InsertByPriority
<1>10. grown \in Seq(Entry) /\ grown # <<>>
  BY <1>6, <1>8, QueueGrows
<1>11. \A S : Number(grown, S) = Number(queues[q], S) + Bit(entry, S)
  BY <1>6, <1>8, QueueGrows
<1>11a. Tail(grown) \in Seq(Entry) /\ Head(grown) \in Entry
  BY <1>10, NumberOfTail
<1>12. PICK kept \in Seq(Entry) : kept = IF Overflows(q, grown) THEN Tail(grown) ELSE grown
  BY <1>10, <1>11a
<1>13. PICK burial : burial = IF Overflows(q, grown) THEN Buried(Head(grown).msg, q) ELSE EmptyBag
  OBVIOUS
<1>14. PICK timer : timer = Timer(e.msg.id, q, entry.stay, kept)
  OBVIOUS
<1>15. /\ queues' = [queues EXCEPT ![q] = kept]
       /\ drops' = IF Overflows(q, grown) THEN DropsOf(Head(grown).msg, q) ELSE drops
       /\ Fire(e, <<DispatchEvent(q)>>, timer (+) burial)
       /\ fresh' = FreshNow \cup Marks(e.msg.id, q, entry.stay)
       /\ Keeps
  BY <1>4, <1>5, <1>9, <1>12, <1>13, <1>14 DEF Enqueue, Keeps
<1>16. Head(grown).msg \in Message
  BY <1>11a DEF Entry
<1>17. BagOver(burial, LaterEvents) /\ DOMAIN burial \subseteq RouteEvents
  BY <1>13, <1>16, BuriedType, NoneBag, NoneCounts DEF TypeOK
<1>18. BagOver(timer, LaterEvents)
  BY <1>3, <1>6, <1>14, TimerType
<1>19. BagOver(Joined(timer, burial), LaterEvents)
  BY <1>17, <1>18, JoinedBag
<1>20. Fire(e, <<DispatchEvent(q)>>, Joined(timer, burial))
  BY <1>15 DEF Joined
<1>21. /\ input' = input /\ Ids' = Ids /\ BagOver(later', LaterEvents)
       /\ later' = Fired(later, e, Joined(timer, burial))
       /\ urgent' = urgent \o <<DispatchEvent(q)>> /\ urgent' \in Seq(UrgentEvents)
  BY <1>19, <1>20, DispatchEventType, FireDoes
<1>22. fresh' \subseteq Mark
  <2>1. entry.stay = StayNow(e.msg.id, q, FreshNow)
    BY <1>5 DEF EntryNow
  <2>2. Marks(e.msg.id, q, entry.stay) \subseteq Mark
    BY <1>3, <2>1, MarksType, FreshNowType
  <2> QED
    BY <1>15, <2>2, FreshNowType
<1>23. \/ kept = grown /\ drops' = drops /\ burial = EmptyBag
       \/ kept = Tail(grown) /\ Leaves(Head(grown).msg, q, burial)
  BY <1>12, <1>13, <1>15 DEF Leaves
<1> QED
  <2>1. Enqueued(e, entry, grown, kept, timer, burial)
    BY <1>4, <1>5, <1>10, <1>11, <1>14, <1>15, <1>17, <1>18, <1>19, <1>21, <1>23 DEF Enqueued
  <2> QED
    BY <1>2, <1>4, <1>10, <1>15, <1>21, <1>22, <2>1

LEMMA TtlExpireEffect ==
  ASSUME TypeOK, NEW e \in DOMAIN later, TtlExpire(e)
  PROVE  /\ input' = input /\ Ids' = Ids /\ BagOver(later', LaterEvents)
         /\ e \in TtlEvents
         /\ \E burial :
              /\ BagOver(burial, LaterEvents) /\ DOMAIN burial \subseteq RouteEvents
              /\ later' = Fired(later, e, burial)
              /\ \/ /\ Number(queues[e.queue], Twins(e.id, e.stay)) = 0
                    /\ UNCHANGED <<queues, drops>> /\ burial = EmptyBag
                 \/ \E i \in 1 .. Len(queues[e.queue]) :
                      /\ queues[e.queue][i] \in Twins(e.id, e.stay)
                      /\ queues' = [queues EXCEPT ![e.queue] = RemoveAt(queues[e.queue], i)]
                      /\ Leaves(queues[e.queue][i].msg, e.queue, burial)
         /\ urgent' = urgent /\ fresh' = FreshNow /\ Keeps
<1>1. e \in LaterEvents /\ e.type = "ttlExpire"
  BY DEF TtlExpire, TypeOK, BagOver
<1>2. e \in TtlEvents
  BY <1>1, LaterEventTypes
<1>3. e.queue \in Queues
  BY <1>2 DEF TtlEvents
<1>4. PICK queue \in Seq(Entry) : queue = queues[e.queue]
  BY <1>3 DEF TypeOK
<1> DEFINE P == {j \in DOMAIN queue : queue[j].msg.id = e.id /\ queue[j].stay = e.stay}
<1>5. PICK i : i = FirstOf(P, queue)
  OBVIOUS
<1>6. i \in 1 .. Len(queue) + 1 /\ (i <= Len(queue) => i \in P) /\ (i > Len(queue) => P = {})
  <2>1. P \in SUBSET DOMAIN queue
    OBVIOUS
  <2> HIDE DEF P
  <2> QED
    BY <1>5, <2>1, FirstPosition
<1>7. /\ fresh' = FreshNow /\ Keeps
      /\ IF i > Len(queue)
         THEN Fire(e, <<>>, EmptyBag) /\ UNCHANGED <<queues, drops>>
         ELSE /\ queues' = [queues EXCEPT ![e.queue] = RemoveAt(queue, i)]
              /\ drops' = DropsOf(queue[i].msg, e.queue)
              /\ Fire(e, <<>>, Buried(queue[i].msg, e.queue))
  BY <1>4, <1>5 DEF TtlExpire, WithoutOne, Keeps
<1>8. <<>> \in Seq(UrgentEvents) /\ urgent \o <<>> = urgent
  BY DEF TypeOK
<1>9. CASE i > Len(queue)
  <2>1. Fire(e, <<>>, EmptyBag) /\ UNCHANGED <<queues, drops>>
    BY <1>7, <1>9
  <2>2. /\ input' = input /\ Ids' = Ids /\ BagOver(later', LaterEvents)
        /\ later' = Fired(later, e, EmptyBag) /\ urgent' = urgent \o <<>>
    BY <1>8, <2>1, NoneBag, FireDoes
  <2>3. Number(queue, Twins(e.id, e.stay)) = 0
    <3>1. \A j \in DOMAIN queue : queue[j] \notin Twins(e.id, e.stay)
      BY <1>6, <1>9 DEF Twins
    <3>2. {j \in DOMAIN queue : queue[j] \in Twins(e.id, e.stay)} = {}
      BY <3>1
    <3> QED
      BY <3>2, FS_EmptySet DEF Number
  <2>4. BagOver(EmptyBag, LaterEvents) /\ DOMAIN EmptyBag \subseteq RouteEvents
    BY NoneBag, NoneCounts
  <2> QED
    BY <1>2, <1>4, <1>7, <1>8, <2>1, <2>2, <2>3, <2>4
<1>10. CASE ~(i > Len(queue))
  <2>1. i \in 1 .. Len(queue) /\ i \in P
    BY <1>6, <1>10
  <2>2. queue[i] \in Entry
    BY <2>1
  <2>3. queue[i] \in Twins(e.id, e.stay) /\ queue[i].msg \in Message
    BY <2>1, <2>2 DEF Twins, Entry
  <2>4. PICK burial : burial = Buried(queue[i].msg, e.queue)
    OBVIOUS
  <2>5. BagOver(burial, LaterEvents) /\ DOMAIN burial \subseteq RouteEvents
    BY <1>3, <2>3, <2>4, BuriedType DEF TypeOK
  <2>6. /\ queues' = [queues EXCEPT ![e.queue] = RemoveAt(queue, i)]
        /\ Leaves(queue[i].msg, e.queue, burial)
        /\ Fire(e, <<>>, burial)
    BY <1>7, <1>10, <2>4 DEF Leaves
  <2>7. /\ input' = input /\ Ids' = Ids /\ BagOver(later', LaterEvents)
        /\ later' = Fired(later, e, burial) /\ urgent' = urgent \o <<>>
    BY <1>8, <2>5, <2>6, FireDoes
  <2> HIDE DEF P
  <2> QED
    BY <1>2, <1>4, <1>7, <1>8, <2>1, <2>3, <2>5, <2>6, <2>7
<1> QED
  BY <1>9, <1>10

LEMMA DispatchEffect ==
  ASSUME TypeOK, Dispatch
  PROVE  /\ input' = input /\ Ids' = Ids /\ BagOver(later', LaterEvents)
         /\ urgent # <<>> /\ Head(urgent) \in DispatchEvents
         /\ urgent' = Tail(urgent)
         /\ UNCHANGED <<crashed, crashEpoch, counter, fresh, history>>
         /\ LET q == Head(urgent).queue
            IN \/ /\ EligibleConsumers(q) = <<>> \/ queues[q] = <<>>
                  /\ later' = Joined(later, EmptyBag)
                  /\ UNCHANGED <<queues, unacked, roundRobin>>
               \/ \E c \in Consumers, e \in WorkEvents :
                    /\ QueueOf[c] = q /\ Eligible(c) /\ queues[q] # <<>>
                    /\ e.type = "deliver" /\ e.msg = Head(queues[q]).msg /\ e.queue = q
                    /\ e.consumer = c /\ e.epoch = crashEpoch[c]
                    /\ BagOver(One(e), LaterEvents) /\ later' = Joined(later, One(e))
                    /\ queues' = [queues EXCEPT ![q] = Tail(queues[q])]
                    /\ unacked' = IF c \in AutoAck THEN unacked
                                  ELSE [unacked EXCEPT ![c] = Append(unacked[c], e.msg)]
                    /\ roundRobin' \in [Queues -> Nat]
<1>1. urgent # <<>> /\ Head(urgent).type = "dispatch" /\ urgent \in Seq(UrgentEvents)
  BY DEF Dispatch, NextEvent, TypeOK
<1>2. Head(urgent) \in UrgentEvents /\ Tail(urgent) \in Seq(UrgentEvents)
  BY <1>1
<1>3. Head(urgent) \in DispatchEvents
  BY <1>1, <1>2, UrgentEventTypes
<1>4. PICK q \in Queues : q = Head(urgent).queue
  BY <1>3 DEF DispatchEvents
<1>5. <<>> \in Seq(UrgentEvents) /\ Tail(urgent) \o <<>> = Tail(urgent)
  BY <1>2
<1>6. UNCHANGED <<crashed, crashEpoch, counter, fresh, history>>
  BY DEF Dispatch
<1>7. CASE EligibleConsumers(q) = <<>> \/ queues[q] = <<>>
  <2>1. Chain(<<>>, EmptyBag) /\ UNCHANGED <<queues, unacked, roundRobin>>
    BY <1>4, <1>7 DEF Dispatch
  <2>2. /\ input' = input /\ Ids' = Ids /\ later' = Joined(later, EmptyBag)
        /\ BagOver(later', LaterEvents) /\ urgent' = Tail(urgent) \o <<>>
    BY <1>1, <1>5, <2>1, NoneBag, ChainDoes
  <2> QED
    BY <1>1, <1>3, <1>4, <1>5, <1>6, <1>7, <2>1, <2>2
<1>8. CASE ~(EligibleConsumers(q) = <<>> \/ queues[q] = <<>>)
  <2>1. PICK c : c = EligibleConsumers(q)[(roundRobin[q] % Len(EligibleConsumers(q))) + 1]
    OBVIOUS
  <2>2. c \in Consumers /\ QueueOf[c] = q /\ Eligible(c)
    BY <1>8, <2>1, CandidatesAreEligible
  <2>3. queues[q] \in Seq(Entry) /\ queues[q] # <<>>
    BY <1>8 DEF TypeOK
  <2>4. Head(queues[q]) \in Entry
    BY <2>3, NumberOfTail
  <2>5. PICK msg \in Message : msg = Head(queues[q]).msg
    BY <2>4 DEF Entry
  <2>6. crashEpoch[c] \in Nat
    BY <2>2 DEF TypeOK
  <2>7. PICK e \in WorkEvents : e = [type |-> "deliver", msg |-> msg, queue |-> q,
                                     consumer |-> c, epoch |-> crashEpoch[c]]
    BY <2>2, <2>6 DEF WorkEvents
  <2>8. e \in LaterEvents
    BY DEF LaterEvents
  <2>9. BagOver(One(e), LaterEvents)
    BY <2>8, OneBag
  <2>10. /\ queues' = [queues EXCEPT ![q] = Tail(queues[q])]
         /\ roundRobin' = [roundRobin EXCEPT ![q] = (roundRobin[q] + 1) % Cycle]
         /\ unacked' = IF c \in AutoAck THEN unacked
                       ELSE [unacked EXCEPT ![c] = Append(unacked[c], msg)]
         /\ Chain(<<>>, One(e))
    BY <1>4, <1>8, <2>1, <2>5, <2>7 DEF Dispatch
  <2>11. /\ input' = input /\ Ids' = Ids /\ later' = Joined(later, One(e))
         /\ BagOver(later', LaterEvents) /\ urgent' = Tail(urgent) \o <<>>
    BY <1>1, <1>5, <2>9, <2>10, ChainDoes
  <2>12. roundRobin' \in [Queues -> Nat]
    <3>1. roundRobin \in [Queues -> Nat] /\ Cycle \in Nat \ {0}
      BY InputFacts DEF TypeOK
    <3>2. PICK n \in Nat : n = (roundRobin[q] + 1) % Cycle
      BY <3>1
    <3> QED
      BY <2>10, <3>1, <3>2
  <2>13. /\ e.type = "deliver" /\ e.msg = msg /\ e.queue = q
         /\ e.consumer = c /\ e.epoch = crashEpoch[c]
    BY <2>7
  <2> QED
    BY <1>1, <1>3, <1>4, <1>5, <1>6, <2>2, <2>3, <2>5, <2>9, <2>10, <2>11, <2>12, <2>13
<1> QED
  BY <1>7, <1>8

LEMMA DeliverEffect ==
  ASSUME TypeOK, NEW e \in DOMAIN later, Deliver(e)
  PROVE  /\ input' = input /\ Ids' = Ids /\ BagOver(later', LaterEvents)
         /\ e \in WorkEvents
         /\ \/ ~Current(e) /\ later' = Fired(later, e, EmptyBag)
            \/ \E done \in WorkEvents :
                 /\ Current(e) /\ later' = Fired(later, e, One(done)) /\ BagOver(One(done), LaterEvents)
                 /\ done.msg = e.msg /\ done.queue = e.queue
                 /\ done.consumer = e.consumer /\ done.epoch = e.epoch
         /\ urgent' = urgent /\ fresh' = FreshNow /\ UNCHANGED <<state, history>>
<1>1. e \in LaterEvents /\ e.type = "deliver"
  BY DEF Deliver, TypeOK, BagOver
<1>2. e \in WorkEvents
  BY <1>1, LaterEventTypes
<1>3. <<>> \in Seq(UrgentEvents) /\ urgent \o <<>> = urgent
  BY DEF TypeOK
<1>4. CASE Current(e)
  <2>1. PICK done \in WorkEvents : done = [e EXCEPT !.type = "consumeDone"]
    BY <1>2 DEF WorkEvents
  <2>2. done.msg = e.msg /\ done.queue = e.queue /\ done.consumer = e.consumer /\ done.epoch = e.epoch
    BY <1>2, <2>1 DEF WorkEvents
  <2>3. done \in LaterEvents
    BY DEF LaterEvents
  <2>4. BagOver(One(done), LaterEvents)
    BY <2>3, OneBag
  <2>5. Fire(e, <<>>, One(done)) /\ fresh' = FreshNow /\ UNCHANGED <<state, history>>
    BY <1>4, <2>1 DEF Deliver
  <2>6. /\ input' = input /\ Ids' = Ids /\ BagOver(later', LaterEvents)
        /\ later' = Fired(later, e, One(done)) /\ urgent' = urgent \o <<>>
    BY <1>3, <2>4, <2>5, FireDoes
  <2> QED
    BY <1>2, <1>3, <1>4, <2>2, <2>4, <2>5, <2>6
<1>5. CASE ~Current(e)
  <2>1. Fire(e, <<>>, EmptyBag) /\ fresh' = FreshNow /\ UNCHANGED <<state, history>>
    BY <1>5 DEF Deliver
  <2>2. /\ input' = input /\ Ids' = Ids /\ BagOver(later', LaterEvents)
        /\ later' = Fired(later, e, EmptyBag) /\ urgent' = urgent \o <<>>
    BY <1>3, <2>1, NoneBag, FireDoes
  <2> QED
    BY <1>2, <1>3, <1>5, <2>1, <2>2
<1> QED
  BY <1>4, <1>5

LEMMA ConsumeDoneEffect ==
  ASSUME TypeOK, NEW e \in DOMAIN later, ConsumeDone(e)
  PROVE  /\ input' = input /\ Ids' = Ids /\ BagOver(later', LaterEvents)
         /\ e \in WorkEvents /\ later' = Fired(later, e, EmptyBag)
         /\ \/ ~Current(e) /\ urgent' = urgent
            \/ \E done \in SettleEvents :
                 /\ Current(e) /\ urgent' = Append(urgent, done) /\ urgent' = urgent \o <<done>>
                 /\ done.msg = e.msg /\ done.queue = e.queue /\ done.consumer = e.consumer
         /\ urgent' \in Seq(UrgentEvents)
         /\ fresh' = FreshNow /\ UNCHANGED <<state, history>>
<1>1. e \in LaterEvents /\ e.type = "consumeDone"
  BY DEF ConsumeDone, TypeOK, BagOver
<1>2. e \in WorkEvents
  BY <1>1, LaterEventTypes
<1>3. <<>> \in Seq(UrgentEvents) /\ urgent \o <<>> = urgent /\ urgent \in Seq(UrgentEvents)
  BY DEF TypeOK
<1>4. fresh' = FreshNow /\ UNCHANGED <<state, history>>
  BY DEF ConsumeDone
<1>5. CASE Current(e)
  <2>1. PICK outcome \in {"ack"} \cup (IF e.consumer \in MayNack \ AutoAck THEN {"nack"} ELSE {}) :
          Fire(e, <<[type |-> outcome, msg |-> e.msg, queue |-> e.queue,
                     consumer |-> e.consumer]>>, EmptyBag)
    BY <1>5 DEF ConsumeDone
  <2>2. PICK done \in SettleEvents : done = [type |-> outcome, msg |-> e.msg, queue |-> e.queue,
                                             consumer |-> e.consumer]
    BY <1>2 DEF WorkEvents, SettleEvents
  <2>3. done.msg = e.msg /\ done.queue = e.queue /\ done.consumer = e.consumer
    BY <2>2
  <2>4. done \in UrgentEvents
    BY DEF UrgentEvents
  <2>5. <<done>> \in Seq(UrgentEvents) /\ Append(urgent, done) = urgent \o <<done>>
    BY <1>3, <2>4
  <2>6. Fire(e, <<done>>, EmptyBag)
    BY <2>1, <2>2
  <2>7. /\ input' = input /\ Ids' = Ids /\ BagOver(later', LaterEvents)
        /\ later' = Fired(later, e, EmptyBag) /\ urgent' = urgent \o <<done>>
        /\ urgent' \in Seq(UrgentEvents)
    BY <2>5, <2>6, NoneBag, FireDoes
  <2> QED
    BY <1>2, <1>4, <1>5, <2>3, <2>5, <2>7
<1>6. CASE ~Current(e)
  <2>1. Fire(e, <<>>, EmptyBag)
    BY <1>6 DEF ConsumeDone
  <2>2. /\ input' = input /\ Ids' = Ids /\ BagOver(later', LaterEvents)
        /\ later' = Fired(later, e, EmptyBag) /\ urgent' = urgent \o <<>>
    BY <1>3, <2>1, NoneBag, FireDoes
  <2> QED
    BY <1>2, <1>3, <1>4, <1>6, <2>2
<1> QED
  BY <1>5, <1>6

\* Events at the current time that neither ack nor nack.
QuietEvents == DispatchEvents \cup PublishEvents

LEMMA QuietIsQuiet ==
  ASSUME NEW soon \in Seq(QuietEvents)
  PROVE  soon \in Seq(UrgentEvents) /\ \A c, id : Number(soon, Settles(c, id)) = 0
<1>1. soon \in Seq(UrgentEvents)
  BY DEF QuietEvents, UrgentEvents
<1>2. \A e \in QuietEvents : e \notin SettleEvents
  BY UrgentEventTypes DEF QuietEvents, UrgentEvents
<1>3. ASSUME NEW c, NEW id PROVE Number(soon, Settles(c, id)) = 0
  <2>1. \A i \in DOMAIN soon : soon[i] \notin Settles(c, id)
    BY <1>2 DEF Settles
  <2>2. {i \in DOMAIN soon : soon[i] \in Settles(c, id)} = {}
    BY <2>1
  <2> QED
    BY <2>2, FS_EmptySet DEF Number
<1> QED
  BY <1>1, <1>3

LEMMA WakeIsQuiet ==
  ASSUME NEW q \in Queues
  PROVE  /\ <<DispatchEvent(q)>> \in Seq(QuietEvents)
         /\ DispatchEvent(q).type = "dispatch" /\ DispatchEvent(q).queue = q
BY DEF DispatchEvent, DispatchEvents, QuietEvents


LEMMA AckEffect ==
  ASSUME TypeOK, Ack
  PROVE  /\ input' = input /\ Ids' = Ids /\ BagOver(later', LaterEvents)
         /\ \E e \in SettleEvents :
              /\ urgent # <<>> /\ e = Head(urgent)
              /\ unacked' = Released(e.consumer, e.msg.id)
              /\ acks' = Add(acks, e.msg.id, 1)
              /\ later' = Joined(later, EmptyBag)
              /\ \E soon \in Seq(QuietEvents) :
                   /\ urgent' = Tail(urgent) \o soon
                   /\ \E i \in DOMAIN soon : soon[i].type = "dispatch" /\ soon[i].queue = e.queue
         /\ urgent' \in Seq(UrgentEvents)
         /\ UNCHANGED <<queues, roundRobin, crashed, crashEpoch, counter, fresh, made, drops, confirms>>
<1>1. urgent # <<>> /\ Head(urgent).type = "ack" /\ urgent \in Seq(UrgentEvents)
  BY DEF Ack, NextEvent, TypeOK
<1>2. Head(urgent) \in UrgentEvents /\ Tail(urgent) \in Seq(UrgentEvents)
  BY <1>1
<1>3. PICK e \in SettleEvents : e = Head(urgent)
  BY <1>1, <1>2, UrgentEventTypes
<1>4. e.msg \in Message /\ e.queue \in Queues
  BY DEF SettleEvents
<1>5. PICK soon : soon = Append(ReplyEvents(e.msg), DispatchEvent(e.queue))
  OBVIOUS
<1>6. /\ soon \in Seq(QuietEvents)
      /\ \E i \in DOMAIN soon : soon[i].type = "dispatch" /\ soon[i].queue = e.queue
  <2>1. PICK wake \in QuietEvents : /\ wake = DispatchEvent(e.queue)
                                    /\ wake.type = "dispatch" /\ wake.queue = e.queue
    <3>1. /\ DispatchEvent(e.queue) \in DispatchEvents
          /\ DispatchEvent(e.queue).type = "dispatch" /\ DispatchEvent(e.queue).queue = e.queue
      BY <1>4 DEF DispatchEvent, DispatchEvents
    <3> QED
      BY <3>1 DEF QuietEvents
  <2>2. PICK replies \in Seq(QuietEvents) : replies = ReplyEvents(e.msg)
    <3>1. CASE e.msg.replyTo = NoExchange
      <4>1. ReplyEvents(e.msg) = <<>> /\ <<>> \in Seq(QuietEvents)
        BY <3>1 DEF ReplyEvents
      <4> QED
        BY <4>1
    <3>2. CASE e.msg.replyTo # NoExchange
      <4>1. e.msg.replyTo \in Exchanges /\ e.msg.correlationId \in Keys
        BY <1>4, <3>2 DEF Message
      <4>2. [exchange |-> e.msg.replyTo, key |-> e.msg.correlationId, priority |-> 0,
             replyTo |-> NoExchange, correlationId |-> e.msg.correlationId] \in Reply
        BY <4>1 DEF Reply
      <4>3. PICK event \in QuietEvents :
              event = [type |-> "publish",
                       reply |-> [exchange |-> e.msg.replyTo, key |-> e.msg.correlationId,
                                  priority |-> 0, replyTo |-> NoExchange,
                                  correlationId |-> e.msg.correlationId]]
        BY <4>2 DEF QuietEvents, PublishEvents
      <4>4. ReplyEvents(e.msg) = <<event>>
        BY <3>2, <4>3 DEF ReplyEvents
      <4> QED
        BY <4>4
    <3> QED
      BY <3>1, <3>2
  <2>3. soon = Append(replies, wake)
    BY <1>5, <2>1, <2>2
  <2>4. soon \in Seq(QuietEvents) /\ Len(replies) + 1 \in DOMAIN soon /\ soon[Len(replies) + 1] = wake
    BY <2>3
  <2> QED
    BY <2>1, <2>4
<1>7. /\ unacked' = Released(e.consumer, e.msg.id)
      /\ acks' = Add(acks, e.msg.id, 1)
      /\ Chain(soon, EmptyBag)
      /\ UNCHANGED <<queues, roundRobin, crashed, crashEpoch, counter, fresh, made, drops, confirms>>
  BY <1>3, <1>5 DEF Ack
<1>8. soon \in Seq(UrgentEvents)
  BY <1>6, QuietIsQuiet
<1>9. /\ input' = input /\ Ids' = Ids /\ later' = Joined(later, EmptyBag)
      /\ BagOver(later', LaterEvents) /\ urgent' = Tail(urgent) \o soon /\ urgent' \in Seq(UrgentEvents)
  BY <1>1, <1>7, <1>8, NoneBag, ChainDoes
<1> QED
  BY <1>1, <1>3, <1>6, <1>7, <1>9

LEMMA NackEffect ==
  ASSUME TypeOK, Nack
  PROVE  /\ input' = input /\ Ids' = Ids /\ BagOver(later', LaterEvents)
         /\ \E e \in SettleEvents :
              /\ urgent # <<>> /\ e = Head(urgent)
              /\ unacked' = Released(e.consumer, e.msg.id)
              /\ urgent' = Tail(urgent) \o <<DispatchEvent(e.queue)>>
              /\ \/ \E entry \in Entry, queue \in Seq(Entry) :
                      /\ e.consumer \in RequeueOnNack
                      /\ entry.msg.id = e.msg.id
                      /\ \A S : Number(queue, S) = Number(queues[e.queue], S) + Bit(entry, S)
                      /\ queues' = [queues EXCEPT ![e.queue] = queue]
                      /\ later' = Joined(later, EmptyBag) /\ UNCHANGED drops
                 \/ \E burial :
                      /\ e.consumer \notin RequeueOnNack
                      /\ Leaves(e.msg, e.queue, burial) /\ UNCHANGED queues
                      /\ BagOver(burial, LaterEvents) /\ DOMAIN burial \subseteq RouteEvents
                      /\ later' = Joined(later, burial)
         /\ urgent' \in Seq(UrgentEvents) /\ fresh' \subseteq Mark
         /\ UNCHANGED <<roundRobin, crashed, crashEpoch, counter, made, acks, confirms>>
<1>1. urgent # <<>> /\ Head(urgent).type = "nack" /\ urgent \in Seq(UrgentEvents)
  BY DEF Nack, NextEvent, TypeOK
<1>2. Head(urgent) \in UrgentEvents /\ Tail(urgent) \in Seq(UrgentEvents)
  BY <1>1
<1>3. PICK e \in SettleEvents : e = Head(urgent)
  BY <1>1, <1>2, UrgentEventTypes
<1>4. e.msg \in Message /\ e.queue \in Queues
  BY DEF SettleEvents
<1>5. /\ <<DispatchEvent(e.queue)>> \in Seq(UrgentEvents)
      /\ fresh \in SUBSET Mark
  BY <1>4, DispatchEventType DEF TypeOK
<1>6. /\ unacked' = Released(e.consumer, e.msg.id)
      /\ UNCHANGED <<roundRobin, crashed, crashEpoch, counter, made, acks, confirms>>
  BY <1>3 DEF Nack
<1>7. CASE e.consumer \in RequeueOnNack
  <2>1. PICK entry \in Entry : entry = EntryNow(Redelivered(e.msg), e.queue, fresh)
    BY <1>4, <1>5, EntryType
  <2>2. Redelivered(e.msg) \in Message /\ Redelivered(e.msg).id = e.msg.id
    BY <1>4, <1>5, EntryType
  <2>3. entry.msg.id = e.msg.id
    BY <1>4, <1>5, <2>1, <2>2, EntryType
  <2>4. PICK p \in BOOLEAN : p <=> e.queue \in Prioritised
    OBVIOUS
  <2>5. PICK queue : queue = RequeueByPriority(queues[e.queue], entry, p)
    OBVIOUS
  <2>6. queues[e.queue] \in Seq(Entry)
    BY <1>4 DEF TypeOK
  <2>7. queue \in Seq(Entry) /\ queue # <<>>
    BY <2>5, <2>6, QueueGrows
  <2>8. \A S : Number(queue, S) = Number(queues[e.queue], S) + Bit(entry, S)
    BY <2>5, <2>6, QueueGrows
  <2>9. queue = RequeueByPriority(queues[e.queue], entry, e.queue \in Prioritised)
    BY <2>4, <2>5 DEF RequeueByPriority
  <2>10. /\ queues' = [queues EXCEPT ![e.queue] = queue]
         /\ Chain(<<DispatchEvent(e.queue)>>, EmptyBag)
         /\ fresh' = fresh \cup Marks(e.msg.id, e.queue, entry.stay)
         /\ UNCHANGED drops
    BY <1>3, <1>7, <2>1, <2>9 DEF Nack
  <2>11. /\ input' = input /\ Ids' = Ids /\ later' = Joined(later, EmptyBag)
         /\ BagOver(later', LaterEvents) /\ urgent' = Tail(urgent) \o <<DispatchEvent(e.queue)>>
         /\ urgent' \in Seq(UrgentEvents)
    BY <1>1, <1>5, <2>10, NoneBag, ChainDoes
  <2>12. fresh' \subseteq Mark
    <3>1. entry.stay = StayNow(e.msg.id, e.queue, fresh)
      BY <2>1, <2>2 DEF EntryNow
    <3>2. e.msg.id \in Nat
      BY <1>4 DEF Message
    <3>3. Marks(e.msg.id, e.queue, entry.stay) \subseteq Mark
      BY <1>4, <1>5, <3>1, <3>2, MarksType
    <3> QED
      BY <1>5, <2>10, <3>3
  <2> QED
    BY <1>1, <1>3, <1>6, <1>7, <2>3, <2>7, <2>8, <2>10, <2>11, <2>12
<1>8. CASE e.consumer \notin RequeueOnNack
  <2>1. PICK burial : burial = Buried(e.msg, e.queue)
    OBVIOUS
  <2>2. BagOver(burial, LaterEvents) /\ DOMAIN burial \subseteq RouteEvents
    BY <1>4, <2>1, BuriedType DEF TypeOK
  <2>3. /\ Leaves(e.msg, e.queue, burial)
        /\ Chain(<<DispatchEvent(e.queue)>>, burial)
        /\ UNCHANGED <<queues, fresh>>
    BY <1>3, <1>8, <2>1 DEF Nack, Leaves
  <2>4. /\ input' = input /\ Ids' = Ids /\ later' = Joined(later, burial)
        /\ BagOver(later', LaterEvents) /\ urgent' = Tail(urgent) \o <<DispatchEvent(e.queue)>>
        /\ urgent' \in Seq(UrgentEvents)
    BY <1>1, <1>5, <2>2, <2>3, ChainDoes
  <2> QED
    BY <1>1, <1>3, <1>5, <1>6, <1>8, <2>2, <2>3, <2>4
<1> QED
  BY <1>7, <1>8

\* What the consumer held is in its queue again.
GivenBack(c, queue) ==
  \A id : Number(queue, EntriesOf(id)) =
            Number(queues[QueueOf[c]], EntriesOf(id)) + Number(unacked[c], MessagesOf(id))

LEMMA CrashEffect ==
  ASSUME TypeOK, NEW c \in Consumers, Crash(c)
  PROVE  /\ input' = input /\ Ids' = Ids /\ BagOver(later', LaterEvents)
         /\ later' = Joined(later, EmptyBag)
         /\ crashEpoch[c] < MaxCrashes[c] /\ (CrashRacesAck \/ ~Finishing(c))
         /\ crashed' = crashed \cup {c}
         /\ crashEpoch' = [crashEpoch EXCEPT ![c] = crashEpoch[c] + 1]
         /\ unacked' = [unacked EXCEPT ![c] = <<>>]
         /\ \E queue \in Seq(Entry) :
              /\ queues' = [queues EXCEPT ![QueueOf[c]] = queue]
              /\ unacked[c] = <<>> => queue = queues[QueueOf[c]]
              /\ GivenBack(c, queue)
         /\ \/ unacked[c] = <<>> /\ urgent' = urgent
            \/ unacked[c] # <<>> /\ urgent' = urgent \o <<DispatchEvent(QueueOf[c])>>
         /\ urgent' \in Seq(UrgentEvents) /\ fresh' \subseteq Mark
         /\ UNCHANGED <<roundRobin, counter, history>>
<1>1. PICK q \in Queues : q = QueueOf[c]
  BY InputFacts DEF TypeOK
<1>2. unacked[c] \in Seq(Message) /\ queues[q] \in Seq(Entry)
  BY DEF TypeOK
<1>3. PICK queue \in Seq(Entry) : queue = Restored(queues[q], unacked[c], q)
  BY <1>2, RestoredKeeps
<1>4. GivenBack(c, queue)
  <2>1. \A id : Number(queue, EntriesOf(id)) = Number(queues[q], EntriesOf(id)) + Number(unacked[c], MessagesOf(id))
    BY <1>2, <1>3, RestoredKeeps
  <2> QED
    BY <1>1, <2>1 DEF GivenBack
<1>5. unacked[c] = <<>> => queue = queues[q]
  BY <1>2, <1>3, RestoredKeeps
<1>6. PICK soon : soon = Wakeups(c)
  OBVIOUS
<1>7. /\ soon \in Seq(UrgentEvents)
      /\ soon = IF unacked[c] = <<>> THEN <<>> ELSE <<DispatchEvent(q)>>
  BY <1>1, <1>6, DispatchEventType DEF Wakeups
<1>8. /\ crashEpoch[c] < MaxCrashes[c] /\ (CrashRacesAck \/ ~Finishing(c))
      /\ crashed' = crashed \cup {c}
      /\ crashEpoch' = [crashEpoch EXCEPT ![c] = crashEpoch[c] + 1]
      /\ unacked' = [unacked EXCEPT ![c] = <<>>]
      /\ queues' = [queues EXCEPT ![q] = queue]
      /\ Schedule(later, soon, EmptyBag)
      /\ UNCHANGED <<roundRobin, counter, history>>
  BY <1>1, <1>3, <1>6 DEF Crash, NextEpoch
<1>9. /\ input' = input /\ Ids' = Ids /\ later' = Joined(later, EmptyBag)
      /\ BagOver(later', LaterEvents) /\ urgent' = urgent \o soon /\ urgent' \in Seq(UrgentEvents)
  BY <1>7, <1>8, NoneBag, ScheduleDoes
<1>10. unacked[c] = <<>> => urgent' = urgent
  BY <1>7, <1>9 DEF TypeOK
<1>11. fresh' \subseteq Mark
  <2>1. fresh' = FreshNow \cup UNION {Marks(m.id, q, StayNow(m.id, q, FreshNow)) : m \in Range(unacked[c])}
    BY <1>1 DEF Crash
  <2>2. \A m \in Range(unacked[c]) : m.id \in Nat
    <3>1. \A i \in DOMAIN unacked[c] : unacked[c][i] \in Message
      BY <1>2
    <3> QED
      BY <3>1 DEF Range, Message
  <2>3. \A m \in Range(unacked[c]) : Marks(m.id, q, StayNow(m.id, q, FreshNow)) \subseteq Mark
    BY <2>2, MarksType, FreshNowType
  <2> QED
    BY <2>1, <2>3, FreshNowType
<1> QED
  BY <1>1, <1>4, <1>5, <1>7, <1>8, <1>9, <1>10, <1>11

LEMMA RecoverEffect ==
  ASSUME TypeOK, NEW c \in Consumers, Recover(c)
  PROVE  /\ input' = input /\ Ids' = Ids /\ BagOver(later', LaterEvents)
         /\ later' = Joined(later, EmptyBag)
         /\ crashed' = crashed \ {c}
         /\ urgent' = urgent \o <<DispatchEvent(QueueOf[c])>> /\ urgent' \in Seq(UrgentEvents)
         /\ fresh' = FreshNow
         /\ UNCHANGED <<queues, unacked, roundRobin, crashEpoch, counter, history>>
<1>1. QueueOf[c] \in Queues
  BY InputFacts DEF TypeOK
<1>2. <<DispatchEvent(QueueOf[c])>> \in Seq(UrgentEvents)
  BY <1>1, DispatchEventType
<1>3. Schedule(later, <<DispatchEvent(QueueOf[c])>>, EmptyBag)
  BY DEF Recover
<1>4. /\ input' = input /\ Ids' = Ids /\ later' = Joined(later, EmptyBag)
      /\ BagOver(later', LaterEvents) /\ urgent' = urgent \o <<DispatchEvent(QueueOf[c])>>
      /\ urgent' \in Seq(UrgentEvents)
  BY <1>2, <1>3, NoneBag, ScheduleDoes
<1> QED
  BY <1>4 DEF Recover

-----------------------------------------------------------------------------
(* Types.                                                                    *)

\* The variables that no event is in.
StateTypeOK ==
  /\ queues \in [Queues -> Seq(Entry)]
  /\ unacked \in [Consumers -> Seq(Message)]
  /\ roundRobin \in [Queues -> Nat]
  /\ crashed \subseteq Consumers
  /\ crashEpoch \in [Consumers -> Nat]
  /\ counter \in Nat

HistoryTypeOK ==
  /\ made \in [Ids -> Nat] /\ acks \in [Ids -> Nat]
  /\ drops \in [Ids -> Nat] /\ confirms \in [Ids -> Nat]

EventTypeOK ==
  /\ input \in Inputs
  /\ BagOver(later, LaterEvents)
  /\ urgent \in Seq(UrgentEvents)
  /\ fresh \subseteq Mark

LEMMA TypeParts ==
  TypeOK <=> StateTypeOK /\ HistoryTypeOK /\ EventTypeOK
BY DEF TypeOK, StateTypeOK, HistoryTypeOK, EventTypeOK

LEMMA TypePartsNext ==
  TypeOK' <=> StateTypeOK' /\ HistoryTypeOK' /\ EventTypeOK'
BY DEF TypeOK, StateTypeOK, HistoryTypeOK, EventTypeOK

LEMMA SameHistory ==
  ASSUME HistoryTypeOK, Ids' = Ids, UNCHANGED <<made, acks, drops, confirms>>
  PROVE  HistoryTypeOK'
BY DEF HistoryTypeOK

LEMMA SameState ==
  ASSUME StateTypeOK, UNCHANGED state
  PROVE  StateTypeOK'
BY DEF StateTypeOK, state

LEMMA InitType ==
  ASSUME Init
  PROVE  TypeOK
<1>1. None \in [Ids -> Nat]
  BY DEF None
<1>2. BagOver(EmptyBag, LaterEvents)
  BY NoneBag
<1> QED
  BY <1>1, <1>2 DEF Init, TypeOK

LEMMA MintsType ==
  ASSUME TypeOK, Mints, Ids' = Ids
  PROVE  StateTypeOK' /\ HistoryTypeOK'
<1>1. Add(made, counter + 1, 1) \in [Ids -> Nat]
  BY AddCounts DEF TypeOK
<1>2. StateTypeOK'
  BY DEF Mints, TypeOK, StateTypeOK
<1>3. HistoryTypeOK'
  BY <1>1 DEF Mints, TypeOK, HistoryTypeOK
<1> QED
  BY <1>2, <1>3

LEMMA LeavesType ==
  ASSUME TypeOK, NEW msg, NEW q \in Queues, NEW D, Leaves(msg, q, D), Ids' = Ids,
         UNCHANGED <<made, acks, confirms>>
  PROVE  HistoryTypeOK'
<1>1. drops' \in [Ids -> Nat]
  BY DropsType DEF Leaves
<1> QED
  BY <1>1 DEF HistoryTypeOK, TypeOK

LEMMA TypeStep ==
  ASSUME TypeOK, [Next]_vars
  PROVE  TypeOK'
<1> SUFFICES StateTypeOK' /\ HistoryTypeOK' /\ EventTypeOK'
  BY TypePartsNext
<1> USE TypeParts
<1>1. CASE UNCHANGED vars
  <2>1. UNCHANGED <<state, events, history, input>>
    BY <1>1 DEF vars
  <2>2. Ids' = Ids
    BY <2>1 DEF Ids, MaxMessages
  <2> QED
    BY <2>1, <2>2, SameHistory, SameState DEF EventTypeOK, events, history
<1>2. ASSUME NEW p \in Script, Publish(p) PROVE StateTypeOK' /\ HistoryTypeOK' /\ EventTypeOK'
  <2>1. /\ input' = input /\ Ids' = Ids /\ BagOver(later', LaterEvents)
        /\ Mints
        /\ urgent' = urgent /\ fresh' = FreshNow
    BY <1>2, PublishEffect
  <2>2. EventTypeOK'
    BY <2>1, FreshNowType DEF EventTypeOK
  <2> QED
    BY <2>1, <2>2, MintsType
<1>3. ASSUME NEW c \in Consumers, Crash(c) PROVE StateTypeOK' /\ HistoryTypeOK' /\ EventTypeOK'
  <2>1. /\ input' = input /\ Ids' = Ids /\ BagOver(later', LaterEvents)
        /\ crashed' = crashed \cup {c}
        /\ crashEpoch' = [crashEpoch EXCEPT ![c] = crashEpoch[c] + 1]
        /\ unacked' = [unacked EXCEPT ![c] = <<>>]
        /\ urgent' \in Seq(UrgentEvents) /\ fresh' \subseteq Mark
        /\ UNCHANGED <<roundRobin, counter, history>>
    BY <1>3, CrashEffect
  <2>2. PICK queue \in Seq(Entry) : queues' = [queues EXCEPT ![QueueOf[c]] = queue]
    BY <1>3, CrashEffect
  <2>3. EventTypeOK'
    BY <2>1 DEF EventTypeOK
  <2>4. StateTypeOK'
    <3>1. queues' \in [Queues -> Seq(Entry)]
      BY <2>2 DEF StateTypeOK
    <3>2. unacked' \in [Consumers -> Seq(Message)]
      <4>1. <<>> \in Seq(Message)
        OBVIOUS
      <4> QED
        BY <2>1, <4>1 DEF StateTypeOK
    <3>3. crashEpoch' \in [Consumers -> Nat]
      <4>1. crashEpoch[c] + 1 \in Nat
        BY DEF StateTypeOK
      <4> QED
        BY <2>1, <4>1 DEF StateTypeOK
    <3> QED
      BY <2>1, <3>1, <3>2, <3>3 DEF StateTypeOK
  <2> QED
    BY <2>1, <2>3, <2>4, SameHistory DEF history
<1>4. ASSUME NEW c \in Consumers, Recover(c) PROVE StateTypeOK' /\ HistoryTypeOK' /\ EventTypeOK'
  <2>1. /\ input' = input /\ Ids' = Ids /\ BagOver(later', LaterEvents)
        /\ crashed' = crashed \ {c}
        /\ urgent' \in Seq(UrgentEvents) /\ fresh' = FreshNow
        /\ UNCHANGED <<queues, unacked, roundRobin, crashEpoch, counter, history>>
    BY <1>4, RecoverEffect
  <2>2. EventTypeOK'
    BY <2>1, FreshNowType DEF EventTypeOK
  <2>3. StateTypeOK'
    BY <2>1 DEF StateTypeOK
  <2> QED
    BY <2>1, <2>2, <2>3, SameHistory DEF history
<1>5. CASE PublishReply
  <2>1. /\ input' = input /\ Ids' = Ids /\ BagOver(later', LaterEvents)
        /\ Mints \/ UNCHANGED <<state, history>>
        /\ urgent # <<>> /\ urgent' = Tail(urgent) /\ fresh' = fresh
    BY <1>5, PublishReplyEffect
  <2>2. EventTypeOK'
    BY <2>1 DEF EventTypeOK
  <2>3. CASE Mints
    BY <2>1, <2>2, <2>3, MintsType
  <2>4. CASE UNCHANGED <<state, history>>
    BY <2>1, <2>2, <2>4, SameHistory, SameState DEF history
  <2> QED
    BY <2>1, <2>3, <2>4
<1>6. CASE Dispatch
  <2>1. /\ input' = input /\ Ids' = Ids /\ BagOver(later', LaterEvents)
        /\ urgent # <<>> /\ urgent' = Tail(urgent)
        /\ UNCHANGED <<crashed, crashEpoch, counter, fresh, history>>
    BY <1>6, DispatchEffect
  <2>2. EventTypeOK'
    BY <2>1 DEF EventTypeOK
  <2>3. \/ UNCHANGED <<queues, unacked, roundRobin>>
        \/ \E q \in Queues, c \in Consumers, msg \in Message :
             /\ queues[q] # <<>> /\ queues' = [queues EXCEPT ![q] = Tail(queues[q])]
             /\ unacked' = IF c \in AutoAck THEN unacked
                           ELSE [unacked EXCEPT ![c] = Append(unacked[c], msg)]
             /\ roundRobin' \in [Queues -> Nat]
    <3>1. Head(urgent).queue \in Queues
      BY <1>6, DispatchEffect DEF DispatchEvents
    <3>2. \A e \in WorkEvents : e.msg \in Message
      BY DEF WorkEvents
    <3> QED
      BY <1>6, <3>1, <3>2, DispatchEffect
  <2>4. StateTypeOK'
    <3>1. CASE UNCHANGED <<queues, unacked, roundRobin>>
      BY <2>1, <3>1 DEF StateTypeOK
    <3>2. ASSUME NEW q \in Queues, NEW c \in Consumers, NEW msg \in Message,
                 queues[q] # <<>>, queues' = [queues EXCEPT ![q] = Tail(queues[q])],
                 unacked' = IF c \in AutoAck THEN unacked
                            ELSE [unacked EXCEPT ![c] = Append(unacked[c], msg)],
                 roundRobin' \in [Queues -> Nat]
          PROVE  StateTypeOK'
      <4>1. Tail(queues[q]) \in Seq(Entry)
        BY <3>2 DEF StateTypeOK
      <4>2. queues' \in [Queues -> Seq(Entry)]
        BY <3>2, <4>1 DEF StateTypeOK
      <4>3. Append(unacked[c], msg) \in Seq(Message)
        BY DEF StateTypeOK
      <4>4. unacked' \in [Consumers -> Seq(Message)]
        BY <3>2, <4>3 DEF StateTypeOK
      <4> QED
        BY <2>1, <3>2, <4>2, <4>4 DEF StateTypeOK
    <3> QED
      BY <2>3, <3>1, <3>2
  <2> QED
    BY <2>1, <2>2, <2>4, SameHistory DEF history
<1>7. CASE Ack
  <2>1. /\ input' = input /\ Ids' = Ids /\ BagOver(later', LaterEvents)
        /\ urgent' \in Seq(UrgentEvents)
        /\ UNCHANGED <<queues, roundRobin, crashed, crashEpoch, counter, fresh, made, drops, confirms>>
    BY <1>7, AckEffect
  <2>2. PICK e \in SettleEvents : /\ unacked' = Released(e.consumer, e.msg.id)
                                  /\ acks' = Add(acks, e.msg.id, 1)
    BY <1>7, AckEffect
  <2>3. e.consumer \in Consumers
    BY DEF SettleEvents
  <2>4. unacked' \in [Consumers -> Seq(Message)]
    BY <2>2, <2>3, ReleasedKeeps
  <2>5. acks' \in [Ids -> Nat]
    BY <2>2, AddCounts DEF HistoryTypeOK
  <2>6. StateTypeOK'
    BY <2>1, <2>4 DEF StateTypeOK
  <2>7. HistoryTypeOK'
    BY <2>1, <2>5 DEF HistoryTypeOK
  <2> QED
    BY <2>1, <2>6, <2>7 DEF EventTypeOK
<1>8. CASE Nack
  <2>1. /\ input' = input /\ Ids' = Ids /\ BagOver(later', LaterEvents)
        /\ urgent' \in Seq(UrgentEvents) /\ fresh' \subseteq Mark
        /\ UNCHANGED <<roundRobin, crashed, crashEpoch, counter, made, acks, confirms>>
    BY <1>8, NackEffect
  <2>2. PICK e \in SettleEvents :
          /\ unacked' = Released(e.consumer, e.msg.id)
          /\ \/ \E queue \in Seq(Entry) :
                  queues' = [queues EXCEPT ![e.queue] = queue] /\ UNCHANGED drops
             \/ \E burial : Leaves(e.msg, e.queue, burial) /\ UNCHANGED queues
    BY <1>8, NackEffect
  <2>3. e.consumer \in Consumers /\ e.queue \in Queues
    BY DEF SettleEvents
  <2>4. unacked' \in [Consumers -> Seq(Message)]
    BY <2>2, <2>3, ReleasedKeeps
  <2>5. queues' \in [Queues -> Seq(Entry)]
    BY <2>2 DEF StateTypeOK
  <2>6. HistoryTypeOK'
    <3>1. CASE UNCHANGED drops
      BY <2>1, <3>1, SameHistory
    <3>2. CASE \E burial : Leaves(e.msg, e.queue, burial)
      BY <2>1, <2>3, <3>2, LeavesType
    <3> QED
      BY <2>2, <3>1, <3>2
  <2>7. StateTypeOK'
    BY <2>1, <2>4, <2>5 DEF StateTypeOK
  <2> QED
    BY <2>1, <2>6, <2>7 DEF EventTypeOK
<1>9. ASSUME NEW e \in DOMAIN later, Route(e) PROVE StateTypeOK' /\ HistoryTypeOK' /\ EventTypeOK'
  <2>1. /\ input' = input /\ Ids' = Ids /\ BagOver(later', LaterEvents)
        /\ confirms' = Add(confirms, e.msg.id, ConfirmsOf(e))
        /\ urgent' = urgent /\ fresh' = FreshNow /\ UNCHANGED <<state, acks>>
    BY <1>9, RouteEffect
  <2>2. PICK T : /\ IsFiniteSet(T)
                 /\ made' = Add(made, e.msg.id, Cardinality(T) - (IF T = {} THEN 0 ELSE 1))
                 /\ drops' = Add(drops, e.msg.id, IF T = {} THEN 1 ELSE 0)
    BY <1>9, RouteEffect
  <2>3. PICK n \in Nat : n = Cardinality(T) - (IF T = {} THEN 0 ELSE 1)
    <3>1. Cardinality(T) \in Nat /\ (T # {} => Cardinality(T) # 0) /\ (T = {} => Cardinality(T) = 0)
      BY <2>2, FS_CardinalityType, FS_EmptySet
    <3> QED
      BY <3>1
  <2>4. PICK m \in Nat : m = IF T = {} THEN 1 ELSE 0
    OBVIOUS
  <2>5. PICK k \in Nat : k = ConfirmsOf(e)
    BY DEF ConfirmsOf
  <2>6. made' \in [Ids -> Nat] /\ drops' \in [Ids -> Nat] /\ confirms' \in [Ids -> Nat]
    <3>1. made' = Add(made, e.msg.id, n) /\ drops' = Add(drops, e.msg.id, m)
          /\ confirms' = Add(confirms, e.msg.id, k)
      BY <2>1, <2>2, <2>3, <2>4, <2>5
    <3> QED
      BY <3>1, AddCounts DEF HistoryTypeOK
  <2>7. HistoryTypeOK'
    BY <2>1, <2>6 DEF HistoryTypeOK
  <2>8. StateTypeOK'
    BY <2>1, SameState
  <2> QED
    BY <2>1, <2>7, <2>8, FreshNowType DEF EventTypeOK
<1>10. ASSUME NEW e \in DOMAIN later, Enqueue(e) PROVE StateTypeOK' /\ HistoryTypeOK' /\ EventTypeOK'
  <2>1. /\ input' = input /\ Ids' = Ids /\ BagOver(later', LaterEvents)
        /\ e \in EnqueueEvents
        /\ urgent' \in Seq(UrgentEvents) /\ fresh' \subseteq Mark /\ Keeps
    BY <1>10, EnqueueEffect
  <2>2. PICK entry \in Entry, grown \in Seq(Entry), kept \in Seq(Entry) : \E timer, burial :
          Enqueued(e, entry, grown, kept, timer, burial)
    BY <1>10, EnqueueEffect
  <2>2a. /\ queues' = [queues EXCEPT ![e.queue] = kept]
         /\ drops' = drops \/ \E msg, burial : Leaves(msg, e.queue, burial)
    BY <2>2 DEF Enqueued
  <2>3. e.queue \in Queues
    BY <2>1 DEF EnqueueEvents
  <2>4. HistoryTypeOK'
    <3>1. CASE drops' = drops
      BY <2>1, <3>1, SameHistory DEF Keeps
    <3>2. ASSUME NEW msg, NEW burial, Leaves(msg, e.queue, burial) PROVE HistoryTypeOK'
      BY <2>1, <2>3, <3>2, LeavesType DEF Keeps
    <3> QED
      BY <2>2a, <3>1, <3>2
  <2>5. StateTypeOK'
    BY <2>1, <2>2, <2>2a DEF Keeps, StateTypeOK
  <2> QED
    BY <2>1, <2>4, <2>5 DEF EventTypeOK
<1>11. ASSUME NEW e \in DOMAIN later, TtlExpire(e) PROVE StateTypeOK' /\ HistoryTypeOK' /\ EventTypeOK'
  <2>1. /\ input' = input /\ Ids' = Ids /\ BagOver(later', LaterEvents)
        /\ e \in TtlEvents
        /\ urgent' = urgent /\ fresh' = FreshNow /\ Keeps
    BY <1>11, TtlExpireEffect
  <2>2. e.queue \in Queues /\ queues[e.queue] \in Seq(Entry)
    BY <2>1 DEF TtlEvents, StateTypeOK
  <2>3. \/ UNCHANGED <<queues, drops>>
        \/ \E i \in 1 .. Len(queues[e.queue]) : \E burial :
             /\ queues' = [queues EXCEPT ![e.queue] = RemoveAt(queues[e.queue], i)]
             /\ Leaves(queues[e.queue][i].msg, e.queue, burial)
    BY <1>11, TtlExpireEffect
  <2>4. CASE UNCHANGED <<queues, drops>>
    <3>1. StateTypeOK' /\ HistoryTypeOK'
      BY <2>1, <2>4, SameHistory DEF Keeps, StateTypeOK
    <3> QED
      BY <2>1, <3>1, FreshNowType DEF EventTypeOK
  <2>5. ASSUME NEW i \in 1 .. Len(queues[e.queue]), NEW burial,
               queues' = [queues EXCEPT ![e.queue] = RemoveAt(queues[e.queue], i)],
               Leaves(queues[e.queue][i].msg, e.queue, burial)
        PROVE  StateTypeOK' /\ HistoryTypeOK' /\ EventTypeOK'
    <3>1. RemoveAt(queues[e.queue], i) \in Seq(Entry)
      BY <2>2, NumberRemoved
    <3>2. StateTypeOK'
      BY <2>1, <2>5, <3>1 DEF Keeps, StateTypeOK
    <3>3. HistoryTypeOK'
      BY <2>1, <2>2, <2>5, LeavesType DEF Keeps
    <3> QED
      BY <2>1, <3>2, <3>3, FreshNowType DEF EventTypeOK
  <2> QED
    BY <2>3, <2>4, <2>5
<1>12. ASSUME NEW e \in DOMAIN later, Deliver(e) \/ ConsumeDone(e)
       PROVE  StateTypeOK' /\ HistoryTypeOK' /\ EventTypeOK'
  <2>1. /\ input' = input /\ Ids' = Ids /\ BagOver(later', LaterEvents)
        /\ urgent' \in Seq(UrgentEvents)
        /\ fresh' = FreshNow /\ UNCHANGED <<state, history>>
    <3>1. urgent \in Seq(UrgentEvents)
      BY DEF EventTypeOK
    <3>2. CASE Deliver(e)
      BY <3>1, <3>2, DeliverEffect
    <3>3. CASE ConsumeDone(e)
      BY <3>3, ConsumeDoneEffect
    <3> QED
      BY <1>12, <3>2, <3>3
  <2>2. StateTypeOK' /\ HistoryTypeOK'
    BY <2>1, SameState, SameHistory DEF history
  <2> QED
    BY <2>1, <2>2, FreshNowType DEF EventTypeOK
<1> QED
  BY <1>1, <1>2, <1>3, <1>4, <1>5, <1>6, <1>7, <1>8, <1>9, <1>10, <1>11, <1>12
     DEF Next, Kernel, Chained, DueEvent, BagToSet

\* Every variable keeps its type, whatever the topology and the script: no
\* message leaves the sets the code declares, no count goes below zero, and no
\* event is scheduled for a node that the topology does not have (EngineState
\* and the payloads of rabbitmq/engine/types.ts).
THEOREM RabbitTypeCorrect == Spec => []TypeOK
<1>1. Init => TypeOK
  BY InitType
<1>2. TypeOK /\ [Next]_vars => TypeOK'
  BY TypeStep
<1> QED
  BY <1>1, <1>2, PTL DEF Spec

-----------------------------------------------------------------------------
(* Routing: topic patterns                                                 *)

\* A word of the pattern covers its piece of the key.
CoversPiece(pattern, key, cut, n) ==
  IF pattern[n] = Hash THEN cut[n - 1] <= cut[n]
  ELSE /\ cut[n] = cut[n - 1] + 1
       /\ pattern[n] \in {Star, key[cut[n]]}

\* The first i words of the pattern cover the first j of the key.
Lays(pattern, key, cut, i, j) ==
  /\ cut \in [0 .. i -> Nat]
  /\ cut[0] = 0 /\ cut[i] = j
  /\ \A n \in 1 .. i : CoversPiece(pattern, key, cut, n)

CoversUpTo(pattern, key, i, j) == \E cut : Lays(pattern, key, cut, i, j)

\* The cuts only grow.
LEMMA CutsGrow ==
  ASSUME NEW pattern, NEW key, NEW i \in Nat, NEW j \in Nat, NEW cut, Lays(pattern, key, cut, i, j)
  PROVE  \A n \in 0 .. i : cut[n] <= j
<1>1. \A n \in 1 .. i : cut[n - 1] <= cut[n]
  <2> TAKE n \in 1 .. i
  <2>1. cut[n - 1] \in Nat /\ CoversPiece(pattern, key, cut, n)
    BY DEF Lays
  <2> QED
    BY <2>1 DEF CoversPiece
<1> DEFINE Over == {m \in Nat : m <= i /\ cut[i - m] > j}
<1>2. ASSUME Over # {} PROVE FALSE
  <2>1. PICK m \in Over : \A k \in Over : m <= k
    BY <1>2, LeastNumber
  <2>2. m # 0
    BY <2>1 DEF Lays
  <2>3. m - 1 \in Nat /\ m - 1 <= i /\ m - 1 \notin Over
    BY <2>1, <2>2
  <2>4. i - m + 1 \in 1 .. i /\ (i - m + 1) - 1 = i - m /\ i - (m - 1) = i - m + 1
    BY <2>1, <2>2
  <2>5. cut[i - m + 1] \in Nat /\ cut[i - m] \in Nat
    BY <2>4 DEF Lays
  <2>6. cut[i - m + 1] <= j
    BY <2>3, <2>4, <2>5
  <2>7. cut[i - m] <= cut[i - m + 1]
    BY <1>1, <2>4
  <2> QED
    BY <2>1, <2>5, <2>6, <2>7
<1>3. ASSUME NEW n \in 0 .. i PROVE cut[n] <= j
  <2>1. cut[n] \in Nat /\ i - n \in Nat /\ i - (i - n) = n /\ i - n <= i
    BY DEF Lays
  <2>2. i - n \notin Over
    BY <1>2
  <2> QED
    BY <2>1, <2>2
<1> QED
  BY <1>3

\* A longer pattern, cut as a shorter one: what is left without its last word.
LEMMA LaysWithoutLast ==
  ASSUME NEW pattern, NEW key, NEW i \in Nat, i # 0, NEW j, NEW cut, Lays(pattern, key, cut, i, j)
  PROVE  CoversUpTo(pattern, key, i - 1, cut[i - 1]) /\ cut[i - 1] \in Nat
<1> DEFINE part == [n \in 0 .. i - 1 |-> cut[n]]
<1>1. part \in [0 .. i - 1 -> Nat] /\ part[0] = 0 /\ part[i - 1] = cut[i - 1] /\ cut[i - 1] \in Nat
  BY DEF Lays
<1>2. \A n \in 1 .. i - 1 : CoversPiece(pattern, key, part, n)
  BY DEF Lays, CoversPiece
<1>3. Lays(pattern, key, part, i - 1, cut[i - 1])
  BY <1>1, <1>2 DEF Lays
<1> QED
  BY <1>1, <1>3 DEF CoversUpTo

\* One more word on the pattern, which covers the piece of the key up to j.
LEMMA LaysWithLast ==
  ASSUME NEW pattern, NEW key, NEW i \in Nat, i # 0, NEW j \in Nat, NEW before \in Nat,
         CoversUpTo(pattern, key, i - 1, before),
         IF pattern[i] = Hash THEN before <= j
         ELSE j = before + 1 /\ pattern[i] \in {Star, key[j]}
  PROVE  CoversUpTo(pattern, key, i, j)
<1>1. PICK part : Lays(pattern, key, part, i - 1, before)
  BY DEF CoversUpTo
<1> DEFINE cut == [n \in 0 .. i |-> IF n = i THEN j ELSE part[n]]
<1>2. \A n \in 0 .. i - 1 : cut[n] = part[n] /\ part[n] \in Nat
  BY <1>1 DEF Lays
<1>3. cut \in [0 .. i -> Nat] /\ cut[i] = j /\ cut[0] = 0 /\ cut[i - 1] = before
  BY <1>1, <1>2 DEF Lays
<1> HIDE DEF cut
<1>4. ASSUME NEW n \in 1 .. i PROVE CoversPiece(pattern, key, cut, n)
  <2>1. CASE n = i
    BY <1>3, <2>1 DEF CoversPiece
  <2>2. CASE n \in 1 .. i - 1
    <3>1. CoversPiece(pattern, key, part, n) /\ n \in 0 .. i - 1 /\ n - 1 \in 0 .. i - 1
      BY <1>1, <2>2 DEF Lays
    <3> QED
      BY <1>2, <3>1 DEF CoversPiece
  <2> QED
    BY <2>1, <2>2
<1>5. Lays(pattern, key, cut, i, j)
  BY <1>3, <1>4 DEF Lays
<1> QED
  BY <1>5 DEF CoversUpTo

\* What the table says of a place, given what it says of those before.
Decided(pattern, key, up, left, across, i, j) ==
  IF i = 0 THEN j = 0
  ELSE IF j = 0 THEN pattern[i] = Hash /\ up
  ELSE IF pattern[i] = Hash THEN up \/ left
  ELSE (pattern[i] = Star \/ pattern[i] = key[j]) /\ across

\* Covering goes by the same table.
LEMMA CoveringDecided ==
  ASSUME NEW pattern, NEW key, NEW i \in Nat, NEW j \in Nat
  PROVE  CoversUpTo(pattern, key, i, j)
           <=> Decided(pattern, key, CoversUpTo(pattern, key, i - 1, j),
                       CoversUpTo(pattern, key, i, j - 1),
                       CoversUpTo(pattern, key, i - 1, j - 1), i, j)
<1>1. CASE i = 0
  <2>1. j = 0 => Lays(pattern, key, [n \in 0 .. 0 |-> 0], 0, 0)
    BY DEF Lays
  <2>2. CoversUpTo(pattern, key, 0, j) => j = 0
    BY DEF CoversUpTo, Lays
  <2>3. CoversUpTo(pattern, key, 0, j) <=> j = 0
    BY <2>1, <2>2 DEF CoversUpTo
  <2> QED
    BY <1>1, <2>3 DEF Decided
<1>2. ASSUME i # 0, CoversUpTo(pattern, key, i, j)
      PROVE  \E before \in Nat :
               /\ CoversUpTo(pattern, key, i - 1, before) /\ before <= j
               /\ pattern[i] # Hash => j = before + 1 /\ pattern[i] \in {Star, key[j]}
  <2>1. PICK cut : Lays(pattern, key, cut, i, j)
    BY <1>2 DEF CoversUpTo
  <2>2. CoversUpTo(pattern, key, i - 1, cut[i - 1]) /\ cut[i - 1] \in Nat
    BY <1>2, <2>1, LaysWithoutLast
  <2>3. CoversPiece(pattern, key, cut, i) /\ cut[i] = j
    BY <1>2, <2>1 DEF Lays
  <2> QED
    BY <2>2, <2>3 DEF CoversPiece
<1>3. CASE i # 0 /\ j = 0
  <2>1. CoversUpTo(pattern, key, i, 0) => pattern[i] = Hash /\ CoversUpTo(pattern, key, i - 1, 0)
    BY <1>2, <1>3
  <2>2. pattern[i] = Hash /\ CoversUpTo(pattern, key, i - 1, 0) => CoversUpTo(pattern, key, i, 0)
    BY <1>3, LaysWithLast
  <2> QED
    BY <1>3, <2>1, <2>2 DEF Decided
<1>4. CASE i # 0 /\ j # 0 /\ pattern[i] = Hash
  <2>1. ASSUME CoversUpTo(pattern, key, i, j), ~CoversUpTo(pattern, key, i - 1, j)
        PROVE  CoversUpTo(pattern, key, i, j - 1)
    <3>1. PICK before \in Nat : CoversUpTo(pattern, key, i - 1, before) /\ before <= j
      BY <1>2, <1>4, <2>1
    <3>2. before <= j - 1 /\ j - 1 \in Nat
      BY <1>4, <2>1, <3>1
    <3> QED
      BY <1>4, <3>1, <3>2, LaysWithLast
  <2>2. CoversUpTo(pattern, key, i - 1, j) => CoversUpTo(pattern, key, i, j)
    BY <1>4, LaysWithLast
  <2>3. ASSUME CoversUpTo(pattern, key, i, j - 1) PROVE CoversUpTo(pattern, key, i, j)
    <3>1. j - 1 \in Nat
      BY <1>4
    <3>2. PICK cut : Lays(pattern, key, cut, i, j - 1)
      BY <2>3 DEF CoversUpTo
    <3>3. CoversUpTo(pattern, key, i - 1, cut[i - 1]) /\ cut[i - 1] \in Nat
      BY <1>4, <3>2, LaysWithoutLast
    <3>4. cut[i - 1] <= j
      <4>1. cut[i - 1] <= j - 1
        BY <1>4, <3>1, <3>2, CutsGrow
      <4> QED
        BY <3>3, <4>1
    <3> QED
      BY <1>4, <3>3, <3>4, LaysWithLast
  <2> QED
    BY <1>4, <2>1, <2>2, <2>3 DEF Decided
<1>5. CASE i # 0 /\ j # 0 /\ pattern[i] # Hash
  <2>1. ASSUME CoversUpTo(pattern, key, i, j)
        PROVE  (pattern[i] = Star \/ pattern[i] = key[j]) /\ CoversUpTo(pattern, key, i - 1, j - 1)
    <3>1. PICK before \in Nat : /\ CoversUpTo(pattern, key, i - 1, before)
                                /\ j = before + 1 /\ pattern[i] \in {Star, key[j]}
      BY <1>2, <1>5, <2>1
    <3>2. before = j - 1
      BY <3>1
    <3> QED
      BY <3>1, <3>2
  <2>2. ASSUME pattern[i] = Star \/ pattern[i] = key[j], CoversUpTo(pattern, key, i - 1, j - 1)
        PROVE  CoversUpTo(pattern, key, i, j)
    <3>1. j - 1 \in Nat /\ j = (j - 1) + 1 /\ pattern[i] \in {Star, key[j]}
      BY <1>5, <2>2
    <3> QED
      BY <1>5, <2>2, <3>1, LaysWithLast
  <2> QED
    BY <1>5, <2>1, <2>2 DEF Decided
<1> QED
  BY <1>1, <1>3, <1>4, <1>5

\* The table of a pattern and a key holds what is covered.
LEMMA TableIsCovering ==
  ASSUME NEW pattern, NEW key, Len(pattern) \in Nat, Len(key) \in Nat
  PROVE  \A i \in 0 .. Len(pattern), j \in 0 .. Len(key) :
           Table(pattern, key)[<<i, j>>] <=> CoversUpTo(pattern, key, i, j)
<1> DEFINE P == Places(pattern, key)
           Cell(F, at) == IF at[1] = 0 THEN at[2] = 0
                           ELSE IF at[2] = 0 THEN pattern[at[1]] = Hash /\ F[<<at[1] - 1, 0>>]
                           ELSE IF pattern[at[1]] = Hash
                           THEN F[<<at[1] - 1, at[2]>>] \/ F[<<at[1], at[2] - 1>>]
                           ELSE /\ pattern[at[1]] = Star \/ pattern[at[1]] = key[at[2]]
                                /\ F[<<at[1] - 1, at[2] - 1>>]
           Filled(F) == F = [at \in P |-> Cell(F, at)]
           C == [at \in P |-> CoversUpTo(pattern, key, at[1], at[2])]
           T == Table(pattern, key)
<1>1. ASSUME NEW at \in P
      PROVE  /\ at[1] \in Nat /\ at[2] \in Nat /\ at = <<at[1], at[2]>>
             /\ at[1] # 0 => <<at[1] - 1, at[2]>> \in P
             /\ at[2] # 0 => <<at[1], at[2] - 1>> \in P
             /\ at[1] # 0 /\ at[2] # 0 => <<at[1] - 1, at[2] - 1>> \in P
  BY DEF Places
<1>2. ASSUME NEW at \in P PROVE C[at] = Cell(C, at)
  <2> DEFINE i == at[1]
             j == at[2]
  <2>1. i \in Nat /\ j \in Nat
    BY <1>1
  <2>2. CoversUpTo(pattern, key, i, j)
          <=> Decided(pattern, key, CoversUpTo(pattern, key, i - 1, j),
                      CoversUpTo(pattern, key, i, j - 1),
                      CoversUpTo(pattern, key, i - 1, j - 1), i, j)
    BY <2>1, CoveringDecided
  <2>3. /\ i # 0 => C[<<i - 1, j>>] = CoversUpTo(pattern, key, i - 1, j)
        /\ j # 0 => C[<<i, j - 1>>] = CoversUpTo(pattern, key, i, j - 1)
        /\ i # 0 /\ j # 0 => C[<<i - 1, j - 1>>] = CoversUpTo(pattern, key, i - 1, j - 1)
        /\ C[at] = CoversUpTo(pattern, key, i, j)
    BY <1>1
  <2> HIDE DEF C, P
  <2>4. C[at] <=> Cell(C, at)
    BY <2>2, <2>3 DEF Decided
  <2>5. C[at] \in BOOLEAN
    <3>1. CoversUpTo(pattern, key, i, j) \in BOOLEAN
      BY DEF CoversUpTo
    <3> QED
      BY <2>3, <3>1
  <2>6. Cell(C, at) \in BOOLEAN
    <3>1. CASE i = 0
      BY <3>1
    <3>2. CASE i # 0 /\ j = 0
      BY <3>2
    <3>3. CASE i # 0 /\ j # 0 /\ pattern[i] = Hash
      BY <3>3
    <3>4. CASE i # 0 /\ j # 0 /\ pattern[i] # Hash
      BY <3>4
    <3> QED
      BY <3>1, <3>2, <3>3, <3>4
  <2> HIDE DEF Cell
  <2> QED
    BY <2>4, <2>5, <2>6
<1>3. Filled(C)
  <2>1. C = [at \in P |-> C[at]]
    OBVIOUS
  <2> HIDE DEF C, Cell, P
  <2> QED
    BY <1>2, <2>1
<1>4. T = CHOOSE F : Filled(F)
  BY DEF Table
<1>5. Filled(T)
  <2> HIDE DEF Filled, C, T
  <2> QED
    BY <1>3, <1>4
<1> DEFINE Wrong == {s \in Nat : \E at \in P : at[1] + at[2] = s /\ ~(T[at] <=> C[at])}
<1>6. ASSUME Wrong # {} PROVE FALSE
  <2>1. PICK s \in Wrong : \A k \in Wrong : s <= k
    BY <1>6, LeastNumber
  <2>2. PICK at \in P : at[1] + at[2] = s /\ ~(T[at] <=> C[at])
    BY <2>1
  <2>3. ASSUME NEW b \in P, b[1] + b[2] < s PROVE T[b] <=> C[b]
    <3> HIDE DEF T, C
    <3>1. b[1] \in Nat /\ b[2] \in Nat
      BY <1>1, <2>3
    <3>2. b[1] + b[2] \in Nat
      BY <3>1
    <3> QED
      BY <2>1, <2>3, <3>2
  <2> DEFINE i == at[1]
             j == at[2]
  <2>4. /\ i # 0 => (T[<<i - 1, j>>] <=> C[<<i - 1, j>>])
        /\ j # 0 => (T[<<i, j - 1>>] <=> C[<<i, j - 1>>])
        /\ i # 0 /\ j # 0 => (T[<<i - 1, j - 1>>] <=> C[<<i - 1, j - 1>>])
    <3> HIDE DEF T, C
    <3> QED
      BY <1>1, <2>2, <2>3
  <2>5. T[at] = Cell(T, at)
    <3> HIDE DEF T
    <3> QED
      BY <1>5
  <2>6. Cell(T, at) <=> Cell(C, at)
    <3> HIDE DEF T, C, P
    <3> QED
      BY <2>4
  <2> QED
    BY <1>2, <2>2, <2>5, <2>6
<1>7. ASSUME NEW i \in 0 .. Len(pattern), NEW j \in 0 .. Len(key)
      PROVE  T[<<i, j>>] <=> CoversUpTo(pattern, key, i, j)
  <2>1. <<i, j>> \in P
    BY DEF Places
  <2>2. C[<<i, j>>] <=> CoversUpTo(pattern, key, i, j)
    BY <2>1
  <2>3. <<i, j>>[1] + <<i, j>>[2] \in Nat
    OBVIOUS
  <2> HIDE DEF T, C, P
  <2> QED
    BY <1>6, <2>1, <2>2, <2>3
<1> QED
  BY <1>7

\* A topic exchange matches a pattern with a key exactly when the pattern's words
\* cover the key, # standing for any number of words, none included.
\* (matchTopic fills a table; nobody looks at the cuts.)
THEOREM TopicMatchingIsCovering ==
  ASSUME NEW W, NEW pattern \in Seq(W), NEW key \in Seq(W)
  PROVE  MatchTopic(pattern, key) <=> Covers(pattern, key)
<1> DEFINE I == Len(pattern)
           J == Len(key)
<1>1. I \in Nat /\ J \in Nat
  OBVIOUS
<1>2. MatchTopic(pattern, key) <=> CoversUpTo(pattern, key, I, J)
  BY <1>1, TableIsCovering DEF MatchTopic
<1>3. Covers(pattern, key) => CoversUpTo(pattern, key, I, J)
  <2>1. ASSUME NEW cut \in [0 .. I -> 0 .. J], cut[0] = 0, cut[I] = J,
               \A i \in 1 .. I : CoversPiece(pattern, key, cut, i)
        PROVE  Lays(pattern, key, cut, I, J)
    BY <2>1 DEF Lays
  <2> QED
    BY <2>1 DEF Covers, CoversUpTo, CoversPiece
<1>4. CoversUpTo(pattern, key, I, J) => Covers(pattern, key)
  <2> SUFFICES ASSUME NEW cut, Lays(pattern, key, cut, I, J)
               PROVE  Covers(pattern, key)
    BY DEF CoversUpTo
  <2>1. \A n \in 0 .. I : cut[n] <= J /\ cut[n] \in Nat
    BY <1>1, CutsGrow DEF Lays
  <2>2. cut \in [0 .. I -> 0 .. J]
    BY <1>1, <2>1 DEF Lays
  <2> QED
    BY <2>2 DEF Covers, Lays, CoversPiece
<1> QED
  BY <1>2, <1>3, <1>4

-----------------------------------------------------------------------------
(* Routing: destinations                                                   *)

MatchedAt(type, bindings, message, i) == MatchBinding(type, bindings[i], message)

\* The first binding that leads to a destination.
LeadsFirst(type, bindings, message, d, i) ==
  /\ MatchedAt(type, bindings, message, i) /\ bindings[i].destination = d
  /\ \A j \in 1 .. i - 1 : ~(MatchedAt(type, bindings, message, j) /\ bindings[j].destination = d)

FirstTo(type, bindings, message, d) ==
  CHOOSE i \in DOMAIN bindings : LeadsFirst(type, bindings, message, d, i)

\* Where the first k bindings that match lead.
Reached(type, bindings, message, k) ==
  {bindings[i].destination : i \in {j \in 1 .. k : MatchedAt(type, bindings, message, j)}}

CollectStep(type, message, hits, b) ==
  IF MatchBinding(type, b, message) THEN Collect(hits, b.destination) ELSE hits

CollectedSoFar(ctx, k, hits) ==
  /\ hits \in Seq(Range(hits))
  /\ Range(hits) = Reached(ctx.type, ctx.bindings, ctx.message, k)
  /\ \A m, n \in DOMAIN hits : m < n =>
       FirstTo(ctx.type, ctx.bindings, ctx.message, hits[m])
         < FirstTo(ctx.type, ctx.bindings, ctx.message, hits[n])

CollectFold == INSTANCE LeftFold WITH Op <- CollectStep, Inv <- CollectedSoFar

\* Of the bindings that lead to a destination there is a first one.
LEMMA FirstLeads ==
  ASSUME NEW type, NEW message, NEW bindings, NEW n \in Nat, DOMAIN bindings = 1 .. n,
         NEW i \in 1 .. n, MatchedAt(type, bindings, message, i)
  PROVE  LET f == FirstTo(type, bindings, message, bindings[i].destination)
         IN f \in 1 .. i /\ LeadsFirst(type, bindings, message, bindings[i].destination, f)
<1> DEFINE d == bindings[i].destination
           Leading == {j \in Nat : /\ j \in 1 .. n /\ MatchedAt(type, bindings, message, j)
                                   /\ bindings[j].destination = d}
           f == FirstTo(type, bindings, message, d)
<1>1. i \in Leading
  OBVIOUS
<1>2. PICK j \in Leading : \A k \in Leading : j <= k
  BY <1>1, LeastNumber
<1>3. ASSUME NEW k \in 1 .. j - 1, MatchedAt(type, bindings, message, k), bindings[k].destination = d
      PROVE  FALSE
  <2>1. k \in 1 .. n /\ k \in Nat /\ ~(j <= k)
    OBVIOUS
  <2>2. k \in Leading
    BY <1>3, <2>1
  <2> QED
    BY <1>2, <2>1, <2>2
<1>4. LeadsFirst(type, bindings, message, d, j)
  BY <1>2, <1>3 DEF LeadsFirst
<1>5. f \in DOMAIN bindings /\ LeadsFirst(type, bindings, message, d, f)
  BY <1>4 DEF FirstTo, LeadsFirst
<1>6. f \in 1 .. i
  <2> HIDE DEF f
  <2>1. f \in 1 .. n
    BY <1>5
  <2>2. ~(i \in 1 .. f - 1)
    BY <1>5 DEF LeadsFirst
  <2> QED
    BY <2>1, <2>2
<1> QED
  BY <1>5, <1>6

\* What the first k bindings reach is what those before the last do, and the last.
LEMMA ReachedNext ==
  ASSUME NEW type, NEW message, NEW bindings, NEW k \in Nat, k # 0
  PROVE  Reached(type, bindings, message, k)
           = Reached(type, bindings, message, k - 1)
             \cup IF MatchedAt(type, bindings, message, k) THEN {bindings[k].destination} ELSE {}
<1>1. 1 .. k = (1 .. k - 1) \cup {k}
  OBVIOUS
<1> QED
  BY <1>1 DEF Reached

\* One more element at the end.
LEMMA OneMore ==
  ASSUME NEW S, NEW hits \in Seq(S), NEW d
  PROVE  LET more == Append(hits, d)
         IN /\ more \in Seq(S \cup {d})
            /\ DOMAIN more = 1 .. Len(hits) + 1 /\ Len(hits) \in Nat /\ DOMAIN hits = 1 .. Len(hits)
            /\ \A m \in 1 .. Len(hits) : more[m] = hits[m]
            /\ more[Len(hits) + 1] = d
  OBVIOUS

\* Every destination of a matching binding is among those an exchange resolves to, no
\* other one is, each is there once, and they come in the order of the bindings that
\* lead to them first, for every exchange type, list of bindings and message.
\* (resolveDestinations: "Every matching binding, deduplicated by destination, in
\* binding order".)
THEOREM DestinationsAreRight ==
  ASSUME NEW type, NEW message, NEW B, NEW bindings \in Seq(B)
  PROVE  IsDestinationList(ResolveDestinations(type, bindings, message), type, bindings, message)
<1> DEFINE n == Len(bindings)
           ctx == [type |-> type, bindings |-> bindings, message |-> message]
           R(k) == Reached(type, bindings, message, k)
           F(d) == FirstTo(type, bindings, message, d)
<1>1. n \in Nat /\ DOMAIN bindings = 1 .. n
  OBVIOUS
<1>2. CollectedSoFar(ctx, 0, <<>>)
  <2>1. Range(<<>>) = {} /\ R(0) = {} /\ DOMAIN <<>> = {} /\ <<>> \in Seq({})
    BY DEF Range, Reached
  <2> HIDE DEF R
  <2> QED
    BY <2>1 DEF CollectedSoFar, R
<1>3. ASSUME NEW i \in 1 .. n, NEW hits, CollectedSoFar(ctx, i - 1, hits)
      PROVE  CollectedSoFar(ctx, i, CollectStep(type, message, hits, bindings[i]))
  <2> DEFINE d == bindings[i].destination
             more == Append(hits, d)
  <2>1. /\ hits \in Seq(Range(hits)) /\ Range(hits) = R(i - 1)
        /\ \A p, q \in DOMAIN hits : p < q => F(hits[p]) < F(hits[q])
    BY <1>3 DEF CollectedSoFar
  <2>2. i \in Nat /\ i # 0
    OBVIOUS
  <2>3. R(i) = R(i - 1) \cup IF MatchedAt(type, bindings, message, i) THEN {d} ELSE {}
    BY <2>2, ReachedNext
  <2>4. CASE ~MatchBinding(type, bindings[i], message)
    BY <2>1, <2>3, <2>4 DEF CollectStep, CollectedSoFar, MatchedAt
  <2>5. CASE MatchBinding(type, bindings[i], message) /\ d \in Range(hits)
    <3>1. R(i) = R(i - 1) \cup {d} /\ d \in R(i - 1)
      BY <2>1, <2>3, <2>5 DEF MatchedAt
    <3>2. CollectStep(type, message, hits, bindings[i]) = hits /\ R(i) = R(i - 1)
      BY <2>5, <3>1 DEF CollectStep, Collect
    <3> QED
      BY <2>1, <3>2 DEF CollectedSoFar
  <2>6. CASE MatchBinding(type, bindings[i], message) /\ d \notin Range(hits)
    <3>1. CollectStep(type, message, hits, bindings[i]) = more
      BY <2>6 DEF CollectStep, Collect
    <3>2. /\ more \in Seq(Range(hits) \cup {d})
          /\ DOMAIN more = 1 .. Len(hits) + 1 /\ Len(hits) \in Nat /\ DOMAIN hits = 1 .. Len(hits)
          /\ \A m \in 1 .. Len(hits) : more[m] = hits[m]
          /\ more[Len(hits) + 1] = d
      BY <2>1, OneMore
    <3> HIDE DEF more, d
    <3>3. Range(more) = Range(hits) \cup {d}
      BY <3>2 DEF Range
    <3>4. R(i) = R(i - 1) \cup {d}
      BY <2>3, <2>6 DEF MatchedAt
    <3>5. ASSUME NEW x \in R(i - 1) PROVE F(x) \in 1 .. i - 1
      <4>1. PICK j \in 1 .. i - 1 : MatchedAt(type, bindings, message, j) /\ bindings[j].destination = x
        BY DEF Reached
      <4>2. j \in 1 .. n
        BY <1>1
      <4>3. F(x) \in 1 .. j
        BY <1>1, <4>1, <4>2, FirstLeads
      <4> QED
        BY <1>1, <4>3
    <3>6. F(d) = i
      <4>1. F(d) \in 1 .. i /\ LeadsFirst(type, bindings, message, d, F(d))
        BY <1>1, <2>6, FirstLeads DEF MatchedAt, d
      <4>2. ASSUME F(d) \in 1 .. i - 1 PROVE FALSE
        <5>1. d \in R(i - 1)
          BY <4>1, <4>2 DEF LeadsFirst, Reached
        <5> QED
          BY <2>1, <2>6, <5>1
      <4> HIDE DEF F
      <4> QED
        BY <1>1, <4>1, <4>2
    <3>7. ASSUME NEW p \in DOMAIN more, NEW q \in DOMAIN more, p < q
          PROVE  F(more[p]) < F(more[q])
      <4> HIDE DEF F, R
      <4>1. CASE q = Len(hits) + 1
        <5>1. p \in DOMAIN hits /\ more[p] = hits[p] /\ more[q] = d
          BY <3>2, <3>7, <4>1
        <5>2. hits[p] \in R(i - 1)
          BY <2>1, <5>1 DEF Range
        <5>3. F(hits[p]) \in 1 .. i - 1
          BY <3>5, <5>2
        <5> QED
          BY <1>1, <3>6, <5>1, <5>3
      <4>2. CASE q # Len(hits) + 1
        <5>1. /\ p \in DOMAIN hits /\ more[p] = hits[p]
              /\ q \in DOMAIN hits /\ more[q] = hits[q]
          BY <3>2, <3>7, <4>2
        <5> QED
          BY <2>1, <3>7, <5>1
      <4> QED
        BY <4>1, <4>2
    <3> QED
      BY <2>1, <3>1, <3>2, <3>3, <3>4, <3>7 DEF CollectedSoFar
  <2> QED
    BY <2>4, <2>5, <2>6
<1> DEFINE hits == CollectFold!Folded(type, message, <<>>, bindings)
<1>4. CollectedSoFar(ctx, n, hits)
  <2> HIDE DEF ctx
  <2> QED
    BY <1>1, <1>2, <1>3, CollectFold!FoldKeeps
<1>5. ResolveDestinations(type, bindings, message) = hits
  BY DEF ResolveDestinations, CollectFold!Folded, CollectStep, FoldLeft, CollectFold!FoldLeft,
         MapThenFoldSet, CollectFold!MapThenFoldSet, Max, CollectFold!Max
<1> HIDE DEF hits
<1>6. /\ Range(hits) = R(n)
      /\ \A p, q \in DOMAIN hits : p < q => F(hits[p]) < F(hits[q])
  BY <1>4 DEF CollectedSoFar
<1>7. R(n) = {bindings[i].destination : i \in {k \in DOMAIN bindings : MatchBinding(type, bindings[k], message)}}
  BY <1>1 DEF Reached, MatchedAt
<1>8. IsDestinationList(hits, type, bindings, message)
  BY <1>6, <1>7 DEF IsDestinationList, FirstTo, LeadsFirst, MatchedAt
<1> QED
  BY <1>5, <1>8
===============================================================================
